------------------------------- MODULE MCBoot -------------------------------
(***************************************************************************)
(* Small policies for TLC: documents of up to two rules out of ten that    *)
(* differ in action, callers, models and caps, and of three rules out of   *)
(* six of them.  The models are a, ab and b, so that a* matches two.       *)
(***************************************************************************)
EXTENDS Boot

CONSTANTS kate, liam

A == <<"a">>
AB == <<"a", "b">>
B == <<"b">>

MCTexts == {A, AB, B}

Exactly(text) == [text |-> text, wild |-> FALSE]
StartingWith(text) == [text |-> text, wild |-> TRUE]

R(name, action, keys, models, tokens, bytes) ==
  [name |-> name, action |-> action, enabled |-> TRUE, caller_keys |-> keys,
   allowed_models |-> models, max_tokens |-> tokens,
   max_request_bytes |-> bytes]

Off(rule) == [rule EXCEPT !.enabled = FALSE]

MCRules ==
  { R("all", "allow", None, None, None, None),
    R("kate", "allow", {kate}, {StartingWith(A)}, 2, None),
    R("capped", "allow", None, {Exactly(AB), StartingWith(B)}, 1, 2),
    R("small", "allow", {liam}, None, None, 1),
    R("nothing", "allow", None, {}, None, None),
    R("noB", "deny", None, {Exactly(B)}, None, None),
    R("noLiam", "deny", {liam}, {StartingWith(A)}, 1, None),
    R(Blank, "allow", None, None, None, None),
    Off(R(Blank, "deny", None, None, None, None)),
    Off(R("off", "deny", None, None, None, None)) }

SomeRules ==
  {rule \in MCRules :
     rule.name \in {"all", "kate", "capped", "small", "noB", "noLiam"}}

MCConfigs ==
  {[caller_keys |-> {kate, liam}, policy |-> document] :
     document \in UNION {[1 .. n -> MCRules] : n \in 0 .. 2}
                   \cup [1 .. 3 -> SomeRules]}
  \cup {[caller_keys |-> {}, policy |-> <<>>]}

Question(caller, model, tokens, bytes) ==
  [caller_key |-> caller, model |-> model, max_tokens |-> tokens,
   request_bytes |-> bytes]

MCRequests ==
  { Question(kate, A, 2, 1), Question(kate, AB, None, 2), Question(kate, B, 1, 3),
    Question(liam, AB, 1, 2), Question(liam, B, 2, 1), Question(liam, A, None, 1) }
=============================================================================
