------------------------------- MODULE Policy -------------------------------
(***************************************************************************)
(* The policy engine (policy.rs) with the part of the boot configuration   *)
(* it comes from (config.rs): a document of rules is validated and split   *)
(* into deny and allow rules once, when the enclave boots, and then every  *)
(* authenticated request is put through the rules, deny rules first.       *)
(*                                                                         *)
(* `compile` and `evaluate` are loops with early exits; a step here is one *)
(* round of a loop.  Nothing else happens in between: evaluate is          *)
(* synchronous and reads only what boot has left.                          *)
(***************************************************************************)
EXTENDS Integers, Sequences, SequencesExt

CONSTANTS
  Configs,      \* the boot configurations operators may deliver
  Requests,     \* what evaluate sees of a request, see Request
  Callers,      \* bearer keys
  Texts,        \* model names and the fixed part of patterns, as sequences
  Names,        \* rule names that do not trim to nothing
  Blank,        \* a rule name that does
  None          \* an Option that is not there

(* A pattern ends in `*` (wild) or is meant literally.                     *)
Pattern == [text : Texts, wild : BOOLEAN]

Rule ==
  [name : Names \cup {Blank}, action : {"allow", "deny"}, enabled : BOOLEAN,
   caller_keys : {None} \cup SUBSET Callers,
   allowed_models : {None} \cup SUBSET Pattern,
   max_tokens : Nat \cup {None}, max_request_bytes : Nat \cup {None}]

Config == [caller_keys : SUBSET Callers, policy : Seq(Rule)]

Request ==
  [caller_key : Callers, model : Texts, max_tokens : Nat \cup {None},
   request_bytes : Nat]

ASSUME PolicyAssumption ==
  /\ Configs \subseteq Config
  /\ Requests \subseteq Request
  /\ Blank \notin Names
  /\ None \notin Nat
  /\ \A keys \in SUBSET Callers : keys # None
  /\ \A patterns \in SUBSET Pattern : patterns # None

VARIABLES
  stage,     \* of the process, see Stages
  raw,       \* the RawConfig that was delivered
  deny,      \* CompiledPolicy.deny
  allow,     \* CompiledPolicy.allow
  at,        \* the round of the running loop
  request,   \* the request being evaluated
  errors,    \* its soft skips so far: the names of the rules
  verdict    \* the last decision, with the config_hash its receipt carries

vars == <<stage, raw, deny, allow, at, request, errors, verdict>>

Stages == {"off", "compiling", "failed", "serving", "denying", "allowing"}
Loaded == {"serving", "denying", "allowing"}

(* What a decision comes to: let through by a rule, denied by a rule, or   *)
(* refused by every allow rule, `skipped` being the diagnostics.           *)
Verdict ==
  [request : Requests, config_hash : Seq(Rule),
   result : {"allowed", "denied", "unmatched"},
   by : Names \cup {None}, skipped : Seq(Names)]

-----------------------------------------------------------------------------
(* ModelMatcher: exact names and prefixes, split apart.  An empty list of  *)
(* patterns is a matcher that matches nothing.                             *)
Matcher == [exact : SUBSET Texts, prefixes : SUBSET Texts]

ASSUME MatcherAssumption == None \notin Matcher

CompileMatcher(patterns) ==
  [exact |-> {p.text : p \in {q \in patterns : ~q.wild}},
   prefixes |-> {p.text : p \in {q \in patterns : q.wild}}]

MatcherMatches(matcher, model) ==
  \/ model \in matcher.exact
  \/ \E p \in matcher.prefixes : IsPrefix(p, model)

CompiledRule ==
  [name : Names, caller_keys : {None} \cup SUBSET Callers,
   model_matcher : {None} \cup Matcher,
   max_tokens : Nat \cup {None}, max_request_bytes : Nat \cup {None}]

CompileRule(rule) ==
  [name |-> rule.name, caller_keys |-> rule.caller_keys,
   model_matcher |-> IF rule.allowed_models = None THEN None
                     ELSE CompileMatcher(rule.allowed_models),
   max_tokens |-> rule.max_tokens,
   max_request_bytes |-> rule.max_request_bytes]

AppliesToCaller(rule, caller) ==
  rule.caller_keys # None => caller \in rule.caller_keys

ModelOk(rule, model) ==
  rule.model_matcher # None => MatcherMatches(rule.model_matcher, model)

TokensOkIfGiven(rule, r) ==                                \* mutant
  rule.max_tokens # None /\ r.max_tokens # None
    => r.max_tokens <= rule.max_tokens

(* No max_tokens in the request means unbounded, which no cap lets pass.   *)
TokensOk(rule, r) ==
  rule.max_tokens # None =>
    r.max_tokens # None /\ r.max_tokens <= rule.max_tokens

BytesOk(rule, r) ==
  rule.max_request_bytes # None => r.request_bytes <= rule.max_request_bytes

Fits(rule, r) == ModelOk(rule, r.model) /\ TokensOk(rule, r) /\ BytesOk(rule, r)

-----------------------------------------------------------------------------
Init ==
  /\ stage = "off"
  /\ raw = None
  /\ deny = <<>> /\ allow = <<>>
  /\ at = 1
  /\ request = None
  /\ errors = <<>>
  /\ verdict = None

(* from_raw: no caller keys, no gateway.                                   *)
Boot(config) ==
  /\ stage = "off"
  /\ raw' = config
  /\ stage' = IF config.caller_keys = {} THEN "failed" ELSE "compiling"
  /\ UNCHANGED <<deny, allow, at, request, errors, verdict>>

Keep(rule) ==
  IF rule.action = "deny"
  THEN deny' = Append(deny, CompileRule(rule)) /\ UNCHANGED allow
  ELSE allow' = Append(allow, CompileRule(rule)) /\ UNCHANGED deny

CompileNextUnchecked ==                                    \* mutant
  /\ stage = "compiling" /\ at <= Len(raw.policy)
  /\ at' = at + 1
  /\ IF raw.policy[at].enabled THEN Keep(raw.policy[at])
     ELSE UNCHANGED <<deny, allow>>
  /\ UNCHANGED <<stage, raw, request, errors, verdict>>

(* A disabled rule is skipped before anything about it is checked.         *)
CompileNext ==
  /\ stage = "compiling" /\ at <= Len(raw.policy)
  /\ at' = at + 1
  /\ \/ /\ ~raw.policy[at].enabled
        /\ UNCHANGED <<stage, deny, allow>>
     \/ /\ raw.policy[at].enabled /\ raw.policy[at].name = Blank
        /\ stage' = "failed" /\ UNCHANGED <<deny, allow>>
     \/ /\ raw.policy[at].enabled /\ raw.policy[at].name # Blank
        /\ Keep(raw.policy[at]) /\ UNCHANGED stage
  /\ UNCHANGED <<raw, request, errors, verdict>>

Compiled ==
  /\ stage = "compiling" /\ at > Len(raw.policy)
  /\ stage' = "serving"
  /\ UNCHANGED <<raw, deny, allow, at, request, errors, verdict>>

-----------------------------------------------------------------------------
(* Only a caller with a configured key gets as far as the policy.          *)
Evaluate(r) ==
  /\ stage = "serving"
  /\ r.caller_key \in raw.caller_keys
  /\ request' = r
  /\ errors' = <<>>
  /\ at' = 1
  /\ stage' = "denying"
  /\ verdict' = None
  /\ UNCHANGED <<raw, deny, allow>>

(* config_hash is of the document delivered at boot, as it was delivered.  *)
Decide(result, by) ==
  /\ verdict' = [request |-> request, config_hash |-> raw.policy,
                 result |-> result, by |-> by, skipped |-> errors']
  /\ stage' = "serving"
  /\ request' = None
  /\ UNCHANGED <<raw, deny, allow, at>>

DenyNextMatchingCaller ==                                  \* mutant
  /\ stage = "denying" /\ at <= Len(deny)
  /\ UNCHANGED errors
  /\ IF AppliesToCaller(deny[at], request.caller_key)
     THEN IF ModelOk(deny[at], request.model)
          THEN Decide("denied", deny[at].name)
          ELSE /\ stage' = "allowing" /\ at' = 1
               /\ UNCHANGED <<raw, deny, allow, request, verdict>>
     ELSE at' = at + 1 /\ UNCHANGED <<stage, raw, deny, allow, request, verdict>>

(* Caps on a deny rule are not looked at.                                  *)
DenyNext ==
  /\ stage = "denying" /\ at <= Len(deny)
  /\ UNCHANGED errors
  /\ IF /\ AppliesToCaller(deny[at], request.caller_key)
        /\ ModelOk(deny[at], request.model)
     THEN Decide("denied", deny[at].name)
     ELSE at' = at + 1 /\ UNCHANGED <<stage, raw, deny, allow, request, verdict>>

NotDenied ==
  /\ stage = "denying" /\ at > Len(deny)
  /\ stage' = "allowing" /\ at' = 1
  /\ UNCHANGED <<raw, deny, allow, request, errors, verdict>>

AllowNextGivingUp ==                                       \* mutant
  /\ stage = "allowing" /\ at <= Len(allow)
  /\ LET rule == allow[at] IN
     \/ /\ ~AppliesToCaller(rule, request.caller_key)
        /\ at' = at + 1
        /\ UNCHANGED <<stage, raw, deny, allow, request, errors, verdict>>
     \/ /\ AppliesToCaller(rule, request.caller_key)
        /\ ~Fits(rule, request)
        /\ errors' = Append(errors, rule.name)
        /\ Decide("unmatched", None)
     \/ /\ AppliesToCaller(rule, request.caller_key)
        /\ Fits(rule, request)
        /\ UNCHANGED errors
        /\ Decide("allowed", rule.name)

(* A rule for other callers is passed over in silence; one that applies    *)
(* but does not fit is a soft skip.                                        *)
AllowNext ==
  /\ stage = "allowing" /\ at <= Len(allow)
  /\ LET rule == allow[at] IN
     \/ /\ ~AppliesToCaller(rule, request.caller_key)
        /\ at' = at + 1
        /\ UNCHANGED <<stage, raw, deny, allow, request, errors, verdict>>
     \/ /\ AppliesToCaller(rule, request.caller_key)
        /\ ~Fits(rule, request)
        /\ errors' = Append(errors, rule.name)
        /\ at' = at + 1
        /\ UNCHANGED <<stage, raw, deny, allow, request, verdict>>
     \/ /\ AppliesToCaller(rule, request.caller_key)
        /\ Fits(rule, request)
        /\ UNCHANGED errors
        /\ Decide("allowed", rule.name)

Exhausted ==
  /\ stage = "allowing" /\ at > Len(allow)
  /\ UNCHANGED errors
  /\ Decide("unmatched", None)

(* The process ends, and another may boot with another configuration.      *)
Restart ==
  /\ stage # "off"
  /\ stage' = "off"
  /\ raw' = None
  /\ deny' = <<>> /\ allow' = <<>>
  /\ at' = 1
  /\ request' = None
  /\ errors' = <<>>
  /\ verdict' = None

Next ==
  \/ \E c \in Configs : Boot(c)
  \/ CompileNext \/ Compiled
  \/ \E r \in Requests : Evaluate(r)
  \/ DenyNext \/ NotDenied \/ AllowNext \/ Exhausted
  \/ Restart

Spec == Init /\ [][Next]_vars

-----------------------------------------------------------------------------
(* What a document means, said of its rules as they were written and       *)
(* without order.                                                          *)
PatternFits(p, model) ==
  IF p.wild THEN IsPrefix(p.text, model) ELSE p.text = model

Concerns(rule, r) ==
  rule.enabled /\ (rule.caller_keys # None => r.caller_key \in rule.caller_keys)

NamesModel(rule, r) ==
  rule.allowed_models # None =>
    \E p \in rule.allowed_models : PatternFits(p, r.model)

WithinCaps(rule, r) ==
  /\ rule.max_tokens # None => r.max_tokens \in 0 .. rule.max_tokens
  /\ rule.max_request_bytes # None =>
       r.request_bytes \in 0 .. rule.max_request_bytes

Forbids(rule, r) == rule.action = "deny" /\ Concerns(rule, r) /\ NamesModel(rule, r)

Permits(rule, r) ==
  /\ rule.action = "allow" /\ Concerns(rule, r)
  /\ NamesModel(rule, r) /\ WithinCaps(rule, r)

Forbidding(document, r) == {i \in DOMAIN document : Forbids(document[i], r)}
Permitting(document, r) == {i \in DOMAIN document : Permits(document[i], r)}

NamesFirst(name, document, rules) ==
  \E i \in rules : name = document[i].name /\ \A j \in rules : i <= j

-----------------------------------------------------------------------------
(* The state's types.                                                      *)
TypeOK ==
  /\ stage \in Stages
  /\ raw \in {None} \cup Configs
  /\ stage # "off" => raw \in Configs
  /\ deny \in Seq(CompiledRule) /\ allow \in Seq(CompiledRule)
  /\ at \in Nat \ {0}
  /\ request \in {None} \cup Requests
  /\ stage \in {"denying", "allowing"} => request \in Requests
  /\ errors \in Seq(Names)
  /\ verdict \in {None} \cup Verdict

(* The two loops with their early exits and soft skips decide what the     *)
(* document committed to in config_hash means: one rule that forbids beats *)
(* every rule that permits, wherever it stands; otherwise one rule that    *)
(* permits is enough, whatever the others skipped; and the rule reported   *)
(* is the first of its kind.                                               *)
VerdictFollowsPolicy ==
  verdict # None =>
    LET document == verdict.config_hash
        r == verdict.request
    IN  /\ verdict.result = "denied" =>
             NamesFirst(verdict.by, document, Forbidding(document, r))
        /\ verdict.result # "denied" => Forbidding(document, r) = {}
        /\ verdict.result = "allowed" =>
             NamesFirst(verdict.by, document, Permitting(document, r))
        /\ verdict.result = "unmatched" => Permitting(document, r) = {}

(* A refused caller is told of every enabled allow rule that concerns it   *)
(* and of no other, so "no policy matched this caller" (no diagnostics)    *)
(* means just that.                                                        *)
DiagnosticsComplete ==
  verdict # None /\ verdict.result = "unmatched" =>
    {verdict.skipped[i] : i \in DOMAIN verdict.skipped} =
      {rule.name : rule \in
         {verdict.config_hash[i] : i \in
            {j \in DOMAIN verdict.config_hash :
               /\ verdict.config_hash[j].action = "allow"
               /\ Concerns(verdict.config_hash[j], verdict.request)}}}

(* No way around a cap: where every allow rule that concerns a caller caps *)
(* max_tokens, a request that is let through states a max_tokens, and one  *)
(* of the caps covers it.  Leaving the field out does not help.            *)
CapsBind ==
  verdict # None /\ verdict.result = "allowed" =>
    LET r == verdict.request
        open == {i \in DOMAIN verdict.config_hash :
                   /\ verdict.config_hash[i].action = "allow"
                   /\ Concerns(verdict.config_hash[i], r)}
    IN  (\A i \in open : verdict.config_hash[i].max_tokens # None) =>
          /\ r.max_tokens # None
          /\ \E i \in open : r.max_tokens <= verdict.config_hash[i].max_tokens

(* Fail fast: a gateway that serves has loaded its whole document, with a  *)
(* caller key and no enabled rule without a name.                          *)
ServesOnlyValid ==
  stage \in Loaded =>
    /\ raw.caller_keys # {}
    /\ \A i \in DOMAIN raw.policy :
         raw.policy[i].enabled => raw.policy[i].name # Blank
    /\ \A i \in DOMAIN raw.policy : raw.policy[i].enabled =>
         LET compiled == IF raw.policy[i].action = "deny" THEN deny ELSE allow
         IN  \E j \in DOMAIN compiled : compiled[j] = CompileRule(raw.policy[i])
=============================================================================
