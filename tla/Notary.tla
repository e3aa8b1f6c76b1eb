------------------------------- MODULE Notary -------------------------------
(***************************************************************************)
(* What the gateway promises of each inference call, without permits,      *)
(* handlers, streams or a ring: the provider is contacted at most once and *)
(* never for a call that is turned away; a call is notarised at most once, *)
(* and the outcome on its one receipt fits whether a provider was reached. *)
(* A call may also be lost: its client left, the enclave went down or the  *)
(* signature could not be made.  Gateway (which see) implements this.      *)
(***************************************************************************)
CONSTANTS Calls

VARIABLES
  verdict,    \* of each call: still open, or how it was settled
  contacted,  \* the calls sent on to a provider
  receipts    \* the receipts signed, as [call, outcome]

nVars == <<verdict, contacted, receipts>>

Outcomes == {"ok", "refusal", "upstream_error", "policy_denied"}

NInit ==
  /\ verdict = [c \in Calls |-> "open"]
  /\ contacted = {}
  /\ receipts = {}

Contact(c) ==
  /\ verdict[c] = "open"
  /\ c \notin contacted
  /\ contacted' = contacted \cup {c}
  /\ UNCHANGED <<verdict, receipts>>

Notarise(c, outcome) ==
  /\ verdict[c] = "open"
  /\ outcome \in {"ok", "refusal"} => c \in contacted
  /\ outcome = "policy_denied" => c \notin contacted
  /\ verdict' = [verdict EXCEPT ![c] = "notarised"]
  /\ receipts' = receipts \cup {[call |-> c, outcome |-> outcome]}
  /\ UNCHANGED contacted

(* Several calls are lost together when the enclave goes down.             *)
Settle(lost, rejected) ==
  /\ lost \cup rejected # {}
  /\ \A c \in lost : verdict[c] = "open" /\ c \in contacted
  /\ \A c \in rejected : verdict[c] = "open" /\ c \notin contacted
  /\ verdict' = [c \in Calls |-> IF c \in lost THEN "lost"
                                 ELSE IF c \in rejected THEN "rejected"
                                 ELSE verdict[c]]
  /\ UNCHANGED <<contacted, receipts>>

NNext ==
  \/ \E c \in Calls : Contact(c) \/ \E o \in Outcomes : Notarise(c, o)
  \/ \E lost, rejected \in SUBSET Calls : Settle(lost, rejected)

NSpec == NInit /\ [][NNext]_nVars
=============================================================================
