----------------------------- MODULE MCGateway -----------------------------
(***************************************************************************)
(* Small gateways for TLC.  SafetyRequests has every surface, both modes,  *)
(* a nonce that calls may share and every reason to be turned away, alone  *)
(* or where two of them compete; BasicRequests only what differs in how    *)
(* long a call holds its permit.                                           *)
(***************************************************************************)
EXTENDS Gateway

CONSTANTS c1, c2, c3

Ask(surface, stream, nonce, flaws) ==
  [surface |-> surface, stream |-> stream, nonce |-> nonce, flaws |-> flaws]

SafetyRequestList ==
  << Ask("openai", TRUE, "n1", {}),
     Ask("anthropic", TRUE, NoNonce, {}),
     Ask("anthropic", FALSE, "n1", {}),
     Ask("openai", FALSE, NoNonce, {"denied"}),
     Ask("openai", FALSE, "n1", {"badNonce", "denied"}),
     Ask("anthropic", FALSE, NoNonce, {"denied", "unconfigured"}),
     Ask("openai", TRUE, NoNonce, {"unconfigured"}),
     Ask("openai", TRUE, NoNonce, {"oversized", "unkeyed"}),
     Ask("anthropic", FALSE, NoNonce, {"unkeyed", "malformed"}) >>

ThirdRequest == Ask("openai", FALSE, "n1", {"denied"})

SafetyRequests ==
  {SafetyRequestList[i] : i \in DOMAIN SafetyRequestList} \cup {ThirdRequest}

BasicRequests ==
  { Ask("openai", TRUE, "n1", {}),
    Ask("anthropic", TRUE, NoNonce, {}),
    Ask("anthropic", FALSE, "n1", {}) }

(* Two calls make any two of the requests, and a third one is denied under *)
(* the nonce the others may use: three receipts, so that a ring of two has *)
(* to evict one and to hold two of one id.  Calls differ in their requests *)
(* only, so that which of the two makes which request is left open once.   *)
ThreeCallsInit ==
  /\ Init
  /\ req[c3] = ThirdRequest
  /\ \E i, j \in DOMAIN SafetyRequestList :
       /\ i <= j
       /\ req[c1] = SafetyRequestList[i] /\ req[c2] = SafetyRequestList[j]

ThreeCallsSpec ==
  ThreeCallsInit /\ [][Next]_vars /\ HandlersRun /\ ProvidersRespond
=============================================================================
