--------------------------- MODULE MCVerification ---------------------------
(***************************************************************************)
(* A small chain for TLC: two builds A and B that may be approved, a third *)
(* C that never is; two senders; two honest enclave boots and one key that *)
(* no document commits to.                                                 *)
(***************************************************************************)
EXTENDS Verification

CONSTANTS alice, bob, k1, k2, k3

Build(x) == [i \in PcrIndices |-> x]

Doc(pcrs, nonce, pk, ts) ==
  [pcrs |-> pcrs, nonce |-> nonce, public_key |-> pk, timestamp |-> ts]

MCMeasurements == {Build("A"), Build("B")}

MCDocuments ==
  { Doc(Build("A"), alice, k1, 1),
    Doc(Build("A"), bob, k1, 2),          \* the same boot, attested for bob
    Doc(Build("B"), bob, k2, 3),
    Doc(Build("C"), alice, k3, 4),        \* never approved
    Doc([i \in {0, 1} |-> "A"], alice, k1, 5),
    Doc(Build("A"), Absent, k1, 6),       \* GET /attestation: no nonce
    Doc(Build("B"), bob, Absent, 7) }

MCReceipts ==
  { [signer |-> k1, body |-> "x"],
    [signer |-> k2, body |-> "x"],
    [signer |-> k3, body |-> "x"] }
=============================================================================
