---------------------------- MODULE Verification ----------------------------
(***************************************************************************)
(* The chain as a receipt's reader sees it: the Checkpoint and its         *)
(* Gateways (Checkpoint.tla) together with receipt verification,           *)
(* move/sources/receipt.move.                                              *)
(*                                                                         *)
(* A receipt is the signed IntentMessage as a whole, timestamp included;   *)
(* `signer` stands for its Ed25519 signature, so ed25519_verify under a    *)
(* Gateway's key succeeds exactly when that key is the signer.             *)
(***************************************************************************)
EXTENDS Checkpoint

CONSTANT Receipts   \* [signer : Keys, receipt_id : ..., body : ...]

ASSUME ReceiptsAssumption == \A r \in Receipts : r.signer \in Keys

VARIABLE events     \* the ReceiptVerified events, as a set: duplicates merge

vars == <<cpVars, events>>

Event ==
  [gateway : Nat, operator : Addresses, verifier : Addresses,
   pcr_version : Nat, receipt : Receipts]

Init == CheckpointInit /\ events = {}

SignatureValid(gateway, receipt) == receipt.signer = gateway.pk

VerifyUnchecked(verifier, gateway, receipt) ==             \* mutant
  /\ SignatureValid(gateway, receipt)
  /\ events' = events \cup
       {[gateway |-> gateway.id, operator |-> gateway.operator,
         verifier |-> verifier, pcr_version |-> gateway.pcr_version,
         receipt |-> receipt]}
  /\ UNCHANGED cpVars

VerifyUnsigned(verifier, gateway, receipt) ==              \* mutant
  /\ ~IsRevoked(gateway.pcr_version)
  /\ events' = events \cup
       {[gateway |-> gateway.id, operator |-> gateway.operator,
         verifier |-> verifier, pcr_version |-> gateway.pcr_version,
         receipt |-> receipt]}
  /\ UNCHANGED cpVars

(* verify: anyone may call it, any number of times, with any live Gateway. *)
Verify(verifier, gateway, receipt) ==
  /\ ~IsRevoked(gateway.pcr_version)
  /\ SignatureValid(gateway, receipt)
  /\ events' = events \cup
       {[gateway |-> gateway.id, operator |-> gateway.operator,
         verifier |-> verifier, pcr_version |-> gateway.pcr_version,
         receipt |-> receipt]}
  /\ UNCHANGED cpVars

Next ==
  \/ \E m \in Measurements : ApprovePcrs(m) /\ UNCHANGED events
  \/ \E v \in Versions : RevokePcrs(v) /\ UNCHANGED events
  \/ \E a \in Addresses, d \in Documents : Register(a, d) /\ UNCHANGED events
  \/ \E a \in Addresses : \E g \in gateways :
       DestroyGateway(a, g) /\ UNCHANGED events
  \/ \E a \in Addresses, r \in Receipts : \E g \in gateways : Verify(a, g, r)

Spec == Init /\ [][Next]_vars

-----------------------------------------------------------------------------
(* The state's types: entries, Gateways and events are well formed and     *)
(* object ids are fresh.                                                   *)
TypeOK ==
  /\ approved_pcrs \in Seq(PcrSet)
  /\ gateways \subseteq Gateway
  /\ objects \in Nat
  /\ events \subseteq Event
  /\ \A g \in gateways : g.id < objects
  /\ \A g, h \in gateways : g.id = h.id => g = h

(* The index a Gateway captured at registration still names, however many  *)
(* approvals and revocations came since, the entry its own attestation     *)
(* matched, and find_matching_entry would return it again.  receipt::verify *)
(* trusts that index without ever looking at PCRs.                         *)
VersionNamesMeasurement ==
  \A g \in gateways :
    /\ CarriesPcrs(g.document)
    /\ Matching(MeasurementOf(g.document)) # {}
    /\ g.pcr_version = FindMatchingEntry(MeasurementOf(g.document))

(* Every verified receipt leads back to an attestation document: one whose *)
(* nonce commits to the event's operator, whose public key signed the      *)
(* receipt and whose PCRs are those of the version the event reports, even *)
(* when the Gateway is long destroyed.                                     *)
EventsAttested ==
  \A e \in events : \E d \in Documents :
    /\ d.nonce = e.operator
    /\ d.public_key = e.receipt.signer
    /\ CarriesPcrs(d)
    /\ e.pcr_version \in Versions
    /\ Entry(e.pcr_version).pcrs = MeasurementOf(d)

(* Revoking is final: the entries already there never change in anything   *)
(* but a revoked flag going up, and a version whose flag is up adds no     *)
(* event and no Gateway (checkpoint.move's "without removing history").    *)
RevocationFinal ==
  [][\A v \in Versions :
       /\ v \in Versions'
       /\ Entry(v)'.pcrs = Entry(v).pcrs
       /\ IsRevoked(v) =>
            /\ IsRevoked(v)'
            /\ {g \in gateways' : g.pcr_version = v} \subseteq gateways
            /\ {e \in events' : e.pcr_version = v} \subseteq events]_vars

-----------------------------------------------------------------------------
(* The abstract view: a measurement's standing is that of its first entry. *)
StatusOf(m) ==
  IF Matching(m) = {} THEN "unknown"
  ELSE IF IsRevoked(FindMatchingEntry(m)) THEN "revoked" ELSE "approved"

Standing == [m \in Measurements |-> StatusOf(m)]

EnrolmentOf(g) ==
  [operator |-> g.operator, pk |-> g.pk, pcrs |-> MeasurementOf(g.document)]
Enrolled == {EnrolmentOf(g) : g \in gateways}

VoucherOf(e) ==
  [operator |-> e.operator, pcrs |-> Entry(e.pcr_version).pcrs,
   receipt |-> e.receipt]
Vouched == {VoucherOf(e) : e \in events}

Registry == INSTANCE TrustRegistry WITH
  status <- Standing, enrolled <- Enrolled, vouched <- Vouched

(* The vector of entries, the captured indices and the Gateway objects     *)
(* implement the registry of measurements: in particular no receipt is     *)
(* vouched for under a measurement whose standing is not "approved".       *)
ImplementsRegistry == Registry!TRSpec

(* checkpoint.move says any enclave whose attestation matches an approved, *)
(* non-revoked entry may register itself.                                  *)
AnyLiveEntryRegisters ==
  \A d \in Documents, a \in Addresses :
    ( /\ CarriesPcrs(d)
      /\ d.nonce = a
      /\ d.public_key # Absent
      /\ \E v \in Matching(MeasurementOf(d)) : ~IsRevoked(v) )
    => MayRegister(a, d)
=============================================================================
