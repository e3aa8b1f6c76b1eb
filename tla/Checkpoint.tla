----------------------------- MODULE Checkpoint -----------------------------
(***************************************************************************)
(* The trust root of sekisho on Sui: move/sources/checkpoint.move.         *)
(*                                                                         *)
(* One shared Checkpoint object holds the approved PCR0/1/2 triples; an    *)
(* enclave that shows a Nitro attestation document matching one of them    *)
(* may register a Gateway object for the key the document commits to.      *)
(*                                                                         *)
(* Every public function is one action: Sui runs a transaction atomically  *)
(* and an abort rolls all of it back, so a failed assertion is a disabled  *)
(* action and which of the error codes it aborts with is left out.         *)
(***************************************************************************)
EXTENDS Integers, Sequences

CONSTANTS
  Measurements,   \* the PCR0/1/2 triples the publisher may approve
  Addresses,      \* Sui addresses that send transactions
  Keys,           \* ephemeral Ed25519 public keys of enclave boots
  Documents,      \* the attestation documents the Nitro hypervisor has signed
  Absent,         \* an optional document field that is not there
  MaxEntries,     \* bound: approved entries in one behaviour
  MaxGateways     \* bound: registrations in one behaviour

PcrIndices == 0 .. 2

(***************************************************************************)
(* A document carries some PCR entries, an optional nonce and an optional  *)
(* public key.  `pcrs` is a function of the PCR index, since pcr_by_index  *)
(* looks entries up by index and not by position.                          *)
(***************************************************************************)
ASSUME CheckpointAssumption ==
  /\ \A m \in Measurements : DOMAIN m = PcrIndices
  /\ Absent \notin Addresses \cup Keys
  /\ MaxEntries \in Nat /\ MaxGateways \in Nat
  /\ \A d \in Documents :
       /\ d.nonce \in Addresses \cup {Absent}
       /\ d.public_key \in Keys \cup {Absent}
       /\ d.timestamp \in Nat

VARIABLES
  approved_pcrs,  \* Checkpoint.approved_pcrs: entry i+1 is pcr_version i
  gateways,       \* the live shared Gateway objects
  objects         \* how many Gateway objects were ever created: the next id

cpVars == <<approved_pcrs, gateways, objects>>

PcrSet == [pcrs : Measurements, revoked : BOOLEAN]

(* `document` is history: what the Gateway was registered with.            *)
Gateway ==
  [id : Nat, pk : Keys, pcr_version : Nat, operator : Addresses,
   registered_at_ms : Nat, document : Documents]

Versions == 0 .. Len(approved_pcrs) - 1
Entry(version) == approved_pcrs[version + 1]
IsRevoked(version) == Entry(version).revoked

-----------------------------------------------------------------------------
(* find_matching_entry: the first entry with exactly these PCRs, revoked   *)
(* or not.  Only meaningful when Matching is not empty.                    *)

Matching(pcrs) == {v \in Versions : Entry(v).pcrs = pcrs}

FindLastEntry(pcrs) ==                                     \* mutant
  CHOOSE v \in Matching(pcrs) : \A w \in Matching(pcrs) : w <= v

FindLiveEntry(pcrs) ==                                     \* mutant
  CHOOSE v \in Matching(pcrs) :
    \A w \in Matching(pcrs) : ~IsRevoked(w) => (~IsRevoked(v) /\ v <= w)

FindMatchingEntry(pcrs) ==
  CHOOSE v \in Matching(pcrs) : \A w \in Matching(pcrs) : v <= w

(* What register asks of a document: PCR0, 1 and 2 are there (pcr_by_index) *)
(* and, in validate_and_find_version, the nonce is the sender, an entry     *)
(* matches and that entry is not revoked; last, a public key is there.      *)
CarriesPcrs(document) == PcrIndices \subseteq DOMAIN document.pcrs

MeasurementOf(document) == [i \in PcrIndices |-> document.pcrs[i]]

ValidatesIgnoringNonce(sender, document) ==                \* mutant
  LET pcrs == MeasurementOf(document)
  IN  /\ Matching(pcrs) # {}
      /\ ~IsRevoked(FindMatchingEntry(pcrs))

ValidatesRevoked(sender, document) ==                      \* mutant
  /\ document.nonce = sender
  /\ Matching(MeasurementOf(document)) # {}

Validates(sender, document) ==
  LET pcrs == MeasurementOf(document)
  IN  /\ document.nonce = sender
      /\ Matching(pcrs) # {}
      /\ ~IsRevoked(FindMatchingEntry(pcrs))

MayRegisterKeyless(sender, document) ==                    \* mutant
  /\ CarriesPcrs(document)
  /\ Validates(sender, document)

MayRegister(sender, document) ==
  /\ CarriesPcrs(document)
  /\ Validates(sender, document)
  /\ document.public_key # Absent

-----------------------------------------------------------------------------
CheckpointInit ==
  /\ approved_pcrs = <<>>
  /\ gateways = {}
  /\ objects = 0

(* approve_pcrs: append only, and no look at the entries already there.    *)
(* The holder of the CheckpointCap, and nobody else, can take this action  *)
(* and the next: Move's type system, not a run-time check, demands the cap. *)
ApprovePcrs(pcrs) ==
  /\ Len(approved_pcrs) < MaxEntries
  /\ approved_pcrs' = Append(approved_pcrs, [pcrs |-> pcrs, revoked |-> FALSE])
  /\ UNCHANGED <<gateways, objects>>

RevokeByRemoval(version) ==                                \* mutant
  /\ version \in Versions
  /\ approved_pcrs' = [i \in 1 .. Len(approved_pcrs) - 1 |->
                         approved_pcrs[IF i <= version THEN i ELSE i + 1]]
  /\ UNCHANGED <<gateways, objects>>

(* revoke_pcrs: flags one entry; Gateways registered under it stay.        *)
RevokePcrs(version) ==
  /\ version \in Versions
  /\ approved_pcrs' = [approved_pcrs EXCEPT ![version + 1].revoked = TRUE]
  /\ UNCHANGED <<gateways, objects>>

(* register: permissionless, and a document may be presented many times.   *)
Register(sender, document) ==
  /\ objects < MaxGateways
  /\ MayRegister(sender, document)
  /\ gateways' = gateways \cup
       {[id |-> objects,
         pk |-> document.public_key,
         pcr_version |-> FindMatchingEntry(MeasurementOf(document)),
         operator |-> sender,
         registered_at_ms |-> document.timestamp,
         document |-> document]}
  /\ objects' = objects + 1
  /\ UNCHANGED approved_pcrs

(* destroy_gateway: by the operator that registered it.                    *)
DestroyGateway(sender, gateway) ==
  /\ gateway.operator = sender
  /\ gateways' = gateways \ {gateway}
  /\ UNCHANGED <<approved_pcrs, objects>>

CheckpointNext ==
  \/ \E m \in Measurements : ApprovePcrs(m)
  \/ \E v \in Versions : RevokePcrs(v)
  \/ \E a \in Addresses, d \in Documents : Register(a, d)
  \/ \E a \in Addresses : \E g \in gateways : DestroyGateway(a, g)

CheckpointSpec == CheckpointInit /\ [][CheckpointNext]_cpVars
=============================================================================
