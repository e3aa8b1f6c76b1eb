------------------------- MODULE VerificationProofs -------------------------
(***************************************************************************)
(* Theorems about the chain (Checkpoint, Verification), for every set of   *)
(* measurements, documents, keys and receipts and without the bounds of    *)
(* the TLC runs being of any consequence.                                  *)
(*                                                                         *)
(* The argument: approved_pcrs only ever grows at its end and its entries  *)
(* change in their revoked flag alone, so the first entry of a measurement *)
(* never moves (FirstEntryStays).  Hence the index a Gateway captured at   *)
(* registration keeps meaning the measurement it was registered with, and  *)
(* the vector implements the abstract registry of measurements.            *)
(***************************************************************************)
EXTENDS Verification, NatFacts, TLAPS

(* find_matching_entry returns a matching entry, and the first one.        *)
LEMMA FindMatchingEntryIsFirst ==
  ASSUME NEW m, Len(approved_pcrs) \in Nat, Matching(m) # {}
  PROVE  /\ FindMatchingEntry(m) \in Matching(m)
         /\ \A w \in Matching(m) : FindMatchingEntry(m) <= w
<1>1. Matching(m) \in SUBSET Nat
  BY DEF Matching, Versions
<1>2. \E v \in Matching(m) : \A w \in Matching(m) : v <= w
  BY <1>1, LeastOfNats
<1> QED BY <1>2 DEF FindMatchingEntry

-----------------------------------------------------------------------------
(* Type correctness, and with it the freshness of Gateway object ids.      *)
THEOREM TypeCorrect == Spec => []TypeOK
<1>1. Init => TypeOK
  BY DEF Init, CheckpointInit, TypeOK
<1>2. TypeOK /\ [Next]_vars => TypeOK'
  <2> SUFFICES ASSUME TypeOK, [Next]_vars
               PROVE  TypeOK'
    OBVIOUS
  <2> USE DEF TypeOK
  <2>1. ASSUME NEW m \in Measurements, ApprovePcrs(m), UNCHANGED events
        PROVE  TypeOK'
    <3>1. [pcrs |-> m, revoked |-> FALSE] \in PcrSet
      BY DEF PcrSet
    <3> QED BY <2>1, <3>1 DEF ApprovePcrs
  <2>2. ASSUME NEW v \in Versions, RevokePcrs(v), UNCHANGED events
        PROVE  TypeOK'
    <3>1. v + 1 \in 1 .. Len(approved_pcrs)
      BY DEF Versions
    <3>2. approved_pcrs[v + 1] \in PcrSet
      BY <3>1
    <3>3. [approved_pcrs[v + 1] EXCEPT !.revoked = TRUE] \in PcrSet
      BY <3>2 DEF PcrSet
    <3>4. approved_pcrs' =
            [approved_pcrs EXCEPT ![v + 1] =
               [approved_pcrs[v + 1] EXCEPT !.revoked = TRUE]]
      BY <2>2 DEF RevokePcrs
    <3>5. approved_pcrs' \in Seq(PcrSet)
      BY <3>1, <3>3, <3>4
    <3> QED BY <2>2, <3>5 DEF RevokePcrs
  <2>3. ASSUME NEW a \in Addresses, NEW d \in Documents, Register(a, d),
               UNCHANGED events
        PROVE  TypeOK'
    <3> DEFINE m == MeasurementOf(d)
    <3>1. Matching(m) # {} /\ d.public_key # Absent
      BY <2>3 DEF Register, MayRegister, Validates
    <3>2. FindMatchingEntry(m) \in Nat
      BY <3>1, FindMatchingEntryIsFirst DEF Matching, Versions
    <3>3. d.public_key \in Keys /\ d.timestamp \in Nat
      BY <3>1, CheckpointAssumption
    <3> DEFINE g == [id |-> objects, pk |-> d.public_key,
                     pcr_version |-> FindMatchingEntry(m),
                     operator |-> a, registered_at_ms |-> d.timestamp,
                     document |-> d]
    <3>4. g \in Gateway
      BY <3>2, <3>3 DEF Gateway
    <3>5. gateways' = gateways \cup {g} /\ objects' = objects + 1
          /\ approved_pcrs' = approved_pcrs
      BY <2>3 DEF Register
    <3>6. g.id = objects
      OBVIOUS
    <3> HIDE DEF g
    <3>7. \A h \in gateways' : h.id < objects'
      <4> TAKE h \in gateways'
      <4>1. CASE h = g
        BY <4>1, <3>5, <3>6
      <4>2. CASE h \in gateways
        <5>1. h.id \in Nat
          BY <4>2 DEF Gateway
        <5> QED BY <4>2, <3>5, <5>1
      <4> QED BY <4>1, <4>2, <3>5
    <3>8. \A h, i \in gateways' : h.id = i.id => h = i
      BY <3>5, <3>6
    <3> QED BY <2>3, <3>4, <3>5, <3>7, <3>8
  <2>4. ASSUME NEW a \in Addresses, NEW g \in gateways,
               DestroyGateway(a, g), UNCHANGED events
        PROVE  TypeOK'
    BY <2>4 DEF DestroyGateway
  <2>5. ASSUME NEW a \in Addresses, NEW r \in Receipts, NEW g \in gateways,
               Verify(a, g, r)
        PROVE  TypeOK'
    <3> DEFINE e == [gateway |-> g.id, operator |-> g.operator,
                     verifier |-> a, pcr_version |-> g.pcr_version,
                     receipt |-> r]
    <3>1. e \in Event
      BY DEF Event, Gateway
    <3>2. events' = events \cup {e} /\ UNCHANGED cpVars
      BY <2>5 DEF Verify
    <3> HIDE DEF e
    <3> QED BY <3>1, <3>2 DEF cpVars
  <2>6. CASE UNCHANGED vars
    BY <2>6 DEF vars, cpVars
  <2> QED BY <2>1, <2>2, <2>3, <2>4, <2>5, <2>6 DEF Next
<1> QED BY <1>1, <1>2, PTL DEF Spec
-----------------------------------------------------------------------------
(* What every step keeps of the entries: they stay, with their PCRs, and a *)
(* revoked one stays revoked.                                              *)
LEMMA EntriesKept ==
  ASSUME TypeOK, [Next]_vars
  PROVE  /\ Len(approved_pcrs) \in Nat /\ Len(approved_pcrs)' \in Nat
         /\ Len(approved_pcrs) <= Len(approved_pcrs)'
         /\ \A v \in Versions :
              /\ v \in Versions'
              /\ Entry(v)'.pcrs = Entry(v).pcrs
              /\ IsRevoked(v) => IsRevoked(v)'
<1>1. ASSUME NEW m \in Measurements, ApprovePcrs(m)
      PROVE  /\ Len(approved_pcrs)' = Len(approved_pcrs) + 1
             /\ \A v \in Versions : Entry(v)' = Entry(v)
  BY <1>1 DEF ApprovePcrs, TypeOK, Versions, Entry
<1>2. ASSUME NEW w \in Versions, RevokePcrs(w)
      PROVE  /\ Len(approved_pcrs)' = Len(approved_pcrs)
             /\ \A v \in Versions :
                  /\ Entry(v)'.pcrs = Entry(v).pcrs
                  /\ IsRevoked(v) => IsRevoked(v)'
  <2> DEFINE flagged == [approved_pcrs[w + 1] EXCEPT !.revoked = TRUE]
  <2>1. approved_pcrs' = [approved_pcrs EXCEPT ![w + 1] = flagged]
    BY <1>2 DEF RevokePcrs
  <2>2. w + 1 \in 1 .. Len(approved_pcrs)
    BY DEF Versions, TypeOK
  <2>3. \A v \in Versions : v + 1 \in DOMAIN approved_pcrs
    BY DEF Versions, TypeOK
  <2>4. \A v \in Versions : approved_pcrs[v + 1] \in PcrSet
    BY <2>3 DEF TypeOK
  <2>5. Len(approved_pcrs)' = Len(approved_pcrs)
    BY <2>1, <2>2 DEF TypeOK
  <2>6. ASSUME NEW v \in Versions
        PROVE  /\ Entry(v)'.pcrs = Entry(v).pcrs
               /\ IsRevoked(v) => IsRevoked(v)'
    <3>1. CASE v = w
      <4> HIDE DEF flagged
      <4>1. Entry(v)' = flagged
        BY <2>1, <2>2, <3>1 DEF Entry, TypeOK
      <4>2. Entry(v) \in PcrSet /\ Entry(v) = approved_pcrs[w + 1]
        BY <2>4, <3>1 DEF Entry
      <4> QED BY <4>1, <4>2 DEF PcrSet, IsRevoked, flagged
    <3>2. CASE v # w
      <4>1. Entry(v)' = Entry(v)
        BY <2>1, <2>3, <3>2 DEF Entry, Versions, TypeOK
      <4> QED BY <4>1 DEF IsRevoked
    <3> QED BY <3>1, <3>2
  <2> QED BY <2>5, <2>6
<1>3. CASE UNCHANGED approved_pcrs
  BY <1>3 DEF Versions, Entry, IsRevoked, TypeOK
<1>4. \/ \E m \in Measurements : ApprovePcrs(m)
      \/ \E w \in Versions : RevokePcrs(w)
      \/ UNCHANGED approved_pcrs
  BY DEF Next, Register, DestroyGateway, Verify, vars, cpVars
<1>5. Len(approved_pcrs) \in Nat
  BY DEF TypeOK
<1> QED BY <1>1, <1>2, <1>3, <1>4, <1>5 DEF Versions, IsRevoked

(* The first entry of a measurement never moves.                           *)
LEMMA FirstEntryStays ==
  ASSUME TypeOK, [Next]_vars, NEW m, Matching(m) # {}
  PROVE  /\ Matching(m)' # {}
         /\ FindMatchingEntry(m)' = FindMatchingEntry(m)
<1> DEFINE v == FindMatchingEntry(m)
<1>1. /\ v \in Matching(m)
      /\ \A w \in Matching(m) : v <= w
  BY EntriesKept, FindMatchingEntryIsFirst
<1>2. v \in Matching(m)'
  BY <1>1, EntriesKept DEF Matching
<1>3. \A w \in Matching(m)' : v <= w
  <2> TAKE w \in Matching(m)'
  <2>1. w \in Nat /\ v \in 0 .. Len(approved_pcrs) - 1
    BY <1>1, EntriesKept DEF Matching, Versions
  <2>2. CASE w \in Versions
    BY <1>1, <2>2, EntriesKept DEF Matching
  <2>3. CASE w \notin Versions
    BY <2>1, <2>3, EntriesKept DEF Versions
  <2> QED BY <2>2, <2>3
<1>4. Matching(m)' \subseteq Nat
  BY EntriesKept DEF Matching, Versions
<1> DEFINE u == FindMatchingEntry(m)'
<1>5. u \in Matching(m)' /\ \A w \in Matching(m)' : u <= w
  BY <1>2, <1>3 DEF FindMatchingEntry
<1>6. v \in Nat /\ u \in Nat
  BY <1>2, <1>4, <1>5
<1>7. u <= v /\ v <= u
  BY <1>2, <1>3, <1>5
<1> HIDE DEF v, u
<1>8. u = v
  BY <1>6, <1>7
<1> QED BY <1>2, <1>8 DEF u, v

-----------------------------------------------------------------------------
(* A Gateway is what its attestation document says, and the version it     *)
(* holds is the document's: the inductive form of VersionNamesMeasurement. *)
GatewaysAttested ==
  \A g \in gateways :
    /\ g.document.nonce = g.operator
    /\ g.document.public_key = g.pk

ChainInv ==
  /\ TypeOK
  /\ GatewaysAttested
  /\ VersionNamesMeasurement
  /\ EventsAttested

(* A version some Gateway holds has the PCRs of that Gateway's document.   *)
LEMMA GatewayVersion ==
  ASSUME TypeOK, VersionNamesMeasurement, NEW g \in gateways
  PROVE  /\ g.pcr_version \in Versions
         /\ Entry(g.pcr_version).pcrs = MeasurementOf(g.document)
         /\ CarriesPcrs(g.document)
<1>1. Len(approved_pcrs) \in Nat
  BY DEF TypeOK
<1>2. g.pcr_version \in Matching(MeasurementOf(g.document))
  BY <1>1, FindMatchingEntryIsFirst DEF VersionNamesMeasurement
<1> QED BY <1>2 DEF Matching, VersionNamesMeasurement

(* Every Gateway after a step was there before, or was registered in it.   *)
LEMMA NewGateways ==
  ASSUME [Next]_vars, NEW g \in gateways', g \notin gateways
  PROVE  /\ \E d \in Documents, a \in Addresses :
              /\ Register(a, d)
              /\ g.document = d /\ g.operator = a /\ g.pk = d.public_key
              /\ g.pcr_version = FindMatchingEntry(MeasurementOf(d))
         /\ UNCHANGED <<approved_pcrs, events>>
<1>1. PICK a \in Addresses, d \in Documents :
        Register(a, d) /\ UNCHANGED events
  BY DEF Next, ApprovePcrs, RevokePcrs, DestroyGateway, Verify, vars, cpVars
<1>2. /\ g.document = d /\ g.operator = a /\ g.pk = d.public_key
      /\ g.pcr_version = FindMatchingEntry(MeasurementOf(d))
      /\ UNCHANGED approved_pcrs
  BY <1>1 DEF Register
<1> QED BY <1>1, <1>2

(* Every event after a step was there before, or was emitted in it.        *)
LEMMA NewEvents ==
  ASSUME [Next]_vars, NEW e \in events', e \notin events
  PROVE  /\ \E g \in gateways, r \in Receipts :
              /\ r.signer = g.pk
              /\ ~IsRevoked(g.pcr_version)
              /\ e.gateway = g.id /\ e.operator = g.operator
              /\ e.pcr_version = g.pcr_version /\ e.receipt = r
         /\ UNCHANGED cpVars
<1>1. PICK a \in Addresses, r \in Receipts, g \in gateways : Verify(a, g, r)
  BY DEF Next, vars
<1> QED BY <1>1 DEF Verify, SignatureValid

(* A step keeps old Gateways and events attested, and makes new ones so.   *)
LEMMA ChainInvStep == ChainInv /\ [Next]_vars /\ TypeOK' => ChainInv'
<1> SUFFICES ASSUME ChainInv, [Next]_vars, TypeOK'
             PROVE  ChainInv'
  OBVIOUS
<1> USE DEF ChainInv
<1>1. GatewaysAttested'
  <2> SUFFICES ASSUME NEW g \in gateways'
               PROVE  g.document.nonce = g.operator /\ g.document.public_key = g.pk
    BY DEF GatewaysAttested
  <2>1. CASE g \in gateways
    BY <2>1 DEF GatewaysAttested
  <2>2. CASE g \notin gateways
    BY <2>2, NewGateways DEF Register, MayRegister, Validates
  <2> QED BY <2>1, <2>2
<1>2. VersionNamesMeasurement'
  <2> SUFFICES ASSUME NEW g \in gateways'
               PROVE  (/\ CarriesPcrs(g.document)
                       /\ Matching(MeasurementOf(g.document)) # {}
                       /\ g.pcr_version = FindMatchingEntry(MeasurementOf(g.document)))'
    BY DEF VersionNamesMeasurement
  <2> DEFINE m == MeasurementOf(g.document)
  <2>1. /\ CarriesPcrs(g.document)
        /\ Matching(m) # {}
        /\ g.pcr_version = FindMatchingEntry(m)
    <3>1. CASE g \in gateways
      BY <3>1 DEF VersionNamesMeasurement
    <3>2. CASE g \notin gateways
      BY <3>2, NewGateways DEF Register, MayRegister, Validates
    <3> QED BY <3>1, <3>2
  <2> HIDE DEF m
  <2>2. /\ Matching(m)' # {}
        /\ FindMatchingEntry(m)' = FindMatchingEntry(m)
    BY <2>1, FirstEntryStays
  <2> QED BY <2>1, <2>2 DEF m, CarriesPcrs, MeasurementOf
<1>3. EventsAttested'
  <2> SUFFICES ASSUME NEW e \in events'
               PROVE  \E d \in Documents :
                        /\ d.nonce = e.operator
                        /\ d.public_key = e.receipt.signer
                        /\ CarriesPcrs(d)
                        /\ e.pcr_version \in Versions'
                        /\ Entry(e.pcr_version)'.pcrs = MeasurementOf(d)
    BY DEF EventsAttested, CarriesPcrs, MeasurementOf
  <2>1. CASE e \in events
    <3>1. PICK d \in Documents :
            /\ d.nonce = e.operator
            /\ d.public_key = e.receipt.signer
            /\ CarriesPcrs(d)
            /\ e.pcr_version \in Versions
            /\ Entry(e.pcr_version).pcrs = MeasurementOf(d)
      BY <2>1 DEF EventsAttested
    <3>2. /\ e.pcr_version \in Versions'
          /\ Entry(e.pcr_version)'.pcrs = Entry(e.pcr_version).pcrs
      BY <3>1, EntriesKept
    <3> QED BY <3>1, <3>2
  <2>2. CASE e \notin events
    <3>1. PICK g \in gateways, r \in Receipts :
            /\ r.signer = g.pk
            /\ e.operator = g.operator
            /\ e.pcr_version = g.pcr_version /\ e.receipt = r
      BY <2>2, NewEvents
    <3>2. /\ g.pcr_version \in Versions
          /\ Entry(g.pcr_version).pcrs = MeasurementOf(g.document)
          /\ CarriesPcrs(g.document)
      BY GatewayVersion
    <3>3. /\ g.pcr_version \in Versions'
          /\ Entry(g.pcr_version)'.pcrs = Entry(g.pcr_version).pcrs
      BY <3>2, EntriesKept
    <3>4. g.document \in Documents
      BY DEF TypeOK, Gateway
    <3>5. g.document.nonce = g.operator /\ g.document.public_key = g.pk
      BY DEF GatewaysAttested
    <3> QED BY <3>1, <3>2, <3>3, <3>4, <3>5
  <2> QED BY <2>1, <2>2
<1> QED BY <1>1, <1>2, <1>3

(* Gateways and events are attested at every time.                         *)
THEOREM ChainInvariant == Spec => []ChainInv
<1>1. Init => ChainInv
  BY DEF Init, CheckpointInit, ChainInv, TypeOK, GatewaysAttested,
         VersionNamesMeasurement, EventsAttested
<1> QED BY <1>1, TypeCorrect, ChainInvStep, PTL DEF Spec

(* The version a Gateway captured names its own measurement, always.       *)
THEOREM VersionsCorrect == Spec => []VersionNamesMeasurement
BY ChainInvariant, PTL DEF ChainInv

(* Every verified receipt leads back to an attestation document.           *)
THEOREM EventsCorrect == Spec => []EventsAttested
BY ChainInvariant, PTL DEF ChainInv

(* Revocation is final, for entries, Gateways and events alike.            *)
THEOREM RevocationIsFinal == Spec => RevocationFinal
<1> DEFINE Step ==
      \A v \in Versions :
        /\ v \in Versions'
        /\ Entry(v)'.pcrs = Entry(v).pcrs
        /\ IsRevoked(v) =>
             /\ IsRevoked(v)'
             /\ {g \in gateways' : g.pcr_version = v} \subseteq gateways
             /\ {e \in events' : e.pcr_version = v} \subseteq events
<1>1. ASSUME ChainInv, [Next]_vars PROVE Step
  <2> TAKE v \in Versions
  <2> USE DEF ChainInv
  <2>1. /\ v \in Versions'
        /\ Entry(v)'.pcrs = Entry(v).pcrs
        /\ IsRevoked(v) => IsRevoked(v)'
    BY <1>1, EntriesKept
  <2>2. ASSUME IsRevoked(v), NEW g \in gateways', g.pcr_version = v
        PROVE  g \in gateways
    BY <1>1, <2>2, NewGateways DEF Register, MayRegister, Validates
  <2>3. ASSUME IsRevoked(v), NEW e \in events', e.pcr_version = v
        PROVE  e \in events
    BY <1>1, <2>3, NewEvents
  <2> QED BY <2>1, <2>2, <2>3
<1>2. ASSUME ChainInv, [Next]_vars PROVE [Step]_vars
  BY <1>1, <1>2
<1> QED BY <1>2, ChainInvariant, PTL DEF Spec, RevocationFinal

-----------------------------------------------------------------------------
(* Refinement.  A measurement that is known keeps its first entry, so its  *)
(* standing changes only with that entry's flag.                           *)
LEMMA StandingKept ==
  ASSUME TypeOK, [Next]_vars, NEW m \in Measurements, Matching(m) # {},
         IsRevoked(FindMatchingEntry(m))' = IsRevoked(FindMatchingEntry(m))
  PROVE  StatusOf(m)' = StatusOf(m)
BY FirstEntryStays DEF StatusOf, IsRevoked

(* What was vouched for stays so: an event's version keeps its PCRs.       *)
LEMMA VouchersKept ==
  ASSUME ChainInv, [Next]_vars
  PROVE  \A e \in events : VoucherOf(e)' = VoucherOf(e)
<1> TAKE e \in events
<1>1. e.pcr_version \in Versions
  BY DEF ChainInv, EventsAttested
<1>2. Entry(e.pcr_version)'.pcrs = Entry(e.pcr_version).pcrs
  BY <1>1, EntriesKept DEF ChainInv
<1> QED BY <1>2 DEF VoucherOf

(* approve_pcrs makes an unknown measurement known and changes no other.   *)
LEMMA ApproveSimulates ==
  ASSUME ChainInv, [Next]_vars, NEW m \in Measurements, ApprovePcrs(m),
         UNCHANGED events
  PROVE  Registry!Approve(m) \/ UNCHANGED <<Standing, Enrolled, Vouched>>
<1> USE DEF ChainInv
<1>0. PICK new \in Nat : new = Len(approved_pcrs)
  BY DEF TypeOK
<1>1. /\ Versions' = Versions \cup {new} /\ new \notin Versions
      /\ \A v \in Versions : Entry(v)' = Entry(v)
      /\ Entry(new)' = [pcrs |-> m, revoked |-> FALSE]
  <2> DEFINE entry == [pcrs |-> m, revoked |-> FALSE]
  <2>1. approved_pcrs' = Append(approved_pcrs, entry)
    BY DEF ApprovePcrs
  <2>2. approved_pcrs \in Seq(PcrSet)
    BY DEF TypeOK
  <2> HIDE DEF entry
  <2>3. /\ Len(approved_pcrs)' = new + 1
        /\ \A i \in 1 .. new : approved_pcrs'[i] = approved_pcrs[i]
        /\ approved_pcrs'[new + 1] = entry
    BY <1>0, <2>1, <2>2
  <2> QED BY <1>0, <2>3 DEF Versions, Entry, entry
<1>2. ASSUME NEW n \in Measurements, Matching(n) # {}
      PROVE  StatusOf(n)' = StatusOf(n)
  <2>1. FindMatchingEntry(n) \in Versions
    BY <1>2, EntriesKept, FindMatchingEntryIsFirst DEF Matching
  <2> QED BY <1>1, <1>2, <2>1, StandingKept, FirstEntryStays DEF IsRevoked
<1>3. ASSUME NEW n \in Measurements, n # m, Matching(n) = {}
      PROVE  StatusOf(n)' = StatusOf(n)
  <2>1. Matching(n)' = {}
    BY <1>1, <1>3 DEF Matching
  <2> QED BY <1>3, <2>1 DEF StatusOf
<1>4. ASSUME Matching(m) = {}
      PROVE  StatusOf(m) = "unknown" /\ StatusOf(m)' = "approved"
  <2>1. Matching(m)' = {new}
    BY <1>1, <1>4 DEF Matching
  <2>2. FindMatchingEntry(m)' = new
    BY <2>1, <1>1 DEF FindMatchingEntry
  <2>3. ~IsRevoked(new)'
    BY <1>1 DEF IsRevoked
  <2> QED BY <1>4, <2>1, <2>2, <2>3 DEF StatusOf, IsRevoked
<1>5. Enrolled' = Enrolled
  BY DEF Enrolled, EnrolmentOf, MeasurementOf, ApprovePcrs
<1>6. Vouched' = Vouched
  BY VouchersKept DEF Vouched
<1>7. CASE Matching(m) # {}
  <2>1. Standing' = Standing
    BY <1>2, <1>3, <1>7 DEF Standing
  <2> QED BY <1>5, <1>6, <2>1
<1>8. CASE Matching(m) = {}
  <2>1. Standing' = [Standing EXCEPT ![m] = "approved"]
    BY <1>2, <1>3, <1>4, <1>8 DEF Standing
  <2>2. Standing[m] = "unknown"
    BY <1>4, <1>8 DEF Standing
  <2> QED BY <1>5, <1>6, <2>1, <2>2 DEF Registry!Approve
<1> QED BY <1>7, <1>8

(* revoke_pcrs revokes a measurement when it flags its first entry, and is *)
(* invisible when it flags a later duplicate or one already flagged.       *)
LEMMA RevokeSimulates ==
  ASSUME ChainInv, [Next]_vars, NEW v \in Versions, RevokePcrs(v),
         UNCHANGED events
  PROVE  \/ \E m \in Measurements : Registry!Revoke(m)
         \/ UNCHANGED <<Standing, Enrolled, Vouched>>
<1> USE DEF ChainInv
<1>0. PICK m \in Measurements : m = Entry(v).pcrs
  <2>1. v + 1 \in 1 .. Len(approved_pcrs)
    BY DEF Versions, TypeOK
  <2>2. approved_pcrs[v + 1] \in PcrSet
    BY <2>1 DEF TypeOK
  <2> QED BY <2>2 DEF PcrSet, Entry
<1>1. /\ Len(approved_pcrs)' = Len(approved_pcrs)
      /\ IsRevoked(v)'
      /\ \A w \in Versions : /\ Entry(w)'.pcrs = Entry(w).pcrs
                             /\ w # v => Entry(w)' = Entry(w)
  <2> DEFINE flagged == [approved_pcrs[v + 1] EXCEPT !.revoked = TRUE]
  <2>1. approved_pcrs' = [approved_pcrs EXCEPT ![v + 1] = flagged]
    BY DEF RevokePcrs
  <2>2. v + 1 \in 1 .. Len(approved_pcrs)
    BY DEF Versions, TypeOK
  <2>3. approved_pcrs[v + 1] \in PcrSet
    BY <2>2 DEF TypeOK
  <2>4. flagged.revoked = TRUE
    BY <2>3 DEF PcrSet
  <2> HIDE DEF flagged
  <2>5. Entry(v)' = flagged /\ Len(approved_pcrs)' = Len(approved_pcrs)
    BY <2>1, <2>2 DEF Entry, TypeOK
  <2>6. \A w \in Versions : w # v => Entry(w)' = Entry(w)
    BY <2>1, <2>2 DEF Entry, Versions, TypeOK
  <2> QED BY <2>4, <2>5, <2>6, EntriesKept DEF IsRevoked
<1>2. v \in Matching(m)
  BY <1>0 DEF Matching
<1>3. ASSUME NEW n \in Measurements, n # m \/ FindMatchingEntry(m) # v \/ IsRevoked(v)
      PROVE  StatusOf(n)' = StatusOf(n)
  <2>1. CASE Matching(n) = {}
    <3>1. Matching(n)' = {}
      BY <1>1, <2>1 DEF Matching, Versions
    <3> QED BY <2>1, <3>1 DEF StatusOf
  <2>2. CASE Matching(n) # {}
    <3> DEFINE w == FindMatchingEntry(n)
    <3>1. w \in Versions /\ Entry(w).pcrs = n
      BY <2>2, EntriesKept, FindMatchingEntryIsFirst DEF Matching
    <3>2. w' = w
      BY <2>2, FirstEntryStays
    <3>3. CASE w # v
      <4>1. Entry(w)' = Entry(w)
        BY <1>1, <3>1, <3>2, <3>3
      <4> QED BY <4>1, <2>2, <3>2, StandingKept DEF IsRevoked
    <3>4. CASE w = v
      <4>1. n = m
        BY <1>0, <3>1, <3>4
      <4>2. IsRevoked(v) /\ IsRevoked(v)'
        BY <1>1, <1>3, <3>4, <4>1
      <4>3. StatusOf(n) = "revoked"
        BY <2>2, <3>4, <4>2 DEF StatusOf
      <4>4. IsRevoked(FindMatchingEntry(n))' /\ Matching(n)' # {}
        BY <2>2, <3>2, <3>4, <4>2, FirstEntryStays DEF IsRevoked
      <4> QED BY <4>3, <4>4 DEF StatusOf
    <3> QED BY <3>3, <3>4
  <2> QED BY <2>1, <2>2
<1>4. ASSUME FindMatchingEntry(m) = v, ~IsRevoked(v)
      PROVE  StatusOf(m) = "approved" /\ StatusOf(m)' = "revoked"
  <2>1. StatusOf(m) = "approved"
    BY <1>2, <1>4 DEF StatusOf
  <2>2. Matching(m)' # {} /\ FindMatchingEntry(m)' = v
    BY <1>2, <1>4, FirstEntryStays
  <2>3. IsRevoked(FindMatchingEntry(m))'
    BY <1>1, <2>2 DEF IsRevoked
  <2> QED BY <2>1, <2>2, <2>3 DEF StatusOf
<1>5. Enrolled' = Enrolled
  BY DEF Enrolled, EnrolmentOf, MeasurementOf, RevokePcrs
<1>6. Vouched' = Vouched
  BY VouchersKept DEF Vouched
<1>7. CASE FindMatchingEntry(m) # v \/ IsRevoked(v)
  <2>1. Standing' = Standing
    BY <1>3, <1>7 DEF Standing
  <2> QED BY <1>5, <1>6, <2>1
<1>8. CASE FindMatchingEntry(m) = v /\ ~IsRevoked(v)
  <2>1. Standing' = [Standing EXCEPT ![m] = "revoked"]
    BY <1>3, <1>4, <1>8, <1>2 DEF Standing
  <2>2. Standing[m] = "approved"
    BY <1>2, <1>4, <1>8 DEF Standing
  <2> QED BY <1>2, <1>5, <1>6, <2>1, <2>2 DEF Registry!Revoke
<1> QED BY <1>7, <1>8

(* register enrols the sender with the document's key and measurement.     *)
LEMMA RegisterSimulates ==
  ASSUME ChainInv, [Next]_vars, NEW a \in Addresses, NEW d \in Documents,
         Register(a, d), UNCHANGED events
  PROVE  \E e \in Registry!Enrolment : Registry!Enrol(e)
<1> USE DEF ChainInv
<1> DEFINE m == MeasurementOf(d)
           e == [operator |-> a, pk |-> d.public_key, pcrs |-> m]
<1>1. /\ Matching(m) # {} /\ ~IsRevoked(FindMatchingEntry(m))
      /\ d.public_key \in Keys
  BY CheckpointAssumption DEF Register, MayRegister, Validates
<1>2. m \in Measurements
  <2>1. PICK v \in Versions : Entry(v).pcrs = m
    BY <1>1 DEF Matching
  <2>2. v + 1 \in 1 .. Len(approved_pcrs)
    BY DEF Versions, TypeOK
  <2>3. approved_pcrs[v + 1] \in PcrSet
    BY <2>2 DEF TypeOK
  <2> QED BY <2>1, <2>3 DEF PcrSet, Entry
<1>3. PICK g : /\ gateways' = gateways \cup {g}
               /\ EnrolmentOf(g) = e
  <2> DEFINE g == [id |-> objects, pk |-> d.public_key,
                   pcr_version |-> FindMatchingEntry(m), operator |-> a,
                   registered_at_ms |-> d.timestamp, document |-> d]
  <2>1. gateways' = gateways \cup {g}
    BY DEF Register
  <2>2. EnrolmentOf(g) = e
    BY DEF EnrolmentOf
  <2> HIDE DEF g
  <2> QED BY <2>1, <2>2
<1>4. e \in Registry!Enrolment
  BY <1>1, <1>2 DEF Registry!Enrolment
<1>5. Standing[e.pcrs] = "approved"
  BY <1>1, <1>2 DEF Standing, StatusOf
<1> HIDE DEF e
<1>6. Enrolled' = Enrolled \cup {e}
  BY <1>3 DEF Enrolled, EnrolmentOf, MeasurementOf
<1>7. Standing' = Standing /\ Vouched' = Vouched
  BY DEF Register, Standing, StatusOf, IsRevoked, Matching,
         FindMatchingEntry, Entry, Versions, Vouched, VoucherOf
<1> QED BY <1>4, <1>5, <1>6, <1>7 DEF Registry!Enrol

(* destroy_gateway withdraws the enrolment, unless another Gateway of the  *)
(* same operator, key and measurement still stands for it.                 *)
LEMMA DestroySimulates ==
  ASSUME ChainInv, [Next]_vars, NEW a \in Addresses, NEW g \in gateways,
         DestroyGateway(a, g), UNCHANGED events
  PROVE  \/ \E e \in Registry!Enrolment : Registry!Withdraw(e)
         \/ UNCHANGED <<Standing, Enrolled, Vouched>>
<1> USE DEF ChainInv
<1> DEFINE e == EnrolmentOf(g)
<1>1. e \in Registry!Enrolment
  <2>1. g.pcr_version \in Versions
        /\ Entry(g.pcr_version).pcrs = MeasurementOf(g.document)
    BY GatewayVersion
  <2>2. g.pcr_version + 1 \in 1 .. Len(approved_pcrs)
    BY <2>1 DEF Versions, TypeOK
  <2>3. approved_pcrs[g.pcr_version + 1] \in PcrSet
    BY <2>2 DEF TypeOK
  <2>4. MeasurementOf(g.document) \in Measurements
    BY <2>1, <2>3 DEF PcrSet, Entry
  <2>5. g.operator \in Addresses /\ g.pk \in Keys
    BY DEF TypeOK, Gateway
  <2> QED BY <2>4, <2>5 DEF Registry!Enrolment, EnrolmentOf
<1>2. gateways' = gateways \ {g}
  BY DEF DestroyGateway
<1>3. Standing' = Standing /\ Vouched' = Vouched
  BY DEF DestroyGateway, Standing, StatusOf, IsRevoked, Matching,
         FindMatchingEntry, Entry, Versions, Vouched, VoucherOf
<1>4. CASE \E h \in gateways : h # g /\ EnrolmentOf(h) = e
  <2>1. Enrolled' = Enrolled
    BY <1>2, <1>4 DEF Enrolled, EnrolmentOf, MeasurementOf
  <2> QED BY <1>3, <2>1
<1>5. CASE \A h \in gateways : EnrolmentOf(h) = e => h = g
  <2>1. Enrolled' = Enrolled \ {e}
    <3>1. Enrolled' = {EnrolmentOf(h) : h \in gateways \ {g}}
      BY <1>2 DEF Enrolled, EnrolmentOf, MeasurementOf
    <3> HIDE DEF e
    <3> QED BY <1>5, <3>1 DEF Enrolled, e
  <2> QED BY <1>1, <1>3, <2>1 DEF Registry!Withdraw
<1> QED BY <1>4, <1>5

(* verify vouches for the receipt on behalf of the Gateway's operator.     *)
LEMMA VerifySimulates ==
  ASSUME ChainInv, [Next]_vars, NEW a \in Addresses, NEW r \in Receipts,
         NEW g \in gateways, Verify(a, g, r)
  PROVE  \E e \in Registry!Enrolment : Registry!Vouch(e, r)
<1> USE DEF ChainInv
<1> DEFINE e == EnrolmentOf(g)
           m == MeasurementOf(g.document)
<1>1. /\ g.pcr_version \in Versions
      /\ Entry(g.pcr_version).pcrs = m
      /\ Matching(m) # {}
      /\ g.pcr_version = FindMatchingEntry(m)
  BY GatewayVersion DEF VersionNamesMeasurement
<1>2. m \in Measurements
  <2>1. g.pcr_version + 1 \in 1 .. Len(approved_pcrs)
    BY <1>1 DEF Versions, TypeOK
  <2>2. approved_pcrs[g.pcr_version + 1] \in PcrSet
    BY <2>1 DEF TypeOK
  <2> QED BY <1>1, <2>2 DEF PcrSet, Entry
<1>3. g.operator \in Addresses /\ g.pk \in Keys
  BY DEF TypeOK, Gateway
<1>4. /\ e \in Registry!Enrolment
      /\ e.operator = g.operator /\ e.pk = g.pk /\ e.pcrs = m
  BY <1>2, <1>3 DEF Registry!Enrolment, EnrolmentOf
<1>5. e \in Enrolled
  BY DEF Enrolled
<1>6. Standing[m] = "approved"
  BY <1>1, <1>2 DEF Verify, Standing, StatusOf
<1>7. Standing' = Standing /\ Enrolled' = Enrolled
  BY DEF Verify, cpVars, Standing, StatusOf, IsRevoked, Matching,
         FindMatchingEntry, Entry, Versions, Enrolled, EnrolmentOf,
         MeasurementOf
<1>8. Vouched' = Vouched \cup
                   {[operator |-> g.operator, pcrs |-> m, receipt |-> r]}
  <2>1. PICK n : /\ events' = events \cup {n}
                 /\ n.operator = g.operator /\ n.receipt = r
                 /\ n.pcr_version = g.pcr_version
    <3> DEFINE n == [gateway |-> g.id, operator |-> g.operator,
                     verifier |-> a, pcr_version |-> g.pcr_version,
                     receipt |-> r]
    <3>1. events' = events \cup {n}
      BY DEF Verify
    <3>2. n.operator = g.operator /\ n.receipt = r
          /\ n.pcr_version = g.pcr_version
      OBVIOUS
    <3> HIDE DEF n
    <3> QED BY <3>1, <3>2
  <2>2. \A x : VoucherOf(x)' = VoucherOf(x)
    BY DEF VoucherOf, Entry, Verify, cpVars
  <2>3. VoucherOf(n) = [operator |-> g.operator, pcrs |-> m, receipt |-> r]
    BY <1>1, <2>1 DEF VoucherOf
  <2>4. Vouched' = {VoucherOf(x) : x \in events'}
    BY <2>2 DEF Vouched, VoucherOf, Entry, Verify, cpVars
  <2> QED BY <2>1, <2>3, <2>4 DEF Vouched
<1>9. r.signer = g.pk
  BY DEF Verify, SignatureValid
<1> HIDE DEF e
<1> QED BY <1>4, <1>5, <1>6, <1>7, <1>8, <1>9 DEF Registry!Vouch

(* The chain implements the registry of measurements.                      *)
THEOREM Refinement == Spec => ImplementsRegistry
<1>1. Init => Registry!TRInit
  BY DEF Init, CheckpointInit, Registry!TRInit, Standing, StatusOf, Matching,
         Versions, Enrolled, Vouched
<1>2. ASSUME ChainInv, [Next]_vars
      PROVE  [Registry!TRNext]_(Registry!trVars)
  <2> USE DEF Registry!TRNext, Registry!trVars
  <2>1. CASE \E m \in Measurements : ApprovePcrs(m) /\ UNCHANGED events
    BY <1>2, <2>1, ApproveSimulates
  <2>2. CASE \E v \in Versions : RevokePcrs(v) /\ UNCHANGED events
    BY <1>2, <2>2, RevokeSimulates
  <2>3. CASE \E a \in Addresses, d \in Documents :
               Register(a, d) /\ UNCHANGED events
    BY <1>2, <2>3, RegisterSimulates
  <2>4. CASE \E a \in Addresses : \E g \in gateways :
               DestroyGateway(a, g) /\ UNCHANGED events
    BY <1>2, <2>4, DestroySimulates
  <2>5. CASE \E a \in Addresses, r \in Receipts : \E g \in gateways :
               Verify(a, g, r)
    BY <1>2, <2>5, VerifySimulates
  <2>6. CASE UNCHANGED vars
    BY <2>6 DEF vars, cpVars, Standing, StatusOf, IsRevoked, Matching,
         FindMatchingEntry, Entry, Versions, Enrolled, EnrolmentOf,
         MeasurementOf, Vouched, VoucherOf
  <2> QED BY <1>2, <2>1, <2>2, <2>3, <2>4, <2>5, <2>6 DEF Next
<1> QED BY <1>1, <1>2, ChainInvariant, PTL
        DEF Spec, ImplementsRegistry, Registry!TRSpec
=============================================================================
