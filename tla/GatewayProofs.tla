--------------------------- MODULE GatewayProofs ---------------------------
(***************************************************************************)
(* Theorems about the gateway, for any calls, requests, limit and store    *)
(* capacity and any number of boots.                                       *)
(***************************************************************************)
EXTENDS Gateway, NatFacts, FiniteSetTheorems, SequenceTheorems, TLAPS

Outcomes == {"ok", "refusal", "upstream_error", "policy_denied"}

(* Insert keeps a store's type; its effect is a shift and one new element. *)
LEMMA InsertFacts ==
  ASSUME NEW S, NEW s \in Seq(S), NEW r \in S
  PROVE  /\ Insert(s, r) \in Seq(S)
         /\ Len(s) < Cap =>
              /\ Len(Insert(s, r)) = Len(s) + 1
              /\ \A i \in 1 .. Len(s) : Insert(s, r)[i] = s[i]
              /\ Insert(s, r)[Len(s) + 1] = r
         /\ Len(s) >= Cap =>
              /\ Len(Insert(s, r)) = Len(s)
              /\ \A i \in 1 .. Len(s) - 1 : Insert(s, r)[i] = s[i + 1]
              /\ Insert(s, r)[Len(s)] = r
<1>1. Cap \in Nat \ {0}
  BY CapacityAssumption DEF Cap
<1>2. Len(s) \in Nat
  OBVIOUS
<1>3. CASE Len(s) < Cap
  <2>1. Insert(s, r) = Append(s, r)
    BY <1>1, <1>2, <1>3 DEF Insert
  <2> QED BY <1>1, <1>2, <1>3, <2>1
<1>4. CASE Len(s) >= Cap
  <2>1. Insert(s, r) = Append(Tail(s), r)
    BY <1>4 DEF Insert
  <2>2. s # <<>>
    BY <1>1, <1>4
  <2>3. /\ Tail(s) \in Seq(S)
        /\ Len(Tail(s)) = Len(s) - 1
        /\ \A i \in 1 .. Len(s) - 1 : Tail(s)[i] = s[i + 1]
    BY <2>2, HeadTailProperties
  <2>4. PICK t \in Seq(S) : /\ Insert(s, r) = Append(t, r)
                            /\ Len(t) = Len(s) - 1
                            /\ \A i \in 1 .. Len(s) - 1 : t[i] = s[i + 1]
    BY <2>1, <2>3
  <2>5. /\ Append(t, r) \in Seq(S)
        /\ Len(Append(t, r)) = Len(s)
        /\ \A i \in 1 .. Len(s) - 1 : Append(t, r)[i] = s[i + 1]
        /\ Append(t, r)[Len(s)] = r
    BY <1>2, <2>4
  <2> QED BY <1>1, <1>2, <1>4, <2>4, <2>5
<1> QED BY <1>1, <1>2, <1>3, <1>4

-----------------------------------------------------------------------------
(* What a step does to the receipts: nothing, one more receipt of a call,  *)
(* or a reboot.                                                            *)
Signs ==
  \E c \in Calls, met \in BOOLEAN, outcome \in Outcomes :
    SignAndStore(Receipt(c, met, outcome))

(* Store and log change by signing or in a reboot, and not otherwise.      *)
LEMMA ReceiptSteps ==
  ASSUME [Next]_vars
  PROVE  \/ UNCHANGED <<entries, log, boot>>
         \/ Signs /\ UNCHANGED boot
         \/ Reboot
<1> USE DEF receiptVars, Outcomes
<1>1. ASSUME NEW c \in Calls, NEW met \in BOOLEAN, NEW o \in Outcomes,
             NEW status, Finish(c, Receipt(c, met, o), status)
      PROVE  UNCHANGED <<entries, log>> \/ Signs
  BY <1>1 DEF Finish, Signs
<1>2. ASSUME NEW c \in Calls, NEW met \in BOOLEAN, Fail(c, met)
      PROVE  UNCHANGED <<entries, log>> \/ Signs
  BY <1>1, <1>2 DEF Fail
<1>3. ASSUME NEW c \in Calls, NEW o \in Outcomes, FinishStream(c, o)
      PROVE  UNCHANGED boot /\ (UNCHANGED <<entries, log>> \/ Signs)
  BY <1>3 DEF FinishStream, Signs
<1>4. ASSUME NEW x PROVE OutcomeFor(x) \in Outcomes
  BY DEF OutcomeFor
<1>5. ASSUME NEW c \in Calls,
             Arrive(c) \/ Authenticate(c) \/ Dispatch(c) \/ Disconnect(c)
      PROVE  UNCHANGED <<entries, log, boot>>
  BY <1>5 DEF Arrive, Authenticate, Dispatch, Disconnect
<1>6. ASSUME NEW c \in Calls, Screen(c)
      PROVE  UNCHANGED boot /\ (UNCHANGED <<entries, log>> \/ Signs)
  BY <1>1, <1>6 DEF Screen
<1>7. ASSUME NEW c \in Calls, ConnectFails(c) \/ AnswerLost(c)
                              \/ BodyBreaks(c) \/ ErrorBodyDone(c)
      PROVE  UNCHANGED boot /\ (UNCHANGED <<entries, log>> \/ Signs)
  BY <1>2, <1>7 DEF ConnectFails, AnswerLost, BodyBreaks, ErrorBodyDone
<1>8. ASSUME NEW c \in Calls, NEW s \in BOOLEAN, HeadArrives(c, s)
      PROVE  UNCHANGED <<entries, log, boot>>
  BY <1>8 DEF HeadArrives
<1>9. ASSUME NEW c \in Calls, NEW s, BodyArrives(c, s)
      PROVE  UNCHANGED boot /\ (UNCHANGED <<entries, log>> \/ Signs)
  BY <1>1, <1>2, <1>4, <1>9 DEF BodyArrives
<1>10. ASSUME NEW c \in Calls, NEW s, Chunk(c, s)
       PROVE  UNCHANGED <<entries, log, boot>>
  BY <1>10 DEF Chunk
<1>11. ASSUME NEW c \in Calls, StreamEnds(c) \/ StreamBreaks(c)
       PROVE  UNCHANGED boot /\ (UNCHANGED <<entries, log>> \/ Signs)
  BY <1>3, <1>4, <1>11 DEF StreamEnds, StreamBreaks
<1>12. CASE UNCHANGED vars
  BY <1>12 DEF vars
<1> QED BY <1>5, <1>6, <1>7, <1>8, <1>9, <1>10, <1>11, <1>12
        DEF Next, Handle, Upstream

(* A receipt a call can be given is well typed.                            *)
LEMMA ReceiptType ==
  ASSUME TypeOK, NEW c \in Calls, NEW met \in BOOLEAN, NEW o \in Outcomes
  PROVE  Receipt(c, met, o) \in Receipts
<1>1. req[c] \in Request
  BY GatewayAssumption DEF TypeOK
<1>2. ReceiptId(c) \in Calls \cup Nonces
  BY <1>1 DEF ReceiptId, Request
<1>3. boot \in Nat
  BY DEF TypeOK
<1> QED BY <1>2, <1>3 DEF Receipt, Receipts, Outcomes

(* Store and log go on holding receipts.                                   *)
LEMMA ReceiptsTyped ==
  ASSUME TypeOK, [Next]_vars
  PROVE  entries' \in Seq(Receipts) /\ log' \in Seq(Receipts) /\ boot' \in Nat
<1> USE DEF TypeOK
<1>1. CASE UNCHANGED <<entries, log, boot>>
  BY <1>1
<1>2. CASE Signs /\ UNCHANGED boot
  <2>1. PICK c \in Calls, met \in BOOLEAN, o \in Outcomes :
          SignAndStore(Receipt(c, met, o))
    BY <1>2 DEF Signs
  <2>2. Receipt(c, met, o) \in Receipts
    BY ReceiptType
  <2>3. Insert(entries, Receipt(c, met, o)) \in Seq(Receipts)
    BY <2>2, InsertFacts
  <2> QED BY <1>2, <2>1, <2>2, <2>3 DEF SignAndStore
<1>3. CASE Reboot
  BY <1>3 DEF Reboot
<1> QED BY <1>1, <1>2, <1>3, ReceiptSteps

(* What the two ways out of a handler do to the rest of the state.         *)
LEMMA FinishTypes ==
  ASSUME TypeOK, NEW c \in Calls, NEW met \in BOOLEAN, NEW o \in Outcomes,
         NEW status \in Nat, Finish(c, Receipt(c, met, o), status)
  PROVE  /\ phase' \in [Calls -> Phases]
         /\ reply' \in [Calls -> [status : Nat,
                                  header : Calls \cup Nonces \cup {NoHeader}]]
         /\ permits' \in Nat
<1>1. Receipt(c, met, o).id \in Calls \cup Nonces
  BY ReceiptType DEF Receipts
<1>2. \/ reply' = [reply EXCEPT ![c] = [status |-> status,
                     header |-> Receipt(c, met, o).id]]
      \/ reply' = [reply EXCEPT ![c] = [status |-> 500, header |-> NoHeader]]
  BY DEF Finish, Tell
<1>3. phase' = [phase EXCEPT ![c] = "replied"] /\ permits' = permits + 1
  BY DEF Finish, Turn
<1>4. phase' \in [Calls -> Phases] /\ permits' \in Nat
  BY <1>3 DEF TypeOK, Phases
<1>5. reply \in [Calls -> [status : Nat,
                           header : Calls \cup Nonces \cup {NoHeader}]]
  BY DEF TypeOK
<1> QED BY <1>1, <1>2, <1>4, <1>5

(* Turning a call away leaves phases and replies well typed.               *)
LEMMA TurnAwayTypes ==
  ASSUME TypeOK, NEW c \in Calls, NEW status \in Nat, TurnAway(c, status)
  PROVE  /\ phase' \in [Calls -> Phases]
         /\ reply' \in [Calls -> [status : Nat,
                                  header : Calls \cup Nonces \cup {NoHeader}]]
BY DEF TurnAway, Turn, Tell, TypeOK, Phases

(* Type correctness.                                                       *)
THEOREM TypeCorrect == Spec => []TypeOK
<1>1. Init => TypeOK
  BY GatewayAssumption DEF Init, TypeOK, NoReply, Phases, Exchanges, Sayings
<1>2. TypeOK /\ [Next]_vars => TypeOK'
  <2> SUFFICES ASSUME TypeOK, [Next]_vars
               PROVE  TypeOK'
    OBVIOUS
  <2> DEFINE Replies == [Calls -> [status : Nat,
                                   header : Calls \cup Nonces \cup {NoHeader}]]
             Rest == /\ phase' \in [Calls -> Phases]
                     /\ req' \in [Calls -> Requests]
                     /\ exchange' \in [Calls -> Exchanges]
                     /\ said' \in [Calls -> Sayings]
                     /\ reply' \in Replies
                     /\ permits' \in Nat
  <2>0. SUFFICES Rest
    BY ReceiptsTyped DEF TypeOK
  <2> USE DEF Turn, Exchanges
  <2>1. ASSUME NEW c \in Calls, Arrive(c) PROVE Rest
    BY <2>1 DEF Arrive, TypeOK, Phases
  <2>2. ASSUME NEW c \in Calls, Authenticate(c) PROVE Rest
    <3>1. ASSUME NEW s \in Nat, TurnAway(c, s), UNCHANGED permits PROVE Rest
      BY <2>2, <3>1, TurnAwayTypes DEF Authenticate, TypeOK
    <3>2. CASE Turn(c, "admitted") /\ permits > 0 /\ permits' = permits - 1
               /\ UNCHANGED reply
      BY <2>2, <3>2 DEF Authenticate, TypeOK, Phases
    <3> QED BY <2>2, <3>1, <3>2 DEF Authenticate
  <2>3. ASSUME NEW c \in Calls, Screen(c) PROVE Rest
    <3>1. UNCHANGED <<req, exchange, said>>
      BY <2>3 DEF Screen
    <3>2. \/ (TurnAway(c, 400) \/ TurnAway(c, 503)) /\ permits' = permits + 1
          \/ Finish(c, Receipt(c, FALSE, "policy_denied"), 403)
          \/ Turn(c, "calling") /\ UNCHANGED <<reply, permits>>
      BY <2>3, Zenon DEF Screen, Turn
    <3>3. CASE (TurnAway(c, 400) \/ TurnAway(c, 503)) /\ permits' = permits + 1
      BY <3>1, <3>3, TurnAwayTypes DEF TypeOK
    <3>4. CASE Finish(c, Receipt(c, FALSE, "policy_denied"), 403)
      <4>1. "policy_denied" \in Outcomes /\ FALSE \in BOOLEAN /\ 403 \in Nat
        BY DEF Outcomes
      <4>2. /\ phase' \in [Calls -> Phases] /\ reply' \in Replies
            /\ permits' \in Nat
        BY <3>4, <4>1, FinishTypes
      <4> QED BY <3>1, <4>2 DEF TypeOK
    <3>5. CASE Turn(c, "calling") /\ UNCHANGED <<reply, permits>>
      BY <3>1, <3>5 DEF TypeOK, Phases
    <3> QED BY <3>2, <3>3, <3>4, <3>5
  <2>4. ASSUME NEW c \in Calls, NEW met \in BOOLEAN, Fail(c, met)
        PROVE  /\ phase' \in [Calls -> Phases] /\ reply' \in Replies
               /\ permits' \in Nat
    BY <2>4, FinishTypes DEF Fail, Outcomes
  <2>5. ASSUME NEW c \in Calls, ConnectFails(c) \/ ErrorBodyDone(c) PROVE Rest
    BY <2>4, <2>5 DEF ConnectFails, ErrorBodyDone, TypeOK
  <2>6. ASSUME NEW c \in Calls, Dispatch(c) PROVE Rest
    BY <2>6 DEF Dispatch, TypeOK
  <2>7. ASSUME NEW c \in Calls, AnswerLost(c) \/ BodyBreaks(c) PROVE Rest
    BY <2>4, <2>7 DEF AnswerLost, BodyBreaks, TypeOK
  <2>8. ASSUME NEW c \in Calls, NEW s \in BOOLEAN, HeadArrives(c, s)
        PROVE  Rest
    <3>1. ReceiptId(c) \in Calls \cup Nonces
      BY GatewayAssumption DEF ReceiptId, TypeOK, Request
    <3>2. exchange' \in [Calls -> Exchanges] /\ UNCHANGED <<req, said>>
      BY <2>8 DEF HeadArrives, TypeOK
    <3>3. CASE /\ Turn(c, "streaming") /\ Tell(c, 200, ReceiptId(c))
               /\ permits' = permits + 1
      <4>1. [status |-> 200, header |-> ReceiptId(c)]
              \in [status : Nat, header : Calls \cup Nonces \cup {NoHeader}]
        BY <3>1
      <4>2. reply' \in Replies
        BY <3>3, <4>1 DEF Tell, TypeOK
      <4>3. phase' \in [Calls -> Phases] /\ permits' \in Nat
        BY <3>3 DEF TypeOK, Phases
      <4>4. req' \in [Calls -> Requests] /\ said' \in [Calls -> Sayings]
        BY <3>2 DEF TypeOK
      <4> QED BY <3>2, <4>2, <4>3, <4>4, Zenon
    <3>4. CASE /\ Turn(c, "errorBody") \/ Turn(c, "body")
               /\ UNCHANGED <<reply, permits>>
      BY <3>2, <3>4 DEF TypeOK, Phases
    <3> QED BY <2>8, <3>3, <3>4 DEF HeadArrives
  <2>9. ASSUME NEW c \in Calls,
               NEW s \in {"stop", "refusal", "garbled", "notJson"},
               BodyArrives(c, s)
        PROVE  Rest
    <3>1. OutcomeFor(s) \in Outcomes
      BY DEF OutcomeFor, Outcomes
    <3>2. /\ phase' \in [Calls -> Phases] /\ reply' \in Replies
          /\ permits' \in Nat
      BY <2>4, <2>9, <3>1, FinishTypes DEF BodyArrives
    <3> QED BY <2>9, <3>2 DEF BodyArrives, TypeOK, Sayings
  <2>10. ASSUME NEW c \in Calls, NEW s \in {"stop", "refusal", "error"},
                Chunk(c, s)
         PROVE  Rest
    BY <2>10 DEF Chunk, TypeOK, Sayings
  <2>11. ASSUME NEW c \in Calls, StreamEnds(c) \/ StreamBreaks(c) PROVE Rest
    BY <2>11 DEF StreamEnds, StreamBreaks, FinishStream, TypeOK, Phases
  <2>12. ASSUME NEW c \in Calls, Disconnect(c) PROVE Rest
    BY <2>12 DEF Disconnect, TypeOK, Phases
  <2>13. CASE Reboot
    BY <2>13, GatewayAssumption DEF Reboot, TypeOK, Phases
  <2>14. CASE UNCHANGED vars
    BY <2>14 DEF vars, callVars, TypeOK
  <2> HIDE DEF Rest
  <2> QED BY <2>1, <2>2, <2>3, <2>5, <2>6, <2>7, <2>8, <2>9, <2>10, <2>11,
             <2>12, <2>13, <2>14 DEF Next, Handle, Upstream
<1> QED BY <1>1, <1>2, PTL DEF Spec

-----------------------------------------------------------------------------
(* Permits.  A step that moves a call from one phase to another gives back *)
(* the permit it held and takes the one it will hold.                      *)
Held(ph) == IF ph \in Holding THEN 1 ELSE 0

Moves(c, to) == Turn(c, to) /\ permits' = permits + Held(phase[c]) - Held(to)

(* A step moves one call, taking or giving back what the phases say, or is *)
(* a reboot, or moves none.                                                *)
LEMMA PhaseSteps ==
  ASSUME TypeOK, [Next]_vars
  PROVE  \/ UNCHANGED <<phase, permits>>
         \/ \E c \in Calls, to \in Phases : Moves(c, to)
         \/ Reboot
<1> USE DEF Held, Holding, Phases
<1>0. permits \in Nat
  BY DEF TypeOK
<1>1. ASSUME NEW c \in Calls, Arrive(c) PROVE Moves(c, "arrived")
  BY <1>0, <1>1 DEF Arrive, Moves
<1>2. ASSUME NEW c \in Calls, Authenticate(c)
      PROVE  Moves(c, "replied") \/ Moves(c, "admitted")
  BY <1>0, <1>2 DEF Authenticate, TurnAway, Moves
<1>12. ASSUME NEW c \in Calls, phase[c] \in Holding,
              Turn(c, "replied"), permits' = permits + 1
       PROVE  Moves(c, "replied")
  BY <1>0, <1>12 DEF Moves
<1>13. ASSUME NEW c \in Calls, phase[c] \in Holding, NEW met, NEW o, NEW s,
              Finish(c, Receipt(c, met, o), s) \/ Fail(c, met)
       PROVE  Moves(c, "replied")
  BY <1>12, <1>13 DEF Finish, Fail
<1>3. ASSUME NEW c \in Calls, Screen(c)
      PROVE  Moves(c, "replied") \/ Moves(c, "calling")
  <2>1. phase[c] \in Holding
    BY <1>3 DEF Screen
  <2>2. \/ Turn(c, "replied") /\ permits' = permits + 1
        \/ Finish(c, Receipt(c, FALSE, "policy_denied"), 403)
        \/ Turn(c, "calling") /\ permits' = permits
    BY <1>3, Zenon DEF Screen, TurnAway
  <2>3. CASE Turn(c, "calling") /\ permits' = permits
    BY <1>0, <1>3, <2>3 DEF Screen, Moves
  <2> QED BY <1>12, <1>13, <2>1, <2>2, <2>3
<1>4. ASSUME NEW c \in Calls, ConnectFails(c) \/ AnswerLost(c)
                              \/ BodyBreaks(c) \/ ErrorBodyDone(c)
      PROVE  Moves(c, "replied")
  BY <1>13, <1>4 DEF ConnectFails, AnswerLost, BodyBreaks, ErrorBodyDone
<1>5. ASSUME NEW c \in Calls, NEW s \in BOOLEAN, HeadArrives(c, s)
      PROVE  \E to \in Phases : Moves(c, to)
  BY <1>0, <1>5 DEF HeadArrives, Moves
<1>6. ASSUME NEW c \in Calls, NEW s, BodyArrives(c, s)
      PROVE  Moves(c, "replied")
  BY <1>13, <1>6 DEF BodyArrives
<1>7. ASSUME NEW c \in Calls, StreamEnds(c) \/ StreamBreaks(c)
      PROVE  Moves(c, "replied") \/ Moves(c, "unsigned")
  <2>1. /\ phase[c] = "streaming" /\ UNCHANGED permits
        /\ Turn(c, "replied") \/ Turn(c, "unsigned")
    BY <1>7 DEF StreamEnds, StreamBreaks, FinishStream
  <2> QED BY <1>0, <2>1 DEF Moves
<1>8. ASSUME NEW c \in Calls, Disconnect(c)
      PROVE  Moves(c, "gone")
  BY <1>0, <1>8 DEF Disconnect, Moves
<1>9. ASSUME NEW c \in Calls, NEW s, Dispatch(c) \/ Chunk(c, s)
      PROVE  UNCHANGED <<phase, permits>>
  BY <1>9 DEF Dispatch, Chunk
<1>10. CASE UNCHANGED vars
  BY <1>10 DEF vars, callVars
<1>11. {"arrived", "replied", "unsigned", "admitted", "calling", "gone"}
         \subseteq Phases
  OBVIOUS
<1> HIDE DEF Phases
<1> QED BY <1>1, <1>2, <1>3, <1>4, <1>5, <1>6, <1>7, <1>8, <1>9, <1>10, <1>11
        DEF Next, Handle, Upstream

Holders == {c \in Calls : phase[c] \in Holding}

(* Calls are finite, so holders can be counted.                            *)
LEMMA HoldersFinite ==
  ASSUME NEW S, S \subseteq Calls
  PROVE  IsFiniteSet(S) /\ Cardinality(S) \in Nat
BY GatewayAssumption, FS_Subset, FS_CardinalityType

(* No permit is lost or made up.                                           *)
THEOREM PermitsAccounted == Spec => []PermitAccounting
<1>1. Init => PermitAccounting
  <2> SUFFICES ASSUME Init PROVE PermitAccounting
    OBVIOUS
  <2>1. {c \in Calls : phase[c] \in Holding} = {}
    BY DEF Init, Holding
  <2>2. permits = Limit /\ Limit \in Nat
    BY GatewayAssumption DEF Init
  <2>3. Cardinality({}) = 0
    BY FS_EmptySet
  <2> QED BY <2>1, <2>2, <2>3 DEF PermitAccounting
<1>2. TypeOK /\ PermitAccounting /\ [Next]_vars => PermitAccounting'
  <2> SUFFICES ASSUME TypeOK, permits + Cardinality(Holders) = Limit, [Next]_vars
               PROVE  permits' + Cardinality(Holders') = Limit
    BY DEF PermitAccounting, Holders
  <2>1. permits \in Nat /\ Limit \in Nat
        /\ IsFiniteSet(Holders) /\ Cardinality(Holders) \in Nat
    BY GatewayAssumption, HoldersFinite DEF TypeOK, Holders
  <2>2. CASE UNCHANGED <<phase, permits>>
    BY <2>2 DEF Holders
  <2>3. ASSUME NEW c \in Calls, NEW to \in Phases, Moves(c, to)
        PROVE  permits' + Cardinality(Holders') = Limit
    <3>1. phase' = [phase EXCEPT ![c] = to] /\ phase \in [Calls -> Phases]
      BY <2>3 DEF Moves, Turn, TypeOK
    <3>2. CASE (phase[c] \in Holding) = (to \in Holding)
      <4>1. Holders' = Holders
        BY <3>1, <3>2 DEF Holders
      <4> QED BY <2>1, <2>3, <3>2, <4>1 DEF Moves, Held
    <3>3. CASE phase[c] \in Holding /\ to \notin Holding
      <4>1. Holders' = Holders \ {c} /\ c \in Holders
        BY <3>1, <3>3 DEF Holders
      <4>2. Cardinality(Holders') = Cardinality(Holders) - 1
        BY <2>1, <4>1, FS_RemoveElement
      <4> QED BY <2>1, <2>3, <3>3, <4>2 DEF Moves, Held
    <3>4. CASE phase[c] \notin Holding /\ to \in Holding
      <4>1. Holders' = Holders \cup {c} /\ c \notin Holders
        BY <3>1, <3>4 DEF Holders
      <4>2. Cardinality(Holders') = Cardinality(Holders) + 1
        BY <2>1, <4>1, FS_AddElement
      <4> QED BY <2>1, <2>3, <3>4, <4>2 DEF Moves, Held
    <3> QED BY <3>2, <3>3, <3>4
  <2>4. CASE Reboot
    <3>1. Holders' = {}
      BY <2>4 DEF Reboot, Holders, Holding, Over, TypeOK
    <3> QED BY <2>1, <2>4, <3>1, FS_EmptySet DEF Reboot
  <2> QED BY <2>2, <2>3, <2>4, PhaseSteps
<1> QED BY <1>1, <1>2, TypeCorrect, PTL DEF Spec

-----------------------------------------------------------------------------
(* The receipt store.  It is the end of the log: what the store has lost   *)
(* is older than Cap receipts or of an earlier boot.                       *)
Lost == Len(log) - Len(entries)

StoreHoldsNewest ==
  /\ Len(entries) <= Cap
  /\ Lost >= 0
  /\ \A i \in 1 .. Len(entries) : /\ entries[i] = log[Lost + i]
                                  /\ log[Lost + i].boot = boot
  /\ \A i \in 1 .. Len(log) : log[i].boot <= boot
  /\ Len(entries) < Cap => \A i \in 1 .. Lost : log[i].boot < boot

(* Inserting and evicting keep the store the tail of this boot's log.      *)
LEMMA StoreStep ==
  TypeOK /\ StoreHoldsNewest /\ [Next]_vars => StoreHoldsNewest'
<1> SUFFICES ASSUME TypeOK, StoreHoldsNewest, [Next]_vars
             PROVE  StoreHoldsNewest'
  OBVIOUS
<1>1. /\ Cap \in Nat \ {0} /\ boot \in Nat
      /\ entries \in Seq(Receipts) /\ log \in Seq(Receipts)
  BY CapacityAssumption DEF Cap, TypeOK
<1>2. /\ Len(entries) \in Nat /\ Len(log) \in Nat
      /\ \A i \in 1 .. Len(log) : log[i] \in Receipts
      /\ \A x \in Receipts : x.boot \in Nat
  <2>1. \A i \in 1 .. Len(log) : log[i] \in Receipts
    BY <1>1, ElementOfSeq
  <2>2. \A x \in Receipts : x.boot \in Nat
    BY DEF Receipts
  <2> QED BY <1>1, <2>1, <2>2
<1>3. CASE UNCHANGED <<entries, log, boot>>
  BY <1>3 DEF StoreHoldsNewest, Lost
<1>4. CASE Signs /\ UNCHANGED boot
  <2>1. PICK c \in Calls, met \in BOOLEAN, o \in Outcomes :
          SignAndStore(Receipt(c, met, o))
    BY <1>4 DEF Signs
  <2>2. PICK r \in Receipts : /\ r.boot = boot
                              /\ log' = Append(log, r)
                              /\ entries' = Insert(entries, r)
    <3>1. Receipt(c, met, o) \in Receipts /\ Receipt(c, met, o).boot = boot
      BY ReceiptType DEF Receipt
    <3> QED BY <2>1, <3>1 DEF SignAndStore
  <2>3. /\ Len(log') = Len(log) + 1
        /\ \A i \in 1 .. Len(log) : log'[i] = log[i]
        /\ log'[Len(log) + 1] = r
    BY <1>1, <2>2
  <2> DEFINE n == Len(entries)
             N == Insert(entries, r)
  <2>6. /\ n < Cap => /\ Len(N) = n + 1
                      /\ \A i \in 1 .. n : N[i] = entries[i]
                      /\ N[n + 1] = r
        /\ n >= Cap => /\ Len(N) = n
                       /\ \A i \in 1 .. n - 1 : N[i] = entries[i + 1]
                       /\ N[n] = r
    BY <1>1, InsertFacts
  <2> HIDE DEF N
  <2>7. entries' = N /\ boot' = boot
    BY <1>4, <2>2 DEF N
  <2>8. \A i \in 1 .. Len(log') : log'[i].boot <= boot
    <3> TAKE i \in 1 .. Len(log')
    <3>1. CASE i \in 1 .. Len(log)
      BY <2>3, <3>1 DEF StoreHoldsNewest
    <3>2. CASE i = Len(log) + 1
      BY <1>1, <2>2, <2>3, <3>2
    <3> QED BY <1>2, <2>3, <3>1, <3>2
  <2>4. CASE Len(entries) < Cap
    <3>1. /\ Len(entries') = n + 1
          /\ \A i \in 1 .. n : entries'[i] = entries[i]
          /\ entries'[n + 1] = r
      BY <2>4, <2>6, <2>7
    <3>2. Lost' = Lost /\ Lost >= 0 /\ Lost \in Int
      BY <1>2, <2>3, <3>1 DEF Lost, StoreHoldsNewest
    <3>3. \A i \in 1 .. n + 1 : /\ entries'[i] = log'[Lost + i]
                               /\ log'[Lost + i].boot = boot
      <4> TAKE i \in 1 .. n + 1
      <4>1. CASE i \in 1 .. n
        <5>1. Lost + i \in 1 .. Len(log)
          BY <1>2, <3>2, <4>1 DEF Lost
        <5> QED BY <2>3, <3>1, <4>1, <5>1 DEF StoreHoldsNewest
      <4>2. CASE i = n + 1
        <5>1. Lost + i = Len(log) + 1
          BY <1>2, <4>2 DEF Lost
        <5> QED BY <2>2, <2>3, <3>1, <4>2, <5>1
      <4> QED BY <1>2, <4>1, <4>2
    <3>4. \A i \in 1 .. Lost : log'[i].boot < boot
      <4> TAKE i \in 1 .. Lost
      <4>1. i \in 1 .. Len(log)
        BY <1>2, <3>2 DEF Lost
      <4> QED BY <2>3, <2>4, <4>1 DEF StoreHoldsNewest
    <3> QED BY <1>1, <1>2, <2>4, <2>7, <2>8, <3>1, <3>2, <3>3, <3>4
            DEF StoreHoldsNewest
  <2>5. CASE Len(entries) >= Cap
    <3>0. n = Cap
      BY <1>1, <1>2, <2>5 DEF StoreHoldsNewest
    <3>1. /\ Len(entries') = n
          /\ \A i \in 1 .. n - 1 : entries'[i] = entries[i + 1]
          /\ entries'[n] = r
      BY <2>5, <2>6, <2>7
    <3>2. Lost' = Lost + 1 /\ Lost >= 0 /\ Lost \in Int
      BY <1>2, <2>3, <3>1 DEF Lost, StoreHoldsNewest
    <3>3. \A i \in 1 .. n : /\ entries'[i] = log'[Lost + 1 + i]
                            /\ log'[Lost + 1 + i].boot = boot
      <4> TAKE i \in 1 .. n
      <4>1. CASE i \in 1 .. n - 1
        <5>1. /\ i + 1 \in 1 .. n
              /\ Lost + (i + 1) \in 1 .. Len(log)
              /\ Lost + 1 + i = Lost + (i + 1)
          BY <1>2, <3>2, <4>1 DEF Lost
        <5> QED BY <2>3, <3>1, <4>1, <5>1 DEF StoreHoldsNewest
      <4>2. CASE i = n
        <5>1. Lost + 1 + i = Len(log) + 1
          BY <1>2, <4>2 DEF Lost
        <5> QED BY <2>2, <2>3, <3>1, <4>2, <5>1
      <4> QED BY <1>2, <4>1, <4>2
    <3> QED BY <1>1, <1>2, <2>7, <2>8, <3>0, <3>1, <3>2, <3>3
            DEF StoreHoldsNewest
  <2> QED BY <1>1, <1>2, <2>4, <2>5
<1>5. CASE Reboot
  <2>1. entries' = <<>> /\ log' = log /\ boot' = boot + 1
    BY <1>5 DEF Reboot
  <2>2. Len(entries') = 0 /\ Lost' = Len(log)
    BY <1>2, <2>1 DEF Lost
  <2>3. \A i \in 1 .. Len(log) : log[i].boot < boot + 1
    BY <1>1, <1>2 DEF StoreHoldsNewest
  <2> QED BY <1>1, <1>2, <2>1, <2>2, <2>3 DEF StoreHoldsNewest
<1> QED BY <1>3, <1>4, <1>5, ReceiptSteps

(* Reading such a store by id is reading the end of the log by id.         *)
LEMMA FetchFromLog == TypeOK /\ StoreHoldsNewest => FetchReturnsNewest
<1> SUFFICES ASSUME TypeOK, StoreHoldsNewest, NEW id \in Calls \cup Nonces
             PROVE  LET fetchable == {i \in DOMAIN log :
                                        /\ log[i].id = id
                                        /\ log[i].boot = boot
                                        /\ Len(log) - i < Cap}
                    IN  IF fetchable = {} THEN Get(entries, id) = NotFound
                        ELSE Get(entries, id) =
                               log[CHOOSE i \in fetchable :
                                     \A j \in fetchable : j <= i]
  BY DEF FetchReturnsNewest
<1> DEFINE F == {i \in DOMAIN log : /\ log[i].id = id
                                    /\ log[i].boot = boot
                                    /\ Len(log) - i < Cap}
           H == Hits(entries, id)
<1>1. /\ Cap \in Nat \ {0} /\ boot \in Nat
      /\ Len(entries) \in Nat /\ Len(log) \in Nat
      /\ DOMAIN entries = 1 .. Len(entries) /\ DOMAIN log = 1 .. Len(log)
  BY CapacityAssumption DEF Cap, TypeOK
<1>2. Lost \in Nat /\ Len(log) = Lost + Len(entries)
  BY <1>1 DEF StoreHoldsNewest, Lost
<1>3. \A i \in H : Lost + i \in F /\ entries[i] = log[Lost + i]
  BY <1>1, <1>2 DEF Hits, StoreHoldsNewest
<1>4. \A i \in F : i - Lost \in H
  <2> SUFFICES ASSUME NEW i \in F PROVE i - Lost \in H
    OBVIOUS
  <2>1. i > Lost
    <3>1. CASE Len(entries) < Cap
      BY <1>1, <1>2, <3>1 DEF StoreHoldsNewest
    <3>2. CASE Len(entries) = Cap
      BY <1>1, <1>2, <3>2
    <3> QED BY <1>1, <3>1, <3>2 DEF StoreHoldsNewest
  <2>2. i - Lost \in 1 .. Len(entries) /\ Lost + (i - Lost) = i
    BY <1>1, <1>2, <2>1
  <2>3. entries[i - Lost] = log[i]
    BY <2>2 DEF StoreHoldsNewest
  <2> QED BY <1>1, <2>2, <2>3 DEF Hits
<1>5. H \subseteq 1 .. Len(entries) /\ F \subseteq 1 .. Len(log)
  BY <1>1 DEF Hits
<1> HIDE DEF H, F
<1>6. CASE F = {}
  <2>1. H = {}
    BY <1>3, <1>6
  <2>2. Get(entries, id) = NotFound
    BY <2>1 DEF Get, H
  <2> QED BY <1>6, <2>2 DEF F
<1>7. CASE F # {}
  <2>1. PICK x \in F : \A j \in F : j <= x
    <3>1. F \in SUBSET (0 .. Len(log))
      BY <1>1, <1>5
    <3> QED BY <1>1, <1>7, <3>1, GreatestOfNats
  <2>2. (CHOOSE i \in F : \A j \in F : j <= i) = x
    <3> DEFINE y == CHOOSE i \in F : \A j \in F : j <= i
    <3>1. y \in F /\ \A j \in F : j <= y
      BY <2>1
    <3> HIDE DEF y
    <3>2. y = x
      BY <1>1, <1>5, <2>1, <3>1
    <3> QED BY <3>2 DEF y
  <2>3. x - Lost \in H /\ \A j \in H : j <= x - Lost
    BY <1>1, <1>2, <1>3, <1>4, <1>5, <2>1
  <2>4. (CHOOSE i \in H : \A j \in H : j <= i) = x - Lost
    <3> DEFINE y == CHOOSE i \in H : \A j \in H : j <= i
    <3>1. y \in H /\ \A j \in H : j <= y
      BY <2>3
    <3> HIDE DEF y
    <3>2. y = x - Lost
      BY <1>1, <1>2, <1>5, <2>3, <3>1
    <3> QED BY <3>2 DEF y
  <2>5. Get(entries, id) = entries[x - Lost]
    BY <2>3, <2>4 DEF Get, H
  <2>6. entries[x - Lost] = log[x]
    BY <1>1, <1>2, <1>3, <1>5, <2>1, <2>3
  <2> QED BY <1>7, <2>2, <2>5, <2>6 DEF F
<1> QED BY <1>6, <1>7

(* GET /receipts/{id} returns the newest receipt signed under the id, or   *)
(* nothing once Cap younger ones were signed or the enclave restarted.     *)
THEOREM FetchCorrect == Spec => []FetchReturnsNewest
<1>1. Init => StoreHoldsNewest
  BY CapacityAssumption DEF Init, StoreHoldsNewest, Lost, Cap
<1> QED BY <1>1, TypeCorrect, StoreStep, FetchFromLog, PTL DEF Spec

-----------------------------------------------------------------------------
(* Calls and their receipts.  What holds of a call in each of its phases:  *)
(* the exchange it can have got to and what it has been told.              *)
Refused(c) == "denied" \in req[c].flaws

CallOk(c) ==
  /\ phase[c] \in {"idle", "arrived", "admitted", "calling"} =>
       /\ exchange[c] \in {"none", "sent"}
       /\ exchange[c] = "none" \/ phase[c] = "calling"
       /\ said[c] = "nothing" /\ reply[c] = NoReply
  /\ phase[c] = "body" =>
       /\ exchange[c] \in {"answered", "declined"} /\ said[c] = "nothing"
       /\ reply[c] = NoReply /\ ~req[c].stream
  /\ phase[c] = "errorBody" =>
       /\ exchange[c] = "declined" /\ said[c] = "nothing"
       /\ reply[c] = NoReply /\ req[c].stream
  /\ phase[c] = "streaming" =>
       /\ exchange[c] = "answered" /\ req[c].stream
       /\ said[c] \in {"nothing", "stop", "refusal", "error"}
       /\ reply[c] = [status |-> 200, header |-> ReceiptId(c)]
  /\ phase[c] = "unsigned" => req[c].stream
  /\ Refused(c) => exchange[c] = "none"
                   /\ phase[c] \notin {"calling", "body", "errorBody", "streaming"}

(* One receipt tells the truth about its call.                             *)
Truthful(r) ==
  LET c == r.call
  IN  /\ said[c] # "error" => r.outcome = TrueOutcome(c)
      /\ r.met => exchange[c] \in {"answered", "declined", "complete", "broken"}
      /\ r.forced <=> r.met /\ req[c].stream /\ req[c].surface = "openai"
      /\ r.outcome \in {"ok", "refusal"} => r.met
      /\ r.outcome = "policy_denied" => exchange[c] = "none"

Receipted(c) == \E i \in DOMAIN log : log[i].call = c

(* The inductive invariant: RepliesBacked and ReceiptsTruthful speak of    *)
(* calls that are over, this of every phase on the way there.              *)
CallsOk ==
  /\ \A c \in Calls : CallOk(c)
  /\ \A c \in Calls :
       Receipted(c) <=> phase[c] = "replied" /\ reply[c].header # NoHeader
  /\ \A i \in DOMAIN log : Truthful(log[i]) /\ Backs(log[i], log[i].call)
  /\ \A i, j \in DOMAIN log : log[i].call = log[j].call => i = j

Keeps(d) ==
  /\ phase'[d] = phase[d] /\ req'[d] = req[d] /\ exchange'[d] = exchange[d]
  /\ said'[d] = said[d] /\ reply'[d] = reply[d]

(* A step of c: its own fields and nobody else's.                          *)
StepOf(c) ==
  /\ req' = req
  /\ phase[c] \notin Over
  /\ \A d \in Calls \ {c} : Keeps(d)

(* What is true of a call stays true while nothing about it changes.       *)
LEMMA Kept ==
  ASSUME NEW d \in Calls, Keeps(d)
  PROVE  /\ CallOk(d) => CallOk(d)'
         /\ \A r \in Receipts : r.call = d =>
              /\ Truthful(r) => Truthful(r)'
              /\ Backs(r, d) => Backs(r, d)'
<1> USE DEF Keeps
<1>1. CallOk(d) => CallOk(d)'
  BY DEF CallOk, Refused, ReceiptId
<1>2. TrueOutcome(d)' = TrueOutcome(d)
  BY DEF TrueOutcome
<1>3. ASSUME NEW r \in Receipts, r.call = d
      PROVE  /\ Truthful(r) => Truthful(r)'
             /\ Backs(r, d) => Backs(r, d)'
  BY <1>2, <1>3 DEF Truthful, Backs
<1> QED BY <1>1, <1>3

(* A step of one call that signs nothing.                                  *)
LEMMA QuietStep ==
  ASSUME TypeOK, CallsOk, NEW c \in Calls, StepOf(c), log' = log,
         CallOk(c)', phase'[c] = "replied" => reply'[c].header = NoHeader
  PROVE  CallsOk'
<1>1. \A i \in DOMAIN log : log[i] \in Receipts
  BY ElementOfSeq DEF TypeOK
<1>2. \A i \in DOMAIN log : log[i].call \in Calls
  BY <1>1 DEF Receipts
<1>3. ~Receipted(c)
  BY DEF CallsOk, StepOf, Over
<1>4. \A i \in DOMAIN log : Keeps(log[i].call)
  BY <1>2, <1>3 DEF StepOf, Receipted
<1>5. \A d \in Calls : CallOk(d)'
  <2> SUFFICES ASSUME NEW d \in Calls, d # c PROVE CallOk(d)'
    OBVIOUS
  <2> QED BY Kept DEF CallsOk, StepOf
<1>6. \A d \in Calls : Receipted(d)'
                         <=> phase'[d] = "replied" /\ reply'[d].header # NoHeader
  <2> SUFFICES ASSUME NEW d \in Calls
               PROVE  Receipted(d)' <=> phase'[d] = "replied"
                                        /\ reply'[d].header # NoHeader
    OBVIOUS
  <2>1. Receipted(d)' <=> Receipted(d)
    BY DEF Receipted
  <2>2. CASE d = c
    BY <1>3, <2>1, <2>2
  <2>3. CASE d # c
    BY <2>1, <2>3 DEF CallsOk, StepOf, Keeps
  <2> QED BY <2>2, <2>3
<1>7. ASSUME NEW i \in DOMAIN log
      PROVE  (Truthful(log[i]) /\ Backs(log[i], log[i].call))'
  <2>1. PICK r \in Receipts : r = log[i] /\ r = log'[i] /\ r.call \in Calls
    BY <1>1, <1>2
  <2>2. Truthful(r) /\ Backs(r, r.call) /\ Keeps(r.call)
    BY <1>4, <2>1 DEF CallsOk
  <2>3. Truthful(r)' /\ Backs(r, r.call)'
    BY <2>1, <2>2, Kept
  <2> QED BY <2>1, <2>3 DEF Truthful, TrueOutcome, Backs
<1> QED BY <1>5, <1>6, <1>7 DEF CallsOk

(* A step of one call that signs its receipt, and ends it.                 *)
LEMMA SigningStep ==
  ASSUME TypeOK, CallsOk, NEW c \in Calls, StepOf(c),
         NEW r \in Receipts, r.call = c, log' = Append(log, r),
         CallOk(c)', phase'[c] = "replied", reply'[c].header # NoHeader,
         Truthful(r)', Backs(r, c)'
  PROVE  CallsOk'
<1>1. log \in Seq(Receipts) /\ Len(log) \in Nat
  BY DEF TypeOK
<1>2. /\ DOMAIN log = 1 .. Len(log) /\ DOMAIN log' = 1 .. Len(log) + 1
      /\ \A i \in DOMAIN log : log'[i] = log[i] /\ log[i] \in Receipts
      /\ log'[Len(log) + 1] = r
  BY <1>1, ElementOfSeq
<1>3. \A i \in DOMAIN log' : i \in DOMAIN log \/ i = Len(log) + 1
  BY <1>1, <1>2
<1>4. ~Receipted(c)
  BY DEF CallsOk, StepOf, Over
<1>5. \A i \in DOMAIN log : log[i].call \in Calls \ {c}
  BY <1>2, <1>4 DEF Receipts, Receipted
<1>6. \A d \in Calls : CallOk(d)'
  <2> SUFFICES ASSUME NEW d \in Calls, d # c PROVE CallOk(d)'
    OBVIOUS
  <2> QED BY Kept DEF CallsOk, StepOf
<1>7. \A d \in Calls : Receipted(d)'
                         <=> phase'[d] = "replied" /\ reply'[d].header # NoHeader
  <2> SUFFICES ASSUME NEW d \in Calls
               PROVE  Receipted(d)' <=> phase'[d] = "replied"
                                        /\ reply'[d].header # NoHeader
    OBVIOUS
  <2>1. CASE d = c
    <3>1. Len(log) + 1 \in DOMAIN log'
      BY <1>1, <1>2
    <3> QED BY <1>2, <2>1, <3>1 DEF Receipted
  <2>2. CASE d # c
    <3>1. Receipted(d)' <=> Receipted(d)
      BY <1>1, <1>2, <1>3, <2>2 DEF Receipted
    <3> QED BY <2>2, <3>1 DEF CallsOk, StepOf, Keeps
  <2> QED BY <2>1, <2>2
<1>8. ASSUME NEW i \in DOMAIN log'
      PROVE  (Truthful(log[i]) /\ Backs(log[i], log[i].call))'
  <2>1. CASE i \in DOMAIN log
    <3>1. PICK x \in Receipts : x = log[i] /\ x = log'[i] /\ x.call \in Calls \ {c}
      BY <1>2, <1>5, <2>1
    <3>2. Truthful(x) /\ Backs(x, x.call) /\ Keeps(x.call)
      BY <2>1, <3>1 DEF CallsOk, StepOf
    <3>3. Truthful(x)' /\ Backs(x, x.call)'
      BY <3>1, <3>2, Kept
    <3> QED BY <3>1, <3>3 DEF Truthful, TrueOutcome, Backs
  <2>2. CASE i = Len(log) + 1
    <3>1. log'[i] = r
      BY <1>2, <2>2
    <3> QED BY <3>1 DEF Truthful, TrueOutcome, Backs
  <2> QED BY <1>3, <2>1, <2>2
<1>9. \A i, j \in DOMAIN log' : log'[i].call = log'[j].call => i = j
  BY <1>2, <1>3, <1>5 DEF CallsOk
<1> QED BY <1>6, <1>7, <1>8, <1>9 DEF CallsOk

(* What it takes for a receipt to tell the truth after the step that signs *)
(* it.                                                                     *)
LEMMA SignedTruth ==
  ASSUME NEW c \in Calls, NEW met \in BOOLEAN, NEW o \in Outcomes, req' = req,
         said'[c] # "error" => TrueOutcome(c)' = o,
         met => exchange'[c] \in {"answered", "declined", "complete", "broken"},
         o \in {"ok", "refusal"} => met,
         o = "policy_denied" => exchange'[c] = "none",
         NEW r \in Receipts, r = Receipt(c, met, o)
  PROVE  Truthful(r)' /\ r.call = c /\ r.outcome = o /\ r.id = ReceiptId(c)
<1>1. /\ r.call = c /\ r.outcome = o /\ r.id = ReceiptId(c)
      /\ r.met <=> met
      /\ r.forced <=> met /\ req[c].stream /\ req[c].surface = "openai"
  BY Zenon DEF Receipt
<1>2. Truthful(r)'
  BY <1>1 DEF Truthful
<1> QED BY <1>1, <1>2

(* The handler's way out: a receipt that tells the truth, with a status it *)
(* backs, or a 500 without one.                                            *)
LEMMA FinishStep ==
  ASSUME TypeOK, CallsOk, NEW c \in Calls, StepOf(c),
         NEW met \in BOOLEAN, NEW o \in Outcomes, NEW status \in {200, 403, 502},
         Finish(c, Receipt(c, met, o), status),
         Refused(c) => exchange'[c] = "none",
         said'[c] # "error" => TrueOutcome(c)' = o,
         met => exchange'[c] \in {"answered", "declined", "complete", "broken"},
         o = "policy_denied" => exchange'[c] = "none",
         o \in {"ok", "refusal"} => met,
         status = 200 => o \in {"ok", "refusal"},
         status = 403 => o = "policy_denied",
         status = 502 => o = "upstream_error"
  PROVE  CallsOk'
<1>1. PICK r \in Receipts : r = Receipt(c, met, o)
  BY ReceiptType
<1>2. phase'[c] = "replied"
  BY DEF Finish, Turn, TypeOK
<1>3. CallOk(c)'
  <2>1. Refused(c)' = Refused(c)
    BY DEF StepOf, Refused
  <2> QED BY <1>2, <2>1 DEF CallOk
<1>6. Truthful(r)' /\ r.call = c /\ r.outcome = o
  BY <1>1, SignedTruth DEF StepOf
<1>4. CASE SignAndStore(r) /\ Tell(c, status, r.id)
  <2>1. reply'[c] = [status |-> status, header |-> r.id]
    BY <1>4 DEF Tell, TypeOK
  <2>2. r.call = c /\ r.outcome = o /\ r.id \in Calls \cup Nonces
    BY <1>6 DEF Receipts
  <2>3. r.id # NoHeader
    BY <2>2, GatewayAssumption
  <2>4. Backs(r, c)'
    BY <2>1, <2>2 DEF Backs
  <2>5. Truthful(r)' /\ log' = Append(log, r)
    BY <1>4, <1>6 DEF SignAndStore
  <2> QED BY <1>2, <1>3, <2>1, <2>2, <2>3, <2>4, <2>5, SigningStep
<1>5. CASE UNCHANGED receiptVars /\ Tell(c, 500, NoHeader)
  <2>1. reply'[c].header = NoHeader /\ log' = log
    BY <1>5 DEF Tell, TypeOK, receiptVars
  <2> QED BY <1>2, <1>3, <2>1, QuietStep
<1> QED BY <1>1, <1>4, <1>5 DEF Finish

(* Every step of a call is a step of no other.                             *)
LEMMA Handled ==
  ASSUME TypeOK, NEW c \in Calls, Arrive(c) \/ Handle(c) \/ Upstream(c)
                                  \/ Disconnect(c)
  PROVE  StepOf(c)
<1> USE DEF StepOf, Keeps, Over, TypeOK, Turn, Tell, TurnAway
<1>1. ASSUME NEW r, NEW status, Finish(c, r, status)
      PROVE  \A d \in Calls \ {c} : phase'[d] = phase[d] /\ reply'[d] = reply[d]
  BY <1>1 DEF Finish
<1>2. CASE Arrive(c) \/ Authenticate(c) \/ Dispatch(c) \/ Disconnect(c)
  BY <1>2 DEF Arrive, Authenticate, Dispatch, Disconnect, Awaiting
<1>3. CASE Screen(c)
  <2>1. /\ req' = req /\ exchange' = exchange /\ said' = said
        /\ phase[c] = "admitted"
    BY <1>3 DEF Screen
  <2>2. \/ TurnAway(c, 400) \/ TurnAway(c, 503)
        \/ Turn(c, "calling") /\ reply' = reply
        \/ Finish(c, Receipt(c, FALSE, "policy_denied"), 403)
    BY <1>3 DEF Screen
  <2>3. CASE Finish(c, Receipt(c, FALSE, "policy_denied"), 403)
    <3>1. \A d \in Calls \ {c} : phase'[d] = phase[d] /\ reply'[d] = reply[d]
      BY <1>1, <2>3, Zenon
    <3> QED BY <2>1, <3>1
  <2>4. CASE TurnAway(c, 400) \/ TurnAway(c, 503)
    BY <2>1, <2>4
  <2>5. CASE Turn(c, "calling") /\ reply' = reply
    BY <2>1, <2>5
  <2> QED BY <2>2, <2>3, <2>4, <2>5
<1>4. CASE ConnectFails(c) \/ AnswerLost(c) \/ BodyBreaks(c) \/ ErrorBodyDone(c)
  BY <1>1, <1>4 DEF ConnectFails, AnswerLost, BodyBreaks, ErrorBodyDone, Fail
<1>5. ASSUME NEW s \in BOOLEAN, HeadArrives(c, s) PROVE StepOf(c)
  BY <1>5 DEF HeadArrives
<1>6. ASSUME NEW s, BodyArrives(c, s) PROVE StepOf(c)
  BY <1>1, <1>6 DEF BodyArrives, Fail
<1>7. ASSUME NEW s, Chunk(c, s) PROVE StepOf(c)
  BY <1>7 DEF Chunk
<1>8. CASE StreamEnds(c) \/ StreamBreaks(c)
  BY <1>8 DEF StreamEnds, StreamBreaks, FinishStream
<1> QED BY <1>2, <1>3, <1>4, <1>5, <1>6, <1>7, <1>8 DEF Handle, Upstream

LEMMA CallsOkStep == TypeOK /\ CallsOk /\ [Next]_vars => CallsOk'
<1> SUFFICES ASSUME TypeOK, CallsOk, [Next]_vars PROVE CallsOk'
  OBVIOUS
<1>0. \A c \in Calls : CallOk(c) /\ req[c] \in Request
  BY GatewayAssumption DEF CallsOk, TypeOK
<1> DEFINE Does(c) == Arrive(c) \/ Handle(c) \/ Upstream(c) \/ Disconnect(c)
<1>1. \A c \in Calls : Does(c) => StepOf(c)
  BY Handled
<1> USE DEF Turn, Tell, TurnAway
<1>2. ASSUME NEW c \in Calls, Arrive(c) PROVE CallsOk'
  <2>1. StepOf(c) /\ log' = log /\ CallOk(c)' /\ phase'[c] # "replied"
    BY <1>0, <1>1, <1>2
       DEF Arrive, CallOk, Refused, ReceiptId, TypeOK, receiptVars
  <2> QED BY <2>1, QuietStep
<1>3. ASSUME NEW c \in Calls, Authenticate(c) PROVE CallsOk'
  <2>1. StepOf(c) /\ log' = log
    BY <1>1, <1>3 DEF Authenticate, Handle, receiptVars
  <2>2. CallOk(c)' /\ phase'[c] = "replied" => reply'[c].header = NoHeader
    BY <1>0, <1>3
       DEF Authenticate, CallOk, Refused, ReceiptId, TypeOK
  <2>3. CallOk(c)'
    BY <1>0, <1>3 DEF Authenticate, CallOk, Refused, ReceiptId, TypeOK
  <2> QED BY <2>1, <2>2, <2>3, QuietStep
<1>4. ASSUME NEW c \in Calls, Screen(c) PROVE CallsOk'
  <2>1. /\ StepOf(c) /\ UNCHANGED <<req, exchange, said, boot>>
        /\ phase[c] = "admitted"
    BY <1>1, <1>4 DEF Screen, Handle
  <2>2. /\ exchange[c] = "none" /\ said[c] = "nothing" /\ reply[c] = NoReply
    BY <1>0, <2>1 DEF CallOk
  <2>3. \/ (TurnAway(c, 400) \/ TurnAway(c, 503)) /\ UNCHANGED receiptVars
        \/ /\ Refused(c)
           /\ Finish(c, Receipt(c, FALSE, "policy_denied"), 403)
        \/ /\ ~Refused(c) /\ Turn(c, "calling")
           /\ UNCHANGED <<reply, receiptVars>>
    BY <1>4, Zenon DEF Screen, Refused, TurnAway
  <2>4. CASE (TurnAway(c, 400) \/ TurnAway(c, 503)) /\ UNCHANGED receiptVars
    <3>1. /\ phase'[c] = "replied" /\ reply'[c].header = NoHeader /\ log' = log
      BY <2>4 DEF TypeOK, receiptVars
    <3>2. CallOk(c)'
      BY <2>1, <2>2, <3>1 DEF CallOk, Refused
    <3> QED BY <2>1, <3>1, <3>2, QuietStep
  <2>5. CASE Refused(c) /\ Finish(c, Receipt(c, FALSE, "policy_denied"), 403)
    <3>1. TrueOutcome(c)' = "policy_denied"
      BY <2>1, <2>5 DEF TrueOutcome, Refused
    <3>2. PICK met \in BOOLEAN, o \in Outcomes : met = FALSE /\ o = "policy_denied"
      BY DEF Outcomes
    <3>3. Finish(c, Receipt(c, met, o), 403)
      BY <2>5, <3>2
    <3> QED BY <2>1, <2>2, <3>1, <3>2, <3>3, FinishStep
  <2>6. CASE ~Refused(c) /\ Turn(c, "calling") /\ UNCHANGED <<reply, receiptVars>>
    <3>1. phase'[c] = "calling" /\ reply'[c] = reply[c] /\ log' = log
      BY <2>6 DEF TypeOK, receiptVars
    <3>2. CallOk(c)'
      BY <2>1, <2>2, <2>6, <3>1 DEF CallOk, Refused
    <3> QED BY <2>1, <3>1, <3>2, QuietStep
  <2> QED BY <2>3, <2>4, <2>5, <2>6
<1> DEFINE Failing(c, met) ==
             /\ Fail(c, met) /\ StepOf(c) /\ ~Refused(c)
             /\ met => exchange'[c] \in {"answered", "declined", "complete", "broken"}
             /\ exchange'[c] # "complete" \/ said'[c] \notin {"nothing", "stop", "refusal"}
<1>5. ASSUME NEW c \in Calls, NEW met \in BOOLEAN, Failing(c, met) PROVE CallsOk'
  <2>1. TrueOutcome(c)' = "upstream_error"
    BY <1>5 DEF TrueOutcome, Refused, StepOf
  <2> QED BY <1>5, <2>1, FinishStep DEF Fail, Outcomes
<1>6. ASSUME NEW c \in Calls, ConnectFails(c) \/ AnswerLost(c)
      PROVE  CallsOk'
  <2>1. Failing(c, FALSE)
    BY <1>0, <1>1, <1>6 DEF ConnectFails, AnswerLost, Upstream, CallOk, TypeOK
  <2> QED BY <1>5, <2>1
<1>7. ASSUME NEW c \in Calls, Dispatch(c) PROVE CallsOk'
  <2>1. StepOf(c) /\ log' = log /\ CallOk(c)' /\ phase'[c] # "replied"
    BY <1>0, <1>1, <1>7
       DEF Dispatch, Upstream, CallOk, Refused, ReceiptId, TypeOK, receiptVars
  <2> QED BY <2>1, QuietStep
<1>8. ASSUME NEW c \in Calls, NEW s \in BOOLEAN, HeadArrives(c, s)
      PROVE  CallsOk'
  <2>1. StepOf(c) /\ log' = log
    BY <1>1, <1>8 DEF HeadArrives, Upstream, receiptVars
  <2>2. phase'[c] \in {"body", "errorBody", "streaming"}
    BY <1>8 DEF HeadArrives, TypeOK
  <2>3. CallOk(c)'
    BY <1>0, <1>8 DEF HeadArrives, CallOk, Refused, ReceiptId, TypeOK
  <2> QED BY <2>1, <2>2, <2>3, QuietStep
<1>9. ASSUME NEW c \in Calls, NEW s \in {"stop", "refusal", "garbled", "notJson"},
             BodyArrives(c, s)
      PROVE  CallsOk'
  <2>1. /\ StepOf(c) /\ said'[c] = s /\ phase[c] = "body" /\ ~Refused(c)
        /\ exchange[c] \in {"answered", "declined"}
        /\ exchange'[c] = IF exchange[c] = "answered" THEN "complete"
                          ELSE "declined"
        /\ ~req[c].stream /\ req' = req
    BY <1>0, <1>1, <1>9 DEF BodyArrives, Upstream, CallOk, TypeOK
  <2>2. CASE s = "notJson" /\ Fail(c, FALSE)
    BY <1>5, <2>1, <2>2
  <2>3. CASE /\ exchange[c] = "declined" \/ s = "garbled"
             /\ Fail(c, TRUE)
    BY <1>5, <2>1, <2>3
  <2>4. CASE /\ s \in {"stop", "refusal"} /\ exchange[c] = "answered"
             /\ Finish(c, Receipt(c, TRUE, OutcomeFor(s)), 200)
    <3>1. TrueOutcome(c)' = OutcomeFor(s) /\ OutcomeFor(s) \in {"ok", "refusal"}
      BY <2>1, <2>4 DEF TrueOutcome, OutcomeFor, Refused
    <3>2. PICK met \in BOOLEAN, o \in Outcomes : met = TRUE /\ o = OutcomeFor(s)
      BY <3>1 DEF Outcomes
    <3>3. Finish(c, Receipt(c, met, o), 200)
      BY <2>4, <3>2
    <3>4. /\ StepOf(c) /\ ~Refused(c) /\ exchange'[c] = "complete"
          /\ TrueOutcome(c)' = o /\ o \in {"ok", "refusal"}
          /\ o # "policy_denied"
      BY <2>1, <2>4, <3>1, <3>2
    <3>5. /\ Refused(c) => exchange'[c] = "none"
          /\ said'[c] # "error" => TrueOutcome(c)' = o
          /\ met => exchange'[c] \in {"answered", "declined", "complete", "broken"}
          /\ o = "policy_denied" => exchange'[c] = "none"
          /\ o \in {"ok", "refusal"} => met
      BY <3>2, <3>4
    <3> QED BY <3>3, <3>4, <3>5, FinishStep
  <2> QED BY <1>9, <2>2, <2>3, <2>4 DEF BodyArrives
<1>10. ASSUME NEW c \in Calls, BodyBreaks(c) PROVE CallsOk'
  <2>1. Failing(c, FALSE)
    BY <1>0, <1>1, <1>10 DEF BodyBreaks, Upstream, CallOk, TypeOK
  <2> QED BY <1>5, <2>1
<1>11. ASSUME NEW c \in Calls, ErrorBodyDone(c) PROVE CallsOk'
  <2>1. Failing(c, TRUE)
    BY <1>0, <1>1, <1>11 DEF ErrorBodyDone, Upstream, CallOk, TypeOK
  <2> QED BY <1>5, <2>1
<1>12. ASSUME NEW c \in Calls, NEW s \in {"stop", "refusal", "error"}, Chunk(c, s)
       PROVE  CallsOk'
  <2>1. StepOf(c) /\ log' = log /\ CallOk(c)' /\ phase'[c] # "replied"
    BY <1>0, <1>1, <1>12
       DEF Chunk, Upstream, CallOk, Refused, ReceiptId, TypeOK, receiptVars
  <2> QED BY <2>1, QuietStep
<1> HIDE DEF Does, Failing
<1>13. ASSUME NEW c \in Calls, StreamEnds(c) \/ StreamBreaks(c) PROVE CallsOk'
  <2> DEFINE o == IF StreamEnds(c) THEN OutcomeFor(StopReason(said[c]))
                  ELSE "upstream_error"
  <2>1. /\ StepOf(c) /\ phase[c] = "streaming" /\ ~Refused(c)
        /\ req[c].stream /\ said[c] \in {"nothing", "stop", "refusal", "error"}
        /\ reply[c] = [status |-> 200, header |-> ReceiptId(c)]
    BY <1>0, <1>13, Handled DEF StreamEnds, StreamBreaks, Upstream, CallOk
  <2>2. PICK out \in Outcomes :
          /\ FinishStream(c, out)
          /\ \/ /\ exchange'[c] = "complete"
                /\ out = OutcomeFor(StopReason(said[c]))
             \/ exchange'[c] = "broken" /\ out = "upstream_error"
    BY <1>13 DEF StreamEnds, StreamBreaks, TypeOK, OutcomeFor, Outcomes
  <2>3. UNCHANGED <<req, said, reply>>
    BY <2>2 DEF FinishStream
  <2>4. ReceiptId(c) \in Calls \cup Nonces
    BY <1>0 DEF ReceiptId, Request
  <2>5. PICK r \in Receipts : r = Receipt(c, TRUE, out)
    BY ReceiptType
  <2>6. CASE SignAndStore(r) /\ Turn(c, "replied")
    <3>1. phase'[c] = "replied" /\ log' = Append(log, r)
      BY <2>6 DEF TypeOK, SignAndStore
    <3>2. CallOk(c)'
      BY <2>1, <2>3, <3>1 DEF CallOk, Refused
    <3>3. said[c] # "error" => TrueOutcome(c)' = out
      BY <2>1, <2>2, <2>3 DEF TrueOutcome, OutcomeFor, StopReason, Refused
    <3>4. Truthful(r)' /\ r.call = c /\ r.outcome = out /\ r.id = ReceiptId(c)
      <4>1. PICK met \in BOOLEAN : met = TRUE
        OBVIOUS
      <4>2. r = Receipt(c, met, out) /\ req' = req /\ out # "policy_denied"
            /\ exchange'[c] \in {"answered", "declined", "complete", "broken"}
        BY <2>2, <2>3, <2>5, <4>1 DEF OutcomeFor
      <4> QED BY <2>3, <3>3, <4>1, <4>2, SignedTruth
    <3>5. out \in {"ok", "refusal", "upstream_error"}
      BY <2>2 DEF OutcomeFor
    <3>6. Backs(r, c)'
      BY <2>1, <2>3, <3>4, <3>5 DEF Backs
    <3>7. reply'[c].header # NoHeader
      BY <2>1, <2>3, <2>4, GatewayAssumption
    <3> QED BY <2>1, <3>1, <3>2, <3>4, <3>6, <3>7, SigningStep
  <2>7. CASE UNCHANGED receiptVars /\ Turn(c, "unsigned")
    <3>1. phase'[c] = "unsigned" /\ log' = log
      BY <2>7 DEF TypeOK, receiptVars
    <3>2. CallOk(c)'
      BY <2>1, <2>3, <3>1 DEF CallOk, Refused
    <3> QED BY <2>1, <3>1, <3>2, QuietStep
  <2> QED BY <2>2, <2>5, <2>6, <2>7 DEF FinishStream
<1>14. ASSUME NEW c \in Calls, Disconnect(c) PROVE CallsOk'
  <2>1. /\ StepOf(c) /\ log' = log /\ phase'[c] = "gone"
        /\ UNCHANGED <<req, exchange>>
    BY <1>14, Handled DEF Disconnect, TypeOK, receiptVars
  <2>2. CallOk(c)'
    BY <1>0, <2>1 DEF CallOk, Refused
  <2> QED BY <2>1, <2>2, QuietStep
<1>15. CASE Reboot
  <2>1. /\ UNCHANGED <<req, exchange, said, reply, log>>
        /\ \A c \in Calls : \/ phase'[c] = phase[c]
                            \/ phase[c] \notin Over /\ phase'[c] = "cut"
    BY <1>15 DEF Reboot, Over, TypeOK
  <2>2. \A c \in Calls : CallOk(c)'
    BY <1>0, <2>1 DEF CallOk, Refused, ReceiptId
  <2>3. \A c \in Calls : Receipted(c)'
                           <=> phase'[c] = "replied" /\ reply'[c].header # NoHeader
    BY <2>1 DEF CallsOk, Receipted, Over
  <2>4. \A i \in DOMAIN log : Truthful(log[i])' /\ Backs(log[i], log[i].call)'
    BY <2>1 DEF CallsOk, Truthful, TrueOutcome, Backs
  <2> QED BY <2>1, <2>2, <2>3, <2>4 DEF CallsOk
<1>16. CASE UNCHANGED vars
  <2>1. UNCHANGED <<phase, req, exchange, said, reply, log>>
    BY <1>16 DEF vars, callVars, receiptVars
  <2> QED BY <2>1 DEF CallsOk, CallOk, Refused, ReceiptId, Receipted, Truthful,
                  TrueOutcome, Backs
<1> QED BY <1>2, <1>3, <1>4, <1>6, <1>7, <1>8, <1>9, <1>10, <1>11, <1>12,
           <1>13, <1>14, <1>15, <1>16 DEF Next, Handle, Upstream

LEMMA CallsOkAlways == Spec => []CallsOk
<1>1. Init => CallsOk
  <2> SUFFICES ASSUME Init PROVE CallsOk
    OBVIOUS
  <2>1. \A c \in Calls : /\ phase[c] = "idle" /\ exchange[c] = "none"
                         /\ said[c] = "nothing" /\ reply[c] = NoReply
    BY DEF Init
  <2>2. log = <<>>
    BY DEF Init
  <2> QED BY <2>1, <2>2 DEF CallsOk, CallOk, Receipted, Refused
<1> QED BY <1>1, TypeCorrect, CallsOkStep, PTL DEF Spec

(* Whatever a receipt says of its call is so: the outcome the exchange     *)
(* came to, a TLS peer only where a provider answered, a body of its own   *)
(* only for a dispatched OpenAI stream.                                    *)
THEOREM ReceiptsTellTruth == Spec => []ReceiptsTruthful
<1>1. CallsOk => ReceiptsTruthful
  BY DEF CallsOk, Truthful, ReceiptsTruthful
<1> QED BY <1>1, CallsOkAlways, PTL

(* What clients are told agrees with what is signed: an id with a final    *)
(* status names the call's one receipt, no id means no receipt.            *)
THEOREM RepliesAreBacked == Spec => []RepliesBacked
<1>1. CallsOk => RepliesBacked
  <2> SUFFICES ASSUME CallsOk, NEW c \in Calls
               PROVE  /\ phase[c] = "replied" /\ reply[c].header # NoHeader =>
                           \E i \in DOMAIN log : /\ SignedFor(c) = {i}
                                                 /\ Backs(log[i], c)
                      /\ phase[c] = "replied" /\ reply[c].header = NoHeader =>
                           SignedFor(c) = {}
                      /\ phase[c] = "unsigned" =>
                           req[c].stream /\ SignedFor(c) = {}
    BY DEF RepliesBacked
  <2>1. CASE Receipted(c)
    <3>1. PICK i \in DOMAIN log : log[i].call = c
      BY <2>1 DEF Receipted
    <3>2. SignedFor(c) = {i} /\ Backs(log[i], c)
      BY <3>1 DEF CallsOk, SignedFor
    <3> QED BY <2>1, <3>2 DEF CallsOk
  <2>2. CASE ~Receipted(c)
    <3>1. SignedFor(c) = {}
      BY <2>2 DEF Receipted, SignedFor
    <3> QED BY <2>2, <3>1 DEF CallsOk, CallOk
  <2> QED BY <2>1, <2>2
<1> QED BY <1>1, CallsOkAlways, PTL

-----------------------------------------------------------------------------
(* The gateway implements the notary.                                      *)

(* What the notary knows of a call, from the call alone.                   *)
VerdictForm ==
  \A c \in Calls :
    Verdict(c) = IF phase[c] = "replied" /\ reply[c].header # NoHeader
                   THEN "notarised"
                 ELSE IF phase[c] \notin Over THEN "open"
                 ELSE IF exchange[c] # "none" THEN "lost" ELSE "rejected"

LEMMA VerdictIs == CallsOk => VerdictForm
<1> SUFFICES ASSUME CallsOk, NEW c \in Calls
             PROVE  Verdict(c) =
                      IF phase[c] = "replied" /\ reply[c].header # NoHeader
                        THEN "notarised"
                      ELSE IF phase[c] \notin Over THEN "open"
                      ELSE IF exchange[c] # "none" THEN "lost" ELSE "rejected"
  BY DEF VerdictForm
<1>1. SignedFor(c) # {} <=> Receipted(c)
  BY DEF SignedFor, Receipted
<1>2. c \in Contacted <=> exchange[c] # "none"
  BY DEF Contacted
<1> QED BY <1>1, <1>2 DEF Verdict, CallsOk

LEMMA VerdictIsNext == CallsOk' => VerdictForm'
BY VerdictIs, PTL

(* A step of one call leaves the verdicts on the others alone.             *)
LEMMA OtherVerdicts ==
  ASSUME VerdictForm, VerdictForm', NEW c \in Calls, StepOf(c)
  PROVE  /\ \A d \in Calls \ {c} : Verdict(d)' = Verdict(d)
         /\ Contacted' \ {c} = Contacted \ {c}
         /\ Verdict(c) = "open"
<1>1. \A d \in Calls \ {c} : Verdict(d)' = Verdict(d)
  BY DEF StepOf, Keeps, VerdictForm, Over
<1>2. Contacted' \ {c} = Contacted \ {c}
  BY DEF StepOf, Keeps, Contacted
<1>3. Verdict(c) = "open"
  BY DEF StepOf, VerdictForm, Over
<1> QED BY <1>1, <1>2, <1>3

Shown(i) == [call |-> log[i].call, outcome |-> log[i].outcome]

(* What becomes of the receipts that show when one more is signed.         *)
LEMMA SignedGrows ==
  ASSUME TypeOK, NEW r \in Receipts, log' = Append(log, r)
  PROVE  Signed' = Signed \cup {[call |-> r.call, outcome |-> r.outcome]}
<1>1. log \in Seq(Receipts) /\ Len(log) \in Nat
  BY DEF TypeOK
<1>2. /\ DOMAIN log = 1 .. Len(log) /\ DOMAIN log' = 1 .. Len(log) + 1
      /\ \A i \in DOMAIN log : log'[i] = log[i]
      /\ log'[Len(log) + 1] = r
  BY <1>1
<1>3. DOMAIN log' = DOMAIN log \cup {Len(log) + 1}
  BY <1>1, <1>2
<1>4. Signed' = {Shown(i)' : i \in DOMAIN log} \cup
                {[call |-> r.call, outcome |-> r.outcome]}
  BY <1>2, <1>3 DEF Signed, Shown
<1>5. \A i \in DOMAIN log : Shown(i)' = Shown(i)
  BY <1>2 DEF Shown
<1> QED BY <1>4, <1>5 DEF Signed, Shown

(* A step of one call is one of the notary's, or none of its business: one *)
(* that signs, one that sends a request on, and any other.                 *)
Quiet(c) == log' = log /\ (phase'[c] = "replied" => reply'[c].header = NoHeader)

Signing(c) ==
  /\ phase'[c] = "replied" /\ reply'[c].header # NoHeader
  /\ \E r \in Receipts : r.call = c /\ log' = Append(log, r)

Sent(c) == exchange[c] # "none"

LEMMA CallRefines ==
  ASSUME TypeOK, VerdictForm, VerdictForm', CallsOk', NEW c \in Calls, StepOf(c),
         \/ (Quiet(c) \/ Signing(c)) /\ (Sent(c)' <=> Sent(c))
         \/ Dispatch(c)
  PROVE  Book!NNext \/ UNCHANGED Book!nVars
<1>1. /\ \A d \in Calls \ {c} : Verdict(d)' = Verdict(d)
      /\ Contacted' \ {c} = Contacted \ {c}
      /\ Verdict(c) = "open"
  BY OtherVerdicts
<1>2. (c \in Contacted <=> Sent(c)) /\ (c \in Contacted' <=> Sent(c)')
  BY DEF Contacted, Sent
<1>3. /\ Verdicts = [d \in Calls |-> Verdict(d)]
      /\ Verdicts' = [d \in Calls |-> Verdict(d)']
  BY DEF Verdicts
<1> USE DEF Sent
<1>4. CASE Dispatch(c)
  <2>1. /\ log' = log /\ phase'[c] = phase[c]
        /\ exchange[c] = "none" /\ exchange'[c] # "none"
    BY <1>4 DEF Dispatch, TypeOK, receiptVars
  <2>2. Verdict(c)' = "open"
    BY <2>1 DEF VerdictForm, StepOf, Over
  <2>3. Verdicts' = Verdicts
    BY <1>1, <1>3, <2>2
  <2>4. Contacted' = Contacted \cup {c} /\ c \notin Contacted
    BY <1>1, <1>2, <2>1
  <2>5. Signed' = Signed
    BY <2>1 DEF Signed
  <2>6. Book!Contact(c)
    BY <1>1, <1>3, <2>3, <2>4, <2>5 DEF Book!Contact
  <2> QED BY <2>6 DEF Book!NNext
<1>5. CASE Quiet(c) /\ (Sent(c)' <=> Sent(c))
  <2>1. Contacted' = Contacted /\ Signed' = Signed
    BY <1>1, <1>2, <1>5 DEF Quiet, Signed
  <2>2. CASE phase'[c] \notin Over
    <3>1. Verdict(c)' = "open"
      BY <2>2 DEF VerdictForm, Over
    <3>2. Verdicts' = Verdicts
      BY <1>1, <1>3, <3>1
    <3> QED BY <2>1, <3>2 DEF Book!nVars
  <2>3. CASE phase'[c] \in Over
    <3>1. Verdict(c)' = IF c \in Contacted THEN "lost" ELSE "rejected"
      BY <1>2, <1>5, <2>3 DEF VerdictForm, Quiet, Over
    <3> DEFINE lost == {c} \cap Contacted
               rejected == {c} \ Contacted
    <3>2. Verdicts' = [d \in Calls |-> IF d \in lost THEN "lost"
                                       ELSE IF d \in rejected THEN "rejected"
                                       ELSE Verdicts[d]]
      BY <1>1, <1>3, <3>1
    <3>3. Book!Settle(lost, rejected)
      BY <1>1, <1>3, <2>1, <3>2 DEF Book!Settle
    <3>4. lost \in SUBSET Calls /\ rejected \in SUBSET Calls
      OBVIOUS
    <3> QED BY <3>3, <3>4 DEF Book!NNext
  <2> QED BY <2>2, <2>3
<1>6. CASE Signing(c) /\ (Sent(c)' <=> Sent(c))
  <2>1. PICK r \in Receipts : r.call = c /\ log' = Append(log, r)
    BY <1>6 DEF Signing
  <2>2. Verdict(c)' = "notarised"
    BY <1>6 DEF VerdictForm, Signing
  <2>3. Verdicts' = [Verdicts EXCEPT ![c] = "notarised"]
    BY <1>1, <1>3, <2>2
  <2>4. Contacted' = Contacted
    BY <1>1, <1>2, <1>6
  <2>5. Signed' = Signed \cup {[call |-> c, outcome |-> r.outcome]}
    BY <2>1, SignedGrows
  <2>6. r.outcome \in Outcomes
    BY DEF Receipts, Outcomes
  <2>7. Truthful(r)'
    <3>1. /\ log \in Seq(Receipts) /\ Len(log) \in Nat
      BY DEF TypeOK
    <3>2. Len(log) + 1 \in DOMAIN log' /\ log'[Len(log) + 1] = r
      BY <2>1, <3>1
    <3> QED BY <3>2 DEF CallsOk, Truthful, TrueOutcome
  <2>8. /\ r.outcome \in {"ok", "refusal"} => c \in Contacted
        /\ r.outcome = "policy_denied" => c \notin Contacted
    BY <1>2, <1>6, <2>1, <2>7 DEF Truthful
  <2>9. Book!Notarise(c, r.outcome)
    BY <1>1, <1>3, <2>3, <2>4, <2>5, <2>8 DEF Book!Notarise
  <2> QED BY <2>6, <2>9 DEF Book!NNext, Book!Outcomes, Outcomes
<1> QED BY <1>4, <1>5, <1>6

(* Which of the three each step of a call is.                              *)
LEMMA StepKinds ==
  ASSUME TypeOK, CallsOk, NEW c \in Calls,
         Arrive(c) \/ Handle(c) \/ Upstream(c) \/ Disconnect(c)
  PROVE  \/ (Quiet(c) \/ Signing(c)) /\ (Sent(c)' <=> Sent(c))
         \/ Dispatch(c)
<1> USE DEF Sent, Turn, Tell, TurnAway, TypeOK, receiptVars
<1>0. CallOk(c)
  BY DEF CallsOk
<1>1. ASSUME NEW met \in BOOLEAN, NEW o \in Outcomes, NEW status,
             Finish(c, Receipt(c, met, o), status)
      PROVE  Quiet(c) \/ Signing(c)
  <2>1. PICK r \in Receipts : r = Receipt(c, met, o)
    BY ReceiptType
  <2>2. r.call = c /\ r.id # NoHeader
    <3>1. r.call = c /\ r.id \in Calls \cup Nonces
      BY <2>1 DEF Receipt, Receipts
    <3> QED BY <3>1, GatewayAssumption
  <2>3. CASE SignAndStore(r) /\ Tell(c, status, r.id)
    BY <1>1, <2>2, <2>3 DEF Finish, SignAndStore, Signing
  <2>4. CASE UNCHANGED receiptVars /\ Tell(c, 500, NoHeader)
    BY <1>1, <2>4 DEF Finish, Quiet
  <2> QED BY <1>1, <2>1, <2>3, <2>4 DEF Finish
<1>2. ASSUME NEW met \in BOOLEAN, Fail(c, met) PROVE Quiet(c) \/ Signing(c)
  BY <1>1, <1>2 DEF Fail, Outcomes
<1>3. CASE Arrive(c)
  BY <1>3 DEF Arrive, Quiet
<1>4. CASE Authenticate(c)
  BY <1>4 DEF Authenticate, Quiet
<1>5. CASE Screen(c)
  <2>1. exchange' = exchange
    BY <1>5 DEF Screen
  <2>2. \/ (TurnAway(c, 400) \/ TurnAway(c, 503)) /\ UNCHANGED receiptVars
        \/ Finish(c, Receipt(c, FALSE, "policy_denied"), 403)
        \/ Turn(c, "calling") /\ UNCHANGED receiptVars
    BY <1>5, Zenon DEF Screen, TurnAway
  <2>3. CASE Finish(c, Receipt(c, FALSE, "policy_denied"), 403)
    <3>1. FALSE \in BOOLEAN /\ "policy_denied" \in Outcomes
      BY DEF Outcomes
    <3>2. Quiet(c) \/ Signing(c)
      BY <1>1, <2>3, <3>1
    <3> QED BY <2>1, <3>2
  <2>4. CASE (TurnAway(c, 400) \/ TurnAway(c, 503)) /\ UNCHANGED receiptVars
    BY <2>1, <2>4 DEF Quiet
  <2>5. CASE Turn(c, "calling") /\ UNCHANGED receiptVars
    BY <2>1, <2>5 DEF Quiet
  <2> QED BY <2>2, <2>3, <2>4, <2>5
<1>6. CASE ConnectFails(c) \/ ErrorBodyDone(c)
  BY <1>2, <1>6 DEF ConnectFails, ErrorBodyDone
<1>7. CASE AnswerLost(c) \/ BodyBreaks(c)
  <2>1. Fail(c, FALSE) /\ exchange[c] # "none" /\ exchange'[c] # "none"
    BY <1>0, <1>7 DEF AnswerLost, BodyBreaks, CallOk
  <2> QED BY <1>2, <2>1
<1>8. ASSUME NEW s \in BOOLEAN, HeadArrives(c, s)
      PROVE  Quiet(c) /\ (Sent(c)' <=> Sent(c))
  BY <1>8 DEF HeadArrives, Quiet
<1>9. ASSUME NEW s \in {"stop", "refusal", "garbled", "notJson"}, BodyArrives(c, s)
      PROVE  (Quiet(c) \/ Signing(c)) /\ (Sent(c)' <=> Sent(c))
  <2>1. exchange[c] # "none" /\ exchange'[c] # "none"
    BY <1>0, <1>9 DEF BodyArrives, CallOk
  <2>2. \/ Fail(c, FALSE) \/ Fail(c, TRUE)
        \/ Finish(c, Receipt(c, TRUE, OutcomeFor(s)), 200)
    BY <1>9 DEF BodyArrives
  <2>3. OutcomeFor(s) \in Outcomes
    BY DEF OutcomeFor, Outcomes
  <2> QED BY <1>1, <1>2, <2>1, <2>2, <2>3
<1>10. ASSUME NEW s, Chunk(c, s)
       PROVE  Quiet(c) /\ (Sent(c)' <=> Sent(c))
  BY <1>10 DEF Chunk, Quiet
<1>11. CASE StreamEnds(c) \/ StreamBreaks(c)
  <2>1. /\ exchange[c] # "none" /\ exchange'[c] # "none"
        /\ reply[c] = [status |-> 200, header |-> ReceiptId(c)]
    BY <1>0, <1>11 DEF StreamEnds, StreamBreaks, CallOk
  <2>2. PICK o \in Outcomes : FinishStream(c, o)
    BY <1>11 DEF StreamEnds, StreamBreaks, OutcomeFor, Outcomes
  <2>3. PICK r \in Receipts : r = Receipt(c, TRUE, o)
    BY ReceiptType
  <2>4. r.call = c /\ r.id = ReceiptId(c) /\ r.id # NoHeader
    <3>1. r.call = c /\ r.id = ReceiptId(c) /\ r.id \in Calls \cup Nonces
      BY <2>3 DEF Receipt, Receipts
    <3> QED BY <3>1, GatewayAssumption
  <2>5. CASE SignAndStore(r) /\ Turn(c, "replied")
    BY <2>1, <2>2, <2>4, <2>5 DEF FinishStream, SignAndStore, Signing
  <2>6. CASE UNCHANGED receiptVars /\ Turn(c, "unsigned")
    BY <2>1, <2>6 DEF Quiet
  <2> QED BY <2>2, <2>3, <2>5, <2>6 DEF FinishStream
<1>12. CASE Disconnect(c)
  BY <1>12 DEF Disconnect, Quiet
<1> QED BY <1>3, <1>4, <1>5, <1>6, <1>7, <1>8, <1>9, <1>10, <1>11, <1>12
        DEF Handle, Upstream

(* A reboot settles every call that was under way, or nothing if none was. *)
LEMMA RebootRefines ==
  ASSUME TypeOK, VerdictForm, VerdictForm', Reboot
  PROVE  Book!NNext \/ UNCHANGED Book!nVars
<1> DEFINE down == {c \in Calls : phase[c] \notin Over \cup {"idle"}}
           lost == down \cap Contacted
           rejected == down \ Contacted
<1>1. /\ UNCHANGED <<exchange, reply, log>>
      /\ \A c \in Calls : phase'[c] = IF c \in down THEN "cut" ELSE phase[c]
  BY DEF Reboot, TypeOK
<1>2. Contacted' = Contacted /\ Signed' = Signed
  BY <1>1 DEF Contacted, Signed
<1>3. \A c \in Calls : Verdict(c)' = IF c \in lost THEN "lost"
                                     ELSE IF c \in rejected THEN "rejected"
                                     ELSE Verdict(c)
  <2> SUFFICES ASSUME NEW c \in Calls
               PROVE  Verdict(c)' = IF c \in lost THEN "lost"
                                    ELSE IF c \in rejected THEN "rejected"
                                    ELSE Verdict(c)
    OBVIOUS
  <2>1. c \in Contacted <=> exchange[c] # "none"
    BY DEF Contacted
  <2>2. CASE c \in down
    <3>1. phase'[c] = "cut" /\ exchange'[c] = exchange[c]
      BY <1>1, <2>2
    <3>2. Verdict(c)' = IF exchange[c] # "none" THEN "lost" ELSE "rejected"
      BY <3>1 DEF VerdictForm, Over
    <3> QED BY <2>1, <2>2, <3>2
  <2>3. CASE c \notin down
    <3>1. /\ phase'[c] = phase[c] /\ exchange'[c] = exchange[c]
          /\ reply'[c] = reply[c]
      BY <1>1, <2>3
    <3>2. Verdict(c)' = Verdict(c)
      BY <3>1 DEF VerdictForm, Over
    <3> QED BY <2>3, <3>2
  <2> QED BY <2>2, <2>3
<1>4. \A c \in down : Verdict(c) = "open"
  BY DEF VerdictForm, Over
<1>5. /\ Verdicts = [d \in Calls |-> Verdict(d)]
      /\ Verdicts' = [d \in Calls |-> Verdict(d)']
  BY DEF Verdicts
<1>6. CASE down = {}
  BY <1>2, <1>3, <1>5, <1>6 DEF Book!nVars
<1>7. CASE down # {}
  <2>1. Book!Settle(lost, rejected)
    BY <1>2, <1>3, <1>4, <1>5, <1>7 DEF Book!Settle
  <2>2. lost \in SUBSET Calls /\ rejected \in SUBSET Calls
    OBVIOUS
  <2> QED BY <2>1, <2>2 DEF Book!NNext
<1> QED BY <1>6, <1>7

(* Handlers, permits, streams, disconnects and reboots implement the       *)
(* notary: at most one contact and one receipt per call, none for a call   *)
(* that was turned away, and a denied call is never sent on.               *)
THEOREM GatewayIsNotary == Spec => ImplementsNotary
<1>1. Init => Book!NInit
  <2> SUFFICES ASSUME Init PROVE Book!NInit
    OBVIOUS
  <2>1. log = <<>> /\ \A c \in Calls : phase[c] = "idle" /\ exchange[c] = "none"
    BY DEF Init
  <2>2. Signed = {} /\ \A c \in Calls : SignedFor(c) = {}
    BY <2>1 DEF Signed, SignedFor
  <2>3. Contacted = {} /\ Verdicts = [c \in Calls |-> "open"]
    BY <2>1, <2>2 DEF Contacted, Verdicts, Verdict, Over
  <2> QED BY <2>2, <2>3 DEF Book!NInit
<1>2. TypeOK /\ CallsOk /\ CallsOk' /\ [Next]_vars
        => [Book!NNext]_(Book!nVars)
  <2> SUFFICES ASSUME TypeOK, CallsOk, CallsOk', [Next]_vars
               PROVE  Book!NNext \/ UNCHANGED Book!nVars
    OBVIOUS
  <2>1. VerdictForm /\ VerdictForm'
    BY VerdictIs, VerdictIsNext
  <2>2. ASSUME NEW c \in Calls,
               Arrive(c) \/ Handle(c) \/ Upstream(c) \/ Disconnect(c)
        PROVE  Book!NNext \/ UNCHANGED Book!nVars
    <3>1. StepOf(c)
      BY <2>2, Handled
    <3> QED BY <2>1, <2>2, <3>1, StepKinds, CallRefines
  <2>3. CASE Reboot
    BY <2>1, <2>3, RebootRefines
  <2>4. CASE UNCHANGED vars
    <3>1. UNCHANGED <<phase, exchange, log>>
      BY <2>4 DEF vars, callVars, receiptVars
    <3> QED BY <3>1 DEF Book!nVars, Verdicts, Verdict, SignedFor, Contacted,
                        Signed, Over
  <2> QED BY <2>2, <2>3, <2>4 DEF Next
<1> QED BY <1>1, <1>2, TypeCorrect, CallsOkAlways, PTL
        DEF Spec, ImplementsNotary, Book!NSpec
=============================================================================
