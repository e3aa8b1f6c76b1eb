---------------------------- MODULE StreamProofs ----------------------------
(***************************************************************************)
(* Theorems about a stream on both its ways, for streams of any length cut *)
(* anywhere: the buffer between two chunks, the counters, and that a       *)
(* client is never ahead of the receipt.                                   *)
(*                                                                         *)
(* Every argument is about places.  The stream is a sequence of bytes, and *)
(* each of the sequences it passes through holds the bytes of an interval: *)
(* the invariant says of which.                                            *)
(***************************************************************************)
EXTENDS StreamClient, NatFacts, FiniteSetTheorems, TLAPS

-----------------------------------------------------------------------------
(* Sequences cut in two, and put together again.                           *)
LEMMA CutSeq ==
  ASSUME NEW S, NEW s \in Seq(S), NEW n \in 0 .. Len(s)
  PROVE  /\ SubSeq(s, 1, n) \in Seq(S) /\ Len(SubSeq(s, 1, n)) = n
         /\ SubSeq(s, n + 1, Len(s)) \in Seq(S)
         /\ Len(SubSeq(s, n + 1, Len(s))) = Len(s) - n
         /\ \A i \in 1 .. n : SubSeq(s, 1, n)[i] = s[i]
         /\ \A i \in 1 .. Len(s) - n : SubSeq(s, n + 1, Len(s))[i] = s[n + i]
  OBVIOUS

LEMMA JoinSeq ==
  ASSUME NEW S, NEW s \in Seq(S), NEW t \in Seq(S)
  PROVE  /\ s \o t \in Seq(S) /\ Len(s \o t) = Len(s) + Len(t)
         /\ \A i \in 1 .. Len(s) : (s \o t)[i] = s[i]
         /\ \A i \in 1 .. Len(t) : (s \o t)[Len(s) + i] = t[i]
  OBVIOUS

-----------------------------------------------------------------------------
(* The bytes of a stream.                                                  *)
Bytes(st) == {NL} \cup {[event |-> e, half |-> n, whole |-> w] :
                      e \in Range(st.events), n \in 1 .. 2, w \in BOOLEAN}

EventAt(st, p) == st.events[((p - 1) \div 4) + 1]

(* b is the byte at place p, damaged or not.                               *)
IsAt(st, b, p) ==
  IF p % 4 \in {1, 2} THEN b # NL /\ b.event = EventAt(st, p) ELSE b = NL

(* The sequence s holds what follows the first k bytes of the stream.  *)
Holds(st, s, k) ==
  /\ s \in Seq(Bytes(st))
  /\ \A i \in 1 .. Len(s) : IsAt(st, s[i], k + i)

Last4(st) == 4 * Len(st.events)

LEMMA StreamFacts ==
  ASSUME NEW st \in Streams
  PROVE  /\ st.surface \in {"anthropic", "openai"}
         /\ st.events \in Seq(Range(st.events))
         /\ Len(st.events) \in Nat
         /\ DOMAIN st.events = 1 .. Len(st.events)
         /\ \A i \in DOMAIN st.events : st.events[i] \in Range(st.events)
  BY StreamAssumption DEF Range

LEMMA ByteFacts ==
  ASSUME NEW st \in Streams, NEW e \in Range(st.events), NEW n \in 1 .. 2,
         NEW w \in BOOLEAN
  PROVE  [event |-> e, half |-> n, whole |-> w] # NL
<1>1. PICK i \in DOMAIN st.events : e = st.events[i]
  BY DEF Range
<1> QED
  BY <1>1, StreamAssumption

LEMMA ByteIsByte ==
  ASSUME NEW st \in Streams, NEW e \in Range(st.events), NEW n \in 1 .. 2,
         NEW w \in BOOLEAN
  PROVE  [event |-> e, half |-> n, whole |-> w] \in Bytes(st)
  BY DEF Bytes

LEMMA HalfIsByte ==
  ASSUME NEW st \in Streams, NEW e \in Range(st.events), NEW n \in 1 .. 2
  PROVE  Half(e, n) \in Bytes(st)
<1>1. PICK w \in BOOLEAN : w = TRUE
  OBVIOUS
<1> QED
  BY <1>1, ByteIsByte DEF Half

LEMMA HalfIsNoNewline ==
  ASSUME NEW st \in Streams, NEW e \in Range(st.events), NEW n \in 1 .. 2
  PROVE  Half(e, n) # NL
<1>1. PICK w \in BOOLEAN : w = TRUE
  OBVIOUS
<1> QED
  BY <1>1, ByteFacts DEF Half

LEMMA HalfEvent == \A e, n : Half(e, n).event = e
  BY DEF Half

(* The wire holds the whole stream.                                        *)
WireBytes(st) ==
  {NL} \cup {Half(st.events[i], n) : i \in DOMAIN st.events, n \in 1 .. 2}

LEMMA WireAt ==
  ASSUME NEW st \in Streams, NEW p \in 1 .. Last4(st)
  PROVE  LET b == Line(EventAt(st, p))[((p - 1) % 4) + 1]
         IN  b \in Bytes(st) /\ b \in WireBytes(st) /\ IsAt(st, b, p)
<1> DEFINE E == st.events
           b == Line(EventAt(st, p))[((p - 1) % 4) + 1]
<1>1. /\ E \in Seq(Range(E)) /\ Len(E) \in Nat /\ DOMAIN E = 1 .. Len(E)
      /\ \A i \in DOMAIN E : E[i] \in Range(E)
  BY StreamFacts
<1>2. ((p - 1) \div 4) + 1 \in 1 .. Len(E)
  <2>1. \A n \in Nat : \A q \in 1 .. 4 * n : ((q - 1) \div 4) + 1 \in 1 .. n
    OBVIOUS
  <2> QED
    BY <1>1, <2>1 DEF Last4
<1>3. PICK i \in DOMAIN E : EventAt(st, p) = E[i]
  BY <1>1, <1>2 DEF EventAt
<1>4. /\ p % 4 = 1 => ((p - 1) % 4) + 1 = 1
      /\ p % 4 = 2 => ((p - 1) % 4) + 1 = 2
      /\ p % 4 = 3 => ((p - 1) % 4) + 1 = 3
      /\ p % 4 = 0 => ((p - 1) % 4) + 1 = 4
      /\ p % 4 \in {0, 1, 2, 3}
  BY <1>1 DEF Last4
<1>5. /\ Line(EventAt(st, p))[1] = Half(EventAt(st, p), 1)
      /\ Line(EventAt(st, p))[2] = Half(EventAt(st, p), 2)
      /\ Line(EventAt(st, p))[3] = NL
      /\ Line(EventAt(st, p))[4] = NL
  BY DEF Line
<1>6. ASSUME NEW n \in 1 .. 2, p % 4 = n, b = Half(EventAt(st, p), n)
      PROVE  b \in Bytes(st) /\ b \in WireBytes(st) /\ IsAt(st, b, p)
  <2> DEFINE e == EventAt(st, p)
  <2>0. e \in Range(E)
    BY <1>1, <1>3
  <2>a. Half(e, n) \in Bytes(st)
    BY <2>0, HalfIsByte
  <2>b. Half(e, n) # NL
    BY <2>0, HalfIsNoNewline
  <2>c. Half(e, n).event = e
    BY HalfEvent
  <2>1. b \in Bytes(st) /\ b # NL /\ b.event = EventAt(st, p)
    BY <1>6, <2>a, <2>b, <2>c
  <2>2. b \in WireBytes(st)
    BY <1>3, <1>6 DEF WireBytes
  <2>3. IsAt(st, b, p)
    BY <1>6, <2>1 DEF IsAt
  <2> QED
    BY <2>1, <2>2, <2>3
<1>7. CASE p % 4 = 1
  BY <1>4, <1>5, <1>6, <1>7
<1>8. CASE p % 4 = 2
  BY <1>4, <1>5, <1>6, <1>8
<1>9. CASE p % 4 \in {0, 3}
  <2>1. b = NL
    BY <1>4, <1>5, <1>9
  <2> QED
    BY <2>1, <1>9 DEF Bytes, WireBytes, IsAt
<1> QED
  BY <1>4, <1>7, <1>8, <1>9

LEMMA WireHolds ==
  ASSUME NEW st \in Streams
  PROVE  /\ Wire(st.events) \in Seq(WireBytes(st))
         /\ Len(Wire(st.events)) = Last4(st)
         /\ Holds(st, Wire(st.events), 0)
<1>1. Last4(st) \in Nat
  BY StreamFacts DEF Last4
<1>2. Wire(st.events) =
        [p \in 1 .. Last4(st) |-> Line(EventAt(st, p))[((p - 1) % 4) + 1]]
  BY DEF Wire, Last4, EventAt
<1>3. \A p \in 1 .. Last4(st) :
        LET b == Line(EventAt(st, p))[((p - 1) % 4) + 1]
        IN  b \in Bytes(st) /\ b \in WireBytes(st) /\ IsAt(st, b, p)
  BY WireAt
<1>4. /\ Wire(st.events) \in Seq(WireBytes(st))
      /\ Wire(st.events) \in Seq(Bytes(st))
      /\ Len(Wire(st.events)) = Last4(st)
  BY <1>1, <1>2, <1>3
<1>5. \A i \in 1 .. Len(Wire(st.events)) : IsAt(st, Wire(st.events)[i], 0 + i)
  BY <1>1, <1>2, <1>3, <1>4
<1> QED
  BY <1>4, <1>5 DEF Holds

(* Cutting, joining and decoding keep to the places.                       *)
LEMMA CutHolds ==
  ASSUME NEW st \in Streams, NEW s, NEW k \in Int,
         Holds(st, s, k), NEW n \in 0 .. Len(s)
  PROVE  /\ Holds(st, SubSeq(s, 1, n), k)
         /\ Holds(st, SubSeq(s, n + 1, Len(s)), k + n)
         /\ Len(SubSeq(s, 1, n)) = n
         /\ Len(SubSeq(s, n + 1, Len(s))) = Len(s) - n
         /\ \A i \in 1 .. n : SubSeq(s, 1, n)[i] = s[i]
<1>1. s \in Seq(Bytes(st))
  BY DEF Holds
<1>2. /\ SubSeq(s, 1, n) \in Seq(Bytes(st)) /\ Len(SubSeq(s, 1, n)) = n
      /\ SubSeq(s, n + 1, Len(s)) \in Seq(Bytes(st))
      /\ Len(SubSeq(s, n + 1, Len(s))) = Len(s) - n
      /\ \A i \in 1 .. n : SubSeq(s, 1, n)[i] = s[i]
      /\ \A i \in 1 .. Len(s) - n : SubSeq(s, n + 1, Len(s))[i] = s[n + i]
  BY <1>1, CutSeq
<1>3. ASSUME NEW i \in 1 .. Len(s) - n
      PROVE  IsAt(st, SubSeq(s, n + 1, Len(s))[i], (k + n) + i)
  <2>1. n + i \in 1 .. Len(s) /\ k + (n + i) = (k + n) + i
    BY <1>1
  <2> QED
    BY <1>2, <2>1 DEF Holds
<1>4. ASSUME NEW i \in 1 .. n PROVE IsAt(st, SubSeq(s, 1, n)[i], k + i)
  BY <1>1, <1>2 DEF Holds
<1> QED
  BY <1>2, <1>3, <1>4 DEF Holds

LEMMA JoinHolds ==
  ASSUME NEW st \in Streams, NEW s, NEW t, NEW k \in Int,
         Holds(st, s, k), Holds(st, t, k + Len(s))
  PROVE  Holds(st, s \o t, k) /\ Len(s \o t) = Len(s) + Len(t)
<1>1. s \in Seq(Bytes(st)) /\ t \in Seq(Bytes(st))
  BY DEF Holds
<1>2. /\ s \o t \in Seq(Bytes(st)) /\ Len(s \o t) = Len(s) + Len(t)
      /\ \A i \in 1 .. Len(s) : (s \o t)[i] = s[i]
      /\ \A i \in 1 .. Len(t) : (s \o t)[Len(s) + i] = t[i]
  BY <1>1, JoinSeq
<1>3. ASSUME NEW i \in 1 .. Len(s \o t) PROVE IsAt(st, (s \o t)[i], k + i)
  <2>1. CASE i \in 1 .. Len(s)
    BY <2>1, <1>2 DEF Holds
  <2>2. CASE i \notin 1 .. Len(s)
    <3>1. /\ i - Len(s) \in 1 .. Len(t)
          /\ Len(s) + (i - Len(s)) = i
          /\ (k + Len(s)) + (i - Len(s)) = k + i
      BY <2>2, <1>1, <1>2, <1>3
    <3> QED
      BY <3>1, <1>2 DEF Holds
  <2> QED
    BY <2>1, <2>2
<1> QED
  BY <1>2, <1>3 DEF Holds

LEMMA ExceptWhole ==
  ASSUME NEW b, NEW e, NEW n, NEW w, NEW f,
         b = [event |-> e, half |-> n, whole |-> w]
  PROVE  [b EXCEPT !.whole = f] = [event |-> e, half |-> n, whole |-> f]
  BY SMT

LEMMA LossyHolds ==
  ASSUME NEW st \in Streams, NEW s, NEW k \in Int, Holds(st, s, k)
  PROVE  Holds(st, Lossy(s), k) /\ Len(Lossy(s)) = Len(s)
<1>1. s \in Seq(Bytes(st)) /\ Len(s) \in Nat /\ DOMAIN s = 1 .. Len(s)
  BY DEF Holds
<1>2. ASSUME NEW i \in 1 .. Len(s)
      PROVE  /\ Lossy(s)[i] \in Bytes(st)
             /\ Lossy(s)[i] # NL <=> s[i] # NL
             /\ s[i] # NL => Lossy(s)[i].event = s[i].event
  <2>1. s[i] \in Bytes(st)
    BY <1>1, <1>2
  <2>2. Lossy(s)[i] = IF Parted(s, i) THEN [s[i] EXCEPT !.whole = FALSE] ELSE s[i]
    BY <1>1, <1>2 DEF Lossy
  <2>3. CASE ~Parted(s, i)
    BY <2>1, <2>2, <2>3
  <2>4. CASE Parted(s, i)
    <3>1. s[i] # NL
      BY <2>4 DEF Parted
    <3>2. PICK e \in Range(st.events), n \in 1 .. 2, w \in BOOLEAN :
            s[i] = [event |-> e, half |-> n, whole |-> w]
      BY <2>1, <3>1 DEF Bytes
    <3>3. PICK f \in BOOLEAN : f = FALSE
      OBVIOUS
    <3>4. Lossy(s)[i] = [event |-> e, half |-> n, whole |-> f]
      <4>1. Lossy(s)[i] = [s[i] EXCEPT !.whole = FALSE]
        BY <2>2, <2>4
      <4>2. Lossy(s)[i] = [s[i] EXCEPT !.whole = f]
        BY <3>3, <4>1, Zenon
      <4>3. [s[i] EXCEPT !.whole = f] = [event |-> e, half |-> n, whole |-> f]
        BY <3>2, ExceptWhole
      <4> QED
        BY <4>2, <4>3
    <3>5. Lossy(s)[i] \in Bytes(st) /\ Lossy(s)[i] # NL
      BY <3>4, ByteFacts, ByteIsByte
    <3> QED
      BY <3>1, <3>2, <3>4, <3>5
  <2> QED
    BY <2>3, <2>4
<1>3. Lossy(s) \in Seq(Bytes(st)) /\ Len(Lossy(s)) = Len(s)
  BY <1>1, <1>2 DEF Lossy
<1>4. \A i \in 1 .. Len(Lossy(s)) : IsAt(st, Lossy(s)[i], k + i)
  BY <1>2, <1>3 DEF Holds, IsAt
<1> QED
  BY <1>3, <1>4 DEF Holds

-----------------------------------------------------------------------------
(* What a block of lines does to the accumulator: its counters stay        *)
(* counters.                                                               *)
IsAccumulator(surface, a) ==
  /\ a = [model |-> a.model, text |-> a.text, blocks |-> a.blocks,
          stop |-> a.stop, usage |-> a.usage]
  /\ a.usage \in [Counters(surface) -> Nat]

(* An event as the accumulator reads it, its text damaged or not.          *)
IsEvent(st, i, e) ==
  e = st.events[i] \/ e = [st.events[i] EXCEPT !.piece = Damaged]

LEMMA EventUsage ==
  ASSUME NEW st \in Streams, NEW i \in DOMAIN st.events, NEW e, IsEvent(st, i, e),
         e.type \in {"message_start", "message_delta", "usage"}
  PROVE  IsReport(st.surface, e.usage)
<1>1. /\ "type" \in DOMAIN st.events[i]
      /\ st.events[i].type \in {"message_start", "message_delta", "usage"} =>
           /\ "usage" \in DOMAIN st.events[i]
           /\ IsReport(st.surface, st.events[i].usage)
  BY StreamAssumption
<1>2. CASE e = st.events[i]
  BY <1>1, <1>2
<1>3. CASE e = [st.events[i] EXCEPT !.piece = Damaged]
  <2>1. e.type = st.events[i].type
    BY <1>1, <1>3
  <2>2. "usage" \in DOMAIN st.events[i] /\ IsReport(st.surface, st.events[i].usage)
    BY <1>1, <2>1
  <2>3. e.usage = st.events[i].usage
    BY <1>3, <2>2
  <2> QED
    BY <2>2, <2>3
<1> QED
  BY <1>2, <1>3 DEF IsEvent

LEMMA MergedUsage ==
  ASSUME NEW usage \in [Counters("anthropic") -> Nat], NEW reported,
         IsReport("anthropic", reported)
  PROVE  MergeUsage(usage, reported) \in [Counters("anthropic") -> Nat]
  BY DEF MergeUsage, IsReport

LEMMA EventApplied ==
  ASSUME NEW st \in Streams, st.surface = "anthropic", NEW i \in DOMAIN st.events,
         NEW e, IsEvent(st, i, e), NEW a, IsAccumulator("anthropic", a)
  PROVE  IsAccumulator("anthropic", ApplyEvent(a, e))
<1> USE DEF IsAccumulator
<1>1. CASE e.type = "message_start"
  <2>1. MergeUsage(a.usage, e.usage) \in [Counters("anthropic") -> Nat]
    BY <1>1, EventUsage, MergedUsage
  <2>2. ApplyEvent(a, e) = [a EXCEPT !.model = e.model, !.usage = MergeUsage(@, e.usage)]
    BY <1>1 DEF ApplyEvent
  <2> QED
    BY <2>1, <2>2
<1>2. CASE e.type = "content_block_start"
  <2>1. PICK b : ApplyEvent(a, e) = [a EXCEPT !.blocks = b]
    BY <1>2 DEF ApplyEvent
  <2> QED
    BY <2>1
<1>3. CASE e.type = "content_block_delta"
  <2>1. PICK b : ApplyEvent(a, e) = [a EXCEPT !.blocks = b]
    BY <1>3 DEF ApplyEvent
  <2> QED
    BY <2>1
<1>4. CASE e.type = "message_delta"
  <2>1. MergeUsage(a.usage, e.usage) \in [Counters("anthropic") -> Nat]
    BY <1>4, EventUsage, MergedUsage
  <2>2. ApplyEvent(a, e) = [a EXCEPT !.stop = e.stop, !.usage = MergeUsage(@, e.usage)]
    BY <1>4 DEF ApplyEvent
  <2> QED
    BY <2>1, <2>2
<1>5. CASE e.type \notin {"message_start", "content_block_start",
                         "content_block_delta", "message_delta"}
  BY <1>5 DEF ApplyEvent
<1> QED
  BY <1>1, <1>2, <1>3, <1>4, <1>5

LEMMA ChunkApplied ==
  ASSUME NEW st \in Streams, st.surface = "openai", NEW i \in DOMAIN st.events,
         NEW e, IsEvent(st, i, e), NEW a, IsAccumulator("openai", a)
  PROVE  IsAccumulator("openai", ApplyChunk(a, e))
<1> USE DEF IsAccumulator
<1>1. CASE e.type = "text"
  <2>1. PICK t : ApplyChunk(a, e) = [a EXCEPT !.model = e.model, !.text = t]
    BY <1>1 DEF ApplyChunk
  <2> QED
    BY <2>1
<1>2. CASE e.type = "tool_call"
  <2>1. PICK b : ApplyChunk(a, e) = [a EXCEPT !.model = e.model, !.blocks = b]
    BY <1>2 DEF ApplyChunk
  <2> QED
    BY <2>1
<1>3. CASE e.type = "finish"
  BY <1>3 DEF ApplyChunk
<1>4. CASE e.type = "usage"
  <2>1. e.usage \in [Counters("openai") -> Nat]
    BY <1>4, EventUsage DEF IsReport
  <2>2. ApplyChunk(a, e) = [a EXCEPT !.model = e.model, !.usage = e.usage]
    BY <1>4 DEF ApplyChunk
  <2> QED
    BY <2>1, <2>2
<1>5. CASE e.type \notin {"text", "tool_call", "finish", "usage"}
  BY <1>5 DEF ApplyChunk
<1> QED
  BY <1>1, <1>2, <1>3, <1>4, <1>5

LEMMA Applied ==
  ASSUME stream \in Streams, NEW i \in DOMAIN stream.events, NEW e,
         IsEvent(stream, i, e), NEW a, IsAccumulator(stream.surface, a)
  PROVE  IsAccumulator(stream.surface, Apply(a, e))
<1>1. CASE stream.surface = "anthropic"
  BY <1>1, EventApplied DEF Apply
<1>2. CASE stream.surface # "anthropic"
  <2>1. stream.surface = "openai"
    BY <1>2, StreamFacts
  <2> QED
    BY <2>1, ChunkApplied DEF Apply
<1> QED
  BY <1>1, <1>2

(* The canonical counters never go below zero.                             *)
LEMMA CanonicalCounters ==
  ASSUME NEW surface \in {"anthropic", "openai"},
         NEW u \in [Counters(surface) -> Nat]
  PROVE  CanonicalUsage(surface, u) \in [DOMAIN NoUsage -> Nat]
<1>1. DOMAIN NoUsage = {"input", "creation", "read", "output"}
  BY DEF NoUsage
<1>2. CASE surface = "anthropic"
  BY <1>1, <1>2 DEF CanonicalUsage, Counters
<1>3. CASE surface = "openai"
  <2>1. u.prompt \in Nat /\ u.cached \in Nat /\ u.completion \in Nat
    BY <1>3 DEF Counters
  <2>2. \A p, c \in Nat : (IF c > p THEN 0 ELSE p - c) \in Nat
    OBVIOUS
  <2> QED
    BY <1>1, <1>3, <2>1, <2>2 DEF CanonicalUsage
<1> QED
  BY <1>2, <1>3

-----------------------------------------------------------------------------
(* Putting events together, from a first one to a last.  What the          *)
(* accumulator holds and what a client can put together are values of one  *)
(* function, whose equation is proved here for lists of any length.        *)
BlankOf(st) ==
  [model |-> Nil, text |-> <<>>, blocks |-> <<>>, stop |-> Nil,
   usage |-> IF st.surface = "anthropic" THEN NoUsage
             ELSE [prompt |-> 0, completion |-> 0, cached |-> 0]]

ApplyTo(st, a, e) ==
  IF st.surface = "anthropic" THEN ApplyEvent(a, e) ELSE ApplyChunk(a, e)

(* f has, for each n up to m, what the first n of the events come to.      *)
IsReplay(st, events, m, f) ==
  f = [n \in 0 .. m |-> IF n = 0 THEN BlankOf(st)
                        ELSE ApplyTo(st, f[n - 1], events[n])]

ReplayOf(st, events) == CHOOSE f : IsReplay(st, events, Len(events), f)

LEMMA ReplayStarts ==
  ASSUME NEW st, NEW events
  PROVE  \E f : IsReplay(st, events, 0, f)
<1> DEFINE f == [n \in 0 .. 0 |-> BlankOf(st)]
<1> HIDE DEF f
<1>1. f = [n \in 0 .. 0 |-> BlankOf(st)]
  BY DEF f
<1>2. f = [n \in 0 .. 0 |-> IF n = 0 THEN BlankOf(st)
                            ELSE ApplyTo(st, f[n - 1], events[n])]
  BY <1>1
<1> QED
  BY <1>2 DEF IsReplay

LEMMA ReplayGrows ==
  ASSUME NEW st, NEW events, NEW m \in Nat, NEW f, IsReplay(st, events, m, f)
  PROVE  \E g : IsReplay(st, events, m + 1, g)
<1> DEFINE g == [n \in 0 .. m + 1 |-> IF n <= m THEN f[n]
                                      ELSE ApplyTo(st, f[m], events[m + 1])]
<1>1. \A n \in 0 .. m : f[n] = IF n = 0 THEN BlankOf(st)
                               ELSE ApplyTo(st, f[n - 1], events[n])
  BY DEF IsReplay
<1>2. ASSUME NEW n \in 0 .. m + 1
      PROVE  g[n] = IF n = 0 THEN BlankOf(st)
                    ELSE ApplyTo(st, g[n - 1], events[n])
  <2>1. CASE n <= m
    <3>1. n \in 0 .. m /\ (n # 0 => n - 1 \in 0 .. m + 1 /\ n - 1 <= m)
      BY <2>1
    <3>2. g[n] = f[n] /\ (n # 0 => g[n - 1] = f[n - 1])
      BY <2>1, <3>1
    <3> HIDE DEF g
    <3> QED
      BY <1>1, <3>1, <3>2
  <2>2. CASE ~(n <= m)
    <3>1. n = m + 1 /\ n # 0 /\ n - 1 = m /\ m \in 0 .. m + 1
      BY <2>2
    <3>2. g[n] = ApplyTo(st, f[m], events[m + 1]) /\ g[m] = f[m]
      BY <2>2, <3>1
    <3> HIDE DEF g
    <3> QED
      BY <3>1, <3>2
  <2> QED
    BY <2>1, <2>2
<1>3. g = [n \in 0 .. m + 1 |-> g[n]]
  OBVIOUS
<1> HIDE DEF g
<1>4. g = [n \in 0 .. m + 1 |-> IF n = 0 THEN BlankOf(st)
                                ELSE ApplyTo(st, g[n - 1], events[n])]
  BY <1>2, <1>3
<1> QED
  BY <1>4 DEF IsReplay

(* There is such a function: a least length without one could be neither   *)
(* zero nor the successor of a length with one.                            *)
LEMMA ReplayExists ==
  ASSUME NEW st, NEW events, NEW m \in Nat
  PROVE  \E f : IsReplay(st, events, m, f)
<1> DEFINE None == {n \in Nat : ~ \E f : IsReplay(st, events, n, f)}
<1>1. SUFFICES ASSUME None # {} PROVE FALSE
  OBVIOUS
<1>2. PICK n \in None : \A k \in None : n <= k
  <2>1. None \in SUBSET Nat
    OBVIOUS
  <2> HIDE DEF None
  <2> QED
    BY <1>1, <2>1, LeastOfNats
<1>3. n # 0
  BY ReplayStarts
<1>4. n - 1 \in Nat /\ n - 1 \notin None
  BY <1>2, <1>3
<1>5. PICK f : IsReplay(st, events, n - 1, f)
  BY <1>4
<1>6. \E g : IsReplay(st, events, (n - 1) + 1, g)
  BY <1>4, <1>5, ReplayGrows
<1>7. (n - 1) + 1 = n
  OBVIOUS
<1> QED
  BY <1>2, <1>6, <1>7

LEMMA ReplaySteps ==
  ASSUME NEW st, NEW S, NEW events \in Seq(S)
  PROVE  /\ ReplayOf(st, events)[0] = BlankOf(st)
         /\ \A n \in 1 .. Len(events) :
              ReplayOf(st, events)[n] =
                ApplyTo(st, ReplayOf(st, events)[n - 1], events[n])
<1>1. Len(events) \in Nat
  OBVIOUS
<1>2. \E f : IsReplay(st, events, Len(events), f)
  BY <1>1, ReplayExists
<1> DEFINE f == ReplayOf(st, events)
<1>3. IsReplay(st, events, Len(events), f)
  BY <1>2 DEF ReplayOf
<1> HIDE DEF f
<1>4. \A n \in 0 .. Len(events) :
        f[n] = IF n = 0 THEN BlankOf(st) ELSE ApplyTo(st, f[n - 1], events[n])
  BY <1>3 DEF IsReplay
<1>5. \A n \in 1 .. Len(events) : n \in 0 .. Len(events) /\ n # 0
  BY <1>1
<1>6. 0 \in 0 .. Len(events)
  BY <1>1
<1>7. f[0] = BlankOf(st)
  BY <1>4, <1>6
<1>8. \A n \in 1 .. Len(events) : f[n] = ApplyTo(st, f[n - 1], events[n])
  BY <1>4, <1>5
<1> QED
  BY <1>7, <1>8 DEF f

(* What the first events come to is the same in a list of these alone.     *)
LEMMA ReplayOfFirst ==
  ASSUME NEW st, NEW S, NEW events \in Seq(S), NEW first \in Seq(S),
         Len(first) <= Len(events),
         \A i \in 1 .. Len(first) : first[i] = events[i]
  PROVE  \A n \in 0 .. Len(first) :
           ReplayOf(st, first)[n] = ReplayOf(st, events)[n]
<1> DEFINE f == ReplayOf(st, first)
           g == ReplayOf(st, events)
           Bad == {n \in 0 .. Len(first) : f[n] # g[n]}
<1>1. /\ f[0] = BlankOf(st) /\ g[0] = BlankOf(st)
      /\ \A n \in 1 .. Len(first) : f[n] = ApplyTo(st, f[n - 1], first[n])
      /\ \A n \in 1 .. Len(events) : g[n] = ApplyTo(st, g[n - 1], events[n])
  BY ReplaySteps
<1>2. Len(first) \in Nat /\ Len(events) \in Nat
  OBVIOUS
<1> HIDE DEF f, g
<1>3. SUFFICES ASSUME Bad # {} PROVE FALSE
  BY DEF f, g
<1>4. PICK n \in Bad : \A k \in Bad : n <= k
  <2>1. Bad \in SUBSET Nat
    BY <1>2
  <2> HIDE DEF Bad
  <2> QED
    BY <1>3, <2>1, LeastOfNats
<1>5. n # 0
  BY <1>1
<1>6. n \in 1 .. Len(first) /\ n \in 1 .. Len(events) /\ n - 1 \in 0 .. Len(first)
  BY <1>2, <1>5
<1>7. f[n - 1] = g[n - 1]
  BY <1>2, <1>4, <1>6
<1>8. first[n] = events[n]
  BY <1>6
<1> QED
  BY <1>1, <1>6, <1>7, <1>8

-----------------------------------------------------------------------------
(* The places where feed() cuts.  Between two events a buffer starts at    *)
(* the first byte of one; an OpenAI buffer may also start at the second    *)
(* newline of the event before.                                            *)
LEMMA Newlines ==
  ASSUME NEW st \in Streams, NEW s, NEW k \in Nat, Holds(st, s, k),
         NEW i \in 1 .. Len(s)
  PROVE  s[i] = NL <=> (k + i) % 4 \in {0, 3}
<1>1. s \in Seq(Bytes(st)) /\ IsAt(st, s[i], k + i)
  BY DEF Holds
<1>2. (k + i) % 4 \in {0, 1, 2, 3}
  BY <1>1
<1> QED
  BY <1>1, <1>2 DEF IsAt

LEMMA FirstCutIs ==
  ASSUME NEW m \in Cuts, Cuts \subseteq Int, \A j \in Cuts : m <= j
  PROVE  FirstCut = m
<1>1. FirstCut \in Cuts /\ \A j \in Cuts : FirstCut <= j
  BY Zenon DEF FirstCut
<1> QED
  BY <1>1

LEMMA BlankLines ==
  ASSUME NEW st \in Streams, NEW s, NEW k \in Nat, Holds(st, s, k), k % 4 = 0
  PROVE  LET at == {i \in 2 .. Len(s) : s[i] = NL /\ s[i - 1] = NL}
         IN  /\ at = {} <=> Len(s) < 4
             /\ at # {} => 4 \in at /\ \A j \in at : 4 <= j
<1> DEFINE at == {i \in 2 .. Len(s) : s[i] = NL /\ s[i - 1] = NL}
<1>1. Len(s) \in Nat
  BY DEF Holds
<1>2. \A i \in 1 .. Len(s) : s[i] = NL <=> (k + i) % 4 \in {0, 3}
  BY Newlines
<1>3. ASSUME NEW j \in at PROVE 4 <= j
  <2>1. (k + j) % 4 \in {0, 3} /\ (k + (j - 1)) % 4 \in {0, 3} /\ j \in 2 .. Len(s)
    BY <1>1, <1>2
  <2> QED
    BY <2>1, <1>1
<1>4. ASSUME 4 <= Len(s) PROVE 4 \in at
  <2>1. (k + 4) % 4 = 0 /\ (k + 3) % 4 = 3
    OBVIOUS
  <2>2. s[4] = NL /\ s[3] = NL
    BY <1>1, <1>2, <1>4, <2>1
  <2> QED
    BY <1>1, <1>4, <2>2
<1>5. \A j \in at : j \in 2 .. Len(s)
  OBVIOUS
<1> QED
  BY <1>1, <1>3, <1>4, <1>5

LEMMA FirstNewline ==
  ASSUME NEW st \in Streams, NEW s, NEW k \in Nat, Holds(st, s, k),
         k % 4 \in {0, 3}
  PROVE  LET at == {i \in 1 .. Len(s) : s[i] = NL}
             m  == IF k % 4 = 0 THEN 3 ELSE 1
         IN  /\ at = {} <=> Len(s) < m
             /\ at # {} => m \in at /\ \A j \in at : m <= j
<1> DEFINE at == {i \in 1 .. Len(s) : s[i] = NL}
           m  == IF k % 4 = 0 THEN 3 ELSE 1
<1>1. Len(s) \in Nat
  BY DEF Holds
<1>2. \A i \in 1 .. Len(s) : s[i] = NL <=> (k + i) % 4 \in {0, 3}
  BY Newlines
<1>3. ASSUME NEW j \in at PROVE m <= j
  <2>1. (k + j) % 4 \in {0, 3} /\ j \in 1 .. Len(s)
    BY <1>1, <1>2
  <2> QED
    BY <2>1, <1>1
<1>4. ASSUME m <= Len(s) PROVE m \in at
  <2>1. (k + m) % 4 \in {0, 3}
    OBVIOUS
  <2> QED
    BY <1>1, <1>2, <1>4, <2>1
<1>5. \A j \in at : j \in 1 .. Len(s)
  OBVIOUS
<1> QED
  BY <1>1, <1>3, <1>4, <1>5

-----------------------------------------------------------------------------
(* The invariant of the accumulator.                                       *)
Consumed == Received - Len(buffer)

(* Which bytes are where.                                                  *)
Places ==
  /\ stream \in Streams
  /\ wire \in Seq(WireBytes(stream))
  /\ Received \in 0 .. Last4(stream)
  /\ Holds(stream, wire, Received)
  /\ Consumed \in Nat
  /\ Holds(stream, buffer, Consumed)

(* How many events the bytes that left the buffer come to.                 *)
Counted ==
  /\ handled \in Nat
  /\ IF stream.surface = "anthropic" THEN Consumed = 4 * handled
     ELSE Consumed \in {4 * handled, 4 * handled - 1}

Accumulated ==
  /\ IsAccumulator(stream.surface, acc)
  /\ cut \in BOOLEAN
  /\ committed # Nil =>
       /\ committed.outcome \in {"ok", "refusal", "upstream_error"}
       /\ committed.response.usage = CanonicalUsage(stream.surface, acc.usage)

StreamInv == Places /\ Counted /\ Accumulated

(* The cuts of a buffer that holds what the invariant says.                *)
LEMMA AnthropicCuts ==
  ASSUME Places, Counted, stream.surface = "anthropic"
  PROVE  /\ Cuts = {} <=> Len(buffer) < 4
         /\ Cuts # {} => FirstCut = 4
<1>1. Consumed % 4 = 0 /\ Consumed \in Nat
  BY DEF Places, Counted
<1>2. /\ Cuts = {} <=> Len(buffer) < 4
      /\ Cuts # {} => 4 \in Cuts /\ \A j \in Cuts : 4 <= j
  BY <1>1, BlankLines DEF Places, Cuts
<1>3. Cuts \subseteq Int
  BY DEF Cuts
<1> QED
  BY <1>2, <1>3, FirstCutIs

LEMMA OpenAICuts ==
  ASSUME Places, Counted, stream.surface # "anthropic"
  PROVE  LET m == IF Consumed % 4 = 0 THEN 3 ELSE 1
         IN  /\ Cuts = {} <=> Len(buffer) < m
             /\ Cuts # {} => FirstCut = m
<1>1. Consumed % 4 \in {0, 3} /\ Consumed \in Nat
  BY DEF Places, Counted
<1> DEFINE m == IF Consumed % 4 = 0 THEN 3 ELSE 1
<1>2. /\ Cuts = {} <=> Len(buffer) < m
      /\ Cuts # {} => m \in Cuts /\ \A j \in Cuts : m <= j
  BY <1>1, FirstNewline DEF Places, Cuts
<1>3. Cuts \subseteq Int
  BY DEF Cuts
<1> QED
  BY <1>2, <1>3, FirstCutIs

LEMMA EmptyHolds ==
  ASSUME NEW st \in Streams, NEW k \in Int
  PROVE  Holds(st, <<>>, k)
  BY DEF Holds

LEMMA StreamInit == Init => StreamInv
<1> SUFFICES ASSUME Init PROVE StreamInv
  OBVIOUS
<1>1. /\ stream \in Streams /\ Last4(stream) \in Nat
      /\ Last4(stream) = 4 * Len(stream.events)
  BY StreamFacts DEF Init, Last4
<1>2. /\ wire \in Seq(WireBytes(stream)) /\ Len(wire) = Last4(stream)
      /\ Holds(stream, wire, 0)
  BY <1>1, WireHolds DEF Init
<1>3. Received = 0 /\ Consumed = 0
  <2>1. Len(buffer) = 0
    BY DEF Init
  <2>2. Received = 0
    BY <1>1, <1>2 DEF Received
  <2> QED
    BY <2>1, <2>2 DEF Consumed
<1>4. Places
  BY <1>1, <1>2, <1>3, EmptyHolds DEF Places, Init
<1>5. Counted
  BY <1>3 DEF Counted, Init
<1>6. acc.usage \in [Counters(stream.surface) -> Nat]
  BY <1>1, StreamFacts DEF Init, Counters, NoUsage
<1>7. acc = [model |-> acc.model, text |-> acc.text, blocks |-> acc.blocks,
             stop |-> acc.stop, usage |-> acc.usage]
  BY DEF Init
<1>8. Accumulated
  BY <1>6, <1>7 DEF Accumulated, IsAccumulator, Init
<1> QED
  BY <1>4, <1>5, <1>8 DEF StreamInv

(* A chunk moves from the wire to the buffer.                              *)
LEMMA FeedKeeps ==
  ASSUME StreamInv, NEW n \in 1 .. Len(wire), Feed(n)
  PROVE  StreamInv' /\ Received' = Received + n /\ handled' = handled
<1> DEFINE chunk == SubSeq(wire, 1, n)
<1>1. /\ stream \in Streams /\ Received \in Nat /\ Consumed \in Nat
      /\ Holds(stream, wire, Received) /\ Holds(stream, buffer, Consumed)
  BY DEF StreamInv, Places
<1>2. /\ Len(wire) \in Nat /\ Len(buffer) \in Nat /\ Len(stream.events) \in Nat
      /\ n \in 0 .. Len(wire)
  BY <1>1, StreamFacts DEF Holds
<1>3. Received = Consumed + Len(buffer)
  BY <1>1, <1>2 DEF Consumed
<1>4. Len(wire) = Last4(stream) - Received /\ Last4(stream) \in Nat
  BY <1>1, <1>2 DEF Received, Last4
<1>5. stream' = stream /\ acc' = acc /\ handled' = handled /\ committed' = committed
  BY DEF Feed
<1>6. wire' = SubSeq(wire, n + 1, Len(wire))
  BY DEF Feed
<1>7. buffer' = buffer \o Lossy(chunk)
  BY DEF Feed
<1>8. cut' \in BOOLEAN
  BY DEF Feed, StreamInv, Accumulated
<1>9. /\ Holds(stream, chunk, Received) /\ Len(chunk) = n
      /\ Holds(stream, wire', Received + n) /\ Len(wire') = Len(wire) - n
  BY <1>1, <1>2, <1>6, CutHolds
<1> HIDE DEF chunk
<1>19. Received \in Int /\ Consumed \in Int /\ stream \in Streams
  BY <1>1
<1>20. Holds(stream, chunk, Received)
  BY <1>9
<1>10. Holds(stream, Lossy(chunk), Received) /\ Len(Lossy(chunk)) = n
  <2>1. Holds(stream, Lossy(chunk), Received) /\ Len(Lossy(chunk)) = Len(chunk)
    BY <1>19, <1>20, LossyHolds
  <2> QED
    BY <2>1, <1>9
<1>11. Holds(stream, buffer', Consumed) /\ Len(buffer') = Len(buffer) + n
  <2>1. Holds(stream, buffer, Consumed)
    BY <1>1
  <2>2. Holds(stream, Lossy(chunk), Consumed + Len(buffer))
    BY <1>3, <1>10
  <2>3. /\ Holds(stream, buffer \o Lossy(chunk), Consumed)
        /\ Len(buffer \o Lossy(chunk)) = Len(buffer) + Len(Lossy(chunk))
    BY <1>19, <2>1, <2>2, JoinHolds
  <2> QED
    BY <1>7, <1>10, <2>3
<1>12. Received' = Received + n
  BY <1>2, <1>5, <1>9 DEF Received
<1>13. Consumed' = Consumed
  BY <1>1, <1>2, <1>11, <1>12 DEF Consumed
<1>14. wire' \in Seq(WireBytes(stream))
  BY <1>2, <1>6, CutSeq DEF StreamInv, Places
<1>15. Received' \in 0 .. Last4(stream)
  BY <1>1, <1>2, <1>4, <1>12
<1>16. Places'
  BY <1>1, <1>5, <1>9, <1>11, <1>12, <1>13, <1>14, <1>15 DEF Places
<1>17. Counted'
  BY <1>5, <1>13 DEF Counted, StreamInv
<1>18. Accumulated'
  BY <1>5, <1>8 DEF Accumulated, StreamInv
<1> QED
  BY <1>5, <1>12, <1>16, <1>17, <1>18 DEF StreamInv

(* A block of lines leaves the buffer.                                     *)
LEMMA CutPlace ==
  ASSUME Places, Counted, Cuts # {}
  PROVE  /\ FirstCut \in 1 .. Len(buffer)
         /\ stream.surface = "anthropic" => FirstCut = 4 /\ Consumed = 4 * handled
         /\ stream.surface # "anthropic" =>
              \/ FirstCut = 3 /\ Consumed = 4 * handled
              \/ FirstCut = 1 /\ Consumed = 4 * handled - 1
<1>1. Len(buffer) \in Nat /\ handled \in Nat
  BY DEF Places, Counted, Holds
<1>2. CASE stream.surface = "anthropic"
  <2>1. FirstCut = 4 /\ ~(Len(buffer) < 4)
    BY <1>2, AnthropicCuts
  <2> QED
    BY <1>1, <1>2, <2>1 DEF Counted
<1>3. CASE stream.surface # "anthropic"
  <2>1. Consumed \in {4 * handled, 4 * handled - 1}
    BY <1>3 DEF Counted
  <2>2. CASE Consumed = 4 * handled
    <3>1. Consumed % 4 = 0
      BY <1>1, <2>2
    <3>2. FirstCut = 3 /\ ~(Len(buffer) < 3)
      BY <1>3, <3>1, OpenAICuts
    <3> QED
      BY <1>1, <1>3, <2>2, <3>2
  <2>3. CASE Consumed = 4 * handled - 1
    <3>1. Consumed % 4 = 3
      BY <1>1, <2>3
    <3>2. FirstCut = 1 /\ ~(Len(buffer) < 1)
      BY <1>3, <3>1, OpenAICuts
    <3> QED
      BY <1>1, <1>3, <2>3, <3>2
  <2> QED
    BY <2>1, <2>2, <2>3
<1> QED
  BY <1>2, <1>3

(* A block with data is the next event; the other blocks are the second    *)
(* newlines of OpenAI's events.                                            *)
LEMMA HandleTakes ==
  ASSUME StreamInv, Handle
  PROVE  LET block == SubSeq(buffer, 1, FirstCut)
         IN  \/ acc' = acc /\ handled' = handled
             \/ /\ acc' = Apply(acc, EventOf(block)) /\ handled' = handled + 1
                /\ handled + 1 \in DOMAIN stream.events
                /\ block[1].event = stream.events[handled + 1]
<1> DEFINE block == SubSeq(buffer, 1, FirstCut)
<1>1. /\ stream \in Streams /\ Received \in Nat /\ Consumed \in Nat
      /\ Holds(stream, buffer, Consumed) /\ handled \in Nat
      /\ Received <= Last4(stream)
  BY DEF StreamInv, Places, Counted
<1>2. /\ Len(buffer) \in Nat /\ Len(stream.events) \in Nat
      /\ DOMAIN stream.events = 1 .. Len(stream.events)
  BY <1>1, StreamFacts DEF Holds
<1>3. Received = Consumed + Len(buffer)
  BY <1>1, <1>2 DEF Consumed
<1>4. \/ acc' = acc /\ handled' = handled
      \/ /\ acc' = Apply(acc, EventOf(block)) /\ handled' = handled + 1
         /\ block[1] # NL
  BY DEF Handle
<1>5. /\ FirstCut \in 1 .. Len(buffer)
      /\ Consumed = 4 * handled \/ Consumed = 4 * handled - 1
  BY CutPlace DEF StreamInv, Handle
<1>6. FirstCut \in 0 .. Len(buffer) /\ 1 \in 1 .. FirstCut /\ Consumed \in Int
  BY <1>1, <1>2, <1>5
<1>7. block[1] = buffer[1]
  BY <1>1, <1>6, CutHolds
<1> HIDE DEF block
<1>8. IsAt(stream, buffer[1], Consumed + 1) /\ 1 \in 1 .. Len(buffer)
  BY <1>1, <1>2, <1>6 DEF Holds
<1>9. CASE Consumed = 4 * handled
  <2>1. (Consumed + 1) % 4 = 1 /\ ((Consumed + 1) - 1) \div 4 = handled
    BY <1>1, <1>9
  <2>2. buffer[1].event = stream.events[handled + 1]
    BY <1>8, <2>1 DEF IsAt, EventAt
  <2>3. handled + 1 \in DOMAIN stream.events
    BY <1>1, <1>2, <1>3, <1>6, <1>9 DEF Last4
  <2> QED
    BY <1>4, <1>7, <2>2, <2>3 DEF block
<1>10. CASE Consumed = 4 * handled - 1
  <2>1. (Consumed + 1) % 4 = 0
    BY <1>1, <1>10
  <2>2. buffer[1] = NL
    BY <1>8, <2>1 DEF IsAt
  <2> QED
    BY <1>4, <1>7, <2>2
<1> QED
  BY <1>5, <1>9, <1>10

LEMMA HandleKeeps ==
  ASSUME StreamInv, Handle
  PROVE  StreamInv' /\ Received' = Received /\ handled' \in {handled, handled + 1}
<1> DEFINE block == SubSeq(buffer, 1, FirstCut)
<1>1. /\ stream \in Streams /\ Received \in Nat /\ Consumed \in Nat
      /\ Holds(stream, buffer, Consumed) /\ handled \in Nat
      /\ Received <= Last4(stream)
  BY DEF StreamInv, Places, Counted
<1>2. /\ Len(wire) \in Nat /\ Len(buffer) \in Nat /\ Len(stream.events) \in Nat
      /\ DOMAIN stream.events = 1 .. Len(stream.events)
  BY <1>1, StreamFacts DEF Holds, StreamInv, Places
<1>3. Received = Consumed + Len(buffer)
  BY <1>1, <1>2 DEF Consumed
<1>4. stream' = stream /\ wire' = wire /\ cut' = cut /\ committed' = committed
  BY DEF Handle
<1>5. committed = Nil /\ Cuts # {}
  BY DEF Handle
<1>6. buffer' = SubSeq(buffer, FirstCut + 1, Len(buffer))
  BY DEF Handle
<1>7. IF block[1] = NL THEN acc' = acc /\ handled' = handled
      ELSE acc' = Apply(acc, EventOf(block)) /\ handled' = handled + 1
  BY DEF Handle
<1>8. /\ FirstCut \in 1 .. Len(buffer)
      /\ stream.surface = "anthropic" => FirstCut = 4 /\ Consumed = 4 * handled
      /\ stream.surface # "anthropic" =>
           \/ FirstCut = 3 /\ Consumed = 4 * handled
           \/ FirstCut = 1 /\ Consumed = 4 * handled - 1
  BY <1>5, CutPlace DEF StreamInv
<1>9. FirstCut \in 0 .. Len(buffer) /\ 1 \in 1 .. FirstCut /\ Consumed \in Int
  BY <1>1, <1>2, <1>8
<1>10. /\ Holds(stream, buffer', Consumed + FirstCut)
       /\ Len(buffer') = Len(buffer) - FirstCut
       /\ block[1] = buffer[1]
  BY <1>1, <1>6, <1>9, CutHolds
<1> HIDE DEF block
<1>11. Received' = Received
  BY <1>4 DEF Received
<1>12. Consumed' = Consumed + FirstCut
  BY <1>1, <1>2, <1>3, <1>9, <1>10, <1>11 DEF Consumed
<1>13. Consumed + FirstCut \in Nat
  BY <1>1, <1>9
<1>14. Places'
  BY <1>4, <1>10, <1>11, <1>12, <1>13 DEF Places, StreamInv
<1>15. IsAt(stream, buffer[1], Consumed + 1) /\ 1 \in 1 .. Len(buffer)
  BY <1>1, <1>2, <1>9 DEF Holds
<1>16. CASE Consumed = 4 * handled
  <2>1. (Consumed + 1) % 4 = 1 /\ ((Consumed + 1) - 1) \div 4 = handled
    BY <1>1, <1>16
  <2>2. buffer[1] # NL /\ buffer[1].event = stream.events[handled + 1]
    BY <1>15, <2>1 DEF IsAt, EventAt
  <2>3. handled + 1 \in DOMAIN stream.events
    BY <1>1, <1>2, <1>3, <1>9, <1>16 DEF Last4
  <2>4. IsEvent(stream, handled + 1, EventOf(block))
    BY <1>10, <2>2 DEF IsEvent, EventOf
  <2>5. acc' = Apply(acc, EventOf(block)) /\ handled' = handled + 1
    BY <1>7, <1>10, <2>2
  <2>6. IsAccumulator(stream.surface, acc')
    BY <1>1, <2>3, <2>4, <2>5, Applied DEF StreamInv, Accumulated
  <2>7. Accumulated'
    BY <1>4, <1>5, <2>6 DEF Accumulated, StreamInv
  <2>8. Counted'
    BY <1>1, <1>4, <1>8, <1>12, <1>16, <2>5 DEF Counted
  <2> QED
    BY <1>11, <1>14, <2>5, <2>7, <2>8 DEF StreamInv
<1>17. CASE Consumed = 4 * handled - 1
  <2>1. (Consumed + 1) % 4 = 0
    BY <1>1, <1>17
  <2>2. buffer[1] = NL
    BY <1>15, <2>1 DEF IsAt
  <2>3. acc' = acc /\ handled' = handled
    BY <1>7, <1>10, <2>2
  <2>4. Accumulated'
    BY <1>4, <2>3 DEF Accumulated, StreamInv
  <2>5. Counted'
    BY <1>1, <1>4, <1>8, <1>12, <1>17, <2>3 DEF Counted
  <2> QED
    BY <1>11, <1>14, <2>3, <2>4, <2>5 DEF StreamInv
<1> QED
  BY <1>8, <1>16, <1>17

(* The loop ends.                                                          *)
LEMMA CommitKeeps ==
  ASSUME StreamInv, NEW outcome \in {"ok", "refusal", "upstream_error"},
         Commit(outcome)
  PROVE  StreamInv' /\ Received' = Received /\ handled' = handled
<1>1. /\ stream' = stream /\ wire' = wire /\ buffer' = buffer /\ acc' = acc
      /\ handled' = handled /\ cut' = cut
      /\ committed' = [response |-> Assembled, outcome |-> outcome]
  BY DEF Commit
<1>2. Received' = Received /\ Consumed' = Consumed
  BY <1>1 DEF Received, Consumed
<1>3. Places' /\ Counted'
  BY <1>1, <1>2 DEF StreamInv, Places, Counted
<1>4. /\ committed'.outcome = outcome
      /\ committed'.response.usage = CanonicalUsage(stream.surface, acc.usage)
  BY <1>1 DEF Assembled
<1>5. Accumulated'
  BY <1>1, <1>4 DEF StreamInv, Accumulated
<1> QED
  BY <1>1, <1>2, <1>3, <1>5 DEF StreamInv

LEMMA EndKeeps ==
  ASSUME StreamInv, End \/ Break
  PROVE  StreamInv' /\ Received' = Received /\ handled' = handled
<1>1. PICK outcome \in {"ok", "refusal", "upstream_error"} : Commit(outcome)
  BY DEF End, Break, Outcome
<1> QED
  BY <1>1, CommitKeeps

LEMMA StutterKeeps ==
  ASSUME StreamInv, UNCHANGED vars
  PROVE  StreamInv' /\ Received' = Received /\ handled' = handled
<1>1. /\ stream' = stream /\ wire' = wire /\ buffer' = buffer /\ acc' = acc
      /\ handled' = handled /\ cut' = cut /\ committed' = committed
  BY DEF vars
<1>2. Received' = Received /\ Consumed' = Consumed
  BY <1>1 DEF Received, Consumed
<1>3. Places' /\ Counted' /\ Accumulated'
  BY <1>1, <1>2 DEF StreamInv, Places, Counted, Accumulated
<1> QED
  BY <1>1, <1>2, <1>3 DEF StreamInv

LEMMA StreamStep == StreamInv /\ [Next]_vars => StreamInv'
  BY FeedKeeps, HandleKeeps, EndKeeps, StutterKeeps DEF Next

LEMMA StreamInvariant == Spec => []StreamInv
<1>1. Init => StreamInv
  BY StreamInit
<1>2. StreamInv /\ [Next]_vars => StreamInv'
  BY StreamStep
<1> QED
  BY <1>1, <1>2, PTL DEF Spec

-----------------------------------------------------------------------------
(* What the accumulator holds: as long as no character was cut, exactly    *)
(* what the events it has handled come to, put together in their order.    *)
Undamaged(s) == \A i \in 1 .. Len(s) : s[i] = NL \/ s[i].whole

HoldsReplay ==
  ~cut => /\ Undamaged(buffer)
          /\ acc = ReplayOf(stream, stream.events)[handled]

(* The response that is made of what an accumulator holds.                 *)
ResponseOf(st, a) ==
  [model |-> IF a.model = Nil THEN Fallback ELSE a.model,
   content |-> Canonical(st.surface, TextBlock(a.text) \o InOrder(a.blocks)),
   stop |-> IF a.stop = Nil THEN "" ELSE a.stop,
   usage |-> CanonicalUsage(st.surface, a.usage)]

Settled ==
  committed # Nil => Cuts = {} /\ committed.response = ResponseOf(stream, acc)

ReplayInv == StreamInv /\ HoldsReplay /\ Settled

(* A wire is never damaged: the damage is done by decoding a chunk.        *)
LEMMA WireUndamaged ==
  ASSUME StreamInv, NEW n \in 0 .. Len(wire)
  PROVE  Undamaged(SubSeq(wire, 1, n))
<1>1. wire \in Seq(WireBytes(stream))
  BY DEF StreamInv, Places
<1>2. ASSUME NEW i \in 1 .. n PROVE wire[i] = NL \/ wire[i].whole
  <2>1. wire[i] \in WireBytes(stream)
    BY <1>1, <1>2
  <2> QED
    BY <2>1 DEF WireBytes, Half
<1>3. /\ Len(SubSeq(wire, 1, n)) = n
      /\ \A i \in 1 .. n : SubSeq(wire, 1, n)[i] = wire[i]
  BY <1>1, CutSeq
<1> QED
  BY <1>2, <1>3 DEF Undamaged

LEMMA BlockUndamaged ==
  ASSUME NEW S, NEW s \in Seq(S), Undamaged(s), NEW n \in 0 .. Len(s)
  PROVE  /\ Undamaged(SubSeq(s, 1, n))
         /\ Undamaged(SubSeq(s, n + 1, Len(s)))
<1>1. /\ Len(SubSeq(s, 1, n)) = n
      /\ Len(SubSeq(s, n + 1, Len(s))) = Len(s) - n
      /\ \A i \in 1 .. n : SubSeq(s, 1, n)[i] = s[i]
      /\ \A i \in 1 .. Len(s) - n : SubSeq(s, n + 1, Len(s))[i] = s[n + i]
  BY CutSeq
<1>2. \A i \in 1 .. n : i \in 1 .. Len(s)
  OBVIOUS
<1>3. \A i \in 1 .. Len(s) - n : n + i \in 1 .. Len(s)
  OBVIOUS
<1>4. Undamaged(SubSeq(s, 1, n))
  BY <1>1, <1>2 DEF Undamaged
<1>5. Undamaged(SubSeq(s, n + 1, Len(s)))
  BY <1>1, <1>3 DEF Undamaged
<1> QED
  BY <1>4, <1>5

LEMMA ReplayInit == Init => ReplayInv
<1> SUFFICES ASSUME Init PROVE ReplayInv
  OBVIOUS
<1>1. StreamInv /\ stream \in Streams
  BY StreamInit DEF Init
<1>2. stream.events \in Seq(Range(stream.events))
  BY <1>1, StreamFacts
<1>3. ReplayOf(stream, stream.events)[0] = BlankOf(stream)
  BY <1>2, ReplaySteps
<1>4. acc = BlankOf(stream) /\ handled = 0 /\ buffer = <<>> /\ committed = Nil
  BY DEF Init, BlankOf
<1>5. HoldsReplay
  BY <1>3, <1>4 DEF HoldsReplay, Undamaged
<1> QED
  BY <1>1, <1>4, <1>5 DEF ReplayInv, Settled

LEMMA ReplayAfterFeed ==
  ASSUME ReplayInv, NEW n \in 1 .. Len(wire), Feed(n)
  PROVE  ReplayInv'
<1> DEFINE chunk == SubSeq(wire, 1, n)
<1>1. StreamInv /\ StreamInv'
  BY FeedKeeps DEF ReplayInv
<1>2. /\ buffer' = buffer \o Lossy(chunk)
      /\ cut' = (cut \/ \E i \in DOMAIN chunk : Parted(chunk, i))
      /\ acc' = acc /\ handled' = handled /\ stream' = stream
      /\ committed' = committed /\ committed = Nil
  BY DEF Feed, Running
<1>3. Settled'
  BY <1>2 DEF Settled
<1>4. ASSUME ~cut' PROVE Undamaged(buffer')
  <2>1. ~cut /\ \A i \in DOMAIN chunk : ~Parted(chunk, i)
    BY <1>2, <1>4
  <2>2. wire \in Seq(WireBytes(stream)) /\ buffer \in Seq(Bytes(stream))
    BY <1>1 DEF StreamInv, Places, Holds
  <2>3. n \in 0 .. Len(wire) /\ Len(wire) \in Nat /\ Len(buffer) \in Nat
    BY <2>2
  <2>4. chunk \in Seq(WireBytes(stream)) /\ Undamaged(chunk)
    BY <1>1, <2>2, <2>3, CutSeq, WireUndamaged
  <2> HIDE DEF chunk
  <2>5. Lossy(chunk) = [i \in DOMAIN chunk |-> chunk[i]]
    BY <2>1 DEF Lossy
  <2>6. Lossy(chunk) = chunk
    BY <2>4, <2>5
  <2> DEFINE S == WireBytes(stream) \cup Bytes(stream)
  <2>7. buffer \in Seq(S) /\ chunk \in Seq(S)
    BY <2>2, <2>4
  <2> HIDE DEF S
  <2>8. /\ Len(buffer \o chunk) = Len(buffer) + Len(chunk)
        /\ \A i \in 1 .. Len(buffer) : (buffer \o chunk)[i] = buffer[i]
        /\ \A i \in 1 .. Len(chunk) : (buffer \o chunk)[Len(buffer) + i] = chunk[i]
    BY <2>7, JoinSeq
  <2>9. Undamaged(buffer)
    BY <2>1 DEF ReplayInv, HoldsReplay
  <2>10. ASSUME NEW i \in 1 .. Len(buffer \o chunk)
         PROVE  (buffer \o chunk)[i] = NL \/ (buffer \o chunk)[i].whole
    <3>1. CASE i \in 1 .. Len(buffer)
      BY <2>8, <2>9, <3>1 DEF Undamaged
    <3>2. CASE i \notin 1 .. Len(buffer)
      <4>1. Len(chunk) \in Nat
        BY <2>4
      <4>2. i - Len(buffer) \in 1 .. Len(chunk) /\ Len(buffer) + (i - Len(buffer)) = i
        BY <2>3, <2>8, <3>2, <4>1
      <4> QED
        BY <2>4, <2>8, <4>2 DEF Undamaged
    <3> QED
      BY <3>1, <3>2
  <2> QED
    BY <1>2, <2>6, <2>10 DEF Undamaged
<1>5. HoldsReplay'
  BY <1>2, <1>4 DEF HoldsReplay, ReplayInv
<1> QED
  BY <1>1, <1>3, <1>5 DEF ReplayInv

LEMMA ReplayAfterHandle ==
  ASSUME ReplayInv, Handle
  PROVE  ReplayInv'
<1> DEFINE block == SubSeq(buffer, 1, FirstCut)
<1>1. StreamInv /\ StreamInv'
  BY HandleKeeps DEF ReplayInv
<1>2. /\ stream' = stream /\ cut' = cut /\ committed' = committed
      /\ committed = Nil /\ Cuts # {}
      /\ buffer' = SubSeq(buffer, FirstCut + 1, Len(buffer))
  BY DEF Handle
<1>3. Settled'
  BY <1>2 DEF Settled
<1>4. FirstCut \in 1 .. Len(buffer) /\ buffer \in Seq(Bytes(stream))
  BY <1>1, <1>2, CutPlace DEF StreamInv, Places, Holds
<1>5. FirstCut \in 0 .. Len(buffer) /\ 1 \in 1 .. FirstCut /\ FirstCut \in Nat
  BY <1>4
<1>6. /\ block \in Seq(Bytes(stream)) /\ Len(block) = FirstCut
      /\ DOMAIN block = 1 .. FirstCut
  BY <1>4, <1>5, CutSeq
<1>7. \/ acc' = acc /\ handled' = handled
      \/ /\ acc' = Apply(acc, EventOf(block)) /\ handled' = handled + 1
         /\ handled + 1 \in DOMAIN stream.events
         /\ block[1].event = stream.events[handled + 1]
  BY <1>1, HandleTakes
<1> HIDE DEF block
<1>8. ASSUME ~cut PROVE Undamaged(block) /\ Undamaged(buffer')
  <2>1. Undamaged(buffer)
    BY <1>8 DEF ReplayInv, HoldsReplay
  <2> QED
    BY <1>2, <1>4, <1>5, <2>1, BlockUndamaged DEF block
<1>9. ASSUME ~cut PROVE acc' = ReplayOf(stream, stream.events)[handled']
  <2>1. acc = ReplayOf(stream, stream.events)[handled]
    BY <1>9 DEF ReplayInv, HoldsReplay
  <2>2. CASE acc' = acc /\ handled' = handled
    BY <2>1, <2>2
  <2>3. CASE /\ acc' = Apply(acc, EventOf(block)) /\ handled' = handled + 1
             /\ handled + 1 \in DOMAIN stream.events
             /\ block[1].event = stream.events[handled + 1]
    <3>1. EventOf(block) = stream.events[handled + 1]
      BY <1>6, <1>8, <1>9, <2>3 DEF EventOf, Undamaged
    <3>2. /\ stream.events \in Seq(Range(stream.events))
          /\ handled + 1 \in 1 .. Len(stream.events) /\ handled \in Nat
      BY <1>1, <2>3, StreamFacts DEF StreamInv, Places, Counted
    <3>3. ReplayOf(stream, stream.events)[handled + 1] =
            ApplyTo(stream, ReplayOf(stream, stream.events)[(handled + 1) - 1],
                    stream.events[handled + 1])
      BY <3>2, ReplaySteps
    <3>4. (handled + 1) - 1 = handled
      BY <3>2
    <3>5. acc' = ApplyTo(stream, acc, stream.events[handled + 1])
      BY <2>3, <3>1 DEF Apply, ApplyTo
    <3> QED
      BY <2>1, <2>3, <3>3, <3>4, <3>5
  <2> QED
    BY <1>7, <2>2, <2>3
<1>10. HoldsReplay'
  BY <1>2, <1>8, <1>9 DEF HoldsReplay
<1> QED
  BY <1>1, <1>3, <1>10 DEF ReplayInv

LEMMA ReplayAfterRest ==
  ASSUME ReplayInv, End \/ Break \/ UNCHANGED vars
  PROVE  ReplayInv'
<1>1. StreamInv /\ StreamInv'
  BY EndKeeps, StutterKeeps DEF ReplayInv
<1>2. /\ stream' = stream /\ buffer' = buffer /\ acc' = acc
      /\ handled' = handled /\ cut' = cut
      /\ \/ committed' = committed
         \/ Cuts = {} /\ committed'.response = Assembled
  BY DEF End, Break, Commit, Running, vars
<1>3. Cuts' = Cuts
  BY <1>2 DEF Cuts
<1>4. Settled'
  <2>1. Assembled = ResponseOf(stream, acc)
    BY DEF Assembled, ResponseOf
  <2> QED
    BY <1>2, <1>3, <2>1 DEF Settled, ReplayInv
<1>5. HoldsReplay'
  BY <1>2 DEF HoldsReplay, ReplayInv
<1> QED
  BY <1>1, <1>4, <1>5 DEF ReplayInv

LEMMA ReplayStep == ReplayInv /\ [Next]_vars => ReplayInv'
  BY ReplayAfterFeed, ReplayAfterHandle, ReplayAfterRest DEF Next

-----------------------------------------------------------------------------
(* What follows from the invariant.                                        *)
LEMMA InvTypes == StreamInv => TypeOK
<1> SUFFICES ASSUME StreamInv PROVE TypeOK
  OBVIOUS
<1>1. /\ stream \in Streams /\ wire \in Seq(WireBytes(stream))
      /\ Received \in Nat /\ Received <= Last4(stream) /\ Consumed \in Nat
      /\ buffer \in Seq(Bytes(stream)) /\ handled \in Nat
  BY DEF StreamInv, Places, Counted, Holds
<1>2. Len(buffer) \in Nat /\ Len(stream.events) \in Nat
  BY <1>1, StreamFacts
<1>3. Consumed = 4 * handled \/ Consumed = 4 * handled - 1
  BY DEF StreamInv, Counted
<1>4. Received = Consumed + Len(buffer)
  BY <1>1, <1>2 DEF Consumed
<1>5. handled \in 0 .. Len(stream.events)
  BY <1>1, <1>2, <1>3, <1>4 DEF Last4
<1>6. acc.usage \in [Counters(stream.surface) -> Nat]
  BY DEF StreamInv, Accumulated, IsAccumulator
<1>7. acc.usage \in [DOMAIN acc.usage -> Nat]
  BY <1>6
<1>8. CanonicalUsage(stream.surface, acc.usage) \in [DOMAIN NoUsage -> Nat]
  BY <1>1, <1>6, StreamFacts, CanonicalCounters
<1>9. committed # Nil =>
        /\ committed.outcome \in {"ok", "refusal", "upstream_error"}
        /\ committed.response.usage \in [DOMAIN NoUsage -> Nat]
  BY <1>8 DEF StreamInv, Accumulated
<1>10. cut \in BOOLEAN
  BY DEF StreamInv, Accumulated
<1> QED
  BY <1>1, <1>5, <1>7, <1>9, <1>10 DEF TypeOK, WireBytes

LEMMA InvPartial == StreamInv => BufferHoldsPartial
<1> SUFFICES ASSUME StreamInv, Cuts = {}
             PROVE  IF stream.surface = "anthropic"
                    THEN handled = Received \div 4 /\ Len(buffer) = Received % 4
                    ELSE /\ handled = (Received + 1) \div 4
                         /\ Len(buffer) = IF Received % 4 = 3 THEN 0
                                          ELSE Received % 4
  BY DEF BufferHoldsPartial
<1>1. /\ Places /\ Counted
      /\ Received \in Nat /\ Consumed \in Nat
      /\ buffer \in Seq(Bytes(stream)) /\ handled \in Nat
  BY DEF StreamInv, Places, Counted, Holds
<1>2. Len(buffer) \in Nat
  BY <1>1
<1>3. Received = Consumed + Len(buffer)
  BY <1>1, <1>2 DEF Consumed
<1>4. CASE stream.surface = "anthropic"
  <2>1. Len(buffer) < 4
    BY <1>1, <1>4, AnthropicCuts
  <2>2. Consumed = 4 * handled
    BY <1>1, <1>4 DEF Counted
  <2>3. handled = Received \div 4 /\ Len(buffer) = Received % 4
    BY <1>1, <1>2, <1>3, <2>1, <2>2
  <2> QED
    BY <1>4, <2>3
<1>5. CASE stream.surface # "anthropic"
  <2>1. Len(buffer) < IF Consumed % 4 = 0 THEN 3 ELSE 1
    BY <1>1, <1>5, OpenAICuts
  <2>2. CASE Consumed = 4 * handled
    <3>1. Len(buffer) < 3
      BY <1>1, <2>1, <2>2
    <3>2. handled = (Received + 1) \div 4 /\ Len(buffer) = Received % 4
      BY <1>1, <1>2, <1>3, <2>2, <3>1
    <3>3. Received % 4 # 3
      BY <1>2, <3>1, <3>2
    <3> QED
      BY <1>5, <3>2, <3>3
  <2>3. CASE Consumed = 4 * handled - 1
    <3>1. Consumed % 4 = 3
      BY <1>1, <2>3
    <3>2. Len(buffer) = 0
      BY <1>2, <2>1, <3>1
    <3>3. handled = (Received + 1) \div 4 /\ Received % 4 = 3
      BY <1>1, <1>3, <2>3, <3>2
    <3> QED
      BY <1>5, <3>2, <3>3
  <2>4. Consumed = 4 * handled \/ Consumed = 4 * handled - 1
    BY <1>1, <1>5 DEF Counted
  <2> QED
    BY <2>2, <2>3, <2>4
<1> QED
  BY <1>4, <1>5

(* The types of the accumulator's state, for streams of any length, cut    *)
(* anywhere: no counter of tokens ever wraps around, and no block of lines *)
(* is handled twice.                                                       *)
THEOREM StreamTypeSafe == Spec => []TypeOK
  BY StreamInvariant, InvTypes, PTL

(* Between two chunks exactly the events that arrived in full have been    *)
(* handled, however the provider's bytes were cut into chunks.             *)
THEOREM EventsHandledOnce == Spec => []BufferHoldsPartial
  BY StreamInvariant, InvPartial, PTL

-----------------------------------------------------------------------------
(* The way to the client.  Base bytes have been read and taken apart; the  *)
(* others that the gateway received are, in this order, in the client's    *)
(* buffer, on their way, and in the chunk the gateway's loop is at.        *)
Base == Received - Len(pending) - Len(pipe) - Len(inbox)

InTransit ==
  /\ Base \in Nat
  /\ Holds(stream, inbox, Base)
  /\ Holds(stream, pipe, Base + Len(inbox))
  /\ Holds(stream, pending, Base + Len(inbox) + Len(pipe))

FirstEvents(st, ys) ==
  /\ ys \in Seq(Range(st.events))
  /\ Len(ys) <= Len(st.events)
  /\ \A i \in 1 .. Len(ys) : ys[i] = st.events[i]

(* The client is at an event's beginning, and the gateway has handled what *)
(* it passed on but for a part of an event.                                *)
InStep ==
  /\ returned \in BOOLEAN
  /\ FirstEvents(stream, yielded)
  /\ \/ Base = 4 * Len(yielded)
     \/ returned /\ Base = 4 * (Len(yielded) + 1)
  /\ Received - Len(pending) < 4 * (handled + 1)

ClientInv == StreamInv /\ InTransit /\ InStep

LEMMA Lengths ==
  ASSUME ClientInv
  PROVE  /\ Len(inbox) \in Nat /\ Len(pipe) \in Nat /\ Len(pending) \in Nat
         /\ Len(yielded) \in Nat /\ Received \in Nat /\ handled \in Nat
         /\ Len(wire) \in Nat /\ Base \in Nat
         /\ Received = Base + Len(inbox) + Len(pipe) + Len(pending)
         /\ stream \in Streams /\ Len(stream.events) \in Nat
         /\ Received <= Last4(stream)
<1>1. /\ inbox \in Seq(Bytes(stream)) /\ pipe \in Seq(Bytes(stream))
      /\ pending \in Seq(Bytes(stream)) /\ yielded \in Seq(Range(stream.events))
      /\ wire \in Seq(WireBytes(stream)) /\ stream \in Streams
  BY DEF ClientInv, StreamInv, Places, InTransit, InStep, Holds, FirstEvents
<1>2. /\ Received \in Nat /\ handled \in Nat /\ Base \in Nat
      /\ Received <= Last4(stream)
  BY DEF ClientInv, StreamInv, Places, Counted, InTransit
<1>3. Len(stream.events) \in Nat
  BY <1>1, StreamFacts
<1>4. /\ Len(inbox) \in Nat /\ Len(pipe) \in Nat /\ Len(pending) \in Nat
      /\ Len(yielded) \in Nat /\ Len(wire) \in Nat
  BY <1>1
<1>5. Received = Base + Len(inbox) + Len(pipe) + Len(pending)
  BY <1>2, <1>4 DEF Base
<1> QED
  BY <1>1, <1>2, <1>3, <1>4, <1>5

LEMMA ClientStarts == ClientInit => ClientInv
<1> SUFFICES ASSUME ClientInit PROVE ClientInv
  OBVIOUS
<1>1. StreamInv /\ stream \in Streams /\ handled = 0
  BY StreamInit DEF ClientInit, Init
<1>2. Len(pending) = 0 /\ Len(pipe) = 0 /\ Len(inbox) = 0 /\ Len(yielded) = 0
  BY DEF ClientInit
<1>3. Received = 0
  <2>1. Len(wire) = Last4(stream) /\ Last4(stream) = 4 * Len(stream.events)
    BY <1>1, WireHolds DEF ClientInit, Init, Last4
  <2>2. Len(stream.events) \in Nat
    BY <1>1, StreamFacts
  <2> QED
    BY <2>1, <2>2 DEF Received
<1>4. Base = 0
  BY <1>2, <1>3 DEF Base
<1>5. InTransit
  BY <1>1, <1>2, <1>4, EmptyHolds DEF InTransit, ClientInit
<1>6. FirstEvents(stream, yielded)
  <2>1. Len(stream.events) \in Nat
    BY <1>1, StreamFacts
  <2>2. yielded = <<>>
    BY DEF ClientInit
  <2> QED
    BY <2>1, <2>2 DEF FirstEvents
<1>7. Base = 4 * Len(yielded) /\ Received - Len(pending) < 4 * (handled + 1)
  BY <1>1, <1>2, <1>3, <1>4
<1>8. returned \in BOOLEAN
  BY DEF ClientInit
<1>9. InStep
  BY <1>6, <1>7, <1>8 DEF InStep
<1> QED
  BY <1>1, <1>5, <1>9 DEF ClientInv

(* The steps at which nothing moves between gateway and client.            *)
LEMMA StillInStep ==
  ASSUME ClientInv, StreamInv', UNCHANGED clientVars, stream' = stream,
         Received' = Received, handled' \in {handled, handled + 1}
  PROVE  ClientInv'
<1>1. /\ pending' = pending /\ pipe' = pipe /\ inbox' = inbox
      /\ yielded' = yielded /\ returned' = returned
  BY DEF clientVars
<1>2. Base' = Base
  BY <1>1 DEF Base
<1>3. InTransit'
  BY <1>1, <1>2 DEF ClientInv, InTransit
<1>4. Received - Len(pending) < 4 * (handled + 1)
  BY DEF ClientInv, InStep
<1>5. Received' - Len(pending') < 4 * (handled' + 1)
  BY <1>1, <1>4, Lengths
<1>6. InStep'
  BY <1>1, <1>2, <1>5 DEF ClientInv, InStep
<1> QED
  BY <1>3, <1>6 DEF ClientInv

LEMMA FeedChunkInStep ==
  ASSUME ClientInv, NEW n \in 1 .. Len(wire), FeedChunk(n)
  PROVE  ClientInv'
<1>1. StreamInv /\ Feed(n)
  BY DEF FeedChunk, ClientInv
<1>2. StreamInv' /\ Received' = Received + n /\ handled' = handled
  BY <1>1, FeedKeeps
<1>3. stream' = stream
  BY <1>1 DEF Feed
<1>4. /\ pipe' = pipe /\ inbox' = inbox /\ yielded' = yielded
      /\ returned' = returned /\ pending' = SubSeq(wire, 1, n)
      /\ Len(pending) = 0
  BY DEF FeedChunk
<1>5. /\ Len(inbox) \in Nat /\ Len(pipe) \in Nat /\ Received \in Nat
      /\ Len(wire) \in Nat /\ Base \in Nat /\ stream \in Streams
      /\ Received = Base + Len(inbox) + Len(pipe)
  BY <1>4, Lengths
<1>6. Received \in Int /\ n \in 0 .. Len(wire) /\ Holds(stream, wire, Received)
  BY <1>5 DEF ClientInv, StreamInv, Places
<1>7. Holds(stream, pending', Received) /\ Len(pending') = n
  BY <1>4, <1>5, <1>6, CutHolds
<1>8. Base' = Base
  BY <1>2, <1>4, <1>5, <1>7 DEF Base
<1>9. InTransit'
  BY <1>3, <1>4, <1>5, <1>7, <1>8 DEF ClientInv, InTransit
<1>10. Received - Len(pending) < 4 * (handled + 1)
  BY DEF ClientInv, InStep
<1>11. Received' - Len(pending') < 4 * (handled' + 1)
  BY <1>2, <1>4, <1>5, <1>7, <1>10
<1>12. InStep'
  BY <1>3, <1>4, <1>8, <1>11 DEF ClientInv, InStep
<1> QED
  BY <1>2, <1>9, <1>12 DEF ClientInv

LEMMA RelayInStep ==
  ASSUME ClientInv, Relay
  PROVE  ClientInv'
<1>1. StreamInv /\ UNCHANGED vars
  BY DEF Relay, ClientInv
<1>2. StreamInv' /\ Received' = Received /\ handled' = handled
  BY <1>1, StutterKeeps
<1>3. stream' = stream
  BY <1>1 DEF vars
<1>4. /\ inbox' = inbox /\ yielded' = yielded /\ returned' = returned
      /\ pipe' = pipe \o pending /\ pending' = <<>>
  BY DEF Relay
<1>5. /\ Len(inbox) \in Nat /\ Len(pipe) \in Nat /\ Len(pending) \in Nat
      /\ Received \in Nat /\ Base \in Nat /\ stream \in Streams
      /\ handled \in Nat
      /\ Received = Base + Len(inbox) + Len(pipe) + Len(pending)
  BY Lengths
<1>6. /\ Base + Len(inbox) \in Int
      /\ Holds(stream, pipe, Base + Len(inbox))
      /\ Holds(stream, pending, (Base + Len(inbox)) + Len(pipe))
  BY <1>5 DEF ClientInv, InTransit
<1>7. /\ Holds(stream, pipe', Base + Len(inbox))
      /\ Len(pipe') = Len(pipe) + Len(pending)
  BY <1>4, <1>5, <1>6, JoinHolds
<1>8. Len(pending') = 0
  BY <1>4
<1>9. Base' = Base
  BY <1>2, <1>4, <1>5, <1>7, <1>8 DEF Base
<1>10. Holds(stream, pending', Base + Len(inbox) + Len(pipe'))
  BY <1>4, <1>5, <1>7, EmptyHolds
<1>11. InTransit'
  BY <1>3, <1>4, <1>7, <1>9, <1>10 DEF ClientInv, InTransit
<1>12. handled = Received \div 4 \/ handled = (Received + 1) \div 4
  BY <1>1, InvPartial DEF Relay, BufferHoldsPartial
<1>13. Received' - Len(pending') < 4 * (handled' + 1)
  BY <1>2, <1>5, <1>8, <1>12
<1>14. InStep'
  BY <1>3, <1>4, <1>9, <1>13 DEF ClientInv, InStep
<1> QED
  BY <1>2, <1>11, <1>14 DEF ClientInv

LEMMA ReadInStep ==
  ASSUME ClientInv, NEW n \in 1 .. Len(pipe), Read(n)
  PROVE  ClientInv'
<1> DEFINE chunk == SubSeq(pipe, 1, n)
<1>1. StreamInv /\ UNCHANGED vars
  BY DEF Read, ClientInv
<1>2. StreamInv' /\ Received' = Received /\ handled' = handled
  BY <1>1, StutterKeeps
<1>3. stream' = stream
  BY <1>1 DEF vars
<1>4. /\ pending' = pending /\ yielded' = yielded /\ returned' = returned
      /\ inbox' = inbox \o chunk /\ pipe' = SubSeq(pipe, n + 1, Len(pipe))
  BY DEF Read
<1>5. /\ Len(inbox) \in Nat /\ Len(pipe) \in Nat /\ Len(pending) \in Nat
      /\ Received \in Nat /\ Base \in Nat /\ stream \in Streams
      /\ Received = Base + Len(inbox) + Len(pipe) + Len(pending)
  BY Lengths
<1>6. /\ Base + Len(inbox) \in Int /\ Base \in Int /\ n \in 0 .. Len(pipe)
      /\ Holds(stream, inbox, Base)
      /\ Holds(stream, pipe, Base + Len(inbox))
  BY <1>5 DEF ClientInv, InTransit
<1>7. /\ Holds(stream, chunk, Base + Len(inbox)) /\ Len(chunk) = n
      /\ Holds(stream, pipe', (Base + Len(inbox)) + n)
      /\ Len(pipe') = Len(pipe) - n
  <2>1. /\ Holds(stream, chunk, Base + Len(inbox)) /\ Len(chunk) = n
        /\ Holds(stream, SubSeq(pipe, n + 1, Len(pipe)), (Base + Len(inbox)) + n)
        /\ Len(SubSeq(pipe, n + 1, Len(pipe))) = Len(pipe) - n
    <3>1. stream \in Streams
      BY <1>5
    <3> QED
      BY <1>6, <3>1, CutHolds
  <2>2. pipe' = SubSeq(pipe, n + 1, Len(pipe))
    BY <1>4
  <2> QED
    BY <2>1, <2>2
<1> HIDE DEF chunk
<1>8. Holds(stream, inbox', Base) /\ Len(inbox') = Len(inbox) + n
  BY <1>4, <1>5, <1>6, <1>7, JoinHolds
<1>9. Base' = Base
  <2>1. Len(pending') = Len(pending)
    BY <1>4
  <2>2. Base' = Received - Len(pending) - (Len(pipe) - n) - (Len(inbox) + n)
    BY <1>2, <1>7, <1>8, <2>1 DEF Base
  <2>3. n \in Int
    OBVIOUS
  <2> QED
    BY <1>5, <2>2, <2>3
<1>10. /\ Base + Len(inbox') = (Base + Len(inbox)) + n
       /\ Base + Len(inbox') + Len(pipe') = Base + Len(inbox) + Len(pipe)
  BY <1>5, <1>7, <1>8
<1>11. Holds(stream, pending, Base + Len(inbox) + Len(pipe))
  BY DEF ClientInv, InTransit
<1>12. InTransit'
  BY <1>3, <1>4, <1>5, <1>7, <1>8, <1>9, <1>10, <1>11 DEF InTransit
<1>13. InStep'
  BY <1>2, <1>3, <1>4, <1>9 DEF ClientInv, InStep
<1> QED
  BY <1>2, <1>12, <1>13 DEF ClientInv

LEMMA CloseInStep ==
  ASSUME ClientInv, Close
  PROVE  ClientInv'
<1>1. StreamInv /\ UNCHANGED vars
  BY DEF Close, ClientInv
<1>2. StreamInv' /\ Received' = Received /\ handled' = handled
  BY <1>1, StutterKeeps
<1>3. stream' = stream
  BY <1>1 DEF vars
<1>4. /\ pending' = pending /\ pipe' = pipe /\ inbox' = inbox
      /\ yielded' = yielded /\ returned' = TRUE
  BY DEF Close
<1>5. Base' = Base
  BY <1>2, <1>4 DEF Base
<1>6. InTransit'
  BY <1>3, <1>4, <1>5 DEF ClientInv, InTransit
<1>7. InStep'
  BY <1>2, <1>3, <1>4, <1>5 DEF ClientInv, InStep
<1> QED
  BY <1>2, <1>6, <1>7 DEF ClientInv

(* The client takes one event off its buffer: all of it, and it is the one *)
(* after those it has yielded.                                             *)
LEMMA SeparatorPlace ==
  ASSUME ClientInv, ~returned, Separators # {}
  PROVE  /\ 4 <= Len(inbox)
         /\ (CHOOSE i \in Separators : \A j \in Separators : i <= j) = 4
         /\ inbox[1] # NL
         /\ Len(yielded) + 1 \in DOMAIN stream.events
         /\ inbox[1].event = stream.events[Len(yielded) + 1]
<1>1. /\ Len(inbox) \in Nat /\ Len(pipe) \in Nat /\ Len(pending) \in Nat
      /\ Len(yielded) \in Nat /\ Received \in Nat /\ Base \in Nat
      /\ Received = Base + Len(inbox) + Len(pipe) + Len(pending)
      /\ stream \in Streams /\ Len(stream.events) \in Nat
      /\ Received <= Last4(stream)
  BY Lengths
<1>2. Base = 4 * Len(yielded) /\ Holds(stream, inbox, Base)
  BY DEF ClientInv, InStep, InTransit
<1>3. Base % 4 = 0
  BY <1>1, <1>2
<1>4. Separators = {i \in 2 .. Len(inbox) : inbox[i] = NL /\ inbox[i - 1] = NL}
  BY DEF Separators
<1>5. /\ Separators = {} <=> Len(inbox) < 4
      /\ Separators # {} => 4 \in Separators /\ \A j \in Separators : 4 <= j
  BY <1>1, <1>2, <1>3, <1>4, BlankLines
<1>6. 4 <= Len(inbox)
  BY <1>1, <1>5
<1>7. (CHOOSE i \in Separators : \A j \in Separators : i <= j) = 4
  <2> DEFINE at == CHOOSE i \in Separators : \A j \in Separators : i <= j
  <2>1. at \in Separators /\ \A j \in Separators : at <= j
    BY <1>5, Zenon
  <2>2. Separators \subseteq Int
    BY DEF Separators
  <2>3. at <= 4 /\ 4 <= at /\ at \in Int
    BY <1>5, <2>1, <2>2
  <2> QED
    BY <2>3
<1>8. 1 \in 1 .. Len(inbox) /\ IsAt(stream, inbox[1], Base + 1)
  BY <1>1, <1>2, <1>6 DEF Holds
<1>9. (Base + 1) % 4 = 1 /\ ((Base + 1) - 1) \div 4 = Len(yielded)
  BY <1>1, <1>2
<1>10. inbox[1] # NL /\ inbox[1].event = stream.events[Len(yielded) + 1]
  BY <1>8, <1>9 DEF IsAt, EventAt
<1>11. Len(yielded) + 1 \in 1 .. Len(stream.events)
  BY <1>1, <1>2, <1>6 DEF Last4
<1>12. DOMAIN stream.events = 1 .. Len(stream.events)
  BY <1>1, StreamFacts
<1> QED
  BY <1>6, <1>7, <1>10, <1>11, <1>12

LEMMA YieldInStep ==
  ASSUME ClientInv, Yield
  PROVE  ClientInv'
<1> DEFINE next == inbox[1].event
<1>1. StreamInv /\ UNCHANGED vars /\ ~returned /\ Separators # {}
  BY DEF Yield, ClientInv
<1>2. StreamInv' /\ Received' = Received /\ handled' = handled
  BY <1>1, StutterKeeps
<1>3. stream' = stream
  BY <1>1 DEF vars
<1>4. /\ 4 <= Len(inbox) /\ inbox[1] # NL
      /\ Len(yielded) + 1 \in DOMAIN stream.events
      /\ next = stream.events[Len(yielded) + 1]
  BY <1>1, SeparatorPlace
<1>5. (CHOOSE i \in Separators : \A j \in Separators : i <= j) = 4
  BY <1>1, SeparatorPlace
<1>6. pending' = pending /\ pipe' = pipe
  BY DEF Yield
<1>7. inbox' = SubSeq(inbox, 4 + 1, Len(inbox))
  BY <1>5 DEF Yield
<1>8. \/ returned' = TRUE /\ yielded' = yielded
      \/ returned' = returned /\ yielded' = Append(yielded, next)
  BY <1>4 DEF Yield
<1> HIDE DEF next
<1>9. /\ Len(inbox) \in Nat /\ Len(pipe) \in Nat /\ Len(pending) \in Nat
      /\ Len(yielded) \in Nat /\ Received \in Nat /\ Base \in Nat
      /\ Received = Base + Len(inbox) + Len(pipe) + Len(pending)
      /\ stream \in Streams /\ Len(stream.events) \in Nat
  BY Lengths
<1>10. /\ Base \in Int /\ 4 \in 0 .. Len(inbox) /\ Holds(stream, inbox, Base)
  BY <1>4, <1>9 DEF ClientInv, InTransit
<1>11. Holds(stream, inbox', Base + 4) /\ Len(inbox') = Len(inbox) - 4
  <2>1. stream \in Streams
    BY <1>9
  <2>2. /\ Holds(stream, SubSeq(inbox, 4 + 1, Len(inbox)), Base + 4)
        /\ Len(SubSeq(inbox, 4 + 1, Len(inbox))) = Len(inbox) - 4
    <3>1. PICK n \in 0 .. Len(inbox) : n = 4
      BY <1>10
    <3>2. /\ Holds(stream, SubSeq(inbox, n + 1, Len(inbox)), Base + n)
          /\ Len(SubSeq(inbox, n + 1, Len(inbox))) = Len(inbox) - n
      BY <1>10, <2>1, CutHolds
    <3> QED
      BY <3>1, <3>2
  <2> QED
    BY <1>7, <2>2
<1>12. Base' = Base + 4
  BY <1>2, <1>6, <1>9, <1>11 DEF Base
<1>13. /\ (Base + 4) + Len(inbox') = Base + Len(inbox) /\ Base + 4 \in Nat
  BY <1>9, <1>11
<1>14. InTransit'
  BY <1>3, <1>6, <1>11, <1>12, <1>13 DEF ClientInv, InTransit
<1>15. /\ DOMAIN stream.events = 1 .. Len(stream.events)
       /\ stream.events[Len(yielded) + 1] \in Range(stream.events)
  BY <1>4, <1>9, StreamFacts
<1>16. /\ yielded \in Seq(Range(stream.events))
       /\ Len(yielded) <= Len(stream.events)
       /\ \A i \in 1 .. Len(yielded) : yielded[i] = stream.events[i]
       /\ Base = 4 * Len(yielded)
       /\ Received - Len(pending) < 4 * (handled + 1)
  BY <1>1 DEF ClientInv, InStep, FirstEvents
<1>17. Received' - Len(pending') < 4 * (handled' + 1)
  BY <1>2, <1>6, <1>16
<1>18. CASE returned' = TRUE /\ yielded' = yielded
  <2>1. Base' = 4 * (Len(yielded') + 1)
    BY <1>9, <1>12, <1>16, <1>18
  <2>2. FirstEvents(stream', yielded')
    BY <1>3, <1>16, <1>18 DEF FirstEvents
  <2>3. InStep'
    BY <1>17, <1>18, <2>1, <2>2 DEF InStep
  <2> QED
    BY <1>2, <1>14, <2>3 DEF ClientInv
<1>19. CASE returned' = returned /\ yielded' = Append(yielded, next)
  <2>1. /\ yielded' \in Seq(Range(stream.events))
        /\ Len(yielded') = Len(yielded) + 1
        /\ \A i \in 1 .. Len(yielded) : yielded'[i] = yielded[i]
        /\ yielded'[Len(yielded) + 1] = next
    BY <1>4, <1>15, <1>16, <1>19
  <2>2. Base' = 4 * Len(yielded')
    BY <1>9, <1>12, <1>16, <2>1
  <2>3. \A i \in 1 .. Len(yielded') : yielded'[i] = stream.events[i]
    <3>1. ASSUME NEW i \in 1 .. Len(yielded) + 1
          PROVE  yielded'[i] = stream.events[i]
      <4>1. CASE i \in 1 .. Len(yielded)
        BY <1>16, <2>1, <4>1
      <4>2. CASE i = Len(yielded) + 1
        BY <1>4, <2>1, <4>2
      <4> QED
        BY <1>9, <4>1, <4>2
    <3> QED
      BY <2>1, <3>1
  <2>4. Len(yielded') <= Len(stream.events)
    BY <1>4, <1>9, <1>15, <2>1
  <2>5. FirstEvents(stream', yielded')
    BY <1>3, <2>1, <2>3, <2>4 DEF FirstEvents
  <2>6. returned' \in BOOLEAN
    BY <1>19 DEF ClientInv, InStep
  <2>7. InStep'
    BY <1>17, <2>2, <2>5, <2>6 DEF InStep
  <2> QED
    BY <1>2, <1>14, <2>7 DEF ClientInv
<1> QED
  BY <1>8, <1>18, <1>19

LEMMA ClientStep == ClientInv /\ [ClientNext]_allVars => ClientInv'
<1> SUFFICES ASSUME ClientInv, [ClientNext]_allVars PROVE ClientInv'
  OBVIOUS
<1>1. StreamInv
  BY DEF ClientInv
<1>2. CASE HandleBlock
  <2>1. StreamInv' /\ Received' = Received /\ handled' \in {handled, handled + 1}
    BY <1>1, <1>2, HandleKeeps DEF HandleBlock
  <2>2. UNCHANGED clientVars /\ stream' = stream
    BY <1>2 DEF HandleBlock, Handle
  <2> QED
    BY <2>1, <2>2, StillInStep
<1>3. CASE Finish
  <2>1. StreamInv' /\ Received' = Received /\ handled' = handled
    BY <1>1, <1>3, EndKeeps DEF Finish
  <2>2. UNCHANGED clientVars /\ stream' = stream
    BY <1>3 DEF Finish, End, Break, Commit
  <2> QED
    BY <2>1, <2>2, StillInStep
<1>4. CASE UNCHANGED allVars
  <2>1. UNCHANGED vars /\ UNCHANGED clientVars
    BY <1>4 DEF allVars
  <2>2. StreamInv' /\ Received' = Received /\ handled' = handled
    BY <1>1, <2>1, StutterKeeps
  <2>3. stream' = stream
    BY <2>1 DEF vars
  <2> QED
    BY <2>1, <2>2, <2>3, StillInStep
<1> QED
  BY <1>2, <1>3, <1>4, FeedChunkInStep, RelayInStep, ReadInStep, YieldInStep,
     CloseInStep DEF ClientNext

LEMMA ClientInvariant == ClientSpec => []ClientInv
<1>1. ClientInit => ClientInv
  BY ClientStarts
<1>2. ClientInv /\ [ClientNext]_allVars => ClientInv'
  BY ClientStep
<1> QED
  BY <1>1, <1>2, PTL DEF ClientSpec

(* With a client at its end a stream is still a stream: relaying and       *)
(* reading are no step of the accumulator, so all that was shown of it by  *)
(* itself holds of it here.                                                *)
THEOREM ClientImplements == ClientSpec => Spec
<1>1. ClientInit => Init
  BY DEF ClientInit
<1>2. [ClientNext]_allVars => [Next]_vars
  <2>1. ASSUME NEW n \in 1 .. Len(wire), FeedChunk(n) PROVE Next
    BY <2>1 DEF FeedChunk, Next
  <2>2. HandleBlock => Next
    BY DEF HandleBlock, Next
  <2>3. Finish => Next
    BY DEF Finish, Next
  <2>4. ASSUME Relay \/ Yield \/ Close \/ (\E n \in 1 .. Len(pipe) : Read(n))
        PROVE  UNCHANGED vars
    BY <2>4 DEF Relay, Yield, Close, Read
  <2>5. UNCHANGED allVars => UNCHANGED vars
    BY DEF allVars
  <2> QED
    BY <2>1, <2>2, <2>3, <2>4, <2>5 DEF ClientNext
<1> QED
  BY <1>1, <1>2, PTL DEF ClientSpec, Spec

(* The types of what is between gateway and client; in particular the      *)
(* client yields the provider's events in the provider's order, and drops, *)
(* repeats and invents none, however the bytes were cut.                   *)
THEOREM ClientTypeSafe == ClientSpec => []ClientTypeOK
<1>1. ASSUME ClientInv PROVE ClientTypeOK
  <2>1. TypeOK
    BY <1>1, InvTypes DEF ClientInv
  <2>2. /\ Len(yielded) <= Len(stream.events) /\ returned \in BOOLEAN
        /\ yielded \in Seq(Range(stream.events))
        /\ \A i \in 1 .. Len(yielded) : yielded[i] = stream.events[i]
    BY <1>1 DEF ClientInv, InStep, FirstEvents
  <2>3. \A i \in DOMAIN yielded : yielded[i] = stream.events[i]
    BY <2>2
  <2>4. Len(pending) + Len(pipe) + Len(inbox) <= 4 * Len(stream.events)
    BY <1>1, Lengths DEF Last4
  <2> QED
    BY <2>1, <2>2, <2>3, <2>4 DEF ClientTypeOK
<1> QED
  BY <1>1, ClientInvariant, PTL

(* A client has seen nothing that the accumulator has not, so nothing that *)
(* the receipt does not commit to, wherever the stream breaks.             *)
THEOREM NothingSeenUnhandled == ClientSpec => []SeenIsHandled
<1>1. ASSUME ClientInv PROVE SeenIsHandled
  <2>1. /\ Base = 4 * Len(yielded) \/ Base = 4 * (Len(yielded) + 1)
        /\ Received - Len(pending) < 4 * (handled + 1)
    BY <1>1 DEF ClientInv, InStep
  <2> QED
    BY <1>1, <2>1, Lengths DEF SeenIsHandled
<1> QED
  BY <1>1, ClientInvariant, PTL

-----------------------------------------------------------------------------
(* How a client comes to an end: at [DONE], the last event, or because     *)
(* the body was over and it had read it all.                               *)
AtDone ==
  /\ Base = 4 * (Len(yielded) + 1)
  /\ Len(yielded) + 1 = Len(stream.events)
  /\ stream.events[Len(yielded) + 1].type = "done"

AtClose ==
  /\ Base = 4 * Len(yielded)
  /\ committed # Nil /\ Len(pipe) = 0 /\ Len(inbox) < 4

AgreeInv ==
  /\ ClientInv /\ ReplayInv
  /\ committed # Nil => Len(pending) = 0
  /\ returned => AtDone \/ AtClose

LEMMA AgreeStarts == ClientInit => AgreeInv
<1> SUFFICES ASSUME ClientInit PROVE AgreeInv
  OBVIOUS
<1>1. ClientInv /\ ReplayInv
  BY ClientStarts, ReplayInit DEF ClientInit
<1>2. Len(pending) = 0 /\ ~returned
  BY DEF ClientInit
<1> QED
  BY <1>1, <1>2 DEF AgreeInv

(* A step of the gateway after which the client's side is what it was, or  *)
(* only has more on its way.                                               *)
LEMMA StillAtEnd ==
  ASSUME AgreeInv, returned, Received' = Received, UNCHANGED clientVars,
         stream' = stream, committed # Nil => committed' # Nil
  PROVE  AtDone' \/ AtClose'
<1>1. /\ pending' = pending /\ pipe' = pipe /\ inbox' = inbox
      /\ yielded' = yielded
  BY DEF clientVars
<1>2. Base' = Base
  BY <1>1 DEF Base
<1>3. CASE AtDone
  <2>1. AtDone'
    BY <1>1, <1>2, <1>3 DEF AtDone
  <2> QED
    BY <2>1
<1>4. CASE AtClose
  <2>1. AtClose'
    BY <1>1, <1>2, <1>4 DEF AtClose
  <2> QED
    BY <2>1
<1> QED
  BY <1>3, <1>4 DEF AgreeInv

LEMMA GatewayAgrees ==
  ASSUME AgreeInv, HandleBlock \/ Finish \/ UNCHANGED allVars
  PROVE  AgreeInv'
<1>1. ClientInv' /\ ReplayInv'
  <2>1. [ClientNext]_allVars /\ [Next]_vars
    BY DEF ClientNext, HandleBlock, Finish, Next, allVars
  <2> QED
    BY <2>1, ClientStep, ReplayStep DEF AgreeInv
<1>2. Received' = Received
  BY HandleKeeps, EndKeeps, StutterKeeps
     DEF AgreeInv, ReplayInv, HandleBlock, Finish, allVars
<1>3. /\ UNCHANGED clientVars /\ stream' = stream
      /\ \/ committed' = committed
         \/ pending = <<>> /\ committed = Nil
  BY DEF HandleBlock, Handle, Finish, End, Break, Running, Commit, allVars, vars
<1>4. pending' = pending /\ returned' = returned
  BY <1>3 DEF clientVars
<1>5. committed' # Nil => Len(pending') = 0
  BY <1>3, <1>4 DEF AgreeInv
<1>6. returned' => AtDone' \/ AtClose'
  BY <1>2, <1>3, <1>4, StillAtEnd
<1> QED
  BY <1>1, <1>5, <1>6 DEF AgreeInv

(* A client at [DONE] has had the last byte: nothing is left to feed, and  *)
(* at its end nothing is left to relay.                                    *)
LEMMA NothingAfterDone ==
  ASSUME ClientInv, AtDone
  PROVE  /\ Len(wire) = 0 /\ Len(pending) = 0 /\ Len(pipe) = 0 /\ Len(inbox) = 0
         /\ Received = Last4(stream)
<1>1. /\ Len(inbox) \in Nat /\ Len(pipe) \in Nat /\ Len(pending) \in Nat
      /\ Len(yielded) \in Nat /\ Received \in Nat /\ Len(wire) \in Nat
      /\ Received = Base + Len(inbox) + Len(pipe) + Len(pending)
      /\ Len(stream.events) \in Nat /\ Received <= Last4(stream)
  BY Lengths
<1>2. Received = Last4(stream) - Len(wire) /\ Last4(stream) \in Nat
  BY <1>1 DEF Received, Last4
<1>3. Base = Last4(stream)
  BY DEF AtDone, Last4
<1> QED
  BY <1>1, <1>2, <1>3

LEMMA FeedAgrees ==
  ASSUME AgreeInv, NEW n \in 1 .. Len(wire), FeedChunk(n)
  PROVE  AgreeInv'
<1>1. ClientInv' /\ ReplayInv'
  <2>1. [Next]_vars
    BY DEF FeedChunk, Next
  <2> QED
    BY <2>1, FeedChunkInStep, ReplayStep DEF AgreeInv
<1>2. committed = Nil /\ committed' = Nil /\ returned' = returned
  BY DEF FeedChunk, Feed, Running
<1>3. ~returned
  <2>1. ~AtClose
    BY <1>2 DEF AtClose
  <2>2. ASSUME AtDone PROVE FALSE
    <3>1. Len(wire) = 0
      BY <2>2, NothingAfterDone DEF AgreeInv
    <3> QED
      BY <3>1
  <2> QED
    BY <2>1, <2>2 DEF AgreeInv
<1> QED
  BY <1>1, <1>2, <1>3 DEF AgreeInv

LEMMA RelayAgrees ==
  ASSUME AgreeInv, Relay
  PROVE  AgreeInv'
<1>1. ClientInv' /\ ReplayInv'
  <2>1. [Next]_vars
    BY DEF Relay
  <2> QED
    BY <2>1, RelayInStep, ReplayStep DEF AgreeInv
<1>2. pending # <<>> /\ pending' = <<>> /\ returned' = returned
  BY DEF Relay
<1>3. Len(pending) # 0
  <2>1. pending \in Seq(Bytes(stream))
    BY DEF AgreeInv, ClientInv, InTransit, Holds
  <2> QED
    BY <1>2, <2>1
<1>4. ~returned
  <2>1. ~AtClose
    BY <1>3 DEF AtClose, AgreeInv
  <2>2. ASSUME AtDone PROVE FALSE
    <3>1. Len(pending) = 0
      BY <2>2, NothingAfterDone DEF AgreeInv
    <3> QED
      BY <1>3, <3>1
  <2> QED
    BY <2>1, <2>2 DEF AgreeInv
<1> QED
  BY <1>1, <1>2, <1>4 DEF AgreeInv

LEMMA ReadAgrees ==
  ASSUME AgreeInv, NEW n \in 1 .. Len(pipe), Read(n)
  PROVE  AgreeInv'
<1>1. ClientInv' /\ ReplayInv'
  <2>1. [Next]_vars
    BY DEF Read
  <2> QED
    BY <2>1, ReadInStep, ReplayStep DEF AgreeInv
<1>2. /\ ~returned /\ returned' = returned /\ pending' = pending
      /\ committed' = committed
  BY DEF Read, vars
<1> QED
  BY <1>1, <1>2 DEF AgreeInv

(* Where the client's first blank line can be.                             *)
LEMMA SeparatorsWhere ==
  ASSUME ClientInv, ~returned
  PROVE  /\ Base = 4 * Len(yielded)
         /\ Separators = {} <=> Len(inbox) < 4
<1>1. Base = 4 * Len(yielded) /\ Holds(stream, inbox, Base)
  BY DEF ClientInv, InStep, InTransit
<1>2. Base % 4 = 0 /\ Base \in Nat /\ stream \in Streams
  BY <1>1, Lengths
<1>3. Separators = {i \in 2 .. Len(inbox) : inbox[i] = NL /\ inbox[i - 1] = NL}
  BY DEF Separators
<1> QED
  BY <1>1, <1>2, <1>3, BlankLines

LEMMA CloseAgrees ==
  ASSUME AgreeInv, Close
  PROVE  AgreeInv'
<1>1. ClientInv' /\ ReplayInv'
  <2>1. [Next]_vars
    BY DEF Close
  <2> QED
    BY <2>1, CloseInStep, ReplayStep DEF AgreeInv
<1>2. /\ ~returned /\ Separators = {} /\ pipe = <<>> /\ committed # Nil
      /\ UNCHANGED vars /\ pending' = pending /\ pipe' = pipe
      /\ inbox' = inbox /\ yielded' = yielded
  BY DEF Close
<1>3. Base = 4 * Len(yielded) /\ Len(inbox) < 4
  BY <1>2, SeparatorsWhere DEF AgreeInv
<1>4. Received' = Received /\ committed' = committed
  BY <1>2, StutterKeeps DEF AgreeInv, ReplayInv, vars
<1>5. Base' = Base
  BY <1>2, <1>4 DEF Base
<1>6. AtClose'
  BY <1>2, <1>3, <1>4, <1>5 DEF AtClose
<1> QED
  BY <1>1, <1>2, <1>4, <1>6 DEF AgreeInv

LEMMA YieldAgrees ==
  ASSUME AgreeInv, Yield
  PROVE  AgreeInv'
<1>1. ClientInv' /\ ReplayInv' /\ ClientInv
  <2>1. [Next]_vars
    BY DEF Yield
  <2> QED
    BY <2>1, YieldInStep, ReplayStep DEF AgreeInv
<1>2. /\ ~returned /\ Separators # {} /\ UNCHANGED vars
      /\ pending' = pending /\ pipe' = pipe
  BY DEF Yield
<1>3. committed' = committed /\ stream' = stream
  BY <1>2 DEF vars
<1>4. /\ (CHOOSE i \in Separators : \A j \in Separators : i <= j) = 4
      /\ inbox[1] # NL /\ Len(yielded) + 1 \in DOMAIN stream.events
      /\ inbox[1].event = stream.events[Len(yielded) + 1]
      /\ 4 <= Len(inbox)
  BY <1>1, <1>2, SeparatorPlace
<1>5. \/ returned' = returned
      \/ /\ returned' = TRUE /\ yielded' = yielded
         /\ stream.events[Len(yielded) + 1].type = "done"
  BY <1>4 DEF Yield
<1>6. CASE returned' = returned
  BY <1>1, <1>2, <1>3, <1>6 DEF AgreeInv
<1>7. CASE /\ returned' = TRUE /\ yielded' = yielded
           /\ stream.events[Len(yielded) + 1].type = "done"
  <2>1. stream \in Streams
    BY <1>1, Lengths
  <2>2. Len(yielded) + 1 = Len(stream.events)
    BY <1>4, <1>7, <2>1, DoneIsLast
  <2>3. inbox' = SubSeq(inbox, 4 + 1, Len(inbox))
    BY <1>4 DEF Yield
  <2>4. Len(inbox') = Len(inbox) - 4
    <3>1. inbox \in Seq(Bytes(stream))
      BY <1>1 DEF ClientInv, InTransit, Holds
    <3>2. PICK k \in 0 .. Len(inbox) : k = 4
      BY <1>4, <3>1
    <3>3. Len(SubSeq(inbox, k + 1, Len(inbox))) = Len(inbox) - k
      BY <3>1, CutSeq
    <3> QED
      BY <2>3, <3>2, <3>3
  <2>5. Received' = Received
    BY <1>2, StutterKeeps DEF AgreeInv, ReplayInv
  <2>6. Base' = Base + 4 /\ Base = 4 * Len(yielded) /\ Len(yielded) \in Nat
    <3>1. Len(pending') = Len(pending) /\ Len(pipe') = Len(pipe)
      BY <1>2
    <3>2. Base = 4 * Len(yielded)
      BY <1>1, <1>2, SeparatorsWhere
    <3>3. /\ Len(inbox) \in Nat /\ Len(pipe) \in Nat /\ Len(pending) \in Nat
          /\ Len(yielded) \in Nat /\ Received \in Nat
      BY <1>1, Lengths
    <3>4. /\ Base = Received - Len(pending) - Len(pipe) - Len(inbox)
          /\ Base' = Received - Len(pending) - Len(pipe) - (Len(inbox) - 4)
      BY <2>4, <2>5, <3>1 DEF Base
    <3>5. Base' = Base + 4
      <4> HIDE DEF Base
      <4> QED
        BY <3>3, <3>4
    <3> QED
      BY <3>2, <3>3, <3>5
  <2>7. Base' = 4 * (Len(yielded') + 1)
    BY <1>7, <2>6
  <2>8. AtDone'
    BY <1>3, <1>7, <2>2, <2>7 DEF AtDone
  <2> QED
    BY <1>1, <1>2, <1>3, <2>8 DEF AgreeInv
<1> QED
  BY <1>5, <1>6, <1>7

LEMMA AgreeStep == AgreeInv /\ [ClientNext]_allVars => AgreeInv'
  BY GatewayAgrees, FeedAgrees, RelayAgrees, ReadAgrees, YieldAgrees, CloseAgrees
     DEF ClientNext

(* What a client can put together of what it has yielded.                  *)
LEMMA ReplayIs == Replay = ReplayOf(stream, yielded)[Len(yielded)]
  BY DEF Replay, ReplayOf, IsReplay, Blank, BlankOf, Apply, ApplyTo

LEMMA DoneAddsNothing ==
  ASSUME NEW st, NEW a, NEW e, e.type = "done"
  PROVE  ApplyTo(st, a, e) = a
  BY DEF ApplyTo, ApplyEvent, ApplyChunk

LEMMA EventsOf ==
  ASSUME NEW k \in Nat, NEW n \in Nat, n < 4
  PROVE  (4 * k + n + 1) \div 4 = IF (4 * k + n) % 4 = 3 THEN k + 1 ELSE k
<1>1. (4 * k + n) % 4 = n
  OBVIOUS
<1>2. CASE n = 3
  BY <1>1, <1>2
<1>3. CASE n # 3
  BY <1>1, <1>3
<1> QED
  BY <1>2, <1>3

(* Both at their end: what the client has yielded is what the accumulator  *)
(* handled, [DONE] aside and the one event that an OpenAI stream may have  *)
(* in it from its first newline on.                                        *)
LEMMA EndCounts ==
  ASSUME AgreeInv, committed # Nil, returned
  PROVE  \/ AtDone /\ handled = Len(yielded) + 1 /\ ~BrokeInBlankLine
         \/ AtClose /\ handled = Len(yielded) /\ ~BrokeInBlankLine
         \/ AtClose /\ handled = Len(yielded) + 1 /\ BrokeInBlankLine
<1>1. ClientInv /\ StreamInv /\ Cuts = {} /\ Len(pending) = 0
  BY DEF AgreeInv, ClientInv, ReplayInv, Settled
<1>2. /\ Len(inbox) \in Nat /\ Len(pipe) \in Nat /\ Len(pending) \in Nat
      /\ Len(yielded) \in Nat /\ Received \in Nat /\ handled \in Nat
      /\ Received = Base + Len(inbox) + Len(pipe) + Len(pending)
      /\ stream \in Streams /\ Len(stream.events) \in Nat
  BY <1>1, Lengths
<1>3. IF stream.surface = "anthropic" THEN handled = Received \div 4
      ELSE handled = (Received + 1) \div 4
  BY <1>1, InvPartial DEF BufferHoldsPartial
<1>4. stream.surface \in {"anthropic", "openai"}
  BY <1>2, StreamFacts
<1>5. BrokeInBlankLine <=> stream.surface # "anthropic" /\ Received % 4 = 3
  BY <1>4 DEF BrokeInBlankLine
<1>6. CASE AtDone
  <2>1. Received = 4 * (Len(yielded) + 1)
    <3>1. Received = Last4(stream)
      BY <1>1, <1>6, NothingAfterDone
    <3> QED
      BY <1>6, <3>1 DEF AtDone, Last4
  <2>2. handled = Len(yielded) + 1 /\ Received % 4 # 3
    BY <1>2, <1>3, <2>1
  <2> QED
    BY <1>5, <1>6, <2>2
<1>7. CASE AtClose
  <2>1. Received = 4 * Len(yielded) + Len(inbox) /\ Len(inbox) < 4
    BY <1>1, <1>2, <1>7 DEF AtClose
  <2>2. CASE stream.surface = "anthropic"
    BY <1>2, <1>3, <1>5, <1>7, <2>1, <2>2
  <2>3. CASE stream.surface # "anthropic" /\ Received % 4 = 3
    <3>1. handled = Len(yielded) + 1
      <4>1. handled = (Received + 1) \div 4
        BY <1>3, <2>3
      <4>2. (4 * Len(yielded) + Len(inbox) + 1) \div 4 =
              IF (4 * Len(yielded) + Len(inbox)) % 4 = 3 THEN Len(yielded) + 1
              ELSE Len(yielded)
        BY <1>2, <2>1, EventsOf
      <4> QED
        BY <2>1, <2>3, <4>1, <4>2
    <3> QED
      BY <1>5, <1>7, <2>3, <3>1
  <2>4. CASE stream.surface # "anthropic" /\ Received % 4 # 3
    <3>1. handled = Len(yielded)
      <4>1. handled = (Received + 1) \div 4
        BY <1>3, <2>4
      <4> QED
        BY <1>2, <2>1, <2>4, <4>1, EventsOf
    <3> QED
      BY <1>5, <1>7, <2>4, <3>1
  <2> QED
    BY <2>2, <2>3, <2>4
<1> QED
  BY <1>6, <1>7 DEF AgreeInv

LEMMA InvAgrees == AgreeInv => ClientAgrees
<1> SUFFICES ASSUME AgreeInv, committed # Nil, returned, ~cut
             PROVE  IF BrokeInBlankLine
                    THEN acc = Apply(Replay, stream.events[handled])
                    ELSE acc = Replay
  BY DEF ClientAgrees
<1> DEFINE all == ReplayOf(stream, stream.events)
           k   == Len(yielded)
<1>1. ClientInv /\ StreamInv /\ HoldsReplay
  BY DEF AgreeInv, ReplayInv
<1>2. /\ yielded \in Seq(Range(stream.events)) /\ k \in Nat
      /\ k <= Len(stream.events)
      /\ \A i \in 1 .. k : yielded[i] = stream.events[i]
  BY <1>1, Lengths DEF ClientInv, InStep, FirstEvents
<1>3. /\ stream.events \in Seq(Range(stream.events))
      /\ DOMAIN stream.events = 1 .. Len(stream.events)
      /\ Len(stream.events) \in Nat
  BY <1>1, StreamFacts DEF StreamInv, Places
<1>4. Replay = all[k]
  <2>1. \A n \in 0 .. k : ReplayOf(stream, yielded)[n] = all[n]
    BY <1>2, <1>3, ReplayOfFirst
  <2>2. k \in 0 .. k
    BY <1>2
  <2> HIDE DEF all
  <2> QED
    BY <2>1, <2>2, ReplayIs
<1>5. acc = all[handled]
  BY <1>1 DEF HoldsReplay
<1>6. \A n \in 1 .. Len(stream.events) :
        all[n] = ApplyTo(stream, all[n - 1], stream.events[n])
  BY <1>3, ReplaySteps
<1>7. \/ AtDone /\ handled = k + 1 /\ ~BrokeInBlankLine
      \/ AtClose /\ handled = k /\ ~BrokeInBlankLine
      \/ AtClose /\ handled = k + 1 /\ BrokeInBlankLine
  BY EndCounts
<1>8. handled <= Len(stream.events)
  BY <1>1, InvTypes DEF TypeOK
<1> HIDE DEF all, k
<1>9. CASE AtClose /\ handled = k /\ ~BrokeInBlankLine
  BY <1>4, <1>5, <1>9
<1>10. ASSUME handled = k + 1
       PROVE  acc = ApplyTo(stream, Replay, stream.events[handled])
  <2>1. k + 1 \in 1 .. Len(stream.events) /\ (k + 1) - 1 = k
    BY <1>2, <1>3, <1>8, <1>10
  <2> QED
    BY <1>4, <1>5, <1>6, <1>10, <2>1
<1>11. CASE AtClose /\ handled = k + 1 /\ BrokeInBlankLine
  BY <1>10, <1>11 DEF Apply, ApplyTo
<1>12. CASE AtDone /\ handled = k + 1 /\ ~BrokeInBlankLine
  <2>1. stream.events[handled].type = "done"
    BY <1>12 DEF AtDone, k
  <2>2. acc = Replay
    BY <1>10, <1>12, <2>1, DoneAddsNothing
  <2> QED
    BY <1>12, <2>2
<1> QED
  BY <1>7, <1>9, <1>11, <1>12

(* Until a character is cut, the accumulator holds exactly what the events *)
(* it has handled come to, each put in once and in the provider's order,   *)
(* however the bytes were cut into chunks.                                 *)
THEOREM AccumulatorReplays == Spec => []HoldsReplay
<1>1. Init => ReplayInv
  BY ReplayInit
<1>2. ReplayInv /\ [Next]_vars => ReplayInv'
  BY ReplayStep
<1>3. ReplayInv => HoldsReplay
  BY DEF ReplayInv
<1> QED
  BY <1>1, <1>2, <1>3, PTL DEF Spec

(* What a receipt commits to is a function of the stream and of how many   *)
(* of its events were handled, all of them if it was received to its end;  *)
(* how the provider framed the answer cannot be told from it, as long as   *)
(* no character was cut.                                                   *)
CommitsToEvents ==
  committed # Nil /\ ~cut =>
    /\ committed.response =
         ResponseOf(stream, ReplayOf(stream, stream.events)[handled])
    /\ wire = <<>> => handled = Len(stream.events)

LEMMA InvCommits == ReplayInv => CommitsToEvents
<1> SUFFICES ASSUME ReplayInv, committed # Nil, ~cut
             PROVE  /\ committed.response =
                         ResponseOf(stream, ReplayOf(stream, stream.events)[handled])
                    /\ wire = <<>> => handled = Len(stream.events)
  BY DEF CommitsToEvents
<1>1. /\ Cuts = {} /\ committed.response = ResponseOf(stream, acc)
      /\ acc = ReplayOf(stream, stream.events)[handled]
  BY DEF ReplayInv, Settled, HoldsReplay
<1>2. ASSUME wire = <<>> PROVE handled = Len(stream.events)
  <2>1. Len(stream.events) \in Nat
    BY StreamFacts DEF ReplayInv, StreamInv, Places
  <2>2. Received = 4 * Len(stream.events)
    BY <1>2, <2>1 DEF Received
  <2>3. \/ handled = Received \div 4
        \/ handled = (Received + 1) \div 4
    BY <1>1, InvPartial DEF ReplayInv, BufferHoldsPartial
  <2>4. \A n \in Nat : (4 * n) \div 4 = n /\ (4 * n + 1) \div 4 = n
    OBVIOUS
  <2> QED
    BY <2>1, <2>2, <2>3, <2>4
<1> QED
  BY <1>1, <1>2

THEOREM FramingCannotBeTold == Spec => []CommitsToEvents
<1>1. Init => ReplayInv
  BY ReplayInit
<1>2. ReplayInv /\ [Next]_vars => ReplayInv'
  BY ReplayStep
<1> QED
  BY <1>1, <1>2, InvCommits, PTL DEF Spec

(* When the receipt is signed and the client has returned, what the client *)
(* can put together of its events is the response the receipt commits to,  *)
(* for every stream and every way of cutting it on either side of the      *)
(* gateway.                                                                *)
THEOREM ReceiptIsWhatClientGot == ClientSpec => []ClientAgrees
<1>1. ClientInit => AgreeInv
  BY AgreeStarts
<1>2. AgreeInv /\ [ClientNext]_allVars => AgreeInv'
  BY AgreeStep
<1>3. AgreeInv => ClientAgrees
  BY InvAgrees
<1> QED
  BY <1>1, <1>2, <1>3, PTL DEF ClientSpec

-----------------------------------------------------------------------------
(* Counting places: how many of them come no later than h.                 *)
LEMMA RankSteps ==
  ASSUME NEW places \in SUBSET Nat, IsFiniteSet(places), NEW h \in Nat
  PROVE  /\ Rank(places, h) \in Nat /\ Rank(places, h) <= Cardinality(places)
         /\ Cardinality(places) \in Nat
         /\ Rank(places, h + 1) =
              IF h + 1 \in places THEN Rank(places, h) + 1 ELSE Rank(places, h)
         /\ (\A p \in places : p <= h) => Rank(places, h) = Cardinality(places)
         /\ (\A p \in places : p > h) => Rank(places, h) = 0
<1> DEFINE T == {q \in places : q <= h}
           U == {q \in places : q <= h + 1}
<1>1. IsFiniteSet(T) /\ Cardinality(T) <= Cardinality(places)
  BY FS_Subset
<1>2. Cardinality(T) \in Nat /\ Cardinality(places) \in Nat
  BY <1>1, FS_CardinalityType
<1>a. \A q \in places : q \in Nat
  OBVIOUS
<1>b. /\ \A q : q \in T <=> q \in places /\ q <= h
      /\ \A q : q \in U <=> q \in places /\ q <= h + 1
  OBVIOUS
<1>c. \A q \in Nat : q <= h + 1 <=> q <= h \/ q = h + 1
  OBVIOUS
<1>d. ~(h + 1 <= h) /\ h + 1 <= h + 1
  OBVIOUS
<1>e. Rank(places, h) = Cardinality(T) /\ Rank(places, h + 1) = Cardinality(U)
  BY DEF Rank
<1> HIDE DEF T, U
<1>3. ASSUME h + 1 \in places PROVE Rank(places, h + 1) = Rank(places, h) + 1
  <2>1. \A q : q \in U <=> q \in T \/ q = h + 1
    BY <1>3, <1>a, <1>b, <1>c, <1>d
  <2>2. U = T \cup {h + 1} /\ h + 1 \notin T
    BY <1>b, <1>d, <2>1
  <2> QED
    BY <1>1, <1>3, <1>e, <2>2, FS_AddElement
<1>4. ASSUME h + 1 \notin places PROVE Rank(places, h + 1) = Rank(places, h)
  <2>1. \A q : q \in U <=> q \in T
    BY <1>4, <1>a, <1>b, <1>c
  <2>2. U = T
    BY <2>1
  <2> QED
    BY <1>4, <1>e, <2>2
<1>5. (\A p \in places : p <= h) => T = places
  BY <1>b
<1>6. (\A p \in places : p > h) => T = {}
  <2>1. \A q \in Nat : q > h => ~(q <= h)
    OBVIOUS
  <2> QED
    BY <1>a, <1>b, <2>1
<1>7. Cardinality({}) = 0
  BY FS_EmptySet
<1>9. /\ (\A p \in places : p <= h) => Rank(places, h) = Cardinality(places)
      /\ (\A p \in places : p > h) => Rank(places, h) = 0
  BY <1>5, <1>6, <1>7, <1>e
<1>10. Rank(places, h + 1) =
         IF h + 1 \in places THEN Rank(places, h) + 1 ELSE Rank(places, h)
  BY <1>3, <1>4
<1> QED
  BY <1>1, <1>2, <1>e, <1>9, <1>10

(* A text or an input that has had its pieces up to the place h.           *)
Grown(body, whole, head, places, h) ==
  body = SubSeq(whole, 1, Len(head) + Rank(places, h))

LEMMA JoinLengths ==
  ASSUME NEW S, NEW whole \in Seq(S), NEW head, NEW pieces,
         NEW places \in SUBSET Nat, IsFiniteSet(places), DOMAIN pieces = places,
         Joins(whole, head, pieces), NEW h \in Nat
  PROVE  /\ head \in Seq(S) /\ Len(head) \in Nat /\ Len(whole) \in Nat
         /\ head = SubSeq(whole, 1, Len(head))
         /\ Rank(places, h) \in Nat
         /\ Len(head) + Rank(places, h) <= Len(whole)
<1>1. PICK n \in 0 .. Len(whole) : head = SubSeq(whole, 1, n)
  BY DEF Joins
<1>2. head \in Seq(S) /\ Len(head) = n /\ Len(whole) \in Nat
  BY <1>1, CutSeq
<1>3. /\ Rank(places, h) \in Nat
      /\ Rank(places, h) <= Cardinality(places)
      /\ Cardinality(places) \in Nat
  BY RankSteps
<1>4. Len(whole) = Len(head) + Cardinality(places)
  BY DEF Joins
<1> QED
  BY <1>1, <1>2, <1>3, <1>4

LEMMA AddPiece ==
  ASSUME NEW S, NEW whole \in Seq(S), NEW m \in Nat, m + 1 <= Len(whole)
  PROVE  Append(SubSeq(whole, 1, m), whole[m + 1]) = SubSeq(whole, 1, m + 1)
  OBVIOUS

(* The next event carries a piece of it, or none.                          *)
LEMMA GrownSteps ==
  ASSUME NEW S, NEW whole \in Seq(S), NEW head, NEW pieces,
         NEW places \in SUBSET Nat, IsFiniteSet(places), DOMAIN pieces = places,
         Joins(whole, head, pieces), NEW h \in Nat, NEW body,
         Grown(body, whole, head, places, h)
  PROVE  IF h + 1 \in places
         THEN Grown(Append(body, pieces[h + 1]), whole, head, places, h + 1)
         ELSE Grown(body, whole, head, places, h + 1)
<1> DEFINE m == Len(head) + Rank(places, h)
<1>1. /\ Len(head) \in Nat /\ Rank(places, h) \in Nat
      /\ Len(head) + Rank(places, h + 1) <= Len(whole)
  BY JoinLengths
<1>2. Rank(places, h + 1) =
        IF h + 1 \in places THEN Rank(places, h) + 1
        ELSE Rank(places, h)
  BY RankSteps
<1>3. CASE h + 1 \in places
  <2>1. /\ Len(head) + Rank(places, h + 1) = m + 1
        /\ m \in Nat /\ m + 1 <= Len(whole)
    BY <1>1, <1>2, <1>3
  <2>2. whole[m + 1] = pieces[h + 1]
    BY <1>3, <2>1 DEF Joins
  <2>3. body = SubSeq(whole, 1, m)
    BY DEF Grown
  <2> HIDE DEF m
  <2>4. Append(body, pieces[h + 1]) = SubSeq(whole, 1, m + 1)
    BY <2>1, <2>2, <2>3, AddPiece
  <2> QED
    BY <1>3, <2>1, <2>4 DEF Grown
<1>4. CASE h + 1 \notin places
  BY <1>2, <1>4 DEF Grown
<1> QED
  BY <1>3, <1>4

LEMMA GrownStarts ==
  ASSUME NEW S, NEW whole \in Seq(S), NEW head, NEW pieces,
         NEW places \in SUBSET Nat, IsFiniteSet(places), DOMAIN pieces = places,
         Joins(whole, head, pieces), NEW h \in Nat,
         \A p \in places : p > h
  PROVE  Grown(head, whole, head, places, h)
<1>1. Rank(places, h) = 0
  BY RankSteps
<1>2. Len(head) \in Nat /\ head = SubSeq(whole, 1, Len(head))
  BY JoinLengths
<1> QED
  BY <1>1, <1>2 DEF Grown

LEMMA GrownEnds ==
  ASSUME NEW S, NEW whole \in Seq(S), NEW head, NEW pieces,
         NEW places \in SUBSET Nat, IsFiniteSet(places), DOMAIN pieces = places,
         Joins(whole, head, pieces), NEW h \in Nat, NEW body,
         Grown(body, whole, head, places, h),
         \A p \in places : p <= h
  PROVE  body = whole
<1>1. Rank(places, h) = Cardinality(places)
  BY RankSteps
<1>2. Len(whole) = Len(head) + Cardinality(places)
  BY DEF Joins
<1>3. SubSeq(whole, 1, Len(whole)) = whole
  OBVIOUS
<1> QED
  BY <1>1, <1>2, <1>3 DEF Grown

LEMMA GrownCut ==
  ASSUME NEW S, NEW whole \in Seq(S), NEW head, NEW pieces,
         NEW places \in SUBSET Nat, IsFiniteSet(places), DOMAIN pieces = places,
         Joins(whole, head, pieces), NEW h \in Nat, NEW body,
         Grown(body, whole, head, places, h)
  PROVE  /\ body \in Seq(S) /\ Len(body) <= Len(whole)
         /\ body = SubSeq(whole, 1, Len(body)) /\ IsPrefix(body, whole)
<1> DEFINE m == Len(head) + Rank(places, h)
<1>1. m \in 0 .. Len(whole)
  <2>1. /\ Len(head) \in Nat /\ Len(whole) \in Nat /\ Rank(places, h) \in Nat
        /\ Len(head) + Rank(places, h) <= Len(whole)
    BY JoinLengths
  <2> QED
    BY <2>1
<1>2. body = SubSeq(whole, 1, m)
  BY DEF Grown
<1> HIDE DEF m
<1>3. body \in Seq(S) /\ Len(body) = m /\ Len(body) <= Len(whole)
  BY <1>1, <1>2, CutSeq
<1>4. body = SubSeq(body, 1, Len(body))
  BY <1>3
<1> QED
  BY <1>2, <1>3, <1>4 DEF IsPrefix

-----------------------------------------------------------------------------
(* A stream and the answer it frames.                                      *)
LEMMA FramedFacts ==
  ASSUME NEW st \in Streams, st.response # Nil
  PROVE  /\ st.response.model # Nil /\ st.response.stop # Nil
         /\ st.response.content \in Seq(Range(st.response.content))
         /\ \A i \in DOMAIN st.response.content : IsBlock(st.response.content[i])
         /\ st.response.usage \in [Counters(st.surface) -> Nat]
         /\ Frames(st.surface, st.events, st.response)
  BY AnswersAreFramed

LEMMA PlacesFinite ==
  ASSUME NEW st \in Streams, NEW places \in SUBSET DOMAIN st.events
  PROVE  places \in SUBSET Nat /\ IsFiniteSet(places)
<1>1. DOMAIN st.events = 1 .. Len(st.events) /\ Len(st.events) \in Nat
  BY StreamFacts
<1>2. IsFiniteSet(1 .. Len(st.events))
  BY <1>1, FS_Interval
<1>3. IsFiniteSet(places)
  BY <1>1, <1>2, FS_Subset
<1> QED
  BY <1>1, <1>3

LEMMA BlockFacts ==
  ASSUME NEW block, IsBlock(block)
  PROVE  /\ block.name \in Seq(Range(block.name))
         /\ block.body \in Seq(Range(block.body))
         /\ block.kind \in {"text", "tool_use", "opaque"}
  BY DEF IsBlock

(* Something was said by the place h.                                      *)
IsHeard(places, h) == \E p \in places : p <= h

LEMMA HeardSteps ==
  ASSUME NEW places \in SUBSET Nat, NEW h \in Nat
  PROVE  IsHeard(places, h + 1) <=> IsHeard(places, h) \/ h + 1 \in places
<1>1. \A p \in Nat : p <= h + 1 <=> p <= h \/ p = h + 1
  OBVIOUS
<1> QED
  BY <1>1 DEF IsHeard

(* A count as it was last reported by the place h.                         *)
Latest(reports, h, count) ==
  \/ ~IsHeard(DOMAIN reports, h) /\ count = 0
  \/ \E p \in DOMAIN reports :
       /\ p <= h /\ count = reports[p]
       /\ \A q \in DOMAIN reports : q <= h => q <= p

LEMMA LatestSteps ==
  ASSUME NEW reports, DOMAIN reports \in SUBSET Nat, NEW h \in Nat, NEW count,
         Latest(reports, h, count)
  PROVE  IF h + 1 \in DOMAIN reports THEN Latest(reports, h + 1, reports[h + 1])
         ELSE Latest(reports, h + 1, count)
<1>1. \A p \in Nat : p <= h + 1 <=> p <= h \/ p = h + 1
  OBVIOUS
<1>2. CASE h + 1 \in DOMAIN reports
  <2>1. /\ h + 1 <= h + 1
        /\ \A q \in DOMAIN reports : q <= h + 1 => q <= h + 1
    OBVIOUS
  <2> QED
    BY <1>2, <2>1 DEF Latest
<1>3. CASE h + 1 \notin DOMAIN reports
  <2>1. \A q \in DOMAIN reports : q <= h + 1 <=> q <= h
    BY <1>1, <1>3
  <2> QED
    BY <1>3, <2>1 DEF Latest, IsHeard
<1> QED
  BY <1>2, <1>3

LEMMA LatestBounded ==
  ASSUME NEW reports, NEW total \in Nat, ComesTo(reports, total), NEW h, NEW count,
         Latest(reports, h, count)
  PROVE  count <= total
<1>1. 0 <= total
  OBVIOUS
<1> QED
  BY <1>1 DEF Latest, ComesTo

LEMMA LatestEnds ==
  ASSUME NEW reports, NEW total, ComesTo(reports, total), NEW h, NEW count,
         Latest(reports, h, count), \A p \in DOMAIN reports : p <= h
  PROVE  count = total
<1>1. CASE ~IsHeard(DOMAIN reports, h) /\ count = 0
  <2>1. DOMAIN reports = {}
    BY <1>1 DEF IsHeard
  <2> QED
    BY <1>1, <2>1 DEF ComesTo
<1>2. ASSUME NEW p \in DOMAIN reports, count = reports[p],
             \A q \in DOMAIN reports : q <= h => q <= p
      PROVE  count = total
  BY <1>2 DEF ComesTo
<1> QED
  BY <1>1, <1>2 DEF Latest

-----------------------------------------------------------------------------
(* Anthropic.  A block that was started at the place p, by the place h.    *)
BlockPart(events, h, p, block, b) ==
  /\ b = [kind |-> block.kind, name |-> block.name, body |-> b.body]
  /\ block.kind = "text" =>
       Grown(b.body, block.body, events[p].body,
             DeltasOf(events, events[p].index, "text_delta"), h)
  /\ block.kind = "tool_use" =>
       Grown(b.body, block.body, <<>>,
             DeltasOf(events, events[p].index, "input_json_delta"), h)
  /\ block.kind = "opaque" => b.body = events[p].body

AnthropicPart(st, a, h) ==
  LET starts == PlacesOf(st.events, "content_block_start")
  IN  /\ a = [model |-> a.model, text |-> <<>>, blocks |-> a.blocks,
              stop |-> a.stop, usage |-> a.usage]
      /\ a.model = IF IsHeard(PlacesOf(st.events, "message_start"), h)
                   THEN st.response.model ELSE Nil
      /\ a.stop = IF IsHeard(PlacesOf(st.events, "message_delta"), h)
                  THEN st.response.stop ELSE Nil
      /\ DOMAIN a.usage = Counters("anthropic")
      /\ \A f \in Counters("anthropic") :
           Latest(UsageReports(st.events, f), h, a.usage[f])
      /\ DOMAIN a.blocks = {st.events[p].index : p \in {q \in starts : q <= h}}
      /\ \A p \in starts : p <= h =>
           BlockPart(st.events, h, p,
                     st.response.content[st.events[p].index + 1],
                     a.blocks[st.events[p].index])

LEMMA DeltaPlaces ==
  ASSUME NEW st \in Streams, NEW i, NEW kind
  PROVE  /\ DeltasOf(st.events, i, kind) \in SUBSET Nat
         /\ IsFiniteSet(DeltasOf(st.events, i, kind))
         /\ DOMAIN Pieces(st.events, DeltasOf(st.events, i, kind)) =
              DeltasOf(st.events, i, kind)
<1>1. DeltasOf(st.events, i, kind) \in SUBSET DOMAIN st.events
  BY DEF DeltasOf, Deltas, PlacesOf
<1> QED
  BY <1>1, PlacesFinite DEF Pieces

LEMMA BlockJoins ==
  ASSUME NEW st \in Streams, st.response # Nil, st.surface = "anthropic",
         NEW p \in PlacesOf(st.events, "content_block_start")
  PROVE  LET block == st.response.content[st.events[p].index + 1]
         IN  /\ IsBlock(block) /\ FramesBlock(st.events, p, block)
             /\ st.events[p].index + 1 \in DOMAIN st.response.content
             /\ st.events[p].index \in Nat
<1>1. AnthropicFrames(st.events, st.response)
  BY FramedFacts DEF Frames
<1>2. st.events[p].index + 1 \in DOMAIN st.response.content
  BY <1>1 DEF AnthropicFrames
<1> QED
  BY <1>1, <1>2, FramedFacts DEF AnthropicFrames

LEMMA BlockStarts ==
  ASSUME NEW st \in Streams, st.response # Nil, st.surface = "anthropic",
         NEW p \in PlacesOf(st.events, "content_block_start"), p \in Nat
  PROVE  BlockPart(st.events, p, p, st.response.content[st.events[p].index + 1],
                   AccBlock(st.events[p]))
<1> DEFINE e == st.events[p]
           block == st.response.content[e.index + 1]
<1>1. IsBlock(block) /\ FramesBlock(st.events, p, block)
  BY BlockJoins
<1> HIDE DEF block
<1>2. /\ block.kind = e.kind /\ block.name = e.name
      /\ \A q \in Deltas(st.events, e.index) : p < q
  BY <1>1 DEF FramesBlock
<1>3. ASSUME NEW kind PROVE \A q \in DeltasOf(st.events, e.index, kind) : q > p
  BY <1>2, DeltaPlaces DEF DeltasOf
<1>4. block.body \in Seq(Range(block.body))
  BY <1>1, BlockFacts
<1>5. ASSUME block.kind = "text"
      PROVE  Grown(e.body, block.body, e.body, DeltasOf(st.events, e.index, "text_delta"), p)
  <2>1. Joins(block.body, e.body,
              Pieces(st.events, DeltasOf(st.events, e.index, "text_delta")))
    BY <1>1, <1>2, <1>5 DEF FramesBlock
  <2> QED
    BY <1>3, <1>4, <2>1, DeltaPlaces, GrownStarts
<1>6. ASSUME block.kind = "tool_use"
      PROVE  Grown(<<>>, block.body, <<>>,
                   DeltasOf(st.events, e.index, "input_json_delta"), p)
  <2>1. Joins(block.body, <<>>,
              Pieces(st.events, DeltasOf(st.events, e.index, "input_json_delta")))
    BY <1>1, <1>2, <1>6 DEF FramesBlock
  <2> QED
    BY <1>3, <1>4, <2>1, DeltaPlaces, GrownStarts
<1>7. AccBlock(e) = [kind |-> block.kind, name |-> block.name,
                     body |-> IF block.kind = "tool_use" THEN <<>> ELSE e.body]
  BY <1>2 DEF AccBlock
<1> QED
  BY <1>5, <1>6, <1>7 DEF BlockPart, block

(* The next event grows the block, or it does not concern it.              *)
Regrown(b, e, i) ==
  IF e.type = "content_block_delta" /\ e.index = i THEN ApplyDelta(b, e) ELSE b

LEMMA ExceptBody ==
  ASSUME NEW kind, NEW name, NEW body, NEW new
  PROVE  [[kind |-> kind, name |-> name, body |-> body] EXCEPT !.body = new]
           = [kind |-> kind, name |-> name, body |-> new]
  BY SMT

LEMMA DeltaGrows ==
  ASSUME NEW kind, NEW name, NEW body, NEW e,
         \/ kind = "text" /\ e.kind = "text_delta"
         \/ kind = "tool_use" /\ e.kind = "input_json_delta"
  PROVE  ApplyDelta([kind |-> kind, name |-> name, body |-> body], e) =
           [kind |-> kind, name |-> name, body |-> Append(body, e.piece)]
<1> DEFINE b == [kind |-> kind, name |-> name, body |-> body]
<1>1. b.kind = kind /\ b.body = body
  OBVIOUS
<1>2. ApplyDelta(b, e) = [b EXCEPT !.body = Append(b.body, e.piece)]
  BY <1>1 DEF ApplyDelta
<1>3. ApplyDelta(b, e) = [b EXCEPT !.body = Append(body, e.piece)]
  BY <1>1, <1>2
<1> QED
  BY <1>3, ExceptBody

LEMMA BlockGrows ==
  ASSUME NEW st \in Streams, st.response # Nil, st.surface = "anthropic",
         NEW p \in PlacesOf(st.events, "content_block_start"),
         NEW h \in Nat, h + 1 \in DOMAIN st.events, NEW b,
         BlockPart(st.events, h, p, st.response.content[st.events[p].index + 1], b)
  PROVE  BlockPart(st.events, h + 1, p,
                   st.response.content[st.events[p].index + 1],
                   Regrown(b, st.events[h + 1], st.events[p].index))
<1> DEFINE i == st.events[p].index
           e == st.events[h + 1]
           block == st.response.content[i + 1]
           c == Regrown(b, e, i)
<1>1. IsBlock(block) /\ FramesBlock(st.events, p, block)
  BY BlockJoins
<1> HIDE DEF block
<1>2. block.kind = st.events[p].kind /\ block.body \in Seq(Range(block.body))
  BY <1>1, BlockFacts DEF FramesBlock
<1>3. /\ b = [kind |-> block.kind, name |-> block.name, body |-> b.body]
      /\ block.kind = "text" =>
           Grown(b.body, block.body, st.events[p].body,
                 DeltasOf(st.events, i, "text_delta"), h)
      /\ block.kind = "tool_use" =>
           Grown(b.body, block.body, <<>>,
                 DeltasOf(st.events, i, "input_json_delta"), h)
      /\ block.kind = "opaque" => b.body = st.events[p].body
  BY DEF BlockPart, block
<1>4. \A kind : h + 1 \in DeltasOf(st.events, i, kind) <=>
                  e.type = "content_block_delta" /\ e.index = i /\ e.kind = kind
  BY DEF DeltasOf, Deltas, PlacesOf
<1>5. \A kind : h + 1 \in DeltasOf(st.events, i, kind) =>
                  Pieces(st.events, DeltasOf(st.events, i, kind))[h + 1] = e.piece
  BY DEF Pieces
<1>6. CASE block.kind = "text"
  <2> DEFINE D == DeltasOf(st.events, i, "text_delta")
             P == Pieces(st.events, D)
  <2>1. Joins(block.body, st.events[p].body, P)
    BY <1>1, <1>2, <1>6 DEF FramesBlock
  <2>a. /\ D \in SUBSET Nat /\ IsFiniteSet(D) /\ DOMAIN P = D
        /\ h + 1 \in D => P[h + 1] = e.piece
        /\ Grown(b.body, block.body, st.events[p].body, D, h)
        /\ h + 1 \in D <=> e.type = "content_block_delta" /\ e.index = i
                            /\ e.kind = "text_delta"
    BY <1>3, <1>4, <1>5, <1>6, DeltaPlaces
  <2> HIDE DEF D, P
  <2>b. IF h + 1 \in D
        THEN Grown(Append(b.body, P[h + 1]), block.body, st.events[p].body, D, h + 1)
        ELSE Grown(b.body, block.body, st.events[p].body, D, h + 1)
    BY <1>2, <2>1, <2>a, GrownSteps
  <2>2. IF h + 1 \in D
        THEN Grown(Append(b.body, e.piece), block.body, st.events[p].body, D, h + 1)
        ELSE Grown(b.body, block.body, st.events[p].body, D, h + 1)
    BY <2>a, <2>b
  <2>c. h + 1 \in D => ApplyDelta(b, e) =
          [kind |-> block.kind, name |-> block.name, body |-> Append(b.body, e.piece)]
    <3>1. SUFFICES ASSUME h + 1 \in D
                   PROVE  ApplyDelta(b, e) = [kind |-> block.kind, name |-> block.name,
                                              body |-> Append(b.body, e.piece)]
      OBVIOUS
    <3>2. ApplyDelta([kind |-> block.kind, name |-> block.name, body |-> b.body], e) =
            [kind |-> block.kind, name |-> block.name, body |-> Append(b.body, e.piece)]
      BY <1>6, <2>a, <3>1, DeltaGrows
    <3> QED
      BY <1>3, <3>2
  <2>d. e.kind # "text_delta" => ApplyDelta(b, e) = b
    BY <1>3, <1>6 DEF ApplyDelta
  <2>3. c = IF h + 1 \in D
            THEN [kind |-> block.kind, name |-> block.name,
                  body |-> Append(b.body, e.piece)]
            ELSE b
    BY <2>a, <2>c, <2>d DEF Regrown
  <2>4. c.body = IF h + 1 \in D
                 THEN Append(b.body, e.piece) ELSE b.body
    BY <2>3
  <2>5. /\ c = [kind |-> block.kind, name |-> block.name, body |-> c.body]
        /\ Grown(c.body, block.body, st.events[p].body,
                 D, h + 1)
    BY <1>3, <2>2, <2>3, <2>4
  <2> HIDE DEF c
  <2>6. BlockPart(st.events, h + 1, p, block, c)
    BY <1>6, <2>5 DEF BlockPart, D
  <2> QED
    BY <2>6 DEF block, c
<1>7. CASE block.kind = "tool_use"
  <2> DEFINE D == DeltasOf(st.events, i, "input_json_delta")
             P == Pieces(st.events, D)
  <2>1. Joins(block.body, <<>>, P)
    BY <1>1, <1>2, <1>7 DEF FramesBlock
  <2>a. /\ D \in SUBSET Nat /\ IsFiniteSet(D) /\ DOMAIN P = D
        /\ h + 1 \in D => P[h + 1] = e.piece
        /\ Grown(b.body, block.body, <<>>, D, h)
        /\ h + 1 \in D <=> e.type = "content_block_delta" /\ e.index = i
                            /\ e.kind = "input_json_delta"
    BY <1>3, <1>4, <1>5, <1>7, DeltaPlaces
  <2> HIDE DEF D, P
  <2>b. IF h + 1 \in D
        THEN Grown(Append(b.body, P[h + 1]), block.body, <<>>, D, h + 1)
        ELSE Grown(b.body, block.body, <<>>, D, h + 1)
    BY <1>2, <2>1, <2>a, GrownSteps
  <2>2. IF h + 1 \in D
        THEN Grown(Append(b.body, e.piece), block.body, <<>>, D, h + 1)
        ELSE Grown(b.body, block.body, <<>>, D, h + 1)
    BY <2>a, <2>b
  <2>c. h + 1 \in D => ApplyDelta(b, e) =
          [kind |-> block.kind, name |-> block.name, body |-> Append(b.body, e.piece)]
    <3>1. SUFFICES ASSUME h + 1 \in D
                   PROVE  ApplyDelta(b, e) = [kind |-> block.kind, name |-> block.name,
                                              body |-> Append(b.body, e.piece)]
      OBVIOUS
    <3>2. ApplyDelta([kind |-> block.kind, name |-> block.name, body |-> b.body], e) =
            [kind |-> block.kind, name |-> block.name, body |-> Append(b.body, e.piece)]
      BY <1>7, <2>a, <3>1, DeltaGrows
    <3> QED
      BY <1>3, <3>2
  <2>d. e.kind # "input_json_delta" => ApplyDelta(b, e) = b
    BY <1>3, <1>7 DEF ApplyDelta
  <2>3. c = IF h + 1 \in D
            THEN [kind |-> block.kind, name |-> block.name,
                  body |-> Append(b.body, e.piece)]
            ELSE b
    BY <2>a, <2>c, <2>d DEF Regrown
  <2>4. c.body = IF h + 1 \in D
                 THEN Append(b.body, e.piece) ELSE b.body
    BY <2>3
  <2>5. /\ c = [kind |-> block.kind, name |-> block.name, body |-> c.body]
        /\ Grown(c.body, block.body, <<>>,
                 D, h + 1)
    BY <1>3, <2>2, <2>3, <2>4
  <2> HIDE DEF c
  <2>6. BlockPart(st.events, h + 1, p, block, c)
    BY <1>7, <2>5 DEF BlockPart, D
  <2> QED
    BY <2>6 DEF block, c
<1>8. CASE block.kind = "opaque"
  <2>1. c = b
    BY <1>3, <1>8 DEF Regrown, ApplyDelta
  <2> QED
    BY <1>3, <1>8, <2>1 DEF BlockPart, block
<1> QED
  BY <1>1, <1>6, <1>7, <1>8, BlockFacts

-----------------------------------------------------------------------------
(* The next event, field by field.                                         *)
Reblocked(blocks, e) ==
  CASE e.type = "content_block_start" ->
         [i \in DOMAIN blocks \cup {e.index} |->
            IF i = e.index THEN AccBlock(e) ELSE blocks[i]]
    [] e.type = "content_block_delta" ->
         [i \in DOMAIN blocks |->
            IF i = e.index THEN ApplyDelta(blocks[i], e) ELSE blocks[i]]
    [] OTHER -> blocks

LEMMA EventByField ==
  ASSUME NEW model, NEW text, NEW blocks, NEW stop, NEW usage, NEW e
  PROVE  ApplyEvent([model |-> model, text |-> text, blocks |-> blocks,
                     stop |-> stop, usage |-> usage], e) =
           [model  |-> IF e.type = "message_start" THEN e.model ELSE model,
            text   |-> text,
            blocks |-> Reblocked(blocks, e),
            stop   |-> IF e.type = "message_delta" THEN e.stop ELSE stop,
            usage  |-> IF e.type \in {"message_start", "message_delta"}
                       THEN MergeUsage(usage, e.usage) ELSE usage]
<1> DEFINE a == [model |-> model, text |-> text, blocks |-> blocks,
                 stop |-> stop, usage |-> usage]
<1>1. CASE e.type = "message_start"
  <2>1. ApplyEvent(a, e) =
          [a EXCEPT !.model = e.model, !.usage = MergeUsage(a.usage, e.usage)]
    BY <1>1 DEF ApplyEvent
  <2>2. a.usage = usage /\ Reblocked(blocks, e) = blocks
    BY <1>1 DEF Reblocked
  <2> QED
    BY <1>1, <2>1, <2>2
<1>2. CASE e.type = "message_delta"
  <2>1. ApplyEvent(a, e) =
          [a EXCEPT !.stop = e.stop, !.usage = MergeUsage(a.usage, e.usage)]
    BY <1>2 DEF ApplyEvent
  <2>2. a.usage = usage /\ Reblocked(blocks, e) = blocks
    BY <1>2 DEF Reblocked
  <2> QED
    BY <1>2, <2>1, <2>2
<1>3. CASE e.type \in {"content_block_start", "content_block_delta"}
  <2>1. a.blocks = blocks
    OBVIOUS
  <2>2. ApplyEvent(a, e) = [a EXCEPT !.blocks = Reblocked(a.blocks, e)]
    BY <1>3 DEF ApplyEvent, Reblocked
  <2>3. ApplyEvent(a, e) = [a EXCEPT !.blocks = Reblocked(blocks, e)]
    BY <2>1, <2>2
  <2> QED
    BY <1>3, <2>3
<1>4. CASE e.type \notin {"message_start", "message_delta", "content_block_start",
                         "content_block_delta"}
  <2>1. ApplyEvent(a, e) = a /\ Reblocked(blocks, e) = blocks
    BY <1>4 DEF ApplyEvent, Reblocked
  <2> QED
    BY <1>4, <2>1
<1> QED
  BY <1>1, <1>2, <1>3, <1>4

LEMMA OfType ==
  ASSUME NEW st \in Streams, NEW type
  PROVE  PlacesOf(st.events, type) \in SUBSET Nat
<1>1. PlacesOf(st.events, type) \in SUBSET DOMAIN st.events
  BY DEF PlacesOf
<1> QED
  BY <1>1, PlacesFinite

LEMMA UsageSteps ==
  ASSUME NEW st \in Streams, NEW h \in Nat, h + 1 \in DOMAIN st.events,
         NEW usage, DOMAIN usage = Counters("anthropic"), NEW f \in DOMAIN usage,
         Latest(UsageReports(st.events, f), h, usage[f])
  PROVE  LET e == st.events[h + 1]
             merged == IF e.type \in {"message_start", "message_delta"}
                       THEN MergeUsage(usage, e.usage) ELSE usage
         IN  Latest(UsageReports(st.events, f), h + 1, merged[f])
<1> DEFINE e == st.events[h + 1]
           R == UsageReports(st.events, f)
           merged == IF e.type \in {"message_start", "message_delta"}
                     THEN MergeUsage(usage, e.usage) ELSE usage
<1>1. DOMAIN R \in SUBSET Nat
  <2>1. DOMAIN R \subseteq PlacesOf(st.events, "message_start")
                             \cup PlacesOf(st.events, "message_delta")
    BY DEF UsageReports
  <2> QED
    BY <2>1, OfType
<1>2. h + 1 \in DOMAIN R <=>
        /\ e.type \in {"message_start", "message_delta"}
        /\ f \in DOMAIN e.usage
  BY DEF UsageReports, PlacesOf
<1>3. h + 1 \in DOMAIN R => R[h + 1] = e.usage[f]
  BY DEF UsageReports
<1>4. merged[f] = IF h + 1 \in DOMAIN R THEN e.usage[f] ELSE usage[f]
  BY <1>2 DEF MergeUsage
<1> HIDE DEF R, merged
<1>5. IF h + 1 \in DOMAIN R THEN Latest(R, h + 1, R[h + 1])
      ELSE Latest(R, h + 1, usage[f])
  BY <1>1, LatestSteps DEF R
<1>6. Latest(R, h + 1, merged[f])
  BY <1>3, <1>4, <1>5
<1> QED
  BY <1>6 DEF R, merged

LEMMA StartsApart ==
  ASSUME NEW st \in Streams, st.response # Nil, st.surface = "anthropic",
         NEW p \in PlacesOf(st.events, "content_block_start"),
         NEW q \in PlacesOf(st.events, "content_block_start"), p < q
  PROVE  st.events[p].index # st.events[q].index
<1>1. AnthropicFrames(st.events, st.response)
  BY FramedFacts DEF Frames
<1>2. st.events[p].index < st.events[q].index /\ st.events[p].index \in Nat
  BY <1>1 DEF AnthropicFrames
<1> QED
  BY <1>2

LEMMA BlocksStep ==
  ASSUME NEW st \in Streams, st.response # Nil, st.surface = "anthropic",
         NEW h \in Nat, h + 1 \in DOMAIN st.events, NEW a, AnthropicPart(st, a, h)
  PROVE  LET starts == PlacesOf(st.events, "content_block_start")
             blocks == Reblocked(a.blocks, st.events[h + 1])
         IN  /\ DOMAIN blocks =
                  {st.events[p].index : p \in {q \in starts : q <= h + 1}}
             /\ \A p \in starts : p <= h + 1 =>
                  BlockPart(st.events, h + 1, p,
                            st.response.content[st.events[p].index + 1],
                            blocks[st.events[p].index])
<1> DEFINE starts == PlacesOf(st.events, "content_block_start")
           e == st.events[h + 1]
           blocks == Reblocked(a.blocks, e)
<1>1. /\ DOMAIN a.blocks = {st.events[p].index : p \in {q \in starts : q <= h}}
      /\ \A p \in starts : p <= h =>
           BlockPart(st.events, h, p, st.response.content[st.events[p].index + 1],
                     a.blocks[st.events[p].index])
  BY DEF AnthropicPart
<1>2. /\ \A p \in starts : p \in Nat
      /\ h + 1 \in starts <=> e.type = "content_block_start"
  BY OfType DEF PlacesOf
<1>3. \A p \in Nat : p <= h + 1 <=> p <= h \/ p = h + 1
  OBVIOUS
<1>4. /\ e.type = "content_block_start" =>
           /\ DOMAIN blocks = DOMAIN a.blocks \cup {e.index}
           /\ blocks[e.index] = AccBlock(e)
           /\ \A i \in DOMAIN a.blocks : i # e.index => blocks[i] = a.blocks[i]
      /\ e.type # "content_block_start" =>
           /\ DOMAIN blocks = DOMAIN a.blocks
           /\ \A i \in DOMAIN a.blocks : blocks[i] = Regrown(a.blocks[i], e, i)
  BY DEF Reblocked, Regrown
<1> HIDE DEF blocks, starts
<1>5. DOMAIN blocks = {st.events[p].index : p \in {q \in starts : q <= h + 1}}
  <2>1. CASE e.type = "content_block_start"
    <3>1. {q \in starts : q <= h + 1} = {q \in starts : q <= h} \cup {h + 1}
      BY <1>2, <1>3, <2>1
    <3> QED
      BY <1>1, <1>4, <2>1, <3>1
  <2>2. CASE e.type # "content_block_start"
    <3>1. {q \in starts : q <= h + 1} = {q \in starts : q <= h}
      BY <1>2, <1>3, <2>2
    <3> QED
      BY <1>1, <1>4, <2>2, <3>1
  <2> QED
    BY <2>1, <2>2
<1>6. ASSUME NEW p \in starts, p <= h + 1
      PROVE  BlockPart(st.events, h + 1, p,
                       st.response.content[st.events[p].index + 1],
                       blocks[st.events[p].index])
  <2>1. CASE p = h + 1
    <3>1. blocks[st.events[p].index] = AccBlock(st.events[p])
      BY <1>2, <1>4, <2>1
    <3>2. BlockPart(st.events, p, p, st.response.content[st.events[p].index + 1],
                    AccBlock(st.events[p]))
      BY <1>2, BlockStarts DEF starts
    <3> QED
      BY <2>1, <3>1, <3>2
  <2>2. CASE p <= h
    <3> DEFINE i == st.events[p].index
    <3>1. i \in DOMAIN a.blocks
      BY <1>1, <2>2
    <3>2. BlockPart(st.events, h + 1, p, st.response.content[i + 1],
                    Regrown(a.blocks[i], e, i))
      BY <1>1, <2>2, BlockGrows DEF starts
    <3>3. blocks[i] = Regrown(a.blocks[i], e, i)
      <4>1. CASE e.type = "content_block_start"
        <5>1. p < h + 1 /\ h + 1 \in starts
          BY <1>2, <2>2, <4>1
        <5>2. i # e.index
          BY <5>1, StartsApart DEF starts
        <5>3. Regrown(a.blocks[i], e, i) = a.blocks[i]
          BY <4>1 DEF Regrown
        <5> QED
          BY <1>4, <3>1, <4>1, <5>2, <5>3
      <4>2. CASE e.type # "content_block_start"
        BY <1>4, <3>1, <4>2
      <4> QED
        BY <4>1, <4>2
    <3> QED
      BY <3>2, <3>3
  <2> QED
    BY <1>2, <1>3, <1>6, <2>1, <2>2
<1> QED
  BY <1>5, <1>6 DEF blocks, starts

LEMMA AnthropicSteps ==
  ASSUME NEW st \in Streams, st.response # Nil, st.surface = "anthropic",
         NEW h \in Nat, h + 1 \in DOMAIN st.events, NEW a, AnthropicPart(st, a, h)
  PROVE  AnthropicPart(st, ApplyEvent(a, st.events[h + 1]), h + 1)
<1> DEFINE e == st.events[h + 1]
           c == ApplyEvent(a, e)
<1>1. a = [model |-> a.model, text |-> <<>>, blocks |-> a.blocks,
           stop |-> a.stop, usage |-> a.usage]
  BY DEF AnthropicPart
<1>2. c = [model  |-> IF e.type = "message_start" THEN e.model ELSE a.model,
           text   |-> <<>>,
           blocks |-> Reblocked(a.blocks, e),
           stop   |-> IF e.type = "message_delta" THEN e.stop ELSE a.stop,
           usage  |-> IF e.type \in {"message_start", "message_delta"}
                      THEN MergeUsage(a.usage, e.usage) ELSE a.usage]
  BY <1>1, EventByField
<1> HIDE DEF c
<1>3. /\ c.model = IF e.type = "message_start" THEN e.model ELSE a.model
      /\ c.blocks = Reblocked(a.blocks, e)
      /\ c.stop = IF e.type = "message_delta" THEN e.stop ELSE a.stop
      /\ c.usage = IF e.type \in {"message_start", "message_delta"}
                   THEN MergeUsage(a.usage, e.usage) ELSE a.usage
      /\ c = [model |-> c.model, text |-> <<>>, blocks |-> c.blocks,
              stop |-> c.stop, usage |-> c.usage]
  BY <1>2
<1>4. /\ \A p \in PlacesOf(st.events, "message_start") :
           st.events[p].model = st.response.model
      /\ \A p \in PlacesOf(st.events, "message_delta") :
           st.events[p].stop = st.response.stop
  BY FramedFacts DEF Frames, AnthropicFrames
<1>5. \A type : h + 1 \in PlacesOf(st.events, type) <=> e.type = type
  BY DEF PlacesOf
<1>6. \A type : IsHeard(PlacesOf(st.events, type), h + 1) <=>
                  IsHeard(PlacesOf(st.events, type), h) \/ e.type = type
  BY <1>5, HeardSteps, OfType
<1>7. c.model = IF IsHeard(PlacesOf(st.events, "message_start"), h + 1)
                THEN st.response.model ELSE Nil
  BY <1>3, <1>4, <1>5, <1>6 DEF AnthropicPart
<1>8. c.stop = IF IsHeard(PlacesOf(st.events, "message_delta"), h + 1)
               THEN st.response.stop ELSE Nil
  BY <1>3, <1>4, <1>5, <1>6 DEF AnthropicPart
<1>9. DOMAIN c.usage = Counters("anthropic")
  BY <1>3 DEF AnthropicPart, MergeUsage
<1>10. ASSUME NEW f \in Counters("anthropic")
       PROVE  Latest(UsageReports(st.events, f), h + 1, c.usage[f])
  <2>1. /\ DOMAIN a.usage = Counters("anthropic")
        /\ Latest(UsageReports(st.events, f), h, a.usage[f])
    BY DEF AnthropicPart
  <2> QED
    BY <1>3, <2>1, UsageSteps
<1>11. LET starts == PlacesOf(st.events, "content_block_start")
       IN  /\ DOMAIN c.blocks =
                {st.events[p].index : p \in {q \in starts : q <= h + 1}}
           /\ \A p \in starts : p <= h + 1 =>
                BlockPart(st.events, h + 1, p,
                          st.response.content[st.events[p].index + 1],
                          c.blocks[st.events[p].index])
  BY <1>3, BlocksStep
<1>12. AnthropicPart(st, c, h + 1)
  BY <1>3, <1>7, <1>8, <1>9, <1>10, <1>11 DEF AnthropicPart
<1> QED
  BY <1>12 DEF c

LEMMA NothingHeard ==
  ASSUME NEW places \in SUBSET (Nat \ {0})
  PROVE  ~IsHeard(places, 0)
  BY DEF IsHeard

LEMMA FromOne ==
  ASSUME NEW st \in Streams, NEW type
  PROVE  PlacesOf(st.events, type) \in SUBSET (Nat \ {0})
<1>1. PlacesOf(st.events, type) \in SUBSET (1 .. Len(st.events))
  BY StreamFacts DEF PlacesOf
<1> QED
  BY <1>1, StreamFacts

LEMMA AnthropicStarts ==
  ASSUME NEW st \in Streams, st.surface = "anthropic"
  PROVE  AnthropicPart(st, BlankOf(st), 0)
<1> DEFINE a == BlankOf(st)
           starts == PlacesOf(st.events, "content_block_start")
<1>1. a = [model |-> Nil, text |-> <<>>, blocks |-> <<>>, stop |-> Nil,
           usage |-> NoUsage]
  BY DEF BlankOf
<1>2. \A type : ~IsHeard(PlacesOf(st.events, type), 0)
  BY FromOne, NothingHeard
<1>3. \A p \in starts : ~(p <= 0)
  BY <1>2 DEF IsHeard
<1>4. ASSUME NEW f \in Counters("anthropic")
      PROVE  Latest(UsageReports(st.events, f), 0, NoUsage[f])
  <2>1. DOMAIN UsageReports(st.events, f) \in SUBSET (Nat \ {0})
    <3>1. DOMAIN UsageReports(st.events, f)
            \subseteq PlacesOf(st.events, "message_start")
                        \cup PlacesOf(st.events, "message_delta")
      BY DEF UsageReports
    <3> QED
      BY <3>1, FromOne
  <2>2. NoUsage[f] = 0
    BY DEF NoUsage, Counters
  <2> QED
    BY <2>1, <2>2, NothingHeard DEF Latest
<1>5. DOMAIN NoUsage = Counters("anthropic")
  BY DEF NoUsage, Counters
<1>6. DOMAIN a.blocks = {} /\ {q \in starts : q <= 0} = {}
  BY <1>1, <1>3
<1>7. /\ a.model = Nil /\ a.stop = Nil /\ a.usage = NoUsage
      /\ a = [model |-> a.model, text |-> <<>>, blocks |-> a.blocks,
              stop |-> a.stop, usage |-> a.usage]
  BY <1>1
<1> HIDE DEF a
<1>8. AnthropicPart(st, a, 0)
  BY <1>2, <1>3, <1>4, <1>5, <1>6, <1>7 DEF AnthropicPart
<1> QED
  BY <1>8 DEF a

-----------------------------------------------------------------------------
(* OpenAI.  A call that no part of has come yet is one without a name and  *)
(* without input.                                                          *)
NoCall == [kind |-> "tool_use", name |-> <<>>, body |-> <<>>]
CallOf(calls, i) == IF i \in DOMAIN calls THEN calls[i] ELSE NoCall

IsCall(b) == b = [kind |-> "tool_use", name |-> b.name, body |-> b.body]

CallPart(events, h, i, call, b) ==
  /\ IsCall(b)
  /\ Grown(b.name, call.name, <<>>, NamesOf(events, i), h)
  /\ Grown(b.body, call.body, <<>>, InputsOf(events, i), h)

(* Where the calls begin among the answer's blocks.                        *)
Ahead(st) == IF HasText(st.response) THEN 1 ELSE 0
Calls(st) == PlacesOf(st.events, "tool_call")
CallAt(st, i) == st.response.content[i + Ahead(st) + 1]

OpenAITypes == {"text", "tool_call", "finish", "usage"}
IsSaid(st, h) == \E type \in OpenAITypes : IsHeard(PlacesOf(st.events, type), h)

OpenAIPart(st, a, h) ==
  /\ a = [model |-> a.model, text |-> a.text, blocks |-> a.blocks,
          stop |-> a.stop, usage |-> a.usage]
  /\ a.model = IF IsSaid(st, h) THEN st.response.model ELSE Nil
  /\ a.stop = IF IsHeard(PlacesOf(st.events, "finish"), h)
              THEN st.response.stop ELSE Nil
  /\ a.usage = IF IsHeard(PlacesOf(st.events, "usage"), h) THEN st.response.usage
               ELSE [prompt |-> 0, completion |-> 0, cached |-> 0]
  /\ IF Ahead(st) = 0 THEN a.text = <<>>
     ELSE Grown(a.text, st.response.content[1].body, <<>>,
                PlacesOf(st.events, "text"), h)
  /\ DOMAIN a.blocks = {st.events[p].index : p \in {q \in Calls(st) : q <= h}}
  /\ \A p \in Calls(st) :
       CallPart(st.events, h, st.events[p].index,
                CallAt(st, st.events[p].index), CallOf(a.blocks, st.events[p].index))

LEMMA OpenAIFacts ==
  ASSUME NEW st \in Streams, st.response # Nil, st.surface = "openai"
  PROVE  /\ OpenAIFrames(st.events, st.response)
         /\ \A type \in OpenAITypes : \A p \in PlacesOf(st.events, type) :
              st.events[p].model = st.response.model
         /\ \A p \in PlacesOf(st.events, "finish") :
              st.events[p].stop = st.response.stop
         /\ \A p \in PlacesOf(st.events, "usage") :
              st.events[p].usage = st.response.usage
<1>1. OpenAIFrames(st.events, st.response)
  BY FramedFacts DEF Frames
<1> QED
  BY <1>1 DEF OpenAIFrames, OpenAITypes

LEMMA CallFramed ==
  ASSUME NEW st \in Streams, st.response # Nil, st.surface = "openai",
         NEW p \in Calls(st)
  PROVE  LET i == st.events[p].index
         IN  /\ i \in Nat /\ i + Ahead(st) + 1 \in DOMAIN st.response.content
             /\ IsBlock(CallAt(st, i)) /\ FramesCall(st.events, i, CallAt(st, i))
<1> DEFINE i == st.events[p].index
<1>1. OpenAIFrames(st.events, st.response)
  BY OpenAIFacts
<1>2. i \in Nat
  BY <1>1 DEF OpenAIFrames, Calls
<1>3. st.response.content \in Seq(Range(st.response.content))
  BY FramedFacts
<1>4. /\ {st.events[q].index + Ahead(st) + 1 : q \in Calls(st)}
           = Ahead(st) + 1 .. Len(st.response.content)
      /\ FramesCall(st.events, i, CallAt(st, i))
  BY <1>1 DEF OpenAIFrames, Calls, CallAt, Ahead
<1>5. /\ i + Ahead(st) + 1 \in Ahead(st) + 1 .. Len(st.response.content)
      /\ Ahead(st) \in Nat
  BY <1>4 DEF Ahead
<1>6. i + Ahead(st) + 1 \in DOMAIN st.response.content
  BY <1>3, <1>5
<1>7. IsBlock(CallAt(st, i))
  BY <1>6, FramedFacts DEF CallAt
<1> QED
  BY <1>2, <1>4, <1>6, <1>7

LEMMA PartPlaces ==
  ASSUME NEW st \in Streams, NEW i
  PROVE  /\ NamesOf(st.events, i) \in SUBSET (Nat \ {0})
         /\ InputsOf(st.events, i) \in SUBSET (Nat \ {0})
         /\ IsFiniteSet(NamesOf(st.events, i)) /\ IsFiniteSet(InputsOf(st.events, i))
         /\ DOMAIN NamePieces(st.events, i) = NamesOf(st.events, i)
         /\ DOMAIN Pieces(st.events, InputsOf(st.events, i)) = InputsOf(st.events, i)
<1>1. /\ NamesOf(st.events, i) \in SUBSET DOMAIN st.events
      /\ InputsOf(st.events, i) \in SUBSET DOMAIN st.events
  BY DEF NamesOf, InputsOf, PartsOf, PlacesOf
<1>2. /\ NamesOf(st.events, i) \in SUBSET PlacesOf(st.events, "tool_call")
      /\ InputsOf(st.events, i) \in SUBSET PlacesOf(st.events, "tool_call")
  BY DEF NamesOf, InputsOf, PartsOf
<1> QED
  BY <1>1, <1>2, FromOne, PlacesFinite DEF NamePieces, Pieces

(* One more part of a call, field by field.                                *)
LEMMA ExceptNameBody ==
  ASSUME NEW kind, NEW name, NEW body, NEW full, NEW whole, NEW b,
         b = [[kind |-> kind, name |-> name, body |-> body]
                EXCEPT !.name = full, !.body = whole]
  PROVE  b = [kind |-> kind, name |-> full, body |-> whole]
  OBVIOUS

LEMMA CallByField ==
  ASSUME NEW calls, NEW e, IsCall(CallOf(calls, e.index))
  PROVE  LET b == CallOf(calls, e.index)
             c == CallOf(GrowCall(calls, e), e.index)
         IN  /\ IsCall(c) /\ c.name = b.name \o e.name
             /\ c.body = IF e.piece = Nil THEN b.body ELSE Append(b.body, e.piece)
<1> DEFINE b == CallOf(calls, e.index)
<1>1. PICK new : new = [b EXCEPT !.name = b.name \o e.name,
                          !.body = IF e.piece = Nil THEN b.body
                                   ELSE Append(b.body, e.piece)]
  OBVIOUS
<1>2. GrowCall(calls, e) =
        [i \in DOMAIN calls \cup {e.index} |-> IF i = e.index THEN new ELSE calls[i]]
  BY <1>1 DEF GrowCall, CallOf, NoCall
<1>3. CallOf(GrowCall(calls, e), e.index) = new
  BY <1>2 DEF CallOf
<1>4. PICK full, whole :
        /\ full = b.name \o e.name
        /\ whole = IF e.piece = Nil THEN b.body ELSE Append(b.body, e.piece)
  OBVIOUS
<1>5. new = [b EXCEPT !.name = full, !.body = whole]
  BY <1>1, <1>4
<1>6. b = [kind |-> "tool_use", name |-> b.name, body |-> b.body]
  BY DEF IsCall
<1> HIDE DEF b
<1>7. new = [[kind |-> "tool_use", name |-> b.name, body |-> b.body]
               EXCEPT !.name = full, !.body = whole]
  BY <1>5, <1>6
<1>8. new = [kind |-> "tool_use", name |-> full, body |-> whole]
  BY <1>7, ExceptNameBody
<1>9. IsCall(new) /\ new.name = full /\ new.body = whole
  BY <1>8 DEF IsCall
<1> QED
  BY <1>3, <1>4, <1>9 DEF b

LEMMA ChunkByField ==
  ASSUME NEW model, NEW text, NEW blocks, NEW stop, NEW usage, NEW e
  PROVE  ApplyChunk([model |-> model, text |-> text, blocks |-> blocks,
                     stop |-> stop, usage |-> usage], e) =
           [model  |-> IF e.type \in OpenAITypes THEN e.model ELSE model,
            text   |-> IF e.type = "text" THEN Append(text, e.piece) ELSE text,
            blocks |-> IF e.type = "tool_call" THEN GrowCall(blocks, e) ELSE blocks,
            stop   |-> IF e.type = "finish" THEN e.stop ELSE stop,
            usage  |-> IF e.type = "usage" THEN e.usage ELSE usage]
<1> DEFINE a == [model |-> model, text |-> text, blocks |-> blocks,
                 stop |-> stop, usage |-> usage]
<1>0. a.text = text /\ a.blocks = blocks
  OBVIOUS
<1>1. CASE e.type = "text"
  <2>1. ApplyChunk(a, e) =
          [a EXCEPT !.model = e.model, !.text = Append(a.text, e.piece)]
    BY <1>1 DEF ApplyChunk
  <2>2. ApplyChunk(a, e) =
          [a EXCEPT !.model = e.model, !.text = Append(text, e.piece)]
    BY <1>0, <2>1
  <2> QED
    BY <1>1, <2>2 DEF OpenAITypes
<1>2. CASE e.type = "tool_call"
  <2>1. ApplyChunk(a, e) =
          [a EXCEPT !.model = e.model, !.blocks = GrowCall(a.blocks, e)]
    BY <1>2 DEF ApplyChunk
  <2>2. ApplyChunk(a, e) =
          [a EXCEPT !.model = e.model, !.blocks = GrowCall(blocks, e)]
    BY <1>0, <2>1
  <2> QED
    BY <1>2, <2>2 DEF OpenAITypes
<1>3. CASE e.type = "finish"
  BY <1>3 DEF ApplyChunk, OpenAITypes
<1>4. CASE e.type = "usage"
  BY <1>4 DEF ApplyChunk, OpenAITypes
<1>5. CASE e.type \notin OpenAITypes
  <2>1. ApplyChunk(a, e) = a
    BY <1>5 DEF ApplyChunk, OpenAITypes
  <2>2. /\ e.type # "text" /\ e.type # "tool_call"
        /\ e.type # "finish" /\ e.type # "usage"
    BY <1>5 DEF OpenAITypes
  <2> QED
    BY <1>5, <2>1, <2>2
<1> QED
  BY <1>1, <1>2, <1>3, <1>4, <1>5 DEF OpenAITypes

LEMMA Appending ==
  ASSUME NEW S, NEW s \in Seq(S), NEW x
  PROVE  s \o <<x>> = Append(s, x) /\ s \o <<>> = s
<1>1. s \in Seq(S \cup {x})
  OBVIOUS
<1> QED
  BY <1>1

(* A part that is of this call, or the next event if it is another.        *)
LEMMA CallGrows ==
  ASSUME NEW st \in Streams, st.response # Nil, st.surface = "openai",
         NEW p \in Calls(st), NEW h \in Nat, h + 1 \in DOMAIN st.events, NEW calls,
         CallPart(st.events, h, st.events[p].index,
                  CallAt(st, st.events[p].index), CallOf(calls, st.events[p].index)),
         NEW later,
         later = IF st.events[h + 1].type = "tool_call"
                 THEN GrowCall(calls, st.events[h + 1]) ELSE calls
  PROVE  CallPart(st.events, h + 1, st.events[p].index,
                  CallAt(st, st.events[p].index), CallOf(later, st.events[p].index))
<1> DEFINE i == st.events[p].index
           e == st.events[h + 1]
           call == CallAt(st, i)
           b == CallOf(calls, i)
           c == CallOf(later, i)
           N == NamesOf(st.events, i)
           I == InputsOf(st.events, i)
           NP == NamePieces(st.events, i)
           IP == Pieces(st.events, I)
<1>1. IsBlock(call) /\ FramesCall(st.events, i, call)
  BY CallFramed
<1>2. /\ h + 1 \in N <=> e.type = "tool_call" /\ e.index = i /\ e.name # <<>>
      /\ h + 1 \in I <=> e.type = "tool_call" /\ e.index = i /\ e.piece # Nil
  BY DEF NamesOf, InputsOf, PartsOf, PlacesOf
<1>3. /\ h + 1 \in N => NP[h + 1] = e.name[1] /\ e.name = <<e.name[1]>>
      /\ h + 1 \in I => IP[h + 1] = e.piece
  BY <1>1 DEF FramesCall, NamePieces, Pieces
<1>4. /\ N \in SUBSET Nat /\ IsFiniteSet(N) /\ DOMAIN NP = N
      /\ I \in SUBSET Nat /\ IsFiniteSet(I) /\ DOMAIN IP = I
  BY PartPlaces
<1>5. Joins(call.name, <<>>, NP) /\ Joins(call.body, <<>>, IP)
  BY <1>1 DEF FramesCall
<1>6. /\ IsCall(b)
      /\ Grown(b.name, call.name, <<>>, N, h)
      /\ Grown(b.body, call.body, <<>>, I, h)
  BY DEF CallPart
<1>7. /\ e.type = "tool_call" /\ e.index = i =>
           /\ c.name = b.name \o e.name
           /\ c.body = IF e.piece = Nil THEN b.body ELSE Append(b.body, e.piece)
           /\ IsCall(c)
      /\ ~(e.type = "tool_call" /\ e.index = i) => c = b
  <2>1. CASE e.type = "tool_call" /\ e.index = i
    <3>1. IsCall(CallOf(calls, e.index))
      BY <1>6, <2>1
    <3>2. c = CallOf(GrowCall(calls, e), e.index)
      BY <2>1
    <3>3. IsCall(c)
      BY <3>1, <3>2, CallByField
    <3>4. /\ c.name = b.name \o e.name
          /\ c.body = IF e.piece = Nil THEN b.body ELSE Append(b.body, e.piece)
      <4>1. b = CallOf(calls, e.index)
        BY <2>1
      <4> HIDE DEF b, c, e, i
      <4>2. /\ c.name = CallOf(calls, e.index).name \o e.name
            /\ c.body = IF e.piece = Nil THEN CallOf(calls, e.index).body
                       ELSE Append(CallOf(calls, e.index).body, e.piece)
        BY <3>1, <3>2, CallByField
      <4> QED
        BY <4>1, <4>2
    <3> QED
      BY <2>1, <3>3, <3>4
  <2>2. CASE ~(e.type = "tool_call" /\ e.index = i)
    <3>1. CASE e.type = "tool_call"
      <4>1. i # e.index /\ later = GrowCall(calls, e)
        BY <2>2, <3>1
      <4>2. CallOf(GrowCall(calls, e), i) = CallOf(calls, i)
        BY <4>1 DEF GrowCall, CallOf
      <4> QED
        BY <2>2, <4>1, <4>2
    <3>2. CASE e.type # "tool_call"
      BY <2>2, <3>2
    <3> QED
      BY <3>1, <3>2
  <2> QED
    BY <2>1, <2>2
<1>8. call.name \in Seq(Range(call.name)) /\ call.body \in Seq(Range(call.body))
  BY <1>1, BlockFacts
<1>9. b.name \in Seq(Range(call.name))
  <2>1. /\ Len(<<>>) + Rank(N, h) \in 0 .. Len(call.name)
        /\ b.name = SubSeq(call.name, 1, Len(<<>>) + Rank(N, h))
    <3> HIDE DEF N, NP, call, b
    <3>1. /\ Rank(N, h) \in Nat /\ Len(call.name) \in Nat
          /\ Len(<<>>) + Rank(N, h) <= Len(call.name)
      BY <1>4, <1>5, <1>8, JoinLengths
    <3> QED
      BY <1>6, <3>1 DEF Grown
  <2> HIDE DEF N, call, b
  <2> QED
    BY <1>8, <2>1, CutSeq
<1> HIDE DEF N, I, NP, IP, call, b, c
<1>10. /\ IF h + 1 \in N THEN Grown(Append(b.name, NP[h + 1]), call.name, <<>>, N, h + 1)
          ELSE Grown(b.name, call.name, <<>>, N, h + 1)
       /\ IF h + 1 \in I THEN Grown(Append(b.body, IP[h + 1]), call.body, <<>>, I, h + 1)
          ELSE Grown(b.body, call.body, <<>>, I, h + 1)
  BY <1>4, <1>5, <1>6, <1>8, GrownSteps
<1>11. CASE e.type = "tool_call" /\ e.index = i
  <2>1. b.name \o e.name = IF h + 1 \in N THEN Append(b.name, NP[h + 1]) ELSE b.name
    <3>1. CASE h + 1 \in N
      <4>1. e.name = <<NP[h + 1]>>
        BY <1>3, <3>1
      <4> QED
        BY <1>9, <3>1, <4>1, Appending
    <3>2. CASE h + 1 \notin N
      <4>1. e.name = <<>>
        BY <1>2, <1>11, <3>2
      <4> QED
        BY <1>9, <3>2, <4>1, Appending
    <3> QED
      BY <3>1, <3>2
  <2>2. (IF e.piece = Nil THEN b.body ELSE Append(b.body, e.piece))
          = IF h + 1 \in I THEN Append(b.body, IP[h + 1]) ELSE b.body
    BY <1>2, <1>3, <1>11
  <2>3. /\ c.name = IF h + 1 \in N THEN Append(b.name, NP[h + 1]) ELSE b.name
        /\ c.body = IF h + 1 \in I THEN Append(b.body, IP[h + 1]) ELSE b.body
        /\ IsCall(c)
    BY <1>7, <1>11, <2>1, <2>2
  <2>4. CallPart(st.events, h + 1, i, call, c)
    BY <1>10, <2>3 DEF CallPart, N, I
  <2> QED
    BY <2>4 DEF call, c
<1>12. CASE ~(e.type = "tool_call" /\ e.index = i)
  <2>1. c = b /\ h + 1 \notin N /\ h + 1 \notin I
    BY <1>2, <1>7, <1>12
  <2>2. CallPart(st.events, h + 1, i, call, c)
    BY <1>6, <1>10, <2>1 DEF CallPart, N, I
  <2> QED
    BY <2>2 DEF call, c
<1> QED
  BY <1>11, <1>12

LEMMA TextFramed ==
  ASSUME NEW st \in Streams, st.response # Nil, st.surface = "openai",
         Ahead(st) = 1
  PROVE  LET texts == PlacesOf(st.events, "text")
             block == st.response.content[1]
         IN  /\ block.kind = "text" /\ block.name = <<>>
             /\ 1 \in DOMAIN st.response.content /\ IsBlock(block)
             /\ block.body \in Seq(Range(block.body))
             /\ Joins(block.body, <<>>, Pieces(st.events, texts))
             /\ texts \in SUBSET (Nat \ {0}) /\ IsFiniteSet(texts)
             /\ DOMAIN Pieces(st.events, texts) = texts
<1> DEFINE texts == PlacesOf(st.events, "text")
           block == st.response.content[1]
<1>1. HasText(st.response)
  BY DEF Ahead
<1>2. /\ st.response.content # <<>> /\ block.kind = "text" /\ block.name = <<>>
      /\ Joins(block.body, <<>>, Pieces(st.events, texts))
  BY <1>1, OpenAIFacts DEF OpenAIFrames, HasText
<1>3. 1 \in DOMAIN st.response.content
  <2>1. st.response.content \in Seq(Range(st.response.content))
    BY FramedFacts
  <2> QED
    BY <1>2, <2>1
<1>4. IsBlock(block) /\ block.body \in Seq(Range(block.body))
  BY <1>3, FramedFacts, BlockFacts
<1>5. texts \in SUBSET DOMAIN st.events
  BY DEF PlacesOf
<1>6. /\ texts \in SUBSET (Nat \ {0}) /\ IsFiniteSet(texts)
      /\ DOMAIN Pieces(st.events, texts) = texts
  BY <1>5, FromOne, PlacesFinite DEF Pieces
<1> QED
  BY <1>2, <1>3, <1>4, <1>6

LEMMA TextGrows ==
  ASSUME NEW st \in Streams, st.response # Nil, st.surface = "openai",
         Ahead(st) = 1, NEW h \in Nat, h + 1 \in DOMAIN st.events, NEW text,
         Grown(text, st.response.content[1].body, <<>>,
               PlacesOf(st.events, "text"), h)
  PROVE  LET e == st.events[h + 1]
             later == IF e.type = "text" THEN Append(text, e.piece) ELSE text
         IN  Grown(later, st.response.content[1].body, <<>>,
                   PlacesOf(st.events, "text"), h + 1)
<1> DEFINE e == st.events[h + 1]
           T == PlacesOf(st.events, "text")
           P == Pieces(st.events, T)
           body == st.response.content[1].body
<1>1. h + 1 \in T <=> e.type = "text"
  BY DEF PlacesOf
<1>2. h + 1 \in T => P[h + 1] = e.piece
  BY DEF Pieces
<1>3. /\ T \in SUBSET Nat /\ IsFiniteSet(T) /\ DOMAIN P = T
      /\ body \in Seq(Range(body)) /\ Joins(body, <<>>, P)
      /\ Grown(text, body, <<>>, T, h)
  BY TextFramed
<1> HIDE DEF T, P, body
<1>4. IF h + 1 \in T THEN Grown(Append(text, P[h + 1]), body, <<>>, T, h + 1)
      ELSE Grown(text, body, <<>>, T, h + 1)
  BY <1>3, GrownSteps
<1>5. Grown(IF e.type = "text" THEN Append(text, e.piece) ELSE text,
            body, <<>>, T, h + 1)
  BY <1>1, <1>2, <1>4
<1> QED
  BY <1>5 DEF T, body

LEMMA CallsStep ==
  ASSUME NEW st \in Streams, st.response # Nil, st.surface = "openai",
         NEW h \in Nat, h + 1 \in DOMAIN st.events, NEW calls,
         DOMAIN calls = {st.events[p].index : p \in {q \in Calls(st) : q <= h}},
         NEW later,
         later = IF st.events[h + 1].type = "tool_call"
                 THEN GrowCall(calls, st.events[h + 1]) ELSE calls
  PROVE  DOMAIN later = {st.events[p].index : p \in {q \in Calls(st) : q <= h + 1}}
<1> DEFINE e == st.events[h + 1]
<1>1. /\ \A p \in Calls(st) : p \in Nat
      /\ h + 1 \in Calls(st) <=> e.type = "tool_call"
  BY OfType DEF Calls, PlacesOf
<1>2. \A p \in Nat : p <= h + 1 <=> p <= h \/ p = h + 1
  OBVIOUS
<1>3. CASE e.type = "tool_call"
  <2>1. {q \in Calls(st) : q <= h + 1} = {q \in Calls(st) : q <= h} \cup {h + 1}
    BY <1>1, <1>2, <1>3
  <2>2. DOMAIN GrowCall(calls, e) = DOMAIN calls \cup {e.index}
    BY DEF GrowCall
  <2> QED
    BY <1>3, <2>1, <2>2
<1>4. CASE e.type # "tool_call"
  <2>1. {q \in Calls(st) : q <= h + 1} = {q \in Calls(st) : q <= h}
    BY <1>1, <1>2, <1>4
  <2> QED
    BY <1>4, <2>1
<1> QED
  BY <1>3, <1>4

LEMMA OpenAISteps ==
  ASSUME NEW st \in Streams, st.response # Nil, st.surface = "openai",
         NEW h \in Nat, h + 1 \in DOMAIN st.events, NEW a, OpenAIPart(st, a, h)
  PROVE  OpenAIPart(st, ApplyChunk(a, st.events[h + 1]), h + 1)
<1> DEFINE e == st.events[h + 1]
           c == ApplyChunk(a, e)
<1>1. a = [model |-> a.model, text |-> a.text, blocks |-> a.blocks,
           stop |-> a.stop, usage |-> a.usage]
  BY DEF OpenAIPart
<1>2. c = [model  |-> IF e.type \in OpenAITypes THEN e.model ELSE a.model,
           text   |-> IF e.type = "text" THEN Append(a.text, e.piece) ELSE a.text,
           blocks |-> IF e.type = "tool_call" THEN GrowCall(a.blocks, e) ELSE a.blocks,
           stop   |-> IF e.type = "finish" THEN e.stop ELSE a.stop,
           usage  |-> IF e.type = "usage" THEN e.usage ELSE a.usage]
  BY <1>1, ChunkByField
<1> HIDE DEF c
<1>3. /\ c.model = IF e.type \in OpenAITypes THEN e.model ELSE a.model
      /\ c.text = IF e.type = "text" THEN Append(a.text, e.piece) ELSE a.text
      /\ c.blocks = IF e.type = "tool_call" THEN GrowCall(a.blocks, e) ELSE a.blocks
      /\ c.stop = IF e.type = "finish" THEN e.stop ELSE a.stop
      /\ c.usage = IF e.type = "usage" THEN e.usage ELSE a.usage
      /\ c = [model |-> c.model, text |-> c.text, blocks |-> c.blocks,
              stop |-> c.stop, usage |-> c.usage]
  BY <1>2
<1>5. \A type : h + 1 \in PlacesOf(st.events, type) <=> e.type = type
  BY DEF PlacesOf
<1>6. \A type : IsHeard(PlacesOf(st.events, type), h + 1) <=>
                  IsHeard(PlacesOf(st.events, type), h) \/ e.type = type
  BY <1>5, HeardSteps, OfType
<1>7. c.model = IF IsSaid(st, h + 1) THEN st.response.model ELSE Nil
  <2>1. IsSaid(st, h + 1) <=> IsSaid(st, h) \/ e.type \in OpenAITypes
    BY <1>6 DEF IsSaid
  <2>2. e.type \in OpenAITypes => e.model = st.response.model
    BY <1>5, OpenAIFacts
  <2>3. a.model = IF IsSaid(st, h) THEN st.response.model ELSE Nil
    BY DEF OpenAIPart
  <2> QED
    BY <1>3, <2>1, <2>2, <2>3
<1>8. c.stop = IF IsHeard(PlacesOf(st.events, "finish"), h + 1)
               THEN st.response.stop ELSE Nil
  BY <1>3, <1>5, <1>6, OpenAIFacts DEF OpenAIPart
<1>9. c.usage = IF IsHeard(PlacesOf(st.events, "usage"), h + 1) THEN st.response.usage
                ELSE [prompt |-> 0, completion |-> 0, cached |-> 0]
  BY <1>3, <1>5, <1>6, OpenAIFacts DEF OpenAIPart
<1>10. IF Ahead(st) = 0 THEN c.text = <<>>
       ELSE Grown(c.text, st.response.content[1].body, <<>>,
                  PlacesOf(st.events, "text"), h + 1)
  <2>1. CASE Ahead(st) = 0
    <3>1. e.type # "text"
      BY <1>5, <2>1, OpenAIFacts DEF OpenAIFrames, Ahead
    <3> QED
      BY <1>3, <2>1, <3>1 DEF OpenAIPart
  <2>2. CASE Ahead(st) # 0
    <3>1. Ahead(st) = 1
      BY <2>2 DEF Ahead
    <3>2. Grown(a.text, st.response.content[1].body, <<>>,
                PlacesOf(st.events, "text"), h)
      BY <2>2 DEF OpenAIPart
    <3> QED
      BY <1>3, <2>2, <3>1, <3>2, TextGrows
  <2> QED
    BY <2>1, <2>2
<1>11. DOMAIN c.blocks = {st.events[p].index : p \in {q \in Calls(st) : q <= h + 1}}
  <2>1. DOMAIN a.blocks = {st.events[p].index : p \in {q \in Calls(st) : q <= h}}
    BY DEF OpenAIPart
  <2> QED
    BY <1>3, <2>1, CallsStep
<1>12. ASSUME NEW p \in Calls(st)
       PROVE  CallPart(st.events, h + 1, st.events[p].index,
                       CallAt(st, st.events[p].index),
                       CallOf(c.blocks, st.events[p].index))
  <2>1. CallPart(st.events, h, st.events[p].index,
                 CallAt(st, st.events[p].index),
                 CallOf(a.blocks, st.events[p].index))
    BY DEF OpenAIPart
  <2> QED
    BY <1>3, <2>1, CallGrows
<1>13. OpenAIPart(st, c, h + 1)
  BY <1>3, <1>7, <1>8, <1>9, <1>10, <1>11, <1>12 DEF OpenAIPart
<1> QED
  BY <1>13 DEF c

LEMMA NothingGrown ==
  ASSUME NEW S, NEW whole \in Seq(S), NEW pieces,
         NEW places \in SUBSET (Nat \ {0}), IsFiniteSet(places),
         DOMAIN pieces = places, Joins(whole, <<>>, pieces)
  PROVE  Grown(<<>>, whole, <<>>, places, 0)
<1>1. places \in SUBSET Nat /\ \A p \in places : p > 0
  OBVIOUS
<1> QED
  BY <1>1, GrownStarts

LEMMA OpenAIStarts ==
  ASSUME NEW st \in Streams, st.response # Nil, st.surface = "openai"
  PROVE  OpenAIPart(st, BlankOf(st), 0)
<1> DEFINE a == BlankOf(st)
<1>1. a = [model |-> Nil, text |-> <<>>, blocks |-> <<>>, stop |-> Nil,
           usage |-> [prompt |-> 0, completion |-> 0, cached |-> 0]]
  BY DEF BlankOf
<1>2. /\ a.model = Nil /\ a.text = <<>> /\ a.stop = Nil
      /\ a.usage = [prompt |-> 0, completion |-> 0, cached |-> 0]
      /\ DOMAIN a.blocks = {}
      /\ a = [model |-> a.model, text |-> a.text, blocks |-> a.blocks,
              stop |-> a.stop, usage |-> a.usage]
  BY <1>1
<1> HIDE DEF a
<1>3. \A type : ~IsHeard(PlacesOf(st.events, type), 0)
  BY FromOne, NothingHeard
<1>4. ~IsSaid(st, 0) /\ {q \in Calls(st) : q <= 0} = {}
  BY <1>3 DEF IsSaid, IsHeard, Calls
<1>5. Ahead(st) # 0 => Grown(<<>>, st.response.content[1].body, <<>>,
                             PlacesOf(st.events, "text"), 0)
  <2>1. SUFFICES ASSUME Ahead(st) = 1
                 PROVE  Grown(<<>>, st.response.content[1].body, <<>>,
                              PlacesOf(st.events, "text"), 0)
    BY DEF Ahead
  <2> QED
    BY <2>1, TextFramed, NothingGrown
<1>6. ASSUME NEW p \in Calls(st)
      PROVE  CallPart(st.events, 0, st.events[p].index,
                      CallAt(st, st.events[p].index),
                      CallOf(a.blocks, st.events[p].index))
  <2> DEFINE i == st.events[p].index
             call == CallAt(st, i)
  <2>1. IsBlock(call) /\ FramesCall(st.events, i, call)
    BY CallFramed
  <2>2. /\ call.name \in Seq(Range(call.name)) /\ call.body \in Seq(Range(call.body))
        /\ Joins(call.name, <<>>, NamePieces(st.events, i))
        /\ Joins(call.body, <<>>, Pieces(st.events, InputsOf(st.events, i)))
    BY <2>1, BlockFacts DEF FramesCall
  <2>3. CallOf(a.blocks, i) = NoCall
    BY <1>2 DEF CallOf
  <2>4. IsCall(NoCall) /\ NoCall.name = <<>> /\ NoCall.body = <<>>
    BY DEF IsCall, NoCall
  <2> HIDE DEF i, call
  <2>5. /\ Grown(<<>>, call.name, <<>>, NamesOf(st.events, i), 0)
        /\ Grown(<<>>, call.body, <<>>, InputsOf(st.events, i), 0)
    BY <2>2, PartPlaces, NothingGrown
  <2>6. CallPart(st.events, 0, i, call, CallOf(a.blocks, i))
    BY <2>3, <2>4, <2>5 DEF CallPart
  <2> QED
    BY <2>6 DEF i, call
<1>7. OpenAIPart(st, a, 0)
  BY <1>2, <1>3, <1>4, <1>5, <1>6 DEF OpenAIPart
<1> QED
  BY <1>7 DEF a

-----------------------------------------------------------------------------
(* After any number of events the accumulator holds that part of the       *)
(* answer: a least number after which it did not would be neither zero nor *)
(* the successor of one after which it did.                                *)
IsPart(st, a, h) ==
  IF st.surface = "anthropic" THEN AnthropicPart(st, a, h) ELSE OpenAIPart(st, a, h)

LEMMA PartStarts ==
  ASSUME NEW st \in Streams, st.response # Nil
  PROVE  IsPart(st, BlankOf(st), 0)
<1>1. st.surface \in {"anthropic", "openai"}
  BY StreamFacts
<1> QED
  BY <1>1, AnthropicStarts, OpenAIStarts DEF IsPart

LEMMA PartSteps ==
  ASSUME NEW st \in Streams, st.response # Nil, NEW h \in Nat,
         h + 1 \in DOMAIN st.events, NEW a, IsPart(st, a, h)
  PROVE  IsPart(st, ApplyTo(st, a, st.events[h + 1]), h + 1)
<1>1. st.surface \in {"anthropic", "openai"}
  BY StreamFacts
<1> QED
  BY <1>1, AnthropicSteps, OpenAISteps DEF IsPart, ApplyTo

LEMMA ReplayIsPart ==
  ASSUME NEW st \in Streams, st.response # Nil, NEW h \in 0 .. Len(st.events)
  PROVE  IsPart(st, ReplayOf(st, st.events)[h], h)
<1> DEFINE f == ReplayOf(st, st.events)
           Bad == {n \in 0 .. Len(st.events) : ~IsPart(st, f[n], n)}
<1>1. /\ st.events \in Seq(Range(st.events)) /\ Len(st.events) \in Nat
      /\ DOMAIN st.events = 1 .. Len(st.events)
  BY StreamFacts
<1>2. /\ f[0] = BlankOf(st)
      /\ \A n \in 1 .. Len(st.events) : f[n] = ApplyTo(st, f[n - 1], st.events[n])
  BY <1>1, ReplaySteps
<1> HIDE DEF f
<1>3. SUFFICES ASSUME Bad # {} PROVE FALSE
  BY DEF f
<1>4. PICK n \in Bad : \A k \in Bad : n <= k
  <2>1. Bad \in SUBSET Nat
    BY <1>1
  <2> HIDE DEF Bad
  <2> QED
    BY <1>3, <2>1, LeastOfNats
<1>5. n # 0
  BY <1>2, <1>4, PartStarts
<1>6. /\ n \in 1 .. Len(st.events) /\ n - 1 \in 0 .. Len(st.events)
      /\ n - 1 \in Nat /\ (n - 1) + 1 = n /\ n - 1 \notin Bad
  BY <1>1, <1>4, <1>5
<1>7. IsPart(st, f[n - 1], n - 1)
  BY <1>6
<1>8. IsPart(st, ApplyTo(st, f[n - 1], st.events[n]), n)
  <2>1. (n - 1) + 1 \in DOMAIN st.events
    BY <1>1, <1>6
  <2>2. IsPart(st, ApplyTo(st, f[n - 1], st.events[(n - 1) + 1]), (n - 1) + 1)
    BY <1>6, <1>7, <2>1, PartSteps
  <2> QED
    BY <1>6, <2>2
<1>9. IsPart(st, f[n], n)
  BY <1>2, <1>6, <1>8
<1> QED
  BY <1>4, <1>9

-----------------------------------------------------------------------------
(* What the accumulator holds, block after block.                          *)
LEMMA InitialSegment ==
  ASSUME NEW n \in Nat, NEW D \in SUBSET (0 .. n - 1),
         \A j \in D : \A k \in 0 .. j - 1 : k \in D
  PROVE  \E m \in 0 .. n : D = 0 .. m - 1
<1>1. CASE D = {}
  <2>1. 0 \in 0 .. n /\ 0 .. 0 - 1 = {}
    OBVIOUS
  <2> QED
    BY <1>1, <2>1
<1>2. CASE D # {}
  <2>1. D \in SUBSET (0 .. n)
    OBVIOUS
  <2>2. PICK x \in D : \A y \in D : y <= x
    BY <1>2, <2>1, GreatestOfNats
  <2>3. x + 1 \in 0 .. n /\ (x + 1) - 1 = x
    OBVIOUS
  <2>4. D = 0 .. x
    <3>1. \A y \in D : y \in 0 .. x
      BY <2>2
    <3>2. \A y \in 0 .. x : y = x \/ y \in 0 .. x - 1
      OBVIOUS
    <3>3. \A y \in 0 .. x : y \in D
      BY <3>2
    <3> QED
      BY <3>1, <3>3
  <2> QED
    BY <2>3, <2>4
<1> QED
  BY <1>1, <1>2

LEMMA RankOfFirst ==
  ASSUME NEW m \in Nat, NEW i \in 0 .. m - 1
  PROVE  Rank(0 .. m - 1, i) = i + 1
<1>1. {q \in 0 .. m - 1 : q <= i} = 0 .. i
  OBVIOUS
<1>2. Cardinality(0 .. i) = i + 1
  BY FS_Interval
<1> QED
  BY <1>1, <1>2 DEF Rank

LEMMA RankGrows ==
  ASSUME NEW places \in SUBSET Nat, IsFiniteSet(places),
         NEW p \in places, NEW q \in places, p < q
  PROVE  Rank(places, p) < Rank(places, q)
<1> DEFINE P == {r \in places : r <= p}
           Q == {r \in places : r <= q}
<1>1. IsFiniteSet(Q) /\ Cardinality(Q) \in Nat
  BY FS_Subset, FS_CardinalityType
<1>2. q \in Q /\ P \subseteq Q \ {q}
  <2>1. p \in Nat /\ q \in Nat
    OBVIOUS
  <2>2. \A r \in Nat : r <= p => r <= q /\ r # q
    BY <2>1
  <2>3. q \in Q
    BY <2>1
  <2>4. \A r \in P : r \in Nat /\ r \in places /\ r <= p
    OBVIOUS
  <2> HIDE DEF P
  <2>5. \A r \in P : r \in Q /\ r # q
    BY <2>2, <2>4
  <2> HIDE DEF Q
  <2> QED
    BY <2>3, <2>5
<1>3. Rank(places, p) = Cardinality(P) /\ Rank(places, q) = Cardinality(Q)
  BY DEF Rank
<1> HIDE DEF P, Q
<1>4. IsFiniteSet(Q \ {q}) /\ Cardinality(Q \ {q}) = Cardinality(Q) - 1
  BY <1>1, <1>2, FS_RemoveElement
<1>5. Cardinality(P) <= Cardinality(Q \ {q}) /\ Cardinality(P) \in Nat
  BY <1>2, <1>4, FS_Subset, FS_CardinalityType
<1> QED
  BY <1>1, <1>3, <1>4, <1>5

LEMMA EveryRank ==
  ASSUME NEW places \in SUBSET Nat, IsFiniteSet(places),
         NEW n \in 1 .. Cardinality(places)
  PROVE  \E p \in places : Rank(places, p) = n
<1> DEFINE m == Cardinality(places)
           f == [p \in places |-> Rank(places, p)]
<1>1. m \in Nat /\ IsFiniteSet(1 .. m) /\ Cardinality(1 .. m) = m
  BY FS_CardinalityType, FS_Interval
<1>2. ASSUME NEW p \in places PROVE Rank(places, p) \in 1 .. m
  <2>1. Rank(places, p) \in Nat /\ Rank(places, p) <= m
    BY RankSteps
  <2>2. Rank(places, p) # 0
    <3>1. IsFiniteSet({r \in places : r <= p})
      BY FS_Subset
    <3>2. p \in {r \in places : r <= p}
      OBVIOUS
    <3> QED
      BY <3>1, <3>2, FS_EmptySet DEF Rank
  <2> QED
    BY <1>1, <2>1, <2>2
<1>3. ASSUME NEW p \in places, NEW q \in places, f[p] = f[q] PROVE p = q
  <2>1. Rank(places, p) = Rank(places, q)
    BY <1>3
  <2>2. /\ p \in Nat /\ q \in Nat
        /\ Rank(places, p) \in Nat /\ Rank(places, q) \in Nat
    BY RankSteps
  <2>3. ~(p < q) /\ ~(q < p)
    BY <2>1, <2>2, RankGrows
  <2> QED
    BY <2>2, <2>3
<1>4. f \in Injection(places, 1 .. m)
  <2>1. f \in [places -> 1 .. m]
    BY <1>2
  <2> HIDE DEF f
  <2> QED
    BY <1>3, <2>1 DEF Injection, IsInjective
<1>5. f \in Surjection(places, 1 .. m)
  <2> HIDE DEF f, m
  <2>1. Cardinality(places) = Cardinality(1 .. m)
    BY <1>1 DEF m
  <2> QED
    BY <1>1, <1>4, <2>1, FS_Injection
<1>6. \E p \in places : f[p] = n
  <2> HIDE DEF f
  <2> QED
    BY <1>5 DEF Surjection
<1> QED
  BY <1>6

(* Where the n-th of some places is.                                       *)
Position(places, n) == CHOOSE p \in places : Rank(places, p) = n

LEMMA Positions ==
  ASSUME NEW places \in SUBSET Nat, IsFiniteSet(places),
         NEW n \in 1 .. Cardinality(places)
  PROVE  Position(places, n) \in places /\ Rank(places, Position(places, n)) = n
  BY EveryRank DEF Position

LEMMA PositionsAscend ==
  ASSUME NEW places \in SUBSET Nat, IsFiniteSet(places),
         NEW i \in 1 .. Cardinality(places), NEW j \in 1 .. Cardinality(places),
         i < j
  PROVE  Position(places, i) < Position(places, j)
<1>1. PICK p, q : p = Position(places, i) /\ q = Position(places, j)
  OBVIOUS
<1>2. /\ p \in places /\ Rank(places, p) = i
      /\ q \in places /\ Rank(places, q) = j
  BY <1>1, Positions
<1>3. ~(q < p) /\ p # q
  <2>1. i \in Nat /\ j \in Nat
    BY FS_CardinalityType
  <2>2. ~(j < i) /\ i # j
    BY <2>1
  <2> QED
    BY <1>2, <2>2, RankGrows
<1>4. p \in Nat /\ q \in Nat
  BY <1>2
<1> QED
  BY <1>1, <1>3, <1>4

LEMMA FirstPositions ==
  ASSUME NEW m \in Nat
  PROVE  /\ Cardinality(0 .. m - 1) = m /\ IsFiniteSet(0 .. m - 1)
         /\ \A n \in 1 .. m : Position(0 .. m - 1, n) = n - 1
<1>1. Cardinality(0 .. m - 1) = m /\ IsFiniteSet(0 .. m - 1)
  BY FS_Interval
<1>2. ASSUME NEW n \in 1 .. m PROVE Position(0 .. m - 1, n) = n - 1
  <2>1. n - 1 \in 0 .. m - 1 /\ (n - 1) + 1 = n
    OBVIOUS
  <2>2. Rank(0 .. m - 1, n - 1) = n
    BY <2>1, RankOfFirst
  <2>3. \A i \in 0 .. m - 1 : Rank(0 .. m - 1, i) = n => i = n - 1
    <3>1. \A i \in 0 .. m - 1 : Rank(0 .. m - 1, i) = i + 1
      BY RankOfFirst
    <3> QED
      BY <3>1
  <2> QED
    BY <2>1, <2>2, <2>3 DEF Position
<1> QED
  BY <1>1, <1>2

ContentOf(a) == TextBlock(a.text) \o InOrder(a.blocks)

LEMMA ContentIs ==
  ASSUME NEW a, NEW m \in Nat, Cardinality(DOMAIN a.blocks) = m
  PROVE  LET t == IF a.text = <<>> THEN 0 ELSE 1
         IN  /\ DOMAIN ContentOf(a) = 1 .. t + m
             /\ t = 1 => ContentOf(a)[1] =
                           [kind |-> "text", name |-> <<>>, body |-> a.text]
             /\ \A n \in 1 .. m :
                  ContentOf(a)[t + n] = a.blocks[Position(DOMAIN a.blocks, n)]
<1> DEFINE text == [kind |-> "text", name |-> <<>>, body |-> a.text]
           block(n) == a.blocks[Position(DOMAIN a.blocks, n)]
           S == {text} \cup {block(n) : n \in 1 .. m}
           head == TextBlock(a.text)
           rest == InOrder(a.blocks)
           t == IF a.text = <<>> THEN 0 ELSE 1
<1>1. rest = [n \in 1 .. m |-> block(n)]
  BY DEF InOrder, Position
<1>2. \A n \in 1 .. m : block(n) \in S
  OBVIOUS
<1>3. text \in S
  OBVIOUS
<1> HIDE DEF S, text, block
<1>4. rest \in Seq(S) /\ Len(rest) = m /\ \A n \in 1 .. m : rest[n] = block(n)
  BY <1>1, <1>2
<1>5. head \in Seq(S) /\ Len(head) = t /\ (t = 1 => head[1] = text)
  BY <1>3 DEF TextBlock, text
<1> HIDE DEF head, rest
<1>6. /\ head \o rest \in Seq(S) /\ Len(head \o rest) = t + m
      /\ \A i \in 1 .. t : (head \o rest)[i] = head[i]
      /\ \A i \in 1 .. m : (head \o rest)[t + i] = rest[i]
  <2> HIDE DEF t
  <2>0. head \in Seq(S) /\ rest \in Seq(S)
    BY <1>4, <1>5
  <2>1. /\ head \o rest \in Seq(S) /\ Len(head \o rest) = Len(head) + Len(rest)
        /\ \A i \in 1 .. Len(head) : (head \o rest)[i] = head[i]
        /\ \A i \in 1 .. Len(rest) : (head \o rest)[Len(head) + i] = rest[i]
    BY <2>0, JoinSeq
  <2> QED
    BY <1>4, <1>5, <2>1
<1>7. DOMAIN (head \o rest) = 1 .. t + m
  BY <1>6
<1>8. t = 1 => (head \o rest)[1] = text
  BY <1>5, <1>6
<1>9. \A n \in 1 .. m : (head \o rest)[t + n] = block(n)
  BY <1>4, <1>6
<1> QED
  BY <1>7, <1>8, <1>9 DEF ContentOf, head, rest, text, block

LEMMA AnthropicContent ==
  ASSUME NEW st \in Streams, st.response # Nil, st.surface = "anthropic",
         NEW h \in Nat, NEW a, AnthropicPart(st, a, h)
  PROVE  \E m \in 0 .. Len(st.response.content) :
           /\ DOMAIN ContentOf(a) = 1 .. m
           /\ \A n \in 1 .. m :
                \E p \in PlacesOf(st.events, "content_block_start") :
                  /\ p <= h /\ st.events[p].index + 1 = n
                  /\ BlockPart(st.events, h, p, st.response.content[n], ContentOf(a)[n])
           /\ (\A p \in DOMAIN st.events : p <= h) => m = Len(st.response.content)
<1> DEFINE starts == PlacesOf(st.events, "content_block_start")
           size == Len(st.response.content)
           D == {st.events[p].index : p \in {q \in starts : q <= h}}
<1>1. /\ size \in Nat /\ DOMAIN st.response.content = 1 .. size
  <2>1. st.response.content \in Seq(Range(st.response.content))
    BY FramedFacts
  <2> QED
    BY <2>1
<1>2. /\ \A p \in starts : st.events[p].index \in Nat
      /\ {st.events[p].index + 1 : p \in starts} = 1 .. size
      /\ \A p, q \in starts : p < q <=> st.events[p].index < st.events[q].index
  BY <1>1, FramedFacts DEF Frames, AnthropicFrames
<1>3. \A p \in starts : p \in Nat /\ p \in DOMAIN st.events
  BY OfType DEF PlacesOf
<1> HIDE DEF starts, size
<1>4. D \in SUBSET (0 .. size - 1)
  <2>1. ASSUME NEW p \in starts PROVE st.events[p].index \in 0 .. size - 1
    <3>1. st.events[p].index + 1 \in 1 .. size /\ st.events[p].index \in Nat
      BY <1>2
    <3> QED
      BY <1>1, <3>1
  <2> QED
    BY <2>1
<1>5. \A k \in 0 .. size - 1 : \E q \in starts : st.events[q].index = k
  <2>1. SUFFICES ASSUME NEW k \in 0 .. size - 1
                 PROVE  \E q \in starts : st.events[q].index = k
    OBVIOUS
  <2>2. k + 1 \in 1 .. size
    BY <1>1
  <2>3. PICK q \in starts : st.events[q].index + 1 = k + 1
    BY <1>2, <2>2
  <2>4. st.events[q].index = k
    BY <1>2, <2>3
  <2> QED
    BY <2>4
<1>6. ASSUME NEW j \in D, NEW k \in 0 .. j - 1 PROVE k \in D
  <2>1. PICK p \in starts : p <= h /\ st.events[p].index = j
    OBVIOUS
  <2>2. j \in 0 .. size - 1
    BY <1>4
  <2>3. k \in 0 .. size - 1 /\ k < j
    BY <1>1, <2>2
  <2>4. PICK q \in starts : st.events[q].index = k
    BY <1>5, <2>3
  <2>5. q < p
    BY <1>2, <2>1, <2>3, <2>4
  <2>6. q <= h
    BY <1>3, <2>1, <2>5
  <2> QED
    BY <2>4, <2>6
<1>7. PICK m \in 0 .. size : D = 0 .. m - 1
  <2> HIDE DEF D
  <2> QED
    BY <1>1, <1>4, <1>6, InitialSegment
<1>8. /\ DOMAIN a.blocks = D /\ a.text = <<>>
      /\ \A p \in starts : p <= h =>
           BlockPart(st.events, h, p, st.response.content[st.events[p].index + 1],
                     a.blocks[st.events[p].index])
  <2>1. a = [model |-> a.model, text |-> <<>>, blocks |-> a.blocks,
             stop |-> a.stop, usage |-> a.usage]
    BY DEF AnthropicPart
  <2>2. a.text = <<>>
    BY <2>1
  <2> QED
    BY <2>2 DEF AnthropicPart, starts
<1>9. /\ DOMAIN ContentOf(a) = 1 .. m
      /\ \A i \in 0 .. m - 1 : ContentOf(a)[i + 1] = a.blocks[i]
  <2>1. m \in Nat /\ DOMAIN a.blocks = 0 .. m - 1
    BY <1>1, <1>7, <1>8
  <2>2. /\ Cardinality(DOMAIN a.blocks) = m
        /\ \A n \in 1 .. m : Position(DOMAIN a.blocks, n) = n - 1
    BY <2>1, FirstPositions
  <2>3. /\ DOMAIN ContentOf(a) = 1 .. 0 + m
        /\ \A n \in 1 .. m : ContentOf(a)[0 + n] = a.blocks[n - 1]
    BY <1>8, <2>1, <2>2, ContentIs
  <2>4. /\ 0 + m = m
        /\ \A i \in 0 .. m - 1 : i + 1 \in 1 .. m /\ 0 + (i + 1) = i + 1 /\ (i + 1) - 1 = i
    BY <2>1
  <2>5. ASSUME NEW i \in 0 .. m - 1 PROVE ContentOf(a)[i + 1] = a.blocks[i]
    <3>1. ContentOf(a)[0 + (i + 1)] = a.blocks[(i + 1) - 1]
      BY <2>3, <2>4
    <3> QED
      BY <2>4, <3>1
  <2> QED
    BY <2>3, <2>4, <2>5
<1>10. ASSUME NEW n \in 1 .. m
       PROVE  \E p \in starts :
                /\ p <= h /\ st.events[p].index + 1 = n
                /\ BlockPart(st.events, h, p, st.response.content[n], ContentOf(a)[n])
  <2>1. n - 1 \in 0 .. m - 1 /\ (n - 1) + 1 = n
    OBVIOUS
  <2>2. PICK p \in starts : p <= h /\ st.events[p].index = n - 1
    <3>1. n - 1 \in D
      BY <1>7, <2>1
    <3> QED
      BY <3>1
  <2>3. BlockPart(st.events, h, p, st.response.content[n], a.blocks[n - 1])
    BY <1>8, <2>1, <2>2
  <2>4. ContentOf(a)[n] = a.blocks[n - 1]
    BY <1>9, <2>1
  <2> QED
    BY <2>1, <2>2, <2>3, <2>4
<1>11. ASSUME \A p \in DOMAIN st.events : p <= h PROVE m = size
  <2>1. \A p \in starts : p <= h
    BY <1>3, <1>11
  <2>2. SUFFICES ASSUME m < size PROVE FALSE
    BY <1>1, <1>7
  <2>3. m \in 0 .. size - 1
    BY <1>1, <1>7, <2>2
  <2>4. m \in D
    BY <1>5, <2>1, <2>3
  <2>5. m \notin 0 .. m - 1
    BY <2>3
  <2> HIDE DEF D
  <2> QED
    BY <1>7, <2>4, <2>5
<1> QED
  BY <1>7, <1>9, <1>10, <1>11 DEF starts, size

(* What of an OpenAI answer is held: after t blocks of text, the calls of  *)
(* which a part has come.                                                  *)
HoldsCalls(st, h, a, t, size, m, at) ==
  /\ DOMAIN ContentOf(a) = 1 .. t + m
  /\ t = 1 => ContentOf(a)[1] = [kind |-> "text", name |-> <<>>, body |-> a.text]
  /\ Ascending(at)
  /\ \A n \in 1 .. m :
       \E p \in Calls(st) :
         /\ st.events[p].index = at[n]
         /\ CallPart(st.events, h, at[n], CallAt(st, at[n]), ContentOf(a)[t + n])
  /\ (\A p \in DOMAIN st.events : p <= h) => m = size /\ \A n \in 1 .. m : at[n] = n - 1

LEMMA OpenAIContent ==
  ASSUME NEW st \in Streams, st.response # Nil, st.surface = "openai",
         NEW h \in Nat, NEW a, OpenAIPart(st, a, h),
         NEW t, t = IF a.text = <<>> THEN 0 ELSE 1
  PROVE  LET size == Len(st.response.content) - Ahead(st)
         IN  \E m \in Nat : \E at \in [1 .. m -> 0 .. size - 1] :
               HoldsCalls(st, h, a, t, size, m, at)
<1> DEFINE size == Len(st.response.content) - Ahead(st)
           D == {st.events[p].index : p \in {q \in Calls(st) : q <= h}}
           m == Cardinality(D)
           at == [n \in 1 .. m |-> Position(D, n)]
<1>1. size \in Nat /\ Ahead(st) \in Nat
      /\ Ahead(st) + 1 .. Len(st.response.content) = Ahead(st) + 1 .. Ahead(st) + size
  <2>1. st.response.content \in Seq(Range(st.response.content))
    BY FramedFacts
  <2>2. CASE Ahead(st) = 0
    BY <2>1, <2>2
  <2>3. CASE Ahead(st) = 1
    <3>1. 1 \in DOMAIN st.response.content
      BY <2>3, TextFramed
    <3> QED
      BY <2>1, <2>3, <3>1
  <2> QED
    BY <2>2, <2>3 DEF Ahead
<1>2. /\ \A p \in Calls(st) : st.events[p].index \in Nat
      /\ {st.events[p].index + Ahead(st) + 1 : p \in Calls(st)}
           = Ahead(st) + 1 .. Ahead(st) + size
  <2>1. OpenAIFrames(st.events, st.response)
    BY OpenAIFacts
  <2> QED
    BY <1>1, <2>1 DEF OpenAIFrames, Calls, Ahead
<1>3. \A p \in Calls(st) : p \in Nat /\ p \in DOMAIN st.events
  BY OfType DEF Calls, PlacesOf
<1> HIDE DEF size
<1>4. D \in SUBSET (0 .. size - 1)
  <2>1. ASSUME NEW p \in Calls(st) PROVE st.events[p].index \in 0 .. size - 1
    <3>1. /\ st.events[p].index + Ahead(st) + 1 \in Ahead(st) + 1 .. Ahead(st) + size
          /\ st.events[p].index \in Nat
      BY <1>2
    <3> QED
      BY <1>1, <3>1
  <2> QED
    BY <2>1
<1>5. D \in SUBSET Nat /\ IsFiniteSet(D) /\ m \in Nat
  <2> HIDE DEF D
  <2>1. IsFiniteSet(0 .. size - 1) /\ 0 .. size - 1 \subseteq Nat
    BY <1>1, FS_Interval
  <2>2. IsFiniteSet(D)
    BY <1>4, <2>1, FS_Subset
  <2> QED
    BY <1>4, <2>1, <2>2, FS_CardinalityType
<1>6. /\ \A n \in 1 .. m : at[n] = Position(D, n) /\ at[n] \in D
      /\ at \in [1 .. m -> 0 .. size - 1]
  <2> HIDE DEF D
  <2>1. \A n \in 1 .. m : Position(D, n) \in D
    BY <1>5, Positions
  <2> QED
    BY <1>4, <2>1
<1>7. Ascending(at)
  <2> HIDE DEF D
  <2>1. \A i, j \in 1 .. m : i < j => Position(D, i) < Position(D, j)
    BY <1>5, PositionsAscend
  <2> QED
    BY <2>1 DEF Ascending
<1>8. /\ DOMAIN a.blocks = D
      /\ \A p \in Calls(st) :
           CallPart(st.events, h, st.events[p].index,
                    CallAt(st, st.events[p].index),
                    CallOf(a.blocks, st.events[p].index))
  BY DEF OpenAIPart
<1>9. /\ DOMAIN ContentOf(a) = 1 .. t + m
      /\ t = 1 => ContentOf(a)[1] = [kind |-> "text", name |-> <<>>, body |-> a.text]
      /\ \A n \in 1 .. m : ContentOf(a)[t + n] = a.blocks[Position(D, n)]
  <2> HIDE DEF D
  <2> QED
    BY <1>5, <1>8, ContentIs
<1> HIDE DEF m, at
<1>10. ASSUME NEW n \in 1 .. m
       PROVE  \E p \in Calls(st) :
                /\ st.events[p].index = at[n]
                /\ CallPart(st.events, h, at[n], CallAt(st, at[n]), ContentOf(a)[t + n])
  <2>1. at[n] \in D /\ at[n] = Position(D, n)
    BY <1>6
  <2>2. PICK p \in Calls(st) : p <= h /\ st.events[p].index = at[n]
    BY <2>1
  <2>3. CallOf(a.blocks, at[n]) = a.blocks[at[n]]
    BY <1>8, <2>1 DEF CallOf
  <2>4. CallPart(st.events, h, at[n], CallAt(st, at[n]), CallOf(a.blocks, at[n]))
    BY <1>8, <2>2
  <2> HIDE DEF D
  <2> QED
    BY <1>9, <2>1, <2>2, <2>3, <2>4
<1>11. ASSUME \A p \in DOMAIN st.events : p <= h
       PROVE  m = size /\ \A n \in 1 .. m : at[n] = n - 1
  <2>1. ASSUME NEW k \in 0 .. size - 1 PROVE k \in D
    <3>1. k + Ahead(st) + 1 \in Ahead(st) + 1 .. Ahead(st) + size
      BY <1>1
    <3>2. PICK q \in Calls(st) : st.events[q].index + Ahead(st) + 1 = k + Ahead(st) + 1
      BY <1>2, <3>1
    <3>3. st.events[q].index = k /\ q <= h
      BY <1>1, <1>2, <1>3, <1>11, <3>2
    <3> QED
      BY <3>3
  <2>2. D = 0 .. size - 1
    BY <1>4, <2>1
  <2> HIDE DEF D
  <2> QED
    BY <1>1, <1>6, <2>2, FirstPositions DEF m
<1> QED
  BY <1>5, <1>6, <1>7, <1>9, <1>10, <1>11 DEF HoldsCalls, size

-----------------------------------------------------------------------------
(* After the last event it is all there, but for what came of an opaque    *)
(* block in deltas.                                                        *)
HasDropped(st) ==
  \E i, j \in DOMAIN st.events :
    /\ st.events[i].type = "content_block_start"
    /\ st.events[i].kind = "opaque"
    /\ st.events[j].type = "content_block_delta"
    /\ st.events[i].index = st.events[j].index

Remains(st, b, block) ==
  \/ b = block
  \/ /\ HasDropped(st) /\ block.kind = "opaque"
     /\ b = [kind |-> block.kind, name |-> block.name, body |-> b.body]

LEMMA BlockEnds ==
  ASSUME NEW st \in Streams, st.response # Nil, st.surface = "anthropic",
         NEW p \in PlacesOf(st.events, "content_block_start"),
         NEW h \in Nat, \A q \in DOMAIN st.events : q <= h, NEW b,
         BlockPart(st.events, h, p, st.response.content[st.events[p].index + 1], b)
  PROVE  Remains(st, b, st.response.content[st.events[p].index + 1])
<1> DEFINE e == st.events[p]
           block == st.response.content[e.index + 1]
<1>1. IsBlock(block) /\ FramesBlock(st.events, p, block)
  BY BlockJoins
<1>2. BlockPart(st.events, h, p, block, b)
  OBVIOUS
<1> HIDE DEF block
<1>3. /\ e.kind = block.kind
      /\ block.body \in Seq(Range(block.body))
      /\ block.kind \in {"text", "tool_use", "opaque"}
      /\ block = [kind |-> block.kind, name |-> block.name, body |-> block.body]
  BY <1>1, BlockFacts DEF FramesBlock, IsBlock
<1>4. b = [kind |-> block.kind, name |-> block.name, body |-> b.body]
  BY <1>2 DEF BlockPart
<1>5. b.body = block.body => b = block
  BY <1>3, <1>4
<1>6. ASSUME NEW kind PROVE \A q \in DeltasOf(st.events, e.index, kind) : q <= h
  BY DEF DeltasOf, Deltas, PlacesOf
<1>7. CASE block.kind = "text"
  <2> DEFINE D == DeltasOf(st.events, e.index, "text_delta")
             P == Pieces(st.events, D)
  <2>1. /\ D \in SUBSET Nat /\ IsFiniteSet(D) /\ DOMAIN P = D
        /\ \A q \in D : q <= h
    BY <1>6, DeltaPlaces
  <2>2. Joins(block.body, e.body, P) /\ Grown(b.body, block.body, e.body, D, h)
    BY <1>1, <1>2, <1>3, <1>7 DEF FramesBlock, BlockPart
  <2> HIDE DEF D, P
  <2>3. b.body = block.body
    BY <1>3, <2>1, <2>2, GrownEnds
  <2> QED
    BY <1>5, <2>3 DEF Remains, block
<1>8. CASE block.kind = "tool_use"
  <2> DEFINE D == DeltasOf(st.events, e.index, "input_json_delta")
             P == Pieces(st.events, D)
  <2>1. /\ D \in SUBSET Nat /\ IsFiniteSet(D) /\ DOMAIN P = D
        /\ \A q \in D : q <= h
    BY <1>6, DeltaPlaces
  <2>2. Joins(block.body, <<>>, P) /\ Grown(b.body, block.body, <<>>, D, h)
    BY <1>1, <1>2, <1>3, <1>8 DEF FramesBlock, BlockPart
  <2> HIDE DEF D, P
  <2>3. b.body = block.body
    BY <1>3, <2>1, <2>2, GrownEnds
  <2> QED
    BY <1>5, <2>3 DEF Remains, block
<1>9. CASE block.kind = "opaque"
  <2>1. CASE Deltas(st.events, e.index) = {}
    <3>1. b.body = e.body /\ block.body = e.body
      BY <1>1, <1>2, <1>3, <1>9, <2>1 DEF FramesBlock, BlockPart
    <3> QED
      BY <1>5, <3>1 DEF Remains, block
  <2>2. CASE Deltas(st.events, e.index) # {}
    <3>1. HasDropped(st)
      BY <1>3, <1>9, <2>2 DEF HasDropped, Deltas, PlacesOf
    <3> QED
      BY <1>4, <1>9, <3>1 DEF Remains, block
  <2> QED
    BY <2>1, <2>2
<1> QED
  BY <1>3, <1>7, <1>8, <1>9

LEMMA CallEnds ==
  ASSUME NEW st \in Streams, st.response # Nil, st.surface = "openai",
         NEW p \in Calls(st), NEW h \in Nat, \A q \in DOMAIN st.events : q <= h,
         NEW b,
         CallPart(st.events, h, st.events[p].index,
                  CallAt(st, st.events[p].index), b)
  PROVE  b = CallAt(st, st.events[p].index)
<1> DEFINE i == st.events[p].index
           call == CallAt(st, i)
           N == NamesOf(st.events, i)
           I == InputsOf(st.events, i)
           NP == NamePieces(st.events, i)
           IP == Pieces(st.events, I)
<1>1. IsBlock(call) /\ FramesCall(st.events, i, call)
  BY CallFramed
<1>2. /\ call = [kind |-> call.kind, name |-> call.name, body |-> call.body]
      /\ call.name \in Seq(Range(call.name)) /\ call.body \in Seq(Range(call.body))
      /\ call.kind = "tool_use"
      /\ Joins(call.name, <<>>, NP) /\ Joins(call.body, <<>>, IP)
  BY <1>1, BlockFacts DEF FramesCall, IsBlock
<1>3. /\ IsCall(b) /\ Grown(b.name, call.name, <<>>, N, h)
      /\ Grown(b.body, call.body, <<>>, I, h)
  BY DEF CallPart
<1>4. /\ N \in SUBSET Nat /\ IsFiniteSet(N) /\ DOMAIN NP = N
      /\ I \in SUBSET Nat /\ IsFiniteSet(I) /\ DOMAIN IP = I
      /\ N \subseteq DOMAIN st.events /\ I \subseteq DOMAIN st.events
  <2>1. N \subseteq DOMAIN st.events /\ I \subseteq DOMAIN st.events
    BY DEF NamesOf, InputsOf, PartsOf, PlacesOf
  <2> QED
    BY <2>1, PartPlaces
<1> HIDE DEF N, I, NP, IP, call
<1>5. b.name = call.name
  <2>1. \A q \in N : q <= h
    BY <1>4
  <2> QED
    BY <1>2, <1>3, <1>4, <2>1, GrownEnds
<1>6. b.body = call.body
  <2>1. \A q \in I : q <= h
    BY <1>4
  <2> QED
    BY <1>2, <1>3, <1>4, <2>1, GrownEnds
<1>7. b = call
  BY <1>2, <1>3, <1>5, <1>6 DEF IsCall
<1> QED
  BY <1>7 DEF call

LEMMA TextEnds ==
  ASSUME NEW st \in Streams, st.response # Nil, st.surface = "openai",
         NEW h \in Nat, \A q \in DOMAIN st.events : q <= h, NEW a,
         OpenAIPart(st, a, h)
  PROVE  /\ Ahead(st) = 0 => a.text = <<>>
         /\ Ahead(st) = 1 => st.response.content[1] =
                               [kind |-> "text", name |-> <<>>, body |-> a.text]
<1>1. Ahead(st) = 0 => a.text = <<>>
  BY DEF OpenAIPart
<1>2. ASSUME Ahead(st) = 1
      PROVE  st.response.content[1] = [kind |-> "text", name |-> <<>>, body |-> a.text]
  <2> DEFINE T == PlacesOf(st.events, "text")
             P == Pieces(st.events, T)
             block == st.response.content[1]
  <2>1. /\ block.kind = "text" /\ block.name = <<>> /\ IsBlock(block)
        /\ block.body \in Seq(Range(block.body)) /\ Joins(block.body, <<>>, P)
        /\ T \in SUBSET (Nat \ {0}) /\ IsFiniteSet(T) /\ DOMAIN P = T
    BY <1>2, TextFramed
  <2>2. Grown(a.text, block.body, <<>>, T, h)
    BY <1>2 DEF OpenAIPart
  <2>3. \A q \in T : q <= h
    BY DEF PlacesOf
  <2> HIDE DEF T, P, block
  <2>4. a.text = block.body
    BY <2>1, <2>2, <2>3, GrownEnds
  <2>5. block = [kind |-> "text", name |-> <<>>, body |-> a.text]
    BY <2>1, <2>4 DEF IsBlock
  <2> QED
    BY <2>5 DEF block
<1> QED
  BY <1>1, <1>2

(* A text with nothing in it is not there at all.                          *)
IsSilent(st) ==
  /\ st.surface = "openai" /\ HasText(st.response)
  /\ st.response.content[1].body = <<>>

Spoken(st) == IF IsSilent(st) THEN Tail(st.response.content) ELSE st.response.content

LEMMA TailFacts ==
  ASSUME NEW S, NEW s \in Seq(S), s # <<>>
  PROVE  /\ DOMAIN Tail(s) = 1 .. Len(s) - 1
         /\ \A n \in 1 .. Len(s) - 1 : Tail(s)[n] = s[n + 1]
  OBVIOUS

LEMMA ContentEnds ==
  ASSUME NEW st \in Streams, st.response # Nil, NEW h \in Nat,
         \A q \in DOMAIN st.events : q <= h, NEW a, IsPart(st, a, h)
  PROVE  /\ DOMAIN ContentOf(a) = DOMAIN Spoken(st)
         /\ \A n \in DOMAIN ContentOf(a) :
              Remains(st, ContentOf(a)[n], Spoken(st)[n])
<1>1. /\ Len(st.response.content) \in Nat
      /\ DOMAIN st.response.content = 1 .. Len(st.response.content)
      /\ st.response.content \in Seq(Range(st.response.content))
  <2>1. st.response.content \in Seq(Range(st.response.content))
    BY FramedFacts
  <2> QED
    BY <2>1
<1>2. CASE st.surface = "anthropic"
  <2>1. PICK m \in 0 .. Len(st.response.content) :
           /\ DOMAIN ContentOf(a) = 1 .. m
           /\ \A n \in 1 .. m :
                \E p \in PlacesOf(st.events, "content_block_start") :
                  /\ p <= h /\ st.events[p].index + 1 = n
                  /\ BlockPart(st.events, h, p, st.response.content[n], ContentOf(a)[n])
           /\ m = Len(st.response.content)
    BY <1>2, AnthropicContent DEF IsPart
  <2>2. ASSUME NEW n \in 1 .. m
        PROVE  Remains(st, ContentOf(a)[n], st.response.content[n])
    <3>1. PICK p \in PlacesOf(st.events, "content_block_start") :
            /\ st.events[p].index + 1 = n
            /\ BlockPart(st.events, h, p, st.response.content[n], ContentOf(a)[n])
      BY <2>1
    <3> QED
      BY <1>2, <3>1, BlockEnds
  <2>3. Spoken(st) = st.response.content
    BY <1>2 DEF Spoken, IsSilent
  <2> QED
    BY <1>1, <2>1, <2>2, <2>3
<1>3. CASE st.surface = "openai"
  <2> DEFINE k == Ahead(st)
             size == Len(st.response.content) - k
             t == IF a.text = <<>> THEN 0 ELSE 1
  <2>1. OpenAIPart(st, a, h)
    BY <1>3 DEF IsPart
  <2>2. /\ k = 0 => a.text = <<>>
        /\ k = 1 => st.response.content[1] =
                      [kind |-> "text", name |-> <<>>, body |-> a.text]
    BY <1>3, <2>1, TextEnds
  <2>3. /\ DOMAIN ContentOf(a) = 1 .. t + size
        /\ t = 1 => ContentOf(a)[1] = [kind |-> "text", name |-> <<>>, body |-> a.text]
        /\ \A n \in 1 .. size :
             \E p \in Calls(st) :
               /\ st.events[p].index = n - 1
               /\ CallPart(st.events, h, n - 1, CallAt(st, n - 1), ContentOf(a)[t + n])
    <3> HIDE DEF t, size
    <3>1. PICK m \in Nat : \E at \in [1 .. m -> 0 .. size - 1] :
            HoldsCalls(st, h, a, t, size, m, at)
      BY <1>3, <2>1, OpenAIContent DEF t, size
    <3>2. PICK at : HoldsCalls(st, h, a, t, size, m, at)
      BY <3>1
    <3>3. m = size /\ \A n \in 1 .. m : at[n] = n - 1
      BY <3>2 DEF HoldsCalls
    <3> QED
      BY <3>2, <3>3 DEF HoldsCalls
  <2>4. k \in {0, 1} /\ k + size = Len(st.response.content) /\ size \in Nat
    <3>1. k = 1 => 1 \in DOMAIN st.response.content
      BY <1>3, TextFramed
    <3> QED
      BY <1>1, <3>1 DEF Ahead
  <2>5. ASSUME NEW n \in 1 .. size
        PROVE  ContentOf(a)[t + n] = st.response.content[n + k]
    <3>1. PICK j : j = n - 1
      OBVIOUS
    <3>2. PICK p \in Calls(st) :
            /\ st.events[p].index = j
            /\ CallPart(st.events, h, j, CallAt(st, j), ContentOf(a)[t + n])
      BY <2>3, <3>1
    <3>3. ContentOf(a)[t + n] = CallAt(st, j)
      BY <1>3, <3>2, CallEnds
    <3>4. j + k + 1 = n + k
      BY <2>4, <3>1
    <3> QED
      BY <3>3, <3>4 DEF CallAt
  <2> HIDE DEF size
  <2>6. CASE IsSilent(st)
    <3>1. k = 1
      BY <2>6 DEF IsSilent, Ahead
    <3>2. t = 0
      <4>1. st.response.content[1] = [kind |-> "text", name |-> <<>>, body |-> a.text]
        BY <2>2, <3>1
      <4>2. st.response.content[1].body = a.text
        BY <4>1
      <4> QED
        BY <2>6, <4>2 DEF IsSilent
    <3>3. st.response.content # <<>>
      BY <2>6 DEF IsSilent, HasText
    <3>4. /\ DOMAIN Spoken(st) = 1 .. size
          /\ \A n \in 1 .. size : Spoken(st)[n] = st.response.content[n + 1]
      <4>1. Len(st.response.content) - 1 = size
        BY <1>1, <2>4, <3>1
      <4> QED
        BY <1>1, <2>6, <3>3, <4>1, TailFacts DEF Spoken
    <3> HIDE DEF k, t
    <3>5. \A n \in 1 .. size : 0 + n = n
      BY <2>4
    <3>6. \A n \in 1 .. size : ContentOf(a)[n] = Spoken(st)[n]
      BY <2>5, <3>1, <3>2, <3>4, <3>5
    <3>7. DOMAIN ContentOf(a) = 1 .. size
      BY <2>3, <2>4, <3>2
    <3> QED
      BY <3>4, <3>6, <3>7 DEF Remains
  <2>7. CASE ~IsSilent(st)
    <3>1. t = k
      <4>1. CASE k = 1
        <5>1. st.response.content[1] = [kind |-> "text", name |-> <<>>, body |-> a.text]
          BY <2>2, <4>1
        <5>2. st.response.content[1].body = a.text
          BY <5>1
        <5>3. HasText(st.response)
          BY <4>1 DEF Ahead
        <5> QED
          BY <1>3, <2>7, <4>1, <5>2, <5>3 DEF IsSilent
      <4> QED
        BY <2>2, <2>4, <4>1
    <3>2. Spoken(st) = st.response.content
      BY <2>7 DEF Spoken
    <3> HIDE DEF k, t
    <3>3. ASSUME NEW n \in 1 .. Len(st.response.content)
          PROVE  ContentOf(a)[n] = st.response.content[n]
      <4>1. CASE n <= k
        <5>1. k = 1 /\ n = 1 /\ t = 1
          BY <2>4, <3>1, <4>1
        <5> QED
          BY <2>2, <2>3, <5>1
      <4>2. CASE ~(n <= k)
        <5>1. n - k \in 1 .. size /\ t + (n - k) = n /\ (n - k) + k = n
          BY <1>1, <2>4, <3>1, <4>2
        <5>2. ContentOf(a)[t + (n - k)] = st.response.content[(n - k) + k]
          BY <2>5, <5>1
        <5> QED
          BY <5>1, <5>2
      <4> QED
        BY <4>1, <4>2
    <3> QED
      BY <1>1, <2>3, <2>4, <3>1, <3>2, <3>3 DEF Remains
  <2> QED
    BY <2>6, <2>7
<1> QED
  BY <1>2, <1>3, StreamFacts

LEMMA UsageEnds ==
  ASSUME NEW st \in Streams, st.response # Nil, NEW h \in Nat,
         \A q \in DOMAIN st.events : q <= h, NEW a, IsPart(st, a, h),
         a.usage \in [Counters(st.surface) -> Nat]
  PROVE  a.usage = st.response.usage
<1>1. st.response.usage \in [Counters(st.surface) -> Nat]
  BY FramedFacts
<1>2. CASE st.surface = "anthropic"
  <2>1. ASSUME NEW f \in Counters("anthropic")
        PROVE  a.usage[f] = st.response.usage[f]
    <3>1. ComesTo(UsageReports(st.events, f), st.response.usage[f])
      BY <1>1, <1>2, FramedFacts DEF Frames, AnthropicFrames
    <3>2. Latest(UsageReports(st.events, f), h, a.usage[f])
      BY <1>2 DEF IsPart, AnthropicPart
    <3>3. \A q \in DOMAIN UsageReports(st.events, f) : q <= h
      BY DEF UsageReports, PlacesOf
    <3> QED
      BY <3>1, <3>2, <3>3, LatestEnds
  <2> QED
    BY <1>1, <1>2, <2>1
<1>3. CASE st.surface = "openai"
  <2>1. PlacesOf(st.events, "usage") # {}
    BY <1>3, OpenAIFacts DEF OpenAIFrames
  <2>2. IsHeard(PlacesOf(st.events, "usage"), h)
    BY <2>1 DEF IsHeard, PlacesOf
  <2> QED
    BY <1>3, <2>2 DEF IsPart, OpenAIPart
<1> QED
  BY <1>2, <1>3, StreamFacts

LEMMA ReasonEnds ==
  ASSUME NEW st \in Streams, st.response # Nil, NEW h \in Nat,
         \A q \in DOMAIN st.events : q <= h, NEW a, IsPart(st, a, h)
  PROVE  /\ a.model = st.response.model /\ a.model # Nil
         /\ a.stop = st.response.stop /\ a.stop # Nil
<1>1. st.response.model # Nil /\ st.response.stop # Nil
  BY FramedFacts
<1>2. \A type : PlacesOf(st.events, type) # {} =>
                  IsHeard(PlacesOf(st.events, type), h)
  BY DEF IsHeard, PlacesOf
<1>3. CASE st.surface = "anthropic"
  <2>1. /\ PlacesOf(st.events, "message_start") # {}
        /\ PlacesOf(st.events, "message_delta") # {}
    BY <1>3, FramedFacts DEF Frames, AnthropicFrames
  <2> QED
    BY <1>1, <1>2, <1>3, <2>1 DEF IsPart, AnthropicPart
<1>4. CASE st.surface = "openai"
  <2>1. PlacesOf(st.events, "finish") # {}
    BY <1>4, OpenAIFacts DEF OpenAIFrames
  <2>2. IsHeard(PlacesOf(st.events, "finish"), h) /\ IsSaid(st, h)
    BY <1>2, <2>1 DEF IsSaid, OpenAITypes
  <2> QED
    BY <1>1, <1>4, <2>2 DEF IsPart, OpenAIPart
<1> QED
  BY <1>3, <1>4, StreamFacts

Blanked(content) ==
  [i \in DOMAIN content |->
     IF content[i].kind = "opaque" THEN [content[i] EXCEPT !.body = <<>>]
     ELSE content[i]]

LEMMA RemainsCanonical ==
  ASSUME NEW st, NEW b, NEW block, IsBlock(block), Remains(st, b, block),
         NEW surface, NEW c, c = IntoCanonical(surface, b),
         NEW d, d = IntoCanonical(surface, block)
  PROVE  /\ HasDropped(st) \/ c = d
         /\ (IF c.kind = "opaque" THEN [c EXCEPT !.body = <<>>] ELSE c)
              = (IF d.kind = "opaque" THEN [d EXCEPT !.body = <<>>] ELSE d)
<1>1. CASE b = block
  BY <1>1
<1>2. CASE b # block
  <2>1. /\ HasDropped(st) /\ block.kind = "opaque"
        /\ b = [kind |-> block.kind, name |-> block.name, body |-> b.body]
    BY <1>2 DEF Remains
  <2>2. block = [kind |-> block.kind, name |-> block.name, body |-> block.body]
    BY DEF IsBlock
  <2>3. b.kind = "opaque"
    BY <2>1
  <2>4. c = b /\ d = block
    BY <2>1, <2>3 DEF IntoCanonical
  <2>5. PICK none : none = <<>>
    OBVIOUS
  <2>6. /\ [c EXCEPT !.body = none] =
             [kind |-> block.kind, name |-> block.name, body |-> none]
        /\ [d EXCEPT !.body = none] =
             [kind |-> block.kind, name |-> block.name, body |-> none]
    BY <2>1, <2>2, <2>4, ExceptBody
  <2> QED
    BY <2>1, <2>3, <2>4, <2>5, <2>6
<1> QED
  BY <1>1, <1>2

LEMMA CanonicalEnds ==
  ASSUME NEW st, NEW surface, NEW c, NEW full, DOMAIN c = DOMAIN full,
         \A n \in DOMAIN c : Remains(st, c[n], full[n]) /\ IsBlock(full[n])
  PROVE  IF HasDropped(st)
         THEN Blanked(Canonical(surface, c)) = Blanked(Canonical(surface, full))
         ELSE Canonical(surface, c) = Canonical(surface, full)
<1> DEFINE f == Canonical(surface, c)
           g == Canonical(surface, full)
<1>1. /\ f = [n \in DOMAIN c |-> IntoCanonical(surface, c[n])]
      /\ g = [n \in DOMAIN c |-> IntoCanonical(surface, full[n])]
  BY DEF Canonical
<1> HIDE DEF f, g
<1>2. DOMAIN f = DOMAIN c /\ DOMAIN g = DOMAIN c
  BY <1>1
<1>3. ASSUME NEW n \in DOMAIN c
      PROVE  /\ HasDropped(st) \/ f[n] = g[n]
             /\ (IF f[n].kind = "opaque" THEN [f[n] EXCEPT !.body = <<>>] ELSE f[n])
                  = (IF g[n].kind = "opaque" THEN [g[n] EXCEPT !.body = <<>>] ELSE g[n])
  <2>1. f[n] = IntoCanonical(surface, c[n]) /\ g[n] = IntoCanonical(surface, full[n])
    BY <1>1
  <2>2. Remains(st, c[n], full[n]) /\ IsBlock(full[n])
    OBVIOUS
  <2> QED
    BY <2>1, <2>2, RemainsCanonical
<1>4. CASE HasDropped(st)
  <2>1. Blanked(f) = Blanked(g)
    BY <1>2, <1>3 DEF Blanked
  <2> QED
    BY <1>4, <2>1 DEF f, g
<1>5. CASE ~HasDropped(st)
  <2>1. f = g
    BY <1>1, <1>2, <1>3, <1>5
  <2> QED
    BY <1>5, <2>1 DEF f, g
<1> QED
  BY <1>4, <1>5

LEMMA ForgetIs ==
  ASSUME NEW model, NEW content, NEW stop, NEW usage, NEW r,
         r = [model |-> model, content |-> content, stop |-> stop, usage |-> usage]
  PROVE  Forget(r) = [model |-> model, content |-> Blanked(content),
                      stop |-> stop, usage |-> usage]
<1>1. r.content = content
  OBVIOUS
<1>2. PICK blank : blank = Blanked(content)
  OBVIOUS
<1>3. Forget(r) = [r EXCEPT !.content = blank]
  BY <1>1, <1>2 DEF Forget, Blanked
<1>4. PICK q : q = [r EXCEPT !.content = blank]
  OBVIOUS
<1>5. q = [model |-> model, content |-> blank, stop |-> stop, usage |-> usage]
  BY <1>4
<1> QED
  BY <1>2, <1>3, <1>4, <1>5

(* An answer in one piece has the canonical form of its blocks, since the  *)
(* input of an Anthropic tool that is taken as it is does parse.           *)
LEMMA WholeContent ==
  ASSUME stream \in Streams, stream.response # Nil
  PROVE  Whole.content = Canonical(stream.surface, stream.response.content)
<1> DEFINE full == stream.response.content
           surface == stream.surface
<1>1. surface \in {"anthropic", "openai"}
  BY StreamFacts
<1>2. surface = "anthropic" =>
        \A i \in DOMAIN full :
          full[i].kind = "tool_use" => full[i].body \in {<<>>} \cup Json
  BY AnswersAreFramed
<1>3. ASSUME NEW i \in DOMAIN full, full[i].kind = "tool_use"
      PROVE  WholeInput(surface, full[i].body) = ToolInput(surface, full[i].body)
  <2>1. CASE surface = "openai"
    BY <2>1 DEF WholeInput
  <2>2. CASE surface = "anthropic" /\ full[i].body = <<>>
    BY <2>2 DEF WholeInput, ToolInput
  <2>3. CASE surface = "anthropic" /\ full[i].body # <<>>
    <3>1. full[i].body \in Json
      BY <1>2, <1>3, <2>3
    <3> QED
      BY <2>3, <3>1 DEF WholeInput, ToolInput
  <2> QED
    BY <1>1, <2>1, <2>2, <2>3
<1>4. Whole.content =
        [i \in DOMAIN full |-> IF full[i].kind = "tool_use"
                               THEN [full[i] EXCEPT !.body = WholeInput(surface, @)]
                               ELSE full[i]]
  BY DEF Whole
<1> HIDE DEF full, surface
<1>5. ASSUME NEW i \in DOMAIN full
      PROVE  (IF full[i].kind = "tool_use"
              THEN [full[i] EXCEPT !.body = WholeInput(surface, @)] ELSE full[i])
               = IntoCanonical(surface, full[i])
  BY <1>3 DEF IntoCanonical
<1>6. Whole.content = Canonical(surface, full)
  BY <1>4, <1>5 DEF Canonical
<1> QED
  BY <1>6 DEF full, surface

LEMMA SeqIsFunction ==
  ASSUME NEW S, NEW s \in Seq(S), NEW n \in Nat, DOMAIN s = 1 .. n
  PROVE  s = [i \in 1 .. n |-> s[i]]
  OBVIOUS

LEMMA CanonicalTail ==
  ASSUME NEW surface, NEW S, NEW c \in Seq(S), c # <<>>
  PROVE  Tail(Canonical(surface, c)) = Canonical(surface, Tail(c))
<1> DEFINE T == {IntoCanonical(surface, c[i]) : i \in 1 .. Len(c)}
           f == Canonical(surface, c)
           g == Canonical(surface, Tail(c))
<1>1. Len(c) \in Nat /\ Len(c) # 0 /\ DOMAIN c = 1 .. Len(c)
  OBVIOUS
<1>2. f = [i \in 1 .. Len(c) |-> IntoCanonical(surface, c[i])]
  BY <1>1 DEF Canonical
<1>3. \A i \in 1 .. Len(c) : IntoCanonical(surface, c[i]) \in T
  OBVIOUS
<1>4. /\ DOMAIN Tail(c) = 1 .. Len(c) - 1
      /\ \A i \in 1 .. Len(c) - 1 : Tail(c)[i] = c[i + 1]
  BY TailFacts
<1>5. g = [i \in 1 .. Len(c) - 1 |-> IntoCanonical(surface, c[i + 1])]
  BY <1>4 DEF Canonical
<1> HIDE DEF f, g, T
<1>6. f \in Seq(T) /\ Len(f) = Len(c) /\ f # <<>>
  BY <1>1, <1>2, <1>3
<1>7. /\ DOMAIN Tail(f) = 1 .. Len(c) - 1
      /\ \A i \in 1 .. Len(c) - 1 : Tail(f)[i] = f[i + 1]
  BY <1>6, TailFacts
<1>8. \A i \in 1 .. Len(c) - 1 : i + 1 \in 1 .. Len(c)
  BY <1>1
<1>9. Tail(f) = [i \in 1 .. Len(c) - 1 |-> Tail(f)[i]]
  <2>1. Tail(f) \in Seq(T)
    BY <1>6
  <2>2. Len(c) - 1 \in Nat
    BY <1>1
  <2> QED
    BY <1>7, <2>1, <2>2, SeqIsFunction
<1>10. \A i \in 1 .. Len(c) - 1 : Tail(f)[i] = IntoCanonical(surface, c[i + 1])
  BY <1>2, <1>7, <1>8
<1>11. Tail(f) = g
  BY <1>5, <1>9, <1>10
<1> QED
  BY <1>11 DEF f, g

LEMMA ExpectedContent ==
  ASSUME stream \in Streams, stream.response # Nil
  PROVE  Expected = [model |-> Whole.model,
                     content |-> Canonical(stream.surface, Spoken(stream)),
                     stop |-> Whole.stop, usage |-> Whole.usage]
<1>1. SilentText <=> IsSilent(stream)
  BY DEF SilentText, IsSilent
<1>2. stream.response.content \in Seq(Range(stream.response.content))
  BY FramedFacts
<1>3. PICK d : d = Canonical(stream.surface, stream.response.content)
  OBVIOUS
<1>4. Whole = [model |-> Whole.model, content |-> d, stop |-> Whole.stop,
               usage |-> Whole.usage]
  <2>1. Whole = [model |-> Whole.model, content |-> Whole.content,
                 stop |-> Whole.stop, usage |-> Whole.usage]
    BY DEF Whole
  <2> QED
    BY <1>3, <2>1, WholeContent
<1>5. CASE IsSilent(stream)
  <2>1. stream.response.content # <<>>
    BY <1>5 DEF IsSilent, HasText
  <2>2. Tail(d) = Canonical(stream.surface, Spoken(stream))
    BY <1>2, <1>3, <1>5, <2>1, CanonicalTail DEF Spoken
  <2>3. PICK e : e = Tail(d)
    OBVIOUS
  <2>4. PICK w : w = Whole
    OBVIOUS
  <2>5. w = [model |-> w.model, content |-> d, stop |-> w.stop, usage |-> w.usage]
    BY <1>4, <2>4
  <2>6. w.content = d
    BY <2>5
  <2>7. Expected = [w EXCEPT !.content = e]
    BY <1>1, <1>5, <2>3, <2>4, <2>6 DEF Expected
  <2>8. [w EXCEPT !.content = e] =
          [model |-> w.model, content |-> e, stop |-> w.stop, usage |-> w.usage]
    BY <2>5
  <2> QED
    BY <2>2, <2>3, <2>4, <2>7, <2>8
<1>6. CASE ~IsSilent(stream)
  BY <1>1, <1>3, <1>4, <1>6 DEF Expected, Spoken
<1> QED
  BY <1>5, <1>6

LEMMA SpokenBlocks ==
  ASSUME NEW st \in Streams, st.response # Nil
  PROVE  \A n \in DOMAIN Spoken(st) : IsBlock(Spoken(st)[n])
<1>1. /\ st.response.content \in Seq(Range(st.response.content))
      /\ \A n \in DOMAIN st.response.content : IsBlock(st.response.content[n])
  BY FramedFacts
<1>2. CASE IsSilent(st)
  <2> DEFINE c == st.response.content
  <2>1. c # <<>> /\ Spoken(st) = Tail(c)
    BY <1>2 DEF IsSilent, HasText, Spoken
  <2>2. /\ DOMAIN Tail(c) = 1 .. Len(c) - 1
        /\ \A n \in 1 .. Len(c) - 1 : Tail(c)[n] = c[n + 1]
    BY <1>1, <2>1, TailFacts
  <2>3. \A n \in 1 .. Len(c) - 1 : n + 1 \in DOMAIN c
    BY <1>1
  <2> QED
    BY <1>1, <2>1, <2>2, <2>3
<1>3. CASE ~IsSilent(st)
  BY <1>1, <1>3 DEF Spoken
<1> QED
  BY <1>2, <1>3

LEMMA InvWhole == ReplayInv => CompleteStreamIsWhole
<1> SUFFICES ASSUME ReplayInv, committed # Nil, wire = <<>>, stream.response # Nil, ~cut
             PROVE  IF DroppedDelta THEN Forget(committed.response) = Forget(Expected)
                    ELSE committed.response = Expected
  BY DEF CompleteStreamIsWhole, Complete
<1> DEFINE size == Len(stream.events)
           full == stream.response
<1>1. /\ stream \in Streams /\ size \in Nat /\ DOMAIN stream.events = 1 .. size
      /\ acc.usage \in [Counters(stream.surface) -> Nat]
  <2>1. stream \in Streams /\ acc.usage \in [Counters(stream.surface) -> Nat]
    BY DEF ReplayInv, StreamInv, Places, Accumulated, IsAccumulator
  <2> QED
    BY <2>1, StreamFacts
<1>2. /\ committed.response = ResponseOf(stream, acc)
      /\ acc = ReplayOf(stream, stream.events)[handled]
      /\ handled = size
  BY InvCommits DEF CommitsToEvents, ReplayInv, HoldsReplay, Settled
<1>3. IsPart(stream, acc, size) /\ \A q \in DOMAIN stream.events : q <= size
  <2>1. size \in 0 .. size /\ \A q \in DOMAIN stream.events : q <= size
    BY <1>1
  <2> QED
    BY <1>1, <1>2, <2>1, ReplayIsPart
<1> HIDE DEF size
<1>4. /\ DOMAIN ContentOf(acc) = DOMAIN Spoken(stream)
      /\ \A n \in DOMAIN ContentOf(acc) :
           Remains(stream, ContentOf(acc)[n], Spoken(stream)[n])
  BY <1>1, <1>3, ContentEnds
<1>5. \A n \in DOMAIN Spoken(stream) : IsBlock(Spoken(stream)[n])
  BY <1>1, SpokenBlocks
<1> DEFINE c == Canonical(stream.surface, ContentOf(acc))
           d == Canonical(stream.surface, Spoken(stream))
           usage == CanonicalUsage(stream.surface, full.usage)
<1>6. IF HasDropped(stream) THEN Blanked(c) = Blanked(d) ELSE c = d
  BY <1>4, <1>5, CanonicalEnds
<1>7. /\ acc.model = full.model /\ acc.model # Nil
      /\ acc.stop = full.stop /\ acc.stop # Nil
      /\ acc.usage = full.usage
  BY <1>1, <1>3, ReasonEnds, UsageEnds
<1>8. committed.response =
        [model |-> full.model, content |-> c, stop |-> full.stop, usage |-> usage]
  BY <1>2, <1>7 DEF ResponseOf, ContentOf
<1>9. Expected =
        [model |-> full.model, content |-> d, stop |-> full.stop, usage |-> usage]
  <2>1. Whole.model = full.model /\ Whole.stop = full.stop /\ Whole.usage = usage
    BY DEF Whole
  <2> QED
    BY <1>1, <2>1, ExpectedContent
<1>10. DroppedDelta <=> HasDropped(stream)
  BY DEF DroppedDelta, HasDropped
<1> HIDE DEF c, d, usage
<1>11. CASE DroppedDelta
  <2>1. Forget(committed.response) =
          [model |-> full.model, content |-> Blanked(c), stop |-> full.stop,
           usage |-> usage]
    BY <1>8, ForgetIs
  <2>2. Forget(Expected) =
          [model |-> full.model, content |-> Blanked(d), stop |-> full.stop,
           usage |-> usage]
    BY <1>9, ForgetIs
  <2> QED
    BY <1>6, <1>10, <1>11, <2>1, <2>2
<1>12. CASE ~DroppedDelta
  BY <1>6, <1>8, <1>9, <1>10, <1>12
<1> QED
  BY <1>11, <1>12

-----------------------------------------------------------------------------
(* Before the last event: each block is a portion of one of the answer.    *)
IsCutOf(part, whole) == \E n \in 0 .. Len(whole) : part = SubSeq(whole, 1, n)

IsPortion(b, block) ==
  /\ b = [kind |-> block.kind, name |-> b.name, body |-> b.body]
  /\ IsCutOf(b.name, block.name)
  /\ block.kind # "opaque" => IsCutOf(b.body, block.body)

LEMMA GrownIsCut ==
  ASSUME NEW S, NEW whole \in Seq(S), NEW head, NEW pieces,
         NEW places \in SUBSET Nat, IsFiniteSet(places), DOMAIN pieces = places,
         Joins(whole, head, pieces), NEW h \in Nat, NEW body,
         Grown(body, whole, head, places, h)
  PROVE  IsCutOf(body, whole)
<1>1. /\ Len(head) \in Nat /\ Len(whole) \in Nat /\ Rank(places, h) \in Nat
      /\ Len(head) + Rank(places, h) <= Len(whole)
  BY JoinLengths
<1>2. Len(head) + Rank(places, h) \in 0 .. Len(whole)
  BY <1>1
<1> QED
  BY <1>2 DEF Grown, IsCutOf

LEMMA AllIsCut ==
  ASSUME NEW S, NEW whole \in Seq(S)
  PROVE  IsCutOf(whole, whole)
<1>1. Len(whole) \in 0 .. Len(whole) /\ whole = SubSeq(whole, 1, Len(whole))
  OBVIOUS
<1> QED
  BY <1>1 DEF IsCutOf

LEMMA CutIsPrefix ==
  ASSUME NEW S, NEW whole \in Seq(S), NEW part, IsCutOf(part, whole)
  PROVE  IsPrefix(part, whole)
<1>1. PICK n \in 0 .. Len(whole) : part = SubSeq(whole, 1, n)
  BY DEF IsCutOf
<1>2. Len(part) = n /\ part \in Seq(S)
  BY <1>1, CutSeq
<1>3. SubSeq(part, 1, n) = part
  BY <1>2
<1> QED
  BY <1>1, <1>2, <1>3 DEF IsPrefix

LEMMA BlockPortion ==
  ASSUME NEW st \in Streams, st.response # Nil, st.surface = "anthropic",
         NEW p \in PlacesOf(st.events, "content_block_start"), NEW h \in Nat, NEW b,
         BlockPart(st.events, h, p, st.response.content[st.events[p].index + 1], b)
  PROVE  IsPortion(b, st.response.content[st.events[p].index + 1])
<1> DEFINE e == st.events[p]
           block == st.response.content[e.index + 1]
<1>1. IsBlock(block) /\ FramesBlock(st.events, p, block)
  BY BlockJoins
<1>2. BlockPart(st.events, h, p, block, b)
  OBVIOUS
<1> HIDE DEF block
<1>3. /\ e.kind = block.kind
      /\ block.name \in Seq(Range(block.name)) /\ block.body \in Seq(Range(block.body))
      /\ block.kind \in {"text", "tool_use", "opaque"}
  BY <1>1, BlockFacts DEF FramesBlock
<1>4. b = [kind |-> block.kind, name |-> block.name, body |-> b.body]
  BY <1>2 DEF BlockPart
<1>5. b.name = block.name /\ IsCutOf(block.name, block.name)
  BY <1>3, <1>4, AllIsCut
<1>6. ASSUME block.kind = "text" PROVE IsCutOf(b.body, block.body)
  <2> DEFINE D == DeltasOf(st.events, e.index, "text_delta")
             P == Pieces(st.events, D)
  <2>1. D \in SUBSET Nat /\ IsFiniteSet(D) /\ DOMAIN P = D
    BY DeltaPlaces
  <2>2. Joins(block.body, e.body, P) /\ Grown(b.body, block.body, e.body, D, h)
    BY <1>1, <1>2, <1>3, <1>6 DEF FramesBlock, BlockPart
  <2> HIDE DEF D, P
  <2> QED
    BY <1>3, <2>1, <2>2, GrownIsCut
<1>7. ASSUME block.kind = "tool_use" PROVE IsCutOf(b.body, block.body)
  <2> DEFINE D == DeltasOf(st.events, e.index, "input_json_delta")
             P == Pieces(st.events, D)
  <2>1. D \in SUBSET Nat /\ IsFiniteSet(D) /\ DOMAIN P = D
    BY DeltaPlaces
  <2>2. Joins(block.body, <<>>, P) /\ Grown(b.body, block.body, <<>>, D, h)
    BY <1>1, <1>2, <1>3, <1>7 DEF FramesBlock, BlockPart
  <2> HIDE DEF D, P
  <2> QED
    BY <1>3, <2>1, <2>2, GrownIsCut
<1>8. IsPortion(b, block)
  BY <1>3, <1>4, <1>5, <1>6, <1>7 DEF IsPortion
<1> QED
  BY <1>8 DEF block

LEMMA CallPortion ==
  ASSUME NEW st \in Streams, st.response # Nil, st.surface = "openai",
         NEW p \in Calls(st), NEW h \in Nat, NEW b,
         CallPart(st.events, h, st.events[p].index,
                  CallAt(st, st.events[p].index), b)
  PROVE  IsPortion(b, CallAt(st, st.events[p].index))
<1> DEFINE i == st.events[p].index
           call == CallAt(st, i)
           N == NamesOf(st.events, i)
           I == InputsOf(st.events, i)
           NP == NamePieces(st.events, i)
           IP == Pieces(st.events, I)
<1>1. IsBlock(call) /\ FramesCall(st.events, i, call)
  BY CallFramed
<1>2. /\ call.name \in Seq(Range(call.name)) /\ call.body \in Seq(Range(call.body))
      /\ call.kind = "tool_use"
      /\ Joins(call.name, <<>>, NP) /\ Joins(call.body, <<>>, IP)
  BY <1>1, BlockFacts DEF FramesCall
<1>3. /\ IsCall(b) /\ Grown(b.name, call.name, <<>>, N, h)
      /\ Grown(b.body, call.body, <<>>, I, h)
  BY DEF CallPart
<1>4. /\ N \in SUBSET Nat /\ IsFiniteSet(N) /\ DOMAIN NP = N
      /\ I \in SUBSET Nat /\ IsFiniteSet(I) /\ DOMAIN IP = I
  BY PartPlaces
<1> HIDE DEF N, I, NP, IP, call
<1>5. IsCutOf(b.name, call.name)
  BY <1>2, <1>3, <1>4, GrownIsCut
<1>6. IsCutOf(b.body, call.body)
  BY <1>2, <1>3, <1>4, GrownIsCut
<1>7. IsPortion(b, call)
  BY <1>2, <1>3, <1>5, <1>6 DEF IsPortion, IsCall
<1> QED
  BY <1>7 DEF call

LEMMA TextPortion ==
  ASSUME NEW st \in Streams, st.response # Nil, st.surface = "openai",
         Ahead(st) = 1, NEW h \in Nat, NEW text,
         Grown(text, st.response.content[1].body, <<>>, PlacesOf(st.events, "text"), h)
  PROVE  IsPortion([kind |-> "text", name |-> <<>>, body |-> text],
                   st.response.content[1])
<1> DEFINE T == PlacesOf(st.events, "text")
           P == Pieces(st.events, T)
           block == st.response.content[1]
           b == [kind |-> "text", name |-> <<>>, body |-> text]
<1>1. /\ block.kind = "text" /\ block.name = <<>>
      /\ block.body \in Seq(Range(block.body)) /\ Joins(block.body, <<>>, P)
      /\ T \in SUBSET Nat /\ IsFiniteSet(T) /\ DOMAIN P = T
  BY TextFramed
<1>2. Grown(text, block.body, <<>>, T, h)
  OBVIOUS
<1> HIDE DEF T, P, block
<1>3. IsCutOf(text, block.body)
  BY <1>1, <1>2, GrownIsCut
<1>4. IsCutOf(<<>>, <<>>)
  <2>1. <<>> \in Seq({})
    OBVIOUS
  <2> QED
    BY <2>1, AllIsCut
<1>5. b.name = <<>> /\ b.body = text /\ b = [kind |-> "text", name |-> b.name, body |-> b.body]
  OBVIOUS
<1> HIDE DEF b
<1>6. IsPortion(b, block)
  BY <1>1, <1>3, <1>4, <1>5 DEF IsPortion
<1> QED
  BY <1>6 DEF b, block

LEMMA ContentPortions ==
  ASSUME NEW st \in Streams, st.response # Nil, NEW h \in Nat, NEW a,
         IsPart(st, a, h)
  PROVE  \E n \in Nat : \E f \in [1 .. n -> DOMAIN st.response.content] :
           /\ DOMAIN ContentOf(a) = 1 .. n
           /\ Ascending(f)
           /\ st.surface = "anthropic" => \A i \in 1 .. n : f[i] = i
           /\ \A i \in 1 .. n :
                IsPortion(ContentOf(a)[i], st.response.content[f[i]])
<1>1. /\ Len(st.response.content) \in Nat
      /\ DOMAIN st.response.content = 1 .. Len(st.response.content)
  <2>1. st.response.content \in Seq(Range(st.response.content))
    BY FramedFacts
  <2> QED
    BY <2>1
<1>2. CASE st.surface = "anthropic"
  <2>1. PICK m \in 0 .. Len(st.response.content) :
           /\ DOMAIN ContentOf(a) = 1 .. m
           /\ \A n \in 1 .. m :
                \E p \in PlacesOf(st.events, "content_block_start") :
                  /\ p <= h /\ st.events[p].index + 1 = n
                  /\ BlockPart(st.events, h, p, st.response.content[n], ContentOf(a)[n])
    BY <1>2, AnthropicContent DEF IsPart
  <2>2. ASSUME NEW i \in 1 .. m
        PROVE  IsPortion(ContentOf(a)[i], st.response.content[i])
    <3>1. PICK p \in PlacesOf(st.events, "content_block_start") :
            /\ st.events[p].index + 1 = i
            /\ BlockPart(st.events, h, p, st.response.content[i], ContentOf(a)[i])
      BY <2>1
    <3> QED
      BY <1>2, <3>1, BlockPortion
  <2> DEFINE f == [i \in 1 .. m |-> i]
  <2>3. m \in Nat /\ f \in [1 .. m -> DOMAIN st.response.content]
    BY <1>1
  <2>4. Ascending(f) /\ \A i \in 1 .. m : f[i] = i
    BY DEF Ascending
  <2> HIDE DEF f
  <2> QED
    BY <2>1, <2>2, <2>3, <2>4
<1>3. CASE st.surface = "openai"
  <2> DEFINE t == IF a.text = <<>> THEN 0 ELSE 1
             k == Ahead(st)
             size == Len(st.response.content) - k
  <2>1. OpenAIPart(st, a, h)
    BY <1>3 DEF IsPart
  <2>2. PICK m \in Nat : \E at \in [1 .. m -> 0 .. size - 1] :
          HoldsCalls(st, h, a, t, size, m, at)
    BY <1>3, <2>1, OpenAIContent
  <2>3. /\ k \in {0, 1} /\ t \in {0, 1} /\ (t = 1 => k = 1)
        /\ t = 1 => Grown(a.text, st.response.content[1].body, <<>>,
                          PlacesOf(st.events, "text"), h)
    BY <2>1 DEF OpenAIPart, Ahead
  <2>4. k = 1 => 1 \in DOMAIN st.response.content
    BY <1>3, TextFramed
  <2> HIDE DEF t, size
  <2>5. PICK at \in [1 .. m -> 0 .. size - 1] : HoldsCalls(st, h, a, t, size, m, at)
    BY <2>2
  <2> HIDE DEF k
  <2> DEFINE f == [i \in 1 .. t + m |-> IF i <= t THEN 1 ELSE at[i - t] + k + 1]
  <2>6. ASSUME NEW i \in 1 .. t + m, ~(i <= t)
        PROVE  /\ i - t \in 1 .. m /\ at[i - t] \in 0 .. size - 1
               /\ at[i - t] + k + 1 \in DOMAIN st.response.content
               /\ at[i - t] \in Nat /\ t + (i - t) = i
    <3>1. i - t \in 1 .. m /\ t + (i - t) = i
      BY <2>3, <2>5, <2>6
    <3>2. at[i - t] \in 0 .. size - 1
      BY <2>5, <3>1
    <3> QED
      BY <1>1, <2>3, <3>1, <3>2 DEF size
  <2>7. f \in [1 .. t + m -> DOMAIN st.response.content]
    <3>1. \A i \in 1 .. t + m : i <= t => 1 \in DOMAIN st.response.content
      BY <2>3, <2>4
    <3> QED
      BY <2>6, <3>1
  <2>8. Ascending(f)
    <3> SUFFICES ASSUME NEW i \in 1 .. t + m, NEW j \in 1 .. t + m, i < j
                 PROVE  f[i] < f[j]
      BY DEF Ascending
    <3>1. ~(j <= t) /\ f[j] = at[j - t] + k + 1
      BY <2>3
    <3>2. CASE i <= t
      <4>1. f[i] = 1 /\ k = 1
        BY <2>3, <3>2
      <4> QED
        BY <2>6, <3>1, <4>1
    <3>3. CASE ~(i <= t)
      <4>1. f[i] = at[i - t] + k + 1
        BY <3>3
      <4>2. /\ i - t \in 1 .. m /\ j - t \in 1 .. m /\ i - t < j - t
            /\ at[i - t] \in Nat /\ at[j - t] \in Nat
        BY <2>3, <2>6, <3>1, <3>3
      <4>3. at[i - t] < at[j - t]
        BY <2>5, <4>2 DEF HoldsCalls, Ascending
      <4> QED
        BY <2>3, <3>1, <4>1, <4>2, <4>3
    <3> QED
      BY <3>2, <3>3
  <2>9. ASSUME NEW i \in 1 .. t + m
        PROVE  IsPortion(ContentOf(a)[i], st.response.content[f[i]])
    <3>1. CASE i <= t
      <4>1. t = 1 /\ i = 1 /\ k = 1 /\ f[i] = 1
        BY <2>3, <3>1
      <4>2. IsPortion([kind |-> "text", name |-> <<>>, body |-> a.text],
                      st.response.content[1])
        BY <1>3, <2>3, <4>1, TextPortion DEF k
      <4> QED
        BY <2>5, <4>1, <4>2 DEF HoldsCalls
    <3>2. CASE ~(i <= t)
      <4>1. PICK j, x : j = i - t /\ x = at[j]
        OBVIOUS
      <4>2. j \in 1 .. m /\ t + j = i /\ f[i] = x + k + 1
        BY <2>6, <3>2, <4>1
      <4>3. PICK p \in Calls(st) :
              /\ st.events[p].index = x
              /\ CallPart(st.events, h, x, CallAt(st, x), ContentOf(a)[t + j])
        BY <2>5, <4>1, <4>2 DEF HoldsCalls
      <4>4. IsPortion(ContentOf(a)[i], CallAt(st, x))
        BY <1>3, <4>2, <4>3, CallPortion
      <4> QED
        BY <4>2, <4>4 DEF CallAt, k
    <3> QED
      BY <3>1, <3>2
  <2>10. t + m \in Nat
    BY <2>3
  <2> HIDE DEF f
  <2> QED
    BY <1>3, <2>5, <2>7, <2>8, <2>9, <2>10 DEF HoldsCalls
<1> QED
  BY <1>2, <1>3, StreamFacts

-----------------------------------------------------------------------------
(* In canonical form a portion is the part of it the property names.       *)
LEMMA Marked ==
  ASSUME NEW S, NEW pieces \in Seq(S), NEW mark, NEW input,
         input = <<mark>> \o pieces
  PROVE  Head(input) = mark /\ Tail(input) = pieces
<1>1. <<mark>> \in Seq(S \cup {mark}) /\ pieces \in Seq(S \cup {mark})
  OBVIOUS
<1> QED
  BY <1>1

LEMMA InputPart ==
  ASSUME NEW surface \in {"anthropic", "openai"}, NEW S, NEW whole \in Seq(S),
         \A n \in 1 .. Len(whole) - 1 : SubSeq(whole, 1, n) \notin Json,
         NEW pieces, IsCutOf(pieces, whole),
         NEW part, part = ToolInput(surface, pieces),
         NEW full, full = ToolInput(surface, whole)
  PROVE  \/ part \in {full, <<"{}">>}
         \/ surface = "anthropic" /\ part = <<"null">>
         \/ /\ surface = "openai" /\ Head(part) = "string"
            /\ IsPrefix(Tail(part), Tail(full))
<1>1. PICK n \in 0 .. Len(whole) : pieces = SubSeq(whole, 1, n)
  BY DEF IsCutOf
<1>2. pieces \in Seq(S) /\ Len(pieces) = n
  BY <1>1, CutSeq
<1>3. CASE n = 0
  <2>1. pieces = <<>>
    BY <1>2, <1>3
  <2> QED
    BY <2>1 DEF ToolInput
<1>4. CASE n = Len(whole)
  <2>1. pieces = whole
    BY <1>1, <1>4
  <2> QED
    BY <2>1
<1>5. CASE n # 0 /\ n # Len(whole)
  <2>1. n \in 1 .. Len(whole) - 1
    BY <1>5
  <2>2. pieces # <<>> /\ pieces \notin Json /\ whole # <<>>
    BY <1>1, <1>2, <2>1
  <2>3. CASE surface = "anthropic"
    BY <2>2, <2>3 DEF ToolInput
  <2>4. CASE surface = "openai"
    <3>1. part = <<"string">> \o pieces
      BY <2>2, <2>4 DEF ToolInput
    <3>2. full = <<"json">> \o whole \/ full = <<"string">> \o whole
      BY <2>2, <2>4 DEF ToolInput
    <3>3. Head(part) = "string" /\ Tail(part) = pieces
      BY <1>2, <3>1, Marked
    <3>4. Tail(full) = whole
      BY <3>2, Marked
    <3>5. IsPrefix(pieces, whole)
      BY CutIsPrefix
    <3> QED
      BY <2>4, <3>3, <3>4, <3>5
  <2> QED
    BY <2>3, <2>4
<1> QED
  BY <1>3, <1>4, <1>5

LEMMA PortionIsPart ==
  ASSUME NEW surface \in {"anthropic", "openai"}, NEW block, IsBlock(block),
         NEW b, IsPortion(b, block),
         NEW c, c = IntoCanonical(surface, b),
         NEW d, d = IntoCanonical(surface, block)
  PROVE  PartOf(surface, c, d)
<1>1. /\ b.kind = block.kind /\ IsCutOf(b.name, block.name)
      /\ block.kind # "opaque" => IsCutOf(b.body, block.body)
      /\ b = [kind |-> b.kind, name |-> b.name, body |-> b.body]
  BY DEF IsPortion
<1>2. /\ block = [kind |-> block.kind, name |-> block.name, body |-> block.body]
      /\ block.kind \in {"text", "tool_use", "opaque"}
      /\ block.name \in Seq(Range(block.name)) /\ block.body \in Seq(Range(block.body))
  BY DEF IsBlock
<1>3. IsPrefix(b.name, block.name)
  BY <1>1, <1>2, CutIsPrefix
<1>4. CASE block.kind = "tool_use"
  <2>1. PICK part, full : /\ part = ToolInput(surface, b.body)
                          /\ full = ToolInput(surface, block.body)
    OBVIOUS
  <2>2. /\ c = [b EXCEPT !.body = part]
        /\ d = [block EXCEPT !.body = full]
    BY <1>1, <1>4, <2>1 DEF IntoCanonical
  <2>3. /\ c = [kind |-> b.kind, name |-> b.name, body |-> part]
        /\ d = [kind |-> block.kind, name |-> block.name, body |-> full]
    BY <1>1, <1>2, <2>2, ExceptBody
  <2>4. /\ c.kind = "tool_use" /\ d.kind = "tool_use"
        /\ c.name = b.name /\ d.name = block.name /\ c.body = part /\ d.body = full
    BY <1>1, <1>4, <2>3
  <2>5. \A n \in 1 .. Len(block.body) - 1 : SubSeq(block.body, 1, n) \notin Json
    BY <1>4 DEF IsBlock
  <2>6. \/ part \in {full, <<"{}">>}
        \/ surface = "anthropic" /\ part = <<"null">>
        \/ /\ surface = "openai" /\ Head(part) = "string"
           /\ IsPrefix(Tail(part), Tail(full))
    BY <1>1, <1>2, <1>4, <2>1, <2>5, InputPart
  <2> QED
    BY <1>3, <2>4, <2>6 DEF PartOf
<1>5. CASE block.kind # "tool_use"
  <2>1. c = b /\ d = block
    BY <1>1, <1>5 DEF IntoCanonical
  <2>2. CASE block.kind = "text"
    <3>1. IsPrefix(b.body, block.body)
      BY <1>1, <1>2, <2>2, CutIsPrefix
    <3> QED
      BY <1>1, <1>3, <2>1, <2>2, <3>1 DEF PartOf
  <2>3. CASE block.kind = "opaque"
    BY <1>1, <1>3, <2>1, <2>3 DEF PartOf
  <2> QED
    BY <1>2, <1>5, <2>2, <2>3
<1> QED
  BY <1>4, <1>5

LEMMA CanonicalLength ==
  ASSUME NEW surface, NEW c, NEW n \in Nat, DOMAIN c = 1 .. n
  PROVE  /\ DOMAIN Canonical(surface, c) = 1 .. n /\ Len(Canonical(surface, c)) = n
         /\ \A i \in 1 .. n : Canonical(surface, c)[i] = IntoCanonical(surface, c[i])
<1> DEFINE S == {IntoCanonical(surface, c[i]) : i \in 1 .. n}
<1>1. Canonical(surface, c) = [i \in 1 .. n |-> IntoCanonical(surface, c[i])]
  BY DEF Canonical
<1>2. \A i \in 1 .. n : IntoCanonical(surface, c[i]) \in S
  OBVIOUS
<1> HIDE DEF S
<1>3. Canonical(surface, c) \in [1 .. n -> S]
  BY <1>1, <1>2
<1>4. Canonical(surface, c) \in Seq(S) /\ Len(Canonical(surface, c)) = n
  BY <1>3
<1> QED
  BY <1>1, <1>4

LEMMA UsagePart ==
  ASSUME NEW st \in Streams, st.response # Nil, NEW h \in Nat, NEW a,
         IsPart(st, a, h), a.usage \in [Counters(st.surface) -> Nat],
         NEW f \in DOMAIN NoUsage
  PROVE  CanonicalUsage(st.surface, a.usage)[f] <=
           CanonicalUsage(st.surface, st.response.usage)[f]
<1>1. st.response.usage \in [Counters(st.surface) -> Nat]
  BY FramedFacts
<1>2. CanonicalUsage(st.surface, st.response.usage)[f] \in Nat
  BY <1>1, CanonicalCounters, StreamFacts
<1>3. CASE st.surface = "anthropic"
  <2>1. f \in Counters("anthropic")
    BY DEF NoUsage, Counters
  <2>2. ComesTo(UsageReports(st.events, f), st.response.usage[f])
    BY <1>1, <1>3, <2>1, FramedFacts DEF Frames, AnthropicFrames
  <2>3. Latest(UsageReports(st.events, f), h, a.usage[f])
    BY <1>3, <2>1 DEF IsPart, AnthropicPart
  <2>4. a.usage[f] <= st.response.usage[f]
    BY <1>1, <1>3, <2>1, <2>2, <2>3, LatestBounded
  <2> QED
    BY <1>3, <2>4 DEF CanonicalUsage
<1>4. CASE st.surface = "openai"
  <2> DEFINE zeros == [prompt |-> 0, completion |-> 0, cached |-> 0]
  <2>1. a.usage = st.response.usage \/ a.usage = zeros
    BY <1>4 DEF IsPart, OpenAIPart
  <2>2. CanonicalUsage(st.surface, zeros)[f] = 0
    BY <1>4 DEF CanonicalUsage, NoUsage
  <2> HIDE DEF zeros
  <2> QED
    BY <1>2, <2>1, <2>2
<1> QED
  BY <1>3, <1>4, StreamFacts

LEMMA ReasonPart ==
  ASSUME NEW st \in Streams, st.response # Nil, NEW h \in Nat, NEW a,
         IsPart(st, a, h)
  PROVE  a.model \in {Nil, st.response.model} /\ a.stop \in {Nil, st.response.stop}
<1>1. st.surface \in {"anthropic", "openai"}
  BY StreamFacts
<1> QED
  BY <1>1 DEF IsPart, AnthropicPart, OpenAIPart

LEMMA InvPrefix == ReplayInv => PartialIsPrefix
<1> SUFFICES ASSUME ReplayInv, stream.response # Nil, ~cut
             PROVE  LET content == Assembled.content
                    IN  /\ Assembled.model \in {Fallback, Whole.model}
                        /\ Assembled.stop \in {"", Whole.stop}
                        /\ \E f \in [DOMAIN content -> DOMAIN Whole.content] :
                             /\ Ascending(f)
                             /\ stream.surface = "anthropic" =>
                                  \A i \in DOMAIN f : f[i] = i
                             /\ \A i \in DOMAIN content :
                                  PartOf(stream.surface, content[i],
                                         Whole.content[f[i]])
                        /\ \A f \in DOMAIN NoUsage :
                             Assembled.usage[f] <= Whole.usage[f]
  BY DEF PartialIsPrefix
<1> DEFINE full == stream.response
           surface == stream.surface
           content == ContentOf(acc)
<1>1. /\ stream \in Streams /\ surface \in {"anthropic", "openai"}
      /\ acc.usage \in [Counters(surface) -> Nat]
      /\ handled \in 0 .. Len(stream.events) /\ handled \in Nat
  <2>1. /\ stream \in Streams /\ acc.usage \in [Counters(surface) -> Nat]
        /\ handled \in Nat /\ TypeOK
    BY InvTypes
       DEF ReplayInv, StreamInv, Places, Counted, Accumulated, IsAccumulator
  <2> QED
    BY <2>1, StreamFacts DEF TypeOK
<1>2. IsPart(stream, acc, handled)
  <2>1. acc = ReplayOf(stream, stream.events)[handled]
    BY DEF ReplayInv, HoldsReplay
  <2> QED
    BY <1>1, <2>1, ReplayIsPart
<1>3. /\ Assembled.model = IF acc.model = Nil THEN Fallback ELSE acc.model
      /\ Assembled.stop = IF acc.stop = Nil THEN "" ELSE acc.stop
      /\ Assembled.content = Canonical(surface, content)
      /\ Assembled.usage = CanonicalUsage(surface, acc.usage)
      /\ Whole.model = full.model /\ Whole.stop = full.stop
      /\ Whole.content = Canonical(surface, full.content)
      /\ Whole.usage = CanonicalUsage(surface, full.usage)
  BY <1>1, WholeContent DEF Assembled, Whole, ContentOf
<1>4. PICK n \in Nat : \E f \in [1 .. n -> DOMAIN full.content] :
         /\ DOMAIN content = 1 .. n
         /\ Ascending(f)
         /\ surface = "anthropic" => \A i \in 1 .. n : f[i] = i
         /\ \A i \in 1 .. n : IsPortion(content[i], full.content[f[i]])
  BY <1>1, <1>2, ContentPortions
<1>5. PICK f \in [1 .. n -> DOMAIN full.content] :
         /\ DOMAIN content = 1 .. n
         /\ Ascending(f)
         /\ surface = "anthropic" => \A i \in 1 .. n : f[i] = i
         /\ \A i \in 1 .. n : IsPortion(content[i], full.content[f[i]])
  BY <1>4
<1>6. /\ Len(full.content) \in Nat
      /\ DOMAIN full.content = 1 .. Len(full.content)
      /\ \A i \in DOMAIN full.content : IsBlock(full.content[i])
  <2>1. full.content \in Seq(Range(full.content))
    BY <1>1, FramedFacts
  <2> QED
    BY <1>1, <2>1, FramedFacts
<1> HIDE DEF content
<1>7. /\ DOMAIN Assembled.content = 1 .. n
      /\ DOMAIN Whole.content = 1 .. Len(full.content)
      /\ \A i \in 1 .. n : Assembled.content[i] = IntoCanonical(surface, content[i])
      /\ \A i \in 1 .. Len(full.content) :
           Whole.content[i] = IntoCanonical(surface, full.content[i])
  <2>1. /\ DOMAIN Canonical(surface, content) = 1 .. n
        /\ \A i \in 1 .. n :
             Canonical(surface, content)[i] = IntoCanonical(surface, content[i])
    BY <1>5, CanonicalLength
  <2>2. /\ DOMAIN Canonical(surface, full.content) = 1 .. Len(full.content)
        /\ \A i \in 1 .. Len(full.content) :
             Canonical(surface, full.content)[i]
               = IntoCanonical(surface, full.content[i])
    BY <1>6, CanonicalLength
  <2> QED
    BY <1>3, <2>1, <2>2
<1>8. ASSUME NEW i \in 1 .. n
      PROVE  PartOf(surface, Assembled.content[i], Whole.content[f[i]])
  <2>1. f[i] \in 1 .. Len(full.content)
    BY <1>5, <1>6
  <2>2. IsPortion(content[i], full.content[f[i]]) /\ IsBlock(full.content[f[i]])
    BY <1>5, <1>6, <2>1
  <2> QED
    BY <1>1, <1>7, <2>1, <2>2, PortionIsPart
<1>9. \A u \in DOMAIN NoUsage : Assembled.usage[u] <= Whole.usage[u]
  BY <1>1, <1>2, <1>3, UsagePart
<1>10. /\ Assembled.model \in {Fallback, Whole.model}
       /\ Assembled.stop \in {"", Whole.stop}
  BY <1>1, <1>2, <1>3, ReasonPart
<1>11. /\ f \in [DOMAIN Assembled.content -> DOMAIN Whole.content]
       /\ DOMAIN f = 1 .. n
  BY <1>5, <1>6, <1>7
<1> QED
  BY <1>5, <1>7, <1>8, <1>9, <1>10, <1>11

-----------------------------------------------------------------------------
(* A stream received to its end commits to the response the same answer    *)
(* would have come to in one piece, for every answer framed as the         *)
(* providers frame theirs, of any number of blocks, texts and inputs in    *)
(* any number of pieces, cut into chunks in any way that cuts no           *)
(* character.  Two exceptions: what of an opaque block came in deltas, and  *)
(* an OpenAI text with nothing in it.                                      *)
THEOREM CompleteStreamsAreWhole == Spec => []CompleteStreamIsWhole
<1>1. Init => ReplayInv
  BY ReplayInit
<1>2. ReplayInv /\ [Next]_vars => ReplayInv'
  BY ReplayStep
<1> QED
  BY <1>1, <1>2, InvWhole, PTL DEF Spec

(* Wherever such a stream breaks off, what has been assembled by then is a *)
(* part of that response: no block but its own, in their order, whichever  *)
(* call the provider began with, no text but the start of one of its, no   *)
(* input that parses but is not whole, no counter above its final value,   *)
(* no stop reason but its own.                                             *)
THEOREM PartialStreamsArePrefixes == Spec => []PartialIsPrefix
<1>1. Init => ReplayInv
  BY ReplayInit
<1>2. ReplayInv /\ [Next]_vars => ReplayInv'
  BY ReplayStep
<1> QED
  BY <1>1, <1>2, InvPrefix, PTL DEF Spec

=============================================================================
