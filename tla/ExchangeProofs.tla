--------------------------- MODULE ExchangeProofs ---------------------------
(***************************************************************************)
(* What Exchange and SignedMessage promise, for every value of their       *)
(* constants: any requests and answers, any radix of the length prefix and *)
(* width of the integers, any limit of the JSON numbers.                   *)
(*                                                                         *)
(* The argument has three parts.  That the message determines the receipt: *)
(* a length and an integer are read off the bytes they were written to     *)
(* (LengthsWrittenAlike, UlebDelimited, LittleEndianInjective), so is each *)
(* field (BcsDelimited), and pieces that each end where they say can be    *)
(* taken apart again (FlattenInjective, MessageInjective).  That the three *)
(* writers of the message agree (EnclaveWritesBcs, OnChainAlike).  And     *)
(* that the handlers sign receipts of the right kinds, which say of their  *)
(* response and of the upstream request what is so (ExchangeInv).          *)
(*                                                                         *)
(* What a recursive function or a fold computes is shown by minimal        *)
(* counterexample, with LeastOfNats and GreatestOfNats of NatFacts.        *)
(***************************************************************************)
EXTENDS Exchange, NatFacts, TLAPS

-----------------------------------------------------------------------------
(* Powers.  Their equation is proved as that of every recursive function   *)
(* here: there is a function for each bound, any two agree where both are  *)
(* defined, and so the values at each place make one for all numbers.      *)
IsPower(base, m, f) ==
  f = [k \in 0 .. m |-> IF k = 0 THEN 1 ELSE base * f[k - 1]]

LEMMA PowerGrows ==
  ASSUME NEW base, NEW m \in Nat, NEW f, IsPower(base, m, f)
  PROVE  \E g : IsPower(base, m + 1, g)
<1> DEFINE g == [k \in 0 .. m + 1 |-> IF k <= m THEN f[k] ELSE base * f[m]]
<1>1. \A k \in 0 .. m : f[k] = IF k = 0 THEN 1 ELSE base * f[k - 1]
  BY DEF IsPower
<1>2. ASSUME NEW k \in 0 .. m + 1
      PROVE  g[k] = IF k = 0 THEN 1 ELSE base * g[k - 1]
  <2>1. CASE k <= m
    <3>1. k \in 0 .. m /\ (k # 0 => k - 1 \in 0 .. m + 1 /\ k - 1 <= m)
      BY <2>1
    <3>2. g[k] = f[k] /\ (k # 0 => g[k - 1] = f[k - 1])
      BY <2>1, <3>1
    <3> HIDE DEF g
    <3> QED
      BY <1>1, <3>1, <3>2
  <2>2. CASE ~(k <= m)
    <3>1. k = m + 1 /\ k # 0 /\ k - 1 = m /\ m \in 0 .. m + 1
      BY <2>2
    <3>2. g[k] = base * f[m] /\ g[m] = f[m]
      BY <2>2, <3>1
    <3> HIDE DEF g
    <3> QED
      BY <3>1, <3>2
  <2> QED
    BY <2>1, <2>2
<1>3. g = [k \in 0 .. m + 1 |-> g[k]]
  OBVIOUS
<1> HIDE DEF g
<1>4. g = [k \in 0 .. m + 1 |-> IF k = 0 THEN 1 ELSE base * g[k - 1]]
  BY <1>2, <1>3
<1> QED
  BY <1>4 DEF IsPower

LEMMA PowerExists ==
  ASSUME NEW base, NEW m \in Nat
  PROVE  \E f : IsPower(base, m, f)
<1> DEFINE None == {n \in Nat : ~ \E f : IsPower(base, n, f)}
<1>1. SUFFICES ASSUME None # {} PROVE FALSE
  OBVIOUS
<1>2. PICK n \in None : \A k \in None : n <= k
  <2>1. None \in SUBSET Nat
    OBVIOUS
  <2> HIDE DEF None
  <2> QED
    BY <1>1, <2>1, LeastOfNats
<1>3. n # 0
  <2> DEFINE f == [k \in 0 .. 0 |-> 1]
  <2>1. f = [k \in 0 .. 0 |-> IF k = 0 THEN 1 ELSE base * f[k - 1]]
    OBVIOUS
  <2> QED
    BY <2>1 DEF IsPower
<1>4. n - 1 \in Nat /\ n - 1 \notin None
  BY <1>2, <1>3
<1>5. PICK f : IsPower(base, n - 1, f)
  BY <1>4
<1>6. \E g : IsPower(base, (n - 1) + 1, g)
  BY <1>4, <1>5, PowerGrows
<1>7. (n - 1) + 1 = n
  OBVIOUS
<1> QED
  BY <1>2, <1>6, <1>7

LEMMA PowerUnique ==
  ASSUME NEW base, NEW m \in Nat, NEW n \in Nat, NEW f, NEW g,
         IsPower(base, m, f), IsPower(base, n, g)
  PROVE  \A k \in 0 .. m : k <= n => f[k] = g[k]
<1> DEFINE Bad == {k \in 0 .. m : k <= n /\ f[k] # g[k]}
<1>1. SUFFICES ASSUME Bad # {} PROVE FALSE
  OBVIOUS
<1>2. PICK k \in Bad : \A j \in Bad : k <= j
  <2>1. Bad \in SUBSET Nat
    OBVIOUS
  <2> HIDE DEF Bad
  <2> QED
    BY <1>1, <2>1, LeastOfNats
<1>3. k \in 0 .. m /\ k \in 0 .. n /\ f[k] # g[k]
  OBVIOUS
<1>4. /\ f[k] = IF k = 0 THEN 1 ELSE base * f[k - 1]
      /\ g[k] = IF k = 0 THEN 1 ELSE base * g[k - 1]
  BY <1>3 DEF IsPower
<1>5. k # 0 => k - 1 \in 0 .. m /\ k - 1 <= n /\ k - 1 \notin Bad
  BY <1>2
<1>6. k # 0 => f[k - 1] = g[k - 1]
  BY <1>5
<1> QED
  BY <1>3, <1>4, <1>6

LEMMA PowerSteps ==
  ASSUME NEW base
  PROVE  /\ Power(base)[0] = 1
         /\ \A k \in Nat : Power(base)[k + 1] = base * Power(base)[k]
<1> DEFINE At(m) == CHOOSE f : IsPower(base, m, f)
           p == [k \in Nat |-> At(k)[k]]
           IsAll(f) == f = [k \in Nat |-> IF k = 0 THEN 1 ELSE base * f[k - 1]]
<1>1. \A m \in Nat : IsPower(base, m, At(m))
  BY PowerExists
<1> HIDE DEF At
<1>2. ASSUME NEW k \in Nat
      PROVE  p[k] = IF k = 0 THEN 1 ELSE base * p[k - 1]
  <2>1. At(k)[k] = IF k = 0 THEN 1 ELSE base * At(k)[k - 1]
    <3>1. IsPower(base, k, At(k)) /\ k \in 0 .. k
      BY <1>1
    <3> QED
      BY <3>1 DEF IsPower
  <2>2. ASSUME k # 0 PROVE At(k)[k - 1] = At(k - 1)[k - 1]
    <3>1. k - 1 \in Nat /\ k - 1 \in 0 .. k - 1 /\ k - 1 <= k
      BY <2>2
    <3>2. IsPower(base, k, At(k)) /\ IsPower(base, k - 1, At(k - 1))
      BY <1>1, <3>1
    <3>3. \A j \in 0 .. k - 1 : j <= k => At(k - 1)[j] = At(k)[j]
      BY <3>1, <3>2, PowerUnique
    <3> QED
      BY <3>1, <3>3
  <2>3. k # 0 => k - 1 \in Nat
    OBVIOUS
  <2> QED
    BY <2>1, <2>2, <2>3
<1>3. p = [k \in Nat |-> p[k]]
  OBVIOUS
<1> HIDE DEF p
<1>4. IsAll(p)
  BY <1>2, <1>3
<1>5. Power(base) = CHOOSE f : IsAll(f)
  BY DEF Power
<1>6. IsAll(Power(base))
  <2> HIDE DEF IsAll
  <2> QED
    BY <1>4, <1>5
<1>7. \A k \in Nat : Power(base)[k] = IF k = 0 THEN 1 ELSE base * Power(base)[k - 1]
  <2> DEFINE q == Power(base)
  <2>1. q = [k \in Nat |-> IF k = 0 THEN 1 ELSE base * q[k - 1]]
    BY <1>6
  <2> HIDE DEF q
  <2>2. \A k \in Nat : q[k] = IF k = 0 THEN 1 ELSE base * q[k - 1]
    BY <2>1
  <2> QED
    BY <2>2 DEF q
<1>8. \A k \in Nat : k + 1 \in Nat /\ k + 1 # 0 /\ (k + 1) - 1 = k
  OBVIOUS
<1> QED
  BY <1>7, <1>8

LEMMA PowerPositive ==
  ASSUME NEW base \in Nat \ {0}
  PROVE  \A k \in Nat : Power(base)[k] \in Nat \ {0}
<1> DEFINE Bad == {k \in Nat : Power(base)[k] \notin Nat \ {0}}
<1>1. SUFFICES ASSUME Bad # {} PROVE FALSE
  OBVIOUS
<1>2. PICK k \in Bad : \A j \in Bad : k <= j
  <2>1. Bad \in SUBSET Nat
    OBVIOUS
  <2> HIDE DEF Bad
  <2> QED
    BY <1>1, <2>1, LeastOfNats
<1>3. k # 0
  BY PowerSteps
<1>4. k - 1 \in Nat /\ k - 1 \notin Bad
  BY <1>2, <1>3
<1>5. Power(base)[k - 1] \in Nat \ {0}
  BY <1>4
<1>6. Power(base)[(k - 1) + 1] = base * Power(base)[k - 1] /\ (k - 1) + 1 = k
  BY <1>4, PowerSteps
<1>7. \A x \in Nat \ {0} : base * x \in Nat \ {0}
  OBVIOUS
<1> QED
  BY <1>2, <1>5, <1>6, <1>7

-----------------------------------------------------------------------------
(* Sequences put together one after the other.                             *)
IsFlat(seqs, m, f) ==
  f = [i \in 1 .. m |-> IF i = 1 THEN seqs[i] ELSE f[i - 1] \o seqs[i]]

LEMMA FlatGrows ==
  ASSUME NEW seqs, NEW m \in Nat, NEW f, IsFlat(seqs, m, f)
  PROVE  \E g : IsFlat(seqs, m + 1, g)
<1> DEFINE g == [i \in 1 .. m + 1 |-> IF i <= m THEN f[i]
                                      ELSE IF i = 1 THEN seqs[i]
                                      ELSE f[m] \o seqs[i]]
<1>1. \A i \in 1 .. m : f[i] = IF i = 1 THEN seqs[i] ELSE f[i - 1] \o seqs[i]
  BY DEF IsFlat
<1>2. ASSUME NEW i \in 1 .. m + 1
      PROVE  g[i] = IF i = 1 THEN seqs[i] ELSE g[i - 1] \o seqs[i]
  <2>1. CASE i <= m
    <3>1. i \in 1 .. m /\ (i # 1 => i - 1 \in 1 .. m + 1 /\ i - 1 <= m)
      BY <2>1
    <3>2. g[i] = f[i] /\ (i # 1 => g[i - 1] = f[i - 1])
      BY <2>1, <3>1
    <3> HIDE DEF g
    <3> QED
      BY <1>1, <3>1, <3>2
  <2>2. CASE ~(i <= m) /\ i = 1
    BY <2>2
  <2>3. CASE ~(i <= m) /\ i # 1
    <3>1. i = m + 1 /\ i - 1 = m /\ m \in 1 .. m + 1
      BY <2>3
    <3>2. g[i] = f[m] \o seqs[i]
      <4>1. g[i] = IF i <= m THEN f[i] ELSE IF i = 1 THEN seqs[i] ELSE f[m] \o seqs[i]
        OBVIOUS
      <4> HIDE DEF g
      <4> QED
        BY <2>3, <4>1
    <3>3. g[m] = f[m]
      BY <3>1
    <3> HIDE DEF g
    <3> QED
      BY <2>3, <3>1, <3>2, <3>3
  <2> QED
    BY <2>1, <2>2, <2>3
<1>3. g = [i \in 1 .. m + 1 |-> g[i]]
  OBVIOUS
<1> HIDE DEF g
<1>4. g = [i \in 1 .. m + 1 |-> IF i = 1 THEN seqs[i] ELSE g[i - 1] \o seqs[i]]
  BY <1>2, <1>3
<1> QED
  BY <1>4 DEF IsFlat

LEMMA FlatExists ==
  ASSUME NEW seqs, NEW m \in Nat
  PROVE  \E f : IsFlat(seqs, m, f)
<1> DEFINE None == {n \in Nat : ~ \E f : IsFlat(seqs, n, f)}
<1>1. SUFFICES ASSUME None # {} PROVE FALSE
  OBVIOUS
<1>2. PICK n \in None : \A k \in None : n <= k
  <2>1. None \in SUBSET Nat
    OBVIOUS
  <2> HIDE DEF None
  <2> QED
    BY <1>1, <2>1, LeastOfNats
<1>3. n # 0
  <2> DEFINE f == [i \in 1 .. 0 |-> {}]
  <2>1. f = [i \in 1 .. 0 |-> IF i = 1 THEN seqs[i] ELSE f[i - 1] \o seqs[i]]
    OBVIOUS
  <2> QED
    BY <2>1 DEF IsFlat
<1>4. n - 1 \in Nat /\ n - 1 \notin None
  BY <1>2, <1>3
<1>5. PICK f : IsFlat(seqs, n - 1, f)
  BY <1>4
<1>6. \E g : IsFlat(seqs, (n - 1) + 1, g)
  BY <1>4, <1>5, FlatGrows
<1>7. (n - 1) + 1 = n
  OBVIOUS
<1> QED
  BY <1>2, <1>6, <1>7

(* f has what the first pieces come to, for each number of them.           *)
Joins(f, seqs) ==
  /\ f[1] = seqs[1]
  /\ \A i \in 2 .. Len(seqs) : f[i] = f[i - 1] \o seqs[i]
  /\ FlattenSeq(seqs) = f[Len(seqs)]

LEMMA FlattenJoins ==
  ASSUME NEW S, NEW seqs \in Seq(S), Len(seqs) # 0
  PROVE  \E f : Joins(f, seqs)
<1>1. Len(seqs) \in Nat \ {0}
  OBVIOUS
<1> DEFINE f == CHOOSE g : IsFlat(seqs, Len(seqs), g)
<1>2. IsFlat(seqs, Len(seqs), f)
  BY <1>1, FlatExists
<1>3. FlattenSeq(seqs) = f[Len(seqs)]
  BY <1>1 DEF FlattenSeq, IsFlat
<1> HIDE DEF f
<1>4. \A i \in 1 .. Len(seqs) : f[i] = IF i = 1 THEN seqs[i] ELSE f[i - 1] \o seqs[i]
  BY <1>2 DEF IsFlat
<1>5. 1 \in 1 .. Len(seqs)
  BY <1>1
<1>6. f[1] = seqs[1]
  BY <1>4, <1>5
<1>7. \A i \in 2 .. Len(seqs) : i \in 1 .. Len(seqs) /\ i # 1
  BY <1>1
<1>8. \A i \in 2 .. Len(seqs) : f[i] = f[i - 1] \o seqs[i]
  BY <1>4, <1>7
<1> QED
  BY <1>3, <1>6, <1>8 DEF Joins

LEMMA JoinsTyped ==
  ASSUME NEW S, NEW seqs \in Seq(Seq(S)), NEW f, Joins(f, seqs)
  PROVE  \A i \in 1 .. Len(seqs) : f[i] \in Seq(S)
<1> DEFINE Bad == {i \in 1 .. Len(seqs) : f[i] \notin Seq(S)}
<1>1. SUFFICES ASSUME Bad # {} PROVE FALSE
  OBVIOUS
<1>2. PICK i \in Bad : \A j \in Bad : i <= j
  <2>1. Bad \in SUBSET Nat
    OBVIOUS
  <2> HIDE DEF Bad
  <2> QED
    BY <1>1, <2>1, LeastOfNats
<1>3. i \in 1 .. Len(seqs) /\ seqs[i] \in Seq(S)
  OBVIOUS
<1>4. i # 1
  BY <1>3 DEF Joins
<1>5. i \in 2 .. Len(seqs) /\ i - 1 \in 1 .. Len(seqs) /\ i - 1 \notin Bad
  BY <1>2, <1>3, <1>4
<1>6. f[i - 1] \in Seq(S) /\ f[i] = f[i - 1] \o seqs[i]
  BY <1>5 DEF Joins
<1>7. f[i] \in Seq(S)
  BY <1>3, <1>6
<1> QED
  BY <1>7

(* Sequences put together and taken apart.                                 *)
LEMMA SeqAssociative ==
  ASSUME NEW S, NEW s \in Seq(S), NEW t \in Seq(S), NEW u \in Seq(S)
  PROVE  (s \o t) \o u = s \o (t \o u)
  OBVIOUS

IsAssociative(S) == \A s, t, u \in Seq(S) : (s \o t) \o u = s \o (t \o u)

LEMMA SeqAllAssociative ==
  ASSUME NEW S
  PROVE  IsAssociative(S)
  BY SeqAssociative DEF IsAssociative

IsConcat(S, v, s, t) ==
  /\ v \in Seq(S) /\ Len(v) = Len(s) + Len(t)
  /\ \A i \in 1 .. Len(s) : v[i] = s[i]
  /\ \A i \in 1 .. Len(t) : v[Len(s) + i] = t[i]

LEMMA SeqPlaces ==
  ASSUME NEW S, NEW s \in Seq(S), NEW t \in Seq(S)
  PROVE  IsConcat(S, s \o t, s, t)
<1>1. s \o t \in Seq(S) /\ Len(s \o t) = Len(s) + Len(t)
  OBVIOUS
<1>2. /\ \A i \in 1 .. Len(s) : (s \o t)[i] = s[i]
      /\ \A i \in 1 .. Len(t) : (s \o t)[Len(s) + i] = t[i]
  OBVIOUS
<1> QED
  BY <1>1, <1>2 DEF IsConcat

LEMMA SeqCancel ==
  ASSUME NEW S, NEW s \in Seq(S), NEW t \in Seq(S), NEW u \in Seq(S),
         s \o t = s \o u
  PROVE  t = u
<1>1. /\ Len(s \o t) = Len(s) + Len(t) /\ Len(s \o u) = Len(s) + Len(u)
      /\ \A i \in 1 .. Len(t) : (s \o t)[Len(s) + i] = t[i]
      /\ \A i \in 1 .. Len(u) : (s \o u)[Len(s) + i] = u[i]
  OBVIOUS
<1>2. Len(t) = Len(u)
  BY <1>1
<1>3. \A i \in 1 .. Len(t) : t[i] = u[i]
  BY <1>1, <1>2
<1> QED
  BY <1>2, <1>3

(* Equal in their first parts when these are of one length.                *)
LEMMA SeqSplit ==
  ASSUME NEW S, NEW s \in Seq(S), NEW t \in Seq(S), NEW u \in Seq(S),
         NEW v \in Seq(S), Len(s) = Len(t), s \o u = t \o v
  PROVE  s = t /\ u = v
<1>1. /\ \A i \in 1 .. Len(s) : (s \o u)[i] = s[i]
      /\ \A i \in 1 .. Len(t) : (t \o v)[i] = t[i]
  OBVIOUS
<1>2. s = t
  BY <1>1
<1> QED
  BY <1>2, SeqCancel

LEMMA SeqElements ==
  ASSUME NEW S, NEW s \in Seq(S)
  PROVE  \A i \in 1 .. Len(s) : s[i] \in S
  OBVIOUS

LEMMA ReverseSeq ==
  ASSUME NEW S, NEW s \in Seq(S)
  PROVE  /\ Reverse(s) \in Seq(S) /\ Len(Reverse(s)) = Len(s)
         /\ Reverse(Reverse(s)) = s
<1>1. Len(s) \in Nat
  OBVIOUS
<1>2. \A i \in 1 .. Len(s) : (Len(s) - i) + 1 \in 1 .. Len(s)
  BY <1>1
<1>3. Reverse(s) = [i \in 1 .. Len(s) |-> s[(Len(s) - i) + 1]]
  BY DEF Reverse
<1>4. Reverse(s) \in Seq(S) /\ Len(Reverse(s)) = Len(s)
  BY <1>1, <1>2, <1>3
<1> DEFINE r == Reverse(s)
<1>5. \A i \in 1 .. Len(s) : r[i] = s[(Len(s) - i) + 1]
  BY <1>3
<1> HIDE DEF r
<1>6. \A i \in 1 .. Len(s) : (Len(s) - ((Len(s) - i) + 1)) + 1 = i
  BY <1>1
<1>7. \A i \in 1 .. Len(s) : r[(Len(s) - i) + 1] = s[i]
  BY <1>2, <1>5, <1>6
<1>8. Reverse(r) = [i \in 1 .. Len(s) |-> r[(Len(s) - i) + 1]]
  BY <1>4 DEF Reverse, r
<1>9. Reverse(r) = [i \in 1 .. Len(s) |-> s[i]]
  BY <1>7, <1>8
<1>10. Reverse(r) = s
  BY <1>9
<1> QED
  BY <1>4, <1>10 DEF r

LEMMA JoinsPrefix ==
  ASSUME NEW S, NEW seqs \in Seq(Seq(S)), Len(seqs) # 0, NEW f, Joins(f, seqs)
  PROVE  \A i \in 1 .. Len(seqs) : \E x \in Seq(S) : FlattenSeq(seqs) = f[i] \o x
<1>0. IsAssociative(S)
  BY SeqAllAssociative
<1> DEFINE n == Len(seqs)
           IsPart(i) == \E x \in Seq(S) : FlattenSeq(seqs) = f[i] \o x
           Bad == {i \in 1 .. n : ~IsPart(i)}
<1>1. n \in Nat \ {0}
  OBVIOUS
<1>2. \A i \in 1 .. n : f[i] \in Seq(S)
  BY JoinsTyped
<1>3. SUFFICES ASSUME Bad # {} PROVE FALSE
  OBVIOUS
<1>4. PICK i \in Bad : \A j \in Bad : j <= i
  <2>1. Bad \in SUBSET (0 .. n) /\ n \in Nat
    BY <1>1
  <2> HIDE DEF Bad
  <2> QED
    BY <1>3, <2>1, GreatestOfNats
<1>5. IsPart(n)
  <2>1. f[n] \in Seq(S)
    BY <1>1, <1>2
  <2>2. FlattenSeq(seqs) = f[n] \o <<>> /\ <<>> \in Seq(S)
    BY <2>1 DEF Joins
  <2> QED
    BY <2>2
<1>6. i # n /\ i \in 1 .. n
  BY <1>4, <1>5
<1>7. i + 1 \in 2 .. n /\ i + 1 \in 1 .. n /\ (i + 1) - 1 = i
  BY <1>1, <1>6
<1>8. IsPart(i + 1)
  <2>1. ~(i + 1 <= i)
    BY <1>1, <1>6
  <2>2. i + 1 \notin Bad
    BY <1>4, <2>1
  <2> QED
    BY <1>7, <2>2
<1>9. PICK x \in Seq(S) : FlattenSeq(seqs) = f[i + 1] \o x
  BY <1>8
<1>10. f[i + 1] = f[i] \o seqs[i + 1]
  BY <1>7 DEF Joins
<1>11. f[i] \in Seq(S) /\ seqs[i + 1] \in Seq(S) /\ seqs[i + 1] \o x \in Seq(S)
  BY <1>2, <1>6, <1>7
<1>12. FlattenSeq(seqs) = f[i] \o (seqs[i + 1] \o x)
  <2>1. f[i] \in Seq(S) /\ seqs[i + 1] \in Seq(S) /\ x \in Seq(S)
    BY <1>11
  <2>2. (f[i] \o seqs[i + 1]) \o x = f[i] \o (seqs[i + 1] \o x)
    <3> HIDE DEF Bad, IsPart
    <3> QED
      BY <1>0, <2>1 DEF IsAssociative
  <2> QED
    BY <1>9, <1>10, <2>2
<1>13. IsPart(i)
  BY <1>11, <1>12
<1> QED
  BY <1>13

(* The same, with the first pieces typed: what is said of a list of pieces  *)
(* by those who take it apart.                                             *)
Parted(S, f, seqs) ==
  /\ Joins(f, seqs)
  /\ \A i \in 1 .. Len(seqs) : f[i] \in Seq(S)
  /\ \A i \in 1 .. Len(seqs) : \E x \in Seq(S) : FlattenSeq(seqs) = f[i] \o x

LEMMA FlattenParts ==
  ASSUME NEW S, NEW seqs \in Seq(Seq(S)), Len(seqs) # 0
  PROVE  \E f : Parted(S, f, seqs)
<1>1. PICK f : Joins(f, seqs)
  BY FlattenJoins
<1>2. \A i \in 1 .. Len(seqs) : f[i] \in Seq(S)
  BY <1>1, JoinsTyped
<1>3. \A i \in 1 .. Len(seqs) : \E x \in Seq(S) : FlattenSeq(seqs) = f[i] \o x
  BY <1>1, JoinsPrefix, Zenon
<1> QED
  BY <1>1, <1>2, <1>3 DEF Parted

(* Of s and t followed by anything, it can be told which of the two it is. *)
Delimited(S, s, t) == \A x, y \in Seq(S) : s \o x = t \o y => s = t

(* Whoever knows where each piece ends can take them apart again: two      *)
(* lists of as many pieces that come to the same are the same.             *)
LEMMA FlattenInjective ==
  ASSUME NEW S, NEW p \in Seq(Seq(S)), NEW q \in Seq(Seq(S)), Len(p) = Len(q),
         \A i \in 1 .. Len(p) : Delimited(S, p[i], q[i]),
         FlattenSeq(p) = FlattenSeq(q)
  PROVE  \A i \in 1 .. Len(p) : p[i] = q[i]
<1>0. IsAssociative(S)
  BY SeqAllAssociative
<1> DEFINE n == Len(p)
<1>1. SUFFICES ASSUME n # 0 PROVE \A i \in 1 .. n : p[i] = q[i]
  OBVIOUS
<1>2. n \in Nat \ {0}
  BY <1>1
<1>3. PICK f : Parted(S, f, p)
  BY <1>2, FlattenParts
<1>4. PICK g : Parted(S, g, q)
  BY <1>2, FlattenParts
<1>5. \A i \in 1 .. n : f[i] \in Seq(S)
  BY <1>3 DEF Parted
<1>7. \A i \in 1 .. n : \E x \in Seq(S) : FlattenSeq(p) = f[i] \o x
  BY <1>3 DEF Parted
<1>8. \A i \in 1 .. n : \E y \in Seq(S) : FlattenSeq(q) = g[i] \o y
  BY <1>4 DEF Parted
<1> DEFINE Bad == {i \in 1 .. n : ~(f[i] = g[i] /\ p[i] = q[i])}
<1>9. SUFFICES ASSUME Bad # {} PROVE FALSE
  OBVIOUS
<1>10. PICK i \in Bad : \A j \in Bad : i <= j
  <2>1. Bad \in SUBSET Nat
    BY <1>2
  <2> HIDE DEF Bad
  <2> QED
    BY <1>9, <2>1, LeastOfNats
<1>11. i \in 1 .. n /\ p[i] \in Seq(S) /\ q[i] \in Seq(S)
  OBVIOUS
<1>12. PICK x \in Seq(S) : FlattenSeq(p) = f[i] \o x
  BY <1>7, <1>11
<1>13. PICK y \in Seq(S) : FlattenSeq(q) = g[i] \o y
  BY <1>8, <1>11
<1>14. f[i] \o x = g[i] \o y
  BY <1>12, <1>13
<1>15. CASE i = 1
  <2>1. f[i] = p[i] /\ g[i] = q[i]
    BY <1>3, <1>4, <1>15 DEF Parted, Joins
  <2>2. p[i] = q[i]
    BY <1>11, <1>14, <2>1 DEF Delimited
  <2> QED
    BY <2>1, <2>2
<1>16. CASE i # 1
  <2>1. i \in 2 .. n /\ i - 1 \in 1 .. n /\ i - 1 \notin Bad
    <3>1. i \in 2 .. n /\ i - 1 \in 1 .. n /\ ~(i <= i - 1)
      BY <1>2, <1>11, <1>16
    <3>2. i - 1 \notin Bad
      BY <1>10, <3>1
    <3> QED
      BY <3>1, <3>2
  <2>2. f[i - 1] = g[i - 1] /\ f[i - 1] \in Seq(S)
    BY <1>5, <2>1
  <2>3. f[i] = f[i - 1] \o p[i] /\ g[i] = f[i - 1] \o q[i]
    BY <1>3, <1>4, <2>1, <2>2 DEF Parted, Joins
  <2>4. f[i - 1] \o (p[i] \o x) = f[i - 1] \o (q[i] \o y)
    <3> HIDE DEF Bad
    <3>1. (f[i - 1] \o p[i]) \o x = f[i - 1] \o (p[i] \o x)
      BY <1>0, <1>11, <2>2 DEF IsAssociative
    <3>2. (f[i - 1] \o q[i]) \o y = f[i - 1] \o (q[i] \o y)
      BY <1>0, <1>11, <2>2 DEF IsAssociative
    <3> QED
      BY <1>14, <2>3, <3>1, <3>2
  <2>5. p[i] \o x \in Seq(S) /\ q[i] \o y \in Seq(S)
    BY <1>11
  <2>6. p[i] \o x = q[i] \o y
    BY <2>2, <2>4, <2>5, SeqCancel
  <2>7. p[i] = q[i]
    BY <1>11, <2>6 DEF Delimited
  <2> QED
    BY <2>3, <2>7
<1> QED
  BY <1>15, <1>16

(* A first piece, and the others.                                          *)
IsTail(t, s) ==
  Len(s) = Len(t) + 1 /\ \A j \in 1 .. Len(t) : s[j + 1] = t[j]

LEMMA FlattenHead ==
  ASSUME NEW S, NEW s \in Seq(Seq(S)), NEW t \in Seq(Seq(S)),
         Len(t) # 0, IsTail(t, s)
  PROVE  FlattenSeq(s) = s[1] \o FlattenSeq(t)
<1>0. IsAssociative(S)
  BY SeqAllAssociative
<1> DEFINE n == Len(t)
<1>1. n \in Nat \ {0} /\ Len(s) = n + 1 /\ Len(s) # 0
  BY DEF IsTail
<1>2. PICK f : Joins(f, s)
  BY <1>1, FlattenJoins
<1>3. PICK g : Joins(g, t)
  BY <1>1, FlattenJoins
<1>4. \A j \in 1 .. n : g[j] \in Seq(S)
  BY <1>3, JoinsTyped
<1> DEFINE Bad == {j \in 1 .. n : f[j + 1] # s[1] \o g[j]}
<1>5. Bad = {}
  <2>1. SUFFICES ASSUME Bad # {} PROVE FALSE
    OBVIOUS
  <2>2. PICK j \in Bad : \A k \in Bad : j <= k
    <3>1. 1 .. n \subseteq Nat
      BY <1>1
    <3>2. Bad \subseteq 1 .. n
      BY Zenon
    <3> HIDE DEF Bad
    <3>3. Bad \in SUBSET Nat
      BY <3>1, <3>2
    <3> QED
      BY <2>1, <3>3, LeastOfNats
  <2>3. /\ j \in 1 .. n /\ j + 1 \in 2 .. Len(s) /\ (j + 1) - 1 = j
        /\ t[j] \in Seq(S) /\ s[1] \in Seq(S)
    <3>1. j \in 1 .. n
      OBVIOUS
    <3>2. j + 1 \in 2 .. Len(s) /\ (j + 1) - 1 = j /\ 1 \in 1 .. Len(s)
      BY <1>1, <3>1
    <3>3. t[j] \in Seq(S) /\ s[1] \in Seq(S)
      BY <3>1, <3>2
    <3> QED
      BY <3>1, <3>2, <3>3
  <2>4. f[j + 1] = f[j] \o t[j]
    BY <1>2, <2>3 DEF Joins, IsTail
  <2>5. CASE j = 1
    BY <1>2, <1>3, <2>2, <2>4, <2>5 DEF Joins
  <2>6. CASE j # 1
    <3>1. j \in 2 .. n /\ j - 1 \in 1 .. n /\ j - 1 \notin Bad /\ (j - 1) + 1 = j
      <4>1. j \in 2 .. n /\ j - 1 \in 1 .. n /\ ~(j <= j - 1) /\ (j - 1) + 1 = j
        BY <1>1, <2>3, <2>6
      <4>2. j - 1 \notin Bad
        BY <2>2, <4>1
      <4> QED
        BY <4>1, <4>2
    <3>2. f[j] = s[1] \o g[j - 1] /\ g[j - 1] \in Seq(S)
      BY <1>4, <3>1
    <3>3. g[j] = g[j - 1] \o t[j]
      BY <1>3, <3>1 DEF Joins
    <3>4. (s[1] \o g[j - 1]) \o t[j] = s[1] \o (g[j - 1] \o t[j])
      <4> HIDE DEF Bad
      <4> QED
        BY <1>0, <2>3, <3>2 DEF IsAssociative
    <3> QED
      BY <2>2, <2>4, <3>2, <3>3, <3>4
  <2> QED
    BY <2>5, <2>6
<1>6. n \in 1 .. n
  BY <1>1
<1>7. f[n + 1] = s[1] \o g[n]
  BY <1>5, <1>6
<1> QED
  BY <1>1, <1>2, <1>3, <1>7 DEF Joins

-----------------------------------------------------------------------------
(* Division.                                                               *)
LEMMA Division ==
  ASSUME NEW b \in Nat \ {0, 1}, NEW n \in Nat
  PROVE  /\ n \div b \in Nat /\ n % b \in 0 .. b - 1
         /\ n = b * (n \div b) + (n % b)
         /\ n # 0 => n \div b < n
<1>1. n \div b \in Nat /\ n % b \in 0 .. b - 1 /\ n = b * (n \div b) + (n % b)
  OBVIOUS
<1>2. ASSUME NEW q \in Nat, NEW r \in Nat, n = b * q + r, n # 0 PROVE q < n
  <2>1. b * q >= 2 * q
    OBVIOUS
  <2> QED
    BY <1>2, <2>1
<1>3. n % b \in Nat
  BY <1>1
<1> QED
  BY <1>1, <1>2, <1>3

LEMMA DivisionBounds ==
  ASSUME NEW b \in Nat \ {0, 1}, NEW n \in Nat, NEW p \in Nat
  PROVE  /\ n \div b < p <=> n < b * p
         /\ p <= n \div b <=> b * p <= n
<1> DEFINE q == n \div b
           r == n % b
<1>1. q \in Nat /\ r \in 0 .. b - 1 /\ n = b * q + r
  BY Division
<1> HIDE DEF q, r
<1>2. ASSUME q < p PROVE n < b * p
  <2>1. b * (q + 1) <= b * p
    BY <1>1, <1>2
  <2>2. b * (q + 1) = b * q + b
    BY <1>1
  <2>3. b * q \in Nat /\ b * p \in Nat
    BY <1>1
  <2> QED
    BY <1>1, <2>1, <2>2, <2>3
<1>3. ASSUME p <= q PROVE b * p <= n
  <2>1. b * p <= b * q
    BY <1>1, <1>3
  <2>2. b * q \in Nat /\ b * p \in Nat
    BY <1>1
  <2> QED
    BY <1>1, <2>1, <2>2
<1>4. b * p \in Nat
  OBVIOUS
<1> QED
  BY <1>1, <1>2, <1>3, <1>4 DEF q

LEMMA DivisionTwice ==
  ASSUME NEW b \in Nat \ {0}, NEW p \in Nat \ {0}, NEW n \in Nat
  PROVE  (n \div p) \div b = n \div (b * p) /\ (n \div b) \div p = n \div (b * p)
  BY SMTT(60)

LEMMA DivisionUnique ==
  ASSUME NEW b \in Nat \ {0, 1}, NEW n \in Nat, NEW m \in Nat,
         n \div b = m \div b, n % b = m % b
  PROVE  n = m
  BY Division

-----------------------------------------------------------------------------
(* The digits of a length.  write_uleb128 by its equation, as a power's.   *)
UlebOf(f, n) ==
  IF n < Base THEN <<Byte(n)>>
  ELSE <<Byte(Base + (n % Base))>> \o f[n \div Base]

IsUleb(m, f) == f = [n \in 0 .. m |-> UlebOf(f, n)]

LEMMA UlebGrows ==
  ASSUME NEW m \in Nat, NEW f, IsUleb(m, f)
  PROVE  \E g : IsUleb(m + 1, g)
<1> DEFINE g == [n \in 0 .. m + 1 |-> IF n <= m THEN f[n] ELSE UlebOf(f, n)]
<1>1. \A n \in 0 .. m : f[n] = UlebOf(f, n)
  BY DEF IsUleb
<1>2. ASSUME NEW n \in 0 .. m + 1
      PROVE  g[n] = UlebOf(g, n)
  <2>1. g[n] = UlebOf(f, n)
    <3>1. CASE n <= m
      BY <1>1, <3>1
    <3>2. CASE ~(n <= m)
      BY <3>2
    <3> QED
      BY <3>1, <3>2
  <2>2. ~(n < Base) => n \div Base \in 0 .. m
    <3>1. SUFFICES ASSUME ~(n < Base) PROVE n \div Base \in 0 .. m
      OBVIOUS
    <3>2. n \in Nat /\ n # 0 /\ Base \in Nat \ {0, 1}
      BY <3>1, SignedMessageAssumption
    <3>3. n \div Base < n /\ n \div Base \in Nat
      BY <3>2, Division
    <3> HIDE DEF g
    <3> QED
      BY <3>3
  <2>3. \A k \in 0 .. m : g[k] = f[k]
    OBVIOUS
  <2>4. ~(n < Base) => g[n \div Base] = f[n \div Base]
    BY <2>2, <2>3
  <2> HIDE DEF g
  <2> QED
    BY <2>1, <2>4 DEF UlebOf
<1>3. g = [n \in 0 .. m + 1 |-> g[n]]
  OBVIOUS
<1> HIDE DEF g
<1>4. g = [n \in 0 .. m + 1 |-> UlebOf(g, n)]
  BY <1>2, <1>3
<1> QED
  BY <1>4 DEF IsUleb

LEMMA UlebExists ==
  ASSUME NEW m \in Nat
  PROVE  \E f : IsUleb(m, f)
<1> DEFINE None == {n \in Nat : ~ \E f : IsUleb(n, f)}
<1>1. SUFFICES ASSUME None # {} PROVE FALSE
  OBVIOUS
<1>2. PICK n \in None : \A k \in None : n <= k
  <2>1. None \in SUBSET Nat
    OBVIOUS
  <2> HIDE DEF None
  <2> QED
    BY <1>1, <2>1, LeastOfNats
<1>3. n # 0
  <2> DEFINE f == [k \in 0 .. 0 |-> <<Byte(k)>>]
  <2>1. \A k \in 0 .. 0 : UlebOf(f, k) = <<Byte(k)>>
    BY SignedMessageAssumption DEF UlebOf
  <2>2. f = [k \in 0 .. 0 |-> UlebOf(f, k)]
    <3>1. f = [k \in 0 .. 0 |-> <<Byte(k)>>]
      OBVIOUS
    <3> HIDE DEF f
    <3> QED
      BY <2>1, <3>1
  <2> QED
    BY <2>2 DEF IsUleb
<1>4. n - 1 \in Nat /\ n - 1 \notin None
  BY <1>2, <1>3
<1>5. PICK f : IsUleb(n - 1, f)
  BY <1>4
<1>6. \E g : IsUleb((n - 1) + 1, g)
  BY <1>4, <1>5, UlebGrows
<1>7. (n - 1) + 1 = n
  OBVIOUS
<1> QED
  BY <1>2, <1>6, <1>7

LEMMA UlebUnique ==
  ASSUME NEW m \in Nat, NEW n \in Nat, NEW f, NEW g, IsUleb(m, f), IsUleb(n, g)
  PROVE  \A k \in 0 .. m : k <= n => f[k] = g[k]
<1> DEFINE Bad == {k \in 0 .. m : k <= n /\ f[k] # g[k]}
<1>1. SUFFICES ASSUME Bad # {} PROVE FALSE
  OBVIOUS
<1>2. PICK k \in Bad : \A j \in Bad : k <= j
  <2>1. Bad \in SUBSET Nat
    OBVIOUS
  <2> HIDE DEF Bad
  <2> QED
    BY <1>1, <2>1, LeastOfNats
<1>3. k \in 0 .. m /\ k \in 0 .. n /\ f[k] # g[k]
  OBVIOUS
<1>4. f[k] = UlebOf(f, k) /\ g[k] = UlebOf(g, k)
  BY <1>3 DEF IsUleb
<1>5. ~(k < Base) => f[k \div Base] = g[k \div Base]
  <2>1. SUFFICES ASSUME ~(k < Base) PROVE f[k \div Base] = g[k \div Base]
    OBVIOUS
  <2>2. k \in Nat /\ k # 0 /\ Base \in Nat \ {0, 1}
    BY <1>3, <2>1, SignedMessageAssumption
  <2>3. k \div Base < k /\ k \div Base \in Nat
    BY <2>2, Division
  <2>4. k \div Base \in 0 .. m /\ k \div Base <= n /\ ~(k <= k \div Base)
    BY <1>3, <2>3
  <2>5. k \div Base \notin Bad
    BY <1>2, <2>4
  <2> QED
    BY <2>4, <2>5
<1> QED
  BY <1>3, <1>4, <1>5 DEF UlebOf

LEMMA WriteUlebSteps ==
  \A n \in Nat : WriteUleb128[n] = UlebOf(WriteUleb128, n)
<1> DEFINE At(m) == CHOOSE f : IsUleb(m, f)
           p == [k \in Nat |-> At(k)[k]]
           IsAll(f) == f = [n \in Nat |-> UlebOf(f, n)]
<1>1. \A m \in Nat : IsUleb(m, At(m))
  BY UlebExists
<1> HIDE DEF At
<1>2. ASSUME NEW k \in Nat
      PROVE  p[k] = UlebOf(p, k)
  <2>1. At(k)[k] = UlebOf(At(k), k)
    <3>1. IsUleb(k, At(k)) /\ k \in 0 .. k
      BY <1>1
    <3> QED
      BY <3>1 DEF IsUleb
  <2>2. ~(k < Base) => k \div Base \in Nat /\ At(k)[k \div Base] = At(k \div Base)[k \div Base]
    <3>1. SUFFICES ASSUME ~(k < Base)
                   PROVE  k \div Base \in Nat /\ At(k)[k \div Base] = At(k \div Base)[k \div Base]
      OBVIOUS
    <3>2. k # 0 /\ Base \in Nat \ {0, 1}
      BY <3>1, SignedMessageAssumption
    <3>3. PICK d \in Nat : d = k \div Base /\ d < k
      BY <3>2, Division
    <3>4. IsUleb(k, At(k)) /\ IsUleb(d, At(d))
      BY <1>1
    <3>5. \A j \in 0 .. d : j <= k => At(d)[j] = At(k)[j]
      BY <3>4, UlebUnique
    <3>6. d \in 0 .. d /\ d <= k
      BY <3>3
    <3>7. At(d)[d] = At(k)[d]
      BY <3>5, <3>6
    <3> QED
      BY <3>3, <3>7
  <2>3. p[k] = At(k)[k] /\ (~(k < Base) => p[k \div Base] = At(k)[k \div Base])
    BY <2>2
  <2> HIDE DEF p
  <2> QED
    BY <2>1, <2>3 DEF UlebOf
<1>3. p = [k \in Nat |-> p[k]]
  OBVIOUS
<1> HIDE DEF p
<1>4. IsAll(p)
  BY <1>2, <1>3
<1>5. WriteUleb128 = CHOOSE f : IsAll(f)
  BY DEF WriteUleb128, UlebOf
<1>6. IsAll(WriteUleb128)
  <2> HIDE DEF IsAll
  <2> QED
    BY <1>4, <1>5
<1> DEFINE q == WriteUleb128
<1>7. q = [n \in Nat |-> UlebOf(q, n)]
  BY <1>6
<1> HIDE DEF q
<1>8. \A n \in Nat : q[n] = UlebOf(q, n)
  BY <1>7
<1> QED
  BY <1>8 DEF q

(* The fewest digits that hold a number.                                   *)
HasDigits(n, k) ==
  n < Power(Base)[k] /\ \A j \in 1 .. k - 1 : Power(Base)[j] <= n

LEMMA PowerIsMore ==
  \A k \in Nat : k < Power(Base)[k]
<1> DEFINE Bad == {k \in Nat : ~(k < Power(Base)[k])}
<1>1. SUFFICES ASSUME Bad # {} PROVE FALSE
  OBVIOUS
<1>2. PICK k \in Bad : \A j \in Bad : k <= j
  <2>1. Bad \in SUBSET Nat
    OBVIOUS
  <2> HIDE DEF Bad
  <2> QED
    BY <1>1, <2>1, LeastOfNats
<1>3. k # 0
  BY PowerSteps
<1>4. k - 1 \in Nat /\ k - 1 \notin Bad /\ (k - 1) + 1 = k
  BY <1>2, <1>3
<1>5. Base \in Nat \ {0, 1} /\ Base \in Nat \ {0}
  BY SignedMessageAssumption
<1>6. Power(Base)[k - 1] \in Nat
  BY <1>4, <1>5, PowerPositive
<1>7. Power(Base)[k] = Base * Power(Base)[k - 1]
  BY <1>4, PowerSteps
<1>8. \A x \in Nat : k - 1 < x => k < Base * x
  <2>1. \A x \in Nat : 2 * x <= Base * x
    BY <1>5
  <2> QED
    BY <1>3, <1>5, <2>1
<1>9. k - 1 < Power(Base)[k - 1]
  BY <1>4
<1> QED
  BY <1>6, <1>7, <1>8, <1>9

LEMMA DigitsUnique ==
  ASSUME NEW n \in Nat, NEW k \in Nat \ {0}, NEW j \in Nat \ {0},
         HasDigits(n, k), HasDigits(n, j)
  PROVE  k = j
<1>1. Power(Base)[k] \in Nat /\ Power(Base)[j] \in Nat
  BY SignedMessageAssumption, PowerPositive
<1>2. ~(k < j)
  <2>1. k < j => k \in 1 .. j - 1
    OBVIOUS
  <2> QED
    BY <1>1, <2>1 DEF HasDigits
<1>3. ~(j < k)
  <2>1. j < k => j \in 1 .. k - 1
    OBVIOUS
  <2> QED
    BY <1>1, <2>1 DEF HasDigits
<1> QED
  BY <1>2, <1>3

LEMMA DigitsExist ==
  ASSUME NEW n \in Nat
  PROVE  Digits(n) \in 1 .. n + 1 /\ HasDigits(n, Digits(n))
<1> DEFINE Enough == {k \in Nat : k # 0 /\ n < Power(Base)[k]}
<1>1. n + 1 \in Enough
  <2>1. n + 1 \in Nat /\ n + 1 < Power(Base)[n + 1]
    BY PowerIsMore
  <2>2. Power(Base)[n + 1] \in Nat
    BY <2>1, SignedMessageAssumption, PowerPositive
  <2> QED
    BY <2>1, <2>2
<1>2. PICK k \in Enough : \A j \in Enough : k <= j
  <2>1. Enough \in SUBSET Nat
    OBVIOUS
  <2> HIDE DEF Enough
  <2> QED
    BY <1>1, <2>1, LeastOfNats
<1>3. k \in 1 .. n + 1
  BY <1>1, <1>2
<1>4. ASSUME NEW j \in 1 .. k - 1 PROVE Power(Base)[j] <= n
  <2>1. j \notin Enough
    BY <1>2, <1>3
  <2>2. Power(Base)[j] \in Nat
    BY SignedMessageAssumption, PowerPositive
  <2> QED
    BY <2>1, <2>2
<1>5. HasDigits(n, k)
  BY <1>2, <1>4 DEF HasDigits
<1>6. Digits(n) = CHOOSE i \in 1 .. n + 1 : HasDigits(n, i)
  BY DEF Digits, HasDigits
<1> QED
  BY <1>3, <1>5, <1>6

(* A number of two digits and more has one more than it has without its    *)
(* last.                                                                   *)
LEMMA DigitsStep ==
  ASSUME NEW n \in Nat
  PROVE  Digits(n) = IF n < Base THEN 1 ELSE Digits(n \div Base) + 1
<1>0. Base \in Nat \ {0, 1} /\ Base \in Nat \ {0}
  BY SignedMessageAssumption
<1>1. Digits(n) \in Nat \ {0} /\ HasDigits(n, Digits(n))
  BY DigitsExist
<1>2. Power(Base)[1] = Base
  <2>1. Power(Base)[0] = 1 /\ Power(Base)[0 + 1] = Base * Power(Base)[0]
    BY PowerSteps
  <2> QED
    BY <1>0, <2>1
<1>3. CASE n < Base
  <2>1. HasDigits(n, 1)
    BY <1>2, <1>3 DEF HasDigits
  <2>2. Digits(n) = 1
    BY <1>1, <2>1, DigitsUnique
  <2> QED
    BY <1>3, <2>2
<1>4. CASE ~(n < Base)
  <2>1. PICK d \in Nat : d = n \div Base
    BY <1>0, Division
  <2>2. PICK k \in Nat \ {0} : k = Digits(d) /\ HasDigits(d, k)
    BY DigitsExist
  <2>3. \A i \in Nat : Power(Base)[i] \in Nat
    BY <1>0, PowerPositive
  <2>4. \A p \in Nat : (d < p <=> n < Base * p) /\ (p <= d <=> Base * p <= n)
    BY <1>0, <2>1, DivisionBounds
  <2>5. n < Power(Base)[k + 1]
    <3>1. d < Power(Base)[k]
      BY <2>2 DEF HasDigits
    <3>2. n < Base * Power(Base)[k]
      BY <2>3, <2>4, <3>1
    <3> QED
      BY <3>2, PowerSteps
  <2>6. ASSUME NEW j \in 1 .. (k + 1) - 1 PROVE Power(Base)[j] <= n
    <3>1. CASE j = 1
      BY <1>0, <1>2, <1>4, <3>1
    <3>2. CASE j # 1
      <4>1. j - 1 \in 1 .. k - 1 /\ j - 1 \in Nat /\ (j - 1) + 1 = j
        BY <3>2
      <4>2. Power(Base)[j - 1] <= d
        BY <2>2, <4>1 DEF HasDigits
      <4>3. Base * Power(Base)[j - 1] <= n
        BY <2>3, <2>4, <4>1, <4>2
      <4>4. Power(Base)[(j - 1) + 1] = Base * Power(Base)[j - 1]
        BY <4>1, PowerSteps
      <4> QED
        BY <4>1, <4>3, <4>4
    <3> QED
      BY <3>1, <3>2
  <2>7. HasDigits(n, k + 1)
    BY <2>5, <2>6 DEF HasDigits
  <2>8. k + 1 \in Nat \ {0}
    OBVIOUS
  <2>9. Digits(n) = k + 1
    BY <1>1, <2>7, <2>8, DigitsUnique
  <2> QED
    BY <1>4, <2>1, <2>2, <2>9
<1> QED
  BY <1>3, <1>4

(* One element before the others.                                          *)
LEMMA SeqPrepend ==
  ASSUME NEW S, NEW h \in Seq(S), Len(h) = 1, NEW t \in Seq(S), NEW k \in Nat,
         Len(t) = k
  PROVE  h \o t = [i \in 1 .. k + 1 |-> IF i = 1 THEN h[1] ELSE t[i - 1]]
<1> DEFINE v == h \o t
<1>0. IsConcat(S, v, h, t)
  BY SeqPlaces
<1> HIDE DEF v
<1>1. /\ v \in Seq(S) /\ Len(v) = Len(h) + Len(t)
      /\ \A i \in 1 .. Len(h) : v[i] = h[i]
      /\ \A i \in 1 .. Len(t) : v[Len(h) + i] = t[i]
  BY <1>0 DEF IsConcat
<1>2. Len(v) = k + 1 /\ v[1] = h[1] /\ \A i \in 1 .. k : v[1 + i] = t[i]
  BY <1>1
<1>3. v = [i \in 1 .. k + 1 |-> v[i]]
  BY <1>1, <1>2
<1>4. ASSUME NEW i \in 1 .. k + 1
      PROVE  v[i] = IF i = 1 THEN h[1] ELSE t[i - 1]
  <2>1. CASE i = 1
    BY <1>2, <2>1
  <2>2. CASE i # 1
    <3>1. i - 1 \in 1 .. k /\ 1 + (i - 1) = i
      BY <2>2
    <3>2. v[1 + (i - 1)] = t[i - 1]
      BY <1>2, <3>1
    <3> QED
      BY <2>2, <3>1, <3>2
  <2> QED
    BY <2>1, <2>2
<1>5. v = [i \in 1 .. k + 1 |-> IF i = 1 THEN h[1] ELSE t[i - 1]]
  BY <1>3, <1>4
<1> QED
  BY <1>5 DEF v

(* The byte at a place.                                                    *)
LengthByte(n, k, i) ==
  Byte(((n \div Power(Base)[i - 1]) % Base) + (IF i < k THEN Base ELSE 0))

LEMMA BcsLengthStep ==
  ASSUME NEW n \in Nat
  PROVE  BcsLength(n) = UlebOf([m \in Nat |-> BcsLength(m)], n)
<1>0. Base \in Nat \ {0, 1} /\ Base \in Nat \ {0}
  BY SignedMessageAssumption
<1>1. \A m \in Nat : BcsLength(m) = [i \in 1 .. Digits(m) |-> LengthByte(m, Digits(m), i)]
  BY DEF BcsLength, LengthByte
<1>2. LengthByte(n, Digits(n), 1) =
        Byte((n % Base) + (IF 1 < Digits(n) THEN Base ELSE 0))
  <2>1. Power(Base)[1 - 1] = 1
    BY PowerSteps
  <2>2. n \div 1 = n
    OBVIOUS
  <2> QED
    BY <2>1, <2>2 DEF LengthByte
<1>3. CASE n < Base
  <2>1. Digits(n) = 1
    BY <1>3, DigitsStep
  <2>2. n % Base = n
    BY <1>0, <1>3
  <2>3. LengthByte(n, Digits(n), 1) = Byte(n)
    BY <1>2, <2>1, <2>2
  <2>4. BcsLength(n) = [i \in 1 .. 1 |-> LengthByte(n, Digits(n), i)]
    BY <1>1, <2>1
  <2>5. BcsLength(n) = [i \in 1 .. 1 |-> Byte(n)]
    BY <2>3, <2>4
  <2>6. BcsLength(n) = <<Byte(n)>>
    BY <2>5
  <2> QED
    BY <1>3, <2>6 DEF UlebOf
<1>4. CASE ~(n < Base)
  <2>1. PICK d \in Nat : d = n \div Base
    BY <1>0, Division
  <2>2. PICK k \in Nat \ {0} : k = Digits(d)
    BY DigitsExist
  <2>3. Digits(n) = k + 1
    BY <1>4, <2>1, <2>2, DigitsStep
  <2>4. BcsLength(n) = [i \in 1 .. k + 1 |-> LengthByte(n, k + 1, i)]
    BY <1>1, <2>3
  <2>5. BcsLength(d) = [i \in 1 .. k |-> LengthByte(d, k, i)]
    BY <1>1, <2>2
  <2>6. LengthByte(n, k + 1, 1) = Byte(Base + (n % Base))
    <3>1. 1 < k + 1 /\ n % Base \in Nat
      BY <1>0
    <3>2. (n % Base) + Base = Base + (n % Base)
      BY <1>0, <3>1
    <3> QED
      BY <1>2, <2>3, <3>1, <3>2
  <2>7. ASSUME NEW i \in 1 .. k
        PROVE  LengthByte(n, k + 1, i + 1) = LengthByte(d, k, i)
    <3>1. (i + 1) - 1 = i /\ (i + 1 < k + 1 <=> i < k) /\ i - 1 \in Nat /\ (i - 1) + 1 = i
      OBVIOUS
    <3>2. Power(Base)[(i - 1) + 1] = Base * Power(Base)[i - 1]
      BY <3>1, PowerSteps
    <3>3. Power(Base)[i - 1] \in Nat \ {0}
      BY <1>0, <3>1, PowerPositive
    <3>4. \A p \in Nat \ {0} : (n \div Base) \div p = n \div (Base * p)
      BY <1>0, DivisionTwice
    <3>5. d \div Power(Base)[i - 1] = n \div Power(Base)[i]
      BY <2>1, <3>1, <3>2, <3>3, <3>4
    <3> QED
      BY <3>1, <3>5 DEF LengthByte
  <2> DEFINE h == <<Byte(Base + (n % Base))>>
             t == [i \in 1 .. k |-> LengthByte(d, k, i)]
             w == [i \in 1 .. k + 1 |-> LengthByte(n, k + 1, i)]
             All == {h[1]} \cup {LengthByte(d, k, i) : i \in 1 .. k}
  <2>8. h \in Seq(All) /\ Len(h) = 1 /\ t \in Seq(All) /\ Len(t) = k
    OBVIOUS
  <2>9. w[1] = h[1]
    BY <2>6
  <2>10. \A i \in 1 .. k : w[i + 1] = t[i]
    BY <2>7
  <2>11. w = [i \in 1 .. k + 1 |-> w[i]]
    OBVIOUS
  <2> HIDE DEF h, t, w, All
  <2>12. h \o t = [i \in 1 .. k + 1 |-> IF i = 1 THEN h[1] ELSE t[i - 1]]
    BY <2>8, SeqPrepend
  <2>13. \A i \in 1 .. k + 1 : w[i] = IF i = 1 THEN h[1] ELSE t[i - 1]
    <3> TAKE i \in 1 .. k + 1
    <3>1. CASE i = 1
      BY <2>9, <3>1
    <3>2. CASE i # 1
      <4>1. i - 1 \in 1 .. k /\ (i - 1) + 1 = i
        BY <3>2
      <4>2. w[(i - 1) + 1] = t[i - 1]
        BY <2>10, <4>1
      <4> QED
        BY <3>2, <4>1, <4>2
    <3> QED
      BY <3>1, <3>2
  <2>14. w = h \o t
    BY <2>11, <2>12, <2>13
  <2>15. BcsLength(n) = w /\ BcsLength(n \div Base) = t /\ n \div Base \in Nat
    BY <2>1, <2>4, <2>5 DEF w, t
  <2> QED
    BY <1>4, <2>14, <2>15 DEF UlebOf, h
<1> QED
  BY <1>3, <1>4

(* Both write a length alike, whatever it is.                              *)
LEMMA LengthsWrittenAlike ==
  \A n \in Nat : WriteUleb128[n] = BcsLength(n)
<1> DEFINE Bad == {n \in Nat : WriteUleb128[n] # BcsLength(n)}
<1>1. SUFFICES ASSUME Bad # {} PROVE FALSE
  OBVIOUS
<1>2. PICK n \in Bad : \A j \in Bad : n <= j
  <2>1. Bad \in SUBSET Nat
    OBVIOUS
  <2> HIDE DEF Bad
  <2> QED
    BY <1>1, <2>1, LeastOfNats
<1>3. WriteUleb128[n] # BcsLength(n) /\ n \in Nat
  OBVIOUS
<1>4. ~(n < Base) => n \div Base \in Nat /\ WriteUleb128[n \div Base] = BcsLength(n \div Base)
  <2>1. SUFFICES ASSUME ~(n < Base)
                 PROVE  n \div Base \in Nat /\ n \div Base \notin Bad
    OBVIOUS
  <2>2. n # 0 /\ Base \in Nat \ {0, 1}
    BY <2>1, SignedMessageAssumption
  <2>3. PICK d \in Nat : d = n \div Base /\ d < n
    BY <2>2, Division
  <2>4. ~(n <= d)
    BY <2>3
  <2>5. d \notin Bad
    BY <1>2, <2>4
  <2> QED
    BY <2>3, <2>5
<1>5. WriteUleb128[n] = UlebOf(WriteUleb128, n)
  BY WriteUlebSteps
<1>6. BcsLength(n) = UlebOf([m \in Nat |-> BcsLength(m)], n)
  BY BcsLengthStep
<1> HIDE DEF Bad
<1> QED
  BY <1>3, <1>4, <1>5, <1>6 DEF UlebOf

(* What is written of a length ends where it says: no two lengths are      *)
(* written alike, whatever follows them.                                   *)
AllBytes == {Byte(n) : n \in Nat}

LEMMA UlebTyped ==
  ASSUME NEW S, AllBytes \subseteq S
  PROVE  \A n \in Nat : WriteUleb128[n] \in Seq(S)
<1> DEFINE Bad == {n \in Nat : WriteUleb128[n] \notin Seq(S)}
<1>1. SUFFICES ASSUME Bad # {} PROVE FALSE
  OBVIOUS
<1>2. PICK n \in Bad : \A j \in Bad : n <= j
  <2>1. Bad \in SUBSET Nat
    OBVIOUS
  <2> HIDE DEF Bad
  <2> QED
    BY <1>1, <2>1, LeastOfNats
<1>3. n \in Nat /\ WriteUleb128[n] \notin Seq(S)
  OBVIOUS
<1>4. Base \in Nat \ {0, 1} /\ \A k \in Nat : Byte(k) \in S
  BY SignedMessageAssumption DEF AllBytes
<1>5. WriteUleb128[n] = UlebOf(WriteUleb128, n)
  BY WriteUlebSteps
<1>6. CASE n < Base
  <2>1. WriteUleb128[n] = <<Byte(n)>>
    BY <1>5, <1>6 DEF UlebOf
  <2> HIDE DEF Bad
  <2> QED
    BY <1>3, <1>4, <2>1
<1>7. CASE ~(n < Base)
  <2>1. PICK d \in Nat : d = n \div Base /\ d < n
    <3> HIDE DEF Bad
    <3>1. n # 0
      BY <1>3, <1>4, <1>7
    <3>2. n \div Base \in Nat /\ n \div Base < n
      BY <1>3, <1>4, <3>1, Division
    <3> QED
      BY <3>2
  <2>2. d \notin Bad
    <3>1. ~(n <= d)
      BY <2>1
    <3> QED
      BY <1>2, <3>1
  <2>3. WriteUleb128[d] \in Seq(S)
    BY <2>1, <2>2
  <2>4. PICK b \in Nat : b = Base + (n % Base)
    BY <1>3, <1>4
  <2>5. WriteUleb128[n] = <<Byte(b)>> \o WriteUleb128[d]
    BY <1>5, <1>7, <2>1, <2>4 DEF UlebOf
  <2> HIDE DEF Bad
  <2>6. <<Byte(b)>> \in Seq(S)
    BY <1>4
  <2> QED
    BY <1>3, <2>3, <2>5, <2>6
<1> QED
  BY <1>6, <1>7

LEMMA SeqHeads ==
  ASSUME NEW S, NEW a \in S, NEW b \in S, NEW s \in Seq(S), NEW t \in Seq(S),
         <<a>> \o s = <<b>> \o t
  PROVE  a = b /\ s = t
<1>1. <<a>> \in Seq(S) /\ <<b>> \in Seq(S) /\ Len(<<a>>) = Len(<<b>>)
  OBVIOUS
<1>2. <<a>> = <<b>> /\ s = t
  BY <1>1, SeqSplit
<1> QED
  BY <1>2

(* The first byte, and the others.                                         *)
UlebFirst(n) == IF n < Base THEN n ELSE Base + (n % Base)
UlebRest(n) == IF n < Base THEN <<>> ELSE WriteUleb128[n \div Base]

LEMMA UlebParts ==
  ASSUME NEW S, AllBytes \subseteq S, NEW n \in Nat, NEW x \in Seq(S)
  PROVE  /\ UlebFirst(n) \in Nat /\ Byte(UlebFirst(n)) \in S
         /\ UlebRest(n) \o x \in Seq(S)
         /\ WriteUleb128[n] \o x = <<Byte(UlebFirst(n))>> \o (UlebRest(n) \o x)
<1>0. Base \in Nat \ {0, 1}
  BY SignedMessageAssumption
<1>1. UlebFirst(n) \in Nat
  BY <1>0 DEF UlebFirst
<1>2. Byte(UlebFirst(n)) \in S
  BY <1>1 DEF AllBytes
<1>3. UlebRest(n) \in Seq(S)
  <2>1. CASE n < Base
    BY <2>1 DEF UlebRest
  <2>2. CASE ~(n < Base)
    <3>1. PICK d \in Nat : d = n \div Base
      BY <1>0, Division
    <3>2. WriteUleb128[d] \in Seq(S)
      BY UlebTyped
    <3> QED
      BY <2>2, <3>1, <3>2 DEF UlebRest
  <2> QED
    BY <2>1, <2>2
<1> DEFINE h == <<Byte(UlebFirst(n))>>
           t == UlebRest(n)
<1>4. h \in Seq(S)
  BY <1>2
<1>5. WriteUleb128[n] = h \o t
  <2>1. WriteUleb128[n] = UlebOf(WriteUleb128, n)
    BY WriteUlebSteps
  <2>2. CASE n < Base
    <3>1. WriteUleb128[n] = h /\ t = <<>>
      BY <2>1, <2>2 DEF UlebOf, UlebFirst, UlebRest
    <3> HIDE DEF h
    <3> QED
      BY <1>4, <3>1
  <2>3. CASE ~(n < Base)
    BY <2>1, <2>3 DEF UlebOf, UlebFirst, UlebRest
  <2> QED
    BY <2>2, <2>3
<1>6. (h \o t) \o x = h \o (t \o x) /\ t \o x \in Seq(S)
  <2>1. t \in Seq(S)
    BY <1>3
  <2>2. t \o x \in Seq(S)
    BY <2>1
  <2> HIDE DEF h, t
  <2>3. (h \o t) \o x = h \o (t \o x)
    BY <1>4, <2>1, SeqAssociative
  <2> QED
    BY <2>2, <2>3 DEF t
<1> QED
  BY <1>1, <1>2, <1>5, <1>6

WrittenAlike(S, n, m) ==
  \E x, y \in Seq(S) : WriteUleb128[n] \o x = WriteUleb128[m] \o y

LEMMA UlebDelimited ==
  ASSUME NEW S, AllBytes \subseteq S
  PROVE  \A n, m \in Nat : WrittenAlike(S, n, m) => n = m
<1>0. Base \in Nat \ {0, 1}
  BY SignedMessageAssumption
<1> DEFINE Bad == {n \in Nat : \E m \in Nat : WrittenAlike(S, n, m) /\ n # m}
<1>1. SUFFICES ASSUME Bad # {} PROVE FALSE
  OBVIOUS
<1>2. PICK n \in Bad : \A j \in Bad : n <= j
  <2>1. Bad \in SUBSET Nat
    OBVIOUS
  <2> HIDE DEF Bad
  <2> QED
    BY <1>1, <2>1, LeastOfNats
<1>3. PICK m \in Nat : WrittenAlike(S, n, m) /\ n # m
  BY <1>2
<1>4. n \in Nat
  BY <1>2
<1>5. PICK x \in Seq(S), y \in Seq(S) : WriteUleb128[n] \o x = WriteUleb128[m] \o y
  BY <1>3 DEF WrittenAlike
<1>6. UlebFirst(n) = UlebFirst(m) /\ UlebRest(n) \o x = UlebRest(m) \o y
  <2>1. /\ UlebFirst(n) \in Nat /\ Byte(UlebFirst(n)) \in S
        /\ UlebRest(n) \o x \in Seq(S)
        /\ WriteUleb128[n] \o x = <<Byte(UlebFirst(n))>> \o (UlebRest(n) \o x)
    BY <1>4, UlebParts
  <2>2. /\ UlebFirst(m) \in Nat /\ Byte(UlebFirst(m)) \in S
        /\ UlebRest(m) \o y \in Seq(S)
        /\ WriteUleb128[m] \o y = <<Byte(UlebFirst(m))>> \o (UlebRest(m) \o y)
    BY UlebParts
  <2> DEFINE a == Byte(UlebFirst(n))
             b == Byte(UlebFirst(m))
             s == UlebRest(n) \o x
             t == UlebRest(m) \o y
  <2>3. a \in S /\ b \in S /\ s \in Seq(S) /\ t \in Seq(S) /\ <<a>> \o s = <<b>> \o t
    BY <1>5, <2>1, <2>2
  <2> HIDE DEF a, b, s, t
  <2>4. a = b /\ s = t
    BY <2>3, SeqHeads
  <2> QED
    BY <2>4 DEF a, b, s, t, Byte
<1>7. n % Base \in Nat /\ m % Base \in Nat
  BY <1>0, <1>4
<1>8. CASE n < Base
  <2>1. CASE m < Base
    BY <1>3, <1>6, <1>8, <2>1 DEF UlebFirst
  <2>2. CASE ~(m < Base)
    BY <1>0, <1>4, <1>6, <1>7, <1>8, <2>2 DEF UlebFirst
  <2> QED
    BY <2>1, <2>2
<1>9. CASE ~(n < Base)
  <2>1. m >= Base
    BY <1>0, <1>4, <1>6, <1>7, <1>9 DEF UlebFirst
  <2>2. n % Base = m % Base
    BY <1>0, <1>4, <1>6, <1>7, <1>9, <2>1 DEF UlebFirst
  <2>3. PICK d \in Nat : d = n \div Base /\ d < n
    <3> HIDE DEF Bad
    <3>1. n # 0
      BY <1>0, <1>4, <1>9
    <3>2. n \div Base \in Nat /\ n \div Base < n
      BY <1>0, <1>4, <3>1, Division
    <3> QED
      BY <3>2
  <2>4. PICK e \in Nat : e = m \div Base
    BY <1>0, Division
  <2>5. WriteUleb128[d] \o x = WriteUleb128[e] \o y
    <3>1. ~(m < Base)
      BY <1>0, <2>1
    <3> QED
      BY <1>6, <1>9, <2>3, <2>4, <3>1 DEF UlebRest
  <2>6. WrittenAlike(S, d, e)
    BY <2>5 DEF WrittenAlike
  <2>7. d = e
    <3>1. ~(n <= d)
      BY <1>4, <2>3
    <3>2. d \notin Bad
      BY <1>2, <3>1
    <3> QED
      BY <2>6, <3>2
  <2>8. n \div Base = m \div Base
    BY <2>3, <2>4, <2>7
  <2>9. n = m
    BY <1>0, <1>4, <2>2, <2>8, DivisionUnique
  <2> QED
    BY <1>3, <2>9
<1> QED
  BY <1>8, <1>9

-----------------------------------------------------------------------------
(* A u64 has its bytes to itself.                                          *)
LEMMA DivisionSmall ==
  ASSUME NEW p \in Nat \ {0}, NEW n \in Nat, n < p
  PROVE  n \div p = 0
  OBVIOUS

LEMMA LittleEndianSeq ==
  ASSUME NEW S, AllBytes \subseteq S, NEW n \in Nat
  PROVE  LittleEndian(n) \in Seq(S) /\ Len(LittleEndian(n)) = U64Bytes
<1> DEFINE b == 2 * Base
           l == LittleEndian(n)
<1>1. b \in Nat \ {0, 1} /\ b \in Nat \ {0} /\ U64Bytes \in Nat
  BY SignedMessageAssumption
<1> HIDE DEF b
<1>2. ASSUME NEW i \in 1 .. U64Bytes
      PROVE  Byte((n \div Power(b)[i - 1]) % b) \in S
  <2>1. PICK p \in Nat \ {0} : p = Power(b)[i - 1]
    BY <1>1, PowerPositive
  <2>2. \A k \in Nat : k % b \in Nat
    BY <1>1
  <2>3. n \div p \in Nat
    OBVIOUS
  <2>4. PICK k \in Nat : k = (n \div p) % b
    BY <2>2, <2>3
  <2>5. Byte(k) \in S
    BY DEF AllBytes
  <2> QED
    BY <2>1, <2>4, <2>5
<1>3. l = [i \in 1 .. U64Bytes |-> Byte((n \div Power(b)[i - 1]) % b)]
  BY DEF LittleEndian, b
<1> HIDE DEF l
<1>4. l \in [1 .. U64Bytes -> S]
  BY <1>2, <1>3
<1>5. l \in Seq(S) /\ Len(l) = U64Bytes
  BY <1>1, <1>4
<1> QED
  BY <1>5 DEF l

LEMMA LittleEndianInjective ==
  ASSUME NEW n \in U64, NEW m \in U64, LittleEndian(n) = LittleEndian(m)
  PROVE  n = m
<1> DEFINE b == 2 * Base
           N == U64Bytes
           P(j) == Power(b)[j]
           Same(j) == n \div P(j) = m \div P(j)
           Bad == {j \in 0 .. N : ~Same(j)}
<1>1. b \in Nat \ {0, 1} /\ b \in Nat \ {0} /\ N \in Nat
  BY SignedMessageAssumption
<1>2. \A i \in 1 .. N : (n \div P(i - 1)) % b = (m \div P(i - 1)) % b
  <2> DEFINE ln == LittleEndian(n)
             lm == LittleEndian(m)
  <2>1. \A i \in 1 .. N : /\ ln[i] = Byte((n \div P(i - 1)) % b)
                          /\ lm[i] = Byte((m \div P(i - 1)) % b)
    BY DEF LittleEndian
  <2>2. ln = lm
    OBVIOUS
  <2> DEFINE nd(i) == (n \div P(i - 1)) % b
             md(i) == (m \div P(i - 1)) % b
  <2>3. \A i \in 1 .. N : ln[i] = Byte(nd(i)) /\ lm[i] = Byte(md(i))
    BY <2>1
  <2> HIDE DEF ln, lm, N, P, b, nd, md
  <2>4. \A i \in 1 .. N : Byte(nd(i)) = Byte(md(i))
    BY <2>2, <2>3
  <2>5. \A x, y : Byte(x) = Byte(y) => x = y
    BY DEF Byte
  <2>6. \A i \in 1 .. N : nd(i) = md(i)
    BY <2>4, <2>5
  <2> QED
    BY <2>6 DEF nd, md
<1>3. \A j \in Nat : P(j) \in Nat \ {0}
  <2> HIDE DEF b
  <2> QED
    BY <1>1, PowerPositive
<1>4. n \in Nat /\ m \in Nat /\ n < P(N) /\ m < P(N)
  <2>1. P(N) \in Nat
    BY <1>1, <1>3
  <2>2. n \in 0 .. P(N) - 1 /\ m \in 0 .. P(N) - 1
    BY DEF U64
  <2> HIDE DEF P
  <2> QED
    BY <2>1, <2>2
<1>5. \A j \in Nat : P(j + 1) = b * P(j)
  <2> HIDE DEF b
  <2> QED
    BY PowerSteps
<1>6. P(0) = 1
  <2> HIDE DEF b
  <2> QED
    BY PowerSteps
<1> HIDE DEF b, N, P
<1>7. Bad = {}
  <2>1. SUFFICES ASSUME Bad # {} PROVE FALSE
    OBVIOUS
  <2>2. PICK j \in Bad : \A k \in Bad : k <= j
    <3>1. Bad \in SUBSET (0 .. N)
      OBVIOUS
    <3> HIDE DEF Bad
    <3> QED
      BY <1>1, <2>1, <3>1, GreatestOfNats
  <2>3. j \in 0 .. N /\ ~Same(j)
    BY <2>2
  <2>4. j # N
    <3>1. P(N) \in Nat \ {0}
      BY <1>1, <1>3
    <3>2. n \div P(N) = 0
      BY <1>4, <3>1, DivisionSmall
    <3>3. m \div P(N) = 0
      BY <1>4, <3>1, DivisionSmall
    <3> QED
      BY <2>3, <3>2, <3>3
  <2>5. /\ j \in Nat /\ j + 1 \in 0 .. N /\ ~(j + 1 <= j)
        /\ j + 1 \in 1 .. N /\ (j + 1) - 1 = j
    BY <1>1, <2>3, <2>4
  <2>6. Same(j + 1)
    <3>1. j + 1 \notin Bad
      BY <2>2, <2>5
    <3> QED
      BY <2>5, <3>1
  <2>7. PICK p \in Nat \ {0} : p = P(j)
    BY <1>3, <2>5
  <2>8. (n \div p) \div b = n \div (b * p) /\ (m \div p) \div b = m \div (b * p)
    BY <1>1, <1>4, DivisionTwice
  <2>9. (n \div p) \div b = (m \div p) \div b
    BY <1>5, <2>5, <2>6, <2>7, <2>8
  <2>10. (n \div p) % b = (m \div p) % b
    BY <1>2, <2>5, <2>7
  <2>11. n \div p \in Nat /\ m \div p \in Nat
    BY <1>4
  <2>12. n \div p = m \div p
    BY <1>1, <2>9, <2>10, <2>11, DivisionUnique
  <2> QED
    BY <2>3, <2>7, <2>12
<1>8. Same(0)
  BY <1>1, <1>7
<1>9. \A k \in Nat : k \div 1 = k
  OBVIOUS
<1> QED
  BY <1>4, <1>6, <1>8, <1>9

-----------------------------------------------------------------------------
(* A field's value, over the bytes S.                                      *)
Fits(S, kind, v) ==
  /\ kind = "u8"   => v \in Nat
  /\ kind = "u64"  => v \in U64
  /\ kind = "u256" => v \in Seq(S) /\ Len(v) = 2
  /\ kind = "sequence" => v \in Seq(S)

KindNames == {"u8", "u64", "u256", "sequence"}

LEMMA KindIsOne ==
  ASSUME NEW f
  PROVE  /\ Kind(f) \in KindNames
         /\ Kind(f) = "u8" <=> f \in {"provider", "outcome"}
         /\ Kind(f) = "u64" <=> f \in Numbers
         /\ Kind(f) = "u256" <=> f \in Blobs
<1>1. CASE f \in {"provider", "outcome"}
  BY <1>1 DEF Kind, KindNames, Numbers, Counters, Blobs
<1>2. CASE f \in Numbers
  BY <1>2 DEF Kind, KindNames, Numbers, Counters, Blobs
<1>3. CASE f \in Blobs
  BY <1>3 DEF Kind, KindNames, Numbers, Counters, Blobs
<1>4. CASE f \notin {"provider", "outcome"} /\ f \notin Numbers /\ f \notin Blobs
  BY <1>4 DEF Kind, KindNames
<1> QED
  BY <1>1, <1>2, <1>3, <1>4

LEMMA U64IsNat == U64 \subseteq Nat
<1>1. Power(2 * Base)[U64Bytes] \in Nat
  <2>1. 2 * Base \in Nat \ {0} /\ U64Bytes \in Nat
    BY SignedMessageAssumption
  <2> QED
    BY <2>1, PowerPositive
<1> QED
  BY <1>1 DEF U64

LEMMA BcsTyped ==
  ASSUME NEW S, AllBytes \subseteq S, NEW kind \in KindNames, NEW v, Fits(S, kind, v)
  PROVE  Bcs(kind, v) \in Seq(S)
<1>1. CASE kind = "u8"
  <2>1. v \in Nat /\ Bcs(kind, v) = <<Byte(v)>>
    BY <1>1 DEF Fits, Bcs
  <2>2. Byte(v) \in S
    BY <2>1 DEF AllBytes
  <2> QED
    BY <2>1, <2>2
<1>2. CASE kind = "u64"
  <2>1. v \in Nat /\ Bcs(kind, v) = LittleEndian(v)
    BY <1>2, U64IsNat DEF Fits, Bcs
  <2> QED
    BY <2>1, LittleEndianSeq
<1>3. CASE kind = "u256"
  <2>1. v \in Seq(S) /\ Bcs(kind, v) = Reverse(v)
    BY <1>3 DEF Fits, Bcs
  <2> QED
    BY <2>1, ReverseSeq
<1>4. CASE kind = "sequence"
  <2>1. v \in Seq(S) /\ Bcs(kind, v) = BcsLength(Len(v)) \o v
    BY <1>4 DEF Fits, Bcs
  <2>2. PICK l \in Seq(S) : l = BcsLength(Len(v))
    <3>1. PICK n \in Nat : n = Len(v)
      BY <2>1
    <3>2. WriteUleb128[n] \in Seq(S) /\ WriteUleb128[n] = BcsLength(n)
      BY UlebTyped, LengthsWrittenAlike
    <3> QED
      BY <3>1, <3>2
  <2>3. l \o v \in Seq(S)
    BY <2>1
  <2> QED
    BY <2>1, <2>2, <2>3
<1> QED
  BY <1>1, <1>2, <1>3, <1>4 DEF KindNames

GoOnAlike(s, x, t, y) == s \o x = t \o y

(* A value is read off the bytes it was written to, whatever follows them. *)
LEMMA BcsDelimited ==
  ASSUME NEW S, AllBytes \subseteq S, NEW kind \in KindNames,
         NEW v, Fits(S, kind, v), NEW w, Fits(S, kind, w),
         NEW x \in Seq(S), NEW y \in Seq(S),
         GoOnAlike(Bcs(kind, v), x, Bcs(kind, w), y)
  PROVE  v = w
<1>0. Bcs(kind, v) \in Seq(S) /\ Bcs(kind, w) \in Seq(S)
  BY BcsTyped
<1> DEFINE s == Bcs(kind, v)
           t == Bcs(kind, w)
<1>1. ASSUME Len(s) = Len(t) PROVE s = t
  <2>1. s \in Seq(S) /\ t \in Seq(S) /\ s \o x = t \o y /\ Len(s) = Len(t)
    BY <1>0, <1>1 DEF GoOnAlike
  <2> HIDE DEF s, t
  <2> QED
    BY <2>1, SeqSplit
<1>2. CASE kind = "u8"
  <2>1. v \in Nat /\ s = <<Byte(v)>> /\ w \in Nat /\ t = <<Byte(w)>>
    BY <1>2 DEF Fits, Bcs
  <2> HIDE DEF s, t
  <2>2. s = t
    BY <1>1, <2>1
  <2> QED
    BY <2>1, <2>2 DEF Byte
<1>3. CASE kind = "u64"
  <2>1. v \in U64 /\ s = LittleEndian(v) /\ w \in U64 /\ t = LittleEndian(w)
    BY <1>3 DEF Fits, Bcs
  <2> HIDE DEF s, t
  <2>2. v \in Nat /\ w \in Nat
    BY <2>1, U64IsNat
  <2>3. Len(s) = U64Bytes
    BY <2>1, <2>2, LittleEndianSeq
  <2>4. Len(t) = U64Bytes
    BY <2>1, <2>2, LittleEndianSeq
  <2>5. s = t
    BY <1>1, <2>3, <2>4
  <2> QED
    BY <2>1, <2>5, LittleEndianInjective
<1>4. CASE kind = "u256"
  <2>1. /\ v \in Seq(S) /\ Len(v) = 2 /\ s = Reverse(v)
        /\ w \in Seq(S) /\ Len(w) = 2 /\ t = Reverse(w)
    BY <1>4 DEF Fits, Bcs
  <2> HIDE DEF s, t
  <2>2. Len(s) = 2 /\ Reverse(s) = v
    BY <2>1, ReverseSeq
  <2>3. Len(t) = 2 /\ Reverse(t) = w
    BY <2>1, ReverseSeq
  <2>4. s = t
    BY <1>1, <2>2, <2>3
  <2> QED
    BY <2>2, <2>3, <2>4
<1>5. CASE kind = "sequence"
  <2>1. /\ v \in Seq(S) /\ s = BcsLength(Len(v)) \o v
        /\ w \in Seq(S) /\ t = BcsLength(Len(w)) \o w
    BY <1>5 DEF Fits, Bcs
  <2>2. GoOnAlike(s, x, t, y)
    OBVIOUS
  <2> HIDE DEF s, t
  <2>0. v \in Seq(S) /\ w \in Seq(S)
    BY <2>1
  <2>3. PICK n \in Nat, m \in Nat : n = Len(v) /\ m = Len(w)
    BY <2>1
  <2>4. PICK l \in Seq(S) : l = WriteUleb128[n] /\ l = BcsLength(n)
    BY UlebTyped, LengthsWrittenAlike
  <2>5. PICK k \in Seq(S) : k = WriteUleb128[m] /\ k = BcsLength(m)
    BY UlebTyped, LengthsWrittenAlike
  <2>6. (l \o v) \o x = (k \o w) \o y
    BY <2>1, <2>2, <2>3, <2>4, <2>5 DEF GoOnAlike
  <2>7. (l \o v) \o x = l \o (v \o x)
    BY <2>0, SeqAssociative
  <2>8. (k \o w) \o y = k \o (w \o y)
    BY <2>0, SeqAssociative, SMTT(30)
  <2>9. v \o x \in Seq(S) /\ w \o y \in Seq(S)
    <3>1. v \o x \in Seq(S)
      BY <2>0
    <3>2. w \o y \in Seq(S)
      BY <2>0
    <3> QED
      BY <3>1, <3>2
  <2> DEFINE vx == v \o x
             wy == w \o y
  <2> HIDE DEF vx, wy
  <2>10. l \o vx = k \o wy
    BY <2>6, <2>7, <2>8 DEF vx, wy
  <2>11. WrittenAlike(S, n, m)
    <3>1. vx \in Seq(S) /\ wy \in Seq(S)
      BY <2>9 DEF vx, wy
    <3> QED
      BY <2>4, <2>5, <2>10, <3>1 DEF WrittenAlike
  <2>12. n = m
    BY <2>11, UlebDelimited
  <2>13. l \o vx = l \o wy
    BY <2>4, <2>5, <2>10, <2>12
  <2>14. vx = wy
    <3>1. vx \in Seq(S) /\ wy \in Seq(S)
      BY <2>9 DEF vx, wy
    <3> QED
      BY <2>13, <3>1, SeqCancel
  <2>15. v \o x = w \o y /\ Len(v) = Len(w)
    BY <2>3, <2>12, <2>14 DEF vx, wy
  <2> QED
    BY <2>0, <2>15, SeqSplit
<1> QED
  BY <1>2, <1>3, <1>4, <1>5 DEF KindNames

-----------------------------------------------------------------------------
(* The message, of a receipt whose fields fit their kinds.                 *)
Places == 1 .. 18

LEMMA FieldTables ==
  /\ Len(SdkFields) = 18 /\ DOMAIN SdkFields = Places
  /\ EnclaveFields = SdkFields /\ NewReceiptArguments = MoveFields
  /\ SdkFields[1] = "timestamp_ms"
  /\ Len(MoveFields) = 17 /\ DOMAIN MoveFields = 1 .. 17
  /\ \A j \in 1 .. 17 : MoveFields[j] = SdkFields[j + 1]
<1>1. Len(SdkFields) = 18 /\ DOMAIN SdkFields = Places
  BY DEF SdkFields, Places
<1>2. EnclaveFields = SdkFields /\ NewReceiptArguments = MoveFields
  BY DEF EnclaveFields, SdkFields, NewReceiptArguments, MoveFields
<1>3. SdkFields[1] = "timestamp_ms"
  BY DEF SdkFields
<1>4. Len(MoveFields) = 17 /\ DOMAIN MoveFields = 1 .. 17
  BY DEF MoveFields
<1>5. /\ MoveFields[1] = SdkFields[1 + 1] /\ MoveFields[2] = SdkFields[2 + 1]
      /\ MoveFields[3] = SdkFields[3 + 1] /\ MoveFields[4] = SdkFields[4 + 1]
      /\ MoveFields[5] = SdkFields[5 + 1] /\ MoveFields[6] = SdkFields[6 + 1]
      /\ MoveFields[7] = SdkFields[7 + 1] /\ MoveFields[8] = SdkFields[8 + 1]
      /\ MoveFields[9] = SdkFields[9 + 1] /\ MoveFields[10] = SdkFields[10 + 1]
      /\ MoveFields[11] = SdkFields[11 + 1] /\ MoveFields[12] = SdkFields[12 + 1]
      /\ MoveFields[13] = SdkFields[13 + 1] /\ MoveFields[14] = SdkFields[14 + 1]
      /\ MoveFields[15] = SdkFields[15 + 1] /\ MoveFields[16] = SdkFields[16 + 1]
      /\ MoveFields[17] = SdkFields[17 + 1]
  BY DEF SdkFields, MoveFields
<1>6. \A j \in 1 .. 17 : MoveFields[j] = SdkFields[j + 1]
  <2> TAKE j \in 1 .. 17
  <2>1. j \in {1, 2, 3, 4, 5, 6, 7, 8, 9, 10, 11, 12, 13, 14, 15, 16, 17}
    OBVIOUS
  <2> QED
    BY <1>5, <2>1, Zenon
<1> QED
  BY <1>1, <1>2, <1>3, <1>4, <1>6

Typed(S, r) ==
  \A i \in Places : Fits(S, Kind(SdkFields[i]), r[SdkFields[i]])

Piece(r, i) == Bcs(Kind(SdkFields[i]), r[SdkFields[i]])
Pieces(r) == [i \in Places |-> Piece(r, i)]

LEMMA PiecesTyped ==
  ASSUME NEW S, AllBytes \subseteq S, NEW r, Typed(S, r)
  PROVE  /\ Pieces(r) \in Seq(Seq(S)) /\ Len(Pieces(r)) = 18
         /\ \A i \in Places : Pieces(r)[i] = Piece(r, i)
<1>1. ASSUME NEW i \in Places PROVE Piece(r, i) \in Seq(S)
  <2>1. Fits(S, Kind(SdkFields[i]), r[SdkFields[i]])
    BY DEF Typed
  <2>2. Kind(SdkFields[i]) \in KindNames
    BY KindIsOne
  <2> QED
    BY <2>1, <2>2, BcsTyped DEF Piece
<1> DEFINE T == Seq(S)
<1>2. \A i \in Places : Piece(r, i) \in T
  BY <1>1
<1> HIDE DEF T
<1>3. [i \in 1 .. 18 |-> Piece(r, i)] \in Seq(T) /\ Len([i \in 1 .. 18 |-> Piece(r, i)]) = 18
  BY <1>2 DEF Places
<1> QED
  BY <1>3 DEF Pieces, Places, T

LEMMA FlattenTyped ==
  ASSUME NEW S, NEW seqs \in Seq(Seq(S)), Len(seqs) # 0
  PROVE  FlattenSeq(seqs) \in Seq(S)
<1>1. PICK f : Joins(f, seqs)
  BY FlattenJoins
<1>2. \A i \in 1 .. Len(seqs) : f[i] \in Seq(S)
  BY <1>1, JoinsTyped
<1>3. Len(seqs) \in 1 .. Len(seqs)
  OBVIOUS
<1> QED
  BY <1>1, <1>2, <1>3 DEF Joins

LEMMA MessageOf ==
  ASSUME NEW r
  PROVE  SerializeReceipt(r) = <<Byte(0)>> \o FlattenSeq(Pieces(r))
<1>1. DOMAIN SdkFields = Places
  BY FieldTables
<1>2. [i \in DOMAIN SdkFields |-> Bcs(Kind(SdkFields[i]), r[SdkFields[i]])] = Pieces(r)
  BY <1>1 DEF Pieces, Piece
<1> QED
  BY <1>2 DEF SerializeReceipt

(* No two receipts have the same message.                                  *)
LEMMA MessageInjective ==
  ASSUME NEW S, AllBytes \subseteq S, NEW r, NEW q, Typed(S, r), Typed(S, q),
         SerializeReceipt(r) = SerializeReceipt(q)
  PROVE  \A i \in Places : r[SdkFields[i]] = q[SdkFields[i]]
<1> DEFINE p == Pieces(r)
           o == Pieces(q)
<1>1. /\ p \in Seq(Seq(S)) /\ Len(p) = 18
      /\ \A i \in Places : p[i] = Piece(r, i)
  BY PiecesTyped
<1>2. /\ o \in Seq(Seq(S)) /\ Len(o) = 18
      /\ \A i \in Places : o[i] = Piece(q, i)
  BY PiecesTyped
<1>3. <<Byte(0)>> \o FlattenSeq(p) = <<Byte(0)>> \o FlattenSeq(o)
  BY MessageOf
<1> HIDE DEF p, o
<1>4. FlattenSeq(p) \in Seq(S) /\ FlattenSeq(o) \in Seq(S)
  <2>1. Len(p) # 0 /\ Len(o) # 0
    BY <1>1, <1>2
  <2>2. FlattenSeq(p) \in Seq(S)
    BY <1>1, <2>1, FlattenTyped
  <2>3. FlattenSeq(o) \in Seq(S)
    BY <1>2, <2>1, FlattenTyped
  <2> QED
    BY <2>2, <2>3
<1>5. FlattenSeq(p) = FlattenSeq(o)
  <2>1. <<Byte(0)>> \in Seq(S)
    BY DEF AllBytes
  <2> QED
    BY <1>3, <1>4, <2>1, SeqCancel
<1>6. ASSUME NEW i \in Places, NEW x \in Seq(S), NEW y \in Seq(S),
             p[i] \o x = o[i] \o y
      PROVE  r[SdkFields[i]] = q[SdkFields[i]]
  <2> DEFINE kind == Kind(SdkFields[i])
             v == r[SdkFields[i]]
             w == q[SdkFields[i]]
  <2>1. Fits(S, kind, v) /\ Fits(S, kind, w)
    BY DEF Typed
  <2>2. kind \in KindNames
    BY KindIsOne
  <2>3. GoOnAlike(Bcs(kind, v), x, Bcs(kind, w), y)
    BY <1>1, <1>2, <1>6 DEF GoOnAlike, Piece
  <2> HIDE DEF kind, v, w
  <2>4. v = w
    BY <2>1, <2>2, <2>3, BcsDelimited
  <2> QED
    BY <2>4 DEF v, w
<1>7. ASSUME NEW i \in Places, r[SdkFields[i]] = q[SdkFields[i]]
      PROVE  p[i] = o[i]
  BY <1>1, <1>2, <1>7 DEF Piece
<1>8. \A i \in 1 .. Len(p) : Delimited(S, p[i], o[i])
  <2>1. ASSUME NEW i \in Places PROVE Delimited(S, p[i], o[i])
    BY <1>6, <1>7 DEF Delimited
  <2> QED
    BY <1>1, <2>1 DEF Places
<1>9. \A i \in 1 .. Len(p) : p[i] = o[i]
  <2>1. Len(p) = Len(o)
    BY <1>1, <1>2
  <2> QED
    BY <1>1, <1>2, <1>5, <1>8, <2>1, FlattenInjective
<1>10. ASSUME NEW i \in Places PROVE r[SdkFields[i]] = q[SdkFields[i]]
  <2>1. p[i] = o[i]
    BY <1>1, <1>9 DEF Places
  <2>2. p[i] \o <<>> = o[i] \o <<>> /\ <<>> \in Seq(S)
    BY <2>1
  <2> QED
    BY <1>6, <2>2
<1> QED
  BY <1>10

(* What the contract puts together is what the SDK does.                   *)
LEMMA OnChainAlike ==
  ASSUME NEW S, AllBytes \subseteq S, NEW r, Typed(S, r)
  PROVE  <<Byte(0)>> \o LittleEndian(r.timestamp_ms)
           \o FlattenSeq([i \in DOMAIN MoveFields |->
                Bcs(Kind(MoveFields[i]), r[NewReceiptArguments[i]])])
         = SerializeReceipt(r)
<1> DEFINE p == Pieces(r)
           t == [i \in DOMAIN MoveFields |-> Bcs(Kind(MoveFields[i]), r[NewReceiptArguments[i]])]
           h == <<Byte(0)>>
           l == LittleEndian(r.timestamp_ms)
<1>1. /\ p \in Seq(Seq(S)) /\ Len(p) = 18
      /\ \A i \in Places : p[i] = Piece(r, i)
  BY PiecesTyped
<1>2. \A j \in 1 .. 17 : Bcs(Kind(MoveFields[j]), r[NewReceiptArguments[j]]) = p[j + 1]
  <2> TAKE j \in 1 .. 17
  <2>1. j + 1 \in Places
    BY DEF Places
  <2>2. MoveFields[j] = SdkFields[j + 1] /\ NewReceiptArguments[j] = SdkFields[j + 1]
    BY FieldTables
  <2>3. p[j + 1] = Piece(r, j + 1)
    BY <1>1, <2>1
  <2> QED
    BY <2>2, <2>3 DEF Piece
<1>3. t = [j \in 1 .. 17 |-> p[j + 1]]
  <2>1. DOMAIN MoveFields = 1 .. 17
    BY FieldTables
  <2> QED
    BY <1>2, <2>1
<1>4. p[1] = l
  <2>1. 1 \in Places /\ SdkFields[1] = "timestamp_ms"
    BY FieldTables DEF Places
  <2>2. Kind("timestamp_ms") = "u64"
    BY KindIsOne DEF Numbers
  <2> QED
    BY <1>1, <2>1, <2>2 DEF Piece, Bcs
<1>5. SerializeReceipt(r) = h \o FlattenSeq(p)
  BY MessageOf
<1>6. h \in Seq(S)
  BY DEF AllBytes
<1> DEFINE T == Seq(S)
<1> HIDE DEF p, t, h, l
<1>7. p[1] \in Seq(S)
  BY <1>1
<1>8. t \in Seq(Seq(S)) /\ Len(t) = 17 /\ IsTail(t, p)
  <2>1. p \in Seq(T) /\ Len(p) = 18
    BY <1>1
  <2> HIDE DEF T
  <2>2. \A j \in 1 .. 17 : p[j + 1] \in T
    <3>1. \A i \in 1 .. 18 : p[i] \in T
      <4>1. \A i \in 1 .. Len(p) : p[i] \in T
        BY <2>1, SeqElements
      <4> QED
        BY <2>1, <4>1
    <3>2. \A j \in 1 .. 17 : j + 1 \in 1 .. 18
      OBVIOUS
    <3> QED
      BY <3>1, <3>2
  <2>3. t \in Seq(T) /\ Len(t) = 17
    BY <1>3, <2>2
  <2>4. \A j \in 1 .. 17 : t[j] = p[j + 1]
    BY <1>3
  <2>5. IsTail(t, p)
    BY <2>1, <2>3, <2>4 DEF IsTail
  <2> QED
    BY <2>3, <2>5 DEF T
<1>9. Len(t) # 0
  BY <1>8
<1>10. FlattenSeq(p) = p[1] \o FlattenSeq(t)
  BY <1>1, <1>8, <1>9, FlattenHead
<1>11. FlattenSeq(t) \in Seq(S)
  BY <1>8, <1>9, FlattenTyped
<1>12. (h \o l) \o FlattenSeq(t) = h \o (l \o FlattenSeq(t))
  <2>1. h \in Seq(S) /\ l \in Seq(S) /\ FlattenSeq(t) \in Seq(S)
    BY <1>4, <1>6, <1>7, <1>11
  <2> QED
    BY <2>1, SeqAssociative
<1>13. (h \o l) \o FlattenSeq(t) = SerializeReceipt(r)
  BY <1>4, <1>5, <1>10, <1>12
<1> QED
  BY <1>13 DEF h, l, t

(* The receipt as a client has it, its blob ids as the u256 they are.      *)
AsRead(r) == [f \in DOMAIN r |-> IF f \in Blobs THEN Reverse(r[f]) ELSE r[f]]

FieldNames == {SdkFields[i] : i \in Places}

LEMMA AsReadTyped ==
  ASSUME NEW S, NEW r, DOMAIN r = FieldNames, Typed(S, r)
  PROVE  Typed(S, AsRead(r))
<1> SUFFICES ASSUME NEW i \in Places
             PROVE  Fits(S, Kind(SdkFields[i]), AsRead(r)[SdkFields[i]])
  BY DEF Typed
<1> DEFINE f == SdkFields[i]
<1>1. f \in DOMAIN r
  BY DEF FieldNames
<1>2. AsRead(r)[f] = IF f \in Blobs THEN Reverse(r[f]) ELSE r[f]
  BY <1>1 DEF AsRead
<1>3. Fits(S, Kind(f), r[f])
  BY DEF Typed
<1> HIDE DEF f
<1>4. CASE f \in Blobs
  <2>1. Kind(f) = "u256"
    BY <1>4, KindIsOne
  <2>2. r[f] \in Seq(S) /\ Len(r[f]) = 2
    BY <1>3, <2>1 DEF Fits
  <2>3. Reverse(r[f]) \in Seq(S) /\ Len(Reverse(r[f])) = 2
    BY <2>2, ReverseSeq
  <2>4. Fits(S, Kind(f), AsRead(r)[f])
    BY <1>2, <1>4, <2>1, <2>3 DEF Fits
  <2> QED
    BY <2>4 DEF f
<1>5. CASE f \notin Blobs
  <2>1. Fits(S, Kind(f), AsRead(r)[f])
    BY <1>2, <1>3, <1>5
  <2> QED
    BY <2>1 DEF f
<1> QED
  BY <1>4, <1>5

(* What the enclave writes by hand is the BCS of what a client reads.      *)
LEMMA EnclaveWritesBcs ==
  ASSUME NEW S, NEW r, DOMAIN r = FieldNames, Typed(S, r)
  PROVE  SerializeIntentMessage(r) = SerializeReceipt(AsRead(r))
<1>1. ASSUME NEW i \in Places
      PROVE  Write(Kind(SdkFields[i]), r[SdkFields[i]]) = Piece(AsRead(r), i)
  <2> DEFINE f == SdkFields[i]
  <2>1. f \in DOMAIN r
    BY DEF FieldNames
  <2>2. AsRead(r)[f] = IF f \in Blobs THEN Reverse(r[f]) ELSE r[f]
    BY <2>1 DEF AsRead
  <2>3. Fits(S, Kind(f), r[f])
    BY DEF Typed
  <2>4. Piece(AsRead(r), i) = Bcs(Kind(f), AsRead(r)[f])
    BY DEF Piece
  <2> HIDE DEF f
  <2>5. CASE f \in Blobs
    <3>1. Kind(f) = "u256"
      BY <2>5, KindIsOne
    <3>2. r[f] \in Seq(S)
      BY <2>3, <3>1 DEF Fits
    <3>3. Reverse(Reverse(r[f])) = r[f]
      BY <3>2, ReverseSeq
    <3>4. Write(Kind(f), r[f]) = Bcs(Kind(f), AsRead(r)[f])
      BY <2>2, <2>5, <3>1, <3>3 DEF Write, Bcs
    <3> QED
      BY <2>4, <3>4 DEF f
  <2>6. CASE f \notin Blobs
    <3>1. AsRead(r)[f] = r[f] /\ Kind(f) # "u256" /\ Kind(f) \in KindNames
      BY <2>2, <2>6, KindIsOne
    <3>2. CASE Kind(f) = "u8"
      <4>1. Write(Kind(f), r[f]) = Bcs(Kind(f), AsRead(r)[f])
        BY <3>1, <3>2 DEF Write, Bcs
      <4> QED
        BY <2>4, <4>1 DEF f
    <3>3. CASE Kind(f) = "u64"
      <4>1. Write(Kind(f), r[f]) = Bcs(Kind(f), AsRead(r)[f])
        BY <3>1, <3>3 DEF Write, Bcs
      <4> QED
        BY <2>4, <4>1 DEF f
    <3>4. CASE Kind(f) = "sequence"
      <4>1. r[f] \in Seq(S)
        BY <2>3, <3>4 DEF Fits
      <4>2. WriteUleb128[Len(r[f])] = BcsLength(Len(r[f]))
        BY <4>1, LengthsWrittenAlike
      <4>3. Write(Kind(f), r[f]) = Bcs(Kind(f), AsRead(r)[f])
        BY <3>1, <3>4, <4>2 DEF Write, Bcs
      <4> QED
        BY <2>4, <4>3 DEF f
    <3> QED
      BY <3>1, <3>2, <3>3, <3>4 DEF KindNames
  <2> QED
    BY <2>5, <2>6
<1>2. DOMAIN EnclaveFields = Places /\ EnclaveFields = SdkFields
  BY FieldTables
<1>3. [i \in DOMAIN EnclaveFields |-> Write(Kind(EnclaveFields[i]), r[EnclaveFields[i]])]
        = Pieces(AsRead(r))
  BY <1>1, <1>2 DEF Pieces
<1> QED
  BY <1>3, MessageOf DEF SerializeIntentMessage

-----------------------------------------------------------------------------
(* The receipts there are.                                                 *)
IsHash(x) == x = <<x[1], x[2]>>

IsReceipt(r) ==
  /\ DOMAIN r = FieldNames
  /\ r.provider \in Nat /\ r.outcome \in 0 .. 3
  /\ \A f \in Numbers : r[f] \in U64
  /\ \A f \in Hashes : IsHash(r[f])
  /\ \A f \in Names \cup {"receipt_id"} : r[f] \in Name

(* The bytes of a receipt's hashes, and all others.                        *)
HashSymbols(r) == AllBytes \cup UNION {{r[f][1], r[f][2]} : f \in Hashes}

FieldSet ==
  {"provider", "outcome", "receipt_id"} \cup Numbers \cup Hashes \cup Names

LEMMA FieldNamesAre == FieldNames = FieldSet
<1> DEFINE s == SdkFields
<1>1. /\ s[1] = "timestamp_ms" /\ s[2] = "receipt_id" /\ s[3] = "config_hash"
      /\ s[4] = "provider" /\ s[5] = "endpoint_host" /\ s[6] = "tls_cert_sha256"
      /\ s[7] = "request_blob" /\ s[8] = "upstream_request_blob"
      /\ s[9] = "upstream_headers_hash" /\ s[10] = "model_id"
      /\ s[11] = "provider_request_id" /\ s[12] = "response_blob"
      /\ s[13] = "provider_meta_hash" /\ s[14] = "input_tokens"
      /\ s[15] = "cache_creation_tokens" /\ s[16] = "cache_read_tokens"
      /\ s[17] = "output_tokens" /\ s[18] = "outcome"
  BY DEF SdkFields
<1>2. Places = {1, 2, 3, 4, 5, 6, 7, 8, 9, 10, 11, 12, 13, 14, 15, 16, 17, 18}
  BY DEF Places
<1> HIDE DEF s
<1>3. {s[i] : i \in Places} =
        {s[1], s[2], s[3], s[4], s[5], s[6], s[7], s[8], s[9], s[10], s[11],
         s[12], s[13], s[14], s[15], s[16], s[17], s[18]}
  BY <1>2
<1>4. {s[i] : i \in Places} =
        {"timestamp_ms", "receipt_id", "config_hash", "provider", "endpoint_host",
         "tls_cert_sha256", "request_blob", "upstream_request_blob",
         "upstream_headers_hash", "model_id", "provider_request_id",
         "response_blob", "provider_meta_hash", "input_tokens",
         "cache_creation_tokens", "cache_read_tokens", "output_tokens", "outcome"}
  BY <1>1, <1>3
<1>5. FieldSet =
        {"timestamp_ms", "receipt_id", "config_hash", "provider", "endpoint_host",
         "tls_cert_sha256", "request_blob", "upstream_request_blob",
         "upstream_headers_hash", "model_id", "provider_request_id",
         "response_blob", "provider_meta_hash", "input_tokens",
         "cache_creation_tokens", "cache_read_tokens", "output_tokens", "outcome"}
  BY DEF FieldSet, Numbers, Counters, Hashes, Blobs, Names
<1> QED
  BY <1>4, <1>5 DEF FieldNames, s

LEMMA SeqWider ==
  ASSUME NEW A, NEW S, A \subseteq S, NEW s \in Seq(A)
  PROVE  s \in Seq(S)
  OBVIOUS

LEMMA NameSeq ==
  ASSUME NEW S, AllBytes \subseteq S, NEW x \in Name
  PROVE  x \in Seq(S)
<1>1. 2 * Base - 1 \in Nat
  BY SignedMessageAssumption
<1>2. {Byte(n) : n \in 0 .. 2 * Base - 1} \subseteq S
  BY <1>1 DEF AllBytes
<1> QED
  BY <1>2, SeqWider DEF Name

LEMMA HashSeq ==
  ASSUME NEW r, IsReceipt(r), NEW f \in Hashes
  PROVE  r[f] \in Seq(HashSymbols(r)) /\ Len(r[f]) = 2
<1>1. r[f] = <<r[f][1], r[f][2]>>
  BY DEF IsReceipt, IsHash
<1>2. PICK a \in HashSymbols(r), b \in HashSymbols(r) : a = r[f][1] /\ b = r[f][2]
  BY DEF HashSymbols
<1>3. r[f] = <<a, b>>
  BY <1>1, <1>2
<1> QED
  BY <1>3

(* A record may say what the host likes: the kinds of its fields are right,*)
(* but for the size of its numbers.                                        *)
Servable(S, x) ==
  /\ DOMAIN x = FieldNames
  /\ \A f \in {"provider", "outcome"} \cup Numbers : x[f] \in Nat
  /\ \A f \in Blobs : x[f] \in Seq(S) /\ Len(x[f]) = 2
  /\ \A f \in (Hashes \ Blobs) \cup Names \cup {"receipt_id"} : x[f] \in Seq(S)

LEMMA ReceiptServable ==
  ASSUME NEW r, IsReceipt(r)
  PROVE  Servable(HashSymbols(r), r)
<1>1. AllBytes \subseteq HashSymbols(r)
  BY DEF HashSymbols
<1>2. \A f \in {"provider", "outcome"} \cup Numbers : r[f] \in Nat
  <2>1. r.provider \in Nat /\ r.outcome \in Nat
    BY DEF IsReceipt
  <2>2. \A f \in Numbers : r[f] \in Nat
    BY U64IsNat DEF IsReceipt
  <2> QED
    BY <2>1, <2>2
<1>3. \A f \in Hashes : r[f] \in Seq(HashSymbols(r)) /\ Len(r[f]) = 2
  BY HashSeq
<1>4. \A f \in Names \cup {"receipt_id"} : r[f] \in Seq(HashSymbols(r))
  BY <1>1, NameSeq DEF IsReceipt
<1>5. Blobs \subseteq Hashes
  BY DEF Hashes
<1>6. DOMAIN r = FieldNames
  BY DEF IsReceipt
<1> QED
  BY <1>2, <1>3, <1>4, <1>5, <1>6 DEF Servable

(* What a receipt is made of makes its message readable.                   *)
LEMMA ServableTyped ==
  ASSUME NEW S, NEW x, Servable(S, x), \A f \in Numbers : x[f] \in U64
  PROVE  Typed(S, x)
<1> SUFFICES ASSUME NEW i \in Places
             PROVE  Fits(S, Kind(SdkFields[i]), x[SdkFields[i]])
  BY DEF Typed
<1> DEFINE f == SdkFields[i]
<1>1. f \in FieldSet
  BY FieldNamesAre DEF FieldNames
<1> HIDE DEF f
<1>2. CASE f \in {"provider", "outcome"}
  <2>1. Kind(f) = "u8" /\ x[f] \in Nat
    BY <1>2, KindIsOne DEF Servable
  <2> QED
    BY <2>1 DEF Fits, f
<1>3. CASE f \in Numbers
  <2>1. Kind(f) = "u64" /\ x[f] \in U64
    BY <1>3, KindIsOne
  <2> QED
    BY <2>1 DEF Fits, f
<1>4. CASE f \in Blobs
  <2>1. Kind(f) = "u256" /\ x[f] \in Seq(S) /\ Len(x[f]) = 2
    BY <1>4, KindIsOne DEF Servable
  <2> QED
    BY <2>1 DEF Fits, f
<1>5. CASE f \notin {"provider", "outcome"} /\ f \notin Numbers /\ f \notin Blobs
  <2>1. Kind(f) = "sequence"
    BY <1>5, KindIsOne DEF KindNames
  <2>2. x[f] \in Seq(S)
    BY <1>1, <1>5 DEF Servable, FieldSet
  <2> QED
    BY <2>1, <2>2 DEF Fits, f
<1> QED
  BY <1>2, <1>3, <1>4, <1>5

LEMMA ReceiptTyped ==
  ASSUME NEW r, IsReceipt(r)
  PROVE  Typed(HashSymbols(r), r)
<1>1. Servable(HashSymbols(r), r)
  BY ReceiptServable
<1>2. \A f \in Numbers : r[f] \in U64
  BY DEF IsReceipt
<1> QED
  BY <1>1, <1>2, ServableTyped

LEMMA EdgesAreNats == EdgeNumbers \subseteq Nat
<1>1. Power(2 * Base)[U64Bytes] \in Nat \ {0}
  <2>1. 2 * Base \in Nat \ {0} /\ U64Bytes \in Nat
    BY SignedMessageAssumption
  <2> QED
    BY <2>1, PowerPositive
<1>2. MaxSafe \in Nat
  BY SignedMessageAssumption
<1> QED
  BY <1>1, <1>2 DEF EdgeNumbers

LEMMA CodesAreNats == Range(OutcomeCode) \subseteq Nat
  BY DEF Range, OutcomeCode

(* What the host changes leaves each field a value of its kind.            *)
LEMMA ChangedServable ==
  ASSUME NEW r, IsReceipt(r), NEW x \in Changed(r)
  PROVE  Servable(HashSymbols(r), x)
<1> DEFINE S == HashSymbols(r)
<1>1. Servable(S, r)
  BY ReceiptServable
<1>2. AllBytes \subseteq S
  BY DEF HashSymbols
<1> HIDE DEF S
<1>3. ASSUME NEW f \in Counters, NEW n \in Nat, x = [r EXCEPT ![f] = n]
      PROVE  Servable(S, x)
  <2>1. f \in Numbers /\ f \notin Blobs
    BY DEF Numbers, Counters, Blobs
  <2>2. f \notin (Hashes \ Blobs) \cup Names \cup {"receipt_id"}
    BY DEF Counters, Hashes, Blobs, Names
  <2>3. DOMAIN x = DOMAIN r /\ x[f] \in {n, r[f]} /\ \A g \in FieldNames : g # f => x[g] = r[g]
    BY <1>1, <1>3 DEF Servable
  <2>4. \A g \in FieldSet : g # f => x[g] = r[g]
    BY <2>3, FieldNamesAre
  <2>5. f \in FieldSet
    BY <2>1 DEF FieldSet
  <2>6. x[f] = n
    BY <1>1, <1>3, <2>5, FieldNamesAre DEF Servable
  <2>7. \A g \in {"provider", "outcome"} \cup Numbers : x[g] \in Nat
    BY <1>1, <2>4, <2>6 DEF Servable, FieldSet
  <2>8. \A g \in Blobs : x[g] = r[g]
    BY <2>1, <2>4 DEF FieldSet, Hashes
  <2>9. \A g \in (Hashes \ Blobs) \cup Names \cup {"receipt_id"} : x[g] = r[g]
    BY <2>2, <2>4 DEF FieldSet
  <2> QED
    BY <1>1, <2>3, <2>7, <2>8, <2>9 DEF Servable
<1>4. ASSUME NEW n \in Nat, x = [r EXCEPT !.outcome = n]
      PROVE  Servable(S, x)
  <2>1. DOMAIN x = DOMAIN r /\ x.outcome \in {n, r.outcome}
        /\ \A g \in FieldNames : g # "outcome" => x[g] = r[g]
    BY <1>1, <1>4 DEF Servable
  <2>2. \A g \in FieldSet : g # "outcome" => x[g] = r[g]
    BY <2>1, FieldNamesAre
  <2>3. x.outcome \in Nat
    BY <1>1, <2>1 DEF Servable
  <2>4. \A g \in {"provider", "outcome"} \cup Numbers : x[g] \in Nat
    BY <1>1, <2>2, <2>3 DEF Servable, FieldSet
  <2>5. \A g \in Blobs : x[g] = r[g]
    BY <2>2 DEF FieldSet, Hashes, Blobs
  <2>6. \A g \in (Hashes \ Blobs) \cup Names \cup {"receipt_id"} : x[g] = r[g]
    BY <2>2 DEF FieldSet, Hashes, Blobs, Names
  <2> QED
    BY <1>1, <2>1, <2>4, <2>5, <2>6 DEF Servable
<1>5. ASSUME NEW kind \in OfAKind, NEW f \in kind, NEW g \in kind,
             x = [r EXCEPT ![f] = r[g]]
      PROVE  Servable(S, x)
  <2>1. \/ f \in Blobs /\ g \in Blobs
        \/ f \in (Hashes \ Blobs) \cup Names /\ g \in (Hashes \ Blobs) \cup Names
    BY DEF OfAKind
  <2>2. f \notin {"provider", "outcome"} \cup Numbers
    BY <2>1 DEF Hashes, Blobs, Names, Numbers, Counters
  <2>3. f \in FieldSet
    BY <2>1 DEF FieldSet, Hashes
  <2>4. DOMAIN x = DOMAIN r /\ x[f] = r[g] /\ \A h \in FieldNames : h # f => x[h] = r[h]
    BY <1>1, <1>5, <2>3, FieldNamesAre DEF Servable
  <2>5. \A h \in FieldSet : h # f => x[h] = r[h]
    BY <2>4, FieldNamesAre
  <2>6. \A h \in {"provider", "outcome"} \cup Numbers : x[h] = r[h]
    BY <2>2, <2>5 DEF FieldSet
  <2>7. \A h \in Blobs : x[h] = r[h] \/ (h = f /\ f \in Blobs /\ g \in Blobs /\ x[h] = r[g])
    <3> TAKE h \in Blobs
    <3>1. h \in FieldSet /\ h \notin (Hashes \ Blobs) \cup Names
      BY DEF FieldSet, Hashes, Blobs, Names
    <3> QED
      BY <2>1, <2>4, <2>5, <3>1
  <2>8. \A h \in (Hashes \ Blobs) \cup Names \cup {"receipt_id"} :
          \/ x[h] = r[h]
          \/ h = f /\ f \notin Blobs /\ g \in (Hashes \ Blobs) \cup Names /\ x[h] = r[g]
    <3> TAKE h \in (Hashes \ Blobs) \cup Names \cup {"receipt_id"}
    <3>1. h \in FieldSet /\ h \notin Blobs
      BY DEF FieldSet, Hashes, Blobs, Names
    <3> QED
      BY <2>1, <2>4, <2>5, <3>1
  <2>9. \A h \in Blobs : x[h] \in Seq(S) /\ Len(x[h]) = 2
    BY <1>1, <2>7 DEF Servable
  <2>10. \A h \in (Hashes \ Blobs) \cup Names \cup {"receipt_id"} : x[h] \in Seq(S)
    BY <1>1, <2>8 DEF Servable
  <2>11. DOMAIN x = FieldNames
    BY <1>1, <2>4 DEF Servable
  <2>12. \A h \in {"provider", "outcome"} \cup Numbers : x[h] \in Nat
    BY <1>1, <2>6 DEF Servable
  <2> QED
    BY <2>9, <2>10, <2>11, <2>12 DEF Servable
<1>6. ASSUME r.model_id # NoName, x = Moved(r, "model_id", "provider_request_id")
      PROVE  Servable(S, x)
  <2> DEFINE name == r.model_id
             id == r.provider_request_id
  <2>1. name \in Seq(S) /\ id \in Seq(S) /\ name # <<>>
    BY <1>1, <1>6 DEF Servable, Names, NoName
  <2>2. x = [r EXCEPT !.model_id = Front(name), !.provider_request_id = <<Last(name)>> \o id]
    BY <1>6 DEF Moved
  <2>3. DOMAIN r = FieldSet
    BY <1>1, FieldNamesAre DEF Servable
  <2>4. "model_id" \in FieldSet /\ "provider_request_id" \in FieldSet
    BY DEF FieldSet, Names
  <2> HIDE DEF name, id
  <2>5. Front(name) \in Seq(S)
    <3>1. Len(name) \in Nat \ {0}
      BY <2>1
    <3>2. Len(name) - 1 \in 0 .. Len(name)
      BY <3>1
    <3> QED
      BY <2>1, <3>1, <3>2 DEF Front
  <2>6. <<Last(name)>> \o id \in Seq(S)
    <3>1. Last(name) \in S
      BY <2>1 DEF Last
    <3>2. <<Last(name)>> \in Seq(S)
      BY <3>1
    <3> QED
      BY <2>1, <3>2
  <2> DEFINE front == Front(name)
             moved == <<Last(name)>> \o id
  <2>7. front \in Seq(S) /\ moved \in Seq(S)
        /\ x = [r EXCEPT !.model_id = front, !.provider_request_id = moved]
    BY <2>2, <2>5, <2>6
  <2> HIDE DEF front, moved
  <2>8. /\ DOMAIN x = FieldSet /\ x.model_id = front /\ x.provider_request_id = moved
        /\ \A h \in FieldSet : h \notin {"model_id", "provider_request_id"} => x[h] = r[h]
    BY <2>3, <2>4, <2>7
  <2>9. \A h \in {"provider", "outcome"} \cup Numbers : x[h] = r[h]
    BY <2>8 DEF FieldSet, Numbers, Counters
  <2>10. \A h \in Blobs : x[h] = r[h]
    BY <2>8 DEF FieldSet, Hashes, Blobs
  <2>11. \A h \in (Hashes \ Blobs) \cup Names \cup {"receipt_id"} :
           h \in {"model_id", "provider_request_id"} \/ x[h] = r[h]
    BY <2>8 DEF FieldSet
  <2>12. \A h \in (Hashes \ Blobs) \cup Names \cup {"receipt_id"} : x[h] \in Seq(S)
    BY <1>1, <2>7, <2>8, <2>11 DEF Servable
  <2>13. DOMAIN x = FieldNames
    BY <2>8, FieldNamesAre
  <2>14. \A h \in Blobs : x[h] \in Seq(S) /\ Len(x[h]) = 2
    BY <1>1, <2>10 DEF Servable
  <2>15. \A h \in {"provider", "outcome"} \cup Numbers : x[h] \in Nat
    BY <1>1, <2>9 DEF Servable
  <2> QED
    BY <2>12, <2>13, <2>14, <2>15 DEF Servable
<1>7. \/ \E f \in Counters, n \in EdgeNumbers : x = [r EXCEPT ![f] = n]
      \/ \E n \in Range(OutcomeCode) : x = [r EXCEPT !.outcome = n]
      \/ \E kind \in OfAKind : \E f, g \in kind : x = [r EXCEPT ![f] = r[g]]
      \/ r.model_id # NoName /\ x = Moved(r, "model_id", "provider_request_id")
  <2>1. x \in Recounted(r) =>
          \E f \in Counters, n \in EdgeNumbers : x = [r EXCEPT ![f] = n]
    BY DEF Recounted
  <2>2. x \in Reworded(r) => \E n \in Range(OutcomeCode) : x = [r EXCEPT !.outcome = n]
    BY DEF Reworded
  <2>3. x \in Copied(r) =>
          \E kind \in OfAKind : \E f, g \in kind : x = [r EXCEPT ![f] = r[g]]
    BY DEF Copied
  <2>4. x \in Shifted(r) =>
          r.model_id # NoName /\ x = Moved(r, "model_id", "provider_request_id")
    BY DEF Shifted
  <2> QED
    BY <2>1, <2>2, <2>3, <2>4 DEF Changed
<1>8. Servable(S, x)
  BY <1>3, <1>4, <1>5, <1>6, <1>7, EdgesAreNats, CodesAreNats
<1> QED
  BY <1>8 DEF S

-----------------------------------------------------------------------------
(* What a client makes of a record.                                        *)
RecordOf(x, bytes) == [fields |-> x, signature |-> bytes]

LEMMA DecodedFields ==
  ASSUME NEW x, NEW bytes, DOMAIN x = FieldNames
  PROVE  /\ DOMAIN Decoded(RecordOf(x, bytes)) = FieldNames
         /\ \A f \in Numbers : Decoded(RecordOf(x, bytes))[f] = JsonNumber(x[f])
         /\ \A f \in Blobs : Decoded(RecordOf(x, bytes))[f] = Reverse(x[f])
         /\ \A f \in FieldNames : f \notin Numbers /\ f \notin Blobs =>
              Decoded(RecordOf(x, bytes))[f] = x[f]
<1> DEFINE d == Decoded(RecordOf(x, bytes))
<1>1. RecordOf(x, bytes).fields = x
  BY DEF RecordOf
<1>2. d = [f \in FieldNames |->
             CASE f \in Numbers -> JsonNumber(x[f])
               [] f \in Blobs   -> ParseBlobId(x[f])
               [] OTHER         -> x[f]]
  BY <1>1 DEF Decoded
<1>3. Numbers \subseteq FieldNames /\ Blobs \subseteq FieldNames
  BY FieldNamesAre DEF FieldSet, Hashes
<1>4. \A f \in Numbers : f \notin Blobs
  BY DEF Numbers, Counters, Blobs
<1> HIDE DEF d
<1>5. DOMAIN d = FieldNames
  BY <1>2
<1>6. \A f \in FieldNames :
        d[f] = CASE f \in Numbers -> JsonNumber(x[f])
                 [] f \in Blobs   -> ParseBlobId(x[f])
                 [] OTHER         -> x[f]
  BY <1>2
<1>7. \A f \in Numbers : d[f] = JsonNumber(x[f])
  BY <1>3, <1>4, <1>6
<1>8. \A f \in Blobs : d[f] = Reverse(x[f])
  BY <1>3, <1>4, <1>6 DEF ParseBlobId
<1>9. \A f \in FieldNames : f \notin Numbers /\ f \notin Blobs => d[f] = x[f]
  BY <1>6
<1> QED
  BY <1>5, <1>7, <1>8, <1>9 DEF d

LEMMA DecodedTyped ==
  ASSUME NEW S, NEW x, NEW bytes, Servable(S, x),
         Encodable(Decoded(RecordOf(x, bytes)))
  PROVE  Typed(S, Decoded(RecordOf(x, bytes)))
<1> DEFINE d == Decoded(RecordOf(x, bytes))
<1>0. DOMAIN x = FieldNames
  BY DEF Servable
<1>1. /\ DOMAIN d = FieldNames
      /\ \A f \in Blobs : d[f] = Reverse(x[f])
      /\ \A f \in FieldNames : f \notin Numbers /\ f \notin Blobs => d[f] = x[f]
  BY <1>0, DecodedFields
<1>2. \A f \in Numbers : d[f] \in U64
  BY DEF Encodable
<1> HIDE DEF d
<1>3. ASSUME NEW f \in Blobs PROVE d[f] \in Seq(S) /\ Len(d[f]) = 2
  <2>1. x[f] \in Seq(S) /\ Len(x[f]) = 2
    BY DEF Servable
  <2>2. Reverse(x[f]) \in Seq(S) /\ Len(Reverse(x[f])) = 2
    BY <2>1, ReverseSeq
  <2> QED
    BY <1>1, <2>2
<1>4. ASSUME NEW f \in {"provider", "outcome"} PROVE d[f] \in Nat
  <2>1. f \in FieldNames /\ f \notin Numbers /\ f \notin Blobs
    BY FieldNamesAre DEF FieldSet, Numbers, Counters, Blobs
  <2> QED
    BY <1>1, <2>1 DEF Servable
<1>5. ASSUME NEW f \in (Hashes \ Blobs) \cup Names \cup {"receipt_id"}
      PROVE  d[f] \in Seq(S)
  <2>1. f \in FieldNames /\ f \notin Numbers /\ f \notin Blobs
    BY FieldNamesAre DEF FieldSet, Numbers, Counters, Hashes, Blobs, Names
  <2> QED
    BY <1>1, <2>1 DEF Servable
<1>6. \A f \in Numbers : d[f] \in Nat
  BY <1>2, U64IsNat
<1>7. Servable(S, d)
  BY <1>1, <1>3, <1>4, <1>5, <1>6 DEF Servable
<1>8. Typed(S, d)
  BY <1>2, <1>7, ServableTyped
<1> QED
  BY <1>8 DEF d

(* The SDK and the contract come to the same.                              *)
LEMMA VerifiersAgree ==
  ASSUME NEW S, AllBytes \subseteq S, NEW x, NEW bytes, Servable(S, x)
  PROVE  VerifyReceipt(RecordOf(x, bytes)) <=> VerifyOnChain(RecordOf(x, bytes))
<1> DEFINE rec == RecordOf(x, bytes)
           d == Decoded(rec)
<1>1. VerifyReceipt(rec) <=> Encodable(d) /\ SerializeReceipt(d) = rec.signature
  BY DEF VerifyReceipt
<1>2. VerifyOnChain(rec) <=>
        /\ Encodable(d)
        /\ rec.signature =
             <<Byte(0)>> \o LittleEndian(d.timestamp_ms)
               \o FlattenSeq([i \in DOMAIN MoveFields |->
                    Bcs(Kind(MoveFields[i]), d[NewReceiptArguments[i]])])
  BY DEF VerifyOnChain
<1>3. Encodable(d) => Typed(S, d)
  BY DecodedTyped
<1> HIDE DEF d
<1>4. ASSUME Encodable(d)
      PROVE  <<Byte(0)>> \o LittleEndian(d.timestamp_ms)
               \o FlattenSeq([i \in DOMAIN MoveFields |->
                    Bcs(Kind(MoveFields[i]), d[NewReceiptArguments[i]])])
             = SerializeReceipt(d)
  <2>1. Typed(S, d)
    BY <1>3, <1>4
  <2> QED
    BY <2>1, OnChainAlike
<1> HIDE DEF rec
<1>5. VerifyReceipt(rec) <=> VerifyOnChain(rec)
  BY <1>1, <1>2, <1>4
<1> QED
  BY <1>5 DEF rec

LEMMA AsReadFields ==
  ASSUME NEW r, DOMAIN r = FieldNames
  PROVE  /\ DOMAIN AsRead(r) = FieldNames
         /\ \A f \in FieldNames :
              AsRead(r)[f] = IF f \in Blobs THEN Reverse(r[f]) ELSE r[f]
  BY DEF AsRead

(* What verifies is what was signed.                                       *)
LEMMA SignedIsOne ==
  ASSUME NEW r, IsReceipt(r), NEW x, Servable(HashSymbols(r), x),
         VerifyReceipt(RecordOf(x, SerializeIntentMessage(r)))
  PROVE  Decoded(RecordOf(x, SerializeIntentMessage(r))) = AsRead(r)
<1> DEFINE S == HashSymbols(r)
           bytes == SerializeIntentMessage(r)
           rec == RecordOf(x, bytes)
           d == Decoded(rec)
           e == AsRead(r)
<1>1. rec.signature = bytes
  BY DEF RecordOf
<1>2. Encodable(d) /\ SerializeReceipt(d) = bytes
  BY <1>1 DEF VerifyReceipt
<1>3. Typed(S, d)
  BY <1>2, DecodedTyped
<1>4. DOMAIN r = FieldNames
  BY DEF IsReceipt
<1>5. Typed(S, r)
  BY ReceiptTyped
<1>6. Typed(S, e)
  BY <1>4, <1>5, AsReadTyped
<1>7. SerializeReceipt(e) = bytes
  BY <1>4, <1>5, EnclaveWritesBcs
<1>8. AllBytes \subseteq S
  BY DEF HashSymbols
<1>9. DOMAIN d = FieldNames
  <2>1. DOMAIN x = FieldNames
    BY DEF Servable
  <2> QED
    BY <2>1, DecodedFields
<1>10. e = [f \in FieldNames |-> IF f \in Blobs THEN Reverse(r[f]) ELSE r[f]]
  BY <1>4 DEF AsRead
<1>11. d = [f \in FieldNames |-> d[f]]
  <2>1. d = [f \in DOMAIN d |-> d[f]]
    <3>1. DOMAIN rec.fields = DOMAIN d
      BY DEF Decoded
    <3> QED
      BY <3>1 DEF Decoded
  <2> HIDE DEF d
  <2> QED
    BY <1>9, <2>1
<1> HIDE DEF S, bytes, rec, d, e
<1>12. \A i \in Places : d[SdkFields[i]] = e[SdkFields[i]]
  <2>1. SerializeReceipt(d) = SerializeReceipt(e)
    BY <1>2, <1>7
  <2> QED
    BY <1>3, <1>6, <1>8, <2>1, MessageInjective
<1>13. \A f \in FieldNames : d[f] = e[f]
  BY <1>12 DEF FieldNames
<1>14. e = [f \in FieldNames |-> e[f]]
  BY <1>10
<1>15. d = e
  BY <1>11, <1>13, <1>14
<1> QED
  BY <1>15 DEF d, e, rec, bytes

(* And what was signed verifies, as far as its numbers survive JSON.       *)
LEMMA HonestIsRead ==
  ASSUME NEW r, IsReceipt(r), \A f \in Numbers : r[f] <= MaxSafe
  PROVE  VerifyReceipt(RecordOf(r, SerializeIntentMessage(r)))
<1> DEFINE S == HashSymbols(r)
           bytes == SerializeIntentMessage(r)
           rec == RecordOf(r, bytes)
           d == Decoded(rec)
           e == AsRead(r)
<1>1. DOMAIN r = FieldNames
  BY DEF IsReceipt
<1>2. /\ DOMAIN d = FieldNames
      /\ \A f \in Numbers : d[f] = JsonNumber(r[f])
      /\ \A f \in Blobs : d[f] = Reverse(r[f])
      /\ \A f \in FieldNames : f \notin Numbers /\ f \notin Blobs => d[f] = r[f]
  BY <1>1, DecodedFields
<1>3. \A f \in Numbers : JsonNumber(r[f]) = r[f]
  BY DEF JsonNumber
<1>4. e = [f \in FieldNames |-> IF f \in Blobs THEN Reverse(r[f]) ELSE r[f]]
  BY <1>1 DEF AsRead
<1>5. d = [f \in FieldNames |-> d[f]]
  <2>1. d = [f \in DOMAIN d |-> d[f]]
    <3>1. DOMAIN rec.fields = DOMAIN d
      BY DEF Decoded
    <3> QED
      BY <3>1 DEF Decoded
  <2> HIDE DEF d
  <2> QED
    BY <1>2, <2>1
<1>6. Typed(S, r)
  BY ReceiptTyped
<1>7. SerializeReceipt(e) = bytes
  BY <1>1, <1>6, EnclaveWritesBcs
<1>8. rec.signature = bytes
  BY DEF RecordOf
<1> HIDE DEF d, e, rec, bytes
<1>9. \A f \in FieldNames : d[f] = e[f]
  <2> TAKE f \in FieldNames
  <2>1. e[f] = IF f \in Blobs THEN Reverse(r[f]) ELSE r[f]
    BY <1>4
  <2>2. f \in Numbers => f \notin Blobs
    BY DEF Numbers, Counters, Blobs
  <2> QED
    BY <1>2, <1>3, <2>1, <2>2
<1>10. e = [f \in FieldNames |-> e[f]]
  BY <1>4
<1>11. d = e
  BY <1>5, <1>9, <1>10
<1>12. Encodable(d)
  <2>1. \A f \in Numbers : r[f] \in U64
    BY DEF IsReceipt
  <2> QED
    BY <1>2, <1>3, <2>1 DEF Encodable
<1>13. VerifyReceipt(rec)
  BY <1>7, <1>8, <1>11, <1>12 DEF VerifyReceipt, d
<1> QED
  BY <1>13 DEF rec, bytes

-----------------------------------------------------------------------------
(* What the handlers sign.                                                 *)
OutcomeNames == {"ok", "refusal", "upstream_error", "policy_denied"}

CanSign(ctx, parts) ==
  /\ ctx.id \in Name /\ parts.id \in Name /\ parts.model \in Name
  /\ parts.usage \in [Counters -> U64]
  /\ parts.outcome \in OutcomeNames

LEMMA NameFacts == NoName \in Name /\ \A n \in {0, 1} : Byte(n) \in {Byte(k) : k \in 0 .. 2 * Base - 1}
<1>1. \A n \in {0, 1} : n \in 0 .. 2 * Base - 1
  BY SignedMessageAssumption
<1> QED
  BY <1>1 DEF NoName, Name

LEMMA ZeroAndOne == 0 \in U64 /\ 1 \in U64
<1> DEFINE b == 2 * Base
           N == U64Bytes
<1>1. b \in Nat \ {0} /\ b >= 4 /\ N \in Nat \ {0}
  BY SignedMessageAssumption
<1> HIDE DEF b, N
<1>2. N - 1 \in Nat /\ (N - 1) + 1 = N
  BY <1>1
<1>3. PICK p \in Nat \ {0} : p = Power(b)[N - 1]
  BY <1>1, <1>2, PowerPositive
<1>4. Power(b)[N] = b * p
  BY <1>2, <1>3, PowerSteps
<1>5. b * p \in Nat /\ b * p >= 4
  BY <1>1
<1>6. 0 \in 0 .. Power(b)[N] - 1 /\ 1 \in 0 .. Power(b)[N] - 1
  BY <1>4, <1>5
<1> QED
  BY <1>6 DEF U64, b, N

LEMMA HashBytesFacts ==
  ASSUME NEW h
  PROVE  IsHash(HashBytes(h)) /\ Len(HashBytes(h)) = 2 /\ HashBytes(h)[1].first = h
  BY DEF IsHash, HashBytes

LEMMA ZeroHashIsHash == IsHash(ZeroHash)
  BY DEF IsHash, ZeroHash

LEMMA SignFields ==
  ASSUME NEW ctx, NEW parts, Sign(ctx, parts)
  PROVE  /\ receipt'.model_id = parts.model
         /\ receipt'.upstream_headers_hash = HashBytes(ctx.headers)
         /\ receipt'.request_blob = HashBytes(RequestBlob)
         /\ receipt'.upstream_request_blob = HashBytes(ctx.upstream_request_blob)
         /\ receipt'.response_blob = HashBytes(BlobId(parts.response))
         /\ receipt'.provider_meta_hash = HashBytes(Sha256(parts.meta))
         /\ receipt'.outcome = OutcomeCode[parts.outcome]
         /\ \A f \in Counters : receipt'[f] = parts.usage[f]
<1>1. \A f \in Counters : receipt'[f] = parts.usage[f]
  BY DEF Sign, Counters
<1> QED
  BY <1>1 DEF Sign

LEMMA SignMakesReceipt ==
  ASSUME request \in Requests, NEW ctx, NEW parts, CanSign(ctx, parts), Sign(ctx, parts)
  PROVE  /\ IsReceipt(receipt') /\ receipt' # Nothing
         /\ signature' = SerializeIntentMessage(receipt')
         /\ phase' = "signed" /\ UNCHANGED <<request, record>>
<1> DEFINE r == receipt'
<1>1. DOMAIN r = FieldNames
  <2>1. DOMAIN r = FieldSet
    BY DEF Sign, FieldSet, Numbers, Counters, Hashes, Blobs, Names
  <2> QED
    BY <2>1, FieldNamesAre
<1>2. r.provider \in Nat
  BY DEF Sign
<1>3. r.outcome \in 0 .. 3
  <2>1. r.outcome = OutcomeCode[parts.outcome] /\ parts.outcome \in OutcomeNames
    BY SignFields DEF CanSign
  <2> HIDE DEF r
  <2> QED
    BY <2>1 DEF OutcomeCode, OutcomeNames
<1>4. \A f \in Numbers : r[f] \in U64
  <2>1. \A f \in Counters : r[f] = parts.usage[f] /\ parts.usage[f] \in U64
    BY SignFields DEF CanSign
  <2>2. r.timestamp_ms = 1
    BY DEF Sign
  <2> HIDE DEF r
  <2> QED
    BY <2>1, <2>2, ZeroAndOne DEF Numbers
<1>5. \A f \in Hashes : IsHash(r[f])
  <2>1. \A f \in Blobs : IsHash(r[f])
    <3>1. IsHash(r.request_blob)
      BY SignFields, HashBytesFacts
    <3>2. IsHash(r.upstream_request_blob)
      BY SignFields, HashBytesFacts
    <3>3. IsHash(r.response_blob)
      BY SignFields, HashBytesFacts
    <3> HIDE DEF r
    <3> QED
      BY <3>1, <3>2, <3>3 DEF Blobs
  <2>2. IsHash(r.config_hash)
    <3>1. r.config_hash = HashBytes(Sha256([policy |-> "document"]))
      BY DEF Sign
    <3> HIDE DEF r
    <3> QED
      BY <3>1, HashBytesFacts
  <2>3. IsHash(r.tls_cert_sha256)
    <3>1. r.tls_cert_sha256 = IF ctx.peer = Nil THEN ZeroHash
                              ELSE HashBytes(Sha256([cert |-> ctx.peer]))
      BY DEF Sign
    <3> HIDE DEF r
    <3> QED
      BY <3>1, HashBytesFacts, ZeroHashIsHash
  <2>4. IsHash(r.upstream_headers_hash)
    BY SignFields, HashBytesFacts
  <2>5. IsHash(r.provider_meta_hash)
    BY SignFields, HashBytesFacts
  <2> HIDE DEF r
  <2> QED
    BY <2>1, <2>2, <2>3, <2>4, <2>5 DEF Hashes
<1>6. \A f \in Names \cup {"receipt_id"} : r[f] \in Name
  <2>1. r.model_id \in Name
    BY SignFields DEF CanSign
  <2>2. r.provider_request_id \in Name
    <3>1. r.provider_request_id = IF parts.id = NoName THEN ctx.id ELSE parts.id
      BY DEF Sign
    <3> HIDE DEF r
    <3> QED
      BY <3>1 DEF CanSign
  <2>3. r.endpoint_host \in Name
    <3>1. r.endpoint_host = Hosts[surface]
      BY DEF Sign
    <3> HIDE DEF r
    <3> QED
      BY <3>1, ExchangeAssumption DEF surface
  <2>4. r.receipt_id \in Name
    <3>1. r.receipt_id = <<Byte(0), Byte(1)>>
      BY DEF Sign
    <3>2. PICK a, b : a = Byte(0) /\ b = Byte(1)
      OBVIOUS
    <3> DEFINE B == {Byte(k) : k \in 0 .. 2 * Base - 1}
    <3>3. a \in B /\ b \in B
      BY <3>2, NameFacts
    <3> HIDE DEF B
    <3>4. <<a, b>> \in Seq(B)
      BY <3>3
    <3> HIDE DEF r
    <3> QED
      BY <3>1, <3>2, <3>4 DEF B, Name
  <2> HIDE DEF r
  <2> QED
    BY <2>1, <2>2, <2>3, <2>4 DEF Names
<1>7. r # Nothing
  <2>1. "outcome" \in DOMAIN r
    BY <1>1, FieldNamesAre DEF FieldSet
  <2>2. DOMAIN Nothing = {}
    BY DEF Nothing
  <2> HIDE DEF r
  <2> QED
    BY <2>1, <2>2
<1>8. /\ signature' = SerializeIntentMessage(r)
      /\ phase' = "signed" /\ UNCHANGED <<request, record>>
  BY DEF Sign
<1>9. IsReceipt(r)
  <2> HIDE DEF r
  <2> QED
    BY <1>1, <1>2, <1>3, <1>4, <1>5, <1>6 DEF IsReceipt
<1> QED
  BY <1>7, <1>8, <1>9

(* The two contexts, and the two kinds of response.                        *)
LEMMA ContextsSign ==
  /\ NoUpstreamCall.id \in Name
  /\ \A a \in Answers : WithUpstreamMeta(a).id \in Name
<1>1. NoUpstreamCall.id \in Name
  BY NameFacts DEF NoUpstreamCall
<1>2. ASSUME NEW a \in Answers PROVE WithUpstreamMeta(a).id \in Name
  <2>1. a.header = Nil \/ a.header \in Name
    BY ExchangeAssumption
  <2>2. WithUpstreamMeta(a).id = OrElse(a.header, NoName)
    BY DEF WithUpstreamMeta
  <2> QED
    BY <2>1, <2>2, NameFacts DEF OrElse
<1> QED
  BY <1>1, <1>2

ErrorParts(outcome, status, message) ==
  [usage |-> NoTokens, model |-> ModelHint, id |-> NoName,
   response |-> [error |-> TRUE, status |-> status, message |-> message],
   meta |-> DefaultMeta, outcome |-> outcome]

AnswerParts(answer, broken) ==
  LET heard    == [answer EXCEPT !.model = OrElse(@, ModelHint)]
      response == ToCanonicalResponse(surface, heard)
  IN  [usage |-> answer.usage, model |-> response.model,
       id |-> OrElse(answer.id, NoName), response |-> response,
       meta |-> ProviderMeta(response.stop, answer.tier, answer.geo),
       outcome |-> IF broken THEN "upstream_error"
                   ELSE OutcomeFor(surface, response.stop)]

LEMMA SignedParts ==
  /\ \A ctx, outcome, status, message :
       SignError(ctx, outcome, status, message)
         <=> Sign(ctx, ErrorParts(outcome, status, message)) /\ UNCHANGED named
  /\ \A answer, broken :
       SignAnswer(answer, broken)
         <=> /\ Sign(WithUpstreamMeta(answer), AnswerParts(answer, broken))
             /\ named' = answer.model
  BY DEF SignError, SignAnswer, ErrorParts, AnswerParts

LEMMA HintIsName ==
  ASSUME request \in Requests
  PROVE  ModelHint \in Name
<1>1. ModelHint = request.body.model
  BY DEF ModelHint, CanonicalRequest, ToCanonicalRequest
<1> QED
  BY <1>1, ExchangeAssumption

LEMMA ErrorsSign ==
  ASSUME request \in Requests, NEW ctx, ctx.id \in Name,
         NEW outcome \in OutcomeNames, NEW status, NEW message
  PROVE  CanSign(ctx, ErrorParts(outcome, status, message))
<1>1. NoTokens \in [Counters -> U64]
  BY ZeroAndOne DEF NoTokens
<1> QED
  BY <1>1, HintIsName, NameFacts DEF CanSign, ErrorParts


LEMMA AnswersSign ==
  ASSUME request \in Requests, NEW a \in Answers, NEW broken \in BOOLEAN
  PROVE  CanSign(WithUpstreamMeta(a), AnswerParts(a, broken))
<1>1. /\ "model" \in DOMAIN a /\ a.usage \in [Counters -> U64]
      /\ a.model = Nil \/ a.model \in Name
      /\ a.id = Nil \/ a.id \in Name
  BY ExchangeAssumption
<1> DEFINE heard == [a EXCEPT !.model = OrElse(@, ModelHint)]
           response == ToCanonicalResponse(surface, heard)
<1>2. response.model = heard.model
  BY DEF ToCanonicalResponse
<1>3. heard.model = OrElse(a.model, ModelHint)
  BY <1>1
<1>4. response.model \in Name
  <2> HIDE DEF heard, response
  <2> QED
    BY <1>1, <1>2, <1>3, HintIsName DEF OrElse
<1>5. OutcomeFor(surface, response.stop) \in OutcomeNames
  BY DEF OutcomeFor, OutcomeNames
<1>6. OrElse(a.id, NoName) \in Name
  BY <1>1, NameFacts DEF OrElse
<1>7. AnswerParts(a, broken) =
        [usage |-> a.usage, model |-> response.model,
         id |-> OrElse(a.id, NoName), response |-> response,
         meta |-> ProviderMeta(response.stop, a.tier, a.geo),
         outcome |-> IF broken THEN "upstream_error"
                     ELSE OutcomeFor(surface, response.stop)]
  BY DEF AnswerParts
<1> DEFINE outcome == OutcomeFor(surface, response.stop)
           model == response.model
           meta == ProviderMeta(response.stop, a.tier, a.geo)
           parts == AnswerParts(a, broken)
<1>8. parts.usage = a.usage /\ parts.model = model /\ parts.id = OrElse(a.id, NoName)
      /\ parts.outcome = IF broken THEN "upstream_error" ELSE outcome
  <2> HIDE DEF outcome, model, meta, heard, response
  <2> QED
    BY <1>7 DEF outcome, model
<1>9. WithUpstreamMeta(a).id \in Name
  BY ContextsSign
<1>10. model \in Name /\ outcome \in OutcomeNames
  BY <1>4, <1>5
<1> HIDE DEF parts, outcome, model, heard, response
<1>11. CanSign(WithUpstreamMeta(a), parts)
  BY <1>1, <1>6, <1>8, <1>9, <1>10 DEF CanSign, OutcomeNames
<1> QED
  BY <1>11 DEF parts

-----------------------------------------------------------------------------
(* The invariant.  A call that is on its way has a body and no answer that *)
(* could have named a model; a receipt is of the request and, if there was *)
(* a response, of what went out; a record is of the receipt, changed or    *)
(* not.                                                                    *)
IsDispatched ==
  /\ phase = "received" => dispatched = Nothing
  /\ phase = "sent" => dispatched = Dispatched(surface, request.body)
  /\ dispatched # Nothing => dispatched = Dispatched(surface, request.body)
  /\ phase \in {"received", "sent"} => named = Nil

IsSigned ==
  receipt # Nothing =>
    /\ IsReceipt(receipt)
    /\ signature = SerializeIntentMessage(receipt)
    /\ receipt.request_blob = HashBytes(RequestBlob)

IsUpstream ==
  receipt # Nothing =>
    /\ ~Heard => receipt.upstream_request_blob = receipt.request_blob
    /\ Heard =>
         /\ dispatched # Nothing
         /\ receipt.upstream_request_blob =
              HashBytes(UpstreamRequestBlob(surface, request.body))

IsRecord ==
  record # Nothing =>
    /\ receipt # Nothing
    /\ \E x \in Changed(receipt) \cup {receipt} : record = RecordOf(x, signature)

ExchangeInv ==
  /\ TypeOK /\ (receipt = Nothing => record = Nothing)
  /\ IsDispatched /\ IsSigned /\ IsUpstream /\ IsRecord
  /\ ResponseExplainsReceipt

(* What the parts of a receipt say of each other, and of the model that    *)
(* the answer named.                                                       *)
Explained(ctx, parts, said) ==
  /\ parts.model = OrElse(said, ModelHint)
  /\ IF "error" \in DOMAIN parts.response
     THEN /\ said = Nil
          /\ parts.outcome \in {"upstream_error", "policy_denied"}
          /\ parts.usage = NoTokens /\ parts.meta = DefaultMeta
     ELSE /\ said = Nil => WantsStream(request.body)
          /\ parts.model = parts.response.model
          /\ parts.usage = parts.response.usage
          /\ parts.meta.stop = parts.response.stop
          /\ \/ parts.outcome = OutcomeFor(surface, parts.response.stop)
             \/ parts.outcome = "upstream_error" /\ WantsStream(request.body)
          /\ ctx.headers # Sha256(<<>>)

Contextual(ctx) ==
  \/ ctx = NoUpstreamCall
  \/ phase = "sent" /\ \E a \in Answers : ctx = WithUpstreamMeta(a)

Signing ==
  /\ phase \in {"received", "sent"} /\ UNCHANGED dispatched
  /\ \E ctx, parts : /\ Contextual(ctx) /\ CanSign(ctx, parts)
                     /\ Explained(ctx, parts, named') /\ Sign(ctx, parts)

LEMMA HeadersAreSome ==
  \A s : Sha256(UpstreamHeaders(s)) # Sha256(<<>>)
<1> TAKE s
<1>1. UpstreamHeaders(s) # <<>>
  <2>1. "content_type" \in DOMAIN UpstreamHeaders(s)
    BY DEF UpstreamHeaders
  <2>2. DOMAIN <<>> = {}
    OBVIOUS
  <2> QED
    BY <2>1, <2>2
<1> QED
  BY <1>1 DEF Sha256

LEMMA ErrorSigning ==
  ASSUME request \in Requests, NEW ctx, Contextual(ctx), ctx.id \in Name,
         NEW outcome \in {"upstream_error", "policy_denied"}, NEW status, NEW message,
         SignError(ctx, outcome, status, message),
         phase \in {"received", "sent"}, named = Nil, UNCHANGED dispatched
  PROVE  Signing
<1> DEFINE parts == ErrorParts(outcome, status, message)
<1>1. Sign(ctx, parts) /\ named' = Nil
  BY SignedParts
<1>2. CanSign(ctx, parts)
  <2>1. outcome \in OutcomeNames
    BY DEF OutcomeNames
  <2> QED
    BY <2>1, ErrorsSign
<1>3. Explained(ctx, parts, named')
  BY <1>1 DEF Explained, ErrorParts, OrElse
<1> HIDE DEF parts
<1> QED
  BY <1>1, <1>2, <1>3 DEF Signing

LEMMA AnswerSigning ==
  ASSUME request \in Requests, NEW a \in Answers, NEW broken \in BOOLEAN,
         broken \/ a.model = Nil => WantsStream(request.body),
         SignAnswer(a, broken), phase = "sent", UNCHANGED dispatched
  PROVE  Signing
<1> DEFINE ctx == WithUpstreamMeta(a)
           parts == AnswerParts(a, broken)
           heard == [a EXCEPT !.model = OrElse(@, ModelHint)]
           response == ToCanonicalResponse(surface, heard)
           outcome == OutcomeFor(surface, response.stop)
           meta == ProviderMeta(response.stop, a.tier, a.geo)
<1>1. Sign(ctx, parts) /\ named' = a.model
  BY SignedParts
<1>2. CanSign(ctx, parts)
  BY AnswersSign
<1>3. Contextual(ctx)
  BY DEF Contextual
<1>4. ctx.headers # Sha256(<<>>)
  BY HeadersAreSome DEF WithUpstreamMeta
<1>5. /\ parts.response = response /\ parts.model = response.model
      /\ parts.usage = a.usage /\ parts.meta = meta
      /\ parts.outcome = IF broken THEN "upstream_error" ELSE outcome
  BY DEF AnswerParts
<1>6. DOMAIN response = {"model", "content", "stop", "usage"}
  BY DEF ToCanonicalResponse
<1>7. response.usage = heard.usage
  BY DEF ToCanonicalResponse
<1>8. heard.usage = a.usage
  BY ExchangeAssumption
<1>9. meta.stop = response.stop
  BY DEF ProviderMeta
<1>10. response.model = OrElse(a.model, ModelHint)
  <2>1. response.model = heard.model
    BY DEF ToCanonicalResponse
  <2>2. heard.model = OrElse(a.model, ModelHint)
    BY ExchangeAssumption
  <2> QED
    BY <2>1, <2>2
<1> HIDE DEF ctx, parts, heard, response, meta
<1>11. Explained(ctx, parts, named')
  <2>1. "error" \notin DOMAIN parts.response
    BY <1>5, <1>6
  <2>2. \/ parts.outcome = OutcomeFor(surface, parts.response.stop)
        \/ parts.outcome = "upstream_error" /\ WantsStream(request.body)
    <3>1. CASE broken
      <4>1. parts.outcome = "upstream_error"
        BY <1>5, <3>1
      <4> QED
        BY <3>1, <4>1
    <3>2. CASE ~broken
      <4>1. parts.outcome = OutcomeFor(surface, response.stop)
        BY <1>5, <3>2
      <4> QED
        BY <1>5, <4>1
    <3> QED
      BY <3>1, <3>2
  <2> QED
    BY <1>1, <1>4, <1>5, <1>7, <1>8, <1>9, <1>10, <2>1, <2>2 DEF Explained
<1> QED
  BY <1>1, <1>2, <1>3, <1>11 DEF Signing

(* Every way a receipt comes about is a signing.                           *)
LEMMA StepsSign ==
  ASSUME request \in Requests, IsDispatched, Next
  PROVE  \/ Unconfigured \/ Send \/ Fetch \/ Signing
         \/ receipt # Nothing /\ \E fields \in Changed(receipt) : FetchChanged(fields)
<1>1. ASSUME NEW m \in Messages, Deny(m) PROVE Signing
  <2>1. Contextual(NoUpstreamCall) /\ NoUpstreamCall.id \in Name
    BY ContextsSign DEF Contextual
  <2>2. SignError(NoUpstreamCall, "policy_denied", Nil, m)
        /\ phase \in {"received", "sent"} /\ UNCHANGED dispatched /\ named = Nil
    BY <1>1 DEF Deny, IsDispatched
  <2> QED
    BY <2>1, <2>2, ErrorSigning
<1>2. ASSUME NEW m \in Messages, Lost(m) PROVE Signing
  <2>1. Contextual(NoUpstreamCall) /\ NoUpstreamCall.id \in Name
    BY ContextsSign DEF Contextual
  <2>2. SignError(NoUpstreamCall, "upstream_error", Nil, m)
        /\ phase \in {"received", "sent"} /\ UNCHANGED dispatched /\ named = Nil
    BY <1>2 DEF Lost, IsDispatched
  <2> QED
    BY <2>1, <2>2, ErrorSigning
<1>3. ASSUME NEW a \in Answers, NEW m \in Messages, Garbled(a, m) \/ Declined(a, 429, m)
      PROVE  Signing
  <2> DEFINE ctx == WithUpstreamMeta(a)
  <2>1. PICK status : SignError(ctx, "upstream_error", status, m)
    BY <1>3 DEF Garbled, Declined
  <2>2. phase = "sent" /\ UNCHANGED dispatched /\ named = Nil
    BY <1>3 DEF Garbled, Declined, IsDispatched
  <2>3. Contextual(ctx) /\ ctx.id \in Name
    BY <2>2, ContextsSign DEF Contextual
  <2> HIDE DEF ctx
  <2> QED
    BY <2>1, <2>2, <2>3, ErrorSigning
<1>4. ASSUME NEW a \in Answers, Answered(a) PROVE Signing
  <2>1. SignAnswer(a, FALSE) /\ phase = "sent" /\ UNCHANGED dispatched
        /\ a.model # Nil
    BY <1>4 DEF Answered
  <2> QED
    BY <2>1, AnswerSigning
<1>5. ASSUME NEW a \in Answers, NEW broken \in BOOLEAN, Streamed(a, broken) PROVE Signing
  <2>1. SignAnswer(a, broken) /\ phase = "sent" /\ UNCHANGED dispatched
        /\ WantsStream(request.body)
    BY <1>5 DEF Streamed
  <2> QED
    BY <2>1, AnswerSigning
<1> QED
  BY <1>1, <1>2, <1>3, <1>4, <1>5 DEF Next

LEMMA NothingIsEmpty ==
  ASSUME NEW r, NEW f \in DOMAIN r
  PROVE  r # Nothing
<1>1. DOMAIN Nothing = {}
  BY DEF Nothing
<1> QED
  BY <1>1

LEMMA MessageIsSome ==
  ASSUME NEW r, IsReceipt(r)
  PROVE  SerializeIntentMessage(r) # Nothing
<1> DEFINE S == HashSymbols(r)
           p == Pieces(AsRead(r))
<1>1. DOMAIN r = FieldNames
  BY DEF IsReceipt
<1>2. Typed(S, r) /\ AllBytes \subseteq S
  BY ReceiptTyped DEF HashSymbols
<1> HIDE DEF S
<1>3. Typed(S, AsRead(r))
  BY <1>1, <1>2, AsReadTyped
<1>4. p \in Seq(Seq(S)) /\ Len(p) = 18
  BY <1>2, <1>3, PiecesTyped
<1>5. SerializeIntentMessage(r) = <<Byte(0)>> \o FlattenSeq(p)
  <2>1. SerializeIntentMessage(r) = SerializeReceipt(AsRead(r))
    BY <1>1, <1>2, EnclaveWritesBcs
  <2> QED
    BY <2>1, MessageOf
<1> HIDE DEF p
<1>6. PICK t \in Seq(S) : t = FlattenSeq(p)
  <2>1. Len(p) # 0
    BY <1>4
  <2> QED
    BY <1>4, <2>1, FlattenTyped
<1>7. Byte(0) \in S
  BY <1>2 DEF AllBytes
<1> DEFINE h == <<Byte(0)>>
<1>8. h \in Seq(S) /\ Len(h) = 1
  BY <1>7
<1> HIDE DEF h
<1>9. IsConcat(S, h \o t, h, t)
  BY <1>6, <1>8, SeqPlaces
<1>10. Len(h \o t) # 0
  BY <1>6, <1>8, <1>9 DEF IsConcat
<1>11. Len(Nothing) = 0
  BY DEF Nothing
<1> QED
  BY <1>5, <1>6, <1>10, <1>11 DEF h

LEMMA ReceiptIsTyped ==
  ASSUME NEW r, IsReceipt(r)
  PROVE  /\ DOMAIN r = {EnclaveFields[i] : i \in DOMAIN EnclaveFields}
         /\ \A f \in Numbers : r[f] \in U64
         /\ \A f \in Hashes : Len(r[f]) = 2
         /\ r.outcome \in 0 .. 3
<1>1. {EnclaveFields[i] : i \in DOMAIN EnclaveFields} = FieldNames
  <2>1. EnclaveFields = SdkFields /\ DOMAIN SdkFields = Places
    BY FieldTables
  <2> QED
    BY <2>1 DEF FieldNames
<1>2. \A f \in Hashes : Len(r[f]) = 2
  BY HashSeq
<1> QED
  BY <1>1, <1>2 DEF IsReceipt

(* A signing makes each part of the invariant true of the new receipt.     *)
LEMMA SigningKeeps ==
  ASSUME ExchangeInv, Signing
  PROVE  ExchangeInv'
<1>0. /\ request \in Requests /\ phase \in {"received", "sent"}
      /\ receipt = Nothing /\ record = Nothing /\ UNCHANGED dispatched
  BY DEF Signing, ExchangeInv, TypeOK
<1>1. PICK ctx, parts : /\ Contextual(ctx) /\ CanSign(ctx, parts)
                        /\ Explained(ctx, parts, named') /\ Sign(ctx, parts)
  BY DEF Signing
<1>2. /\ IsReceipt(receipt') /\ receipt' # Nothing
      /\ signature' = SerializeIntentMessage(receipt')
      /\ phase' = "signed" /\ UNCHANGED <<request, record>>
  BY <1>0, <1>1, SignMakesReceipt
<1>3. /\ receipt'.model_id = parts.model
      /\ receipt'.upstream_headers_hash = HashBytes(ctx.headers)
      /\ receipt'.request_blob = HashBytes(RequestBlob)
      /\ receipt'.upstream_request_blob = HashBytes(ctx.upstream_request_blob)
      /\ receipt'.response_blob = HashBytes(BlobId(parts.response))
      /\ receipt'.provider_meta_hash = HashBytes(Sha256(parts.meta))
      /\ receipt'.outcome = OutcomeCode[parts.outcome]
      /\ \A f \in Counters : receipt'[f] = parts.usage[f]
  BY <1>1, SignFields
<1>4. TypeOK'
  <2>1. signature' # Nothing
    BY <1>2, MessageIsSome
  <2>2. /\ DOMAIN receipt' = {EnclaveFields[i] : i \in DOMAIN EnclaveFields}
        /\ \A f \in Numbers : receipt'[f] \in U64
        /\ \A f \in Hashes : Len(receipt'[f]) = 2
        /\ receipt'.outcome \in 0 .. 3
    BY <1>2, ReceiptIsTyped
  <2> QED
    BY <1>0, <1>2, <2>1, <2>2 DEF TypeOK
<1>5. IsDispatched'
  BY <1>0, <1>2 DEF IsDispatched, ExchangeInv, surface
<1>6. RequestBlob' = RequestBlob
  BY <1>2 DEF RequestBlob, CanonicalRequest, surface
<1>7. IsSigned'
  BY <1>2, <1>3, <1>6 DEF IsSigned
<1>8. Heard' <=> ctx.headers # Sha256(<<>>)
  BY <1>3 DEF Heard, HashBytes
<1>9. IsUpstream'
  <2>1. CASE ctx = NoUpstreamCall
    <3>1. ctx.headers = Sha256(<<>>) /\ ctx.upstream_request_blob = RequestBlob
      BY <2>1 DEF NoUpstreamCall
    <3>2. ~Heard' /\ receipt'.upstream_request_blob = receipt'.request_blob
      BY <1>3, <1>8, <3>1
    <3> QED
      BY <3>2 DEF IsUpstream
  <2>2. CASE phase = "sent" /\ \E a \in Answers : ctx = WithUpstreamMeta(a)
    <3>1. ctx.headers = Sha256(UpstreamHeaders(surface))
          /\ ctx.upstream_request_blob = UpstreamRequestBlob(surface, request.body)
      BY <2>2 DEF WithUpstreamMeta
    <3>2. Heard'
      BY <1>8, <3>1, HeadersAreSome
    <3>3. dispatched # Nothing
      <4>1. dispatched = Dispatched(surface, request.body)
        BY <2>2 DEF ExchangeInv, IsDispatched
      <4>2. "stream" \in DOMAIN Dispatched(surface, request.body)
        <5>1. "stream" \in DOMAIN request.body
          BY <1>0, ExchangeAssumption
        <5> QED
          BY <5>1 DEF Dispatched
      <4> QED
        BY <4>1, <4>2, NothingIsEmpty
    <3>4. receipt'.upstream_request_blob
            = HashBytes(UpstreamRequestBlob(surface, request.body))'
      <4>1. receipt'.upstream_request_blob
              = HashBytes(UpstreamRequestBlob(surface, request.body))
        BY <1>3, <3>1
      <4>2. surface' = surface /\ request' = request
        BY <1>2 DEF surface
      <4> QED
        BY <4>1, <4>2
    <3> QED
      BY <1>0, <3>2, <3>3, <3>4 DEF IsUpstream
  <2> QED
    BY <1>1, <2>1, <2>2 DEF Contextual
<1>10. IsRecord' /\ (receipt' = Nothing => record' = Nothing)
  BY <1>0, <1>2 DEF IsRecord
<1>11. Response' = parts.response /\ Meta' = parts.meta
  <2>1. Response' = parts.response
    <3>1. HashBytes(BlobId(parts.response))[1].first.blob = parts.response
      BY DEF HashBytes, BlobId
    <3> QED
      BY <1>3, <3>1 DEF Response
  <2>2. Meta' = parts.meta
    <3>1. HashBytes(Sha256(parts.meta))[1].first.sha256 = parts.meta
      BY DEF HashBytes, Sha256
    <3> QED
      BY <1>3, <3>1 DEF Meta
  <2> QED
    BY <2>1, <2>2
<1>12. surface' = surface /\ WantsStream(request.body)' = WantsStream(request.body)
  BY <1>2 DEF surface, WantsStream
<1>13. receipt'.model_id = OrElse(named', ModelHint')
  <2>1. ModelHint' = ModelHint
    BY <1>2 DEF ModelHint, CanonicalRequest, surface
  <2> QED
    BY <1>1, <1>3, <2>1 DEF Explained
<1>14. ResponseExplainsReceipt'
  <2>1. CASE "error" \in DOMAIN parts.response
    <3>1. /\ named' = Nil
          /\ parts.outcome \in {"upstream_error", "policy_denied"}
          /\ parts.usage = NoTokens /\ parts.meta = DefaultMeta
      BY <1>1, <2>1 DEF Explained
    <3>2. receipt'.outcome \in {2, 3}
      BY <1>3, <3>1 DEF OutcomeCode
    <3>3. \A f \in Counters : receipt'[f] = 0
      BY <1>3, <3>1 DEF NoTokens
    <3>4. Meta' = DefaultMeta
      BY <1>11, <3>1
    <3> QED
      BY <1>11, <1>13, <2>1, <3>1, <3>2, <3>3, <3>4
         DEF ResponseExplainsReceipt, DefaultMeta
  <2>2. CASE "error" \notin DOMAIN parts.response
    <3>1. /\ named' = Nil => WantsStream(request.body)
          /\ parts.model = parts.response.model
          /\ parts.usage = parts.response.usage
          /\ parts.meta.stop = parts.response.stop
          /\ \/ parts.outcome = OutcomeFor(surface, parts.response.stop)
             \/ parts.outcome = "upstream_error" /\ WantsStream(request.body)
          /\ ctx.headers # Sha256(<<>>)
      BY <1>1, <2>2 DEF Explained
    <3>2. /\ receipt'.model_id = Response'.model
          /\ \A f \in Counters : receipt'[f] = Response'.usage[f]
          /\ Meta'.stop = Response'.stop /\ Heard'
      BY <1>3, <1>8, <1>11, <3>1
    <3>3. \/ receipt'.outcome = OutcomeCode[OutcomeFor(surface, Response'.stop)]
          \/ receipt'.outcome = 2 /\ WantsStream(request.body)
      BY <1>3, <1>11, <3>1 DEF OutcomeCode
    <3>4. ResponseExplainsReceipt' <=>
            (receipt' # Nothing =>
               /\ receipt'.model_id = OrElse(named', ModelHint')
               /\ IF "error" \in DOMAIN Response'
                  THEN /\ named' = Nil
                       /\ receipt'.outcome \in {2, 3}
                       /\ \A f \in Counters : receipt'[f] = 0
                       /\ Meta' = DefaultMeta
                  ELSE /\ named' = Nil => WantsStream(request.body)'
                       /\ receipt'.model_id = Response'.model
                       /\ \A f \in Counters : receipt'[f] = Response'.usage[f]
                       /\ Meta'.stop = Response'.stop
                       /\ \/ receipt'.outcome =
                               OutcomeCode[OutcomeFor(surface', Response'.stop)]
                          \/ receipt'.outcome = 2 /\ WantsStream(request.body)'
                       /\ Heard')
      BY DEF ResponseExplainsReceipt, DefaultMeta
    <3> QED
      BY <1>11, <1>12, <1>13, <2>2, <3>1, <3>2, <3>3, <3>4
  <2> QED
    BY <2>1, <2>2
<1> QED
  BY <1>4, <1>5, <1>7, <1>9, <1>10, <1>14 DEF ExchangeInv

LEMMA ServedIsRecord ==
  ASSUME NEW x
  PROVE  [Served EXCEPT !.fields = x] = RecordOf(x, signature)
  BY DEF Served, StoredReceipt, RecordOf

LEMMA StartHolds ==
  ASSUME Init
  PROVE  ExchangeInv
  BY DEF Init, ExchangeInv, TypeOK, IsDispatched, IsSigned, IsUpstream, IsRecord,
         ResponseExplainsReceipt

LEMMA SendKeeps ==
  ASSUME ExchangeInv, Send
  PROVE  ExchangeInv'
<1>1. request \in Requests /\ receipt = Nothing /\ record = Nothing
  BY DEF Send, ExchangeInv, TypeOK
<1>2. /\ phase' = "sent" /\ UNCHANGED <<request, named, receipt, signature, record>>
      /\ dispatched' = Dispatched(surface, request.body)
  BY DEF Send
<1>3. TypeOK'
  BY <1>1, <1>2 DEF TypeOK
<1>4. IsDispatched'
  BY <1>2 DEF IsDispatched, surface, ExchangeInv, Send
<1>5. IsSigned' /\ IsUpstream' /\ IsRecord' /\ ResponseExplainsReceipt'
  BY <1>1, <1>2 DEF IsSigned, IsUpstream, IsRecord, ResponseExplainsReceipt
<1> QED
  BY <1>1, <1>2, <1>3, <1>4, <1>5 DEF ExchangeInv

LEMMA UnconfiguredKeeps ==
  ASSUME ExchangeInv, Unconfigured
  PROVE  ExchangeInv'
<1>1. /\ request \in Requests /\ receipt = Nothing /\ record = Nothing
      /\ dispatched = Nothing
  BY DEF Unconfigured, ExchangeInv, TypeOK, IsDispatched
<1>2. /\ phase' = "unreceipted"
      /\ UNCHANGED <<request, dispatched, receipt, signature, record>>
  BY DEF Unconfigured
<1>3. TypeOK'
  BY <1>1, <1>2 DEF TypeOK
<1>4. IsDispatched'
  BY <1>1, <1>2 DEF IsDispatched
<1>5. IsSigned' /\ IsUpstream' /\ IsRecord' /\ ResponseExplainsReceipt'
  BY <1>1, <1>2 DEF IsSigned, IsUpstream, IsRecord, ResponseExplainsReceipt
<1> QED
  BY <1>1, <1>2, <1>3, <1>4, <1>5 DEF ExchangeInv

(* What is said of a call's receipt is not said of its record.             *)
LEMMA CallUnchanged ==
  ASSUME ExchangeInv, UNCHANGED <<request, phase, dispatched, named, receipt, signature>>
  PROVE  /\ TypeOK' /\ IsDispatched' /\ IsSigned' /\ IsUpstream'
         /\ ResponseExplainsReceipt'
<1>1. TypeOK'
  BY DEF ExchangeInv, TypeOK
<1>2. surface' = surface
  BY DEF surface
<1>3. IsDispatched'
  BY <1>2 DEF ExchangeInv, IsDispatched
<1>4. RequestBlob' = RequestBlob
  BY <1>2 DEF RequestBlob, CanonicalRequest
<1>5. IsSigned'
  BY <1>4 DEF ExchangeInv, IsSigned
<1>6. Heard' <=> Heard
  BY DEF Heard
<1>7. IsUpstream'
  BY <1>2, <1>6 DEF ExchangeInv, IsUpstream
<1>8. /\ Response' = Response /\ Meta' = Meta
      /\ OrElse(named, ModelHint)' = OrElse(named, ModelHint)
  BY <1>2 DEF Response, Meta, ModelHint, CanonicalRequest
<1>9. ResponseExplainsReceipt'
  BY <1>2, <1>6, <1>8 DEF ExchangeInv, ResponseExplainsReceipt
<1> QED
  BY <1>1, <1>3, <1>5, <1>7, <1>9

LEMMA FetchKeeps ==
  ASSUME ExchangeInv,
         UNCHANGED <<request, phase, dispatched, named, receipt, signature>>,
         phase = "signed", NEW x \in Changed(receipt) \cup {receipt},
         record' = RecordOf(x, signature)
  PROVE  ExchangeInv'
<1>1. receipt # Nothing
  BY DEF ExchangeInv, TypeOK
<1>2. /\ TypeOK' /\ IsDispatched' /\ IsSigned' /\ IsUpstream'
      /\ ResponseExplainsReceipt'
  BY CallUnchanged
<1>3. Changed(receipt)' = Changed(receipt)
  BY DEF Changed, Recounted, Reworded, Copied, Shifted, Moved
<1>4. IsRecord'
  BY <1>1, <1>3 DEF IsRecord
<1> QED
  BY <1>1, <1>2, <1>4 DEF ExchangeInv

LEMMA StutterKeeps ==
  ASSUME ExchangeInv, UNCHANGED vars
  PROVE  ExchangeInv'
<1>1. UNCHANGED <<request, phase, dispatched, named, receipt, signature>> /\ record' = record
  BY DEF vars
<1>2. /\ TypeOK' /\ IsDispatched' /\ IsSigned' /\ IsUpstream'
      /\ ResponseExplainsReceipt'
  BY <1>1, CallUnchanged
<1>3. IsRecord'
  BY <1>1 DEF ExchangeInv, IsRecord, Changed, Recounted, Reworded, Copied, Shifted, Moved
<1> QED
  BY <1>1, <1>2, <1>3 DEF ExchangeInv

LEMMA StepsKeep ==
  ASSUME ExchangeInv, Next
  PROVE  ExchangeInv'
<1>1. request \in Requests
  BY DEF ExchangeInv, TypeOK
<1>2. CASE Fetch
  <2>1. /\ UNCHANGED <<request, phase, dispatched, named, receipt, signature>>
        /\ phase = "signed" /\ record' = Served
    BY <1>2 DEF Fetch
  <2>2. Served = RecordOf(receipt, signature)
    BY DEF Served, StoredReceipt, RecordOf
  <2>3. receipt \in Changed(receipt) \cup {receipt}
    OBVIOUS
  <2> QED
    BY <2>1, <2>2, <2>3, FetchKeeps
<1>3. ASSUME NEW fields \in Changed(receipt), FetchChanged(fields)
      PROVE  ExchangeInv'
  <2>1. /\ UNCHANGED <<request, phase, dispatched, named, receipt, signature>>
        /\ phase = "signed" /\ record' = RecordOf(fields, signature)
    BY <1>3, ServedIsRecord DEF FetchChanged
  <2>2. fields \in Changed(receipt) \cup {receipt}
    OBVIOUS
  <2> QED
    BY <2>1, <2>2, FetchKeeps
<1> QED
  BY <1>1, <1>2, <1>3, StepsSign, SigningKeeps, SendKeeps, UnconfiguredKeeps
     DEF ExchangeInv

(* The receipt of an exchange, and its record, are what the invariant says *)
(* after every step: the handlers of server.rs, GET /receipts/{id}, and    *)
(* the host between.                                                       *)
THEOREM ExchangeInvariant == Spec => []ExchangeInv
<1>1. Init => ExchangeInv
  BY StartHolds
<1>2. ExchangeInv /\ [Next]_vars => ExchangeInv'
  BY StepsKeep, StutterKeeps
<1> QED
  BY <1>1, <1>2, PTL DEF Spec

(* A receipt's fields have the widths the encoding relies on, and a        *)
(* receipt is there with its signature or not at all.                      *)
THEOREM ExchangeTypes == Spec => []TypeOK
<1>1. ExchangeInv => TypeOK
  BY DEF ExchangeInv
<1> QED
  BY <1>1, ExchangeInvariant, PTL

(* Whoever has the content of response_blob finds the receipt's own fields *)
(* in it, whichever way out of a handler it took (finish_non_streaming_ok, *)
(* the ends of both streams, finish_error_receipt): model, counters, stop  *)
(* reason and outcome are those of the response, and an error bills none.  *)
THEOREM ResponsesExplain == Spec => []ResponseExplainsReceipt
<1>1. ExchangeInv => ResponseExplainsReceipt
  BY DEF ExchangeInv
<1> QED
  BY <1>1, ExchangeInvariant, PTL

(* A record is checked against the receipt it was made of.                 *)
LEMMA RecordChecked ==
  ASSUME ExchangeInv, record # Nothing
  PROVE  /\ IsReceipt(receipt) /\ DOMAIN receipt = FieldNames
         /\ signature = SerializeIntentMessage(receipt)
         /\ \E x : /\ Servable(HashSymbols(receipt), x)
                   /\ record = RecordOf(x, signature)
<1>1. receipt # Nothing
  BY DEF ExchangeInv, IsRecord
<1>2. IsReceipt(receipt) /\ signature = SerializeIntentMessage(receipt)
  BY <1>1 DEF ExchangeInv, IsSigned
<1>3. PICK x \in Changed(receipt) \cup {receipt} : record = RecordOf(x, signature)
  BY DEF ExchangeInv, IsRecord
<1>4. Servable(HashSymbols(receipt), x)
  BY <1>2, ChangedServable, ReceiptServable
<1>5. DOMAIN receipt = FieldNames
  BY <1>2 DEF IsReceipt
<1> QED
  BY <1>2, <1>3, <1>4, <1>5

(* verifyReceipt and verify_and_certify agree on every record a client can *)
(* be given, and one they accept says in every field what the enclave      *)
(* signed: the message determines the receipt, whatever radix, width of    *)
(* integers and names there are.                                           *)
THEOREM VerifiedReceiptsWereSigned == Spec => []VerifiedIsSigned
<1>1. ASSUME ExchangeInv PROVE VerifiedIsSigned
  <2>1. SUFFICES ASSUME record # Nothing
                 PROVE  /\ VerifyReceipt(record) <=> VerifyOnChain(record)
                        /\ VerifyReceipt(record) => Decoded(record) = AsRead(receipt)
    BY DEF VerifiedIsSigned, AsRead
  <2>2. IsReceipt(receipt) /\ signature = SerializeIntentMessage(receipt)
    BY <1>1, <2>1, RecordChecked
  <2>3. PICK x : Servable(HashSymbols(receipt), x) /\ record = RecordOf(x, signature)
    BY <1>1, <2>1, RecordChecked
  <2>4. AllBytes \subseteq HashSymbols(receipt)
    BY DEF HashSymbols
  <2>5. VerifyReceipt(record) <=> VerifyOnChain(record)
    BY <2>3, <2>4, VerifiersAgree
  <2>6. ASSUME VerifyReceipt(record) PROVE Decoded(record) = AsRead(receipt)
    <3>1. record = RecordOf(x, SerializeIntentMessage(receipt))
      BY <2>2, <2>3
    <3> QED
      BY <2>2, <2>3, <2>6, <3>1, SignedIsOne
  <2> QED
    BY <2>5, <2>6
<1> QED
  BY <1>1, ExchangeInvariant, PTL

(* A record that nobody changed verifies, in the SDK and on chain, if its  *)
(* numbers are within what a JSON parser keeps.                            *)
THEOREM HonestRecordsVerify == Spec => []HonestRecordVerifies
<1>1. ASSUME ExchangeInv PROVE HonestRecordVerifies
  <2>1. SUFFICES ASSUME record # Nothing, record = Served,
                        \A f \in Numbers : receipt[f] <= MaxSafe
                 PROVE  VerifyReceipt(record) /\ VerifyOnChain(record)
    BY DEF HonestRecordVerifies
  <2>2. IsReceipt(receipt) /\ signature = SerializeIntentMessage(receipt)
    BY <1>1, <2>1, RecordChecked
  <2>3. record = RecordOf(receipt, SerializeIntentMessage(receipt))
    BY <2>1, <2>2 DEF Served, StoredReceipt, RecordOf
  <2>4. VerifyReceipt(record)
    BY <2>1, <2>2, <2>3, HonestIsRead
  <2>5. AllBytes \subseteq HashSymbols(receipt) /\ Servable(HashSymbols(receipt), receipt)
    BY <2>2, ReceiptServable DEF HashSymbols
  <2>6. VerifyReceipt(record) <=> VerifyOnChain(record)
    BY <2>3, <2>5, VerifiersAgree
  <2> QED
    BY <2>4, <2>6
<1> QED
  BY <1>1, ExchangeInvariant, PTL

-----------------------------------------------------------------------------
(* What upstream_request_blob is a commitment to.                          *)
LEMMA DispatchedCommits ==
  ASSUME NEW q \in Requests, NEW o \in Requests, q.surface = "openai",
         o.surface = "openai",
         WantsStream(q.body),
         UpstreamRequestBlob("openai", o.body) = UpstreamRequestBlob("openai", q.body)
  PROVE  /\ Dispatched("openai", o.body) = Dispatched("openai", q.body)
         /\ ToCanonicalRequest("openai", o.body) = ToCanonicalRequest("openai", q.body)
<1> DEFINE Members == {"model", "messages", "tools", "tool_choice", "max_tokens",
                       "temperature", "stream", "stream_options"}
           d == Dispatched("openai", q.body)
           e == Dispatched("openai", o.body)
<1>1. Members \subseteq DOMAIN q.body /\ Members \subseteq DOMAIN o.body
  BY ExchangeAssumption
<1>2. UpstreamRequestBlob("openai", q.body) = BlobId(d)
  BY DEF UpstreamRequestBlob
<1>3. WantsStream(o.body)
  <2>1. SUFFICES ASSUME ~WantsStream(o.body) PROVE FALSE
    OBVIOUS
  <2>2. UpstreamRequestBlob("openai", o.body) = BlobId(ToCanonicalRequest("openai", o.body))
    BY <2>1 DEF UpstreamRequestBlob
  <2>3. d = ToCanonicalRequest("openai", o.body)
    BY <1>2, <2>2 DEF BlobId
  <2>4. "stream" \in DOMAIN d
    BY <1>1 DEF Dispatched
  <2>5. "stream" \notin DOMAIN ToCanonicalRequest("openai", o.body)
    BY DEF ToCanonicalRequest
  <2> QED
    BY <2>3, <2>4, <2>5
<1>4. d = e
  <2>1. UpstreamRequestBlob("openai", o.body) = BlobId(e)
    BY <1>3 DEF UpstreamRequestBlob
  <2>2. BlobId(e) = BlobId(d)
    BY <1>2, <2>1
  <2> HIDE DEF d, e
  <2> QED
    BY <2>2 DEF BlobId
<1>5. \A m \in Members \ {"stream", "stream_options"} :
        d[m] = q.body[m] /\ e[m] = o.body[m]
  BY <1>1 DEF Dispatched
<1>6. \A m \in Members \ {"stream", "stream_options"} : q.body[m] = o.body[m]
  BY <1>4, <1>5
<1>7. ToCanonicalRequest("openai", o.body) = ToCanonicalRequest("openai", q.body)
  <2>1. /\ q.body.model = o.body.model /\ q.body.messages = o.body.messages
        /\ q.body.tools = o.body.tools /\ q.body.tool_choice = o.body.tool_choice
        /\ q.body.max_tokens = o.body.max_tokens
        /\ q.body.temperature = o.body.temperature
    BY <1>6
  <2> QED
    BY <2>1 DEF ToCanonicalRequest
<1> QED
  BY <1>4, <1>7

(* upstream_request_blob says no less than request_blob, and of an OpenAI  *)
(* stream it says what went out, to the last member: two requests with the *)
(* same one were dispatched alike (upstream_request_blob of server.rs and  *)
(* the bodies the adapters build).                                         *)
THEOREM UpstreamBlobsBind == Spec => []UpstreamBlobBinds
<1>1. ASSUME ExchangeInv PROVE UpstreamBlobBinds
  <2>1. SUFFICES ASSUME receipt # Nothing, Heard, NEW other \in Requests,
                        other.surface = surface,
                        receipt.upstream_request_blob =
                          HashBytes(UpstreamRequestBlob(surface, other.body))
                 PROVE  /\ BlobId(ToCanonicalRequest(surface, other.body)) = RequestBlob
                        /\ surface = "openai" /\ WantsStream(request.body) =>
                             Dispatched(surface, other.body) = dispatched
    BY <1>1 DEF UpstreamBlobBinds, ExchangeInv, IsUpstream
  <2>2. request \in Requests /\ surface \in Surfaces /\ request.surface = surface
    BY <1>1, ExchangeAssumption DEF ExchangeInv, TypeOK, surface
  <2>3. dispatched = Dispatched(surface, request.body)
    BY <1>1, <2>1 DEF ExchangeInv, IsUpstream, IsDispatched
  <2>4. UpstreamRequestBlob(surface, other.body) = UpstreamRequestBlob(surface, request.body)
    <3>1. HashBytes(UpstreamRequestBlob(surface, other.body))
            = HashBytes(UpstreamRequestBlob(surface, request.body))
      BY <1>1, <2>1 DEF ExchangeInv, IsUpstream
    <3>2. \A x, y : HashBytes(x) = HashBytes(y) => x = y
      <4> TAKE x, y
      <4>1. HashBytes(x)[1].first = x /\ HashBytes(y)[1].first = y
        BY HashBytesFacts
      <4> QED
        BY <4>1
    <3> QED
      BY <3>1, <3>2
  <2>5. RequestBlob = BlobId(ToCanonicalRequest(surface, request.body))
    BY DEF RequestBlob, CanonicalRequest
  <2>6. CASE surface = "openai" /\ (WantsStream(request.body) \/ WantsStream(other.body))
    <3>1. CASE WantsStream(request.body)
      <4>1. /\ Dispatched("openai", other.body) = Dispatched("openai", request.body)
            /\ ToCanonicalRequest("openai", other.body)
                 = ToCanonicalRequest("openai", request.body)
        BY <2>1, <2>2, <2>4, <2>6, <3>1, DispatchedCommits
      <4> QED
        BY <2>3, <2>5, <2>6, <4>1
    <3>2. CASE WantsStream(other.body)
      <4>1. /\ Dispatched("openai", request.body) = Dispatched("openai", other.body)
            /\ ToCanonicalRequest("openai", request.body)
                 = ToCanonicalRequest("openai", other.body)
        BY <2>1, <2>2, <2>4, <2>6, <3>2, DispatchedCommits
      <4> QED
        BY <2>3, <2>5, <2>6, <4>1
    <3> QED
      BY <2>6, <3>1, <3>2
  <2>7. CASE ~(surface = "openai" /\ (WantsStream(request.body) \/ WantsStream(other.body)))
    <3>1. /\ UpstreamRequestBlob(surface, other.body)
               = BlobId(ToCanonicalRequest(surface, other.body))
          /\ UpstreamRequestBlob(surface, request.body)
               = BlobId(ToCanonicalRequest(surface, request.body))
      BY <2>7 DEF UpstreamRequestBlob
    <3> QED
      BY <2>4, <2>5, <2>7, <3>1
  <2> QED
    BY <2>6, <2>7
<1> QED
  BY <1>1, ExchangeInvariant, PTL

=============================================================================
