---------------------------- MODULE Flow_proofs -----------------------------
(***************************************************************************)
(* What the other proofs know of windows and queues.                       *)
(*                                                                         *)
(* Of windows, for every StartValue and AddValue: the later proofs use     *)
(* Phase and Units only through these lemmas, which keeps division by a    *)
(* constant out of them.                                                   *)
(*                                                                         *)
(* Of queues: how the count of the cells of one kind changes when a cell   *)
(* joins at the end or leaves at the front.                                *)
(***************************************************************************)
EXTENDS Window, Queue, FiniteSetTheorems, SequenceTheorems, TLAPS

\* Division with remainder, as the provers know it.
LEMMA DivMod ==
  ASSUME NEW a \in Nat \ {0}, NEW x \in Int
  PROVE  /\ x % a \in 0 .. (a - 1)
         /\ x \div a \in Int
         /\ x = (a * (x \div a)) + (x % a)
  OBVIOUS

\* Quotient and remainder are unique.
LEMMA DivModUnique ==
  ASSUME NEW a \in Nat \ {0}, NEW q \in Int, NEW p \in Int,
         NEW r \in 0 .. (a - 1), NEW s \in 0 .. (a - 1), (a * q) + r = (a * p) + s
  PROVE  q = p /\ r = s
<1>1. a * (q - p) = s - r
  OBVIOUS
<1>2. CASE q - p >= 1
  <2>1. a * (q - p) >= a
    BY <1>2
  <2> QED BY <2>1, <1>1
<1>3. CASE q - p <= -1
  <2>1. a * (q - p) <= -a
    BY <1>3
  <2> QED BY <2>1, <1>1
<1>4. CASE q = p
  BY <1>4, <1>1
<1> QED BY <1>2, <1>3, <1>4

\* ... so a number written as quotient and remainder has that remainder.
LEMMA DivModIs ==
  ASSUME NEW a \in Nat \ {0}, NEW x \in Int, NEW q \in Int, NEW r \in 0 .. (a - 1),
         x = (a * q) + r
  PROVE  x % a = r /\ x \div a = q
<1>1. /\ x % a \in 0 .. (a - 1)
      /\ x \div a \in Int
      /\ x = (a * (x \div a)) + (x % a)
  BY DivMod
<1> QED BY <1>1, DivModUnique

LEMMA PhaseType ==
  ASSUME NEW v \in Int
  PROVE  Phase(v) \in 0 .. (AddValue - 1)
BY WindowAssumption, DivMod DEF Phase

\* An increase moves a counter to the same place between two trigger points.
LEMMA PhaseIncrease ==
  ASSUME NEW v \in Int
  PROVE  Phase(v + AddValue) = Phase(v)
<1> DEFINE q == v \div AddValue
           r == v % AddValue
<1>1. q \in Int /\ r \in 0 .. (AddValue - 1) /\ v = (AddValue * q) + r
  BY WindowAssumption, DivMod
<1>2. v + AddValue = (AddValue * (q + 1)) + r
  BY <1>1, WindowAssumption
<1>3. AddValue \in Nat \ {0} /\ q + 1 \in Int /\ v + AddValue \in Int
  BY <1>1, WindowAssumption
<1> HIDE DEF q, r
<1>4. (v + AddValue) % AddValue = r
  BY <1>1, <1>2, <1>3, DivModIs
<1> QED BY <1>4 DEF Phase, r

\* One cell less moves it one place down, wrapping at a trigger point.
LEMMA PhaseDecrease ==
  ASSUME NEW v \in Int
  PROVE  Phase(v - 1) = IF Phase(v) = 0 THEN AddValue - 1 ELSE Phase(v) - 1
<1> DEFINE q == v \div AddValue
           r == v % AddValue
<1>1. q \in Int /\ r \in 0 .. (AddValue - 1) /\ v = (AddValue * q) + r
  BY WindowAssumption, DivMod
<1>2. AddValue \in Nat \ {0} /\ q - 1 \in Int /\ v - 1 \in Int
  BY <1>1, WindowAssumption
<1> HIDE DEF q, r
<1>3. CASE r = 0
  <2>1. v - 1 = (AddValue * (q - 1)) + (AddValue - 1)
    BY <1>1, <1>2, <1>3
  <2>2. AddValue - 1 \in 0 .. (AddValue - 1)
    BY <1>2
  <2>3. (v - 1) % AddValue = AddValue - 1
    BY <1>2, <2>1, <2>2, DivModIs
  <2> QED BY <2>3, <1>3 DEF Phase, r
<1>4. CASE r # 0
  <2>1. v - 1 = (AddValue * q) + (r - 1) /\ r - 1 \in 0 .. (AddValue - 1)
    BY <1>1, <1>2, <1>4
  <2>2. (v - 1) % AddValue = r - 1
    BY <1>1, <1>2, <2>1, DivModIs
  <2> QED BY <2>2, <1>4 DEF Phase, r
<1> QED BY <1>3, <1>4

LEMMA UnitsType ==
  ASSUME NEW v \in Int
  PROVE  Units(v) \in Int /\ (v >= 0 => Units(v) >= 0)
<1> DEFINE x == v + AddValue - 1
           q == x \div AddValue
<1>1. AddValue \in Nat \ {0} /\ x \in Int
  BY WindowAssumption
<1>2. q \in Int /\ x % AddValue \in 0 .. (AddValue - 1) /\ x = (AddValue * q) + (x % AddValue)
  BY <1>1, DivMod
<1>3. ASSUME v >= 0, q <= -1 PROVE FALSE
  <2>1. AddValue * q <= -AddValue
    BY <1>1, <1>2, <1>3
  <2> QED BY <2>1, <1>1, <1>2, <1>3
<1> QED BY <1>2, <1>3 DEF Units

LEMMA UnitsIncrease ==
  ASSUME NEW v \in Int
  PROVE  Units(v + AddValue) = Units(v) + 1
<1> DEFINE x == v + AddValue - 1
           q == x \div AddValue
           r == x % AddValue
<1>1. AddValue \in Nat \ {0} /\ x \in Int
  BY WindowAssumption
<1>2. q \in Int /\ r \in 0 .. (AddValue - 1) /\ x = (AddValue * q) + r
  BY <1>1, DivMod
<1>3. v + AddValue + AddValue - 1 = (AddValue * (q + 1)) + r
  BY <1>1, <1>2
<1>4. v + AddValue + AddValue - 1 \in Int /\ q + 1 \in Int
  BY <1>1, <1>2
<1> HIDE DEF q, r
<1>5. (v + AddValue + AddValue - 1) \div AddValue = q + 1
  BY <1>1, <1>2, <1>3, <1>4, DivModIs
<1> QED BY <1>5 DEF Units, q

\* A cell uses up a trigger point exactly when it reaches one.
LEMMA UnitsDecrease ==
  ASSUME NEW v \in Int
  PROVE  Units(v - 1) = IF Phase(v - 1) = 0 THEN Units(v) - 1 ELSE Units(v)
<1> DEFINE x == v - 1
           q == x \div AddValue
           r == x % AddValue
<1>1. AddValue \in Nat \ {0} /\ x \in Int
  BY WindowAssumption
<1>2. q \in Int /\ r \in 0 .. (AddValue - 1) /\ x = (AddValue * q) + r
  BY <1>1, DivMod
<1>3. v + AddValue - 1 = (AddValue * (q + 1)) + r /\ v + AddValue - 1 \in Int /\ q + 1 \in Int
  BY <1>1, <1>2
<1>4. (v + AddValue - 1) \div AddValue = q + 1
  <2> HIDE DEF q, r
  <2> QED BY <1>1, <1>2, <1>3, DivModIs
<1>5. CASE r = 0
  <2>1. /\ v - 1 + AddValue - 1 = (AddValue * q) + (AddValue - 1)
        /\ v - 1 + AddValue - 1 \in Int
        /\ AddValue - 1 \in 0 .. (AddValue - 1)
    BY <1>1, <1>2, <1>5
  <2>2. (v - 1 + AddValue - 1) \div AddValue = q
    <3> HIDE DEF q, r
    <3> QED BY <1>1, <1>2, <2>1, DivModIs
  <2> QED BY <1>2, <1>4, <1>5, <2>2 DEF Units, Phase
<1>6. CASE r # 0
  <2>1. /\ v - 1 + AddValue - 1 = (AddValue * (q + 1)) + (r - 1)
        /\ v - 1 + AddValue - 1 \in Int
        /\ r - 1 \in 0 .. (AddValue - 1)
    BY <1>1, <1>2, <1>6
  <2>2. (v - 1 + AddValue - 1) \div AddValue = q + 1
    <3> HIDE DEF q, r
    <3> QED BY <1>1, <1>2, <1>3, <2>1, DivModIs
  <2> QED BY <1>4, <1>6, <2>2 DEF Units, Phase
<1> QED BY <1>5, <1>6

\* make(chan [20]byte, startValue/addValue) has one slot per trigger point of
\* a full window.
LEMMA UnitsStart == Units(StartValue) = Capacity /\ Capacity \in Int /\ Phase(StartValue) = 0
<1> DEFINE q == StartValue \div AddValue
<1>1. AddValue \in Nat \ {0} /\ StartValue \in Int /\ StartValue % AddValue = 0
  BY WindowAssumption
<1>2. q \in Int /\ StartValue = AddValue * q
  BY <1>1, DivMod
<1>3. /\ StartValue + AddValue - 1 = (AddValue * q) + (AddValue - 1)
      /\ StartValue + AddValue - 1 \in Int
      /\ AddValue - 1 \in 0 .. (AddValue - 1)
  <2> HIDE DEF q
  <2> QED BY <1>1, <1>2
<1>4. (StartValue + AddValue - 1) \div AddValue = q
  <2> HIDE DEF q
  <2> QED BY <1>1, <1>2, <1>3, DivModIs
<1> QED BY <1>1, <1>2, <1>4 DEF Units, Capacity, Phase

\* The cells since the last trigger point: one more with every cell, none at
\* the next trigger point, and as many as before after an increase.
LEMMA SinceFacts ==
  ASSUME NEW v \in Int
  PROVE  /\ Since(v) \in 0 .. (AddValue - 1)
         /\ Since(v + AddValue) = Since(v)
BY PhaseType, PhaseIncrease, WindowAssumption DEF Since

LEMMA SinceDecrease ==
  ASSUME NEW v \in Int
  PROVE  /\ Phase(v - 1) = 0 => Since(v - 1) = 0 /\ Since(v) = AddValue - 1
         /\ Phase(v - 1) # 0 => Since(v - 1) = Since(v) + 1
BY PhaseDecrease, PhaseType, WindowAssumption DEF Since

\* A queue of trigger points that leaves one cell of the window unused has room.
LEMMA RoomForOne ==
  ASSUME NEW n \in Nat, AddValue * n <= StartValue - AddValue
  PROVE  n < Capacity
<1>1. AddValue \in Nat \ {0} /\ StartValue \in Int /\ StartValue % AddValue = 0
  BY WindowAssumption
<1>2. Capacity \in Int /\ StartValue = AddValue * Capacity
  <2>1. /\ StartValue \div AddValue \in Int
        /\ StartValue = (AddValue * (StartValue \div AddValue)) + (StartValue % AddValue)
    BY <1>1, DivMod
  <2> HIDE DEF Capacity
  <2>2. Capacity = StartValue \div AddValue
    BY DEF Capacity
  <2> QED BY <1>1, <2>1, <2>2
<1> SUFFICES ASSUME n >= Capacity PROVE FALSE
  BY <1>2
<1>3. AddValue * (n - Capacity) >= 0
  BY <1>1, <1>2
<1>4. AddValue * n = AddValue * (n - Capacity) + AddValue * Capacity
  BY <1>1, <1>2
<1> QED BY <1>1, <1>2, <1>3, <1>4

-----------------------------------------------------------------------------
\* Window.Subtract(1): the digest stored last is queued at a trigger point,
\* when there is room.
LEMMA SubtractOne ==
  ASSUME NEW w \in WindowType
  PROVE  /\ Subtract(w, 1) \in WindowType
         /\ Subtract(w, 1).v = w.v - 1
         /\ Subtract(w, 1).trigged =
              IF Phase(w.v - 1) = 0 /\ Len(w.trigged) < Capacity
                THEN Append(w.trigged, w.digest) ELSE w.trigged
<1> DEFINE u == [w EXCEPT !.v = @ - 1]
<1>1. u \in WindowType /\ u.v = w.v - 1 /\ u.digest = w.digest /\ u.trigged = w.trigged
  BY DEF WindowType
<1>2. /\ w.trigged \in Seq(Nat) /\ w.digest \in Nat
      /\ Append(w.trigged, w.digest) \in Seq(Nat)
  BY DEF WindowType
<1>3. Subtract(w, 1) = IF Phase(w.v - 1) = 0 THEN Trigger(u) ELSE u
  BY <1>1 DEF Subtract, Phase
<1>4. /\ Trigger(u) \in WindowType
      /\ Trigger(u).v = w.v - 1
      /\ Trigger(u).trigged = IF Len(w.trigged) < Capacity
                                THEN Append(w.trigged, w.digest) ELSE w.trigged
  <2> HIDE DEF u
  <2>1. CASE Len(w.trigged) < Capacity
    <3>1. Trigger(u) = [u EXCEPT !.trigged = Append(w.trigged, w.digest)]
      BY <1>1, <2>1 DEF Trigger
    <3> QED BY <1>1, <1>2, <2>1, <3>1 DEF WindowType
  <2>2. CASE ~(Len(w.trigged) < Capacity)
    BY <1>1, <2>2 DEF Trigger
  <2> QED BY <2>1, <2>2
<1> HIDE DEF u
<1> QED BY <1>1, <1>3, <1>4

LEMMA SetDigestFacts ==
  ASSUME NEW w \in WindowType, NEW d \in Nat
  PROVE  /\ SetDigest(w, d) \in WindowType
         /\ SetDigest(w, d).v = w.v
         /\ SetDigest(w, d).digest = d
         /\ SetDigest(w, d).trigged = w.trigged
BY DEF WindowType, SetDigest

LEMMA IncreaseFacts ==
  ASSUME NEW w \in WindowType
  PROVE  /\ Increase(w) \in WindowType
         /\ Increase(w).v = w.v + AddValue
         /\ Increase(w).trigged = w.trigged
BY WindowAssumption DEF WindowType, Increase

LEMMA AfterGetFacts ==
  ASSUME NEW w \in WindowType, HasDigest(w)
  PROVE  /\ AfterGet(w) \in WindowType
         /\ AfterGet(w).v = w.v
         /\ AfterGet(w).trigged = Tail(w.trigged)
<1>1. w.trigged \in Seq(Nat) /\ w.trigged # <<>>
  BY DEF WindowType, HasDigest
<1>2. Tail(w.trigged) \in Seq(Nat)
  BY <1>1
<1> QED BY <1>2 DEF WindowType, AfterGet

LEMMA NewWindowType == NewWindow \in WindowType
BY WindowAssumption DEF WindowType, NewWindow, NoDigest

-----------------------------------------------------------------------------
(* Counting cells                                                          *)

LEMMA CountToType ==
  ASSUME NEW q, NEW T, NEW n \in Nat
  PROVE  /\ IsFiniteSet({i \in 1 .. n : q[i] \in T})
         /\ CountTo(q, T, n) \in Nat /\ CountTo(q, T, n) <= n
         /\ CountTo(q, T, 0) = 0
<1> DEFINE S == {i \in 1 .. n : q[i] \in T}
<1>1. IsFiniteSet(1 .. n) /\ Cardinality(1 .. n) = n
  BY FS_Interval
<1>2. S \in SUBSET (1 .. n)
  OBVIOUS
<1>3. IsFiniteSet(S) /\ Cardinality(S) <= n
  BY <1>1, <1>2, FS_Subset
<1>4. Cardinality(S) \in Nat
  BY <1>3, FS_CardinalityType
<1>5. {i \in 1 .. 0 : q[i] \in T} = {}
  OBVIOUS
<1> QED BY <1>3, <1>4, <1>5, FS_EmptySet DEF CountTo

\* The next cell counts or it does not.
LEMMA CountToNext ==
  ASSUME NEW q, NEW T, NEW n \in Nat
  PROVE  CountTo(q, T, n + 1) = CountTo(q, T, n) + (IF q[n + 1] \in T THEN 1 ELSE 0)
<1> DEFINE S == {i \in 1 .. n : q[i] \in T}
           R == {i \in 1 .. n + 1 : q[i] \in T}
<1>1. IsFiniteSet(S) /\ Cardinality(S) \in Nat
  <2>1. IsFiniteSet(S) /\ CountTo(q, T, n) \in Nat
    BY CountToType
  <2> QED BY <2>1 DEF CountTo
<1>2. CASE q[n + 1] \in T
  <2>1. R = S \cup {n + 1} /\ n + 1 \notin S
    BY <1>2
  <2>2. Cardinality(S \cup {n + 1}) = Cardinality(S) + 1
    BY <1>1, <2>1, FS_AddElement
  <2> QED BY <1>2, <2>1, <2>2 DEF CountTo
<1>3. CASE q[n + 1] \notin T
  <2>1. R = S
    BY <1>3
  <2> QED BY <1>1, <1>3, <2>1 DEF CountTo
<1> QED BY <1>2, <1>3

\* The count is one of positions: it is the same in another queue that has
\* cells of the kind in the same places ...
LEMMA CountToSame ==
  ASSUME NEW q, NEW r, NEW T, NEW U, NEW n \in Nat,
         \A i \in 1 .. n : q[i] \in T <=> r[i] \in U
  PROVE  CountTo(q, T, n) = CountTo(r, U, n)
<1>1. {i \in 1 .. n : q[i] \in T} = {i \in 1 .. n : r[i] \in U}
  OBVIOUS
<1> QED BY <1>1 DEF CountTo

\* ... and a queue that lost its first cell counts what is left.
LEMMA CountToShift ==
  ASSUME NEW q, NEW r, NEW T, NEW n \in Nat, NEW e, e = q[1], \A i \in 1 .. n : r[i] = q[i + 1]
  PROVE  CountTo(q, T, n + 1) = CountTo(r, T, n) + (IF e \in T THEN 1 ELSE 0)
<1> DEFINE S == {i \in 1 .. n : r[i] \in T}
           R == {i \in 2 .. n + 1 : q[i] \in T}
           Q == {i \in 1 .. n + 1 : q[i] \in T}
<1>1. IsFiniteSet(S) /\ Cardinality(S) \in Nat
  BY CountToType DEF CountTo
<1>2. IsFiniteSet(R) /\ Cardinality(R) = Cardinality(S)
  <2> DEFINE f == [i \in S |-> i + 1]
  <2>1. f \in Bijection(S, R)
    <3>1. \A i \in S : i + 1 \in R
      OBVIOUS
    <3>2. f \in [S -> R]
      BY <3>1
    <3>3. \A i, j \in S : f[i] = f[j] => i = j
      OBVIOUS
    <3>4. \A k \in R : \E i \in S : f[i] = k
      <4> SUFFICES ASSUME NEW k \in R PROVE \E i \in S : f[i] = k
        OBVIOUS
      <4>1. k - 1 \in 1 .. n /\ r[k - 1] = q[(k - 1) + 1] /\ (k - 1) + 1 = k
        OBVIOUS
      <4>2. k - 1 \in S /\ f[k - 1] = k
        BY <4>1
      <4> QED BY <4>2
    <3> QED BY <3>2, <3>3, <3>4 DEF Bijection, Injection, Surjection, IsInjective
  <2> QED BY <1>1, <2>1, FS_Bijection DEF ExistsBijection
<1>3. CASE q[1] \in T
  <2>1. Q = R \cup {1} /\ 1 \notin R
    BY <1>3
  <2> QED BY <1>2, <1>3, <2>1, <1>1, FS_AddElement DEF CountTo
<1>4. CASE q[1] \notin T
  <2>1. Q = R
    BY <1>4
  <2> QED BY <1>2, <1>4, <2>1, <1>1 DEF CountTo
<1> QED BY <1>3, <1>4

-----------------------------------------------------------------------------
(* The same for Append and Tail                                            *)

LEMMA CountEmpty == ASSUME NEW T PROVE Count(<<>>, T) = 0
BY CountToType, EmptySeq DEF Count

LEMMA CountType ==
  ASSUME NEW S, NEW q \in Seq(S), NEW T
  PROVE  Count(q, T) \in Nat /\ Count(q, T) <= Len(q)
BY CountToType, LenProperties DEF Count

LEMMA CountAppend ==
  ASSUME NEW S, NEW q \in Seq(S), NEW e \in S, NEW T
  PROVE  /\ Count(Append(q, e), T) = Count(q, T) + (IF e \in T THEN 1 ELSE 0)
         /\ \A n \in 0 .. Len(q) : CountTo(Append(q, e), T, n) = CountTo(q, T, n)
<1> DEFINE r == Append(q, e)
<1>1. /\ Len(q) \in Nat /\ Len(r) = Len(q) + 1 /\ r[Len(q) + 1] = e
      /\ \A i \in 1 .. Len(q) : r[i] = q[i]
  BY AppendProperties, LenProperties
<1> HIDE DEF r
<1>2. ASSUME NEW n \in 0 .. Len(q) PROVE CountTo(r, T, n) = CountTo(q, T, n)
  <2>1. n \in Nat /\ \A i \in 1 .. n : r[i] \in T <=> q[i] \in T
    BY <1>1
  <2> QED BY <2>1, CountToSame
<1>3. CountTo(r, T, Len(q) + 1) = CountTo(r, T, Len(q)) + (IF e \in T THEN 1 ELSE 0)
  BY <1>1, CountToNext
<1>4. Count(r, T) = Count(q, T) + (IF e \in T THEN 1 ELSE 0)
  BY <1>1, <1>2, <1>3 DEF Count
<1> QED BY <1>2, <1>4 DEF r

LEMMA CountTail ==
  ASSUME NEW S, NEW q \in Seq(S), q # <<>>, NEW T
  PROVE  /\ Count(q, T) = Count(Tail(q), T) + (IF Head(q) \in T THEN 1 ELSE 0)
         /\ \A n \in 0 .. Len(Tail(q)) :
              CountTo(q, T, n + 1) = CountTo(Tail(q), T, n) + (IF Head(q) \in T THEN 1 ELSE 0)
<1> DEFINE r == Tail(q)
<1>1. /\ Len(q) \in Nat /\ Len(r) \in Nat /\ Len(q) = Len(r) + 1 /\ Head(q) = q[1]
      /\ \A i \in 1 .. Len(r) : r[i] = q[i + 1]
  BY HeadTailProperties, LenProperties, EmptySeq
<1> HIDE DEF r
<1>2. ASSUME NEW n \in 0 .. Len(r)
      PROVE  CountTo(q, T, n + 1) = CountTo(r, T, n) + (IF Head(q) \in T THEN 1 ELSE 0)
  <2>1. n \in Nat /\ \A i \in 1 .. n : r[i] = q[i + 1]
    BY <1>1
  <2>2. CountTo(q, T, n + 1) = CountTo(r, T, n) + (IF q[1] \in T THEN 1 ELSE 0)
    BY <2>1, CountToShift
  <2> QED BY <1>1, <2>2
<1>3. Count(q, T) = Count(r, T) + (IF Head(q) \in T THEN 1 ELSE 0)
  BY <1>1, <1>2 DEF Count
<1> QED BY <1>2, <1>3 DEF r
=============================================================================
