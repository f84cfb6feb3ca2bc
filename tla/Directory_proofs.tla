-------------------------- MODULE Directory_proofs --------------------------
(***************************************************************************)
(* Directory's invariants.  The first half is about the operators: what    *)
(* ParseConsensus makes of a document that may break off, what             *)
(* ParseMicrodescFile makes of blocks in any order, how selectRandom's     *)
(* numbers fall.  They are folds, so that half starts with induction and   *)
(* with what a fold is.  The second half has the inductive invariant Inv,  *)
(* one lemma for each step, and the theorems.                              *)
(***************************************************************************)
EXTENDS Directory, FiniteSetTheorems, SequenceTheorems, TLAPS

-----------------------------------------------------------------------------
(* Induction                                                               *)

\* A set of numbers with 0 and every successor is Nat: otherwise adding one
\* would map its part below a missing number into that part without 0.
LEMMA NatInduct ==
  ASSUME NEW T, T \subseteq Nat, 0 \in T, \A n \in T : n + 1 \in T
  PROVE  T = Nat
<1> SUFFICES ASSUME NEW x \in Nat, x \notin T PROVE FALSE
  OBVIOUS
<1> DEFINE S == T \cap (0 .. x)
           U == S \ {0}
           f == [i \in S |-> i + 1]
<1>1. IsFiniteSet(S) /\ Cardinality(S) \in Nat
  <2>1. IsFiniteSet(0 .. x) /\ S \in SUBSET (0 .. x)
    BY FS_Interval
  <2>2. IsFiniteSet(S)
    BY <2>1, FS_Subset
  <2> QED BY <2>2, FS_CardinalityType
<1>2. IsFiniteSet(U) /\ Cardinality(U) = Cardinality(S) - 1
  <2>1. 0 \in S
    OBVIOUS
  <2> HIDE DEF S
  <2> QED BY <1>1, <2>1, FS_RemoveElement
<1>3. f \in Injection(S, U)
  <2>1. \A i \in S : i + 1 \in U
    OBVIOUS
  <2>2. f \in [S -> U]
    BY <2>1
  <2>3. \A i, j \in S : f[i] = f[j] => i = j
    OBVIOUS
  <2> QED BY <2>2, <2>3 DEF Injection, IsInjective
<1>4. Cardinality(S) <= Cardinality(U)
  BY <1>1, <1>2, <1>3, FS_Injection DEF ExistsInjection
<1> QED BY <1>1, <1>2, <1>4

\* The same as far as n.
LEMMA UpTo ==
  ASSUME NEW n \in Nat, NEW T, 0 \in T, \A k \in 0 .. n - 1 : k \in T => k + 1 \in T
  PROVE  \A k \in 0 .. n : k \in T
<1> DEFINE U == {k \in Nat : k <= n => k \in T}
<1>1. U \subseteq Nat /\ 0 \in U
  OBVIOUS
<1>2. ASSUME NEW k \in U PROVE k + 1 \in U
  <2>1. CASE k + 1 <= n
    <3>1. k \in T /\ k \in 0 .. n - 1
      BY <2>1
    <3> QED BY <3>1
  <2>2. CASE ~ (k + 1 <= n)
    BY <2>2
  <2> QED BY <2>1, <2>2
<1>3. U = Nat
  <2> HIDE DEF U
  <2> QED BY <1>1, <1>2, NatInduct
<1> QED BY <1>3

\* Numbers up to n have a largest one, and a smallest.
LEMMA LargestIs ==
  ASSUME NEW n \in Nat, NEW S \in SUBSET (1 .. n), S # {}
  PROVE  \E m \in S : \A j \in S : j <= m
<1> DEFINE T == {k \in Nat : S \cap (1 .. k) # {} => \E m \in S \cap (1 .. k) : \A j \in S \cap (1 .. k) : j <= m}
<1>1. 0 \in T
  OBVIOUS
<1>2. ASSUME NEW k \in 0 .. n - 1, k \in T PROVE k + 1 \in T
  <2>1. CASE k + 1 \in S
    BY <2>1
  <2>2. CASE k + 1 \notin S
    <3>1. S \cap (1 .. k + 1) = S \cap (1 .. k)
      BY <2>2
    <3> QED BY <1>2, <3>1
  <2> QED BY <2>1, <2>2
<1>3. n \in T
  <2> HIDE DEF T
  <2> QED BY <1>1, <1>2, UpTo
<1>4. S \cap (1 .. n) = S
  OBVIOUS
<1> QED BY <1>3, <1>4

LEMMA SmallestIs ==
  ASSUME NEW n \in Nat, NEW S \in SUBSET (1 .. n), S # {}
  PROVE  \E m \in S : \A j \in S : m <= j
<1> DEFINE R == {k \in 1 .. n : n + 1 - k \in S}
<1>1. R # {} /\ R \in SUBSET (1 .. n)
  <2>1. PICK s \in S : TRUE
    OBVIOUS
  <2>2. n + 1 - s \in 1 .. n /\ n + 1 - (n + 1 - s) = s
    OBVIOUS
  <2> QED BY <2>2
<1>2. PICK m \in R : \A j \in R : j <= m
  <2> HIDE DEF R
  <2> QED BY <1>1, LargestIs
<1>3. n + 1 - m \in S
  OBVIOUS
<1>4. ASSUME NEW j \in S PROVE n + 1 - m <= j
  <2>1. n + 1 - j \in R
    <3>1. n + 1 - j \in 1 .. n /\ n + 1 - (n + 1 - j) = j
      OBVIOUS
    <3> QED BY <3>1
  <2> QED BY <2>1, <1>2
<1> QED BY <1>3, <1>4

-----------------------------------------------------------------------------
(* Folds                                                                   *)
(* FoldLeft is defined by a function on all sets of positions, of which    *)
(* only a choice says that there is one.  Fold(kind, ctx, r, x) is one     *)
(* step of each fold of the model, so that it is shown for all at once.    *)

\* Values' step.
Valued(list, weights, place, port, longLive, r, i) ==
    LET wb == WeightedBandwidth(list[i].bw, PositionWeight(place, list[i].flags, weights))
    IN IF Eligible(list[i], place, port, longLive) /\ wb > 0
         THEN Append(r, [wb |-> wb, ptr |-> i]) ELSE r

Fold(kind, ctx, r, x) ==
    CASE kind = "document" -> ParseLine(r, x)
      [] kind = "entries"  -> r \o EntryLines(x)
      [] kind = "block"    -> BlockLine(r, x)
      [] kind = "file"     -> FileLine(ctx, r, x)
      [] kind = "answer"   -> r \o Blocks[x]
      [] kind = "bw"       -> r + x.wb
      [] kind = "values"   -> Valued(ctx[1], ctx[2], ctx[3], ctx[4], ctx[5], r, x)

\* The folds that have no name in the model.
Body(entries) == FoldLeft(LAMBDA ls, e : ls \o EntryLines(e), <<>>, entries)
Reading(digests, base, lines) == FoldLeft(LAMBDA s, l : FileLine(digests, s, l), base, lines)
Answer(o) == FoldLeft(LAMBDA ls, d : ls \o Blocks[d], <<>>, o)

\* The equation FoldLeft's function is chosen by.
Folds(g, kind, ctx, base, seq, n) ==
    g = [s \in SUBSET (1 .. n) |-> IF s = {} THEN base ELSE Fold(kind, ctx, g[s \ {Max(s)}], seq[Max(s)])]

LEMMA MaxIs ==
  ASSUME NEW n \in Nat, NEW s \in SUBSET (1 .. n + 1), n + 1 \in s
  PROVE  Max(s) = n + 1
<1>1. \A y \in s : n + 1 >= y
  OBVIOUS
<1>2. \A m \in s : (\A y \in s : m >= y) => m = n + 1
  OBVIOUS
<1> QED BY <1>1, <1>2 DEF Max

\* Every fold has its function: built up one position at a time.
LEMMA FoldExists ==
  ASSUME NEW kind, NEW ctx, NEW base, NEW seq, NEW n \in Nat
  PROVE  \E g : Folds(g, kind, ctx, base, seq, n)
<1> DEFINE T == {k \in Nat : \E g : Folds(g, kind, ctx, base, seq, k)}
<1>1. 0 \in T
  <2>1. Folds([s \in SUBSET (1 .. 0) |-> base], kind, ctx, base, seq, 0)
    BY DEF Folds
  <2> QED BY <2>1
<1>2. ASSUME NEW k \in T PROVE k + 1 \in T
  <2>1. PICK g : k \in Nat /\ Folds(g, kind, ctx, base, seq, k)
    OBVIOUS
  <2> DEFINE h == [s \in SUBSET (1 .. k + 1) |->
                     IF k + 1 \in s THEN Fold(kind, ctx, g[s \ {k + 1}], seq[k + 1]) ELSE g[s]]
  <2>2. ASSUME NEW s \in SUBSET (1 .. k + 1)
        PROVE  h[s] = IF s = {} THEN base ELSE Fold(kind, ctx, h[s \ {Max(s)}], seq[Max(s)])
    <3>1. CASE k + 1 \in s
      <4>1. Max(s) = k + 1
        BY <2>1, <3>1, MaxIs
      <4>2. h[s \ {k + 1}] = g[s \ {k + 1}]
        OBVIOUS
      <4> QED BY <3>1, <4>1, <4>2
    <3>2. CASE k + 1 \notin s
      <4>1. s \in SUBSET (1 .. k)
        BY <2>1, <3>2
      <4>2. h[s] = g[s] /\ k + 1 \notin s \ {Max(s)} /\ s \ {Max(s)} \in SUBSET (1 .. k + 1)
        BY <3>2
      <4>3. h[s \ {Max(s)}] = g[s \ {Max(s)}]
        BY <4>2
      <4>4. g[s] = IF s = {} THEN base ELSE Fold(kind, ctx, g[s \ {Max(s)}], seq[Max(s)])
        BY <2>1, <4>1 DEF Folds
      <4> QED BY <4>2, <4>3, <4>4
    <3> QED BY <3>1, <3>2
  <2> HIDE DEF h
  <2>3. Folds(h, kind, ctx, base, seq, k + 1)
    BY <2>2 DEF h, Folds
  <2>4. k + 1 \in Nat
    BY <2>1
  <2> QED BY <2>3, <2>4
<1>3. T = Nat
  <2>1. T \subseteq Nat
    OBVIOUS
  <2> HIDE DEF T
  <2> QED BY <1>1, <1>2, <2>1, NatInduct
<1> QED BY <1>3

\* f lists the intermediate results of a fold.
Unrolls(f, kind, ctx, base, seq, n) ==
    /\ f[0] = base
    /\ \A i \in 1 .. n : f[i] = Fold(kind, ctx, f[i - 1], seq[i])

\* A fold is its base with one step for each element, in the order of the sequence.
LEMMA FoldUnrolled ==
  ASSUME NEW kind, NEW ctx, NEW base, NEW seq, NEW n \in Nat, NEW g, Folds(g, kind, ctx, base, seq, n)
  PROVE  \E f : Unrolls(f, kind, ctx, base, seq, n) /\ f[n] = g[1 .. n]
<1>1. g[1 .. 0] = base
  <2>1. 1 .. 0 = {} /\ {} \in SUBSET (1 .. n)
    OBVIOUS
  <2> QED BY <2>1 DEF Folds
<1>2. ASSUME NEW i \in 1 .. n PROVE g[1 .. i] = Fold(kind, ctx, g[1 .. i - 1], seq[i])
  <2>1. i - 1 \in Nat /\ (i - 1) + 1 \in 1 .. i /\ (i - 1) + 1 = i
    OBVIOUS
  <2>2. Max(1 .. i) = i
    BY <2>1, MaxIs
  <2>3. 1 .. i \in SUBSET (1 .. n) /\ 1 .. i # {}
    BY <2>1
  <2>4. (1 .. i) \ {i} = 1 .. i - 1
    OBVIOUS
  <2> QED BY <2>2, <2>3, <2>4 DEF Folds
<1> DEFINE f == [i \in 0 .. n |-> g[1 .. i]]
<1>3. f[0] = base /\ f[n] = g[1 .. n]
  BY <1>1
<1>4. \A i \in 1 .. n : f[i] = Fold(kind, ctx, f[i - 1], seq[i])
  BY <1>2
<1> QED BY <1>3, <1>4 DEF Unrolls

\* A consensus line by line.
LineByLine(f, base, lines, n) ==
    /\ f[0] = base
    /\ \A i \in 1 .. n : f[i] = ParseLine(f[i - 1], lines[i])
    /\ FoldLeft(ParseLine, base, lines) = f[n]

\* ParseConsensus, line by line.
LEMMA ParseUnrolled ==
  ASSUME NEW lines, NEW base, NEW n \in Nat, DOMAIN lines = 1 .. n
  PROVE  \E f : LineByLine(f, base, lines, n)
<1> DEFINE Eq(g) == g = [s \in SUBSET (1 .. n) |->
                           IF s = {} THEN base ELSE ParseLine(g[s \ {Max(s)}], lines[Max(s)])]
           iter == CHOOSE g : Eq(g)
<1>1. \A g : Folds(g, "document", 0, base, lines, n) <=> Eq(g)
  BY DEF Folds, Fold
<1>2. Eq(iter)
  <2>1. \E g : Eq(g)
    BY <1>1, FoldExists
  <2> HIDE DEF Eq
  <2> QED BY <2>1
<1>3. FoldLeft(ParseLine, base, lines) = iter[1 .. n]
  BY DEF FoldLeft, MapThenFoldSet
<1>4. Folds(iter, "document", 0, base, lines, n)
  BY <1>1, <1>2
<1> HIDE DEF iter
<1>5. PICK f : Unrolls(f, "document", 0, base, lines, n) /\ f[n] = iter[1 .. n]
  BY <1>4, FoldUnrolled
<1> QED BY <1>3, <1>5 DEF Unrolls, Fold, LineByLine

\* The lines of a document relay by relay.
EntryByEntry(f, entries, n) ==
    /\ f[0] = <<>>
    /\ \A i \in 1 .. n : f[i] = f[i - 1] \o EntryLines(entries[i])
    /\ Body(entries) = f[n]

\* The lines of the entries, entry by entry.
LEMMA EntriesUnrolled ==
  ASSUME NEW entries, NEW n \in Nat, DOMAIN entries = 1 .. n
  PROVE  \E f : EntryByEntry(f, entries, n)
<1> DEFINE Eq(g) == g = [s \in SUBSET (1 .. n) |->
                           IF s = {} THEN <<>> ELSE g[s \ {Max(s)}] \o EntryLines(entries[Max(s)])]
           iter == CHOOSE g : Eq(g)
<1>1. \A g : Folds(g, "entries", 0, <<>>, entries, n) <=> Eq(g)
  BY DEF Folds, Fold
<1>2. Eq(iter)
  <2>1. \E g : Eq(g)
    BY <1>1, FoldExists, Zenon
  <2> HIDE DEF Eq
  <2> QED BY <2>1
<1>3. Body(entries) = iter[1 .. n]
  BY Zenon DEF Body, FoldLeft, MapThenFoldSet
<1>4. Folds(iter, "entries", 0, <<>>, entries, n)
  BY <1>1, <1>2, Zenon
<1> HIDE DEF iter
<1>5. PICK f : Unrolls(f, "entries", 0, <<>>, entries, n) /\ f[n] = iter[1 .. n]
  BY <1>4, FoldUnrolled
<1> QED BY <1>3, <1>5 DEF Unrolls, Fold, EntryByEntry

\* A microdescriptor line by line.
BlockByLine(f, lines, n) ==
    /\ f[0] = NoMicrodesc
    /\ \A i \in 1 .. n : f[i] = BlockLine(f[i - 1], lines[i])
    /\ ParseMicrodescBlock(lines) = f[n]

\* ParseMicrodescBlock, line by line.
LEMMA BlockUnrolled ==
  ASSUME NEW lines, NEW n \in Nat, DOMAIN lines = 1 .. n
  PROVE  \E f : BlockByLine(f, lines, n)
<1> DEFINE Eq(g) == g = [s \in SUBSET (1 .. n) |->
                           IF s = {} THEN NoMicrodesc ELSE BlockLine(g[s \ {Max(s)}], lines[Max(s)])]
           iter == CHOOSE g : Eq(g)
<1>1. \A g : Folds(g, "block", 0, NoMicrodesc, lines, n) <=> Eq(g)
  BY DEF Folds, Fold
<1>2. Eq(iter)
  <2>1. \E g : Eq(g)
    BY <1>1, FoldExists
  <2> HIDE DEF Eq
  <2> QED BY <2>1
<1>3. ParseMicrodescBlock(lines) = iter[1 .. n]
  BY DEF FoldLeft, MapThenFoldSet, ParseMicrodescBlock
<1>4. Folds(iter, "block", 0, NoMicrodesc, lines, n)
  BY <1>1, <1>2
<1> HIDE DEF iter
<1>5. PICK f : Unrolls(f, "block", 0, NoMicrodesc, lines, n) /\ f[n] = iter[1 .. n]
  BY <1>4, FoldUnrolled
<1> QED BY <1>3, <1>5 DEF Unrolls, Fold, BlockByLine

\* The answer of a cache line by line.
FileByLine(f, digests, base, lines, n) ==
    /\ f[0] = base
    /\ \A i \in 1 .. n : f[i] = FileLine(digests, f[i - 1], lines[i])
    /\ Reading(digests, base, lines) = f[n]

\* ParseMicrodescFile, line by line.
LEMMA FileUnrolled ==
  ASSUME NEW lines, NEW digests, NEW base, NEW n \in Nat, DOMAIN lines = 1 .. n
  PROVE  \E f : FileByLine(f, digests, base, lines, n)
<1> DEFINE Eq(g) == g = [s \in SUBSET (1 .. n) |->
                           IF s = {} THEN base ELSE FileLine(digests, g[s \ {Max(s)}], lines[Max(s)])]
           iter == CHOOSE g : Eq(g)
<1>1. \A g : Folds(g, "file", digests, base, lines, n) <=> Eq(g)
  BY DEF Folds, Fold
<1>2. Eq(iter)
  <2>1. \E g : Eq(g)
    BY <1>1, FoldExists
  <2> HIDE DEF Eq
  <2> QED BY <2>1
<1>3. Reading(digests, base, lines) = iter[1 .. n]
  BY DEF Reading, FoldLeft, MapThenFoldSet
<1>4. Folds(iter, "file", digests, base, lines, n)
  BY <1>1, <1>2
<1> HIDE DEF iter
<1>5. PICK f : Unrolls(f, "file", digests, base, lines, n) /\ f[n] = iter[1 .. n]
  BY <1>4, FoldUnrolled
<1> QED BY <1>3, <1>5 DEF Unrolls, Fold, FileByLine

\* The answer of a cache block by block.
BlockByBlock(f, o, n) ==
    /\ f[0] = <<>>
    /\ \A i \in 1 .. n : f[i] = f[i - 1] \o Blocks[o[i]]
    /\ Answer(o) = f[n]

\* A cache's answer, block by block.
LEMMA AnswerUnrolled ==
  ASSUME NEW o, NEW n \in Nat, DOMAIN o = 1 .. n
  PROVE  \E f : BlockByBlock(f, o, n)
<1> DEFINE Eq(g) == g = [s \in SUBSET (1 .. n) |->
                           IF s = {} THEN <<>> ELSE g[s \ {Max(s)}] \o Blocks[o[Max(s)]]]
           iter == CHOOSE g : Eq(g)
<1>1. \A g : Folds(g, "answer", 0, <<>>, o, n) <=> Eq(g)
  BY DEF Folds, Fold
<1>2. Eq(iter)
  <2>1. \E g : Eq(g)
    BY <1>1, FoldExists, Zenon
  <2> HIDE DEF Eq
  <2> QED BY <2>1
<1>3. Answer(o) = iter[1 .. n]
  BY DEF Answer, FoldLeft, MapThenFoldSet
<1>4. Folds(iter, "answer", 0, <<>>, o, n)
  BY <1>1, <1>2, Zenon
<1> HIDE DEF iter
<1>5. PICK f : Unrolls(f, "answer", 0, <<>>, o, n) /\ f[n] = iter[1 .. n]
  BY <1>4, FoldUnrolled
<1> QED BY <1>3, <1>5 DEF Unrolls, Fold, BlockByBlock

\* The sum of the weights.
SumBySum(f, values, n) ==
    /\ f[0] = 0
    /\ \A i \in 1 .. n : f[i] = f[i - 1] + values[i].wb
    /\ TotalBw(values) = f[n]

\* TotalBw, value by value.
LEMMA TotalUnrolled ==
  ASSUME NEW values, NEW n \in Nat, DOMAIN values = 1 .. n
  PROVE  \E f : SumBySum(f, values, n)
<1> DEFINE Eq(g) == g = [s \in SUBSET (1 .. n) |->
                           IF s = {} THEN 0 ELSE g[s \ {Max(s)}] + values[Max(s)].wb]
           iter == CHOOSE g : Eq(g)
<1>1. \A g : Folds(g, "bw", 0, 0, values, n) <=> Eq(g)
  BY DEF Folds, Fold
<1>2. Eq(iter)
  <2>1. \E g : Eq(g)
    BY <1>1, FoldExists
  <2> HIDE DEF Eq
  <2> QED BY <2>1
<1>3. TotalBw(values) = iter[1 .. n]
  BY DEF FoldLeft, MapThenFoldSet, TotalBw
<1>4. Folds(iter, "bw", 0, 0, values, n)
  BY <1>1, <1>2
<1> HIDE DEF iter
<1>5. PICK f : Unrolls(f, "bw", 0, 0, values, n) /\ f[n] = iter[1 .. n]
  BY <1>4, FoldUnrolled
<1> QED BY <1>3, <1>5 DEF Unrolls, Fold, SumBySum

\* The candidates relay by relay.
RelayByRelay(f, list, weights, place, port, longLive, n) ==
    /\ f[0] = <<>>
    /\ \A i \in 1 .. n : f[i] = Valued(list, weights, place, port, longLive, f[i - 1], i)
    /\ Values(list, weights, place, port, longLive) = f[n]

\* Values, relay by relay.
LEMMA ValuesUnrolled ==
  ASSUME NEW list, NEW weights, NEW place, NEW port, NEW longLive, NEW n \in Nat, DOMAIN list = 1 .. n
  PROVE  \E f : RelayByRelay(f, list, weights, place, port, longLive, n)
<1> DEFINE ids == [j \in DOMAIN list |-> j]
           ctx == <<list, weights, place, port, longLive>>
           Eq(g) == g = [s \in SUBSET (1 .. n) |->
                           IF s = {} THEN <<>> ELSE Valued(list, weights, place, port, longLive, g[s \ {Max(s)}], ids[Max(s)])]
           iter == CHOOSE g : Eq(g)
<1>1. \A g : Folds(g, "values", ctx, <<>>, ids, n) <=> Eq(g)
  BY DEF Folds, Fold
<1>2. Eq(iter)
  <2>1. \E g : Eq(g)
    BY <1>1, FoldExists
  <2> HIDE DEF Eq
  <2> QED BY <2>1
<1>3. Values(list, weights, place, port, longLive) = iter[1 .. n]
  BY DEF FoldLeft, MapThenFoldSet, Values, FoldLeftDomain, Valued
<1>4. Folds(iter, "values", ctx, <<>>, ids, n)
  BY <1>1, <1>2
<1> HIDE DEF iter, ids, ctx
<1>5. PICK f : Unrolls(f, "values", ctx, <<>>, ids, n) /\ f[n] = iter[1 .. n]
  BY <1>4, FoldUnrolled
<1> QED BY <1>3, <1>5 DEF Unrolls, Fold, RelayByRelay, ids, ctx

-----------------------------------------------------------------------------
(* The lines of a document: six of header, six for each relay, and two.    *)

\* u is s, of length a, and t, of length b.
Concats(u, s, t, a, b, S) ==
    /\ u \in Seq(S) /\ Len(u) = a + b /\ DOMAIN u = 1 .. a + b
    /\ \A i \in 1 .. a + b : u[i] = IF i <= a THEN s[i] ELSE t[i - a]

LEMMA ConcatIs ==
  ASSUME NEW S, NEW s, NEW t, NEW a, NEW b, NEW u,
         s \in Seq(S), t \in Seq(S), Len(s) = a, Len(t) = b, u = s \o t
  PROVE  Concats(u, s, t, a, b, S)
<1>1. /\ s \o t \in Seq(S) /\ Len(s \o t) = Len(s) + Len(t)
      /\ \A i \in 1 .. Len(s) + Len(t) : (s \o t)[i] = IF i <= Len(s) THEN s[i] ELSE t[i - Len(s)]
  BY ConcatProperties
<1>2. u \in Seq(S) /\ Len(u) = a + b /\ \A i \in 1 .. a + b : u[i] = IF i <= a THEN s[i] ELSE t[i - a]
  BY <1>1, Zenon
<1>3. DOMAIN u = 1 .. a + b
  BY <1>2
<1> QED BY <1>2, <1>3, Zenon DEF Concats

LEMMA SixIs ==
  ASSUME NEW S, NEW a \in S, NEW b \in S, NEW c \in S, NEW d \in S, NEW e \in S, NEW f \in S
  PROVE  <<a, b, c, d, e, f>> \in Seq(S) /\ Len(<<a, b, c, d, e, f>>) = 6
OBVIOUS

\* ls has the lines of n relays.
RelayLines(ls, es, n, S) ==
    /\ ls \in Seq(S) /\ Len(ls) = 6 * n
    /\ \A m \in 1 .. n, j \in 1 .. 6 : ls[6 * (m - 1) + j] = EntryLines(es[m])[j]

\* The lines of entry m are the six from 6 * (m - 1) on.
LEMMA EntryLinesLayout ==
  ASSUME NEW es, NEW n \in Nat, DOMAIN es = 1 .. n,
         NEW ls, ls = Body(es)
  PROVE  \E S : RelayLines(ls, es, n, S)
<1>1. PICK f : /\ f[0] = <<>>
               /\ \A i \in 1 .. n : f[i] = f[i - 1] \o EntryLines(es[i])
               /\ ls = f[n]
  <2>1. \E f : EntryByEntry(f, es, n)
    BY EntriesUnrolled, Zenon
  <2> QED BY <2>1 DEF EntryByEntry
<1> DEFINE S == UNION {ToSet(EntryLines(es[i])) : i \in 1 .. n}
           Good(k) == /\ f[k] \in Seq(S) /\ Len(f[k]) = 6 * k
                      /\ \A m \in 1 .. k, j \in 1 .. 6 : f[k][6 * (m - 1) + j] = EntryLines(es[m])[j]
           T == {k \in Nat : Good(k)}
<1>2. ASSUME NEW i \in 1 .. n PROVE EntryLines(es[i]) \in Seq(S) /\ Len(EntryLines(es[i])) = 6
  <2> DEFINE e == EntryLines(es[i])
  <2>1. e = <<e[1], e[2], e[3], e[4], e[5], e[6]>> /\ DOMAIN e = 1 .. 6
    BY DEF EntryLines
  <2> HIDE DEF e
  <2>2. \A j \in 1 .. 6 : e[j] \in ToSet(e)
    BY <2>1 DEF ToSet
  <2>3. ToSet(e) \subseteq S
    BY DEF e
  <2> HIDE DEF S
  <2>4. {e[1], e[2], e[3], e[4], e[5], e[6]} \subseteq S
    BY <2>2, <2>3
  <2>5. <<e[1], e[2], e[3], e[4], e[5], e[6]>> \in Seq(S) /\ Len(<<e[1], e[2], e[3], e[4], e[5], e[6]>>) = 6
    BY <2>4, SixIs
  <2>6. e \in Seq(S) /\ Len(e) = 6
    BY <2>1, <2>5, Zenon
  <2> QED BY <2>6 DEF e
<1>3. 0 \in T
  <2>1. Good(0)
    BY <1>1
  <2> QED BY <2>1
<1>4. ASSUME NEW k \in 0 .. n - 1, k \in T PROVE k + 1 \in T
  <2> DEFINE e == EntryLines(es[k + 1])
  <2>1. f[k + 1] = f[k] \o e /\ k + 1 \in 1 .. n
    <3>1. k + 1 \in 1 .. n /\ (k + 1) - 1 = k
      OBVIOUS
    <3> QED BY <1>1, <3>1
  <2>2. e \in Seq(S) /\ Len(e) = 6
    BY <1>2, <2>1
  <2> HIDE DEF e, S
  <2>3. f[k] \in Seq(S) /\ Len(f[k]) = 6 * k
    BY <1>4
  <2> DEFINE a == 6 * k
  <2>4. a \in Nat /\ Len(f[k]) = a
    BY <2>3
  <2> HIDE DEF a
  <2>5. /\ f[k + 1] \in Seq(S) /\ Len(f[k + 1]) = a + 6
        /\ \A i \in 1 .. a + 6 : f[k + 1][i] = IF i <= a THEN f[k][i] ELSE e[i - a]
    <3>1. Concats(f[k + 1], f[k], e, a, 6, S)
      BY <2>1, <2>2, <2>3, <2>4, ConcatIs, Zenon
    <3> QED BY <3>1 DEF Concats
  <2>6. ASSUME NEW m \in 1 .. k + 1, NEW j \in 1 .. 6
        PROVE  f[k + 1][6 * (m - 1) + j] = EntryLines(es[m])[j]
    <3>1. CASE m <= k
      <4>1. 6 * (m - 1) + j \in 1 .. 6 * k
        BY <3>1
      <4>2. m \in 1 .. k /\ Good(k)
        <5>1. k \in Nat /\ m \in 1 .. k
          BY <3>1
        <5>2. Good(k)
          <6> HIDE DEF Good
          <6> QED BY <1>4
        <5> HIDE DEF Good
        <5> QED BY <5>1, <5>2
      <4>3. f[k][6 * (m - 1) + j] = EntryLines(es[m])[j]
        BY <4>2
      <4> HIDE DEF Good, T
      <4> QED BY <2>5, <4>1, <4>3 DEF a
    <3>2. CASE m = k + 1
      <4>1. 6 * (m - 1) + j \in 1 .. 6 * k + 6 /\ ~ (6 * (m - 1) + j <= 6 * k) /\ 6 * (m - 1) + j - 6 * k = j
        BY <3>2
      <4> QED BY <2>5, <3>2, <4>1 DEF e, a
    <3> QED BY <3>1, <3>2
  <2>7. 6 * (k + 1) = 6 * k + 6 /\ k + 1 \in Nat
    OBVIOUS
  <2> QED BY <2>5, <2>6, <2>7 DEF a
<1>5. n \in T
  <2> HIDE DEF T, Good
  <2>1. \A k \in 0 .. n : k \in T
    BY <1>3, <1>4, UpTo
  <2> QED BY <2>1
<1>6. Good(n)
  BY <1>5
<1>7. RelayLines(f[n], es, n, S)
  <2> HIDE DEF S
  <2> QED BY <1>6 DEF RelayLines
<1> HIDE DEF S
<1> QED BY <1>1, <1>7

LinesAre(d, n) ==
    /\ DOMAIN Lines(d) = 1 .. 6 * n + 8 /\ Len(Lines(d)) = 6 * n + 8
    /\ \E S : Lines(d) \in Seq(S)
    /\ Lines(d)[1] = Line("network-status-version") /\ Lines(d)[2] = Date("valid-after", 0)
    /\ Lines(d)[3] = Date("fresh-until", Fresh) /\ Lines(d)[4] = Date("valid-until", Fresh + Valid)
    /\ Lines(d)[5] = Line("dir-source") /\ Lines(d)[6] = Line("contact")
    /\ \A m \in 1 .. n, j \in 1 .. 6 : Lines(d)[6 * m + j] = EntryLines(d.entries[m])[j]
    /\ Lines(d)[6 * n + 7] = Line("directory-footer")
    /\ Lines(d)[6 * n + 8] = [kw |-> "bandwidth-weights", cut |-> FALSE, weights |-> d.weights]

\* The whole document: header, entries, footer.
LEMMA LinesLayout ==
  ASSUME NEW d, NEW n \in Nat, DOMAIN d.entries = 1 .. n
  PROVE  LinesAre(d, n)
<1> DEFINE head == << Line("network-status-version"), Date("valid-after", 0), Date("fresh-until", Fresh),
                      Date("valid-until", Fresh + Valid), Line("dir-source"), Line("contact") >>
           body == Body(d.entries)
           foot == << Line("directory-footer"),
                      [kw |-> "bandwidth-weights", cut |-> FALSE, weights |-> d.weights] >>
<1>1. PICK B : /\ body \in Seq(B) /\ Len(body) = 6 * n
               /\ \A m \in 1 .. n, j \in 1 .. 6 : body[6 * (m - 1) + j] = EntryLines(d.entries[m])[j]
  <2> HIDE DEF body
  <2>1. body = Body(d.entries)
    BY DEF body
  <2>2. \E B : RelayLines(body, d.entries, n, B)
    BY <2>1, EntryLinesLayout, Zenon
  <2> QED BY <2>2 DEF RelayLines
<1>2. Lines(d) = (head \o body) \o foot
  BY DEF Lines, Body
<1> DEFINE S == B \cup {head[1], head[2], head[3], head[4], head[5], head[6], foot[1], foot[2]}
<1>3. head \in Seq(S) /\ Len(head) = 6
  OBVIOUS
<1>4. foot \in Seq(S) /\ Len(foot) = 2
  OBVIOUS
<1>5. body \in Seq(S)
  <2> HIDE DEF body, head, foot
  <2> QED BY <1>1
<1>6. /\ head[1] = Line("network-status-version") /\ head[2] = Date("valid-after", 0)
      /\ head[3] = Date("fresh-until", Fresh) /\ head[4] = Date("valid-until", Fresh + Valid)
      /\ head[5] = Line("dir-source") /\ head[6] = Line("contact")
      /\ foot[1] = Line("directory-footer")
      /\ foot[2] = [kw |-> "bandwidth-weights", cut |-> FALSE, weights |-> d.weights]
  OBVIOUS
<1> HIDE DEF head, body, foot, S
<1> DEFINE a == 6 * n
<1>a. a \in Nat /\ Len(body) = a
  BY <1>1
<1> HIDE DEF a
<1>7. /\ head \o body \in Seq(S) /\ Len(head \o body) = 6 + a
      /\ \A i \in 1 .. 6 + a : (head \o body)[i] = IF i <= 6 THEN head[i] ELSE body[i - 6]
  <2>1. Concats(head \o body, head, body, 6, a, S)
    BY <1>a, <1>3, <1>5, ConcatIs, Zenon
  <2> QED BY <2>1 DEF Concats
<1> DEFINE b == 6 + a
<1>b. b \in Nat /\ Len(head \o body) = b
  BY <1>a, <1>7
<1> HIDE DEF b
<1>8. /\ Lines(d) \in Seq(S) /\ Len(Lines(d)) = b + 2
      /\ \A i \in 1 .. b + 2 : Lines(d)[i] = IF i <= b THEN (head \o body)[i] ELSE foot[i - b]
  <2>1. Concats(Lines(d), head \o body, foot, b, 2, S)
    BY <1>2, <1>4, <1>7, <1>b, ConcatIs, Zenon
  <2> QED BY <2>1 DEF Concats
<1>9. \A i \in 1 .. 6 : Lines(d)[i] = head[i]
  BY <1>7, <1>8, <1>a DEF b
<1>10. ASSUME NEW m \in 1 .. n, NEW j \in 1 .. 6 PROVE Lines(d)[6 * m + j] = EntryLines(d.entries[m])[j]
  <2>1. 6 * m + j \in 1 .. 6 + 6 * n /\ ~ (6 * m + j <= 6) /\ (6 * m + j) - 6 = 6 * (m - 1) + j
    OBVIOUS
  <2>2. Lines(d)[6 * m + j] = body[6 * (m - 1) + j]
    <3> DEFINE i == 6 * m + j
               h == head \o body
    <3>1. i \in 1 .. 6 + a /\ ~ (i <= 6) /\ i - 6 = 6 * (m - 1) + j
      BY <2>1 DEF a
    <3>2. i \in 1 .. b + 2 /\ i <= b
      BY <1>a, <3>1 DEF b
    <3> HIDE DEF i, h
    <3>3. h[i] = body[i - 6]
      <4>1. \A x \in 1 .. 6 + a : h[x] = IF x <= 6 THEN head[x] ELSE body[x - 6]
        BY <1>7, Zenon DEF h
      <4> QED BY <3>1, <4>1
    <3>4. Lines(d)[i] = h[i]
      <4>1. \A x \in 1 .. b + 2 : Lines(d)[x] = IF x <= b THEN h[x] ELSE foot[x - b]
        BY <1>8, Zenon DEF h
      <4> QED BY <3>2, <4>1
    <3>5. Lines(d)[i] = body[6 * (m - 1) + j]
      BY <3>1, <3>3, <3>4, Zenon
    <3> QED BY <3>5, Zenon DEF i
  <2> QED BY <1>1, <2>2
<1>11. Lines(d)[6 * n + 7] = foot[1] /\ Lines(d)[6 * n + 8] = foot[2]
  BY <1>8, <1>a DEF a, b
<1>12. DOMAIN Lines(d) = 1 .. 6 * n + 8
  BY <1>8, <1>a DEF a, b
<1>13. Len(Lines(d)) = 6 * n + 8 /\ \E Z : Lines(d) \in Seq(Z)
  BY <1>8, <1>a DEF a, b
<1> QED BY <1>6, <1>13, <1>9, <1>10, <1>11, <1>12 DEF LinesAre

-----------------------------------------------------------------------------
(* What the parser has read after i lines.                                 *)

\* A parser's state, a consensus, and a relay that has no microdescriptor.  h
\* is the pair of its flags and of what it was given, the two that relays inherit.
State(st, er, tmp, c) == [state |-> st, err |-> er, tmp |-> tmp, cns |-> c]
Cns(va, fu, vu, rs, w) ==
    [validAfter |-> va, freshUntil |-> fu, validUntil |-> vu, relays |-> rs, weights |-> w]
RouterStatusOf(id, lvl, fl, gi, bw, dg, po, nt, ed, fa) ==
    [id |-> id, ipLevel |-> lvl, flags |-> fl, given |-> gi, bw |-> bw, digest |-> dg,
     ports |-> po, ntor |-> nt, ed |-> ed, familys |-> fa]
Unkeyed(e, h, bw, dg) == RouterStatusOf(e.id, IPLevel(e.ip), h[1], h[2], bw, dg, {}, "", "", {})

\* The fields of what is given whose lines are among the first j of an entry.
GivenBy(j) == IF j >= 5 THEN Optional ELSE IF j >= 2 THEN {"Ipv6Addr"} ELSE {}

\* What the relay of entry m has after j of its lines, of its own and of the
\* relays before it.
Inherits(h, es, m, j) ==
    /\ h = <<h[1], h[2]>>
    /\ h[1] = UNION {es[x].flags : x \in 1 .. (IF j >= 4 THEN m ELSE m - 1)}
    /\ h[2] = [f \in Optional |-> h[2][f]]
    /\ \A f \in Optional : GivenLast(h[2][f], f, es, IF f \in GivenBy(j) THEN m ELSE m - 1)

\* The first k relays of a document are listed.
Listed(rs, es, k) ==
    \E h : /\ rs = [x \in 1 .. k |-> Unkeyed(es[x], h[x], es[x].bw, es[x].digest)]
            /\ \A x \in 1 .. k : Inherits(h[x], es, x, 6)

Header(i, er) ==
    State(IF i < 5 THEN "HEADER" ELSE "DIRS", er, <<>>,
          Cns(IF i < 2 THEN NoTime ELSE 0, IF i < 3 THEN NoTime ELSE Fresh,
              IF i < 4 THEN NoTime ELSE Fresh + Valid, <<>>, NoWeights))

\* j lines of a relay's entry, and those of the relays before.
Entry(p, er, es, m, j) ==
    \E rs, h, bw, dg :
      /\ Listed(rs, es, m - 1)
      /\ Inherits(h, es, m, j)
      /\ j >= 3 => dg = es[m].digest
      /\ j >= 6 => bw = es[m].bw
      /\ p = State("ROUTERS", er, <<Unkeyed(es[m], h, bw, dg)>>, Cns(0, Fresh, Fresh + Valid, rs, NoWeights))

Footer(p, er, d, n) ==
    \E st, tmp, rs, w :
      /\ st \in {"DIRS", "FOOTER"} /\ w \in {NoWeights, d.weights}
      /\ \E k \in 0 .. n : Listed(rs, d.entries, k)
      /\ p = State(st, er, tmp, Cns(0, Fresh, Fresh + Valid, rs, w))

Reads(p, er, d, n, i) ==
    \/ i \in 0 .. 6 /\ p = Header(i, er)
    \/ \E m \in 1 .. n, j \in 1 .. 6 : i = 6 * m + j /\ Entry(p, er, d.entries, m, j)
    \/ i \in {6 * n + 7, 6 * n + 8} /\ Footer(p, er, d, n)

\* A line without an error so far.  (The error is a parameter, for the solver
\* has no records with a truth value in them.)
Handled(st, er, tmp, c, l, st2) ==
    /\ st2 = "HEADER" => ParseLine(State(st, er, tmp, c), l) = HeaderLine(State(st2, er, tmp, c), l)
    /\ st2 = "DIRS" => ParseLine(State(st, er, tmp, c), l) = State(st2, er, tmp, c)
    /\ st2 = "ROUTERS" => ParseLine(State(st, er, tmp, c), l) = RouterLine(State(st2, er, tmp, c), l)
    /\ st2 = "FOOTER" => ParseLine(State(st, er, tmp, c), l) = FooterLine(State(st2, er, tmp, c), l)

LEMMA LineIs ==
  ASSUME NEW st, NEW er, NEW tmp, NEW c, NEW l, er = FALSE, NEW st2, StateFor(st, l.kw) = st2
  PROVE  Handled(st, er, tmp, c, l, st2)
<1> DEFINE p == State(st, er, tmp, c)
<1>1. p.state = st /\ p.err = er /\ [p EXCEPT !.state = st2] = State(st2, er, tmp, c)
  BY DEF State
<1>2. State(st2, er, tmp, c).state = st2
  BY DEF State
<1> HIDE DEF p
<1>3. p.err = FALSE
  BY <1>1, Zenon
<1>4. ParseLine(p, l) = LET q == [p EXCEPT !.state = StateFor(p.state, l.kw)]
                        IN CASE q.state = "HEADER"  -> HeaderLine(q, l)
                             [] q.state = "DIRS"    -> q
                             [] q.state = "ROUTERS" -> RouterLine(q, l)
                             [] q.state = "FOOTER"  -> FooterLine(q, l)
  BY <1>3, Zenon DEF ParseLine
<1> QED BY <1>1, <1>2, <1>4 DEF p, Handled

\* What the handlers of the lines assign.
Assigned(p, st, er, tmp, va, fu, vu, rs, w, x) ==
    /\ [p EXCEPT !.cns.validAfter = x] = State(st, er, tmp, Cns(x, fu, vu, rs, w))
    /\ [p EXCEPT !.cns.freshUntil = x] = State(st, er, tmp, Cns(va, x, vu, rs, w))
    /\ [p EXCEPT !.cns.validUntil = x] = State(st, er, tmp, Cns(va, fu, x, rs, w))
    /\ [p EXCEPT !.cns.weights = x] = State(st, er, tmp, Cns(va, fu, vu, rs, x))

LEMMA AssignIs ==
  ASSUME NEW st, NEW er, NEW tmp, NEW va, NEW fu, NEW vu, NEW rs, NEW w, NEW x,
         NEW p, p = State(st, er, tmp, Cns(va, fu, vu, rs, w))
  PROVE  Assigned(p, st, er, tmp, va, fu, vu, rs, w, x)
BY DEF State, Cns, Assigned

TmpAssigned(p, st, er, t, c) ==
    p.tmp[1] = t /\ \A x : [p EXCEPT !.tmp[1] = x] = State(st, er, <<x>>, c)

LEMMA TmpIs ==
  ASSUME NEW st, NEW er, NEW t, NEW c, NEW p, p = State(st, er, <<t>>, c)
  PROVE  TmpAssigned(p, st, er, t, c)
BY DEF State, TmpAssigned

\* A relay's fields, and what it is after one is assigned.
Fields(t, id, lvl, fl, gi, bw, dg, po, nt, ed, fa) ==
    /\ t.id = id /\ t.ipLevel = lvl /\ t.flags = fl /\ t.given = gi /\ t.bw = bw /\ t.digest = dg
    /\ t.ports = po /\ t.ntor = nt /\ t.ed = ed /\ t.familys = fa
    /\ DOMAIN t = {"id", "ipLevel", "flags", "given", "bw", "digest", "ports", "ntor", "ed", "familys"}
    /\ \A x : /\ [t EXCEPT !.id = x] = RouterStatusOf(x, lvl, fl, gi, bw, dg, po, nt, ed, fa)
              /\ [t EXCEPT !.ipLevel = x] = RouterStatusOf(id, x, fl, gi, bw, dg, po, nt, ed, fa)
              /\ [t EXCEPT !.flags = x] = RouterStatusOf(id, lvl, x, gi, bw, dg, po, nt, ed, fa)
              /\ [t EXCEPT !.given = x] = RouterStatusOf(id, lvl, fl, x, bw, dg, po, nt, ed, fa)
              /\ [t EXCEPT !.bw = x] = RouterStatusOf(id, lvl, fl, gi, x, dg, po, nt, ed, fa)
              /\ [t EXCEPT !.digest = x] = RouterStatusOf(id, lvl, fl, gi, bw, x, po, nt, ed, fa)
              /\ [t EXCEPT !.ports = x] = RouterStatusOf(id, lvl, fl, gi, bw, dg, x, nt, ed, fa)
              /\ [t EXCEPT !.ntor = x] = RouterStatusOf(id, lvl, fl, gi, bw, dg, po, x, ed, fa)
              /\ [t EXCEPT !.ed = x] = RouterStatusOf(id, lvl, fl, gi, bw, dg, po, nt, x, fa)
              /\ [t EXCEPT !.familys = x] = RouterStatusOf(id, lvl, fl, gi, bw, dg, po, nt, ed, x)

LEMMA RelayIs ==
  ASSUME NEW id, NEW lvl, NEW fl, NEW gi, NEW bw, NEW dg, NEW po, NEW nt, NEW ed, NEW fa,
         NEW t, t = RouterStatusOf(id, lvl, fl, gi, bw, dg, po, nt, ed, fa)
  PROVE  Fields(t, id, lvl, fl, gi, bw, dg, po, nt, ed, fa)
BY DEF RouterStatusOf, Fields

\* The parser reads the header: its state after i lines is Header(i).
LEMMA HeaderRead ==
  ASSUME NEW d, NEW n \in Nat, DOMAIN d.entries = 1 .. n, NEW i \in 0 .. 5, NEW er, er = FALSE
  PROVE  ParseLine(Header(i, er), Lines(d)[i + 1]) = Header(i + 1, er)
<1>z. LinesAre(d, n)
  BY LinesLayout, Zenon
<1> DEFINE l == Lines(d)[i + 1]
<1>1. /\ i = 0 => l = Line("network-status-version")
      /\ i = 1 => l = Date("valid-after", 0)
      /\ i = 2 => l = Date("fresh-until", Fresh)
      /\ i = 3 => l = Date("valid-until", Fresh + Valid)
      /\ i = 4 => l = Line("dir-source")
      /\ i = 5 => l = Line("contact")
  <2>1. /\ Lines(d)[1] = Line("network-status-version") /\ Lines(d)[2] = Date("valid-after", 0)
        /\ Lines(d)[3] = Date("fresh-until", Fresh) /\ Lines(d)[4] = Date("valid-until", Fresh + Valid)
        /\ Lines(d)[5] = Line("dir-source") /\ Lines(d)[6] = Line("contact")
    BY <1>z DEF LinesAre
  <2> QED BY <2>1
<1> HIDE DEF l
<1> DEFINE c == Cns(IF i < 2 THEN NoTime ELSE 0, IF i < 3 THEN NoTime ELSE Fresh,
                    IF i < 4 THEN NoTime ELSE Fresh + Valid, <<>>, NoWeights)
<1>c. Header(i, er) = State(IF i < 5 THEN "HEADER" ELSE "DIRS", er, <<>>, c)
  BY DEF Header
<1> HIDE DEF c
<1> DEFINE p == State("HEADER", er, <<>>, c)
<1>h. i < 5 /\ StateFor("HEADER", l.kw) = "HEADER" => ParseLine(Header(i, er), l) = HeaderLine(p, l)
  <2>1. StateFor("HEADER", l.kw) = "HEADER" => Handled("HEADER", er, <<>>, c, l, "HEADER")
    BY LineIs, Zenon
  <2> QED BY <2>1, <1>c DEF Handled
<1>2. CASE i = 0
  <2>1. l.kw = "network-status-version"
    BY <1>1, <1>2 DEF Line
  <2>2. HeaderLine(p, l) = p
    BY <2>1 DEF HeaderLine
  <2>3. StateFor("HEADER", l.kw) = "HEADER"
    BY <2>1 DEF StateFor
  <2> QED BY <1>2, <1>c, <1>h, <2>2, <2>3 DEF Header, l, c
<1>3. CASE i = 1
  <2>1. l.kw = "valid-after" /\ l.cut = FALSE /\ l.time = 0
    BY <1>1, <1>3 DEF Date
  <2>2. HeaderLine(p, l) = [p EXCEPT !.cns.validAfter = 0]
    BY <2>1 DEF HeaderLine
  <2>3. StateFor("HEADER", l.kw) = "HEADER"
    BY <2>1 DEF StateFor
  <2>4. [p EXCEPT !.cns.validAfter = 0] = State("HEADER", er, <<>>, Cns(0, NoTime, NoTime, <<>>, NoWeights))
    <3>1. p = State("HEADER", er, <<>>, Cns(NoTime, NoTime, NoTime, <<>>, NoWeights))
      BY <1>3 DEF c
    <3> HIDE DEF p
    <3>2. Assigned(p, "HEADER", er, <<>>, NoTime, NoTime, NoTime, <<>>, NoWeights, 0)
      BY <3>1, AssignIs, Zenon
    <3> QED BY <3>2 DEF Assigned
  <2> QED BY <1>3, <1>h, <2>2, <2>3, <2>4 DEF Header, l
<1>4. CASE i = 2
  <2>1. l.kw = "fresh-until" /\ l.cut = FALSE /\ l.time = Fresh
    BY <1>1, <1>4 DEF Date
  <2>2. HeaderLine(p, l) = [p EXCEPT !.cns.freshUntil = Fresh]
    BY <2>1 DEF HeaderLine
  <2>3. StateFor("HEADER", l.kw) = "HEADER"
    BY <2>1 DEF StateFor
  <2>4. [p EXCEPT !.cns.freshUntil = Fresh] = State("HEADER", er, <<>>, Cns(0, Fresh, NoTime, <<>>, NoWeights))
    <3>1. p = State("HEADER", er, <<>>, Cns(0, NoTime, NoTime, <<>>, NoWeights))
      BY <1>4 DEF c
    <3> HIDE DEF p
    <3>2. Assigned(p, "HEADER", er, <<>>, 0, NoTime, NoTime, <<>>, NoWeights, Fresh)
      BY <3>1, AssignIs, Zenon
    <3> QED BY <3>2 DEF Assigned
  <2> QED BY <1>4, <1>h, <2>2, <2>3, <2>4 DEF Header, l
<1>5. CASE i = 3
  <2>1. l.kw = "valid-until" /\ l.cut = FALSE /\ l.time = Fresh + Valid
    BY <1>1, <1>5 DEF Date
  <2>2. HeaderLine(p, l) = [p EXCEPT !.cns.validUntil = Fresh + Valid]
    BY <2>1 DEF HeaderLine
  <2>3. StateFor("HEADER", l.kw) = "HEADER"
    BY <2>1 DEF StateFor
  <2>4. [p EXCEPT !.cns.validUntil = Fresh + Valid] = State("HEADER", er, <<>>, Cns(0, Fresh, Fresh + Valid, <<>>, NoWeights))
    <3>1. p = State("HEADER", er, <<>>, Cns(0, Fresh, NoTime, <<>>, NoWeights))
      BY <1>5 DEF c
    <3> HIDE DEF p
    <3>2. Assigned(p, "HEADER", er, <<>>, 0, Fresh, NoTime, <<>>, NoWeights, Fresh + Valid)
      BY <3>1, AssignIs, Zenon
    <3> QED BY <3>2 DEF Assigned
  <2> QED BY <1>5, <1>h, <2>2, <2>3, <2>4 DEF Header, l
<1>6. CASE i = 4
  <2>1. l.kw = "dir-source"
    BY <1>1, <1>6 DEF Line
  <2>2. StateFor("HEADER", l.kw) = "DIRS"
    BY <2>1 DEF StateFor
  <2>3. Handled("HEADER", er, <<>>, c, l, "DIRS")
    BY <2>2, LineIs, Zenon
  <2> QED BY <1>6, <1>c, <2>3 DEF Header, Handled, l, c
<1>7. CASE i = 5
  <2>1. l.kw = "contact"
    BY <1>1, <1>7 DEF Line
  <2>2. StateFor("DIRS", l.kw) = "DIRS"
    BY <2>1 DEF StateFor
  <2>3. Handled("DIRS", er, <<>>, c, l, "DIRS")
    BY <2>2, LineIs, Zenon
  <2> QED BY <1>7, <1>c, <2>3 DEF Header, Handled, l, c
<1> QED BY <1>2, <1>3, <1>4, <1>5, <1>6, <1>7

\* What a relay was given, and the lines for the fields S of entry e.
Given(o, S, e) == [f \in Optional |-> IF f \in S \cap DOMAIN e.given THEN e.given[f] ELSE o[f]]

\* What a relay has after line j of its entry.
After(h, e, j) ==
    << IF j = 4 THEN h[1] \cup e.flags ELSE h[1],
       IF j = 2 THEN Given(h[2], {"Ipv6Addr"}, e)
       ELSE IF j = 5 THEN Given(h[2], Protocols, e) ELSE h[2] >>

Paired(h) == h = <<h[1], h[2]>> /\ h[2] = [f \in Optional |-> h[2][f]]

IsAfter(g, h, e, j) ==
    /\ g[1] = IF j = 4 THEN h[1] \cup e.flags ELSE h[1]
    /\ g[2] = IF j = 2 THEN Given(h[2], {"Ipv6Addr"}, e)
              ELSE IF j = 5 THEN Given(h[2], Protocols, e) ELSE h[2]
    /\ Paired(g)

LEMMA AfterIs ==
  ASSUME NEW h, Paired(h), NEW e, NEW j
  PROVE  IsAfter(After(h, e, j), h, e, j)
<1> DEFINE a == IF j = 4 THEN h[1] \cup e.flags ELSE h[1]
           b == IF j = 2 THEN Given(h[2], {"Ipv6Addr"}, e)
                ELSE IF j = 5 THEN Given(h[2], Protocols, e) ELSE h[2]
           g == After(h, e, j)
<1>1. g = <<a, b>>
  BY DEF After
<1>2. b = [f \in Optional |-> b[f]]
  <2>1. \A S : Given(h[2], S, e) = [f \in Optional |-> Given(h[2], S, e)[f]]
    BY DEF Given
  <2> QED BY <2>1, Zenon DEF Paired
<1> HIDE DEF a, b, g
<1>3. g[1] = a /\ g[2] = b
  BY <1>1
<1>4. Paired(g)
  BY <1>1, <1>2, <1>3, Zenon DEF Paired
<1> QED BY <1>3, <1>4, Zenon DEF a, b, g, IsAfter

\* An "a" or "pr" line, or the "v" line in its place.
Optionally(l, kw, o, o2) ==
    \/ l.kw = "v" /\ o2 = o
    \/ l.kw = kw /\ l.cut = FALSE /\ Overwritten(o, l.given) = o2

LEMMA OptionalRead ==
  ASSUME NEW e, NEW S, NEW h, Paired(h), NEW o, o = h[2], NEW kw, NEW l, l = OptionalLine(kw, S, e),
         NEW o2, o2 = Given(o, S, e)
  PROVE  Optionally(l, kw, o, o2)
<1>0. o = [f \in Optional |-> o[f]]
  BY DEF Paired
<1> DEFINE named == S \cap DOMAIN e.given
           g == Restrict(e.given, named)
<1>1. CASE named = {}
  <2>1. l.kw = "v"
    BY <1>1 DEF OptionalLine, Line
  <2>2. Given(o, S, e) = [f \in Optional |-> o[f]]
    BY <1>1 DEF Given
  <2> QED BY <1>0, <2>1, <2>2 DEF Optionally
<1>2. CASE named # {}
  <2>0. PICK no : no = FALSE
    OBVIOUS
  <2>1. l = [kw |-> kw, cut |-> no, given |-> g]
    BY <1>2, <2>0, Zenon DEF OptionalLine
  <2>2. DOMAIN g = named /\ \A f \in named : g[f] = e.given[f]
    BY DEF Restrict
  <2> HIDE DEF g
  <2>3. l.kw = kw /\ l.cut = FALSE /\ l.given = g
    <3>1. l.kw = kw /\ l.cut = no /\ l.given = g
      BY <2>1
    <3> QED BY <2>0, <3>1, Zenon
  <2>4. Overwritten(o, g) = Given(o, S, e)
    BY <2>2 DEF Overwritten, Given
  <2> QED BY <2>3, <2>4 DEF Optionally
<1> QED BY <1>1, <1>2

\* Lines 2 to 6 of an entry.
EntryGoesOn(p, e, j, er, c, h, bw, dg) ==
    p = State("ROUTERS", er, <<Unkeyed(e, h, bw, dg)>>, c)
      => ParseLine(p, EntryLines(e)[j]) =
           State("ROUTERS", er, <<Unkeyed(e, After(h, e, j),
                                          IF j = 6 THEN e.bw ELSE bw, IF j = 3 THEN e.digest ELSE dg)>>, c)

\* After its "r" line, a relay's entry fills the one RouterStatus field by field.
LEMMA EntryRead ==
  ASSUME NEW c, NEW e, NEW h, Paired(h), NEW bw, NEW dg, NEW j \in 2 .. 6, NEW er, er = FALSE, NEW p
  PROVE  EntryGoesOn(p, e, j, er, c, h, bw, dg)
<1> DEFINE g == After(h, e, j)
<1> SUFFICES ASSUME p = State("ROUTERS", er, <<Unkeyed(e, h, bw, dg)>>, c)
             PROVE  ParseLine(State("ROUTERS", er, <<Unkeyed(e, h, bw, dg)>>, c), EntryLines(e)[j]) =
                      State("ROUTERS", er, <<Unkeyed(e, g, IF j = 6 THEN e.bw ELSE bw,
                                                     IF j = 3 THEN e.digest ELSE dg)>>, c)
  BY DEF EntryGoesOn
<1> DEFINE l == EntryLines(e)[j]
           t == Unkeyed(e, h, bw, dg)
           q == State("ROUTERS", er, <<t>>, c)
<1>1. /\ j = 2 => l = OptionalLine("a", {"Ipv6Addr"}, e)
      /\ j = 3 => l.kw = "m" /\ l.digest = e.digest
      /\ j = 4 => l.kw = "s" /\ l.flags = e.flags
      /\ j = 5 => l = OptionalLine("pr", Protocols, e)
      /\ j = 6 => l.kw = "w" /\ l.bw = e.bw
  BY DEF EntryLines
<1>a. /\ g[1] = IF j = 4 THEN h[1] \cup e.flags ELSE h[1]
      /\ g[2] = IF j = 2 THEN Given(h[2], {"Ipv6Addr"}, e)
                ELSE IF j = 5 THEN Given(h[2], Protocols, e) ELSE h[2]
  <2>1. IsAfter(g, h, e, j)
    BY AfterIs, Zenon
  <2> QED BY <2>1, Zenon DEF IsAfter
<1> HIDE DEF l, t, g
<1>b. j = 2 => Optionally(l, "a", h[2], g[2])
  <2>1. j = 2 => l = OptionalLine("a", {"Ipv6Addr"}, e) /\ g[2] = Given(h[2], {"Ipv6Addr"}, e)
    BY <1>1, <1>a
  <2> QED BY <2>1, OptionalRead, Zenon
<1>c. j = 5 => Optionally(l, "pr", h[2], g[2])
  <2>1. j = 5 => l = OptionalLine("pr", Protocols, e) /\ g[2] = Given(h[2], Protocols, e)
    BY <1>1, <1>a
  <2> QED BY <2>1, OptionalRead, Zenon
<1>d. l.kw \in {"a", "v", "m", "s", "pr", "w"}
  BY <1>1, <1>b, <1>c DEF Optionally
<1>e. /\ j \notin {2, 5} => g[2] = h[2]
      /\ j # 4 => g[1] = h[1]
      /\ j = 4 => g[1] = h[1] \cup e.flags
  BY <1>a
<1>2. ParseLine(q, l) = RouterLine(q, l)
  <2>1. StateFor("ROUTERS", l.kw) = "ROUTERS"
    BY <1>d DEF StateFor, RouterKeywords
  <2>2. Handled("ROUTERS", er, <<t>>, c, l, "ROUTERS")
    BY <2>1, LineIs, Zenon
  <2> QED BY <2>2 DEF Handled
<1> HIDE DEF q
<1>3. q.tmp[1] = t /\ \A u : [q EXCEPT !.tmp[1] = u] = State("ROUTERS", er, <<u>>, c)
  <2>1. TmpAssigned(q, "ROUTERS", er, t, c)
    BY TmpIs, Zenon DEF q
  <2> QED BY <2>1 DEF TmpAssigned
<1>8. Fields(t, e.id, IPLevel(e.ip), h[1], h[2], bw, dg, {}, "", "", {})
  BY RelayIs, Zenon DEF t, Unkeyed
<1>4. CASE j = 3
  <2>1. RouterLine(q, l) = [q EXCEPT !.tmp[1].digest = e.digest]
    BY <1>1, <1>4 DEF RouterLine
  <2>2. RouterLine(q, l) = State("ROUTERS", er, <<[t EXCEPT !.digest = e.digest]>>, c)
    BY <2>1, <1>3
  <2>3. [t EXCEPT !.digest = e.digest] = Unkeyed(e, g, bw, e.digest)
    <3>1. g[1] = h[1] /\ g[2] = h[2]
      BY <1>e, <1>4
    <3> QED BY <3>1, <1>8, Zenon DEF Fields, Unkeyed
  <2> QED BY <1>2, <1>4, <2>2, <2>3 DEF q, l, t
<1>5. CASE j = 4
  <2>1. RouterLine(q, l) = [q EXCEPT !.tmp[1].flags = @ \cup e.flags]
    BY <1>1, <1>5 DEF RouterLine
  <2>2. RouterLine(q, l) = State("ROUTERS", er, <<[t EXCEPT !.flags = @ \cup e.flags]>>, c)
    BY <2>1, <1>3
  <2>3. t.flags = h[1] /\ [t EXCEPT !.flags = h[1] \cup e.flags] = Unkeyed(e, g, bw, dg)
    <3>1. g[1] = h[1] \cup e.flags /\ g[2] = h[2]
      BY <1>e, <1>5
    <3> QED BY <3>1, <1>8, Zenon DEF Fields, Unkeyed
  <2> QED BY <1>2, <1>5, <2>2, <2>3 DEF q, l, t
<1>6. CASE j \in {2, 5}
  <2>1. g[1] = h[1]
    BY <1>a, <1>6
  <2>2. CASE l.kw = "v" /\ g[2] = h[2]
    <3>1. RouterLine(q, l) = q
      BY <2>2 DEF RouterLine
    <3>2. t = Unkeyed(e, g, bw, dg)
      BY <2>1, <2>2 DEF t, Unkeyed
    <3> QED BY <1>2, <1>6, <3>1, <3>2 DEF q, l, t
  <2>3. CASE l.kw \in {"a", "pr"} /\ l.cut = FALSE /\ Overwritten(h[2], l.given) = g[2]
    <3>1. RouterLine(q, l) = [q EXCEPT !.tmp[1].given = Overwritten(@, l.given)]
      BY <2>3 DEF RouterLine
    <3>2. RouterLine(q, l) = State("ROUTERS", er, <<[t EXCEPT !.given = Overwritten(@, l.given)]>>, c)
      BY <3>1, <1>3
    <3>3. t.given = h[2] /\ [t EXCEPT !.given = g[2]] = Unkeyed(e, g, bw, dg)
      BY <2>1, <1>8 DEF Fields, Unkeyed
    <3> QED BY <1>2, <1>6, <2>3, <3>2, <3>3 DEF q, l, t
  <2> QED BY <1>6, <1>b, <1>c, <2>2, <2>3 DEF Optionally
<1>7. CASE j = 6
  <2>1. RouterLine(q, l) = [q EXCEPT !.tmp[1].bw = e.bw]
    BY <1>1, <1>7 DEF RouterLine
  <2>2. RouterLine(q, l) = State("ROUTERS", er, <<[t EXCEPT !.bw = e.bw]>>, c)
    BY <2>1, <1>3
  <2>3. [t EXCEPT !.bw = e.bw] = Unkeyed(e, g, e.bw, dg)
    <3>1. g[1] = h[1] /\ g[2] = h[2]
      BY <1>e, <1>7
    <3> QED BY <3>1, <1>8, Zenon DEF Fields, Unkeyed
  <2> QED BY <1>2, <1>7, <2>2, <2>3 DEF q, l, t
<1> QED BY <1>4, <1>5, <1>6, <1>7

\* A field once more given or not: entry m is read.
LEMMA GivenOnce ==
  ASSUME NEW es, NEW m \in Nat \ {0}, NEW v, NEW f, GivenLast(v, f, es, m - 1), NEW w,
         w = IF f \in DOMAIN es[m].given THEN es[m].given[f] ELSE v
  PROVE  GivenLast(w, f, es, m)
<1>1. CASE f \in DOMAIN es[m].given
  <2>1. w = es[m].given[f] /\ m \in 1 .. m /\ \A k \in m + 1 .. m : f \notin DOMAIN es[k].given
    BY <1>1
  <2> QED BY <1>1, <2>1, Zenon DEF GivenLast
<1>2. CASE f \notin DOMAIN es[m].given
  <2>1. w = v
    BY <1>2
  <2>2. \A j \in 1 .. m : j \in 1 .. m - 1 \/ j = m
    OBVIOUS
  <2>3. CASE v = Unset /\ \A j \in 1 .. m - 1 : f \notin DOMAIN es[j].given
    <3>1. \A j \in 1 .. m : f \notin DOMAIN es[j].given
      BY <1>2, <2>2, <2>3
    <3> QED BY <2>1, <2>3, <3>1 DEF GivenLast
  <2>4. CASE \E j \in 1 .. m - 1 : /\ f \in DOMAIN es[j].given /\ v = es[j].given[f]
                                   /\ \A k \in j + 1 .. m - 1 : f \notin DOMAIN es[k].given
    <3>1. PICK j \in 1 .. m - 1 : /\ f \in DOMAIN es[j].given /\ v = es[j].given[f]
                                  /\ \A k \in j + 1 .. m - 1 : f \notin DOMAIN es[k].given
      BY <2>4
    <3>2. j \in 1 .. m /\ \A k \in j + 1 .. m : k \in j + 1 .. m - 1 \/ k = m
      OBVIOUS
    <3>3. \A k \in j + 1 .. m : f \notin DOMAIN es[k].given
      BY <1>2, <3>1, <3>2
    <3> QED BY <2>1, <3>1, <3>2, <3>3, Zenon DEF GivenLast
  <2> QED BY <2>3, <2>4 DEF GivenLast
<1> QED BY <1>1, <1>2

\* What was given last by entries up to m is what m gives or was given before.
LEMMA GivenAgain ==
  ASSUME NEW es, NEW m \in Nat \ {0}, NEW v, NEW f, GivenLast(v, f, es, m), f \in DOMAIN es[m].given
  PROVE  v = es[m].given[f]
<1>1. m \in 1 .. m /\ \A j \in 1 .. m : j = m \/ m \in j + 1 .. m
  OBVIOUS
<1> QED BY <1>1 DEF GivenLast

\* The flags of one relay more.
LEMMA FlagsMore ==
  ASSUME NEW es, NEW m \in Nat \ {0}, NEW G, G = UNION {es[x].flags : x \in 1 .. m - 1}
  PROVE  G \cup es[m].flags = UNION {es[x].flags : x \in 1 .. m}
<1>1. \A y : y \in G <=> \E x \in 1 .. m - 1 : y \in es[x].flags
  OBVIOUS
<1>2. \A x : x \in 1 .. m <=> (x \in 1 .. m - 1 \/ x = m)
  OBVIOUS
<1>3. \A y : (y \in G \/ y \in es[m].flags) <=> \E x \in 1 .. m : y \in es[x].flags
  BY <1>1, <1>2, Zenon
<1> QED BY <1>3

\* One line of an entry more.
LEMMA LineInherits ==
  ASSUME NEW h, NEW es, NEW m \in Nat \ {0}, NEW j \in 2 .. 6, Inherits(h, es, m, j - 1)
  PROVE  Inherits(After(h, es[m], j), es, m, j)
<1> DEFINE e == es[m]
           g == After(h, e, j)
<1>1. Paired(h)
  BY DEF Inherits, Paired
<1>2. /\ g[1] = IF j = 4 THEN h[1] \cup e.flags ELSE h[1]
      /\ g[2] = IF j = 2 THEN Given(h[2], {"Ipv6Addr"}, e)
                ELSE IF j = 5 THEN Given(h[2], Protocols, e) ELSE h[2]
      /\ Paired(g)
  <2>1. IsAfter(g, h, e, j)
    BY <1>1, AfterIs, Zenon
  <2> QED BY <2>1, Zenon DEF IsAfter
<1> HIDE DEF g
<1>3. g[1] = UNION {es[x].flags : x \in 1 .. (IF j >= 4 THEN m ELSE m - 1)}
  <2>1. h[1] = UNION {es[x].flags : x \in 1 .. (IF j - 1 >= 4 THEN m ELSE m - 1)}
    BY DEF Inherits
  <2>2. CASE j = 4
    <3>1. h[1] = UNION {es[x].flags : x \in 1 .. m - 1}
      BY <2>1, <2>2
    <3>2. g[1] = UNION {es[x].flags : x \in 1 .. m}
      <4>1. g[1] = h[1] \cup es[m].flags
        BY <1>2, <2>2
      <4> QED BY <3>1, <4>1, FlagsMore, Zenon
    <3> QED BY <2>2, <3>2
  <2>3. CASE j # 4
    <3>1. (j >= 4) <=> (j - 1 >= 4)
      BY <2>3
    <3> QED BY <1>2, <2>1, <2>3, <3>1
  <2> QED BY <2>2, <2>3
<1>4. ASSUME NEW f \in Optional
      PROVE  GivenLast(g[2][f], f, es, IF f \in GivenBy(j) THEN m ELSE m - 1)
  <2> DEFINE v == h[2][f]
             w == g[2][f]
             S == IF j = 2 THEN {"Ipv6Addr"} ELSE IF j = 5 THEN Protocols ELSE {}
  <2>1. GivenLast(v, f, es, IF f \in GivenBy(j - 1) THEN m ELSE m - 1)
    BY DEF Inherits
  <2>2. w = IF f \in S \cap DOMAIN e.given THEN e.given[f] ELSE v
    BY <1>2 DEF Given
  <2>3. f \in GivenBy(j) <=> (f \in GivenBy(j - 1) \/ f \in S)
    BY DEF GivenBy, Optional
  <2> HIDE DEF v, w, S
  <2>4. CASE f \in GivenBy(j - 1)
    <3>1. GivenLast(v, f, es, m)
      BY <2>1, <2>4
    <3>2. w = v
      <4>1. f \in DOMAIN e.given => v = e.given[f]
        BY <3>1, GivenAgain, Zenon
      <4> QED BY <2>2, <4>1
    <3> QED BY <2>3, <2>4, <3>1, <3>2 DEF w
  <2>5. CASE f \notin GivenBy(j - 1) /\ f \in S
    <3>1. GivenLast(v, f, es, m - 1) /\ w = IF f \in DOMAIN e.given THEN e.given[f] ELSE v
      BY <2>1, <2>2, <2>5
    <3>2. GivenLast(w, f, es, m)
      BY <3>1, GivenOnce, Zenon
    <3> QED BY <2>3, <2>5, <3>2 DEF w
  <2>6. CASE f \notin GivenBy(j - 1) /\ f \notin S
    <3>1. GivenLast(v, f, es, m - 1) /\ w = v
      BY <2>1, <2>2, <2>6
    <3> QED BY <2>3, <2>6, <3>1 DEF w
  <2> QED BY <2>4, <2>5, <2>6
<1> QED BY <1>2, <1>3, <1>4, Zenon DEF Inherits, Paired, g

\* The next relay begins with what this one ends with.
LEMMA NextInherits ==
  ASSUME NEW h, NEW es, NEW m \in Nat \ {0}, Inherits(h, es, m, 6)
  PROVE  Inherits(h, es, m + 1, 1)
<1>1. (m + 1) - 1 = m /\ ~ (1 >= 4) /\ 6 >= 4 /\ GivenBy(6) = Optional /\ GivenBy(1) = {}
  BY DEF GivenBy
<1> QED BY <1>1 DEF Inherits

\* The first relay begins with nothing.
Blank == << {}, [f \in Optional |-> Unset] >>

LEMMA FirstInherits ==
  ASSUME NEW es
  PROVE  Inherits(Blank, es, 1, 1)
<1> DEFINE o == [f \in Optional |-> Unset]
           h == Blank
<1>1. h = <<{}, o>> /\ o = [f \in Optional |-> o[f]] /\ \A f \in Optional : o[f] = Unset
  BY DEF Blank
<1> HIDE DEF o, h
<1>2. h[1] = {} /\ h[2] = o
  BY <1>1
<1>3. 1 - 1 = 0 /\ ~ (1 >= 4) /\ 1 .. 0 = {} /\ GivenBy(1) = {}
  BY DEF GivenBy
<1>4. h[1] = UNION {es[x].flags : x \in 1 .. (IF 1 >= 4 THEN 1 ELSE 1 - 1)}
  BY <1>2, <1>3
<1>5. \A f \in Optional : GivenLast(h[2][f], f, es, IF f \in GivenBy(1) THEN 1 ELSE 1 - 1)
  BY <1>1, <1>2, <1>3 DEF GivenLast
<1> QED BY <1>1, <1>2, <1>4, <1>5, Zenon DEF Inherits, h

\* One more relay is listed.
LEMMA ListedMore ==
  ASSUME NEW rs, NEW es, NEW k \in Nat, Listed(rs, es, k), NEW f, Inherits(f, es, k + 1, 6)
  PROVE  Listed(rs \o <<Unkeyed(es[k + 1], f, es[k + 1].bw, es[k + 1].digest)>>, es, k + 1)
<1> DEFINE R(x, g) == Unkeyed(es[x], g, es[x].bw, es[x].digest)
           t == R(k + 1, f)
<1>1. PICK h : /\ rs = [x \in 1 .. k |-> R(x, h[x])]
                /\ \A x \in 1 .. k : Inherits(h[x], es, x, 6)
  BY DEF Listed
<1> DEFINE g == [x \in 1 .. k + 1 |-> IF x <= k THEN h[x] ELSE f]
           S == {R(x, h[x]) : x \in 1 .. k} \cup {t}
<1> HIDE DEF R
<1>2. rs \in Seq(S) /\ Len(rs) = k
  BY <1>1
<1>3. <<t>> \in Seq(S) /\ Len(<<t>>) = 1 /\ <<t>>[1] = t
  <2>1. t \in S
    OBVIOUS
  <2> HIDE DEF t, S
  <2> QED BY <2>1
<1>4. Concats(rs \o <<t>>, rs, <<t>>, k, 1, S)
  <2> HIDE DEF t, S
  <2> QED BY <1>2, <1>3, ConcatIs, Zenon
<1>5. rs \o <<t>> = [x \in 1 .. k + 1 |-> R(x, g[x])]
  <2> DEFINE u == rs \o <<t>>
  <2>1. u \in Seq(S) /\ Len(u) = k + 1
    BY <1>4 DEF Concats
  <2>2. u = [x \in 1 .. k + 1 |-> u[x]]
    BY <2>1
  <2>3. ASSUME NEW x \in 1 .. k + 1 PROVE u[x] = R(x, g[x])
    <3>1. CASE x <= k
      <4>1. u[x] = rs[x]
        BY <1>4, <3>1 DEF Concats
      <4> HIDE DEF u
      <4> QED BY <1>1, <3>1, <4>1
    <3>2. CASE x = k + 1
      <4>1. u[x] = <<t>>[1]
        BY <1>4, <3>2 DEF Concats
      <4>2. g[x] = f
        BY <3>2
      <4> HIDE DEF u, g
      <4> QED BY <1>3, <3>2, <4>1, <4>2
    <3>3. x <= k \/ x = k + 1
      OBVIOUS
    <3> HIDE DEF u, g
    <3> QED BY <3>1, <3>2, <3>3
  <2> HIDE DEF u, g
  <2>4. u = [x \in 1 .. k + 1 |-> R(x, g[x])]
    BY <2>2, <2>3
  <2> QED BY <2>4 DEF u
<1>6. \A x \in 1 .. k + 1 : Inherits(g[x], es, x, 6)
  <2>1. \A x \in 1 .. k + 1 : g[x] = IF x <= k THEN h[x] ELSE f
    OBVIOUS
  <2> HIDE DEF g
  <2>2. ASSUME NEW x \in 1 .. k + 1 PROVE Inherits(g[x], es, x, 6)
    <3>1. CASE x <= k
      BY <1>1, <2>1, <3>1
    <3>2. CASE x = k + 1
      BY <2>1, <3>2
    <3> QED BY <3>1, <3>2
  <2> QED BY <2>2
<1> HIDE DEF g, S, t
<1>7. Listed(rs \o <<t>>, es, k + 1)
  BY <1>5, <1>6 DEF Listed, R
<1> QED BY <1>7 DEF t, R

LEMMA ListedNone ==
  ASSUME NEW es
  PROVE  Listed(<<>>, es, 0)
<1> DEFINE h == <<>>
<1>1. <<>> = [x \in 1 .. 0 |-> Unkeyed(es[x], h[x], es[x].bw, es[x].digest)]
  OBVIOUS
<1>2. \A x \in 1 .. 0 : Inherits(h[x], es, x, 6)
  OBVIOUS
<1> HIDE DEF h
<1> QED BY <1>1, <1>2 DEF Listed

\* An "r" line.
RouterAssigned(p, st, er, tmp, va, fu, vu, rs, w) ==
    /\ p.tmp = tmp
    /\ \A x : [p EXCEPT !.cns.relays = @ \o p.tmp, !.tmp = <<x>>] = State(st, er, <<x>>, Cns(va, fu, vu, rs \o tmp, w))

LEMMA RouterAssignIs ==
  ASSUME NEW st, NEW er, NEW tmp, NEW va, NEW fu, NEW vu, NEW rs, NEW w,
         NEW p, p = State(st, er, tmp, Cns(va, fu, vu, rs, w))
  PROVE  RouterAssigned(p, st, er, tmp, va, fu, vu, rs, w)
<1> DEFINE z == rs \o tmp
<1>1. p.tmp = tmp /\ p.cns.relays = rs
  BY DEF State, Cns
<1>2. \A x : [p EXCEPT !.cns.relays = z, !.tmp = <<x>>] = State(st, er, <<x>>, Cns(va, fu, vu, z, w))
  <2> HIDE DEF z
  <2>1. [p EXCEPT !.cns.relays = z] = State(st, er, tmp, Cns(va, fu, vu, z, w))
    BY DEF State, Cns
  <2>2. \A x, c : [State(st, er, tmp, c) EXCEPT !.tmp = x] = State(st, er, x, c)
    BY DEF State
  <2>3. ASSUME NEW x
        PROVE  [p EXCEPT !.cns.relays = z, !.tmp = <<x>>] = State(st, er, <<x>>, Cns(va, fu, vu, z, w))
    <3> DEFINE q == [p EXCEPT !.cns.relays = z]
    <3>1. [p EXCEPT !.cns.relays = z, !.tmp = <<x>>] = [q EXCEPT !.tmp = <<x>>]
      OBVIOUS
    <3>2. q = State(st, er, tmp, Cns(va, fu, vu, z, w))
      BY <2>1
    <3> HIDE DEF q
    <3>3. [q EXCEPT !.tmp = <<x>>] = State(st, er, <<x>>, Cns(va, fu, vu, z, w))
      BY <2>2, <3>2
    <3> QED BY <3>1, <3>3
  <2> QED BY <2>3
<1>3. p.cns.relays \o p.tmp = z
  BY <1>1
<1> HIDE DEF z
<1>4. \A x : [p EXCEPT !.cns.relays = @ \o p.tmp, !.tmp = <<x>>] = [p EXCEPT !.cns.relays = z, !.tmp = <<x>>]
  BY <1>3
<1> QED BY <1>1, <1>2, <1>4 DEF z, RouterAssigned

RouterGoesOn(p0, st, er, tmp, va, fu, vu, rs, w, e, h, bw, dg) ==
    p0 = State(st, er, tmp, Cns(va, fu, vu, rs, w))
      => ParseLine(p0, EntryLines(e)[1]) =
           State("ROUTERS", er, <<Unkeyed(e, h, bw, dg)>>, Cns(va, fu, vu, rs \o tmp, w))

\* An "r" line appends the relay before it and starts the next in the same
\* RouterStatus.
LEMMA RouterRead ==
  ASSUME NEW p0, NEW er, er = FALSE, NEW st \in {"DIRS", "ROUTERS"}, NEW tmp, NEW va, NEW fu, NEW vu, NEW rs, NEW w,
         NEW e, NEW h, NEW bw, NEW dg,
         \/ tmp = <<>> /\ h = Blank /\ bw = 0 /\ dg = ""
         \/ \E b : tmp = <<Unkeyed(b, h, bw, dg)>>
  PROVE  RouterGoesOn(p0, st, er, tmp, va, fu, vu, rs, w, e, h, bw, dg)
<1> SUFFICES ASSUME p0 = State(st, er, tmp, Cns(va, fu, vu, rs, w))
             PROVE  ParseLine(State(st, er, tmp, Cns(va, fu, vu, rs, w)), EntryLines(e)[1]) =
                      State("ROUTERS", er, <<Unkeyed(e, h, bw, dg)>>, Cns(va, fu, vu, rs \o tmp, w))
  BY DEF RouterGoesOn
<1> DEFINE l == EntryLines(e)[1]
           c == Cns(va, fu, vu, rs, w)
           p == State("ROUTERS", er, tmp, c)
           r == IF tmp = <<>> THEN NoRelay ELSE tmp[1]
           r1 == [r EXCEPT !.id = e.id]
           r2 == [r1 EXCEPT !.ipLevel = IPLevel(e.ip)]
<1>1. l.kw = "r" /\ l.cut = FALSE /\ l.id = e.id /\ l.ip = e.ip
  BY DEF EntryLines
<1>2. RouterAssigned(p, "ROUTERS", er, tmp, va, fu, vu, rs, w)
  <2> HIDE DEF p
  <2> QED BY RouterAssignIs, Zenon DEF p
<1>3. Handled(st, er, tmp, c, l, "ROUTERS")
  <2>1. StateFor(st, l.kw) = "ROUTERS"
    BY <1>1 DEF StateFor, RouterKeywords
  <2> HIDE DEF l, c
  <2> QED BY <2>1, LineIs, Zenon
<1> HIDE DEF l, c, p, r
<1>4. ParseLine(State(st, er, tmp, c), l) = Router(p, l)
  BY <1>1, <1>3 DEF Handled, RouterLine, p
<1>5. r2 = Unkeyed(e, h, bw, dg)
  <2>1. \E id, lvl : r = RouterStatusOf(id, lvl, h[1], h[2], bw, dg, {}, "", "", {})
    <3>1. CASE tmp = <<>> /\ h = Blank /\ bw = 0 /\ dg = ""
      <4>1. r = NoRelay
        BY <3>1 DEF r
      <4>2. NoRelay = RouterStatusOf("", <<0, 0>>, h[1], h[2], bw, dg, {}, "", "", {})
        <5>1. h[1] = {} /\ h[2] = [f \in Optional |-> Unset]
          BY <3>1 DEF Blank
        <5> QED BY <3>1, <5>1, Zenon DEF NoRelay, RouterStatusOf
      <4> QED BY <4>1, <4>2
    <3>2. CASE \E b : tmp = <<Unkeyed(b, h, bw, dg)>>
      <4>1. PICK b : tmp = <<Unkeyed(b, h, bw, dg)>>
        BY <3>2
      <4>2. r = Unkeyed(b, h, bw, dg)
        BY <4>1 DEF r
      <4> QED BY <4>2 DEF Unkeyed
    <3> QED BY <3>1, <3>2
  <2>2. PICK id, lvl : r = RouterStatusOf(id, lvl, h[1], h[2], bw, dg, {}, "", "", {})
    BY <2>1
  <2>3. Fields(r, id, lvl, h[1], h[2], bw, dg, {}, "", "", {})
    BY <2>2, RelayIs, Zenon
  <2>4. r1 = RouterStatusOf(e.id, lvl, h[1], h[2], bw, dg, {}, "", "", {})
    BY <2>3 DEF Fields
  <2> HIDE DEF r1
  <2>5. Fields(r1, e.id, lvl, h[1], h[2], bw, dg, {}, "", "", {})
    BY <2>4, RelayIs, Zenon
  <2> QED BY <2>5 DEF Fields, Unkeyed
<1>6. Router(p, l) = [p EXCEPT !.cns.relays = @ \o p.tmp, !.tmp = <<r2>>]
  BY <1>1, <1>2 DEF Router, r, RouterAssigned
<1> HIDE DEF r1, r2
<1> QED BY <1>2, <1>4, <1>5, <1>6 DEF RouterAssigned, l, c

\* The last two lines.
LEMMA FooterRead ==
  ASSUME NEW d, NEW n \in Nat, DOMAIN d.entries = 1 .. n, NEW er, er = FALSE, NEW p,
         NEW i \in {6 * n + 6, 6 * n + 7}, Reads(p, er, d, n, i)
  PROVE  Reads(ParseLine(p, Lines(d)[i + 1]), er, d, n, i + 1)
<1>z. LinesAre(d, n)
  BY LinesLayout, Zenon
<1> DEFINE l == Lines(d)[i + 1]
<1>1. CASE i = 6 * n + 6
  <2>1. l.kw = "directory-footer"
    <3>1. Lines(d)[6 * n + 7] = Line("directory-footer")
      BY <1>z DEF LinesAre
    <3>2. i + 1 = 6 * n + 7
      BY <1>1
    <3> QED BY <3>1, <3>2 DEF Line
  <2> HIDE DEF l
  <2>2. CASE n = 0
    <3> DEFINE c == Cns(0, Fresh, Fresh + Valid, <<>>, NoWeights)
    <3>1. p = State("DIRS", er, <<>>, c)
      BY <1>1, <2>2 DEF Reads, Header
    <3>2. StateFor("DIRS", l.kw) = "DIRS"
      BY <2>1 DEF StateFor
    <3> HIDE DEF c
    <3>3. Handled("DIRS", er, <<>>, c, l, "DIRS")
      BY <3>2, LineIs, Zenon
    <3>4. ParseLine(p, l) = State("DIRS", er, <<>>, c)
      BY <3>1, <3>3 DEF Handled
    <3>5. \E k \in 0 .. n : Listed(<<>>, d.entries, k)
      BY ListedNone
    <3>6. Footer(ParseLine(p, l), er, d, n)
      BY <3>4, <3>5 DEF Footer, c
    <3> QED BY <1>1, <3>6 DEF Reads, l
  <2>3. CASE n # 0
    <3>1. Entry(p, er, d.entries, n, 6)
      <4>1. i \notin 0 .. 6 /\ i \notin {6 * n + 7, 6 * n + 8}
        BY <1>1, <2>3
      <4>2. PICK m \in 1 .. n, j \in 1 .. 6 : i = 6 * m + j /\ Entry(p, er, d.entries, m, j)
        BY <4>1 DEF Reads
      <4>3. m = n /\ j = 6
        BY <1>1, <4>2
      <4> QED BY <4>2, <4>3
    <3>2. PICK rs, h, bw, dg :
            /\ Listed(rs, d.entries, n - 1)
            /\ p = State("ROUTERS", er, <<Unkeyed(d.entries[n], h, bw, dg)>>, Cns(0, Fresh, Fresh + Valid, rs, NoWeights))
      BY <3>1 DEF Entry
    <3> DEFINE t == <<Unkeyed(d.entries[n], h, bw, dg)>>
               c == Cns(0, Fresh, Fresh + Valid, rs, NoWeights)
    <3>3. StateFor("ROUTERS", l.kw) = "FOOTER"
      BY <2>1 DEF StateFor, RouterKeywords
    <3> HIDE DEF c, t
    <3>4. Handled("ROUTERS", er, t, c, l, "FOOTER")
      BY <3>3, LineIs, Zenon
    <3>5. ParseLine(p, l) = State("FOOTER", er, t, c)
      BY <2>1, <3>2, <3>4 DEF Handled, FooterLine, c, t
    <3>6. \E k \in 0 .. n : Listed(rs, d.entries, k)
      <4>1. n - 1 \in 0 .. n
        BY <2>3
      <4> QED BY <3>2, <4>1
    <3>7. Footer(ParseLine(p, l), er, d, n)
      BY <3>5, <3>6 DEF Footer, c
    <3> QED BY <1>1, <3>7 DEF Reads, l
  <2> QED BY <2>2, <2>3
<1>2. CASE i = 6 * n + 7
  <2>1. l.kw = "bandwidth-weights" /\ l.weights = d.weights
    <3>1. Lines(d)[6 * n + 8] = [kw |-> "bandwidth-weights", cut |-> FALSE, weights |-> d.weights]
      BY <1>z DEF LinesAre
    <3>2. i + 1 = 6 * n + 8
      BY <1>2
    <3> QED BY <3>1, <3>2
  <2> HIDE DEF l
  <2>2. Footer(p, er, d, n)
    <3>1. i \notin 0 .. 6 /\ \A m \in 1 .. n, j \in 1 .. 6 : i # 6 * m + j
      BY <1>2
    <3> QED BY <3>1 DEF Reads
  <2>3. PICK st, tmp, rs, w :
          /\ st \in {"DIRS", "FOOTER"}
          /\ w \in {NoWeights, d.weights}
          /\ \E k \in 0 .. n : Listed(rs, d.entries, k)
          /\ p = State(st, er, tmp, Cns(0, Fresh, Fresh + Valid, rs, w))
    BY <2>2 DEF Footer
  <2> DEFINE c == Cns(0, Fresh, Fresh + Valid, rs, w)
             q == State("FOOTER", er, tmp, c)
  <2>4. Handled(st, er, tmp, c, l, st)
    <3>1. StateFor(st, l.kw) = st
      BY <2>1, <2>3 DEF StateFor
    <3> HIDE DEF c
    <3> QED BY <3>1, LineIs, Zenon
  <2>5. Assigned(q, "FOOTER", er, tmp, 0, Fresh, Fresh + Valid, rs, w, d.weights)
    <3> HIDE DEF q
    <3> QED BY AssignIs, Zenon DEF q, c
  <2> HIDE DEF c, q
  <2>6. \E w2 \in {NoWeights, d.weights} : ParseLine(p, l) = State(st, er, tmp, Cns(0, Fresh, Fresh + Valid, rs, w2))
    <3>1. CASE st = "DIRS"
      <4>1. ParseLine(p, l) = p
        BY <2>3, <2>4, <3>1 DEF Handled, c
      <4> QED BY <2>3, <4>1
    <3>2. CASE st = "FOOTER"
      <4>1. ParseLine(p, l) = FooterLine(q, l)
        BY <2>3, <2>4, <3>2 DEF Handled, c, q
      <4>2. FooterLine(q, l) = [q EXCEPT !.cns.weights = d.weights]
        BY <2>1 DEF FooterLine
      <4>3. [q EXCEPT !.cns.weights = d.weights] = State(st, er, tmp, Cns(0, Fresh, Fresh + Valid, rs, d.weights))
        BY <2>5, <3>2 DEF Assigned
      <4> QED BY <4>1, <4>2, <4>3
    <3> QED BY <2>3, <3>1, <3>2
  <2>7. Footer(ParseLine(p, l), er, d, n)
    BY <2>3, <2>6 DEF Footer
  <2> QED BY <1>2, <2>7 DEF Reads, l
<1> QED BY <1>1, <1>2

\* The lines of the relays.
LEMMA RelaysRead ==
  ASSUME NEW d, NEW n \in Nat, DOMAIN d.entries = 1 .. n, NEW er, er = FALSE, NEW p,
         NEW i \in 6 .. 6 * n + 5, Reads(p, er, d, n, i)
  PROVE  Reads(ParseLine(p, Lines(d)[i + 1]), er, d, n, i + 1)
<1>z. LinesAre(d, n)
  BY LinesLayout, Zenon
<1> DEFINE l == Lines(d)[i + 1]
           es == d.entries
<1>a. \A m \in 1 .. n, j \in 1 .. 6 : Lines(d)[6 * m + j] = EntryLines(es[m])[j]
  BY <1>z DEF LinesAre
<1>1. CASE i = 6
  <2> DEFINE c == Cns(0, Fresh, Fresh + Valid, <<>>, NoWeights)
  <2>1. p = State("DIRS", er, <<>>, c)
    BY <1>1 DEF Reads, Header
  <2>2. l = EntryLines(es[1])[1] /\ 1 \in 1 .. n
    <3>1. 1 \in 1 .. n /\ 6 * 1 + 1 = i + 1
      BY <1>1
    <3> QED BY <1>a, <3>1
  <2> HIDE DEF l, es
  <2>3. ParseLine(p, l) = State("ROUTERS", er, <<Unkeyed(es[1], Blank, 0, "")>>, Cns(0, Fresh, Fresh + Valid, <<>> \o <<>>, NoWeights))
    <3>1. "DIRS" \in {"DIRS", "ROUTERS"}
      OBVIOUS
    <3>2. RouterGoesOn(p, "DIRS", er, <<>>, 0, Fresh, Fresh + Valid, <<>>, NoWeights, es[1], Blank, 0, "")
      BY <3>1, RouterRead, Zenon
    <3> QED BY <2>1, <2>2, <3>2 DEF RouterGoesOn
  <2>4. <<>> \o <<>> = <<>>
    OBVIOUS
  <2>5. Entry(ParseLine(p, l), er, es, 1, 1)
    <3>1. Listed(<<>>, es, 1 - 1)
      BY ListedNone
    <3>2. 1 \in Nat /\ ~ (1 >= 3) /\ ~ (1 >= 6)
      OBVIOUS
    <3>3. Inherits(Blank, es, 1, 1)
      BY FirstInherits
    <3> QED BY <2>3, <2>4, <3>1, <3>2, <3>3, Zenon DEF Entry
  <2>6. i + 1 = 6 * 1 + 1
    BY <1>1
  <2> QED BY <2>2, <2>5, <2>6 DEF Reads, l, es
<1>2. CASE i # 6
  <2>1. PICK m \in 1 .. n, j \in 1 .. 6 : i = 6 * m + j /\ Entry(p, er, d.entries, m, j)
    <3>1. i \notin 0 .. 6 /\ i \notin {6 * n + 7, 6 * n + 8}
      BY <1>2
    <3> QED BY <3>1 DEF Reads
  <2>2. PICK rs, h, bw, dg :
          /\ Listed(rs, es, m - 1)
          /\ Inherits(h, es, m, j)
          /\ j >= 3 => dg = es[m].digest
          /\ j >= 6 => bw = es[m].bw
          /\ p = State("ROUTERS", er, <<Unkeyed(es[m], h, bw, dg)>>, Cns(0, Fresh, Fresh + Valid, rs, NoWeights))
    BY <2>1 DEF Entry
  <2>3. CASE j < 6
    <3>1. l = EntryLines(es[m])[j + 1] /\ j + 1 \in 2 .. 6 /\ j + 1 \in 1 .. 6 /\ i + 1 = 6 * m + (j + 1)
      <4>1. j + 1 \in 2 .. 6 /\ j + 1 \in 1 .. 6 /\ i + 1 = 6 * m + (j + 1)
        BY <2>1, <2>3
      <4>2. Lines(d)[6 * m + (j + 1)] = EntryLines(es[m])[j + 1]
        BY <1>a, <4>1, Zenon
      <4> QED BY <4>1, <4>2
    <3> HIDE DEF l, es
    <3> DEFINE h2 == After(h, es[m], j + 1)
               bw2 == IF j + 1 = 6 THEN es[m].bw ELSE bw
               dg2 == IF j + 1 = 3 THEN es[m].digest ELSE dg
               c == Cns(0, Fresh, Fresh + Valid, rs, NoWeights)
    <3>2. ParseLine(p, l) = State("ROUTERS", er, <<Unkeyed(es[m], h2, bw2, dg2)>>, c)
      <4> HIDE DEF c, h2, bw2, dg2
      <4>1. EntryGoesOn(p, es[m], j + 1, er, c, h, bw, dg)
        <5>1. Paired(h)
          BY <2>2, Zenon DEF Inherits, Paired
        <5> QED BY <3>1, <5>1, EntryRead, Zenon
      <4>2. p = State("ROUTERS", er, <<Unkeyed(es[m], h, bw, dg)>>, c)
        BY <2>2 DEF c
      <4> QED BY <3>1, <4>1, <4>2 DEF EntryGoesOn, h2, bw2, dg2
    <3>3. /\ j + 1 >= 3 => dg2 = es[m].digest
          /\ j + 1 >= 6 => bw2 = es[m].bw
      BY <2>2
    <3>5. Inherits(h2, es, m, j + 1)
      <4>1. m \in Nat \ {0} /\ (j + 1) - 1 = j
        OBVIOUS
      <4> QED BY <2>2, <3>1, <4>1, LineInherits
    <3> HIDE DEF h2, bw2, dg2
    <3>4. Entry(ParseLine(p, l), er, es, m, j + 1)
      BY <2>2, <3>2, <3>3, <3>5 DEF Entry
    <3> QED BY <3>1, <3>4 DEF Reads, l, es
  <2>4. CASE j = 6
    <3>1. l = EntryLines(es[m + 1])[1] /\ m + 1 \in 1 .. n /\ i + 1 = 6 * (m + 1) + 1
      <4>1. m + 1 \in 1 .. n /\ i + 1 = 6 * (m + 1) + 1
        BY <2>1, <2>4
      <4>2. Lines(d)[6 * (m + 1) + 1] = EntryLines(es[m + 1])[1]
        <5>1. 1 \in 1 .. 6
          OBVIOUS
        <5> QED BY <1>a, <4>1, <5>1, Zenon
      <4> QED BY <4>1, <4>2
    <3> HIDE DEF l, es
    <3> DEFINE t == <<Unkeyed(es[m], h, bw, dg)>>
    <3>2. ParseLine(p, l) = State("ROUTERS", er, <<Unkeyed(es[m + 1], h, bw, dg)>>, Cns(0, Fresh, Fresh + Valid, rs \o t, NoWeights))
      <4>1. "ROUTERS" \in {"DIRS", "ROUTERS"} /\ \E b : t = <<Unkeyed(b, h, bw, dg)>>
        OBVIOUS
      <4>2. p = State("ROUTERS", er, t, Cns(0, Fresh, Fresh + Valid, rs, NoWeights))
        BY <2>2
      <4> HIDE DEF t
      <4>3. RouterGoesOn(p, "ROUTERS", er, t, 0, Fresh, Fresh + Valid, rs, NoWeights, es[m + 1], h, bw, dg)
        BY <4>1, RouterRead, Zenon
      <4> QED BY <3>1, <4>2, <4>3 DEF RouterGoesOn
    <3>3. Listed(rs \o t, es, (m + 1) - 1)
      <4>1. (m - 1) + 1 = m /\ (m + 1) - 1 = m /\ m - 1 \in Nat
        OBVIOUS
      <4>2. Inherits(h, es, (m - 1) + 1, 6) /\ dg = es[m].digest /\ bw = es[m].bw
        BY <2>2, <2>4, <4>1
      <4>3. Listed(rs \o <<Unkeyed(es[(m - 1) + 1], h, es[(m - 1) + 1].bw, es[(m - 1) + 1].digest)>>, es, (m - 1) + 1)
        BY <2>2, <4>1, <4>2, ListedMore, Zenon
      <4> QED BY <4>1, <4>2, <4>3
    <3>4. Entry(ParseLine(p, l), er, es, m + 1, 1)
      <4>1. m \in Nat \ {0} /\ ~ (1 >= 3) /\ ~ (1 >= 6)
        OBVIOUS
      <4>2. Inherits(h, es, m + 1, 1)
        BY <2>2, <2>4, <4>1, NextInherits
      <4> QED BY <3>2, <3>3, <4>1, <4>2, Zenon DEF Entry
    <3>5. 1 \in 1 .. 6
      OBVIOUS
    <3> QED BY <3>1, <3>4, <3>5 DEF Reads, l, es
  <2> QED BY <2>3, <2>4
<1> QED BY <1>1, <1>2

\* So it is after every line of a document, wherever it ends.
LEMMA DocumentRead ==
  ASSUME NEW d, NEW n \in Nat, DOMAIN d.entries = 1 .. n, NEW er, er = FALSE,
         NEW k \in 0 .. 6 * n + 8, NEW f, f[0] = Header(0, er),
         \A i \in 1 .. k : f[i] = ParseLine(f[i - 1], Lines(d)[i])
  PROVE  \A i \in 0 .. k : Reads(f[i], er, d, n, i)
<1> DEFINE T == {i \in Nat : Reads(f[i], er, d, n, i)}
<1>1. 0 \in T
  BY DEF Reads
<1>2. ASSUME NEW i \in 0 .. k - 1, i \in T PROVE i + 1 \in T
  <2>1. f[i + 1] = ParseLine(f[i], Lines(d)[i + 1])
    <3>1. i + 1 \in 1 .. k /\ (i + 1) - 1 = i
      OBVIOUS
    <3> QED BY <3>1
  <2>2. Reads(f[i], er, d, n, i)
    BY <1>2
  <2>3. CASE i \in 0 .. 5
    <3>1. f[i] = Header(i, er)
      <4>1. i \notin {6 * n + 7, 6 * n + 8} /\ \A m \in 1 .. n, j \in 1 .. 6 : i # 6 * m + j
        BY <2>3
      <4> QED BY <2>2, <4>1 DEF Reads
    <3>2. ParseLine(Header(i, er), Lines(d)[i + 1]) = Header(i + 1, er)
      BY <2>3, HeaderRead
    <3>3. i + 1 \in 0 .. 6
      BY <2>3
    <3> QED BY <2>1, <3>1, <3>2, <3>3 DEF Reads
  <2>4. CASE i \in 6 .. 6 * n + 5
    <3>1. Reads(ParseLine(f[i], Lines(d)[i + 1]), er, d, n, i + 1)
      BY <2>2, <2>4, RelaysRead, Zenon
    <3> QED BY <2>1, <3>1
  <2>5. CASE i \in {6 * n + 6, 6 * n + 7}
    <3>1. Reads(ParseLine(f[i], Lines(d)[i + 1]), er, d, n, i + 1)
      BY <2>2, <2>5, FooterRead, Zenon
    <3> QED BY <2>1, <3>1
  <2>6. i \in 0 .. 5 \/ i \in 6 .. 6 * n + 5 \/ i \in {6 * n + 6, 6 * n + 7}
    OBVIOUS
  <2> QED BY <2>3, <2>4, <2>5, <2>6
<1>3. \A i \in 0 .. k : i \in T
  <2> HIDE DEF T
  <2> QED BY <1>1, <1>2, UpTo
<1> QED BY <1>3

-----------------------------------------------------------------------------
(* The consensuses a download may end in.                                  *)

FetchedFrom(c, d) ==
    \E va, fu, vu, w, k, rs :
      /\ va \in {NoTime, 0} /\ fu \in {NoTime, Fresh} /\ vu \in {NoTime, Fresh + Valid}
      /\ w \in {NoWeights, d.weights} /\ k \in 0 .. Len(d.entries)
      /\ Listed(rs, d.entries, k) /\ c = Cns(va, fu, vu, rs, w)

ReadSoFar(p, er, d) ==
    \E st, tmp, c :
      st \in {"HEADER", "DIRS", "ROUTERS", "FOOTER"} /\ p = State(st, er, tmp, c) /\ FetchedFrom(c, d)

\* Wherever the reading stops, the consensus is one of FetchedFrom.
LEMMA ReadsFetched ==
  ASSUME NEW d, NEW n \in Nat, DOMAIN d.entries = 1 .. n, Len(d.entries) = n, NEW er, NEW p, NEW i, Reads(p, er, d, n, i)
  PROVE  ReadSoFar(p, er, d)
<1>1. CASE i \in 0 .. 6 /\ p = Header(i, er)
  <2> DEFINE va == IF i < 2 THEN NoTime ELSE 0
             fu == IF i < 3 THEN NoTime ELSE Fresh
             vu == IF i < 4 THEN NoTime ELSE Fresh + Valid
             st == IF i < 5 THEN "HEADER" ELSE "DIRS"
             c == Cns(va, fu, vu, <<>>, NoWeights)
  <2>1. p = State(st, er, <<>>, c)
    BY <1>1 DEF Header
  <2>2. va \in {NoTime, 0} /\ fu \in {NoTime, Fresh} /\ vu \in {NoTime, Fresh + Valid} /\ 0 \in 0 .. Len(d.entries)
    OBVIOUS
  <2>3. st \in {"HEADER", "DIRS", "ROUTERS", "FOOTER"}
    OBVIOUS
  <2> HIDE DEF va, fu, vu, st
  <2>4. FetchedFrom(c, d)
    BY <2>2, ListedNone, Zenon DEF FetchedFrom
  <2> HIDE DEF c
  <2> QED BY <2>1, <2>3, <2>4, Zenon DEF ReadSoFar
<1>2. ASSUME NEW m \in 1 .. n, NEW j \in 1 .. 6, Entry(p, er, d.entries, m, j)
      PROVE  ReadSoFar(p, er, d)
  <2>1. PICK rs, h, bw, dg :
          /\ Listed(rs, d.entries, m - 1)
          /\ p = State("ROUTERS", er, <<Unkeyed(d.entries[m], h, bw, dg)>>, Cns(0, Fresh, Fresh + Valid, rs, NoWeights))
    BY <1>2 DEF Entry
  <2>2. m - 1 \in 0 .. Len(d.entries)
    OBVIOUS
  <2>3. FetchedFrom(Cns(0, Fresh, Fresh + Valid, rs, NoWeights), d)
    BY <2>1, <2>2, Zenon DEF FetchedFrom
  <2> QED BY <2>1, <2>3, Zenon DEF ReadSoFar
<1>3. CASE Footer(p, er, d, n)
  <2>1. PICK st, tmp, rs, w :
          /\ st \in {"DIRS", "FOOTER"} /\ w \in {NoWeights, d.weights}
          /\ \E k \in 0 .. n : Listed(rs, d.entries, k)
          /\ p = State(st, er, tmp, Cns(0, Fresh, Fresh + Valid, rs, w))
    BY <1>3 DEF Footer
  <2>2. FetchedFrom(Cns(0, Fresh, Fresh + Valid, rs, w), d)
    BY <2>1, Zenon DEF FetchedFrom
  <2> QED BY <2>1, <2>2, Zenon DEF ReadSoFar
<1> QED BY <1>1, <1>2, <1>3 DEF Reads

\* A line that is cut.
LEMMA CutRead ==
  ASSUME NEW d, NEW er, er = FALSE, NEW p, ReadSoFar(p, er, d),
         NEW l, l.cut = TRUE, l.kw \in {"valid-after", "fresh-until", "valid-until", "r", "pr"}
  PROVE  ParseLine(p, l).err = TRUE \/ ReadSoFar(ParseLine(p, l), er, d)
<1>1. PICK st, tmp, c :
        st \in {"HEADER", "DIRS", "ROUTERS", "FOOTER"} /\ p = State(st, er, tmp, c) /\ FetchedFrom(c, d)
  BY DEF ReadSoFar
<1>2. PICK va, fu, vu, w, k, rs :
        /\ va \in {NoTime, 0} /\ fu \in {NoTime, Fresh} /\ vu \in {NoTime, Fresh + Valid}
        /\ w \in {NoWeights, d.weights} /\ k \in 0 .. Len(d.entries)
        /\ Listed(rs, d.entries, k) /\ c = Cns(va, fu, vu, rs, w)
  BY <1>1 DEF FetchedFrom
<1> DEFINE st2 == StateFor(st, l.kw)
           q == State(st2, er, tmp, c)
<1>3. st2 \in {"HEADER", "DIRS", "ROUTERS", "FOOTER"}
  BY <1>1 DEF StateFor
<1> HIDE DEF st2
<1>4. Handled(st, er, tmp, c, l, st2)
  BY LineIs, Zenon DEF st2
<1>5. Assigned(q, st2, er, tmp, va, fu, vu, rs, w, NoTime)
  BY <1>2, AssignIs, Zenon
<1>6. Failed(q).err = TRUE
  BY Zenon DEF Failed, State
<1>7. ReadSoFar(q, er, d)
  BY <1>1, <1>3, Zenon DEF ReadSoFar
<1>8. ReadSoFar([q EXCEPT !.cns.validAfter = NoTime], er, d)
  <2>1. FetchedFrom(Cns(NoTime, fu, vu, rs, w), d)
    BY <1>2 DEF FetchedFrom
  <2>2. [q EXCEPT !.cns.validAfter = NoTime] = State(st2, er, tmp, Cns(NoTime, fu, vu, rs, w))
    BY <1>5 DEF Assigned
  <2> QED BY <1>3, <2>1, <2>2, Zenon DEF ReadSoFar
<1>9. ReadSoFar([q EXCEPT !.cns.validUntil = NoTime], er, d)
  <2>1. FetchedFrom(Cns(va, fu, NoTime, rs, w), d)
    BY <1>2 DEF FetchedFrom
  <2>2. [q EXCEPT !.cns.validUntil = NoTime] = State(st2, er, tmp, Cns(va, fu, NoTime, rs, w))
    BY <1>5 DEF Assigned
  <2> QED BY <1>3, <2>1, <2>2, Zenon DEF ReadSoFar
<1> HIDE DEF q
<1>10. CASE st2 = "HEADER"
  <2>1. ParseLine(p, l) = HeaderLine(q, l)
    BY <1>1, <1>4, <1>10 DEF Handled, q
  <2>2. \/ HeaderLine(q, l) = [q EXCEPT !.cns.validAfter = NoTime]
        \/ HeaderLine(q, l) = [q EXCEPT !.cns.validUntil = NoTime]
        \/ HeaderLine(q, l) = Failed(q)
        \/ HeaderLine(q, l) = q
    BY DEF HeaderLine
  <2> QED BY <1>6, <1>7, <1>8, <1>9, <2>1, <2>2, Zenon
<1>11. CASE st2 = "DIRS"
  <2>1. ParseLine(p, l) = q
    BY <1>1, <1>4, <1>11 DEF Handled, q
  <2> QED BY <1>7, <2>1, Zenon
<1>12. CASE st2 = "ROUTERS"
  <2>1. ParseLine(p, l) = RouterLine(q, l)
    BY <1>1, <1>4, <1>12 DEF Handled, q
  <2>2. RouterLine(q, l) = Failed(q) \/ RouterLine(q, l) = q
    <3>1. CASE l.kw = "r"
      <4>1. RouterLine(q, l) = Failed(q)
        BY <3>1 DEF RouterLine
      <4> QED BY <4>1
    <3>3. CASE l.kw = "pr"
      <4>1. RouterLine(q, l) = Failed(q)
        BY <3>3 DEF RouterLine
      <4> QED BY <4>1
    <3>2. CASE l.kw \in {"valid-after", "fresh-until", "valid-until"}
      <4>1. RouterLine(q, l) = q
        BY <3>2 DEF RouterLine
      <4> QED BY <4>1
    <3> QED BY <3>1, <3>2, <3>3
  <2> QED BY <1>6, <1>7, <2>1, <2>2, Zenon
<1>13. CASE st2 = "FOOTER"
  <2>1. ParseLine(p, l) = FooterLine(q, l)
    BY <1>1, <1>4, <1>13 DEF Handled, q
  <2>2. FooterLine(q, l) = q
    BY DEF FooterLine
  <2> QED BY <1>7, <2>1, <2>2, Zenon
<1> QED BY <1>3, <1>10, <1>11, <1>12, <1>13, Zenon

\* Any prefix of a document's lines.
LEMMA PrefixParsed ==
  ASSUME NEW d, NEW n \in Nat, DOMAIN d.entries = 1 .. n, Len(d.entries) = n, NEW er, er = FALSE,
         NEW k \in 0 .. 6 * n + 8, NEW ls, DOMAIN ls = 1 .. k,
         \A i \in 1 .. k - 1 : ls[i] = Lines(d)[i],
         k > 0 => \/ ls[k] = Lines(d)[k]
                  \/ ls[k].cut = TRUE /\ ls[k].kw \in {"valid-after", "fresh-until", "valid-until", "r", "pr"}
  PROVE  ParseConsensus(ls).err = TRUE \/ ReadSoFar(ParseConsensus(ls), er, d)
<1> DEFINE base == [state |-> "HEADER", err |-> FALSE, tmp |-> <<>>, cns |-> EmptyConsensus]
<1>1. base = Header(0, er)
  <2>1. Header(0, er) = State("HEADER", er, <<>>, Cns(NoTime, NoTime, NoTime, <<>>, NoWeights))
    BY DEF Header
  <2> QED BY <2>1, Zenon DEF State, Cns, EmptyConsensus
<1>2. ParseConsensus(ls) = FoldLeft(ParseLine, base, ls)
  BY DEF ParseConsensus
<1> HIDE DEF base
<1>3. PICK f : /\ f[0] = base
               /\ \A i \in 1 .. k : f[i] = ParseLine(f[i - 1], ls[i])
               /\ FoldLeft(ParseLine, base, ls) = f[k]
  <2>1. \E f : LineByLine(f, base, ls, k)
    <3>1. k \in Nat
      OBVIOUS
    <3> QED BY <3>1, ParseUnrolled, Zenon
  <2> QED BY <2>1 DEF LineByLine
<1>4. CASE k = 0 \/ ls[k] = Lines(d)[k]
  <2>1. \A i \in 1 .. k : f[i] = ParseLine(f[i - 1], Lines(d)[i])
    BY <1>3, <1>4
  <2>2. \A i \in 0 .. k : Reads(f[i], er, d, n, i)
    BY <1>1, <1>3, <2>1, DocumentRead
  <2>3. Reads(f[k], er, d, n, k)
    BY <2>2
  <2>4. ReadSoFar(f[k], er, d)
    BY <2>3, ReadsFetched, Zenon
  <2> QED BY <1>2, <1>3, <2>4
<1>5. CASE k > 0 /\ ls[k].cut = TRUE /\ ls[k].kw \in {"valid-after", "fresh-until", "valid-until", "r", "pr"}
  <2>1. \A i \in 1 .. k - 1 : f[i] = ParseLine(f[i - 1], Lines(d)[i])
    BY <1>3
  <2>2. k - 1 \in 0 .. 6 * n + 8
    BY <1>5
  <2>3. \A i \in 0 .. k - 1 : Reads(f[i], er, d, n, i)
    BY <1>1, <1>3, <2>1, <2>2, DocumentRead
  <2>4. Reads(f[k - 1], er, d, n, k - 1)
    BY <2>2, <2>3
  <2>5. ReadSoFar(f[k - 1], er, d)
    BY <2>4, ReadsFetched, Zenon
  <2>6. ParseLine(f[k - 1], ls[k]).err = TRUE \/ ReadSoFar(ParseLine(f[k - 1], ls[k]), er, d)
    BY <1>5, <2>5, CutRead
  <2>7. f[k] = ParseLine(f[k - 1], ls[k])
    BY <1>3, <1>5
  <2> QED BY <1>2, <1>3, <2>6, <2>7
<1>6. k = 0 \/ k > 0
  OBVIOUS
<1> QED BY <1>4, <1>5, <1>6, Zenon

LEMMA LinesMayBeCut ==
  ASSUME NEW d, NEW n \in Nat, LinesAre(d, n), NEW i \in 1 .. 6 * n + 8
  PROVE  "cut" \in DOMAIN Lines(d)[i]
<1>1. CASE i \in 1 .. 6
  BY <1>1 DEF LinesAre, Line, Date
<1>2. CASE i \in 7 .. 6 * n + 6
  <2>1. PICK m \in 1 .. n, j \in 1 .. 6 : i = 6 * m + j
    <3> DEFINE m == (i - 1) \div 6
    <3>1. m \in 1 .. n /\ i - 6 * m \in 1 .. 6 /\ i = 6 * m + (i - 6 * m)
      BY <1>2
    <3> QED BY <3>1
  <2>2. Lines(d)[i] = EntryLines(d.entries[m])[j]
    BY <2>1 DEF LinesAre
  <2>3. "cut" \in DOMAIN EntryLines(d.entries[m])[j]
    BY DEF EntryLines, OptionalLine, Line
  <2> QED BY <2>2, <2>3
<1>3. CASE i \in {6 * n + 7, 6 * n + 8}
  <2>1. \A f : "cut" \in DOMAIN [kw |-> "bandwidth-weights", cut |-> f, weights |-> d.weights]
    OBVIOUS
  <2>2. "cut" \in DOMAIN [kw |-> "bandwidth-weights", cut |-> FALSE, weights |-> d.weights]
    BY <2>1, Zenon
  <2>3. "cut" \in DOMAIN Line("directory-footer")
    BY DEF Line
  <2> QED BY <1>3, <2>2, <2>3 DEF LinesAre
<1> QED BY <1>1, <1>2, <1>3

\* What a cache serves.
LEMMA DownloadFetched ==
  ASSUME NEW c \in Whole \cup BrokenOff
  PROVE  \E d \in Documents : FetchedFrom(c, d)
<1>1. PICK d, ls : /\ d \in Documents
                   /\ ls = Lines(d) \/ ls \in Broken(Lines(d))
                   /\ ParseConsensus(ls).err # TRUE
                   /\ c = ParseConsensus(ls).cns
  BY DEF Whole, BrokenOff, Parsed
<1> DEFINE n == Len(d.entries)
           L == Lines(d)
<1>2. n \in Nat /\ DOMAIN d.entries = 1 .. n
  <2>1. d.entries \in Seq(ToSet(d.entries))
    BY <1>1, DocumentsAssumption
  <2> QED BY <2>1
<1>3. LinesAre(d, n)
  BY <1>2, LinesLayout, Zenon
<1> HIDE DEF n, L
<1>4. PICK S : L \in Seq(S) /\ Len(L) = 6 * n + 8
  BY <1>3 DEF LinesAre, L
<1>5. \E k \in 0 .. 6 * n + 8 :
        /\ DOMAIN ls = 1 .. k
        /\ \A i \in 1 .. k - 1 : ls[i] = L[i]
        /\ k > 0 => \/ ls[k] = L[k]
                    \/ ls[k].cut = TRUE /\ ls[k].kw \in {"valid-after", "fresh-until", "valid-until", "r", "pr"}
  <2>1. CASE ls = L
    <3> DEFINE k == 6 * n + 8
    <3>1. k \in 0 .. 6 * n + 8 /\ DOMAIN ls = 1 .. k
      BY <1>2, <1>4, <2>1
    <3> HIDE DEF k
    <3> QED BY <2>1, <3>1, Zenon
  <2>2. ASSUME NEW k \in 0 .. Len(L) - 1, ls = SubSeq(L, 1, k)
        PROVE  DOMAIN ls = 1 .. k /\ (\A i \in 1 .. k : ls[i] = L[i]) /\ k \in 0 .. 6 * n + 8
    BY <1>2, <1>4, <2>2
  <2>3. ASSUME NEW k \in DOMAIN L, L[k].kw \in {"valid-after", "fresh-until", "valid-until", "r", "pr"},
               ls = [SubSeq(L, 1, k) EXCEPT ![k].cut = TRUE]
        PROVE  /\ DOMAIN ls = 1 .. k /\ (\A i \in 1 .. k - 1 : ls[i] = L[i]) /\ k \in 1 .. 6 * n + 8
               /\ ls[k].cut = TRUE /\ ls[k].kw = L[k].kw
    <3> DEFINE u == SubSeq(L, 1, k)
               l == [u[k] EXCEPT !.cut = TRUE]
    <3>1. k \in 1 .. 6 * n + 8 /\ DOMAIN u = 1 .. k /\ \A i \in 1 .. k : u[i] = L[i]
      BY <1>2, <1>4
    <3>2. ls = [u EXCEPT ![k] = l]
      BY <2>3
    <3>3. l.cut = TRUE /\ l.kw = L[k].kw
      <4>1. "cut" \in DOMAIN L[k]
        BY <1>2, <1>3, <3>1, LinesMayBeCut, Zenon DEF L
      <4> QED BY <3>1, <4>1
    <3> HIDE DEF u, l
    <3>4. DOMAIN ls = 1 .. k /\ (\A i \in 1 .. k - 1 : ls[i] = u[i]) /\ ls[k] = l
      BY <3>1, <3>2
    <3> QED BY <3>1, <3>3, <3>4
  <2>4. CASE ls \in Broken(L)
    <3>1. \/ \E k \in 0 .. Len(L) - 1 : ls = SubSeq(L, 1, k)
          \/ \E k \in DOMAIN L : /\ L[k].kw \in {"valid-after", "fresh-until", "valid-until", "r", "pr"}
                                 /\ ls = [SubSeq(L, 1, k) EXCEPT ![k].cut = TRUE]
      BY <2>4 DEF Broken
    <3>2. ASSUME NEW k \in 0 .. Len(L) - 1, ls = SubSeq(L, 1, k)
          PROVE  k \in 0 .. 6 * n + 8 /\ DOMAIN ls = 1 .. k /\ (\A i \in 1 .. k - 1 : ls[i] = L[i]) /\ (k > 0 => ls[k] = L[k])
      BY <2>2, <3>2
    <3>3. ASSUME NEW k \in DOMAIN L, L[k].kw \in {"valid-after", "fresh-until", "valid-until", "r", "pr"},
                 ls = [SubSeq(L, 1, k) EXCEPT ![k].cut = TRUE]
          PROVE  /\ k \in 0 .. 6 * n + 8 /\ DOMAIN ls = 1 .. k /\ (\A i \in 1 .. k - 1 : ls[i] = L[i])
                 /\ ls[k].cut = TRUE /\ ls[k].kw \in {"valid-after", "fresh-until", "valid-until", "r", "pr"}
      <4>1. k \in 0 .. 6 * n + 8
        BY <1>2, <1>4
      <4> QED BY <2>3, <3>3, <4>1, Zenon
    <3> QED BY <3>1, <3>2, <3>3, Zenon
  <2> QED BY <1>1, <2>1, <2>4 DEF L
<1>6. PICK k \in 0 .. 6 * n + 8 :
        /\ DOMAIN ls = 1 .. k
        /\ \A i \in 1 .. k - 1 : ls[i] = L[i]
        /\ k > 0 => \/ ls[k] = L[k]
                    \/ ls[k].cut = TRUE /\ ls[k].kw \in {"valid-after", "fresh-until", "valid-until", "r", "pr"}
  BY <1>5
<1>7. PICK er : er = FALSE
  OBVIOUS
<1>8. ReadSoFar(ParseConsensus(ls), er, d)
  <2>1. ParseConsensus(ls).err = TRUE \/ ReadSoFar(ParseConsensus(ls), er, d)
    BY <1>2, <1>6, <1>7, PrefixParsed DEF L, n
  <2> QED BY <1>1, <2>1
<1>9. PICK st, tmp, e : ParseConsensus(ls) = State(st, er, tmp, e) /\ FetchedFrom(e, d)
  BY <1>8 DEF ReadSoFar
<1>10. ParseConsensus(ls).cns = e
  BY <1>9 DEF State
<1> QED BY <1>1, <1>9, <1>10

-----------------------------------------------------------------------------
(* What a microdescriptor says.                                            *)

Microdescriptor(nt, ed, ru) == [ntor |-> nt, ed |-> ed, exitRules |-> ru, familys |-> {}]

Rules(ru) == ru = <<>> \/ \E ports \in SUBSET (0 .. MaxPort) : ru = <<ports>>

MicrodescAssigned(m, nt, ed, ru) ==
    \A x : /\ [m EXCEPT !.ntor = x] = Microdescriptor(x, ed, ru)
           /\ [m EXCEPT !.ed = x] = Microdescriptor(nt, x, ru)
           /\ [m EXCEPT !.exitRules = x] = Microdescriptor(nt, ed, x)
           /\ [m EXCEPT !.familys = {}] = m

LEMMA MicrodescAssignIs ==
  ASSUME NEW nt, NEW ed, NEW ru, NEW m, m = Microdescriptor(nt, ed, ru)
  PROVE  MicrodescAssigned(m, nt, ed, ru)
BY DEF Microdescriptor, MicrodescAssigned

LEMMA PortsAre ==
  ASSUME NEW policy, \A r \in policy.ranges : r[1] .. r[2] \subseteq 0 .. MaxPort
  PROVE  PortsOf(policy) \in SUBSET (0 .. MaxPort)
BY DEF PortsOf

\* The policies of a microdescriptor are sets of ports.
LEMMA BlockIs ==
  ASSUME NEW dg \in DOMAIN Blocks
  PROVE  \E nt, ed, ru : Rules(ru) /\ ParseMicrodescBlock(Blocks[dg]) = Microdescriptor(nt, ed, ru)
<1> DEFINE block == Blocks[dg]
           n == Len(block)
           Good(m) == \E nt, ed, ru : Rules(ru) /\ m = Microdescriptor(nt, ed, ru)
<1>1. n \in Nat /\ DOMAIN block = 1 .. n
  <2>1. block \in Seq(ToSet(block))
    BY BlocksAssumption
  <2> HIDE DEF block
  <2> QED BY <2>1
<1>2. \A i \in 1 .. n : block[i].kw = "p" => \A r \in block[i].policy.ranges : r[1] .. r[2] \subseteq 0 .. MaxPort
  BY <1>1, BlocksAssumption
<1> HIDE DEF block, n
<1>3. PICK f : BlockByLine(f, block, n)
  BY <1>1, BlockUnrolled, Zenon
<1> DEFINE T == {i \in Nat : Good(f[i])}
<1>4. 0 \in T
  <2>1. NoMicrodesc = Microdescriptor("", "", <<>>) /\ Rules(<<>>)
    BY DEF NoMicrodesc, Microdescriptor, Rules
  <2>2. f[0] = NoMicrodesc
    BY <1>3 DEF BlockByLine
  <2>3. Good(NoMicrodesc)
    BY <2>1, Zenon
  <2>4. Good(f[0])
    BY <2>2, <2>3, Zenon
  <2> QED BY <2>4
<1>5. ASSUME NEW i \in 0 .. n - 1, i \in T PROVE i + 1 \in T
  <2> DEFINE m == f[i]
             l == block[i + 1]
  <2>1. f[i + 1] = BlockLine(m, l) /\ i + 1 \in 1 .. n /\ i + 1 \in Nat
    <3>1. i + 1 \in 1 .. n /\ (i + 1) - 1 = i /\ i + 1 \in Nat
      BY <1>1
    <3> QED BY <1>3, <3>1 DEF BlockByLine
  <2>2. PICK nt, ed, ru : Rules(ru) /\ m = Microdescriptor(nt, ed, ru)
    BY <1>5
  <2> HIDE DEF m, l
  <2>3. MicrodescAssigned(m, nt, ed, ru)
    BY <2>2, MicrodescAssignIs, Zenon
  <2>4. Good(BlockLine(m, l))
    <3>1. CASE l.kw = "ntor-onion-key"
      <4>1. BlockLine(m, l) = Microdescriptor(l.key, ed, ru)
        BY <2>3, <3>1 DEF BlockLine, MicrodescAssigned
      <4> QED BY <2>2, <4>1, Zenon
    <3>2. CASE l.kw = "id ed25519"
      <4>1. BlockLine(m, l) = Microdescriptor(nt, l.key, ru)
        BY <2>3, <3>2 DEF BlockLine, MicrodescAssigned
      <4> QED BY <2>2, <4>1, Zenon
    <3>3. CASE l.kw = "family-ids"
      <4>1. BlockLine(m, l) = m
        BY <2>3, <3>3 DEF BlockLine, MicrodescAssigned
      <4> QED BY <2>2, <4>1, Zenon
    <3>4. CASE l.kw = "p"
      <4>1. BlockLine(m, l) = Microdescriptor(nt, ed, <<PortsOf(l.policy)>>)
        BY <2>3, <3>4 DEF BlockLine, MicrodescAssigned
      <4>2. Rules(<<PortsOf(l.policy)>>)
        <5>1. \A r \in l.policy.ranges : r[1] .. r[2] \subseteq 0 .. MaxPort
          BY <1>2, <2>1, <3>4 DEF l
        <5>2. PortsOf(l.policy) \in SUBSET (0 .. MaxPort)
          BY <5>1, PortsAre, Zenon
        <5> QED BY <5>2, Zenon DEF Rules
      <4> QED BY <4>1, <4>2, Zenon
    <3>5. CASE l.kw \notin {"ntor-onion-key", "id ed25519", "family-ids", "p"}
      <4>1. BlockLine(m, l) = m
        BY <3>5 DEF BlockLine
      <4> QED BY <2>2, <4>1, Zenon
    <3> QED BY <3>1, <3>2, <3>3, <3>4, <3>5, Zenon
  <2> HIDE DEF Good
  <2> QED BY <2>1, <2>4
<1>6. n \in T
  <2>1. \A i \in 0 .. n : i \in T
    <3> HIDE DEF T
    <3> QED BY <1>1, <1>4, <1>5, UpTo
  <2> HIDE DEF T
  <2> QED BY <1>1, <2>1
<1>7. Good(f[n])
  BY <1>6
<1>8. ParseMicrodescBlock(Blocks[dg]) = f[n]
  BY <1>3 DEF BlockByLine, block
<1> QED BY <1>7, <1>8, Zenon

-----------------------------------------------------------------------------
(* What is read of an answer.                                              *)

Builder(b, o) == [builder |-> b, out |-> o]

\* The places of the digests hold nothing or their own microdescriptor.
Placed(digests, o) ==
    /\ DOMAIN o = DOMAIN digests /\ o = [i \in DOMAIN digests |-> o[i]]
    /\ \A i \in DOMAIN digests : o[i] = <<>> \/ o[i] = <<ParseMicrodescBlock(Blocks[digests[i]])>>

LEMMA DigestIs ==
  ASSUME NEW lines, DigestOf(lines) # ""
  PROVE  DigestOf(lines) \in DOMAIN Blocks /\ Blocks[DigestOf(lines)] = lines
BY DEF DigestOf

LEMMA FileLineIs ==
  ASSUME NEW n \in Nat, NEW digests, DOMAIN digests = 1 .. n, \A i \in 1 .. n : digests[i] \in DOMAIN Blocks,
         NEW b, NEW o, Placed(digests, o), NEW l
  PROVE  \E b2, o2 : FileLine(digests, Builder(b, o), l) = Builder(b2, o2) /\ Placed(digests, o2)
<1> DEFINE s == Builder(b, o)
           bl == Append(b, l)
           found == {i \in DOMAIN digests : digests[i] = DigestOf(bl)}
           last == CHOOSE i \in found : \A j \in found : j <= i
           block == <<ParseMicrodescBlock(bl)>>
           o2 == [o EXCEPT ![last] = block]
<1>1. s.builder = b /\ s.out = o /\ [s EXCEPT !.builder = bl] = Builder(bl, o)
  BY SMTT(30) DEF Builder
<1>2. CASE l.kw # "id ed25519" \/ found = {}
  <2>1. FileLine(digests, s, l) = Builder(bl, o)
    BY <1>1, <1>2 DEF FileLine, Builder
  <2> QED BY <2>1
<1>3. CASE ~ (l.kw # "id ed25519" \/ found = {})
  <2>1. FileLine(digests, s, l) = Builder(<<>>, o2)
    BY <1>1, <1>3 DEF FileLine, Builder
  <2>2. last \in found
    <3>1. found \in SUBSET (1 .. n) /\ found # {}
      BY <1>3
    <3> HIDE DEF found
    <3>2. \E m \in found : \A j \in found : j <= m
      BY <3>1, LargestIs, Zenon
    <3> QED BY <3>2
  <2>3. last \in 1 .. n /\ digests[last] = DigestOf(bl)
    BY <2>2
  <2> HIDE DEF last, found, bl
  <2>4. Blocks[digests[last]] = bl
    <3>1. DigestOf(bl) # ""
      BY <2>3, BlocksAssumption
    <3> QED BY <2>3, <3>1, DigestIs
  <2>5. block = <<ParseMicrodescBlock(Blocks[digests[last]])>>
    BY <2>4
  <2> HIDE DEF block
  <2>6. Placed(digests, o2)
    BY <2>3, <2>5 DEF Placed
  <2> QED BY <2>1, <2>6
<1> QED BY <1>2, <1>3

\* Whatever lines come, what lands at a relay's place is its own microdescriptor.
LEMMA FileRead ==
  ASSUME NEW n \in Nat, NEW digests, DOMAIN digests = 1 .. n, \A i \in 1 .. n : digests[i] \in DOMAIN Blocks,
         NEW k \in Nat, NEW lines, DOMAIN lines = 1 .. k
  PROVE  Placed(digests, ParseMicrodescFile(lines, digests))
<1> DEFINE o0 == [i \in DOMAIN digests |-> <<>>]
           base == Builder(<<>>, o0)
           Good(s) == \E b, o : s = Builder(b, o) /\ Placed(digests, o)
<1>1. ParseMicrodescFile(lines, digests) = Reading(digests, base, lines).out
  BY DEF ParseMicrodescFile, Reading, Builder
<1>2. Good(base)
  <2>1. Placed(digests, o0)
    BY DEF Placed
  <2> HIDE DEF o0
  <2> QED BY <2>1, Zenon
<1> HIDE DEF base
<1>3. PICK f : FileByLine(f, digests, base, lines, k)
  BY FileUnrolled, Zenon
<1> DEFINE T == {i \in Nat : Good(f[i])}
<1>4. 0 \in T
  <2>1. Good(f[0])
    BY <1>2, <1>3, Zenon DEF FileByLine
  <2> QED BY <2>1
<1>5. ASSUME NEW i \in 0 .. k - 1, i \in T PROVE i + 1 \in T
  <2>1. f[i + 1] = FileLine(digests, f[i], lines[i + 1]) /\ i + 1 \in Nat
    <3>1. i + 1 \in 1 .. k /\ (i + 1) - 1 = i /\ i + 1 \in Nat
      OBVIOUS
    <3> QED BY <1>3, <3>1 DEF FileByLine
  <2>2. PICK b, o : f[i] = Builder(b, o) /\ Placed(digests, o)
    BY <1>5
  <2>3. \E b2, o2 : FileLine(digests, Builder(b, o), lines[i + 1]) = Builder(b2, o2) /\ Placed(digests, o2)
    BY <2>2, FileLineIs
  <2>4. Good(f[i + 1])
    BY <2>1, <2>2, <2>3
  <2> QED BY <2>1, <2>4
<1>6. k \in T
  <2>1. \A i \in 0 .. k : i \in T
    <3> HIDE DEF T
    <3> QED BY <1>4, <1>5, UpTo
  <2> HIDE DEF T
  <2> QED BY <2>1
<1>7. PICK b, o : f[k] = Builder(b, o) /\ Placed(digests, o)
  BY <1>6
<1>8. ParseMicrodescFile(lines, digests) = o
  BY <1>1, <1>3, <1>7 DEF FileByLine, Builder
<1> QED BY <1>7, <1>8

\* An answer is a sequence of lines.
LEMMA AnswerIs ==
  ASSUME NEW n \in Nat, NEW o, DOMAIN o = 1 .. n, \A i \in 1 .. n : o[i] \in DOMAIN Blocks,
         NEW f, BlockByBlock(f, o, n)
  PROVE  \E S : \A i \in 0 .. n : f[i] \in Seq(S) /\ (i > 0 => Blocks[o[i]] \in Seq(S))
<1> DEFINE S == UNION {ToSet(Blocks[o[i]]) : i \in 1 .. n}
           T == {i \in Nat : f[i] \in Seq(S)}
<1>1. ASSUME NEW i \in 1 .. n PROVE Blocks[o[i]] \in Seq(S)
  <2>1. Blocks[o[i]] \in Seq(ToSet(Blocks[o[i]]))
    BY BlocksAssumption
  <2>2. ToSet(Blocks[o[i]]) \subseteq S
    OBVIOUS
  <2> HIDE DEF S
  <2> QED BY <2>1, <2>2
<1> HIDE DEF S
<1>2. 0 \in T
  <2>1. f[0] = <<>>
    BY DEF BlockByBlock
  <2>2. <<>> \in Seq(S)
    OBVIOUS
  <2>3. f[0] \in Seq(S)
    BY <2>1, <2>2, Zenon
  <2> QED BY <2>3
<1>3. ASSUME NEW i \in 0 .. n - 1, i \in T PROVE i + 1 \in T
  <2>1. i + 1 \in 1 .. n /\ (i + 1) - 1 = i /\ i + 1 \in Nat
    OBVIOUS
  <2>2. f[i + 1] = f[i] \o Blocks[o[i + 1]]
    BY <2>1 DEF BlockByBlock
  <2>3. f[i] \in Seq(S) /\ Blocks[o[i + 1]] \in Seq(S)
    BY <1>1, <1>3, <2>1
  <2>4. f[i + 1] \in Seq(S)
    <3> DEFINE x == f[i]
               y == Blocks[o[i + 1]]
    <3>1. x \in Seq(S) /\ y \in Seq(S) /\ f[i + 1] = x \o y
      BY <2>2, <2>3
    <3> HIDE DEF x, y
    <3> QED BY <3>1
  <2> QED BY <2>1, <2>4
<1>4. \A i \in 0 .. n : i \in T
  <2> HIDE DEF T
  <2> QED BY <1>2, <1>3, UpTo
<1>5. \A i \in 0 .. n : f[i] \in Seq(S) /\ (i > 0 => Blocks[o[i]] \in Seq(S))
  BY <1>1, <1>4
<1> QED BY <1>5

\* An answer may be read in two parts.
ReadInTwo(digests, base, s, t, u) ==
    Reading(digests, base, u) = Reading(digests, Reading(digests, base, s), t)

\* Reading an answer is reading its first part and then the rest.
LEMMA ReadInParts ==
  ASSUME NEW digests, NEW base, NEW a \in Nat, NEW b \in Nat, NEW s, NEW t, NEW u,
         DOMAIN s = 1 .. a, DOMAIN t = 1 .. b, DOMAIN u = 1 .. a + b,
         \A i \in 1 .. a : u[i] = s[i], \A i \in 1 .. b : u[a + i] = t[i]
  PROVE  ReadInTwo(digests, base, s, t, u)
<1>1. PICK f : FileByLine(f, digests, base, u, a + b)
  <2>1. a + b \in Nat
    OBVIOUS
  <2> QED BY <2>1, FileUnrolled, Zenon
<1>2. PICK g : FileByLine(g, digests, base, s, a)
  BY FileUnrolled, Zenon
<1> DEFINE mid == Reading(digests, base, s)
<1>3. PICK h : FileByLine(h, digests, mid, t, b)
  <2> HIDE DEF mid
  <2> QED BY FileUnrolled, Zenon
<1>4. \A i \in 0 .. a : f[i] = g[i]
  <2> DEFINE T == {i \in Nat : f[i] = g[i]}
  <2>1. 0 \in T
    BY <1>1, <1>2 DEF FileByLine
  <2>2. ASSUME NEW i \in 0 .. a - 1, i \in T PROVE i + 1 \in T
    <3>1. i + 1 \in 1 .. a /\ i + 1 \in 1 .. a + b /\ (i + 1) - 1 = i /\ i + 1 \in Nat
      OBVIOUS
    <3> QED BY <1>1, <1>2, <2>2, <3>1 DEF FileByLine
  <2>3. \A i \in 0 .. a : i \in T
    <3> HIDE DEF T
    <3> QED BY <2>1, <2>2, UpTo
  <2> QED BY <2>3
<1>5. \A i \in 0 .. b : f[a + i] = h[i]
  <2> DEFINE T == {i \in Nat : f[a + i] = h[i]}
  <2>1. 0 \in T
    <3>1. f[a] = g[a] /\ g[a] = mid /\ h[0] = mid /\ a + 0 = a
      BY <1>2, <1>3, <1>4 DEF FileByLine
    <3> QED BY <3>1
  <2>2. ASSUME NEW i \in 0 .. b - 1, i \in T PROVE i + 1 \in T
    <3>1. i + 1 \in 1 .. b /\ a + (i + 1) \in 1 .. a + b /\ (i + 1) - 1 = i /\ (a + (i + 1)) - 1 = a + i /\ i + 1 \in Nat
      OBVIOUS
    <3>2. f[a + (i + 1)] = FileLine(digests, f[a + i], u[a + (i + 1)])
      BY <1>1, <3>1 DEF FileByLine
    <3>3. h[i + 1] = FileLine(digests, h[i], t[i + 1])
      BY <1>3, <3>1 DEF FileByLine
    <3> QED BY <2>2, <3>1, <3>2, <3>3
  <2>3. \A i \in 0 .. b : i \in T
    <3> HIDE DEF T
    <3> QED BY <2>1, <2>2, UpTo
  <2> QED BY <2>3
<1>6. f[a + b] = h[b]
  BY <1>5
<1> QED BY <1>1, <1>3, <1>6 DEF FileByLine, ReadInTwo

\* A block that was asked for is put in its place.
BlockPlaced(digests, o, x) ==
    Reading(digests, Builder(<<>>, o), Blocks[digests[x]]) =
      Builder(<<>>, [o EXCEPT ![x] = <<ParseMicrodescBlock(Blocks[digests[x]])>>])

\* A whole block puts its microdescriptor at the place of its digest.
LEMMA BlockRead ==
  ASSUME NEW n \in Nat, NEW digests, DOMAIN digests = 1 .. n,
         \A i, j \in 1 .. n : i # j => digests[i] # digests[j],
         NEW x \in 1 .. n, digests[x] \in DOMAIN Blocks, NEW o
  PROVE  BlockPlaced(digests, o, x)
<1> DEFINE dg == digests[x]
           block == Blocks[dg]
           S == ToSet(block)
           L == Len(block)
<1>1. /\ block \in Seq(S) /\ block # <<>>
      /\ \A e \in DOMAIN Blocks \ {dg} : Blocks[e] # block
      /\ \A i \in DOMAIN block : block[i].kw = "id ed25519" <=> i = L
      /\ dg # ""
  BY BlocksAssumption
<1> HIDE DEF block, S
<1>2. L \in Nat /\ L >= 1 /\ DOMAIN block = 1 .. L
  <2>1. Len(block) \in Nat \ {0}
    BY <1>1, EmptySeq, Zenon
  <2>2. DOMAIN block = 1 .. Len(block)
    BY <1>1, LenProperties, Zenon
  <2> QED BY <2>1, <2>2
<1>a. \A i \in 1 .. L : block[i] \in S
  BY <1>1, ElementOfSeq, Zenon DEF L
<1>b. \A b : b \in Seq(S) /\ Len(b) = L /\ (\A j \in 1 .. L : b[j] = block[j]) => b = block
  BY <1>1, SeqEqual DEF L
<1> HIDE DEF L
<1>3. PICK f : FileByLine(f, digests, Builder(<<>>, o), block, L)
  BY <1>2, FileUnrolled, Zenon
<1> DEFINE Beginning(b, i) == b \in Seq(S) /\ Len(b) = i /\ \A j \in 1 .. i : b[j] = block[j]
           T == {i \in Nat : \E b : Beginning(b, i) /\ f[i] = Builder(b, o)}
<1>4. 0 \in T
  <2>1. f[0] = Builder(<<>>, o)
    BY <1>3 DEF FileByLine
  <2>2. Beginning(<<>>, 0)
    OBVIOUS
  <2> HIDE DEF Beginning
  <2> QED BY <2>1, <2>2
<1>5. ASSUME NEW i \in 0 .. L - 1, NEW b, Beginning(b, i)
      PROVE  Beginning(Append(b, block[i + 1]), i + 1)
  <2> DEFINE l == block[i + 1]
  <2>1. l \in S /\ i + 1 \in 1 .. L
    BY <1>2, <1>a
  <2> HIDE DEF l
  <2>2. Append(b, l) \in Seq(S) /\ Len(Append(b, l)) = i + 1
    BY <1>5, <2>1
  <2>3. \A j \in 1 .. i + 1 : Append(b, l)[j] = block[j]
    BY <1>5, <2>1 DEF l
  <2> QED BY <2>2, <2>3 DEF l
<1>6. ASSUME NEW i \in 0 .. L - 2, i \in T PROVE i + 1 \in T
  <2>1. PICK b : Beginning(b, i) /\ f[i] = Builder(b, o)
    BY <1>6
  <2> DEFINE l == block[i + 1]
             bl == Append(b, l)
             s == Builder(b, o)
  <2>2. i + 1 \in 1 .. L /\ i + 1 # L /\ (i + 1) - 1 = i /\ i + 1 \in Nat /\ i \in 0 .. L - 1
    BY <1>2
  <2>3. f[i + 1] = FileLine(digests, s, l)
    BY <1>3, <2>1, <2>2 DEF FileByLine
  <2>4. l.kw # "id ed25519"
    BY <1>1, <1>2, <2>2
  <2>5. Beginning(bl, i + 1)
    <3> HIDE DEF Beginning
    <3> QED BY <1>5, <2>1, <2>2
  <2> HIDE DEF l, bl, Beginning
  <2>6. s.builder = b /\ [s EXCEPT !.builder = bl] = Builder(bl, o)
    BY DEF Builder
  <2> HIDE DEF s
  <2>7. FileLine(digests, s, l) = Builder(bl, o)
    BY <2>4, <2>6 DEF FileLine, bl
  <2> QED BY <2>2, <2>3, <2>5, <2>7
<1>7. L - 1 \in T
  <2> DEFINE k == L - 1
  <2>1. k \in Nat /\ k - 1 = L - 2
    BY <1>2
  <2>2. \A i \in 0 .. k : i \in T
    <3> HIDE DEF T, k
    <3>1. \A i \in 0 .. k - 1 : i \in T => i + 1 \in T
      BY <1>6, <2>1
    <3> QED BY <1>4, <2>1, <3>1, UpTo, Zenon
  <2> HIDE DEF T
  <2> QED BY <2>1, <2>2
<1>8. f[L] = Builder(<<>>, [o EXCEPT ![x] = <<ParseMicrodescBlock(block)>>])
  <2>0. PICK b : Beginning(b, L - 1) /\ f[L - 1] = Builder(b, o)
    BY <1>7
  <2> DEFINE l == block[L]
             s == Builder(b, o)
             found == {i \in DOMAIN digests : digests[i] = DigestOf(block)}
             last == CHOOSE i \in found : \A j \in found : j <= i
  <2>1. f[L] = FileLine(digests, s, l)
    <3>1. L \in 1 .. L
      BY <1>2
    <3> QED BY <1>3, <2>0, <3>1 DEF FileByLine
  <2>2. l.kw = "id ed25519"
    <3>1. L \in DOMAIN block
      BY <1>2
    <3> QED BY <1>1, <3>1
  <2>3. Append(b, l) = block
    <3>1. L - 1 \in 0 .. L - 1 /\ (L - 1) + 1 = L
      BY <1>2
    <3>2. Beginning(Append(b, block[(L - 1) + 1]), (L - 1) + 1)
      <4> HIDE DEF Beginning
      <4> QED BY <1>5, <2>0, <3>1
    <3>3. Beginning(Append(b, l), L)
      <4> HIDE DEF Beginning
      <4> QED BY <3>1, <3>2
    <3> HIDE DEF l
    <3> QED BY <1>b, <3>3
  <2>4. DigestOf(block) = dg
    <3>1. dg \in DOMAIN Blocks /\ Blocks[dg] = block
      BY DEF block
    <3>2. \A d \in DOMAIN Blocks : Blocks[d] = block <=> d = dg
      BY <1>1, <3>1
    <3> HIDE DEF dg
    <3> QED BY <3>1, <3>2 DEF DigestOf
  <2>5. found = {x}
    BY <2>4
  <2>6. last = x
    BY <2>5
  <2>7. s.builder = b /\ s.out = o
    BY DEF Builder
  <2> HIDE DEF s, l
  <2>8. FileLine(digests, s, l) = [builder |-> <<>>, out |-> [s.out EXCEPT ![last] = <<ParseMicrodescBlock(block)>>]]
    <3>1. ~ (l.kw # "id ed25519" \/ found = {})
      BY <2>2, <2>5
    <3>2. Append(s.builder, l) = block
      BY <2>3, <2>7
    <3> QED BY <3>1, <3>2 DEF FileLine
  <2> HIDE DEF last, found
  <2> QED BY <2>1, <2>6, <2>7, <2>8 DEF Builder
<1>9. Reading(digests, Builder(<<>>, o), block) = f[L]
  BY <1>3 DEF FileByLine
<1> QED BY <1>8, <1>9 DEF block, BlockPlaced

\* When the answer holds every block that was asked for, in whatever order,
\* every place is filled.
Filled(digests, o) == \A x \in DOMAIN digests : o[x] = <<ParseMicrodescBlock(Blocks[digests[x]])>>

\* An answer with every block, in any order and some of them twice, fills every
\* place.
LEMMA WholeAnswerRead ==
  ASSUME NEW n \in Nat, NEW digests, DOMAIN digests = 1 .. n,
         \A i, j \in 1 .. n : i # j => digests[i] # digests[j],
         \A i \in 1 .. n : digests[i] \in DOMAIN Blocks,
         NEW m \in Nat, NEW o, DOMAIN o = 1 .. m,
         \A i \in 1 .. m : \E x \in 1 .. n : o[i] = digests[x],
         \A x \in 1 .. n : \E i \in 1 .. m : o[i] = digests[x]
  PROVE  Filled(digests, ParseMicrodescFile(Answer(o), digests))
<1> DEFINE Placement(x) == <<ParseMicrodescBlock(Blocks[digests[x]])>>
           o0 == [i \in DOMAIN digests |-> <<>>]
           base == Builder(<<>>, o0)
           Good(s, k) == \E out : /\ s = Builder(<<>>, out) /\ DOMAIN out = 1 .. n
                                  /\ \A i \in 1 .. k, x \in 1 .. n : o[i] = digests[x] => out[x] = Placement(x)
<1>1. PICK f : BlockByBlock(f, o, m)
  BY AnswerUnrolled, Zenon
<1>2. PICK S : \A i \in 0 .. m : f[i] \in Seq(S) /\ (i > 0 => Blocks[o[i]] \in Seq(S))
  <2>1. \A i \in 1 .. m : o[i] \in DOMAIN Blocks
    OBVIOUS
  <2> QED BY <1>1, <2>1, AnswerIs, Zenon
<1> DEFINE T == {k \in Nat : Good(Reading(digests, base, f[k]), k)}
<1>3. 0 \in T
  <2>1. f[0] = <<>>
    BY <1>1 DEF BlockByBlock
  <2>2. Reading(digests, base, <<>>) = base
    <3>1. DOMAIN <<>> = 1 .. 0 /\ 0 \in Nat
      OBVIOUS
    <3> HIDE DEF base
    <3>2. PICK g : FileByLine(g, digests, base, <<>>, 0)
      BY <3>1, FileUnrolled, Zenon
    <3> QED BY <3>2 DEF FileByLine
  <2>3. Good(base, 0)
    OBVIOUS
  <2> HIDE DEF Good, base
  <2> QED BY <2>1, <2>2, <2>3
<1>4. ASSUME NEW k \in 0 .. m - 1, k \in T PROVE k + 1 \in T
  <2>1. k + 1 \in 1 .. m /\ (k + 1) - 1 = k /\ k + 1 \in Nat /\ k \in 0 .. m /\ k + 1 \in 0 .. m /\ k + 1 > 0
    OBVIOUS
  <2> DEFINE b == Blocks[o[k + 1]]
             s == f[k]
             u == f[k + 1]
  <2>2. u = s \o b
    BY <1>1, <2>1 DEF BlockByBlock
  <2>3. s \in Seq(S) /\ b \in Seq(S)
    BY <1>2, <2>1
  <2>4. PICK out : /\ Reading(digests, base, s) = Builder(<<>>, out) /\ DOMAIN out = 1 .. n
                   /\ \A i \in 1 .. k, x \in 1 .. n : o[i] = digests[x] => out[x] = Placement(x)
    BY <1>4
  <2>5. PICK x \in 1 .. n : o[k + 1] = digests[x]
    BY <2>1
  <2> DEFINE out2 == [out EXCEPT ![x] = Placement(x)]
  <2>6. Reading(digests, Builder(<<>>, out), b) = Builder(<<>>, out2)
    <3>1. digests[x] \in DOMAIN Blocks
      OBVIOUS
    <3>2. BlockPlaced(digests, out, x)
      BY <3>1, BlockRead, Zenon
    <3> QED BY <2>5, <3>2 DEF BlockPlaced
  <2> HIDE DEF b, s, u, base, Placement
  <2>7. Reading(digests, base, u) = Reading(digests, Reading(digests, base, s), b)
    <3> DEFINE x1 == Len(s)
               x2 == Len(b)
    <3>1. x1 \in Nat /\ x2 \in Nat /\ DOMAIN s = 1 .. x1 /\ DOMAIN b = 1 .. x2
      BY <2>3
    <3>2. Concats(u, s, b, x1, x2, S)
      BY <2>2, <2>3, ConcatIs, Zenon
    <3> HIDE DEF x1, x2
    <3>3. DOMAIN u = 1 .. x1 + x2 /\ (\A i \in 1 .. x1 : u[i] = s[i]) /\ (\A i \in 1 .. x2 : u[x1 + i] = b[i])
      <4>1. DOMAIN u = 1 .. x1 + x2 /\ (\A i \in 1 .. x1 + x2 : u[i] = IF i <= x1 THEN s[i] ELSE b[i - x1])
        BY <3>2, Zenon DEF Concats
      <4>2. ASSUME NEW i \in 1 .. x1 PROVE u[i] = s[i]
        <5>1. i \in 1 .. x1 + x2 /\ i <= x1
          BY <3>1
        <5> QED BY <4>1, <5>1
      <4>3. ASSUME NEW i \in 1 .. x2 PROVE u[x1 + i] = b[i]
        <5>1. x1 + i \in 1 .. x1 + x2 /\ ~ (x1 + i <= x1) /\ (x1 + i) - x1 = i
          BY <3>1
        <5> QED BY <4>1, <5>1
      <4> QED BY <4>1, <4>2, <4>3
    <3>4. ReadInTwo(digests, base, s, b, u)
      BY <3>1, <3>3, ReadInParts, ZenonT(30)
    <3> QED BY <3>4 DEF ReadInTwo
  <2>8. Reading(digests, base, u) = Builder(<<>>, out2)
    BY <2>4, <2>6, <2>7
  <2>9. DOMAIN out2 = 1 .. n
    BY <2>4
  <2>10. ASSUME NEW i \in 1 .. k + 1, NEW y \in 1 .. n, o[i] = digests[y] PROVE out2[y] = Placement(y)
    <3>1. CASE y = x
      BY <2>4, <3>1
    <3>2. CASE y # x
      <4>1. i # k + 1
        BY <2>5, <2>10, <3>2
      <4>2. i \in 1 .. k
        BY <4>1
      <4>3. out[y] = Placement(y)
        BY <2>4, <2>10, <4>2
      <4> QED BY <2>4, <3>2, <4>3
    <3> QED BY <3>1, <3>2
  <2> HIDE DEF out2
  <2>11. Good(Reading(digests, base, u), k + 1)
    BY <2>8, <2>9, <2>10
  <2> HIDE DEF Good
  <2> QED BY <2>1, <2>11 DEF u
<1>5. m \in T
  <2>1. \A k \in 0 .. m : k \in T
    <3> HIDE DEF T
    <3> QED BY <1>3, <1>4, UpTo
  <2> HIDE DEF T
  <2> QED BY <2>1
<1>6. PICK out : /\ Reading(digests, base, f[m]) = Builder(<<>>, out) /\ DOMAIN out = 1 .. n
                 /\ \A i \in 1 .. m, x \in 1 .. n : o[i] = digests[x] => out[x] = Placement(x)
  BY <1>5
<1>7. ParseMicrodescFile(Answer(o), digests) = out
  <2>1. Answer(o) = f[m]
    BY <1>1 DEF BlockByBlock
  <2>2. ParseMicrodescFile(Answer(o), digests) = Reading(digests, base, Answer(o)).out
    BY DEF ParseMicrodescFile, Reading, Builder
  <2> HIDE DEF base
  <2> QED BY <1>6, <2>1, <2>2 DEF Builder
<1> QED BY <1>6, <1>7 DEF Filled

\* What GetMicrodescriptors may return for a chunk.
LEMMA DescriptorsRead ==
  ASSUME NEW n \in Nat, NEW chunk \in [1 .. n -> DOMAIN Blocks],
         NEW answer \in Descriptors(chunk)
  PROVE  /\ Placed(chunk, ParseMicrodescFile(answer, chunk))
         /\ scenario.whole = TRUE /\ (\A i, j \in 1 .. n : i # j => chunk[i] # chunk[j])
              => Filled(chunk, ParseMicrodescFile(answer, chunk))
<1>0. PICK found \in SUBSET ToSet(chunk) :
        /\ \E o \in SetToSeqs(found) : answer = Answer(o)
        /\ scenario.whole = TRUE => found = ToSet(chunk)
  BY DEF Descriptors, Answers, AnswersWith, Answer
<1>1. PICK o \in SetToSeqs(found) : answer = Answer(o)
  BY <1>0
<1> DEFINE m == Cardinality(found)
<1>2. IsFiniteSet(found) /\ m \in Nat
  <2>1. IsFiniteSet(ToSet(chunk))
    <3>1. chunk \in Surjection(1 .. n, ToSet(chunk))
      BY DEF Surjection, ToSet
    <3>2. IsFiniteSet(1 .. n)
      BY FS_Interval
    <3> QED BY <3>1, <3>2, FS_Surjection
  <2>2. IsFiniteSet(found)
    BY <2>1, FS_Subset
  <2> QED BY <2>2, FS_CardinalityType
<1>3. o \in [1 .. m -> found] /\ \A i, j \in 1 .. m : i # j => o[i] # o[j]
  BY DEF SetToSeqs
<1> HIDE DEF m
<1>4. \A i \in 1 .. m : \E x \in 1 .. n : o[i] = chunk[x]
  BY <1>3 DEF ToSet
<1>5. \A i \in 1 .. m : o[i] \in DOMAIN Blocks
  BY <1>4
<1>6. PICK f : BlockByBlock(f, o, m)
  BY <1>2, <1>3, AnswerUnrolled
<1>7. PICK S : \A i \in 0 .. m : f[i] \in Seq(S)
  <2>1. DOMAIN o = 1 .. m
    BY <1>3
  <2>2. \E S : \A i \in 0 .. m : f[i] \in Seq(S) /\ (i > 0 => Blocks[o[i]] \in Seq(S))
    BY <1>2, <1>5, <1>6, <2>1, AnswerIs, Zenon
  <2> QED BY <2>2
<1>8. answer \in Seq(S)
  <2>1. m \in 0 .. m /\ answer = f[m]
    BY <1>1, <1>2, <1>6 DEF BlockByBlock
  <2> QED BY <1>7, <2>1
<1>9. Placed(chunk, ParseMicrodescFile(answer, chunk))
  <2>1. Len(answer) \in Nat /\ DOMAIN answer = 1 .. Len(answer)
    BY <1>8
  <2> QED BY <2>1, FileRead, Zenon
<1>10. ASSUME scenario.whole = TRUE, \A i, j \in 1 .. n : i # j => chunk[i] # chunk[j]
       PROVE  Filled(chunk, ParseMicrodescFile(answer, chunk))
  <2>1. found = ToSet(chunk)
    BY <1>0, <1>10, Zenon
  <2>2. o \in Surjection(1 .. m, found)
    <3>1. o \in Injection(1 .. m, found)
      BY <1>3 DEF Injection, IsInjective
    <3>2. Cardinality(1 .. m) = m
      BY <1>2, FS_Interval
    <3> QED BY <1>2, <3>1, <3>2, FS_Injection DEF m
  <2>3. \A x \in 1 .. n : \E i \in 1 .. m : o[i] = chunk[x]
    BY <2>1, <2>2 DEF Surjection, ToSet
  <2>4. DOMAIN o = 1 .. m
    BY <1>3
  <2>5. \A i \in 1 .. n : chunk[i] \in DOMAIN Blocks
    OBVIOUS
  <2>6. DOMAIN chunk = 1 .. n
    OBVIOUS
  <2>7. Filled(chunk, ParseMicrodescFile(Answer(o), chunk))
    BY <1>2, <1>4, <1>10, <2>3, <2>4, <2>5, <2>6, WholeAnswerRead, Zenon
  <2> QED BY <1>1, <2>7
<1> QED BY <1>9, <1>10, Zenon
-----------------------------------------------------------------------------
(* The inductive invariant.                                                *)

\* A relay's record has its fields, and says what its entry and, so far, its
\* microdescriptor say.
Described(r) ==
    LET m == ParseMicrodescBlock(Blocks[r.digest])
    IN /\ r.ports \in SUBSET (0 .. MaxPort)
       /\ r.ports = {} \/ m.exitRules = <<r.ports>>
       /\ r.ntor \in {"", m.ntor}
       /\ r.ed \in {"", m.ed}

Fielded(r) ==
    r = RouterStatusOf(r.id, r.ipLevel, r.flags, r.given, r.bw, r.digest, r.ports, r.ntor, r.ed, r.familys)

\* What relays inherit, at relay i of a document.
Inherited(h, es, i) ==
    /\ h[1] = UNION {es[x].flags : x \in 1 .. i}
    /\ \A f \in Optional : GivenLast(h[2][f], f, es, i)

\* The relay is the one of entry i.
Own(r, es, i) ==
    /\ Fielded(r)
    /\ r.id = es[i].id /\ r.ipLevel = IPLevel(es[i].ip) /\ r.bw = es[i].bw /\ r.digest = es[i].digest
    /\ \E h : Inherited(h, es, i) /\ r.flags = h[1] /\ r.given = h[2]
    /\ Described(r)

OwnRelays(rs) ==
    /\ Len(rs) \in Nat /\ rs = [i \in 1 .. Len(rs) |-> rs[i]]
    /\ \E d \in Documents : Len(rs) <= Len(d.entries) /\ \A i \in 1 .. Len(rs) : Own(rs[i], d.entries, i)

Published(c) ==
    /\ c = Cns(c.validAfter, c.freshUntil, c.validUntil, c.relays, c.weights)
    /\ c.validAfter \in {NoTime, 0} /\ c.freshUntil \in {NoTime, Fresh}
    /\ c.validUntil \in {NoTime, Fresh + Valid}
    /\ c.weights \in [Weights -> Nat]
    /\ OwnRelays(c.relays)

\* No microdescriptor was applied to the relay.
Keyless(r) == r.ed = ""

Complete(r) ==
    LET m == ParseMicrodescBlock(Blocks[r.digest])
    IN m.ntor # "invalid" => r.ntor = m.ntor /\ r.ed = m.ed

AgeOK(a) == a \in 0 .. 2 * (Fresh + Valid)

Stored(c, a) == [cns |-> c, age |-> a]

ConsensusInv ==
    /\ AgeOK(age)
    /\ cns = <<>> \/ (cns = <<cns[1]>> /\ Published(cns[1]))
    /\ \/ pending = <<>>
       \/ /\ pending = <<Stored(pending[1].cns, pending[1].age)>>
          /\ Published(pending[1].cns) /\ AgeOK(pending[1].age)

BootAt(pc, i, desc, k, half) == [pc |-> pc, i |-> i, desc |-> desc, k |-> k, half |-> half]
JobAt(pc, timer, next, failed) == [pc |-> pc, timer |-> timer, next |-> next, failed |-> failed]

\* What is going on at the same time.
PhasesInv ==
    /\ scenario \in Scenarios
    /\ link \in {"up", "dead", "closed"}
    /\ boot = BootAt(boot.pc, boot.i, boot.desc, boot.k, boot.half)
    /\ boot.pc \in {"idle", "chunk", "apply", "done"} /\ boot.half \in {1, 2}
    /\ job = JobAt(job.pc, job.timer, job.next, job.failed)
    /\ job.pc \in {"none", "loop", "wait", "fetch", "store", "ended"}
    /\ job.next \in {"loop", "fetch"}
    /\ job.timer \in 0 .. Fresh + Valid
    /\ boot.pc # "idle" => cns # <<>>
    /\ job.pc # "none" => boot.pc = "done"
    /\ job.pc = "store" <=> pending # <<>>

\* The microdescriptor of the relay at index i.
MicrodescAt(i) == ParseMicrodescBlock(Blocks[Relays[i].digest])

\* The chunk's answer, at the places of its relays.
ChunkInv ==
    LET n == Len(boot.desc)
    IN /\ n \in Nat /\ boot.k <= n + 1
       /\ n = IF boot.i + Chunk < Len(Relays) THEN Chunk ELSE Len(Relays) - boot.i
       /\ \A x \in 1 .. n : /\ boot.desc[x] \in {<<>>, <<MicrodescAt(boot.i + x)>>}
                            /\ scenario.whole = TRUE => boot.desc[x] # <<>>
       /\ boot.half = 2 => /\ boot.k <= n /\ boot.desc[boot.k] # <<>>
                           /\ Relays[Index].ntor = MicrodescAt(Index).ntor

\* How far BootstrapOneConn has come.
BootInv ==
    boot.pc \in {"chunk", "apply"} =>
      /\ boot.i \in Nat /\ boot.k \in Nat \ {0}
      /\ \A j \in 1 .. Len(Relays) : j >= Index => Keyless(Relays[j])
      /\ scenario.whole = TRUE => \A j \in 1 .. Len(Relays) : j < Index => Complete(Relays[j])
      /\ boot.pc = "chunk" => boot.k = 1
      /\ boot.pc = "apply" => ChunkInv

SelectorAt(pc, src, arr, len, weights, longLive, port, left, guard, exit, middles, full) ==
    [pc |-> pc, src |-> src, arr |-> arr, len |-> len, weights |-> weights, longLive |-> longLive,
     port |-> port, left |-> left, guard |-> guard, exit |-> exit, middles |-> middles, full |-> full]

\* What a Selector's slice is a slice of.
Pointed == Slice(sel.src)

Source ==
    \/ sel.src = "cns" /\ cns # <<>>
    \/ sel.src = "pending" /\ pending # <<>>
    \/ sel.src = "old" /\ OwnRelays(sel.arr)

\* The relays of a path: no two in one /16, all with keys, and the last one
\* lets the port through.
Sound(rs, q, port) ==
    /\ \A a, b \in 1 .. Len(q) : a # b => rs[q[a]].ipLevel # rs[q[b]].ipLevel
    /\ \A a \in 1 .. Len(q) : HaveAllKeys(rs[q[a]])
    /\ port \in rs[q[Len(q)]].ports

SoFar == IF sel.pc = "done" THEN sel.full ELSE Append(sel.full, sel.exit)

SelectorInv ==
    /\ sel = SelectorAt(sel.pc, sel.src, sel.arr, sel.len, sel.weights, sel.longLive, sel.port,
                        sel.left, sel.guard, sel.exit, sel.middles, sel.full)
    /\ sel.pc \in {"none", "ready", "guard", "middle", "done", "failed", "wild"}
    /\ sel.len \in Nat
    /\ sel.guard \in 0 .. sel.len /\ sel.exit \in 0 .. sel.len
    /\ sel.middles \in Seq(1 .. sel.len) /\ sel.full \in Seq(1 .. sel.len)
    /\ sel.pc \in {"none", "wild"} => sel.src = "cns"
    /\ sel.pc \notin {"none", "wild"} =>
         /\ Source /\ sel.len <= Len(Pointed)
         /\ sel.weights \in [Weights -> Nat]
    /\ sel.pc \in {"guard", "middle", "done"} =>
         /\ sel.port \in UserPorts
         /\ SoFar # <<>> /\ Sound(Pointed, SoFar, sel.port)
    /\ sel.pc \in {"guard", "middle"} =>
         /\ sel.exit # 0 /\ sel.left \in Nat \ {0}
         /\ \A a \in 1 .. Len(SoFar) : SoFar[a] \in Chosen(sel)
    /\ sel.pc = "guard" => sel.full = <<>>

Inv == ConsensusInv /\ PhasesInv /\ BootInv /\ FetchedInTime /\ SelectorInv

-----------------------------------------------------------------------------
(* A consensus as it is fetched.                                           *)

LEMMA UnkeyedIs ==
  ASSUME NEW e, NEW h, NEW bw, NEW dg, NEW t, t = Unkeyed(e, h, bw, dg), NEW nt, nt = ""
  PROVE  Fields(t, e.id, IPLevel(e.ip), h[1], h[2], bw, dg, {}, nt, nt, {})
<1>1. t = RouterStatusOf(e.id, IPLevel(e.ip), h[1], h[2], bw, dg, {}, nt, nt, {})
  BY Zenon DEF Unkeyed
<1> QED BY <1>1, RelayIs, Zenon

\* What is built of its own fields is whole.
LEMMA WholeIs ==
  ASSUME NEW id, NEW lvl, NEW fl, NEW gi, NEW bw, NEW dg, NEW po, NEW nt, NEW ed, NEW fa,
         NEW t, t = RouterStatusOf(id, lvl, fl, gi, bw, dg, po, nt, ed, fa)
  PROVE  Fielded(t)
BY DEF RouterStatusOf, Fielded

LEMMA UnkeyedOwn ==
  ASSUME NEW es, NEW i, NEW h, Inherits(h, es, i, 6), NEW t, t = Unkeyed(es[i], h, es[i].bw, es[i].digest)
  PROVE  Own(t, es, i) /\ Keyless(t)
<1> DEFINE e == es[i]
<1>1. PICK nt : nt = ""
  OBVIOUS
<1> HIDE DEF e
<1>2. Fields(t, e.id, IPLevel(e.ip), h[1], h[2], e.bw, e.digest, {}, nt, nt, {})
  BY <1>1, UnkeyedIs, Zenon DEF e
<1>3. Fielded(t)
  <2>1. t = RouterStatusOf(e.id, IPLevel(e.ip), h[1], h[2], e.bw, e.digest, {}, nt, nt, {})
    BY <1>1, Zenon DEF Unkeyed, e
  <2> QED BY <2>1, WholeIs, Zenon
<1>4. /\ t.id = e.id /\ t.ipLevel = IPLevel(e.ip) /\ t.bw = e.bw /\ t.digest = e.digest
      /\ t.flags = h[1] /\ t.given = h[2] /\ t.ports = {} /\ t.ntor = nt /\ t.ed = nt
  BY <1>2 DEF Fields
<1>5. {} \in SUBSET (0 .. MaxPort)
  OBVIOUS
<1>6. Described(t)
  BY <1>1, <1>4, <1>5, Zenon DEF Described
<1>7. Keyless(t)
  BY <1>1, <1>4, Zenon DEF Keyless
<1>8. Inherited(h, es, i)
  <2>1. 6 >= 4 /\ GivenBy(6) = Optional
    BY DEF GivenBy
  <2> QED BY <2>1 DEF Inherits, Inherited
<1> QED BY <1>3, <1>4, <1>6, <1>7, <1>8, Zenon DEF Own, e

\* The relays as they were listed are their own, and none has keys.
LEMMA ListedOwn ==
  ASSUME NEW d \in Documents, NEW k \in Nat, k <= Len(d.entries), NEW rs, Listed(rs, d.entries, k)
  PROVE  OwnRelays(rs) /\ \A i \in 1 .. Len(rs) : Keyless(rs[i])
<1> DEFINE es == d.entries
<1>1. PICK h : /\ rs = [x \in 1 .. k |-> Unkeyed(es[x], h[x], es[x].bw, es[x].digest)]
               /\ \A x \in 1 .. k : Inherits(h[x], es, x, 6)
  BY DEF Listed
<1>2. Len(rs) = k
  BY <1>1
<1>3. ASSUME NEW x \in 1 .. k PROVE Own(rs[x], es, x) /\ Keyless(rs[x])
  <2>1. rs[x] = Unkeyed(es[x], h[x], es[x].bw, es[x].digest) /\ Inherits(h[x], es, x, 6)
    BY <1>1
  <2> QED BY <2>1, UnkeyedOwn, Zenon
<1>4. rs = [x \in 1 .. k |-> rs[x]]
  BY <1>1
<1> QED BY <1>2, <1>3, <1>4 DEF OwnRelays

LEMMA CnsIs ==
  ASSUME NEW va, NEW fu, NEW vu, NEW rs, NEW w, NEW c, c = Cns(va, fu, vu, rs, w)
  PROVE  /\ c.validAfter = va /\ c.freshUntil = fu /\ c.validUntil = vu /\ c.relays = rs /\ c.weights = w
         /\ \A x : [c EXCEPT !.relays = x] = Cns(va, fu, vu, x, w)
BY DEF Cns

Fetched(c) == Published(c) /\ \A i \in 1 .. Len(c.relays) : Keyless(c.relays[i])

\* Every consensus a cache may serve, broken off or not, is a published one.
LEMMA ServedIs ==
  ASSUME NEW c \in Served
  PROVE  Fetched(c)
<1>1. PICK d \in Documents : FetchedFrom(c, d)
  <2>1. c \in Whole \cup BrokenOff
    BY DEF Served
  <2> QED BY <2>1, DownloadFetched
<1>2. PICK va, fu, vu, w, k, rs :
        /\ va \in {NoTime, 0} /\ fu \in {NoTime, Fresh} /\ vu \in {NoTime, Fresh + Valid}
        /\ w \in {NoWeights, d.weights} /\ k \in 0 .. Len(d.entries)
        /\ Listed(rs, d.entries, k) /\ c = Cns(va, fu, vu, rs, w)
  BY <1>1 DEF FetchedFrom
<1>3. Len(d.entries) \in Nat /\ d.weights \in [Weights -> Nat]
  BY DocumentsAssumption
<1>4. OwnRelays(rs) /\ \A i \in 1 .. Len(rs) : Keyless(rs[i])
  <2>1. k \in Nat /\ k <= Len(d.entries)
    BY <1>2, <1>3
  <2> QED BY <1>2, <2>1, ListedOwn
<1>5. /\ c.validAfter = va /\ c.freshUntil = fu /\ c.validUntil = vu /\ c.relays = rs /\ c.weights = w
  BY <1>2, CnsIs
<1>6. w \in [Weights -> Nat]
  BY <1>2, <1>3 DEF NoWeights
<1> QED BY <1>2, <1>4, <1>5, <1>6 DEF Fetched, Published
-----------------------------------------------------------------------------
(* The relays a microdescriptor is applied to.                             *)

\* One relay is exchanged for itself, further described.
Replaced(rs, i, r, rs2) ==
    /\ OwnRelays(rs2) /\ Len(rs2) = Len(rs) /\ rs2[i] = r
    /\ \A j \in 1 .. Len(rs) : j # i => rs2[j] = rs[j]

\* Replacing a relay by one that is still its own keeps the list its own.
LEMMA RelayReplaced ==
  ASSUME NEW rs, OwnRelays(rs), NEW i \in 1 .. Len(rs), NEW r,
         \A es, x : Own(rs[i], es, x) => Own(r, es, x)
  PROVE  Replaced(rs, i, r, [rs EXCEPT ![i] = r])
<1> DEFINE n == Len(rs)
           rs2 == [rs EXCEPT ![i] = r]
<1>1. n \in Nat /\ rs = [j \in 1 .. n |-> rs[j]]
  BY DEF OwnRelays
<1>2. DOMAIN rs2 = 1 .. n /\ rs2[i] = r /\ \A j \in 1 .. n : j # i => rs2[j] = rs[j]
  BY <1>1
<1>3. rs2 = [j \in 1 .. n |-> rs2[j]]
  BY <1>1
<1> HIDE DEF rs2
<1>4. Len(rs2) = n
  BY <1>1, <1>3
<1>5. OwnRelays(rs2)
  <2>1. PICK d \in Documents : n <= Len(d.entries) /\ \A j \in 1 .. n : Own(rs[j], d.entries, j)
    BY DEF OwnRelays
  <2>2. \A j \in 1 .. n : Own(rs2[j], d.entries, j)
    BY <1>2, <2>1
  <2> QED BY <1>1, <1>3, <1>4, <2>1, <2>2 DEF OwnRelays
<1> QED BY <1>2, <1>4, <1>5 DEF rs2, Replaced

\* An ntor key is stored.
LEMMA NtorStored ==
  ASSUME NEW r, Fielded(r), NEW nt, nt = ParseMicrodescBlock(Blocks[r.digest]).ntor,
         NEW r2, r2 = [r EXCEPT !.ntor = nt]
  PROVE  /\ \A es, x : Own(r, es, x) => Own(r2, es, x)
         /\ r2.ntor = nt /\ r2.ed = r.ed /\ r2.digest = r.digest
<1>1. Fields(r, r.id, r.ipLevel, r.flags, r.given, r.bw, r.digest, r.ports, r.ntor, r.ed, r.familys)
  <2>1. r = RouterStatusOf(r.id, r.ipLevel, r.flags, r.given, r.bw, r.digest, r.ports, r.ntor, r.ed, r.familys)
    BY DEF Fielded
  <2> QED BY <2>1, RelayIs, Zenon
<1>2. r2 = RouterStatusOf(r.id, r.ipLevel, r.flags, r.given, r.bw, r.digest, r.ports, nt, r.ed, r.familys)
  BY <1>1, SMTT(30) DEF Fields
<1>3. Fields(r2, r.id, r.ipLevel, r.flags, r.given, r.bw, r.digest, r.ports, nt, r.ed, r.familys)
  BY <1>2, RelayIs, ZenonT(30)
<1>4. /\ r2.id = r.id /\ r2.ipLevel = r.ipLevel /\ r2.flags = r.flags /\ r2.given = r.given /\ r2.bw = r.bw /\ r2.digest = r.digest
      /\ r2.ports = r.ports /\ r2.ntor = nt /\ r2.ed = r.ed
  BY <1>3 DEF Fields
<1>5. Fielded(r2)
  BY <1>2 DEF RouterStatusOf, Fielded
<1>6. Described(r) => Described(r2)
  BY <1>4, Zenon DEF Described
<1> QED BY <1>4, <1>5, <1>6 DEF Own

\* The rest of a microdescriptor is stored.
EdAfter(old, ed) == IF ed = "" THEN old ELSE ed

RestIs(r, r2, ed, ru, fa) ==
    r2 = [r EXCEPT !.ports = IF ru = <<>> THEN r.ports ELSE ru[1], !.familys = fa, !.ed = EdAfter(r.ed, ed)]

StoredRest(r, r2, ed) ==
    /\ \A es, x : Own(r, es, x) => Own(r2, es, x)
    /\ Described(r) => r2.ed = ed
    /\ r2.ntor = r.ntor /\ r2.digest = r.digest

LEMMA RestStored ==
  ASSUME NEW r, Fielded(r), NEW nt, NEW ed, NEW ru, NEW fa, Rules(ru),
         ParseMicrodescBlock(Blocks[r.digest]) = Microdescriptor(nt, ed, ru),
         NEW r2, RestIs(r, r2, ed, ru, fa)
  PROVE  StoredRest(r, r2, ed)
<1> DEFINE po == IF ru = <<>> THEN r.ports ELSE ru[1]
           ed2 == EdAfter(r.ed, ed)
<1> DEFINE m == ParseMicrodescBlock(Blocks[r.digest])
<1>0. /\ r2 = [r EXCEPT !.ports = po, !.familys = fa, !.ed = ed2]
      /\ ed2 = EdAfter(r.ed, ed) /\ po = IF ru = <<>> THEN r.ports ELSE ru[1]
  BY DEF RestIs
<1> HIDE DEF po, ed2
<1>1. Fields(r, r.id, r.ipLevel, r.flags, r.given, r.bw, r.digest, r.ports, r.ntor, r.ed, r.familys)
  <2>1. r = RouterStatusOf(r.id, r.ipLevel, r.flags, r.given, r.bw, r.digest, r.ports, r.ntor, r.ed, r.familys)
    BY DEF Fielded
  <2> QED BY <2>1, RelayIs, Zenon
<1>2. r2 = RouterStatusOf(r.id, r.ipLevel, r.flags, r.given, r.bw, r.digest, po, r.ntor, ed2, fa)
  <2>1. [r EXCEPT !.ports = po] = RouterStatusOf(r.id, r.ipLevel, r.flags, r.given, r.bw, r.digest, po, r.ntor, r.ed, r.familys)
    BY <1>1 DEF Fields
  <2> DEFINE r3 == [r EXCEPT !.ports = po]
  <2>2. Fields(r3, r.id, r.ipLevel, r.flags, r.given, r.bw, r.digest, po, r.ntor, r.ed, r.familys)
    BY <2>1, RelayIs, Zenon
  <2> HIDE DEF r3
  <2>3. [r3 EXCEPT !.familys = fa] = RouterStatusOf(r.id, r.ipLevel, r.flags, r.given, r.bw, r.digest, po, r.ntor, r.ed, fa)
    BY <2>2 DEF Fields
  <2> DEFINE r4 == [r3 EXCEPT !.familys = fa]
  <2>4. Fields(r4, r.id, r.ipLevel, r.flags, r.given, r.bw, r.digest, po, r.ntor, r.ed, fa)
    BY <2>3, RelayIs, Zenon
  <2> HIDE DEF r4
  <2>5. [r4 EXCEPT !.ed = ed2] = RouterStatusOf(r.id, r.ipLevel, r.flags, r.given, r.bw, r.digest, po, r.ntor, ed2, fa)
    BY <2>4 DEF Fields
  <2>6. r2 = [r4 EXCEPT !.ed = ed2]
    BY <1>0 DEF r3, r4
  <2> QED BY <2>5, <2>6
<1>3. Fields(r2, r.id, r.ipLevel, r.flags, r.given, r.bw, r.digest, po, r.ntor, ed2, fa)
  BY <1>2, RelayIs, Zenon
<1>4. /\ r2.id = r.id /\ r2.ipLevel = r.ipLevel /\ r2.flags = r.flags /\ r2.given = r.given /\ r2.bw = r.bw /\ r2.digest = r.digest
      /\ r2.ports = po /\ r2.ntor = r.ntor /\ r2.ed = ed2
  BY <1>3 DEF Fields
<1>5. Fielded(r2)
  BY <1>2 DEF RouterStatusOf, Fielded
<1>6. m.ntor = nt /\ m.ed = ed /\ m.exitRules = ru
  BY DEF Microdescriptor
<1>7. ASSUME Described(r) PROVE Described(r2) /\ r2.ed = ed
  <2>1. /\ r.ports \in SUBSET (0 .. MaxPort) /\ (r.ports = {} \/ ru = <<r.ports>>)
        /\ r.ntor \in {"", nt} /\ r.ed \in {"", ed}
    BY <1>6, <1>7, Zenon DEF Described
  <2>2. po \in SUBSET (0 .. MaxPort) /\ (po = {} \/ ru = <<po>>)
    <3>1. r.ports \in SUBSET (0 .. MaxPort) /\ (r.ports = {} \/ ru = <<r.ports>>)
      BY <2>1
    <3> QED BY <1>0, <3>1 DEF Rules
  <2>3. ed2 = ed
    BY <1>0, <2>1, Zenon DEF EdAfter
  <2>4. Described(r2)
    <3> HIDE DEF m
    <3>1. m.ntor = nt /\ m.ed = ed /\ m.exitRules = ru /\ m = ParseMicrodescBlock(Blocks[r2.digest])
      BY <1>4, <1>6 DEF m
    <3> QED BY <1>4, <2>1, <2>2, <2>3, <3>1, Zenon DEF Described
  <2> QED BY <1>4, <2>3, <2>4
<1> QED BY <1>4, <1>5, <1>7 DEF Own, StoredRest
-----------------------------------------------------------------------------
(* What the user's Selector points into.                                   *)

LEMMA PointedIs ==
  /\ sel.src = "cns" => Pointed = cns[1].relays
  /\ sel.src = "pending" => Pointed = pending[1].cns.relays
  /\ sel.src = "old" => Pointed = sel.arr
  /\ sel'.src = "cns" => Pointed' = cns'[1].relays
  /\ sel'.src = "pending" => Pointed' = pending'[1].cns.relays
  /\ sel'.src = "old" => Pointed' = sel'.arr
BY DEF Pointed, Slice

LEMMA SoFarIs ==
  ASSUME SelectorInv, sel.pc \in {"guard", "middle", "done"}
  PROVE  /\ SoFar \in Seq(1 .. sel.len) /\ Len(SoFar) \in Nat \ {0}
         /\ \A a \in 1 .. Len(SoFar) : SoFar[a] \in 1 .. sel.len
<1>1. sel.pc # "done" => sel.exit \in 1 .. sel.len
  BY DEF SelectorInv
<1>2. sel.full \in Seq(1 .. sel.len) /\ SoFar # <<>>
  BY DEF SelectorInv
<1>3. SoFar \in Seq(1 .. sel.len)
  <2>1. CASE sel.pc = "done"
    BY <1>2, <2>1 DEF SoFar
  <2>2. CASE sel.pc # "done"
    <3>1. sel.exit \in 1 .. sel.len /\ SoFar = Append(sel.full, sel.exit)
      BY <1>1, <2>2 DEF SoFar
    <3> QED BY <1>2, <3>1, AppendProperties
  <2> QED BY <2>1, <2>2
<1> DEFINE q == SoFar
<1>4. q \in Seq(1 .. sel.len) /\ q # <<>>
  BY <1>2, <1>3
<1> HIDE DEF q
<1>5. Len(q) \in Nat \ {0}
  BY <1>4, EmptySeq, Zenon
<1>6. \A a \in 1 .. Len(q) : q[a] \in 1 .. sel.len
  BY <1>4, ElementOfSeq, Zenon
<1> QED BY <1>3, <1>5, <1>6 DEF q

\* A path is sound of any relays that are the same where there are keys.
LEMMA SoundKept ==
  ASSUME NEW n \in Nat, NEW q \in Seq(1 .. n), q # <<>>, NEW port, NEW rs, NEW rs2, Sound(rs, q, port),
         \A i \in 1 .. n : ~ Keyless(rs[i]) => rs2[i] = rs[i]
  PROVE  Sound(rs2, q, port) /\ \A a \in 1 .. Len(q) : rs2[q[a]] = rs[q[a]]
<1>1. \A a \in 1 .. Len(q) : q[a] \in 1 .. n
  OBVIOUS
<1>2. \A a \in 1 .. Len(q) : HaveAllKeys(rs[q[a]])
  BY DEF Sound
<1>3. \A a \in 1 .. Len(q) : ~ Keyless(rs[q[a]])
  BY <1>2, Zenon DEF HaveAllKeys, Keyless
<1>4. \A a \in 1 .. Len(q) : rs2[q[a]] = rs[q[a]]
  BY <1>1, <1>3
<1>5. Len(q) \in 1 .. Len(q)
  OBVIOUS
<1> QED BY <1>4, <1>5, SMTT(30) DEF Sound

\* A step that leaves the Selector alone, and the relays it may have chosen.
LEMMA SelectorKept ==
  ASSUME SelectorInv, sel' = sel,
         sel.src = "pending" => pending' = pending,
         sel.src = "cns" /\ cns # <<>> =>
            /\ cns' # <<>> /\ Len(cns'[1].relays) = Len(cns[1].relays)
            /\ \A i \in 1 .. Len(cns[1].relays) : ~ Keyless(cns[1].relays[i]) => cns'[1].relays[i] = cns[1].relays[i],
         sel.pc \notin {"none", "wild"} => Len(Pointed) \in Nat
  PROVE  SelectorInv'
<1>1. SoFar' = SoFar /\ Chosen(sel)' = Chosen(sel)
  BY DEF SoFar, Chosen
<1>2. ASSUME sel.pc \notin {"none", "wild"}
      PROVE  /\ Source' /\ Len(Pointed') = Len(Pointed)
             /\ \A i \in 1 .. Len(Pointed) : ~ Keyless(Pointed[i]) => Pointed'[i] = Pointed[i]
  <2>1. Source
    BY <1>2 DEF SelectorInv
  <2>2. CASE sel.src = "cns"
    BY <2>1, <2>2, PointedIs DEF Source
  <2>3. CASE sel.src = "pending"
    BY <2>1, <2>3, PointedIs DEF Source
  <2>4. CASE sel.src = "old"
    BY <2>1, <2>4, PointedIs DEF Source
  <2> QED BY <2>1, <2>2, <2>3, <2>4 DEF Source
<1>3. ASSUME sel.pc \in {"guard", "middle", "done"} PROVE Sound(Pointed', SoFar, sel.port)
  <2> DEFINE rs == Pointed
             rs2 == Pointed'
             n == sel.len
  <2>1. n \in Nat /\ SoFar \in Seq(1 .. n) /\ SoFar # <<>> /\ Sound(rs, SoFar, sel.port) /\ n <= Len(rs)
    BY <1>3, SoFarIs DEF SelectorInv
  <2>2. \A i \in 1 .. n : ~ Keyless(rs[i]) => rs2[i] = rs[i]
    <3>1. \A i \in 1 .. n : i \in 1 .. Len(rs)
      BY <1>3, <2>1
    <3> QED BY <1>2, <1>3, <3>1
  <2> HIDE DEF rs, rs2, n
  <2>3. Sound(rs2, SoFar, sel.port)
    BY <2>1, <2>2, SoundKept, Zenon
  <2> QED BY <2>3 DEF rs2
<1>4. sel.pc \notin {"none", "wild"} => Source' /\ sel.len <= Len(Pointed')
  BY <1>2 DEF SelectorInv
<1> QED BY <1>1, <1>3, <1>4 DEF SelectorInv

\* The fields of a Selector, and what they are after one is assigned.
SelectorFields(s, pc, src, arr, len, weights, longLive, port, left, guard, exit, middles, full) ==
    /\ s.pc = pc /\ s.src = src /\ s.arr = arr /\ s.len = len /\ s.weights = weights /\ s.longLive = longLive
    /\ s.port = port /\ s.left = left /\ s.guard = guard /\ s.exit = exit /\ s.middles = middles /\ s.full = full

LEMMA SelectorIs ==
  ASSUME NEW pc, NEW src, NEW arr, NEW len, NEW weights, NEW longLive, NEW port, NEW left, NEW guard, NEW exit,
         NEW middles, NEW full,
         NEW s, s = SelectorAt(pc, src, arr, len, weights, longLive, port, left, guard, exit, middles, full)
  PROVE  SelectorFields(s, pc, src, arr, len, weights, longLive, port, left, guard, exit, middles, full)
BY DEF SelectorAt, SelectorFields

\* The Selector moves with its relays to another place.
LEMMA SelectorMoved ==
  ASSUME SelectorInv, NEW src2, NEW arr2, sel.pc \notin {"none", "wild"},
         sel' = [sel EXCEPT !.src = src2, !.arr = arr2],
         Source', Pointed' = Pointed
  PROVE  SelectorInv'
<1>1. sel' = SelectorAt(sel.pc, src2, arr2, sel.len, sel.weights, sel.longLive, sel.port,
                        sel.left, sel.guard, sel.exit, sel.middles, sel.full)
  <2>1. sel = SelectorAt(sel.pc, sel.src, sel.arr, sel.len, sel.weights, sel.longLive, sel.port,
                        sel.left, sel.guard, sel.exit, sel.middles, sel.full)
    BY DEF SelectorInv
  <2> QED BY <2>1 DEF SelectorAt
<1>2. SelectorFields(sel', sel.pc, src2, arr2, sel.len, sel.weights, sel.longLive, sel.port,
                        sel.left, sel.guard, sel.exit, sel.middles, sel.full)
  BY <1>1, SelectorIs, Zenon
<1>3. SoFar' = SoFar /\ Chosen(sel)' = Chosen(sel)
  BY <1>2 DEF SoFar, Chosen, SelectorFields
<1>4. sel' = SelectorAt(sel'.pc, sel'.src, sel'.arr, sel'.len, sel'.weights, sel'.longLive, sel'.port,
                        sel'.left, sel'.guard, sel'.exit, sel'.middles, sel'.full)
  BY <1>1, <1>2 DEF SelectorFields
<1> QED BY <1>2, <1>3, <1>4 DEF SelectorInv, SelectorFields
-----------------------------------------------------------------------------
(* Path selection.                                                         *)

\* The candidates among the first m relays: els may take the place, and able
\* are those of them that have bandwidth.
Lists(values, els, able, m) ==
    /\ Len(values) \in Nat /\ values = [k \in 1 .. Len(values) |-> values[k]]
    /\ \A k \in 1 .. Len(values) :
         values[k].ptr \in els /\ values[k].ptr \in 1 .. m /\ values[k].wb \in Nat \ {0}
    /\ \A k, l \in 1 .. Len(values) : k < l => values[k].ptr < values[l].ptr
    /\ \A i \in able : i \in 1 .. m => \E k \in 1 .. Len(values) : values[k].ptr = i

\* One more relay in the list of values keeps the order of the list.
LEMMA ListsMore ==
  ASSUME NEW values, NEW els, NEW able, NEW i \in Nat, Lists(values, els, able, i), i + 1 \in els,
         NEW wb \in Nat \ {0}, NEW values2, values2 = Append(values, [wb |-> wb, ptr |-> i + 1])
  PROVE  Lists(values2, els, able, i + 1)
<1> DEFINE n == Len(values)
           v == [wb |-> wb, ptr |-> i + 1]
<1>1. n \in Nat /\ values = [k \in 1 .. n |-> values[k]]
  BY DEF Lists
<1>2. values \in Seq({values[k] : k \in 1 .. n})
  BY <1>1
<1>3. v.wb = wb /\ v.ptr = i + 1
  OBVIOUS
<1>4. /\ Len(values2) = n + 1 /\ values2[n + 1] = v /\ (\A k \in 1 .. n : values2[k] = values[k])
      /\ values2 = [k \in 1 .. n + 1 |-> values2[k]]
  <2> DEFINE S == {values[k] : k \in 1 .. n} \cup {v}
  <2>1. values \in Seq(S)
    BY <1>2
  <2>2. v \in S
    OBVIOUS
  <2> HIDE DEF S, v, n
  <2>3. /\ values2 \in Seq(S) /\ Len(values2) = n + 1 /\ values2[n + 1] = v
        /\ \A k \in 1 .. n : values2[k] = values[k]
    BY <1>1, <2>1, <2>2, AppendProperties DEF n, v
  <2>4. values2 \in [1 .. n + 1 -> S]
    BY <2>3, LenProperties
  <2> QED BY <2>3, <2>4
<1> HIDE DEF v, n
<1>5. \A k \in 1 .. n : /\ values[k].ptr \in els /\ values[k].ptr \in 1 .. i /\ values[k].wb \in Nat \ {0}
                        /\ \A l \in 1 .. n : k < l => values[k].ptr < values[l].ptr
  BY DEF Lists, n
<1>6. \A x \in able : x \in 1 .. i => \E k \in 1 .. n : values[k].ptr = x
  BY DEF Lists, n
<1>7. ASSUME NEW x \in able, x \in 1 .. i + 1 PROVE \E k \in 1 .. n + 1 : values2[k].ptr = x
  <2>1. CASE x = i + 1
    BY <1>1, <1>3, <1>4, <2>1
  <2>2. CASE x # i + 1
    BY <1>1, <1>4, <1>6, <1>7, <2>2, SMTT(30)
  <2> QED BY <2>1, <2>2
<1>8. ASSUME NEW k \in 1 .. n + 1
      PROVE  values2[k].ptr \in els /\ values2[k].ptr \in 1 .. i + 1 /\ values2[k].wb \in Nat \ {0}
  <2>1. CASE k = n + 1
    BY <1>3, <1>4, <2>1
  <2>2. CASE k # n + 1
    BY <1>1, <1>4, <1>5, <2>2
  <2> QED BY <2>1, <2>2
<1>9. ASSUME NEW k \in 1 .. n + 1, NEW l \in 1 .. n + 1, k < l PROVE values2[k].ptr < values2[l].ptr
  <2>1. k \in 1 .. n
    BY <1>1, <1>9
  <2>2. CASE l = n + 1
    BY <1>3, <1>4, <1>5, <2>1, <2>2
  <2>3. CASE l # n + 1
    BY <1>1, <1>4, <1>5, <1>9, <2>1, <2>3
  <2> QED BY <2>2, <2>3
<1>10. n + 1 \in Nat
  BY <1>1
<1> QED BY <1>4, <1>7, <1>8, <1>9, <1>10 DEF Lists

LEMMA ListsSame ==
  ASSUME NEW values, NEW els, NEW able, NEW i \in Nat, Lists(values, els, able, i), i + 1 \notin able
  PROVE  Lists(values, els, able, i + 1)
BY DEF Lists

LEMMA BandwidthIs ==
  ASSUME NEW bw \in Nat, NEW w \in Nat
  PROVE  WeightedBandwidth(bw, w) \in Nat /\ (bw > 0 => WeightedBandwidth(bw, w) > 0)
<1>1. bw * w \in Int /\ (bw * w) \div 10000 \in Int
  OBVIOUS
<1> DEFINE x == (bw * w) \div 10000
<1>2. WeightedBandwidth(bw, w) = IF bw <= 0 THEN 0 ELSE IF w <= 0 THEN bw ELSE IF x <= 0 THEN 1 ELSE x
  BY DEF WeightedBandwidth
<1> HIDE DEF x
<1> QED BY <1>1, <1>2 DEF x

LEMMA WeightIs ==
  ASSUME NEW weights \in [Weights -> Nat], NEW place \in Places, NEW flags
  PROVE  PositionWeight(place, flags, weights) \in Nat
BY DEF PositionWeight, Places, Weights

May(list, place, port, longLive, n) == {i \in 1 .. n : Eligible(list[i], place, port, longLive)}
Able(list, place, port, longLive, n) == {i \in 1 .. n : Eligible(list[i], place, port, longLive) /\ list[i].bw > 0}

\* Values lists the eligible relays, each once and with its weight.
LEMMA ValuesRead ==
  ASSUME NEW list, NEW n \in Nat, DOMAIN list = 1 .. n, \A i \in 1 .. n : list[i].bw \in Nat,
         NEW weights \in [Weights -> Nat], NEW place \in Places, NEW port, NEW longLive
  PROVE  Lists(Values(list, weights, place, port, longLive), May(list, place, port, longLive, n),
               Able(list, place, port, longLive, n), n)
<1> DEFINE els == May(list, place, port, longLive, n)
           able == Able(list, place, port, longLive, n)
<1>1. PICK f : RelayByRelay(f, list, weights, place, port, longLive, n)
  BY ValuesUnrolled, Zenon
<1> DEFINE T == {i \in Nat : Lists(f[i], els, able, i)}
<1>2. 0 \in T
  <2>1. f[0] = <<>>
    BY <1>1 DEF RelayByRelay
  <2> HIDE DEF els, able
  <2> QED BY <2>1 DEF Lists
<1>3. ASSUME NEW i \in 0 .. n - 1, i \in T PROVE i + 1 \in T
  <2> DEFINE r == list[i + 1]
             wb == WeightedBandwidth(r.bw, PositionWeight(place, r.flags, weights))
             El == Eligible(r, place, port, longLive)
  <2>1. i + 1 \in 1 .. n /\ i \in Nat /\ Lists(f[i], els, able, i)
    BY <1>3
  <2>2. wb \in Nat /\ (r.bw > 0 => wb > 0)
    <3>1. r.bw \in Nat
      BY <2>1
    <3>2. PositionWeight(place, r.flags, weights) \in Nat
      BY WeightIs
    <3> HIDE DEF r
    <3> QED BY <3>1, <3>2, BandwidthIs
  <2>3. f[i + 1] = IF El /\ wb > 0 THEN Append(f[i], [wb |-> wb, ptr |-> i + 1]) ELSE f[i]
    <3>1. f[i + 1] = Valued(list, weights, place, port, longLive, f[i], i + 1)
      BY <1>1, <2>1 DEF RelayByRelay
    <3> QED BY <3>1 DEF Valued
  <2>4. (i + 1 \in els <=> El) /\ (i + 1 \in able <=> El /\ r.bw > 0)
    BY <2>1 DEF May, Able
  <2> HIDE DEF r, wb, El, els, able
  <2>5. CASE El /\ wb > 0
    <3>1. wb \in Nat \ {0} /\ i + 1 \in els
      BY <2>2, <2>4, <2>5
    <3>2. f[i + 1] = Append(f[i], [wb |-> wb, ptr |-> i + 1])
      BY <2>3, <2>5
    <3>3. Lists(f[i + 1], els, able, i + 1)
      BY <2>1, <3>1, <3>2, ListsMore, Zenon
    <3> QED BY <2>1, <3>3
  <2>6. CASE ~ (El /\ wb > 0)
    <3>1. i + 1 \notin able /\ f[i + 1] = f[i]
      BY <2>2, <2>3, <2>4, <2>6
    <3>2. Lists(f[i + 1], els, able, i + 1)
      BY <2>1, <3>1, ListsSame
    <3> QED BY <2>1, <3>2
  <2> QED BY <2>5, <2>6
<1>4. n \in T
  <2>1. \A k \in 0 .. n : k \in T
    <3> HIDE DEF T
    <3> QED BY <1>2, <1>3, UpTo
  <2> HIDE DEF T
  <2> QED BY <2>1
<1>5. Values(list, weights, place, port, longLive) = f[n]
  BY <1>1 DEF RelayByRelay
<1> QED BY <1>4, <1>5

\* The sums of the first weights.
Sums(f, values, n) ==
    /\ f[0] = 0 /\ \A i \in 1 .. n : f[i] = f[i - 1] + values[i].wb
    /\ \A i \in 0 .. n : f[i] \in Nat
    /\ \A i, j \in 0 .. n : i < j => f[i] < f[j]
    /\ \A k \in 0 .. n : TotalBw(SubSeq(values, 1, k)) = f[k]
    /\ TotalBw(values) = f[n]

LEMMA SumsGrow ==
  ASSUME NEW f, NEW n \in Nat, \A i \in 1 .. n : f[i - 1] \in Nat /\ f[i] \in Nat /\ f[i - 1] < f[i]
  PROVE  \A i, j \in 0 .. n : i < j => f[i] < f[j]
<1> SUFFICES ASSUME NEW i \in 0 .. n PROVE \A j \in 0 .. n : i < j => f[i] < f[j]
  OBVIOUS
<1> DEFINE T == {j \in Nat : i < j => f[i] < f[j]}
<1>1. 0 \in T
  OBVIOUS
<1>2. ASSUME NEW j \in 0 .. n - 1, j \in T PROVE j + 1 \in T
  <2>1. j + 1 \in 1 .. n /\ (j + 1) - 1 = j /\ j \in Nat
    OBVIOUS
  <2>2. f[j] \in Nat /\ f[j + 1] \in Nat /\ f[j] < f[j + 1]
    BY <2>1
  <2>3. CASE i < j
    <3>1. f[i] < f[j]
      BY <1>2, <2>3
    <3>2. f[i] \in Nat
      <4>1. i + 1 \in 1 .. n /\ (i + 1) - 1 = i
        BY <2>3
      <4> QED BY <4>1
    <3> QED BY <2>1, <2>2, <3>1, <3>2
  <2>4. CASE i = j
    BY <2>1, <2>2, <2>4
  <2>5. CASE i > j
    BY <2>1, <2>5
  <2> QED BY <2>1, <2>3, <2>4, <2>5
<1>3. \A j \in 0 .. n : j \in T
  <2> HIDE DEF T
  <2> QED BY <1>1, <1>2, UpTo
<1> QED BY <1>3

\* The running sums of the weights end in TotalBw.
LEMMA SumsAre ==
  ASSUME NEW values, NEW n \in Nat, n = Len(values), values = [k \in 1 .. n |-> values[k]],
         \A k \in 1 .. n : values[k].wb \in Nat \ {0}
  PROVE  \E f : Sums(f, values, n)
<1>1. PICK f : SumBySum(f, values, n)
  <2>1. DOMAIN values = 1 .. n
    OBVIOUS
  <2> QED BY <2>1, TotalUnrolled
<1> DEFINE T == {i \in Nat : f[i] \in Nat}
<1>2. \A i \in 0 .. n : i \in T
  <2>1. 0 \in T
    BY <1>1 DEF SumBySum
  <2>2. ASSUME NEW i \in 0 .. n - 1, i \in T PROVE i + 1 \in T
    <3>1. i + 1 \in 1 .. n /\ (i + 1) - 1 = i
      OBVIOUS
    <3>2. f[i + 1] = f[i] + values[i + 1].wb
      BY <1>1, <3>1 DEF SumBySum
    <3>3. values[i + 1].wb \in Nat
      BY <3>1
    <3> QED BY <2>2, <3>1, <3>2, <3>3
  <2> HIDE DEF T
  <2> QED BY <2>1, <2>2, UpTo
<1>3. \A i \in 1 .. n : f[i - 1] \in Nat /\ f[i] \in Nat /\ f[i - 1] < f[i]
  <2> SUFFICES ASSUME NEW i \in 1 .. n PROVE f[i - 1] \in Nat /\ f[i] \in Nat /\ f[i - 1] < f[i]
    OBVIOUS
  <2>1. i \in 0 .. n /\ i - 1 \in 0 .. n
    OBVIOUS
  <2>2. f[i - 1] \in Nat /\ f[i] \in Nat
    BY <1>2, <2>1
  <2>3. f[i] = f[i - 1] + values[i].wb
    BY <1>1 DEF SumBySum
  <2>4. values[i].wb \in Nat \ {0}
    OBVIOUS
  <2> QED BY <2>2, <2>3, <2>4
<1>4. \A i, j \in 0 .. n : i < j => f[i] < f[j]
  BY <1>3, SumsGrow
<1>5. ASSUME NEW k \in 0 .. n PROVE TotalBw(SubSeq(values, 1, k)) = f[k]
  <2> DEFINE s == SubSeq(values, 1, k)
  <2>1. DOMAIN s = 1 .. k /\ k \in Nat /\ \A i \in 1 .. k : s[i] = values[i]
    <3>1. values \in Seq({values[i] : i \in 1 .. n})
      OBVIOUS
    <3> QED BY <3>1
  <2> HIDE DEF s
  <2>2. PICK g : SumBySum(g, s, k)
    BY <2>1, TotalUnrolled
  <2> DEFINE U == {i \in Nat : g[i] = f[i]}
  <2>3. 0 \in U
    BY <1>1, <2>2 DEF SumBySum
  <2>4. ASSUME NEW i \in 0 .. k - 1, i \in U PROVE i + 1 \in U
    <3>1. i + 1 \in 1 .. n /\ i + 1 \in 1 .. k /\ (i + 1) - 1 = i
      OBVIOUS
    <3>2. f[i + 1] = f[i] + values[i + 1].wb /\ g[i + 1] = g[i] + s[i + 1].wb
      BY <1>1, <2>2, <3>1 DEF SumBySum
    <3>3. s[i + 1] = values[i + 1] /\ g[i] = f[i]
      BY <2>1, <2>4, <3>1
    <3>4. g[i + 1] = f[i + 1]
      BY <3>2, <3>3
    <3> QED BY <3>1, <3>4
  <2>5. k \in U
    <3>1. \A i \in 0 .. k : i \in U
      <4> HIDE DEF U
      <4> QED BY <2>1, <2>3, <2>4, UpTo
    <3> HIDE DEF U
    <3> QED BY <2>1, <3>1
  <2> QED BY <2>2, <2>5 DEF SumBySum, s
<1>6. \A i \in 0 .. n : f[i] \in Nat
  BY <1>2
<1> QED BY <1>1, <1>4, <1>5, <1>6 DEF Sums, SumBySum

\* The relay a number falls on.
FallsOn(r, values, k) == SelectRandom(r, values) = values[k].ptr

\* A number between two running sums falls on the value between them.
LEMMA RandomIs ==
  ASSUME NEW values, NEW n \in Nat, DOMAIN values = 1 .. n, NEW f, Sums(f, values, n),
         NEW k \in 1 .. n, NEW r \in Nat, f[k - 1] <= r, r < f[k]
  PROVE  FallsOn(r, values, k)
<1> DEFINE Sum(x) == TotalBw(SubSeq(values, 1, x))
           Falls(x) == r < Sum(x) /\ \A j \in 1 .. x - 1 : r >= Sum(j)
<1>1. \A x \in 0 .. n : Sum(x) = f[x] /\ f[x] \in Nat
  BY DEF Sums
<1>0. ASSUME NEW i \in 0 .. n, NEW j \in 0 .. n, i <= j PROVE f[i] <= f[j]
  <2> HIDE DEF Sum, Falls
  <2>1. \A x, y \in 0 .. n : x < y => f[x] < f[y]
    BY Zenon DEF Sums
  <2>2. f[i] \in Nat /\ f[j] \in Nat
    BY <1>1
  <2>3. CASE i = j
    BY <2>2, <2>3
  <2>4. CASE i < j
    BY <2>1, <2>2, <2>4
  <2> QED BY <1>0, <2>3, <2>4
<1>2. SelectRandom(r, values) = values[CHOOSE x \in 1 .. n : Falls(x)].ptr
  BY DEF SelectRandom
<1>3. Falls(k)
  <2>1. r < Sum(k)
    BY <1>1
  <2>2. ASSUME NEW j \in 1 .. k - 1 PROVE r >= Sum(j)
    <3>1. j \in 0 .. n /\ k - 1 \in 0 .. n /\ j <= k - 1
      OBVIOUS
    <3>2. f[j] <= f[k - 1]
      BY <1>0, <3>1
    <3> QED BY <1>1, <3>1, <3>2
  <2> QED BY <2>1, <2>2
<1>4. ASSUME NEW x \in 1 .. n, Falls(x) PROVE x = k
  <2>1. CASE x < k
    <3>1. x \in 0 .. n /\ k - 1 \in 0 .. n /\ x <= k - 1
      BY <2>1
    <3>2. f[x] <= f[k - 1]
      BY <1>0, <3>1
    <3> QED BY <1>1, <1>4, <3>1, <3>2
  <2>2. CASE x > k
    <3>1. k \in 1 .. x - 1 /\ k \in 0 .. n
      BY <2>2
    <3> QED BY <1>1, <1>4, <3>1
  <2> QED BY <2>1, <2>2
<1> HIDE DEF Falls
<1>5. (CHOOSE x \in 1 .. n : Falls(x)) = k
  BY <1>3, <1>4
<1> QED BY <1>2, <1>5 DEF FallsOn

\* Every number below TotalBw is between two of them.
LEMMA RandomFalls ==
  ASSUME NEW n \in Nat, NEW f, NEW values, Sums(f, values, n), NEW r \in 0 .. TotalBw(values) - 1
  PROVE  \E k \in 1 .. n : f[k - 1] <= r /\ r < f[k]
<1> DEFINE S == {k \in 1 .. n : r < f[k]}
<1>1. /\ f[0] = 0 /\ r \in 0 .. f[n] - 1 /\ f[n] \in Nat /\ r \in Nat
      /\ \A k \in 0 .. n : f[k] \in Nat
  <2>1. n \in 0 .. n
    OBVIOUS
  <2> QED BY <2>1 DEF Sums
<1>2. n \in S
  <2>1. n # 0
    BY <1>1
  <2> QED BY <1>1, <2>1
<1>3. PICK k \in S : \A j \in S : k <= j
  <2>1. S # {} /\ S \in SUBSET (1 .. n)
    BY <1>2
  <2> HIDE DEF S
  <2> QED BY <2>1, SmallestIs
<1>4. f[k - 1] <= r
  <2>1. CASE k = 1
    BY <1>1, <2>1
  <2>2. CASE k # 1
    <3>1. k - 1 \in 1 .. n /\ k - 1 \in 0 .. n /\ k - 1 \notin S
      BY <1>3, <2>2
    <3> QED BY <1>1, <3>1
  <2> QED BY <2>1, <2>2
<1> QED BY <1>3, <1>4

\* What selectRelay returns may take the place, and conflicts with none of the
\* others.
LEMMA SelectRelayIs ==
  ASSUME NEW list, NEW n \in Nat, DOMAIN list = 1 .. n, \A i \in 1 .. n : list[i].bw \in Nat,
         NEW weights \in [Weights -> Nat], NEW place \in Places, NEW port, NEW longLive, NEW others,
         NEW i \in SelectRelay(list, weights, place, port, longLive, others), i # 0
  PROVE  i \in 1 .. n /\ Eligible(list[i], place, port, longLive) /\ ~ Conflicts(list[i], others)
<1> DEFINE values == Values(list, weights, place, port, longLive)
           els == May(list, place, port, longLive, n)
           able == Able(list, place, port, longLive, n)
           N == Len(values)
<1>1. Lists(values, els, able, n)
  BY ValuesRead, Zenon
<1>2. PICK r \in 0 .. TotalBw(values) - 1 : i = SelectRandom(r, values)
  BY DEF SelectRelay
<1>3. ~ Conflicts(list[i], others)
  BY DEF SelectRelay
<1> HIDE DEF values, els, able
<1>4. N \in Nat /\ values = [k \in 1 .. N |-> values[k]] /\ \A k \in 1 .. N : values[k].wb \in Nat \ {0} /\ values[k].ptr \in els
  BY <1>1 DEF Lists
<1>5. PICK f : Sums(f, values, N)
  BY <1>4, SumsAre
<1>6. PICK k \in 1 .. N : f[k - 1] <= r /\ r < f[k]
  BY <1>2, <1>4, <1>5, RandomFalls
<1>7. r \in Nat /\ DOMAIN values = 1 .. N
  <2>1. TotalBw(values) \in Nat
    BY <1>4, <1>5 DEF Sums
  <2> QED BY <1>2, <1>4, <2>1
<1>8. FallsOn(r, values, k)
  BY <1>4, <1>5, <1>6, <1>7, RandomIs
<1>9. i \in els
  BY <1>2, <1>4, <1>6, <1>8 DEF FallsOn
<1> QED BY <1>3, <1>9 DEF els, May
-----------------------------------------------------------------------------
(* What a step leaves alone.                                               *)

LEMMA ConsensusKept ==
  ASSUME ConsensusInv, UNCHANGED <<cns, age, pending>>
  PROVE  ConsensusInv'
BY SMTT(30) DEF ConsensusInv

LEMMA BootKept ==
  ASSUME BootInv, UNCHANGED <<scenario, cns, boot>>
  PROVE  BootInv'
BY DEF BootInv, ChunkInv, Relays, Index, MicrodescAt

LEMMA SelectorUnchanged ==
  ASSUME SelectorInv, UNCHANGED <<cns, pending, sel>>
  PROVE  SelectorInv'
BY DEF SelectorInv, Source, Pointed, Slice, SoFar, Chosen

LEMMA InTimeKept ==
  ASSUME FetchedInTime, job'.pc # "wait" \/ UNCHANGED <<cns, age, job>>
  PROVE  FetchedInTime'
BY DEF FetchedInTime

\* What the other lemmas use of a list of relays that are their own.
LEMMA OwnIs ==
  ASSUME NEW rs, OwnRelays(rs)
  PROVE  /\ Len(rs) \in Nat /\ DOMAIN rs = 1 .. Len(rs) /\ rs = [i \in 1 .. Len(rs) |-> rs[i]]
         /\ \A i \in 1 .. Len(rs) : /\ rs[i].bw \in Nat /\ rs[i].digest \in DOMAIN Blocks
                                    /\ Fielded(rs[i]) /\ Described(rs[i])
         /\ \A i, j \in 1 .. Len(rs) : i # j => rs[i].digest # rs[j].digest
<1>1. Len(rs) \in Nat /\ rs = [i \in 1 .. Len(rs) |-> rs[i]]
  BY DEF OwnRelays
<1>2. DOMAIN rs = 1 .. Len(rs)
  BY <1>1
<1>3. PICK d \in Documents : Len(rs) <= Len(d.entries) /\ \A i \in 1 .. Len(rs) : Own(rs[i], d.entries, i)
  BY DEF OwnRelays
<1> DEFINE es == d.entries
<1>4. es \in Seq(ToSet(es)) /\ Len(es) \in Nat /\ DOMAIN es = 1 .. Len(es)
  BY DocumentsAssumption
<1>5. /\ \A i \in 1 .. Len(es) : es[i].bw \in Nat /\ es[i].digest \in DOMAIN Blocks
      /\ \A i, j \in 1 .. Len(es) : i # j => es[i].digest # es[j].digest
  BY <1>4, DocumentsAssumption DEF ToSet
<1>6. \A i \in 1 .. Len(rs) : i \in 1 .. Len(es)
  BY <1>1, <1>3, <1>4
<1>7. \A i \in 1 .. Len(rs) : /\ rs[i].bw = es[i].bw /\ rs[i].digest = es[i].digest
                              /\ Fielded(rs[i]) /\ Described(rs[i])
  BY <1>3 DEF Own
<1> HIDE DEF es
<1>8. ASSUME NEW i \in 1 .. Len(rs)
      PROVE  rs[i].bw \in Nat /\ rs[i].digest \in DOMAIN Blocks /\ Fielded(rs[i]) /\ Described(rs[i])
  BY <1>5, <1>6, <1>7
<1>9. ASSUME NEW i \in 1 .. Len(rs), NEW j \in 1 .. Len(rs), i # j PROVE rs[i].digest # rs[j].digest
  BY <1>5, <1>6, <1>7, <1>9
<1> QED BY <1>1, <1>2, <1>8, <1>9

\* The consensus in use, and the one that is not stored yet.
LEMMA ConsensusIs ==
  ASSUME ConsensusInv
  PROVE  /\ cns # <<>> => cns = <<cns[1]>> /\ Published(cns[1]) /\ OwnRelays(cns[1].relays)
         /\ pending # <<>> => Published(pending[1].cns) /\ OwnRelays(pending[1].cns.relays)
BY DEF ConsensusInv, Published

\* Whatever list a Selector points into, its relays are their own.
LEMMA PointedOwn ==
  ASSUME ConsensusInv, SelectorInv, sel.pc \notin {"none", "wild"}
  PROVE  OwnRelays(Pointed)
<1>1. Source
  BY DEF SelectorInv
<1> QED BY <1>1, ConsensusIs, PointedIs DEF Source

\* The relays a Selector chooses from.
LEMMA ListIs ==
  ASSUME ConsensusInv, SelectorInv, sel.pc \notin {"none", "wild"}
  PROVE  /\ sel.len \in Nat /\ sel.len <= Len(Pointed) /\ DOMAIN List = 1 .. sel.len
         /\ \A i \in 1 .. sel.len : List[i] = Pointed[i] /\ List[i].bw \in Nat
<1> DEFINE rs == Pointed
           n == sel.len
           S == {rs[i] : i \in 1 .. Len(rs)}
<1>1. OwnRelays(rs) /\ n \in Nat /\ n <= Len(rs)
  BY PointedOwn DEF SelectorInv
<1>2. List = SubSeq(rs, 1, n)
  BY DEF List, Pointed
<1> HIDE DEF rs, n
<1>3. Len(rs) \in Nat /\ rs \in Seq(S) /\ \A i \in 1 .. Len(rs) : rs[i].bw \in Nat
  BY <1>1, OwnIs
<1>4. DOMAIN List = 1 .. n /\ \A i \in 1 .. n : List[i] = rs[i]
  BY <1>1, <1>2, <1>3
<1> QED BY <1>1, <1>3, <1>4, SMTT(30) DEF rs, n

\* The slice of a Selector outlives its consensus.
LEMMA DetachedKept ==
  ASSUME ConsensusInv, SelectorInv, sel' = Detached(sel), sel.src # "pending"
  PROVE  SelectorInv'
<1>1. CASE sel.pc \in {"none", "wild"} \/ sel.src # "cns"
  <2>1. sel' = sel
    BY <1>1 DEF Detached
  <2>2. sel.pc \in {"none", "wild"} \/ sel.src = "old"
    BY <1>1 DEF SelectorInv, Source
  <2>3. sel.pc \notin {"none", "wild"} => Source' /\ Pointed' = Pointed
    BY <2>1, <2>2, PointedIs DEF SelectorInv, Source
  <2>4. SoFar' = SoFar /\ Chosen(sel)' = Chosen(sel)
    BY <2>1 DEF SoFar, Chosen
  <2> QED BY <2>1, <2>3, <2>4 DEF SelectorInv
<1>2. CASE sel.pc \notin {"none", "wild"} /\ sel.src = "cns"
  <2> DEFINE src2 == "old"
             arr2 == cns[1].relays
  <2>1. sel' = [sel EXCEPT !.src = src2, !.arr = arr2]
    BY <1>2 DEF Detached
  <2>2. sel'.src = "old" /\ sel'.arr = cns[1].relays
    <3>1. sel = SelectorAt(sel.pc, sel.src, sel.arr, sel.len, sel.weights, sel.longLive, sel.port,
                           sel.left, sel.guard, sel.exit, sel.middles, sel.full)
      BY DEF SelectorInv
    <3> QED BY <2>1, <3>1 DEF SelectorAt
  <2>3. Pointed' = Pointed
    BY <1>2, <2>2, PointedIs
  <2>4. Source'
    <3>1. OwnRelays(Pointed)
      BY <1>2, PointedOwn
    <3>2. sel'.arr = Pointed
      BY <1>2, <2>2, PointedIs
    <3> QED BY <2>2, <3>1, <3>2 DEF Source
  <2> HIDE DEF src2, arr2
  <2> QED BY <1>2, <2>1, <2>3, <2>4, SelectorMoved
<1> QED BY <1>1, <1>2

BootFields(b, pc, i, desc, k, half) ==
    /\ b.pc = pc /\ b.i = i /\ b.desc = desc /\ b.k = k /\ b.half = half
    /\ b = BootAt(b.pc, b.i, b.desc, b.k, b.half)

LEMMA BootIs ==
  ASSUME NEW pc, NEW i, NEW desc, NEW k, NEW half, NEW b, b = BootAt(pc, i, desc, k, half)
  PROVE  BootFields(b, pc, i, desc, k, half)
BY DEF BootAt, BootFields

JobFields(j, pc, timer, next, failed) ==
    /\ j.pc = pc /\ j.timer = timer /\ j.next = next /\ j.failed = failed
    /\ j = JobAt(j.pc, j.timer, j.next, j.failed)

LEMMA JobIs ==
  ASSUME NEW pc, NEW timer, NEW next, NEW failed, NEW j, j = JobAt(pc, timer, next, failed)
  PROVE  JobFields(j, pc, timer, next, failed)
BY DEF JobAt, JobFields

LEMMA AgesOK ==
  ASSUME scenario \in Scenarios, NEW a
  PROVE  /\ a \in AgesServed(FirstPhases) => AgeOK(a)
         /\ AgeOK(age) /\ a \in AgesServed({age % Fresh}) => AgeOK(a)
<1>1. Fresh \in Nat \ {0} /\ Valid \in Nat \ {0}
  BY ConsensusAssumption
<1>2. ASSUME NEW p \in 0 .. Fresh - 1, NEW lag \in {0, 1}, a = p + lag * Fresh PROVE AgeOK(a)
  <2>1. CASE lag = 0
    BY <1>1, <1>2, <2>1 DEF AgeOK
  <2>2. CASE lag = 1
    BY <1>1, <1>2, <2>2 DEF AgeOK
  <2> QED BY <2>1, <2>2
<1>3. scenario.lags \subseteq {0, 1}
  BY DirectoryAssumption
<1>4. FirstPhases \subseteq 0 .. Fresh - 1
  BY DirectoryAssumption
<1>5. AgeOK(age) => age % Fresh \in 0 .. Fresh - 1
  BY <1>1 DEF AgeOK
<1>6. a \in AgesServed(FirstPhases) => AgeOK(a)
  BY <1>2, <1>3, <1>4 DEF AgesServed
<1>7. ASSUME AgeOK(age), a \in AgesServed({age % Fresh}) PROVE AgeOK(a)
  BY <1>2, <1>3, <1>5, <1>7 DEF AgesServed
<1> QED BY <1>6, <1>7
-----------------------------------------------------------------------------
(* The steps of BootstrapOneConn.                                          *)

\* The job and the Selector that there are at first.  (Truth values are
\* parameters here too.)
LEMMA NoneAre ==
  /\ \E no : NoJob = JobAt("none", 0, "loop", no)
  /\ \E no : NoSelector = SelectorAt("none", "cns", <<>>, 0, NoWeights, no, 0, 0, 0, 0, <<>>, <<>>)
<1>1. NoJob = JobAt("none", 0, "loop", FALSE)
  BY Zenon DEF NoJob, JobAt
<1>2. NoSelector = SelectorAt("none", "cns", <<>>, 0, NoWeights, FALSE, 0, 0, 0, 0, <<>>, <<>>)
  BY Zenon DEF NoSelector, SelectorAt
<1> QED BY <1>1, <1>2, Zenon

LEMMA InitInv == Init => Inv
<1> SUFFICES ASSUME Init PROVE Inv
  OBVIOUS
<1> USE DEF Init
<1>1. ConsensusInv
  <2>1. 0 \in 0 .. 2 * (Fresh + Valid)
    BY ConsensusAssumption
  <2> QED BY <2>1 DEF ConsensusInv, AgeOK
<1>2. PICK no : job = JobAt("none", 0, "loop", no)
  BY NoneAre, Zenon
<1>3. /\ job.pc = "none" /\ job.timer = 0 /\ job.next = "loop"
      /\ job = JobAt(job.pc, job.timer, job.next, job.failed)
  <2>1. JobFields(job, "none", 0, "loop", no)
    BY <1>2, JobIs, Zenon
  <2> QED BY <2>1 DEF JobFields
<1>4. boot.pc = "idle" /\ boot.half = 1 /\ boot = BootAt(boot.pc, boot.i, boot.desc, boot.k, boot.half)
  BY DEF Idle, BootAt
<1>5. PhasesInv
  <2>1. 0 \in 0 .. Fresh + Valid
    BY ConsensusAssumption
  <2> QED BY <1>3, <1>4, <2>1 DEF PhasesInv
<1>6. BootInv
  BY <1>4 DEF BootInv
<1>7. FetchedInTime
  BY <1>3 DEF FetchedInTime
<1>8. SelectorInv
  <2>1. PICK any : sel = SelectorAt("none", "cns", <<>>, 0, NoWeights, any, 0, 0, 0, 0, <<>>, <<>>)
    BY NoneAre, Zenon
  <2>2. SelectorFields(sel, "none", "cns", <<>>, 0, NoWeights, any, 0, 0, 0, 0, <<>>, <<>>)
    BY <2>1, SelectorIs, Zenon
  <2>3. sel = SelectorAt(sel.pc, sel.src, sel.arr, sel.len, sel.weights, sel.longLive, sel.port,
                         sel.left, sel.guard, sel.exit, sel.middles, sel.full)
    BY <2>1, <2>2 DEF SelectorFields
  <2>4. /\ sel.pc = "none" /\ sel.src = "cns" /\ sel.len = 0 /\ sel.guard = 0 /\ sel.exit = 0
        /\ sel.middles = <<>> /\ sel.full = <<>>
    BY <2>2 DEF SelectorFields
  <2>5. <<>> \in Seq(1 .. sel.len)
    OBVIOUS
  <2> QED BY <2>3, <2>4, <2>5 DEF SelectorInv
<1> QED BY <1>1, <1>5, <1>6, <1>7, <1>8 DEF Inv

LEMMA BootstrapStartsInv ==
  ASSUME Inv, BootstrapStarts, scenario' = scenario
  PROVE  Inv'
<1> USE DEF BootstrapStarts
<1>1. PICK c \in Served, a \in AgesServed(FirstPhases) : cns' = <<c>> /\ age' = a
  BY DEF BootstrapStarts
<1>2. Published(c) /\ \A i \in 1 .. Len(c.relays) : Keyless(c.relays[i])
  BY ServedIs DEF Fetched
<1>3. AgeOK(age')
  BY <1>1, AgesOK DEF Inv, PhasesInv
<1>4. cns' = <<cns'[1]>> /\ cns'[1] = c /\ cns' # <<>> /\ Relays' = c.relays
  BY <1>1 DEF Relays
<1>5. ConsensusInv'
  BY <1>2, <1>3, <1>4 DEF Inv, ConsensusInv
<1>6. boot' = BootAt("chunk", 0, <<>>, 1, 1)
  BY DEF Idle, BootAt
<1>7. /\ boot'.pc = "chunk" /\ boot'.i = 0 /\ boot'.k = 1 /\ boot'.half = 1
      /\ boot' = BootAt(boot'.pc, boot'.i, boot'.desc, boot'.k, boot'.half)
  <2>1. BootFields(boot', "chunk", 0, <<>>, 1, 1)
    BY <1>6, BootIs, Zenon
  <2> QED BY <2>1 DEF BootFields
<1>8. PhasesInv'
  BY <1>4, <1>7 DEF Inv, PhasesInv
<1>9. BootInv'
  <2>1. Index' = 1
    BY <1>7 DEF Index
  <2>2. Len(Relays') \in Nat
    BY <1>2, <1>4, OwnIs DEF Published
  <2> QED BY <1>2, <1>4, <1>7, <2>1, <2>2 DEF BootInv
<1>10. FetchedInTime'
  BY InTimeKept DEF Inv
<1>11. SelectorInv'
  <2>1. sel.src # "pending"
    BY DEF Inv, PhasesInv, SelectorInv, Source
  <2> QED BY <2>1, DetachedKept DEF Inv
<1> QED BY <1>5, <1>8, <1>9, <1>10, <1>11 DEF Inv

\* What was asked for.
LEMMA ChunkIs ==
  ASSUME ConsensusInv, cns # <<>>, boot.i \in Nat, ~ ChunksEnd
  PROVE  LET chunk == ChunkOf(boot.i)
             n == IF boot.i + Chunk < Len(Relays) THEN Chunk ELSE Len(Relays) - boot.i
         IN /\ n \in Nat \ {0} /\ boot.i + n <= Len(Relays) /\ chunk \in [1 .. n -> DOMAIN Blocks]
            /\ \A x \in 1 .. n : boot.i + x \in 1 .. Len(Relays) /\ chunk[x] = Relays[boot.i + x].digest
            /\ \A x, y \in 1 .. n : x # y => chunk[x] # chunk[y]
<1> DEFINE rs == Relays
           i == boot.i
           n == IF i + Chunk < Len(rs) THEN Chunk ELSE Len(rs) - i
           ds == Digests
           chunk == ChunkOf(i)
<1>1. OwnRelays(rs)
  BY ConsensusIs DEF Relays
<1>2. /\ Len(rs) \in Nat /\ DOMAIN rs = 1 .. Len(rs)
      /\ \A x \in 1 .. Len(rs) : rs[x].digest \in DOMAIN Blocks
      /\ \A x, y \in 1 .. Len(rs) : x # y => rs[x].digest # rs[y].digest
  <2> HIDE DEF rs
  <2> QED BY <1>1, OwnIs
<1>3. Chunk \in Nat \ {0} /\ i < Len(rs)
  BY <1>2, DirectoryAssumption DEF ChunksEnd
<1>4. ds = [x \in 1 .. Len(rs) |-> rs[x].digest]
  BY <1>2 DEF Digests
<1>5. i \in Nat
  OBVIOUS
<1> HIDE DEF rs, i
<1>6. n \in Nat \ {0} /\ i + n <= Len(rs)
  <2> DEFINE L == Len(rs)
  <2>1. L \in Nat /\ i < L
    BY <1>2, <1>3
  <2> HIDE DEF L
  <2>2. (i + Chunk < L => n = Chunk) /\ (~ (i + Chunk < L) => n = L - i)
    BY DEF L
  <2> HIDE DEF n
  <2>3. n \in Nat \ {0} /\ i + n <= L
    BY <1>3, <1>5, <2>1, <2>2
  <2> QED BY <2>3 DEF L
<1>7. Len(ds) = Len(rs) /\ ds \in Seq(DOMAIN Blocks)
  BY <1>2, <1>4
<1>8. chunk = SubSeq(ds, i + 1, i + n)
  <2>1. chunk = SubSeq(ds, i + 1, IF i + Chunk < Len(ds) THEN i + Chunk ELSE Len(ds))
    BY DEF ChunkOf
  <2>2. (IF i + Chunk < Len(ds) THEN i + Chunk ELSE Len(ds)) = i + n
    BY <1>2, <1>3, <1>5, <1>7
  <2> QED BY <2>1, <2>2
<1> HIDE DEF n, chunk, ds
<1>9. \A x \in 1 .. n : i + x \in 1 .. Len(rs)
  BY <1>2, <1>5, <1>6
<1>10. chunk \in [1 .. n -> DOMAIN Blocks] /\ \A x \in 1 .. n : chunk[x] = ds[i + x]
  <2>1. \A x \in i + 1 .. i + n : ds[x] \in DOMAIN Blocks
    BY <1>2, <1>4, <1>5, <1>6
  <2> DEFINE a == i + 1
             b == i + n
  <2>2. a \in 1 .. Len(ds) /\ b \in a .. Len(ds)
    BY <1>2, <1>5, <1>6, <1>7
  <2>3. chunk = SubSeq(ds, a, b) /\ b - a + 1 = n
    BY <1>5, <1>6, <1>8
  <2> HIDE DEF a, b
  <2>4. chunk \in Seq(DOMAIN Blocks) /\ Len(chunk) = n /\ \A x \in 1 .. n : chunk[x] = ds[a + x - 1]
    BY <1>7, <2>2, <2>3, SMTT(30)
  <2>5. ASSUME NEW x \in 1 .. n PROVE chunk[x] = ds[i + x]
    <3>1. a + x - 1 = i + x
      BY <1>5, <1>6 DEF a
    <3> QED BY <2>4, <3>1
  <2> QED BY <2>4, <2>5
<1>11. \A x \in 1 .. n : chunk[x] = rs[i + x].digest
  BY <1>4, <1>9, <1>10
<1>12. ASSUME NEW x \in 1 .. n, NEW y \in 1 .. n, x # y PROVE chunk[x] # chunk[y]
  <2>1. i + x # i + y
    BY <1>5, <1>6, <1>12
  <2> QED BY <1>2, <1>9, <1>11, <2>1
<1> QED BY <1>6, <1>9, <1>10, <1>11, <1>12 DEF rs, i, n, chunk

LEMMA GetMicrodescriptorsInv ==
  ASSUME Inv, GetMicrodescriptors, scenario' = scenario
  PROVE  Inv'
<1>0. /\ boot.pc = "chunk" /\ ~ ChunksEnd /\ UNCHANGED <<link, cns, age, job, pending, sel>>
      /\ \/ boot' = Idle
         \/ \E answer \in Descriptors(ChunkOf(boot.i)) :
               boot' = [boot EXCEPT !.pc = "apply", !.k = 1, !.half = 1,
                                    !.desc = ParseMicrodescFile(answer, ChunkOf(boot.i))]
  BY Zenon DEF GetMicrodescriptors
<1>1. ConsensusInv' /\ SelectorInv' /\ FetchedInTime'
  BY <1>0, ConsensusKept, SelectorUnchanged, InTimeKept DEF Inv
<1>2. CASE boot' = Idle
  <2>1. boot' = BootAt("idle", 0, <<>>, 1, 1)
    BY <1>2 DEF Idle, BootAt
  <2>2. boot'.pc = "idle" /\ boot'.half = 1 /\ boot' = BootAt(boot'.pc, boot'.i, boot'.desc, boot'.k, boot'.half)
    <3>1. BootFields(boot', "idle", 0, <<>>, 1, 1)
      BY <2>1, BootIs, Zenon
    <3> QED BY <3>1 DEF BootFields
  <2>3. PhasesInv'
    BY <1>0, <2>2 DEF Inv, PhasesInv
  <2>4. BootInv'
    BY <2>2 DEF BootInv
  <2> QED BY <1>1, <2>3, <2>4 DEF Inv
<1>3. ASSUME NEW answer \in Descriptors(ChunkOf(boot.i)),
             boot' = [boot EXCEPT !.pc = "apply", !.k = 1, !.half = 1,
                                  !.desc = ParseMicrodescFile(answer, ChunkOf(boot.i))]
      PROVE  Inv'
  <2>0. boot' = [boot EXCEPT !.pc = "apply", !.k = 1, !.half = 1,
                             !.desc = ParseMicrodescFile(answer, ChunkOf(boot.i))]
    BY <1>3
  <2> DEFINE chunk == ChunkOf(boot.i)
             desc == ParseMicrodescFile(answer, chunk)
             n == IF boot.i + Chunk < Len(Relays) THEN Chunk ELSE Len(Relays) - boot.i
  <2>1. cns # <<>> /\ boot.i \in Nat /\ boot.k = 1 /\ ~ ChunksEnd
    BY <1>0 DEF Inv, PhasesInv, BootInv
  <2>2. /\ n \in Nat \ {0} /\ boot.i + n <= Len(Relays) /\ chunk \in [1 .. n -> DOMAIN Blocks]
        /\ \A x \in 1 .. n : boot.i + x \in 1 .. Len(Relays) /\ chunk[x] = Relays[boot.i + x].digest
        /\ \A x, y \in 1 .. n : x # y => chunk[x] # chunk[y]
    BY <2>1, ChunkIs DEF Inv
  <2> HIDE DEF n, chunk
  <2>3. Placed(chunk, desc) /\ (scenario.whole = TRUE => Filled(chunk, desc))
    <3>1. n \in Nat /\ answer \in Descriptors(chunk)
      BY <1>3, <2>2 DEF chunk
    <3> HIDE DEF desc
    <3> QED BY <2>2, <3>1, DescriptorsRead, Zenon DEF desc
  <2>4. boot' = BootAt("apply", boot.i, desc, 1, 1)
    <3>1. boot = BootAt(boot.pc, boot.i, boot.desc, boot.k, boot.half)
      BY DEF Inv, PhasesInv
    <3>2. boot' = [boot EXCEPT !.pc = "apply", !.k = 1, !.half = 1, !.desc = desc]
      BY <2>0 DEF chunk
    <3> HIDE DEF desc
    <3> QED BY <3>1, <3>2 DEF BootAt
  <2> HIDE DEF desc
  <2>5. /\ boot'.pc = "apply" /\ boot'.i = boot.i /\ boot'.desc = desc /\ boot'.k = 1 /\ boot'.half = 1
        /\ boot' = BootAt(boot'.pc, boot'.i, boot'.desc, boot'.k, boot'.half)
    <3>1. BootFields(boot', "apply", boot.i, desc, 1, 1)
      BY <2>4, BootIs, Zenon
    <3> QED BY <3>1 DEF BootFields
  <2>6. PhasesInv'
    BY <1>0, <2>5 DEF Inv, PhasesInv
  <2>7. Len(desc) = n /\ DOMAIN desc = 1 .. n
    <3>1. n \in Nat /\ DOMAIN chunk = 1 .. n
      BY <2>2
    <3>2. desc = [i \in 1 .. n |-> desc[i]]
      BY <2>3, <3>1 DEF Placed
    <3> QED BY <3>1, <3>2
  <2>8. \A x \in 1 .. n : /\ desc[x] \in {<<>>, <<MicrodescAt(boot.i + x)>>}
                          /\ scenario.whole = TRUE => desc[x] # <<>>
    <3>1. DOMAIN chunk = 1 .. n
      BY <2>2
    <3> SUFFICES ASSUME NEW x \in 1 .. n
                 PROVE  /\ desc[x] \in {<<>>, <<MicrodescAt(boot.i + x)>>}
                        /\ scenario.whole = TRUE => desc[x] # <<>>
      OBVIOUS
    <3> DEFINE m == ParseMicrodescBlock(Blocks[chunk[x]])
    <3>2. m = MicrodescAt(boot.i + x)
      BY <2>2 DEF MicrodescAt
    <3>3. desc[x] = <<>> \/ desc[x] = <<m>>
      BY <2>3, <3>1 DEF Placed
    <3>4. scenario.whole = TRUE => desc[x] = <<m>>
      BY <2>3, <3>1, Zenon DEF Filled
    <3> HIDE DEF m
    <3>5. <<m>> # <<>>
      OBVIOUS
    <3> QED BY <3>2, <3>3, <3>4, <3>5, Zenon
  <2>9. Relays' = Relays /\ Index' = Index
    BY <1>0, <2>1, <2>5 DEF Relays, Index
  <2>10. ChunkInv'
    <3>1. \A x : MicrodescAt(x)' = MicrodescAt(x)
      BY <2>9 DEF MicrodescAt
    <3> QED BY <2>2, <2>5, <2>7, <2>8, <2>9 DEF ChunkInv, n, MicrodescAt
  <2>11. BootInv'
    BY <1>0, <2>1, <2>5, <2>9, <2>10 DEF Inv, BootInv
  <2> QED BY <1>1, <2>6, <2>11 DEF Inv
<1> QED BY <1>0, <1>2, <1>3
RelaySet(i, r) == cns' = [cns EXCEPT ![1].relays[i] = r]

\* One relay of the consensus is further described: one that no path goes
\* through yet.
LEMMA RelayDescribed ==
  ASSUME ConsensusInv, SelectorInv, cns # <<>>, NEW i \in 1 .. Len(Relays), Keyless(Relays[i]), NEW r,
         \A es, x : Own(Relays[i], es, x) => Own(r, es, x),
         RelaySet(i, r), UNCHANGED <<age, pending, sel>>
  PROVE  /\ ConsensusInv' /\ SelectorInv'
         /\ cns' # <<>> /\ Len(Relays') = Len(Relays) /\ Relays'[i] = r
         /\ \A j \in 1 .. Len(Relays) : j # i => Relays'[j] = Relays[j]
<1> DEFINE c == cns[1]
           rs == c.relays
           rs2 == [rs EXCEPT ![i] = r]
           c2 == [c EXCEPT !.relays = rs2]
<1>1. cns = <<c>> /\ Published(c) /\ OwnRelays(rs) /\ Relays = rs
  BY ConsensusIs DEF Relays
<1>2. /\ OwnRelays(rs2) /\ Len(rs2) = Len(rs) /\ rs2[i] = r
      /\ \A j \in 1 .. Len(rs) : j # i => rs2[j] = rs[j]
  <2> HIDE DEF rs
  <2>1. i \in 1 .. Len(rs) /\ \A es, x : Own(rs[i], es, x) => Own(r, es, x)
    BY <1>1
  <2>2. Replaced(rs, i, r, rs2)
    BY <1>1, <2>1, RelayReplaced, Zenon
  <2> QED BY <2>2 DEF Replaced
<1>3. cns' = <<c2>>
  <2>1. cns' = [cns EXCEPT ![1] = c2]
    BY DEF RelaySet
  <2> HIDE DEF c, c2
  <2> QED BY <1>1, <2>1
<1> HIDE DEF c, rs2
<1>4. c = Cns(c.validAfter, c.freshUntil, c.validUntil, c.relays, c.weights)
  BY <1>1 DEF Published
<1>5. c2 = Cns(c.validAfter, c.freshUntil, c.validUntil, rs2, c.weights)
  BY <1>4 DEF Cns
<1> HIDE DEF c2
<1>6. /\ c2.validAfter = c.validAfter /\ c2.freshUntil = c.freshUntil /\ c2.validUntil = c.validUntil
      /\ c2.relays = rs2 /\ c2.weights = c.weights
  BY <1>5 DEF Cns
<1>7. cns' = <<c2>> /\ cns'[1] = c2 /\ cns' # <<>> /\ Relays' = rs2
  BY <1>3, <1>6 DEF Relays
<1>8. Published(c2)
  BY <1>1, <1>2, <1>5, <1>6 DEF Published
<1>9. ConsensusInv'
  BY <1>7, <1>8 DEF ConsensusInv
<1>10. Len(Relays') = Len(Relays) /\ Relays'[i] = r /\ \A j \in 1 .. Len(Relays) : j # i => Relays'[j] = Relays[j]
  BY <1>1, <1>2, <1>7
<1>11. SelectorInv'
  <2>1. sel.pc \notin {"none", "wild"} => Len(Pointed) \in Nat
    BY PointedOwn, OwnIs
  <2>2. /\ Len(cns'[1].relays) = Len(cns[1].relays)
        /\ \A j \in 1 .. Len(cns[1].relays) : ~ Keyless(cns[1].relays[j]) => cns'[1].relays[j] = cns[1].relays[j]
    <3>1. \A j \in 1 .. Len(Relays) : ~ Keyless(Relays[j]) => Relays'[j] = Relays[j]
      BY <1>10
    <3> QED BY <1>10, <3>1 DEF Relays
  <2> QED BY <1>7, <2>1, <2>2, SelectorKept
<1> QED BY <1>7, <1>9, <1>10, <1>11

BootStep(b, b2, k2, half2) == b2 = [b EXCEPT !.k = k2, !.half = half2]

\* A step of bootstrap that only moves on.
LEMMA BootMoved ==
  ASSUME NEW pc, NEW i, NEW desc, NEW k, NEW half, NEW k2, NEW half2, NEW b, BootFields(b, pc, i, desc, k, half),
         NEW b2, BootStep(b, b2, k2, half2)
  PROVE  BootFields(b2, pc, i, desc, k2, half2)
<1>0. b = BootAt(pc, i, desc, k, half)
  BY DEF BootFields
<1>1. [b EXCEPT !.k = k2] = BootAt(pc, i, desc, k2, half)
  BY <1>0 DEF BootAt
<1>2. b2 = [[b EXCEPT !.k = k2] EXCEPT !.half = half2]
  BY DEF BootStep
<1> DEFINE b1 == [b EXCEPT !.k = k2]
<1> HIDE DEF b1
<1>3. b1 = BootAt(pc, i, desc, k2, half) /\ b2 = [b1 EXCEPT !.half = half2]
  BY <1>1, <1>2 DEF b1
<1>4. b2 = BootAt(pc, i, desc, k2, half2)
  BY <1>3 DEF BootAt
<1> QED BY <1>4, BootIs, Zenon

\* The descriptor at boot.k is done with: the next one's turn.
LEMMA NextDescInv ==
  ASSUME Inv, boot.pc = "apply", boot.k <= Len(boot.desc), boot' = NextDesc, scenario' = scenario,
         cns' # <<>>, Len(Relays') = Len(Relays),
         \A j \in 1 .. Len(Relays) : j # Index => Relays'[j] = Relays[j],
         Relays'[Index].digest = Relays[Index].digest,
         scenario.whole = TRUE => Complete(Relays'[Index])
  PROVE  /\ BootInv' /\ boot'.pc = "apply"
         /\ boot' = BootAt(boot'.pc, boot'.i, boot'.desc, boot'.k, boot'.half) /\ boot'.half = 1
<1>2. BootFields(boot', "apply", boot.i, boot.desc, boot.k + 1, 1)
  <2> DEFINE i == boot.i
             desc == boot.desc
             k == boot.k
             half == boot.half
             pc == boot.pc
             k2 == k + 1
  <2>1. BootFields(boot, pc, i, desc, k, half) /\ pc = "apply"
    BY DEF Inv, PhasesInv, BootFields
  <2>2. BootStep(boot, boot', k2, 1)
    BY DEF NextDesc, BootStep
  <2> HIDE DEF i, desc, k, half, pc, k2
  <2>3. BootFields(boot', pc, i, desc, k2, 1)
    BY <2>1, <2>2, BootMoved, Zenon
  <2> QED BY <2>1, <2>3 DEF i, desc, k, k2
<1>3. /\ boot'.pc = "apply" /\ boot'.i = boot.i /\ boot'.desc = boot.desc /\ boot'.k = boot.k + 1 /\ boot'.half = 1
      /\ boot' = BootAt(boot'.pc, boot'.i, boot'.desc, boot'.k, boot'.half)
  BY <1>2 DEF BootFields
<1>4. ChunkInv /\ boot.i \in Nat /\ boot.k \in Nat \ {0} /\ Index = boot.i + boot.k
  BY DEF Inv, BootInv, Index
<1>5. Index' = Index + 1 /\ Index \in Nat
  <2> DEFINE i == boot.i
             k == boot.k
  <2>1. i \in Nat /\ k \in Nat \ {0} /\ Index = i + k
    BY <1>4, Zenon
  <2>2. Index' = boot'.i + boot'.k
    BY DEF Index
  <2>3. Index' = i + (k + 1)
    BY <1>3, <2>2, Zenon
  <2> HIDE DEF i, k
  <2> QED BY <2>1, <2>3
<1>6. \A j \in 1 .. Len(Relays) : MicrodescAt(j)' = MicrodescAt(j)
  BY DEF MicrodescAt
<1> DEFINE n == Len(boot.desc)
<1>7. /\ n \in Nat /\ n = IF boot.i + Chunk < Len(Relays) THEN Chunk ELSE Len(Relays) - boot.i
      /\ \A x \in 1 .. n : /\ boot.desc[x] \in {<<>>, <<MicrodescAt(boot.i + x)>>}
                           /\ scenario.whole = TRUE => boot.desc[x] # <<>>
  BY <1>4 DEF ChunkInv
<1>8. Len(Relays) \in Nat /\ Chunk \in Nat \ {0}
  <2>1. OwnRelays(Relays)
    BY ConsensusIs DEF Inv, PhasesInv, Relays
  <2> QED BY <2>1, OwnIs, DirectoryAssumption
<1>9. ChunkInv'
  <2> HIDE DEF n
  <2>1. \A x \in 1 .. n : boot.i + x \in 1 .. Len(Relays)
    <3> DEFINE L == Len(Relays)
    <3> HIDE DEF L
    <3>1. L \in Nat /\ (boot.i + Chunk < L => n = Chunk) /\ (~ (boot.i + Chunk < L) => n = L - boot.i)
      BY <1>7, <1>8 DEF L
    <3> DEFINE i == boot.i
    <3>2. i \in Nat /\ n \in Nat
      BY <1>4, <1>7
    <3> HIDE DEF i
    <3>3. \A x \in 1 .. n : i + x \in 1 .. L
      BY <1>8, <3>1, <3>2 DEF i
    <3> QED BY <3>3 DEF L, i
  <2>2. \A x \in 1 .. n : MicrodescAt(boot.i + x)' = MicrodescAt(boot.i + x)
    <3>1. Relays'[Index].digest = Relays[Index].digest
      OBVIOUS
    <3>2. \A x \in 1 .. n : Relays'[boot.i + x].digest = Relays[boot.i + x].digest
      BY <2>1, <3>1
    <3> QED BY <1>3, <3>2 DEF MicrodescAt
  <2>3. boot.k + 1 <= n + 1
    BY <1>4, <1>7 DEF n
  <2>4. n = Len(boot'.desc)
    BY <1>3 DEF n
  <2>5. \A x \in 1 .. n : boot'.desc[x] \in {<<>>, <<MicrodescAt(boot.i + x)'>>}
    BY <1>3, <1>7, <2>2
  <2> QED BY <1>3, <1>7, <2>2, <2>3, <2>4, <2>5, SMTT(30) DEF ChunkInv, MicrodescAt
<1>10. \A j \in 1 .. Len(Relays') : j >= Index' => Keyless(Relays'[j])
  BY <1>5, <1>8 DEF Inv, BootInv
<1>11. scenario'.whole = TRUE => \A j \in 1 .. Len(Relays') : j < Index' => Complete(Relays'[j])
  <2>1. scenario.whole = TRUE => \A j \in 1 .. Len(Relays) : j < Index => Complete(Relays[j])
    BY DEF Inv, BootInv
  <2> SUFFICES ASSUME scenario.whole = TRUE, NEW j \in 1 .. Len(Relays), j < Index + 1 PROVE Complete(Relays'[j])
    BY <1>5
  <2>2. CASE j = Index
    BY <2>2
  <2>3. CASE j # Index
    <3>1. j < Index
      BY <1>5, <2>3
    <3>2. Complete(Relays[j]) /\ Relays'[j] = Relays[j]
      BY <2>1, <2>3, <3>1
    <3> QED BY <3>2
  <2> QED BY <2>2, <2>3
<1>12. boot'.k \in Nat \ {0}
  BY <1>3, <1>4, SMTT(30)
<1> QED BY <1>3, <1>4, <1>9, <1>10, <1>11, <1>12 DEF BootInv

\* The first half is done: the relay has its ntor key.
LEMMA HalfDoneInv ==
  ASSUME Inv, boot.pc = "apply", boot.k <= Len(boot.desc), boot.desc[boot.k] # <<>>,
         BootStep(boot, boot', boot.k, 2), scenario' = scenario,
         cns' # <<>>, Len(Relays') = Len(Relays),
         \A j \in 1 .. Len(Relays) : j # Index => Relays'[j] = Relays[j],
         Relays'[Index].digest = Relays[Index].digest, Keyless(Relays'[Index]),
         Relays'[Index].ntor = MicrodescAt(Index).ntor
  PROVE  BootInv' /\ BootFields(boot', "apply", boot.i, boot.desc, boot.k, 2)
<1>1. BootFields(boot', "apply", boot.i, boot.desc, boot.k, 2)
  <2>1. BootFields(boot, "apply", boot.i, boot.desc, boot.k, boot.half)
    BY DEF Inv, PhasesInv, BootFields
  <2> QED BY <2>1, BootMoved, Zenon
<1>2. /\ boot'.pc = "apply" /\ boot'.i = boot.i /\ boot'.desc = boot.desc /\ boot'.k = boot.k /\ boot'.half = 2
      /\ boot' = BootAt(boot'.pc, boot'.i, boot'.desc, boot'.k, boot'.half)
  BY <1>1 DEF BootFields
<1>3. /\ ChunkInv /\ boot.i \in Nat /\ boot.k \in Nat \ {0}
      /\ \A j \in 1 .. Len(Relays) : j >= Index => Keyless(Relays[j])
      /\ scenario.whole = TRUE => \A j \in 1 .. Len(Relays) : j < Index => Complete(Relays[j])
  BY DEF Inv, BootInv
<1>4. Index' = Index
  BY <1>2 DEF Index
<1>5. \A j \in 1 .. Len(Relays) : Relays'[j].digest = Relays[j].digest
  <2> SUFFICES ASSUME NEW j \in 1 .. Len(Relays) PROVE Relays'[j].digest = Relays[j].digest
    OBVIOUS
  <2>1. CASE j = Index
    BY <2>1
  <2>2. CASE j # Index
    BY <2>2
  <2> QED BY <2>1, <2>2
<1>6. Len(Relays) \in Nat /\ Chunk \in Nat \ {0}
  <2>1. OwnRelays(Relays)
    BY ConsensusIs DEF Inv, PhasesInv, Relays
  <2> QED BY <2>1, OwnIs, DirectoryAssumption
<1> DEFINE n == Len(boot.desc)
<1>7. /\ n \in Nat /\ n = IF boot.i + Chunk < Len(Relays) THEN Chunk ELSE Len(Relays) - boot.i
      /\ \A x \in 1 .. n : /\ boot.desc[x] \in {<<>>, <<MicrodescAt(boot.i + x)>>}
                           /\ scenario.whole = TRUE => boot.desc[x] # <<>>
  BY <1>3 DEF ChunkInv
<1>8. \A x \in 1 .. n : boot.i + x \in 1 .. Len(Relays)
  <2> DEFINE L == Len(Relays)
             i == boot.i
  <2> HIDE DEF L, i, n
  <2>1. L \in Nat /\ i \in Nat /\ n \in Nat /\ (i + Chunk < L => n = Chunk) /\ (~ (i + Chunk < L) => n = L - i)
    BY <1>3, <1>6, <1>7 DEF L, i
  <2>2. \A x \in 1 .. n : i + x \in 1 .. L
    BY <1>6, <2>1
  <2> QED BY <2>2 DEF L, i
<1>9. \A x \in 1 .. n : MicrodescAt(boot.i + x)' = MicrodescAt(boot.i + x)
  BY <1>2, <1>5, <1>8, SMTT(30) DEF MicrodescAt
<1>10. MicrodescAt(Index)' = MicrodescAt(Index)
  BY <1>4, SMTT(30) DEF MicrodescAt
<1>11. ChunkInv'
  <2>1. n = Len(boot'.desc)
    BY <1>2
  <2>2. \A x \in 1 .. n : boot'.desc[x] \in {<<>>, <<MicrodescAt(boot.i + x)'>>}
    BY <1>2, <1>7, <1>9
  <2>3. Relays'[Index'].ntor = MicrodescAt(Index)'.ntor
    BY <1>4, <1>10
  <2> QED BY <1>2, <1>3, <1>4, <1>7, <2>1, <2>2, <2>3 DEF ChunkInv, MicrodescAt
<1>12. \A j \in 1 .. Len(Relays') : j >= Index' => Keyless(Relays'[j])
  <2> SUFFICES ASSUME NEW j \in 1 .. Len(Relays), j >= Index PROVE Keyless(Relays'[j])
    BY <1>4
  <2>1. CASE j = Index
    BY <2>1
  <2>2. CASE j # Index
    BY <1>3, <2>2
  <2> QED BY <2>1, <2>2
<1>13. scenario'.whole = TRUE => \A j \in 1 .. Len(Relays') : j < Index' => Complete(Relays'[j])
  <2>1. Index \in Nat
    BY <1>3 DEF Index
  <2> QED BY <1>3, <1>4, <2>1
<1> QED BY <1>1, <1>2, <1>3, <1>11, <1>12, <1>13 DEF BootInv

\* Where the answer is applied.
LEMMA AppliedTo ==
  ASSUME Inv, boot.pc = "apply", boot.k <= Len(boot.desc)
  PROVE  /\ cns # <<>> /\ Index \in 1 .. Len(Relays) /\ Keyless(Relays[Index])
         /\ Fielded(Relays[Index]) /\ Described(Relays[Index]) /\ Relays[Index].digest \in DOMAIN Blocks
         /\ boot.desc[boot.k] \in {<<>>, <<MicrodescAt(Index)>>}
         /\ scenario.whole = TRUE => boot.desc[boot.k] # <<>>
         /\ boot.half = 2 => boot.desc[boot.k] # <<>> /\ Relays[Index].ntor = MicrodescAt(Index).ntor
<1>1. /\ ChunkInv /\ boot.i \in Nat /\ boot.k \in Nat \ {0}
      /\ \A j \in 1 .. Len(Relays) : j >= Index => Keyless(Relays[j])
  BY DEF Inv, BootInv
<1>2. cns # <<>> /\ OwnRelays(Relays)
  BY ConsensusIs DEF Inv, PhasesInv, Relays
<1>3. Len(Relays) \in Nat /\ Chunk \in Nat \ {0}
  BY <1>2, OwnIs, DirectoryAssumption
<1> DEFINE n == Len(boot.desc)
<1>4. /\ n \in Nat /\ n = IF boot.i + Chunk < Len(Relays) THEN Chunk ELSE Len(Relays) - boot.i
      /\ \A x \in 1 .. n : /\ boot.desc[x] \in {<<>>, <<MicrodescAt(boot.i + x)>>}
                           /\ scenario.whole = TRUE => boot.desc[x] # <<>>
      /\ boot.half = 2 => /\ boot.desc[boot.k] # <<>>
                          /\ Relays[Index].ntor = MicrodescAt(Index).ntor
  BY <1>1 DEF ChunkInv
<1>5. boot.k \in 1 .. n
  BY <1>1, <1>4
<1>6. Index \in 1 .. Len(Relays)
  <2> DEFINE L == Len(Relays)
             i == boot.i
             k == boot.k
  <2> HIDE DEF L, i, k, n
  <2>1. /\ L \in Nat /\ i \in Nat /\ n \in Nat /\ k \in 1 .. n /\ (i + Chunk < L => n = Chunk)
        /\ ~ (i + Chunk < L) => n = L - i
    BY <1>1, <1>3, <1>4, <1>5 DEF L, i, k
  <2>2. i + k \in 1 .. L
    BY <1>3, <2>1
  <2> QED BY <2>2 DEF L, i, k, Index
<1>7. Keyless(Relays[Index])
  BY <1>1, <1>3, <1>6
<1>8. Fielded(Relays[Index]) /\ Described(Relays[Index]) /\ Relays[Index].digest \in DOMAIN Blocks
  BY <1>2, <1>6, OwnIs
<1> QED BY <1>2, <1>4, <1>5, <1>6, <1>7, <1>8 DEF Index
NtorOf(r, m) == [r EXCEPT !.ntor = m.ntor]

\* The ways Apply goes: v is what the cache said of the relay at Index.
Applies(v) ==
    \/ v = <<>> /\ boot' = NextDesc /\ cns' = cns
    \/ v # <<>> /\ boot.half = 1 /\ v[1].ntor = "invalid" /\ boot' = NextDesc /\ cns' = cns
    \/ v # <<>> /\ boot.half = 1 /\ v[1].ntor = "" /\ BootStep(boot, boot', boot.k, 2) /\ cns' = cns
    \/ v # <<>> /\ boot.half = 1 /\ BootStep(boot, boot', boot.k, 2) /\ RelaySet(Index, NtorOf(Relays[Index], v[1]))
    \/ v # <<>> /\ boot.half = 2 /\ boot' = NextDesc /\ RelaySet(Index, Applied(Relays[Index], v[1]))

\* Apply, with the place of bootstrap and what is left alone made explicit.
LEMMA ApplyIs ==
  ASSUME Inv, Apply
  PROVE  /\ boot.pc = "apply" /\ boot.k <= Len(boot.desc) /\ UNCHANGED <<link, age, job, pending, sel>>
         /\ Applies(boot.desc[boot.k])
<1>1. boot.pc = "apply" /\ boot.k <= Len(boot.desc) /\ UNCHANGED <<link, age, job, pending, sel>>
  BY Zenon DEF Apply
<1>2. Index \in 1 .. Len(Relays) /\ boot.half \in {1, 2} /\ Len(Relays) \in Nat
  <2>1. cns # <<>> /\ OwnRelays(Relays)
    BY <1>1, ConsensusIs DEF Inv, PhasesInv, Relays
  <2> QED BY <1>1, <2>1, OwnIs, AppliedTo DEF Inv, PhasesInv
<1>3. ~ (Index > Len(Relays))
  BY <1>2
<1> DEFINE v == boot.desc[boot.k]
<1>4. \/ v = <<>> /\ boot' = NextDesc /\ cns' = cns
      \/ v # <<>> /\ boot.half = 1
         /\ boot' = (IF v[1].ntor = "invalid" THEN NextDesc ELSE [boot EXCEPT !.half = 2])
         /\ cns' = IF v[1].ntor \in {"", "invalid"} THEN cns ELSE [cns EXCEPT ![1].relays[Index].ntor = v[1].ntor]
      \/ v # <<>> /\ boot.half # 1 /\ boot' = NextDesc
         /\ RelaySet(Index, Applied(Relays[Index], v[1]))
  BY <1>3, Zenon DEF Apply, RelaySet, Relays
<1>6. [cns EXCEPT ![1].relays[Index].ntor = v[1].ntor] = [cns EXCEPT ![1].relays[Index] = NtorOf(Relays[Index], v[1])]
  BY Zenon DEF NtorOf, Relays
<1>7. BootStep(boot, [boot EXCEPT !.half = 2], boot.k, 2)
  <2>1. boot = BootAt(boot.pc, boot.i, boot.desc, boot.k, boot.half)
    BY DEF Inv, PhasesInv
  <2> QED BY <2>1 DEF BootStep, BootAt
<1>8. CASE v = <<>> /\ boot' = NextDesc /\ cns' = cns
  BY <1>1, <1>8, Zenon DEF Applies
<1>9. CASE v # <<>> /\ boot.half = 1
         /\ boot' = (IF v[1].ntor = "invalid" THEN NextDesc ELSE [boot EXCEPT !.half = 2])
         /\ cns' = IF v[1].ntor \in {"", "invalid"} THEN cns ELSE [cns EXCEPT ![1].relays[Index].ntor = v[1].ntor]
  <2>1. CASE v[1].ntor = "invalid"
    BY <1>1, <1>9, <2>1, Zenon DEF Applies
  <2>2. CASE v[1].ntor # "invalid"
    <3>1. boot' = [boot EXCEPT !.half = 2]
      BY <1>9, <2>2, Zenon
    <3>2. BootStep(boot, boot', boot.k, 2)
      BY <1>7, <3>1, Zenon
    <3>3. CASE v[1].ntor = ""
      BY <1>1, <1>9, <2>2, <3>2, <3>3, Zenon DEF Applies
    <3>4. CASE v[1].ntor # ""
      <4>1. RelaySet(Index, NtorOf(Relays[Index], v[1]))
        BY <1>6, <1>9, <2>2, <3>4, Zenon DEF RelaySet
      <4> QED BY <1>1, <1>9, <3>2, <4>1, Zenon DEF Applies
    <3> QED BY <3>3, <3>4
  <2> QED BY <2>1, <2>2
<1>10. CASE v # <<>> /\ boot.half # 1 /\ boot' = NextDesc
         /\ RelaySet(Index, Applied(Relays[Index], v[1]))
  <2>1. boot.half = 2
    BY <1>2, <1>10
  <2> QED BY <1>1, <1>10, <2>1, Zenon DEF Applies
<1> QED BY <1>4, <1>8, <1>9, <1>10, Zenon

LEMMA ApplyInv ==
  ASSUME Inv, Apply, scenario' = scenario
  PROVE  Inv'
<1> DEFINE v == boot.desc[boot.k]
           r == Relays[Index]
           m == MicrodescAt(Index)
<1>0. /\ boot.pc = "apply" /\ boot.k <= Len(boot.desc) /\ UNCHANGED <<link, age, job, pending, sel>>
      /\ Applies(v)
  BY ApplyIs, Zenon
<1>1. /\ cns # <<>> /\ Index \in 1 .. Len(Relays) /\ Keyless(r) /\ Fielded(r) /\ Described(r)
      /\ r.digest \in DOMAIN Blocks /\ v \in {<<>>, <<m>>} /\ (scenario.whole = TRUE => v # <<>>)
      /\ (boot.half = 2 => v # <<>> /\ r.ntor = m.ntor)
  BY <1>0, AppliedTo
<1>2. v # <<>> => v[1] = m
  <2> HIDE DEF v, m
  <2> QED BY <1>1
<1>3. m = ParseMicrodescBlock(Blocks[r.digest])
  BY DEF MicrodescAt
<1>4. FetchedInTime' /\ job'.pc = "none" /\ job.pc = "none"
  <2>1. job.pc = "none" /\ job' = job
    BY <1>0 DEF Inv, PhasesInv
  <2> QED BY <2>1 DEF FetchedInTime
<1>5. ASSUME ConsensusInv', SelectorInv', BootInv', cns' # <<>>,
             boot' = BootAt(boot'.pc, boot'.i, boot'.desc, boot'.k, boot'.half),
             boot'.pc = "apply", boot'.half \in {1, 2}
      PROVE  Inv'
  <2>1. PhasesInv'
    BY <1>0, <1>4, <1>5 DEF Inv, PhasesInv
  <2> QED BY <1>4, <1>5, <2>1 DEF Inv
<1>6. ASSUME cns' = cns PROVE ConsensusInv' /\ SelectorInv' /\ cns' # <<>> /\ Relays' = Relays
  BY <1>0, <1>1, <1>6, ConsensusKept, SelectorUnchanged DEF Inv, Relays
<1> HIDE DEF v, m
<1>7. ASSUME boot' = NextDesc, cns' = cns, v = <<>> \/ m.ntor = "invalid" PROVE Inv'
  <2>1. scenario.whole = TRUE => Complete(r)
    BY <1>1, <1>3, <1>7, Zenon DEF Complete
  <2>2. /\ ConsensusInv' /\ SelectorInv' /\ cns' # <<>> /\ Len(Relays') = Len(Relays)
        /\ \A j \in 1 .. Len(Relays) : j # Index => Relays'[j] = Relays[j]
        /\ Relays'[Index].digest = Relays[Index].digest
        /\ scenario.whole = TRUE => Complete(Relays'[Index])
    BY <1>6, <1>7, <2>1, Zenon
  <2>3. /\ BootInv' /\ boot'.pc = "apply" /\ boot'.half = 1
        /\ boot' = BootAt(boot'.pc, boot'.i, boot'.desc, boot'.k, boot'.half)
    BY <1>0, <1>7, <2>2, NextDescInv
  <2> QED BY <1>5, <2>2, <2>3
<1>8. ASSUME v # <<>>, BootStep(boot, boot', boot.k, 2), ConsensusInv', SelectorInv',
             cns' # <<>>, Len(Relays') = Len(Relays),
             \A j \in 1 .. Len(Relays) : j # Index => Relays'[j] = Relays[j],
             Relays'[Index].digest = r.digest, Keyless(Relays'[Index]), Relays'[Index].ntor = m.ntor
      PROVE  Inv'
  <2>1. BootInv' /\ BootFields(boot', "apply", boot.i, boot.desc, boot.k, 2)
    BY <1>0, <1>8, HalfDoneInv DEF v, m
  <2> QED BY <1>5, <1>8, <2>1 DEF BootFields
<1>9. CASE v = <<>> /\ boot' = NextDesc /\ cns' = cns
  BY <1>7, <1>9
<1>10. CASE v # <<>> /\ boot.half = 1 /\ v[1].ntor = "invalid" /\ boot' = NextDesc /\ cns' = cns
  BY <1>2, <1>7, <1>10
<1>11. CASE v # <<>> /\ boot.half = 1 /\ v[1].ntor = "" /\ BootStep(boot, boot', boot.k, 2) /\ cns' = cns
  <2>1. m.ntor = ""
    BY <1>2, <1>11, Zenon
  <2>2. r.ntor = m.ntor
    <3>1. r.ntor \in {"", m.ntor}
      BY <1>1, <1>3, Zenon DEF Described
    <3> QED BY <2>1, <3>1, Zenon
  <2>3. ConsensusInv' /\ SelectorInv' /\ cns' # <<>> /\ Relays' = Relays
    BY <1>6, <1>11
  <2> QED BY <1>1, <1>8, <1>11, <2>2, <2>3
<1>12. CASE v # <<>> /\ boot.half = 1 /\ BootStep(boot, boot', boot.k, 2) /\ RelaySet(Index, NtorOf(Relays[Index], v[1]))
  <2> DEFINE r2 == NtorOf(r, m)
  <2>1. RelaySet(Index, r2)
    BY <1>2, <1>12
  <2>2. /\ \A es, x : Own(r, es, x) => Own(r2, es, x)
        /\ r2.ntor = m.ntor /\ r2.ed = r.ed /\ r2.digest = r.digest
    <3>1. r2 = [r EXCEPT !.ntor = m.ntor]
      BY DEF NtorOf
    <3> HIDE DEF r2
    <3> QED BY <1>1, <1>3, <3>1, NtorStored
  <2> HIDE DEF r2
  <2>3. /\ ConsensusInv' /\ SelectorInv'
        /\ cns' # <<>> /\ Len(Relays') = Len(Relays) /\ Relays'[Index] = r2
        /\ \A j \in 1 .. Len(Relays) : j # Index => Relays'[j] = Relays[j]
    BY <1>0, <1>1, <2>1, <2>2, RelayDescribed DEF Inv
  <2>4. Keyless(r2)
    BY <1>1, <2>2, Zenon DEF Keyless
  <2> QED BY <1>8, <1>12, <2>2, <2>3, <2>4
<1>13. CASE v # <<>> /\ boot.half = 2 /\ boot' = NextDesc /\ RelaySet(Index, Applied(Relays[Index], v[1]))
  <2> DEFINE r2 == Applied(r, m)
  <2>1. RelaySet(Index, r2) /\ r.ntor = m.ntor
    BY <1>1, <1>2, <1>13
  <2>2. /\ \A es, x : Own(r, es, x) => Own(r2, es, x)
        /\ r2.ed = m.ed /\ r2.ntor = r.ntor /\ r2.digest = r.digest
    <3>1. PICK nt, ed, ru : Rules(ru) /\ ParseMicrodescBlock(Blocks[r.digest]) = Microdescriptor(nt, ed, ru)
      BY <1>1, BlockIs
    <3>2. m.ntor = nt /\ m.ed = ed /\ m.exitRules = ru
      BY <1>3, <3>1 DEF Microdescriptor
    <3>3. RestIs(r, r2, ed, ru, m.familys)
      BY <3>2, Zenon DEF Applied, RestIs, EdAfter
    <3> HIDE DEF r2
    <3>4. StoredRest(r, r2, ed)
      BY <1>1, <3>1, <3>3, RestStored, Zenon
    <3> QED BY <1>1, <3>2, <3>4 DEF StoredRest
  <2> HIDE DEF r2
  <2>3. /\ ConsensusInv' /\ SelectorInv'
        /\ cns' # <<>> /\ Len(Relays') = Len(Relays) /\ Relays'[Index] = r2
        /\ \A j \in 1 .. Len(Relays) : j # Index => Relays'[j] = Relays[j]
    BY <1>0, <1>1, <2>1, <2>2, RelayDescribed DEF Inv
  <2>4. Complete(r2)
    BY <1>3, <2>1, <2>2, Zenon DEF Complete
  <2>5. /\ BootInv' /\ boot'.pc = "apply" /\ boot'.half = 1
        /\ boot' = BootAt(boot'.pc, boot'.i, boot'.desc, boot'.k, boot'.half)
    BY <1>0, <1>13, <2>2, <2>3, <2>4, NextDescInv
  <2> QED BY <1>5, <2>3, <2>5
<1> QED BY <1>0, <1>9, <1>10, <1>11, <1>12, <1>13 DEF Applies
\* The next chunk begins after the relays of this one.
LEMMA ChunkDoneInv ==
  ASSUME Inv, ChunkDone, scenario' = scenario
  PROVE  Inv'
<1>0. /\ boot.pc = "apply" /\ boot.k > Len(boot.desc) /\ UNCHANGED <<link, cns, age, job, pending, sel>>
      /\ boot' = [Idle EXCEPT !.pc = "chunk", !.i = boot.i + Chunk]
  BY Zenon DEF ChunkDone
<1>1. ConsensusInv' /\ SelectorInv' /\ FetchedInTime'
  BY <1>0, ConsensusKept, SelectorUnchanged, InTimeKept DEF Inv
<1>2. boot' = BootAt("chunk", boot.i + Chunk, <<>>, 1, 1)
  BY <1>0 DEF Idle, BootAt
<1>3. /\ boot'.pc = "chunk" /\ boot'.i = boot.i + Chunk /\ boot'.k = 1 /\ boot'.half = 1
      /\ boot' = BootAt(boot'.pc, boot'.i, boot'.desc, boot'.k, boot'.half)
  <2>1. BootFields(boot', "chunk", boot.i + Chunk, <<>>, 1, 1)
    BY <1>2, BootIs, Zenon
  <2> QED BY <2>1 DEF BootFields
<1>4. PhasesInv'
  BY <1>0, <1>3 DEF Inv, PhasesInv
<1>5. /\ ChunkInv /\ boot.i \in Nat /\ boot.k \in Nat \ {0}
      /\ \A j \in 1 .. Len(Relays) : j >= Index => Keyless(Relays[j])
      /\ scenario.whole = TRUE => \A j \in 1 .. Len(Relays) : j < Index => Complete(Relays[j])
  BY <1>0 DEF Inv, BootInv
<1>6. Len(Relays) \in Nat /\ Chunk \in Nat \ {0} /\ Relays' = Relays
  <2>1. OwnRelays(Relays)
    BY <1>0, ConsensusIs DEF Inv, PhasesInv, Relays
  <2> QED BY <1>0, <2>1, OwnIs, DirectoryAssumption DEF Relays
<1> DEFINE L == Len(Relays)
           n == Len(boot.desc)
           i == boot.i
           k == boot.k
<1>7. /\ n \in Nat /\ k <= n + 1 /\ k > n /\ k \in Nat /\ i \in Nat /\ L \in Nat
      /\ (i + Chunk < L => n = Chunk) /\ (~ (i + Chunk < L) => n = L - i)
  BY <1>0, <1>5, <1>6 DEF ChunkInv
<1>8. Index = i + k /\ Index' = i + Chunk + 1
  <2>1. Chunk \in Nat /\ i \in Nat
    BY <1>6, <1>7
  <2>2. Index' = boot'.i + boot'.k
    BY DEF Index
  <2> QED BY <1>3, <2>1, <2>2 DEF Index
<1> HIDE DEF L, n, i, k
<1>9. \A j \in 1 .. L : (j >= i + Chunk + 1 => j >= i + k) /\ (j < i + Chunk + 1 => j < i + k)
  BY <1>6, <1>7
<1>10. \A j \in 1 .. Len(Relays') : j >= Index' => Keyless(Relays'[j])
  BY <1>5, <1>6, <1>8, <1>9 DEF L
<1>11. scenario'.whole = TRUE => \A j \in 1 .. Len(Relays') : j < Index' => Complete(Relays'[j])
  BY <1>5, <1>6, <1>8, <1>9 DEF L
<1>12. boot'.i \in Nat
  BY <1>3, <1>5, <1>6
<1>13. BootInv'
  BY <1>3, <1>10, <1>11, <1>12 DEF BootInv
<1> QED BY <1>1, <1>4, <1>13 DEF Inv

LEMMA BootstrapDoneInv ==
  ASSUME Inv, BootstrapDone, scenario' = scenario
  PROVE  Inv'
<1>0. /\ boot.pc = "chunk" /\ UNCHANGED <<link, cns, age, pending, sel>>
      /\ boot' = [Idle EXCEPT !.pc = "done"] /\ job' = [NoJob EXCEPT !.pc = "loop"]
  BY Zenon DEF BootstrapDone
<1>1. ConsensusInv' /\ SelectorInv'
  BY <1>0, ConsensusKept, SelectorUnchanged DEF Inv
<1>2. boot'.pc = "done" /\ boot'.half = 1 /\ boot' = BootAt(boot'.pc, boot'.i, boot'.desc, boot'.k, boot'.half)
  <2>1. boot' = BootAt("done", 0, <<>>, 1, 1)
    BY <1>0 DEF Idle, BootAt
  <2>2. BootFields(boot', "done", 0, <<>>, 1, 1)
    BY <2>1, BootIs, Zenon
  <2> QED BY <2>2 DEF BootFields
<1>3. job'.pc = "loop" /\ job'.timer = 0 /\ job'.next = "loop" /\ job' = JobAt(job'.pc, job'.timer, job'.next, job'.failed)
  <2>1. PICK no : NoJob = JobAt("none", 0, "loop", no)
    BY NoneAre, Zenon
  <2>2. job' = JobAt("loop", 0, "loop", no)
    BY <1>0, <2>1 DEF JobAt
  <2>3. JobFields(job', "loop", 0, "loop", no)
    BY <2>2, JobIs, Zenon
  <2> QED BY <2>3 DEF JobFields
<1>4. PhasesInv'
  <2>1. 0 \in 0 .. Fresh + Valid
    BY ConsensusAssumption
  <2> QED BY <1>0, <1>2, <1>3, <2>1 DEF Inv, PhasesInv
<1>5. BootInv' /\ FetchedInTime'
  BY <1>2, <1>3 DEF BootInv, FetchedInTime
<1> QED BY <1>1, <1>4, <1>5 DEF Inv

-----------------------------------------------------------------------------
(* The steps of nextConsensus.                                             *)

\* A step that changes the job alone.
LEMMA JobMovesInv ==
  ASSUME Inv, job.pc \notin {"none", "store"}, UNCHANGED <<scenario, link, boot, cns, age, pending, sel>>,
         NEW pc \in {"loop", "wait", "fetch", "ended"}, NEW timer \in 0 .. Fresh + Valid,
         NEW next \in {"loop", "fetch"}, NEW failed, JobFields(job', pc, timer, next, failed),
         pc = "wait" => FetchedInTime'
  PROVE  Inv'
<1>1. ConsensusInv' /\ SelectorInv' /\ BootInv'
  BY ConsensusKept, SelectorUnchanged, BootKept DEF Inv
<1>2. PhasesInv'
  BY DEF Inv, PhasesInv, JobFields
<1>3. FetchedInTime'
  BY DEF FetchedInTime, JobFields
<1> QED BY <1>1, <1>2, <1>3 DEF Inv

\* sleepCtx, with d to wait.
Slept(j, d, next) ==
    /\ d <= 0 => JobFields(j, next, job.timer, job.next, job.failed)
    /\ d > 0 => JobFields(j, "wait", d, next, job.failed)

\* sleepCtx waits for d, or goes on at once if there is nothing to wait for.
LEMMA SleepIs ==
  ASSUME PhasesInv, NEW d \in Int, NEW next
  PROVE  Slept(Sleep(d, next), d, next)
<1> DEFINE pc == job.pc
           timer == job.timer
           next0 == job.next
           failed == job.failed
<1>1. job = JobAt(pc, timer, next0, failed)
  BY DEF PhasesInv
<1> HIDE DEF pc, timer, next0, failed
<1>2. [job EXCEPT !.pc = next] = JobAt(next, timer, next0, failed)
  BY <1>1 DEF JobAt
<1>3. [job EXCEPT !.pc = "wait", !.timer = d, !.next = next] = JobAt("wait", d, next, failed)
  <2> DEFINE j1 == [job EXCEPT !.pc = "wait"]
             j2 == [j1 EXCEPT !.timer = d]
  <2>1. j1 = JobAt("wait", timer, next0, failed)
    BY <1>1 DEF JobAt
  <2> HIDE DEF j1
  <2>2. j2 = JobAt("wait", d, next0, failed)
    BY <2>1 DEF JobAt
  <2> HIDE DEF j2
  <2>3. [j2 EXCEPT !.next = next] = JobAt("wait", d, next, failed)
    BY <2>2 DEF JobAt
  <2> QED BY <2>3 DEF j1, j2
<1>4. CASE d <= 0
  <2>1. Sleep(d, next) = JobAt(next, timer, next0, failed)
    BY <1>2, <1>4 DEF Sleep
  <2>2. JobFields(Sleep(d, next), next, timer, next0, failed)
    BY <2>1, JobIs, Zenon
  <2> QED BY <1>4, <2>2 DEF Slept, timer, next0, failed
<1>5. CASE d > 0
  <2>1. Sleep(d, next) = JobAt("wait", d, next, failed)
    BY <1>3, <1>5 DEF Sleep
  <2>2. JobFields(Sleep(d, next), "wait", d, next, failed)
    BY <2>1, JobIs, Zenon
  <2> QED BY <1>5, <2>2 DEF Slept, failed
<1> QED BY <1>4, <1>5

\* When a consensus that says when may be followed by another: before it
\* expires, and that there is such a time.
LEMMA FetchTimesAre ==
  ASSUME NEW c, Published(c), AgeOK(age)
  PROVE  /\ Dated(c) => FetchTimes(c, age) # {}
         /\ \A t \in FetchTimes(c, age) :
              /\ Dated(c) /\ t \in Int
              /\ t > age => t < c.validUntil /\ t - age \in 0 .. Fresh + Valid
<1>1. CASE ~ Dated(c)
  <2>1. FetchTimes(c, age) = {}
    BY <1>1, Zenon DEF FetchTimes, Dated
  <2> QED BY <1>1, <2>1
<1>2. CASE Dated(c)
  <2> DEFINE start == Fresh + (Fresh * 3) \div 4
             end == Fresh + (Valid * 7) \div 8
  <2>1. c.validAfter = 0 /\ c.freshUntil = Fresh /\ c.validUntil = Fresh + Valid
    BY <1>2 DEF Published, Dated
  <2>2. Fresh \in Nat \ {0} /\ Valid \in Nat \ {0} /\ age \in Nat
    BY ConsensusAssumption DEF AgeOK
  <2>3. /\ start \in Nat /\ end \in Nat /\ start < end /\ end <= Fresh + Valid
    BY <2>2, IntervalsAssumption
  <2>4. /\ (IF c.freshUntil > c.validAfter THEN c.freshUntil - c.validAfter ELSE Hour) = Fresh
        /\ (IF c.validUntil > c.freshUntil THEN c.validUntil - c.freshUntil ELSE 2 * Hour) = Valid
    BY <2>1, <2>2
  <2>5. FetchTimes(c, age) = IF end <= age THEN {age} ELSE (IF age > start THEN age ELSE start) .. end - 1
    <3> HIDE DEF start, end
    <3>1. ~ (end <= start)
      BY <2>3
    <3>2. NoTime \notin {c.validAfter, c.freshUntil, c.validUntil}
      BY <1>2 DEF Dated
    <3>3. /\ c.freshUntil + ((IF c.freshUntil > c.validAfter THEN c.freshUntil - c.validAfter ELSE Hour) * 3) \div 4 = start
          /\ c.freshUntil + ((IF c.validUntil > c.freshUntil THEN c.validUntil - c.freshUntil ELSE 2 * Hour) * 7) \div 8 = end
      BY <2>1, <2>4, Zenon DEF start, end
    <3> QED BY <3>1, <3>2, <3>3, Zenon DEF FetchTimes
  <2> HIDE DEF start, end
  <2>6. CASE end <= age
    BY <1>2, <2>2, <2>5, <2>6
  <2>7. CASE ~ (end <= age)
    <3> DEFINE lo == IF age > start THEN age ELSE start
    <3>1. lo \in Nat /\ lo <= end - 1 /\ FetchTimes(c, age) = lo .. end - 1
      BY <2>2, <2>3, <2>5, <2>7
    <3> HIDE DEF lo
    <3>2. \A t \in lo .. end - 1 : t \in Int /\ t < Fresh + Valid /\ t \in Nat
      BY <2>2, <2>3, <3>1
    <3>3. \A t \in lo .. end - 1 : t > age => t - age \in 0 .. Fresh + Valid
      BY <2>2, <3>1, <3>2
    <3>4. lo \in lo .. end - 1
      BY <2>3, <3>1
    <3> QED BY <1>2, <2>1, <3>1, <3>2, <3>3, <3>4
  <2> QED BY <2>6, <2>7
<1> QED BY <1>1, <1>2
LEMMA JobLoopInv ==
  ASSUME Inv, JobLoop, scenario' = scenario
  PROVE  Inv'
<1>0. /\ job.pc = "loop" /\ UNCHANGED <<scenario, link, boot, cns, age, pending, sel>>
      /\ \/ job' = [job EXCEPT !.pc = "ended"]
         \/ FetchTimes(cns[1], age) = {} /\ job' = Sleep(Hour, "loop")
         \/ \E t \in FetchTimes(cns[1], age) : job' = Sleep(t - age, "fetch")
  BY Zenon DEF JobLoop
<1>1. /\ PhasesInv /\ ConsensusInv /\ AgeOK(age) /\ age \in Nat /\ Published(cns[1])
      /\ job.timer \in 0 .. Fresh + Valid /\ job.next \in {"loop", "fetch"}
  BY <1>0, ConsensusAssumption, ConsensusIs DEF Inv, PhasesInv, ConsensusInv, AgeOK
<1>2. CASE job' = [job EXCEPT !.pc = "ended"]
  <2>1. JobFields(job', "ended", job.timer, job.next, job.failed)
    <3>1. job = JobAt(job.pc, job.timer, job.next, job.failed)
      BY <1>1 DEF PhasesInv
    <3>2. job' = JobAt("ended", job.timer, job.next, job.failed)
      BY <1>2, <3>1 DEF JobAt
    <3> QED BY <3>2, JobIs, Zenon
  <2> QED BY <1>0, <1>1, <2>1, JobMovesInv
<1>3. CASE FetchTimes(cns[1], age) = {} /\ job' = Sleep(Hour, "loop")
  <2>1. Slept(job', Hour, "loop")
    BY <1>1, <1>3, SleepIs DEF Hour
  <2>2. JobFields(job', "wait", Hour, "loop", job.failed)
    BY <2>1 DEF Slept, Hour
  <2>3. ~ Dated(cns[1])
    BY <1>1, <1>3, FetchTimesAre
  <2>4. FetchedInTime'
    BY <1>0, <2>3 DEF FetchedInTime, Dated
  <2>5. Hour \in 0 .. Fresh + Valid
    BY IntervalsAssumption, ConsensusAssumption DEF Hour
  <2> QED BY <1>0, <2>2, <2>4, <2>5, JobMovesInv
<1>4. ASSUME NEW t \in FetchTimes(cns[1], age), job' = Sleep(t - age, "fetch") PROVE Inv'
  <2>1. /\ Dated(cns[1]) /\ t \in Int
        /\ t > age => t < cns[1].validUntil /\ t - age \in 0 .. Fresh + Valid
    BY <1>1, FetchTimesAre
  <2> DEFINE d == t - age
  <2>2. d \in Int /\ job' = Sleep(d, "fetch") /\ (d > 0 <=> t > age)
    BY <1>1, <1>4, <2>1
  <2> HIDE DEF d
  <2>3. Slept(job', d, "fetch")
    BY <1>1, <2>2, SleepIs
  <2>4. CASE d <= 0
    <3>1. JobFields(job', "fetch", job.timer, job.next, job.failed)
      BY <2>3, <2>4 DEF Slept
    <3> QED BY <1>0, <1>1, <3>1, JobMovesInv
  <2>5. CASE d > 0
    <3>1. JobFields(job', "wait", d, "fetch", job.failed)
      BY <2>3, <2>5 DEF Slept
    <3>2. d \in 0 .. Fresh + Valid /\ age + d < cns[1].validUntil
      <4>1. t < cns[1].validUntil /\ t - age \in 0 .. Fresh + Valid
        BY <2>1, <2>2, <2>5
      <4>2. age + d = t
        BY <1>1, <2>1 DEF d
      <4> QED BY <4>1, <4>2 DEF d
    <3>3. FetchedInTime'
      BY <1>0, <3>1, <3>2 DEF FetchedInTime, JobFields
    <3> QED BY <1>0, <3>1, <3>2, <3>3, JobMovesInv
  <2> QED BY <2>2, <2>4, <2>5
<1> QED BY <1>0, <1>2, <1>3, <1>4

LEMMA WaitOverInv ==
  ASSUME Inv, WaitOver, scenario' = scenario
  PROVE  Inv'
<1>0. /\ job.pc = "wait" /\ UNCHANGED <<scenario, link, boot, cns, age, pending, sel>>
      /\ job' = [job EXCEPT !.pc = job.next]
  BY Zenon DEF WaitOver
<1>1. job = JobAt(job.pc, job.timer, job.next, job.failed) /\ job.timer \in 0 .. Fresh + Valid /\ job.next \in {"loop", "fetch"}
  BY DEF Inv, PhasesInv
<1>2. job' = JobAt(job.next, job.timer, job.next, job.failed)
  BY <1>0, <1>1 DEF JobAt
<1>3. JobFields(job', job.next, job.timer, job.next, job.failed)
  BY <1>2, JobIs, Zenon
<1> QED BY <1>0, <1>1, <1>3, JobMovesInv

LEMMA WaitCancelledInv ==
  ASSUME Inv, WaitCancelled, scenario' = scenario
  PROVE  Inv'
<1>0. /\ job.pc = "wait" /\ UNCHANGED <<scenario, link, boot, cns, age, pending, sel>>
      /\ job' = [job EXCEPT !.pc = "ended", !.timer = 0]
  BY Zenon DEF WaitCancelled
<1>1. job = JobAt(job.pc, job.timer, job.next, job.failed) /\ job.next \in {"loop", "fetch"}
  BY DEF Inv, PhasesInv
<1>2. job' = JobAt("ended", 0, job.next, job.failed)
  BY <1>0, <1>1 DEF JobAt
<1>3. JobFields(job', "ended", 0, job.next, job.failed)
  BY <1>2, JobIs, Zenon
<1>4. 0 \in 0 .. Fresh + Valid
  BY ConsensusAssumption
<1> QED BY <1>0, <1>1, <1>3, <1>4, JobMovesInv

LEMMA FetchFailsInv ==
  ASSUME Inv, FetchFails, scenario' = scenario
  PROVE  Inv'
<1>0. /\ job.pc = "fetch" /\ UNCHANGED <<scenario, link, boot, cns, age, pending, sel>>
      /\ job' = [Sleep(HalfHour, "loop") EXCEPT !.failed = TRUE]
  BY Zenon DEF FetchFails
<1>1. PhasesInv
  BY DEF Inv
<1> DEFINE j == Sleep(HalfHour, "loop")
<1>2. Slept(j, HalfHour, "loop")
  BY <1>1, SleepIs DEF HalfHour
<1> HIDE DEF j
<1>3. JobFields(j, "wait", HalfHour, "loop", job.failed)
  BY <1>2 DEF Slept, HalfHour
<1>4. PICK yes : yes = TRUE
  BY Zenon
<1>5. job' = [j EXCEPT !.failed = yes]
  BY <1>0, <1>4, Zenon DEF j
<1>6. JobFields(job', "wait", HalfHour, "loop", yes)
  <2>1. j = JobAt("wait", HalfHour, "loop", j.failed)
    BY <1>3 DEF JobFields
  <2>2. job' = JobAt("wait", HalfHour, "loop", yes)
    <3> DEFINE failed == j.failed
    <3> HIDE DEF failed
    <3>1. j = JobAt("wait", HalfHour, "loop", failed)
      BY <2>1 DEF failed
    <3> QED BY <1>5, <3>1 DEF JobAt
  <2> QED BY <2>2, JobIs, Zenon
<1>7. FetchedInTime'
  <2>1. job'.failed = TRUE
    BY <1>4, <1>6, Zenon DEF JobFields
  <2> QED BY <2>1, Zenon DEF FetchedInTime
<1>8. HalfHour \in 0 .. Fresh + Valid
  BY IntervalsAssumption, ConsensusAssumption DEF Hour, HalfHour
<1>9. \A failed : JobFields(job', "wait", HalfHour, "loop", failed) => Inv'
  BY <1>0, <1>7, <1>8, JobMovesInv
<1> QED BY <1>6, <1>9, Zenon

LEMMA FetchReturnsInv ==
  ASSUME Inv, FetchReturns, scenario' = scenario
  PROVE  Inv'
<1>0. /\ job.pc = "fetch" /\ UNCHANGED <<scenario, link, boot, cns, age, sel>>
      /\ \E c \in Served, a \in AgesServed({age % Fresh}) : pending' = <<Stored(c, a)>>
      /\ job' = [job EXCEPT !.pc = "store"]
  BY Zenon DEF FetchReturns, Stored
<1>1. PICK c \in Served, a \in AgesServed({age % Fresh}) : pending' = <<Stored(c, a)>>
  BY <1>0
<1>2. Published(c)
  BY ServedIs DEF Fetched
<1>3. AgeOK(a)
  BY AgesOK DEF Inv, PhasesInv, ConsensusInv
<1>4. pending' # <<>> /\ pending'[1].cns = c /\ pending'[1].age = a
  BY <1>1 DEF Stored
<1>5. ConsensusInv'
  BY <1>0, <1>1, <1>2, <1>3, <1>4 DEF Inv, ConsensusInv
<1>6. job'.pc = "store" /\ job'.timer = job.timer /\ job'.next = job.next /\ job' = JobAt(job'.pc, job'.timer, job'.next, job'.failed)
  <2>1. job = JobAt(job.pc, job.timer, job.next, job.failed)
    BY DEF Inv, PhasesInv
  <2>2. job' = JobAt("store", job.timer, job.next, job.failed)
    BY <1>0, <2>1 DEF JobAt
  <2>3. JobFields(job', "store", job.timer, job.next, job.failed)
    BY <2>2, JobIs, Zenon
  <2> QED BY <2>3 DEF JobFields
<1>7. PhasesInv'
  BY <1>0, <1>4, <1>6 DEF Inv, PhasesInv
<1>8. BootInv' /\ FetchedInTime'
  BY <1>0, <1>6, BootKept DEF Inv, FetchedInTime
<1>9. SelectorInv'
  <2>1. sel.src # "pending"
    BY <1>0 DEF Inv, PhasesInv, SelectorInv, Source
  <2>2. sel.pc \notin {"none", "wild"} => Len(Pointed) \in Nat
    BY PointedOwn, OwnIs DEF Inv
  <2> QED BY <1>0, <2>1, <2>2, SelectorKept DEF Inv
<1> QED BY <1>5, <1>7, <1>8, <1>9 DEF Inv

LEMMA StoreInv ==
  ASSUME Inv, Store, scenario' = scenario
  PROVE  Inv'
<1>0. /\ job.pc = "store" /\ UNCHANGED <<scenario, link, boot>>
      /\ cns' = <<pending[1].cns>> /\ age' = pending[1].age /\ pending' = <<>>
      /\ sel' = IF sel.src = "pending" THEN [sel EXCEPT !.src = "cns"] ELSE Detached(sel)
  BY Zenon DEF Store
<1>1. pending # <<>> /\ Published(pending[1].cns) /\ AgeOK(pending[1].age) /\ boot.pc = "done"
  BY <1>0 DEF Inv, PhasesInv, ConsensusInv
<1>2. cns' # <<>> /\ cns'[1] = pending[1].cns /\ cns' = <<cns'[1]>>
  BY <1>0
<1>3. ConsensusInv'
  BY <1>0, <1>1, <1>2 DEF ConsensusInv
<1>4. PICK no : job' = [job EXCEPT !.pc = "loop", !.failed = no]
  <2>1. job' = [job EXCEPT !.pc = "loop", !.failed = FALSE]
    BY Zenon DEF Store
  <2> QED BY <2>1, Zenon
<1>5. job'.pc = "loop" /\ job'.timer = job.timer /\ job'.next = job.next /\ job' = JobAt(job'.pc, job'.timer, job'.next, job'.failed)
  <2>1. job = JobAt(job.pc, job.timer, job.next, job.failed)
    BY DEF Inv, PhasesInv
  <2>2. job' = JobAt("loop", job.timer, job.next, no)
    BY <1>4, <2>1 DEF JobAt
  <2>3. JobFields(job', "loop", job.timer, job.next, no)
    BY <2>2, JobIs, Zenon
  <2> QED BY <2>3 DEF JobFields
<1>6. PhasesInv'
  BY <1>0, <1>1, <1>2, <1>5 DEF Inv, PhasesInv
<1>7. BootInv' /\ FetchedInTime'
  BY <1>0, <1>1, <1>5 DEF BootInv, FetchedInTime
<1>8. SelectorInv'
  <2>1. CASE sel.src = "pending"
    <3>1. sel = SelectorAt(sel.pc, sel.src, sel.arr, sel.len, sel.weights, sel.longLive, sel.port,
                           sel.left, sel.guard, sel.exit, sel.middles, sel.full)
      BY DEF Inv, SelectorInv
    <3>2. sel' = SelectorAt(sel.pc, "cns", sel.arr, sel.len, sel.weights, sel.longLive, sel.port,
                            sel.left, sel.guard, sel.exit, sel.middles, sel.full)
      BY <1>0, <2>1, <3>1 DEF SelectorAt
    <3>3. sel'.src = "cns" /\ sel' = [sel EXCEPT !.src = "cns", !.arr = sel.arr]
      <4>1. SelectorFields(sel', sel.pc, "cns", sel.arr, sel.len, sel.weights, sel.longLive, sel.port,
                           sel.left, sel.guard, sel.exit, sel.middles, sel.full)
        BY <3>2, SelectorIs, Zenon
      <4>2. sel'.src = "cns" /\ sel'.arr = sel.arr
        BY <4>1 DEF SelectorFields
      <4>3. [sel' EXCEPT !.arr = sel.arr] = sel'
        <5> DEFINE s2 == sel'
                   arr == sel.arr
        <5>1. s2 = SelectorAt(s2.pc, s2.src, s2.arr, s2.len, s2.weights, s2.longLive, s2.port,
                              s2.left, s2.guard, s2.exit, s2.middles, s2.full) /\ s2.arr = arr
          BY <3>2, <4>1 DEF SelectorFields
        <5> HIDE DEF s2, arr
        <5>2. [s2 EXCEPT !.arr = arr] = s2
          BY <5>1 DEF SelectorAt
        <5> QED BY <5>2 DEF s2, arr
      <4>4. sel' = [sel EXCEPT !.src = "cns"]
        BY <1>0, <2>1
      <4> QED BY <4>2, <4>3, <4>4
    <3>4. sel.pc \notin {"none", "wild"}
      BY <2>1 DEF Inv, SelectorInv
    <3>5. Pointed' = Pointed
      BY <1>2, <2>1, <3>3, PointedIs
    <3>6. Source'
      BY <1>2, <3>3 DEF Source
    <3> QED BY <3>3, <3>4, <3>5, <3>6, SelectorMoved DEF Inv
  <2>2. CASE sel.src # "pending"
    BY <1>0, <2>2, DetachedKept DEF Inv
  <2> QED BY <2>1, <2>2
<1> QED BY <1>3, <1>6, <1>7, <1>8 DEF Inv

-----------------------------------------------------------------------------
(* What happens outside.                                                   *)

LEMMA LinkFailsInv ==
  ASSUME Inv, LinkFails, scenario' = scenario
  PROVE  Inv'
<1>0. link' \in {"up", "dead", "closed"} /\ UNCHANGED <<scenario, boot, cns, age, job, pending, sel>>
  BY Zenon DEF LinkFails
<1>1. ConsensusInv' /\ SelectorInv' /\ BootInv' /\ FetchedInTime'
  BY <1>0, ConsensusKept, SelectorUnchanged, BootKept, InTimeKept DEF Inv
<1>2. PhasesInv'
  BY <1>0 DEF Inv, PhasesInv
<1> QED BY <1>1, <1>2 DEF Inv

LEMMA TickInv ==
  ASSUME Inv, Tick, scenario' = scenario
  PROVE  Inv'
<1>0. /\ job.pc = "wait" /\ job.timer > 0 /\ age' = Aged(age) /\ UNCHANGED <<scenario, link, boot, cns, pending, sel>>
      /\ job' = [job EXCEPT !.timer = job.timer - 1]
  BY DEF Tick
<1>1. /\ job = JobAt(job.pc, job.timer, job.next, job.failed) /\ job.timer \in 0 .. Fresh + Valid
      /\ AgeOK(age) /\ Published(cns[1])
  BY <1>0, ConsensusIs DEF Inv, PhasesInv, ConsensusInv
<1>2. Fresh \in Nat \ {0} /\ Valid \in Nat \ {0} /\ age \in Nat /\ job.timer \in Nat \ {0}
  BY <1>0, <1>1, ConsensusAssumption DEF AgeOK
<1>3. AgeOK(age')
  BY <1>0, <1>1, <1>2 DEF Aged, AgeOK
<1>4. JobFields(job', "wait", job.timer - 1, job.next, job.failed)
  <2>1. job' = JobAt("wait", job.timer - 1, job.next, job.failed)
    <3> DEFINE t == job.timer - 1
    <3>1. job' = [job EXCEPT !.timer = t]
      BY <1>0
    <3> HIDE DEF t
    <3>2. job' = JobAt("wait", t, job.next, job.failed)
      BY <1>0, <1>1, <3>1 DEF JobAt
    <3> QED BY <3>2 DEF t
  <2> QED BY <2>1, JobIs, Zenon
<1>5. /\ job'.pc = "wait" /\ job'.timer = job.timer - 1 /\ job'.next = job.next /\ job'.failed = job.failed
      /\ job' = JobAt(job'.pc, job'.timer, job'.next, job'.failed)
  BY <1>4 DEF JobFields
<1>6. ConsensusInv' /\ SelectorInv' /\ BootInv'
  <2>1. ConsensusInv'
    BY <1>0, <1>3 DEF Inv, ConsensusInv
  <2> QED BY <1>0, <2>1, SelectorUnchanged, BootKept DEF Inv
<1>7. PhasesInv'
  BY <1>0, <1>2, <1>5 DEF Inv, PhasesInv
<1>8. FetchedInTime'
  <2> SUFFICES ASSUME ~ job'.failed, Dated(cns[1]) PROVE age' + job'.timer < cns[1].validUntil
    BY <1>0 DEF FetchedInTime, Dated
  <2>1. age + job.timer < cns[1].validUntil
    BY <1>0, <1>5 DEF Inv, FetchedInTime
  <2>2. cns[1].validUntil = Fresh + Valid
    BY <1>1 DEF Published, Dated
  <2>3. age' = age + 1
    BY <1>0, <1>2, <2>1, <2>2 DEF Aged
  <2> QED BY <1>2, <1>5, <2>1, <2>2, <2>3
<1> QED BY <1>6, <1>7, <1>8 DEF Inv
-----------------------------------------------------------------------------
(* The user.                                                               *)

\* A Selector with one field assigned.
SelectorSets(s, pc, src, arr, len, weights, longLive, port, left, guard, exit, middles, full) ==
    \A x : /\ [s EXCEPT !.pc = x] = SelectorAt(x, src, arr, len, weights, longLive, port, left, guard, exit, middles, full)
           /\ [s EXCEPT !.src = x] = SelectorAt(pc, x, arr, len, weights, longLive, port, left, guard, exit, middles, full)
           /\ [s EXCEPT !.len = x] = SelectorAt(pc, src, arr, x, weights, longLive, port, left, guard, exit, middles, full)
           /\ [s EXCEPT !.weights = x] = SelectorAt(pc, src, arr, len, x, longLive, port, left, guard, exit, middles, full)
           /\ [s EXCEPT !.longLive = x] = SelectorAt(pc, src, arr, len, weights, x, port, left, guard, exit, middles, full)
           /\ [s EXCEPT !.port = x] = SelectorAt(pc, src, arr, len, weights, longLive, x, left, guard, exit, middles, full)
           /\ [s EXCEPT !.left = x] = SelectorAt(pc, src, arr, len, weights, longLive, port, x, guard, exit, middles, full)
           /\ [s EXCEPT !.guard = x] = SelectorAt(pc, src, arr, len, weights, longLive, port, left, x, exit, middles, full)
           /\ [s EXCEPT !.exit = x] = SelectorAt(pc, src, arr, len, weights, longLive, port, left, guard, x, middles, full)
           /\ [s EXCEPT !.middles = x] = SelectorAt(pc, src, arr, len, weights, longLive, port, left, guard, exit, x, full)
           /\ [s EXCEPT !.full = x] = SelectorAt(pc, src, arr, len, weights, longLive, port, left, guard, exit, middles, x)

LEMMA SelectorSetIs ==
  ASSUME NEW pc, NEW src, NEW arr, NEW len, NEW weights, NEW longLive, NEW port, NEW left, NEW guard, NEW exit,
         NEW middles, NEW full,
         NEW s, s = SelectorAt(pc, src, arr, len, weights, longLive, port, left, guard, exit, middles, full)
  PROVE  SelectorSets(s, pc, src, arr, len, weights, longLive, port, left, guard, exit, middles, full)
BY SMTT(30) DEF SelectorAt, SelectorSets

\* path.New, with the words it read.
ReadyWith(s, src, len, weights, longLive) ==
    s = [NoSelector EXCEPT !.pc = "ready", !.src = src, !.len = len, !.weights = weights, !.longLive = longLive]

ReadyAt(s, src, len, weights, longLive) ==
    SelectorFields(s, "ready", src, <<>>, len, weights, longLive, 0, 0, 0, 0, <<>>, <<>>)

LEMMA ReadyIs ==
  ASSUME NEW s, NEW src, NEW len, NEW weights, NEW longLive, ReadyWith(s, src, len, weights, longLive)
  PROVE  /\ ReadyAt(s, src, len, weights, longLive)
         /\ s = SelectorAt("ready", src, <<>>, len, weights, longLive, 0, 0, 0, 0, <<>>, <<>>)
<1>1. PICK no : NoSelector = SelectorAt("none", "cns", <<>>, 0, NoWeights, no, 0, 0, 0, 0, <<>>, <<>>)
  BY NoneAre, Zenon
<1> DEFINE s1 == [NoSelector EXCEPT !.pc = "ready"]
           s2 == [s1 EXCEPT !.src = src]
           s3 == [s2 EXCEPT !.len = len]
           s4 == [s3 EXCEPT !.weights = weights]
           s5 == [s4 EXCEPT !.longLive = longLive]
<1>2. s = s5
  BY DEF ReadyWith
<1>3. s1 = SelectorAt("ready", "cns", <<>>, 0, NoWeights, no, 0, 0, 0, 0, <<>>, <<>>)
  <2>1. SelectorSets(NoSelector, "none", "cns", <<>>, 0, NoWeights, no, 0, 0, 0, 0, <<>>, <<>>)
    BY <1>1, SelectorSetIs, Zenon
  <2> QED BY <2>1, Zenon DEF SelectorSets
<1> HIDE DEF s1
<1>4. s2 = SelectorAt("ready", src, <<>>, 0, NoWeights, no, 0, 0, 0, 0, <<>>, <<>>)
  <2>1. SelectorSets(s1, "ready", "cns", <<>>, 0, NoWeights, no, 0, 0, 0, 0, <<>>, <<>>)
    BY <1>3, SelectorSetIs, Zenon
  <2> QED BY <2>1, Zenon DEF SelectorSets
<1> HIDE DEF s2
<1>5. s3 = SelectorAt("ready", src, <<>>, len, NoWeights, no, 0, 0, 0, 0, <<>>, <<>>)
  <2>1. SelectorSets(s2, "ready", src, <<>>, 0, NoWeights, no, 0, 0, 0, 0, <<>>, <<>>)
    BY <1>4, SelectorSetIs, Zenon
  <2> QED BY <2>1, Zenon DEF SelectorSets
<1> HIDE DEF s3
<1>6. s4 = SelectorAt("ready", src, <<>>, len, weights, no, 0, 0, 0, 0, <<>>, <<>>)
  <2>1. SelectorSets(s3, "ready", src, <<>>, len, NoWeights, no, 0, 0, 0, 0, <<>>, <<>>)
    BY <1>5, SelectorSetIs, Zenon
  <2> QED BY <2>1, Zenon DEF SelectorSets
<1> HIDE DEF s4
<1>7. s5 = SelectorAt("ready", src, <<>>, len, weights, longLive, 0, 0, 0, 0, <<>>, <<>>)
  <2>1. SelectorSets(s4, "ready", src, <<>>, len, weights, no, 0, 0, 0, 0, <<>>, <<>>)
    BY <1>6, SelectorSetIs, Zenon
  <2> QED BY <2>1, Zenon DEF SelectorSets
<1> HIDE DEF s5
<1>8. s = SelectorAt("ready", src, <<>>, len, weights, longLive, 0, 0, 0, 0, <<>>, <<>>)
  BY <1>2, <1>7
<1>9. ReadyAt(s, src, len, weights, longLive)
  BY <1>8, SelectorIs, Zenon DEF ReadyAt
<1> QED BY <1>8, <1>9

\* A step of the user's changes the Selector alone.
LEMMA UserInv ==
  ASSUME Inv, UNCHANGED <<scenario, link, boot, cns, age, job, pending>>, SelectorInv'
  PROVE  Inv'
<1>1. ConsensusInv' /\ BootInv' /\ FetchedInTime'
  BY ConsensusKept, BootKept, InTimeKept DEF Inv
<1>2. PhasesInv'
  BY DEF Inv, PhasesInv
<1> QED BY <1>1, <1>2 DEF Inv

LEMMA NewInv ==
  ASSUME Inv, New, scenario' = scenario
  PROVE  Inv' /\ sel'.pc # "done"
<1> DEFINE From(src) == IF src = "cns" THEN cns[1] ELSE pending[1].cns
           srcs == IF job.pc = "store" THEN {"cns", "pending"} ELSE {"cns"}
<1>0. cns # <<>> /\ UNCHANGED <<scenario, link, boot, cns, age, job, pending>>
  BY Zenon DEF New
<1>1. PICK ptr \in srcs, len \in srcs, w \in srcs, longLive \in BOOLEAN :
           sel' = IF Len(From(len).relays) > Len(From(ptr).relays)
                     THEN [NoSelector EXCEPT !.pc = "wild"]
                     ELSE [NoSelector EXCEPT !.pc = "ready", !.src = ptr, !.len = Len(From(len).relays),
                                             !.weights = From(w).weights, !.longLive = longLive]
  <2>1. \E ptr, len, w \in srcs, longLive \in BOOLEAN :
           sel' = IF Len(From(len).relays) > Len(From(ptr).relays)
                     THEN [NoSelector EXCEPT !.pc = "wild"]
                     ELSE [NoSelector EXCEPT !.pc = "ready", !.src = ptr, !.len = Len(From(len).relays),
                                             !.weights = From(w).weights, !.longLive = longLive]
    BY DEF New
  <2> QED BY <2>1, Zenon
<1>2. /\ ptr \in {"cns", "pending"} /\ len \in {"cns", "pending"} /\ w \in {"cns", "pending"}
      /\ (ptr = "pending" \/ len = "pending" \/ w = "pending") => pending # <<>>
  BY DEF Inv, PhasesInv
<1>3. /\ Published(From(len)) /\ Published(From(w)) /\ Published(From(ptr))
      /\ From(w).weights \in [Weights -> Nat]
      /\ OwnRelays(From(len).relays) /\ OwnRelays(From(ptr).relays)
  <2>1. \A x \in {"cns", "pending"} : (x = "pending" => pending # <<>>) => Published(From(x))
    BY <1>0, ConsensusIs DEF Inv
  <2> QED BY <1>2, <2>1 DEF Published
<1>4. Len(From(len).relays) \in Nat /\ Len(From(ptr).relays) \in Nat
  BY <1>3, OwnIs
<1>5. CASE sel' = [NoSelector EXCEPT !.pc = "wild"]
  <2>1. PICK no : NoSelector = SelectorAt("none", "cns", <<>>, 0, NoWeights, no, 0, 0, 0, 0, <<>>, <<>>)
    BY NoneAre, Zenon
  <2>2. SelectorSets(NoSelector, "none", "cns", <<>>, 0, NoWeights, no, 0, 0, 0, 0, <<>>, <<>>)
    BY <2>1, SelectorSetIs, Zenon
  <2>3. sel' = SelectorAt("wild", "cns", <<>>, 0, NoWeights, no, 0, 0, 0, 0, <<>>, <<>>)
    BY <1>5, <2>2, Zenon DEF SelectorSets
  <2>4. SelectorFields(sel', "wild", "cns", <<>>, 0, NoWeights, no, 0, 0, 0, 0, <<>>, <<>>)
    BY <2>3, SelectorIs, Zenon
  <2>5. sel' = SelectorAt(sel'.pc, sel'.src, sel'.arr, sel'.len, sel'.weights, sel'.longLive, sel'.port,
                          sel'.left, sel'.guard, sel'.exit, sel'.middles, sel'.full)
    BY <2>3, <2>4 DEF SelectorFields
  <2>6. /\ sel'.pc = "wild" /\ sel'.src = "cns" /\ sel'.len = 0 /\ sel'.guard = 0 /\ sel'.exit = 0
        /\ sel'.middles = <<>> /\ sel'.full = <<>>
    BY <2>4 DEF SelectorFields
  <2>7. SelectorInv'
    BY <2>5, <2>6 DEF SelectorInv
  <2> QED BY <1>0, <2>6, <2>7, UserInv
<1>6. CASE /\ ~ (Len(From(len).relays) > Len(From(ptr).relays))
           /\ ReadyWith(sel', ptr, Len(From(len).relays), From(w).weights, longLive)
  <2> DEFINE n == Len(From(len).relays)
             ws == From(w).weights
             rs == From(ptr).relays
  <2>1. n \in Nat /\ n <= Len(rs) /\ ReadyWith(sel', ptr, n, ws, longLive) /\ ws \in [Weights -> Nat]
    BY <1>3, <1>4, <1>6
  <2>2. (Pointed' = rs /\ Source') \/ sel'.src # ptr
    <3>1. CASE ptr = "cns"
      BY <1>0, <3>1, PointedIs DEF Source
    <3>2. CASE ptr = "pending"
      BY <1>0, <1>2, <3>2, PointedIs DEF Source
    <3> QED BY <1>2, <3>1, <3>2
  <2> HIDE DEF n, ws, rs
  <2>3. /\ ReadyAt(sel', ptr, n, ws, longLive)
        /\ sel' = SelectorAt("ready", ptr, <<>>, n, ws, longLive, 0, 0, 0, 0, <<>>, <<>>)
    BY <2>1, ReadyIs
  <2>4. sel' = SelectorAt(sel'.pc, sel'.src, sel'.arr, sel'.len, sel'.weights, sel'.longLive, sel'.port,
                          sel'.left, sel'.guard, sel'.exit, sel'.middles, sel'.full)
    BY <2>3 DEF ReadyAt, SelectorFields
  <2>5. /\ sel'.pc = "ready" /\ sel'.src = ptr /\ sel'.len = n /\ sel'.guard = 0 /\ sel'.exit = 0
        /\ sel'.middles = <<>> /\ sel'.full = <<>> /\ sel'.weights = ws
    BY <2>3 DEF ReadyAt, SelectorFields
  <2>6. SelectorInv'
    BY <2>1, <2>2, <2>4, <2>5 DEF SelectorInv
  <2> QED BY <1>0, <2>5, <2>6, UserInv
<1>7. \/ sel' = [NoSelector EXCEPT !.pc = "wild"]
      \/ /\ ~ (Len(From(len).relays) > Len(From(ptr).relays))
         /\ ReadyWith(sel', ptr, Len(From(len).relays), From(w).weights, longLive)
  BY <1>1, Zenon DEF ReadyWith
<1> QED BY <1>5, <1>6, <1>7, Zenon
\* What selectRelay gives the user: a relay with keys, in no /16 of those
\* chosen so far, that lets the port through when there is one.
Picked(s, port, e) ==
    /\ e \in 1 .. sel.len /\ HaveAllKeys(Pointed[e])
    /\ port # 0 => port \in Pointed[e].ports
    /\ \A j \in Chosen(s) : j \in 1 .. sel.len => Pointed[j].ipLevel # Pointed[e].ipLevel

\* What selectRandom returns is eligible for its place.
LEMMA PickIs ==
  ASSUME ConsensusInv, SelectorInv, sel.pc \notin {"none", "wild"}, NEW s, s.weights = sel.weights,
         NEW place \in Places, NEW port, NEW e \in Picks(s, place, port), e # 0
  PROVE  Picked(s, port, e)
<1> DEFINE others == {List[i] : i \in Chosen(s)}
           n == sel.len
           list == List
<1>1. n \in Nat /\ DOMAIN list = 1 .. n /\ \A i \in 1 .. n : list[i] = Pointed[i] /\ list[i].bw \in Nat
  BY ListIs
<1>2. sel.weights \in [Weights -> Nat]
  BY DEF SelectorInv
<1>3. e \in SelectRelay(list, sel.weights, place, port, s.longLive, others)
  BY DEF Picks
<1>4. e \in 1 .. n /\ Eligible(list[e], place, port, s.longLive) /\ ~ Conflicts(list[e], others)
  <2> HIDE DEF n, list, others
  <2> QED BY <1>1, <1>2, <1>3, SelectRelayIs
<1>5. HaveAllKeys(list[e]) /\ (port # 0 => port \in list[e].ports)
  BY <1>4 DEF Eligible, Suits
<1>6. ASSUME NEW j \in Chosen(s), j \in 1 .. n PROVE Pointed[j].ipLevel # Pointed[e].ipLevel
  <2>1. list[j] \in others
    OBVIOUS
  <2>2. list[j].ipLevel # list[e].ipLevel
    BY <1>4, <2>1, Zenon DEF Conflicts
  <2> QED BY <1>1, <1>4, <1>6, <2>2
<1>7. list[e] = Pointed[e]
  BY <1>1, <1>4
<1> QED BY <1>4, <1>5, <1>6, <1>7 DEF Picked

\* The path with its first relay, and with one more before the exit.
LEMMA SoundOne ==
  ASSUME NEW rs, NEW e, NEW port, HaveAllKeys(rs[e]), port \in rs[e].ports
  PROVE  Sound(rs, <<e>>, port)
<1>1. Len(<<e>>) = 1 /\ \A a \in 1 .. 1 : <<e>>[a] = e
  OBVIOUS
<1>2. \A a, b \in 1 .. 1 : a = b
  OBVIOUS
<1> QED BY <1>1, <1>2 DEF Sound

\* A relay with keys that is in no /16 of the others keeps a path sound.
LEMMA SoundMore ==
  ASSUME NEW n \in Nat, NEW full \in Seq(1 .. n), NEW x \in 1 .. n, NEW i \in 1 .. n, NEW rs, NEW port,
         Sound(rs, Append(full, x), port), HaveAllKeys(rs[i]),
         \A a \in 1 .. Len(Append(full, x)) : rs[Append(full, x)[a]].ipLevel # rs[i].ipLevel
  PROVE  Sound(rs, Append(Append(full, i), x), port)
<1> DEFINE q == Append(full, x)
           q2 == Append(Append(full, i), x)
           L == Len(full)
<1>1. /\ L \in Nat /\ Len(q) = L + 1 /\ Len(q2) = L + 2
      /\ \A a \in 1 .. L : q[a] = full[a] /\ q2[a] = full[a]
      /\ q[L + 1] = x /\ q2[L + 1] = i /\ q2[L + 2] = x
  OBVIOUS
<1>2. /\ \A a, b \in 1 .. L + 1 : a # b => rs[q[a]].ipLevel # rs[q[b]].ipLevel
      /\ \A a \in 1 .. L + 1 : HaveAllKeys(rs[q[a]])
      /\ port \in rs[q[L + 1]].ports
      /\ \A a \in 1 .. L + 1 : rs[q[a]].ipLevel # rs[i].ipLevel
  <2> HIDE DEF q
  <2> QED BY <1>1 DEF Sound, q
<1> HIDE DEF q, q2, L
<1> DEFINE old(a) == IF a <= L THEN a ELSE L + 1
<1>3. \A a \in 1 .. L + 2 : a # L + 1 => old(a) \in 1 .. L + 1 /\ q2[a] = q[old(a)]
  <2> SUFFICES ASSUME NEW a \in 1 .. L + 2, a # L + 1 PROVE old(a) \in 1 .. L + 1 /\ q2[a] = q[old(a)]
    OBVIOUS
  <2>1. CASE a <= L
    BY <1>1, <2>1
  <2>2. CASE ~ (a <= L)
    <3>1. a = L + 2
      BY <1>1, <2>2
    <3> QED BY <1>1, <2>2, <3>1
  <2> QED BY <2>1, <2>2
<1>4. \A a, b \in 1 .. L + 2 : a # b /\ a # L + 1 /\ b # L + 1 => old(a) # old(b)
  BY <1>1
<1> HIDE DEF old
<1>5. ASSUME NEW a \in 1 .. L + 2, NEW b \in 1 .. L + 2, a # b PROVE rs[q2[a]].ipLevel # rs[q2[b]].ipLevel
  <2>1. CASE a = L + 1
    <3>1. old(b) \in 1 .. L + 1 /\ q2[b] = q[old(b)] /\ q2[a] = i
      BY <1>1, <1>3, <1>5, <2>1
    <3> QED BY <1>2, <3>1
  <2>2. CASE b = L + 1
    <3>1. old(a) \in 1 .. L + 1 /\ q2[a] = q[old(a)] /\ q2[b] = i
      BY <1>1, <1>3, <1>5, <2>2
    <3> QED BY <1>2, <3>1
  <2>3. CASE a # L + 1 /\ b # L + 1
    <3>1. old(a) \in 1 .. L + 1 /\ q2[a] = q[old(a)] /\ old(b) \in 1 .. L + 1 /\ q2[b] = q[old(b)] /\ old(a) # old(b)
      BY <1>3, <1>4, <1>5, <2>3
    <3> QED BY <1>2, <3>1
  <2> QED BY <2>1, <2>2, <2>3
<1>6. ASSUME NEW a \in 1 .. L + 2 PROVE HaveAllKeys(rs[q2[a]])
  <2>1. CASE a = L + 1
    BY <1>1, <2>1
  <2>2. CASE a # L + 1
    <3>1. old(a) \in 1 .. L + 1 /\ q2[a] = q[old(a)]
      BY <1>3, <2>2
    <3> QED BY <1>2, <3>1
  <2> QED BY <2>1, <2>2
<1>7. port \in rs[q2[Len(q2)]].ports
  BY <1>1, <1>2
<1>8. Len(q2) = L + 2
  BY <1>1
<1> QED BY <1>5, <1>6, <1>7, <1>8 DEF Sound, q2

\* The selection goes on in the same Selector.
Selects(pc, port, left, guard, exit, middles, full) ==
    sel' = SelectorAt(pc, sel.src, sel.arr, sel.len, sel.weights, sel.longLive, port, left, guard, exit, middles, full)

Selectable(pc, port, left, guard, exit, middles, full) ==
    LET q == IF pc = "done" THEN full ELSE Append(full, exit)
    IN /\ pc \in {"guard", "middle", "done", "failed"}
       /\ guard \in 0 .. sel.len /\ exit \in 0 .. sel.len
       /\ middles \in Seq(1 .. sel.len) /\ full \in Seq(1 .. sel.len)
       /\ pc # "failed" => port \in UserPorts /\ q # <<>> /\ Sound(Pointed, q, port)
       /\ pc \in {"guard", "middle"} =>
            /\ exit # 0 /\ left \in Nat \ {0}
            /\ \A a \in 1 .. Len(q) : q[a] \in ({guard, exit} \cup ToSet(middles)) \ {0}
       /\ pc = "guard" => full = <<>>

\* The Selector chooses among the same relays.
SameRelays == sel'.len = sel.len /\ Pointed' = Pointed

\* A step of the user that leaves the path sound keeps the invariant.
LEMMA SelectedInv ==
  ASSUME Inv, sel.pc \notin {"none", "wild"}, UNCHANGED <<scenario, link, boot, cns, age, job, pending>>,
         NEW pc, NEW port, NEW left, NEW guard, NEW exit, NEW middles, NEW full,
         Selects(pc, port, left, guard, exit, middles, full),
         Selectable(pc, port, left, guard, exit, middles, full)
  PROVE  Inv' /\ SameRelays
<1>1. sel' = SelectorAt(pc, sel.src, sel.arr, sel.len, sel.weights, sel.longLive, port, left, guard, exit, middles, full)
  BY DEF Selects
<1>2. SelectorFields(sel', pc, sel.src, sel.arr, sel.len, sel.weights, sel.longLive, port, left, guard, exit, middles, full)
  BY <1>1, SelectorIs, Zenon
<1>3. /\ sel'.pc = pc /\ sel'.src = sel.src /\ sel'.arr = sel.arr /\ sel'.len = sel.len /\ sel'.weights = sel.weights
      /\ sel'.port = port /\ sel'.left = left /\ sel'.guard = guard /\ sel'.exit = exit /\ sel'.middles = middles
      /\ sel'.full = full
      /\ sel' = SelectorAt(sel'.pc, sel'.src, sel'.arr, sel'.len, sel'.weights, sel'.longLive, sel'.port,
                           sel'.left, sel'.guard, sel'.exit, sel'.middles, sel'.full)
  BY <1>1, <1>2 DEF SelectorFields
<1>4. Pointed' = Pointed /\ Source'
  <2>1. Source
    BY DEF Inv, SelectorInv
  <2> QED BY <1>3, <2>1, PointedIs DEF Source
<1>5. /\ SoFar' = (IF pc = "done" THEN full ELSE Append(full, exit))
      /\ Chosen(sel)' = ({guard, exit} \cup ToSet(middles)) \ {0}
  BY <1>3 DEF SoFar, Chosen
<1>6. sel.len \in Nat /\ sel.len <= Len(Pointed) /\ sel.weights \in [Weights -> Nat]
  BY DEF Inv, SelectorInv
<1>7. SelectorInv'
  BY <1>3, <1>4, <1>5, <1>6 DEF SelectorInv, Selectable
<1> QED BY <1>3, <1>4, <1>7, UserInv DEF SameRelays
\* SelectRandomCircuit forgets the path before.
Forgets(s, port, left) ==
    s = [sel EXCEPT !.guard = 0, !.exit = 0, !.middles = <<>>, !.full = <<>>, !.port = port, !.left = left]

Forgot(s, port, left) ==
    s = SelectorAt(sel.pc, sel.src, sel.arr, sel.len, sel.weights, sel.longLive, port, left, 0, 0, <<>>, <<>>)

LEMMA ForgetIs ==
  ASSUME SelectorInv, NEW s, NEW port, NEW left, Forgets(s, port, left)
  PROVE  Forgot(s, port, left)
<1> DEFINE pc == sel.pc
           src == sel.src
           arr == sel.arr
           len == sel.len
           ws == sel.weights
           ll == sel.longLive
           s1 == [sel EXCEPT !.guard = 0]
           s2 == [s1 EXCEPT !.exit = 0]
           s3 == [s2 EXCEPT !.middles = <<>>]
           s4 == [s3 EXCEPT !.full = <<>>]
           s5 == [s4 EXCEPT !.port = port]
           s6 == [s5 EXCEPT !.left = left]
<1>1. sel = SelectorAt(pc, src, arr, len, ws, ll, sel.port, sel.left, sel.guard, sel.exit, sel.middles, sel.full)
  BY DEF SelectorInv
<1>2. s = s6
  BY DEF Forgets
<1> HIDE DEF pc, src, arr, len, ws, ll
<1>3. s1 = SelectorAt(pc, src, arr, len, ws, ll, sel.port, sel.left, 0, sel.exit, sel.middles, sel.full)
  <2>1. SelectorSets(sel, pc, src, arr, len, ws, ll, sel.port, sel.left, sel.guard, sel.exit, sel.middles, sel.full)
    BY <1>1, SelectorSetIs, Zenon
  <2> QED BY <2>1, Zenon DEF SelectorSets
<1> HIDE DEF s1
<1>4. s2 = SelectorAt(pc, src, arr, len, ws, ll, sel.port, sel.left, 0, 0, sel.middles, sel.full)
  <2>1. SelectorSets(s1, pc, src, arr, len, ws, ll, sel.port, sel.left, 0, sel.exit, sel.middles, sel.full)
    BY <1>3, SelectorSetIs, Zenon
  <2> QED BY <2>1, Zenon DEF SelectorSets
<1> HIDE DEF s2
<1>5. s3 = SelectorAt(pc, src, arr, len, ws, ll, sel.port, sel.left, 0, 0, <<>>, sel.full)
  <2>1. SelectorSets(s2, pc, src, arr, len, ws, ll, sel.port, sel.left, 0, 0, sel.middles, sel.full)
    BY <1>4, SelectorSetIs, Zenon
  <2> QED BY <2>1, Zenon DEF SelectorSets
<1> HIDE DEF s3
<1>6. s4 = SelectorAt(pc, src, arr, len, ws, ll, sel.port, sel.left, 0, 0, <<>>, <<>>)
  <2>1. SelectorSets(s3, pc, src, arr, len, ws, ll, sel.port, sel.left, 0, 0, <<>>, sel.full)
    BY <1>5, SelectorSetIs, Zenon
  <2> QED BY <2>1, Zenon DEF SelectorSets
<1> HIDE DEF s4
<1>7. s5 = SelectorAt(pc, src, arr, len, ws, ll, port, sel.left, 0, 0, <<>>, <<>>)
  <2>1. SelectorSets(s4, pc, src, arr, len, ws, ll, sel.port, sel.left, 0, 0, <<>>, <<>>)
    BY <1>6, SelectorSetIs, Zenon
  <2> QED BY <2>1, Zenon DEF SelectorSets
<1> HIDE DEF s5
<1>8. s6 = SelectorAt(pc, src, arr, len, ws, ll, port, left, 0, 0, <<>>, <<>>)
  <2>1. SelectorSets(s5, pc, src, arr, len, ws, ll, port, sel.left, 0, 0, <<>>, <<>>)
    BY <1>7, SelectorSetIs, Zenon
  <2> QED BY <2>1, Zenon DEF SelectorSets
<1> QED BY <1>2, <1>8, Zenon DEF Forgot, pc, src, arr, len, ws, ll

LEMMA SelectExitInv ==
  ASSUME Inv, SelectExit, scenario' = scenario
  PROVE  Inv' /\ SameRelays
<1>0. /\ sel.pc \in {"ready", "done", "failed"} /\ UNCHANGED <<scenario, link, boot, cns, age, job, pending>>
      /\ \E hops \in 1 .. MaxHops, port \in UserPorts : \E s :
           /\ Forgets(s, port, hops - 1)
           /\ \E e \in Picks(s, "exit", port) :
                sel' = IF e = 0 THEN [s EXCEPT !.pc = "failed"]
                       ELSE IF hops = 1 THEN [s EXCEPT !.pc = "done", !.exit = e, !.full = <<e>>]
                       ELSE [s EXCEPT !.pc = "guard", !.exit = e]
  <2>1. sel.pc \in {"ready", "done", "failed"} /\ UNCHANGED <<link, boot, cns, age, job, pending>>
    BY Zenon DEF SelectExit
  <2>2. PICK hops \in 1 .. MaxHops, port \in UserPorts :
          LET s == [sel EXCEPT !.guard = 0, !.exit = 0, !.middles = <<>>, !.full = <<>>,
                               !.port = port, !.left = hops - 1]
          IN \E e \in Picks(s, "exit", port) :
                sel' = IF e = 0 THEN [s EXCEPT !.pc = "failed"]
                       ELSE IF hops = 1 THEN [s EXCEPT !.pc = "done", !.exit = e, !.full = <<e>>]
                       ELSE [s EXCEPT !.pc = "guard", !.exit = e]
    BY Zenon DEF SelectExit
  <2> DEFINE s == [sel EXCEPT !.guard = 0, !.exit = 0, !.middles = <<>>, !.full = <<>>,
                               !.port = port, !.left = hops - 1]
  <2>3. Forgets(s, port, hops - 1)
    BY Zenon DEF Forgets
  <2>4. \E e \in Picks(s, "exit", port) :
                sel' = IF e = 0 THEN [s EXCEPT !.pc = "failed"]
                       ELSE IF hops = 1 THEN [s EXCEPT !.pc = "done", !.exit = e, !.full = <<e>>]
                       ELSE [s EXCEPT !.pc = "guard", !.exit = e]
    BY <2>2, Zenon
  <2> HIDE DEF s
  <2> QED BY <2>1, <2>3, <2>4, Zenon
<1>1. PICK hops, port, s, e :
        /\ hops \in 1 .. MaxHops /\ port \in UserPorts /\ Forgets(s, port, hops - 1) /\ e \in Picks(s, "exit", port)
        /\ sel' = IF e = 0 THEN [s EXCEPT !.pc = "failed"]
                  ELSE IF hops = 1 THEN [s EXCEPT !.pc = "done", !.exit = e, !.full = <<e>>]
                  ELSE [s EXCEPT !.pc = "guard", !.exit = e]
  BY <1>0, Zenon
<1> DEFINE left == hops - 1
           pc == sel.pc
           src == sel.src
           arr == sel.arr
           len == sel.len
           ws == sel.weights
           ll == sel.longLive
<1>2. s = SelectorAt(pc, src, arr, len, ws, ll, port, left, 0, 0, <<>>, <<>>)
  <2>1. Forgot(s, port, left)
    BY <1>1, ForgetIs, Zenon DEF Inv
  <2> QED BY <2>1 DEF Forgot
<1>3. hops \in Nat \ {0} /\ MaxHops \in Nat /\ port # 0
  BY <1>1, DirectoryAssumption
<1>4. len \in Nat /\ <<>> \in Seq(1 .. len)
  BY DEF Inv, SelectorInv
<1>5. sel.pc \notin {"none", "wild"}
  BY <1>0
<1> HIDE DEF left, pc, src, arr, len, ws, ll
<1>6. SelectorSets(s, pc, src, arr, len, ws, ll, port, left, 0, 0, <<>>, <<>>)
  BY <1>2, SelectorSetIs, Zenon
<1>7. CASE e = 0
  <2>1. sel' = SelectorAt("failed", src, arr, len, ws, ll, port, left, 0, 0, <<>>, <<>>)
    BY <1>1, <1>6, <1>7, Zenon DEF SelectorSets
  <2>2. Selects("failed", port, left, 0, 0, <<>>, <<>>)
    BY <2>1 DEF Selects, src, arr, len, ws, ll
  <2>3. Selectable("failed", port, left, 0, 0, <<>>, <<>>)
    BY <1>4 DEF Selectable, len
  <2> QED BY <1>0, <1>5, <2>2, <2>3, SelectedInv, Zenon
<1>8. CASE e # 0
  <2>1. Picked(s, port, e)
    <3>1. s.weights = sel.weights
      <4>1. SelectorFields(s, pc, src, arr, len, ws, ll, port, left, 0, 0, <<>>, <<>>)
        BY <1>2, SelectorIs, Zenon
      <4> QED BY <4>1 DEF SelectorFields, ws
    <3> QED BY <1>1, <1>5, <1>8, <3>1, PickIs DEF Inv, Places
  <2>2. e \in 1 .. sel.len /\ Sound(Pointed, <<e>>, port)
    <3>1. e \in 1 .. sel.len /\ HaveAllKeys(Pointed[e]) /\ port \in Pointed[e].ports
      BY <1>3, <2>1 DEF Picked
    <3> QED BY <3>1, SoundOne
  <2>3. <<e>> \in Seq(1 .. sel.len) /\ <<e>> # <<>>
    BY <2>2
  <2>4. CASE hops = 1
    <3> DEFINE s1 == [s EXCEPT !.pc = "done"]
               s2 == [s1 EXCEPT !.exit = e]
    <3>1. sel' = [s2 EXCEPT !.full = <<e>>]
      BY <1>1, <1>8, <2>4
    <3>2. s1 = SelectorAt("done", src, arr, len, ws, ll, port, left, 0, 0, <<>>, <<>>)
      BY <1>6, Zenon DEF SelectorSets
    <3> HIDE DEF s1
    <3>3. s2 = SelectorAt("done", src, arr, len, ws, ll, port, left, 0, e, <<>>, <<>>)
      <4>1. SelectorSets(s1, "done", src, arr, len, ws, ll, port, left, 0, 0, <<>>, <<>>)
        BY <3>2, SelectorSetIs, Zenon
      <4> QED BY <4>1, Zenon DEF SelectorSets
    <3> HIDE DEF s2
    <3>4. sel' = SelectorAt("done", src, arr, len, ws, ll, port, left, 0, e, <<>>, <<e>>)
      <4>1. SelectorSets(s2, "done", src, arr, len, ws, ll, port, left, 0, e, <<>>, <<>>)
        BY <3>3, SelectorSetIs, Zenon
      <4> QED BY <3>1, <4>1, Zenon DEF SelectorSets
    <3>5. Selects("done", port, left, 0, e, <<>>, <<e>>)
      BY <3>4 DEF Selects, src, arr, len, ws, ll
    <3>6. Selectable("done", port, left, 0, e, <<>>, <<e>>)
      BY <1>1, <1>4, <2>2, <2>3 DEF Selectable, len
    <3> QED BY <1>0, <1>5, <3>5, <3>6, SelectedInv, Zenon
  <2>5. CASE hops # 1
    <3> DEFINE s1 == [s EXCEPT !.pc = "guard"]
    <3>1. sel' = [s1 EXCEPT !.exit = e]
      BY <1>1, <1>8, <2>5
    <3>2. s1 = SelectorAt("guard", src, arr, len, ws, ll, port, left, 0, 0, <<>>, <<>>)
      BY <1>6, Zenon DEF SelectorSets
    <3> HIDE DEF s1
    <3>3. sel' = SelectorAt("guard", src, arr, len, ws, ll, port, left, 0, e, <<>>, <<>>)
      <4>1. SelectorSets(s1, "guard", src, arr, len, ws, ll, port, left, 0, 0, <<>>, <<>>)
        BY <3>2, SelectorSetIs, Zenon
      <4> QED BY <3>1, <4>1, Zenon DEF SelectorSets
    <3>4. Selects("guard", port, left, 0, e, <<>>, <<>>)
      BY <3>3 DEF Selects, src, arr, len, ws, ll
    <3>5. Append(<<>>, e) = <<e>> /\ Len(<<e>>) = 1 /\ <<e>>[1] = e
      OBVIOUS
    <3>6. left \in Nat \ {0}
      BY <1>3, <2>5 DEF left
    <3>7. \A a \in 1 .. Len(<<e>>) : <<e>>[a] \in ({0, e} \cup ToSet(<<>>)) \ {0}
      BY <1>8, <3>5
    <3>8. Selectable("guard", port, left, 0, e, <<>>, <<>>)
      BY <1>1, <1>4, <1>8, <2>2, <2>3, <3>5, <3>6, <3>7 DEF Selectable, len
    <3> QED BY <1>0, <1>5, <3>4, <3>8, SelectedInv, Zenon
  <2> QED BY <2>4, <2>5
<1> QED BY <1>7, <1>8
\* A relay joins the path.
IsJoined(t, s, i) == t = Joined(s, i)

JoinedAt(t, src, arr, len, ws, ll, port, left, guard, exit, middles, full, i) ==
    /\ left = 1 => t = SelectorAt("done", src, arr, len, ws, ll, port, 0, guard, exit, middles, Append(Append(full, i), exit))
    /\ left # 1 => t = SelectorAt("middle", src, arr, len, ws, ll, port, left - 1, guard, exit, middles, Append(full, i))

LEMMA JoinedIs ==
  ASSUME NEW pc, NEW src, NEW arr, NEW len, NEW ws, NEW ll, NEW port, NEW left, NEW guard, NEW exit,
         NEW middles, NEW full, NEW i,
         NEW s, s = SelectorAt(pc, src, arr, len, ws, ll, port, left, guard, exit, middles, full),
         NEW t, IsJoined(t, s, i)
  PROVE  JoinedAt(t, src, arr, len, ws, ll, port, left, guard, exit, middles, full, i)
<1>1. s.left = left /\ s.full = full /\ s.exit = exit
  <2>1. SelectorFields(s, pc, src, arr, len, ws, ll, port, left, guard, exit, middles, full)
    BY SelectorIs, Zenon
  <2> QED BY <2>1 DEF SelectorFields
<1> DEFINE full2 == Append(full, i)
           left2 == left - 1
           s1 == [s EXCEPT !.pc = "done"]
           s2 == [s1 EXCEPT !.left = 0]
           t1 == [s EXCEPT !.pc = "middle"]
           t2 == [t1 EXCEPT !.left = left2]
<1>2. CASE left = 1
  <2>1. t = [s2 EXCEPT !.full = Append(full2, exit)]
    BY <1>1, <1>2 DEF IsJoined, Joined
  <2> HIDE DEF full2
  <2>2. s1 = SelectorAt("done", src, arr, len, ws, ll, port, left, guard, exit, middles, full)
    <3>1. SelectorSets(s, pc, src, arr, len, ws, ll, port, left, guard, exit, middles, full)
      BY SelectorSetIs, Zenon
    <3> QED BY <3>1, Zenon DEF SelectorSets
  <2> HIDE DEF s1
  <2>3. s2 = SelectorAt("done", src, arr, len, ws, ll, port, 0, guard, exit, middles, full)
    <3>1. SelectorSets(s1, "done", src, arr, len, ws, ll, port, left, guard, exit, middles, full)
      BY <2>2, SelectorSetIs, Zenon
    <3> QED BY <3>1, Zenon DEF SelectorSets
  <2> HIDE DEF s2
  <2>4. t = SelectorAt("done", src, arr, len, ws, ll, port, 0, guard, exit, middles, Append(full2, exit))
    <3>1. SelectorSets(s2, "done", src, arr, len, ws, ll, port, 0, guard, exit, middles, full)
      BY <2>3, SelectorSetIs, Zenon
    <3> QED BY <2>1, <3>1, Zenon DEF SelectorSets
  <2> QED BY <1>2, <2>4, Zenon DEF JoinedAt, full2
<1>3. CASE left # 1
  <2>1. t = [t2 EXCEPT !.full = full2]
    BY <1>1, <1>3 DEF IsJoined, Joined
  <2> HIDE DEF full2, left2
  <2>2. t1 = SelectorAt("middle", src, arr, len, ws, ll, port, left, guard, exit, middles, full)
    <3>1. SelectorSets(s, pc, src, arr, len, ws, ll, port, left, guard, exit, middles, full)
      BY SelectorSetIs, Zenon
    <3> QED BY <3>1, Zenon DEF SelectorSets
  <2> HIDE DEF t1
  <2>3. t2 = SelectorAt("middle", src, arr, len, ws, ll, port, left2, guard, exit, middles, full)
    <3>1. SelectorSets(t1, "middle", src, arr, len, ws, ll, port, left, guard, exit, middles, full)
      BY <2>2, SelectorSetIs, Zenon
    <3> QED BY <3>1, Zenon DEF SelectorSets
  <2> HIDE DEF t2
  <2>4. t = SelectorAt("middle", src, arr, len, ws, ll, port, left2, guard, exit, middles, full2)
    <3>1. SelectorSets(t2, "middle", src, arr, len, ws, ll, port, left2, guard, exit, middles, full)
      BY <2>3, SelectorSetIs, Zenon
    <3> QED BY <2>1, <3>1, Zenon DEF SelectorSets
  <2> QED BY <1>3, <2>4, Zenon DEF JoinedAt, full2, left2
<1> QED BY <1>2, <1>3

\* The selection after i joined the path: s is the Selector that says that it
\* was chosen.
Joins(guard, middles, i) ==
    /\ guard \in 0 .. sel.len /\ middles \in Seq(1 .. sel.len)
    /\ LET chosen == ({guard, sel.exit} \cup ToSet(middles)) \ {0}
       IN i \in chosen /\ \A a \in 1 .. Len(SoFar) : SoFar[a] \in chosen
    /\ \E s : /\ s = SelectorAt(sel.pc, sel.src, sel.arr, sel.len, sel.weights, sel.longLive, sel.port,
                                sel.left, guard, sel.exit, middles, sel.full)
              /\ IsJoined(sel', s, i)

\* A relay that conflicts with none chosen so far joins the path.
LEMMA JoinInv ==
  ASSUME Inv, sel.pc \in {"guard", "middle"}, UNCHANGED <<scenario, link, boot, cns, age, job, pending>>,
         NEW i, Picked(sel, 0, i), NEW guard, NEW middles, Joins(guard, middles, i)
  PROVE  Inv'
<1> DEFINE n == sel.len
           full == sel.full
           exit == sel.exit
           left == sel.left
           port == sel.port
           full2 == Append(full, i)
           full3 == Append(full2, exit)
           rs == Pointed
<1>1. JoinedAt(sel', sel.src, sel.arr, sel.len, sel.weights, sel.longLive, port, left, guard, exit, middles, full, i)
  <2>1. PICK s : /\ s = SelectorAt(sel.pc, sel.src, sel.arr, sel.len, sel.weights, sel.longLive, sel.port,
                                   sel.left, guard, sel.exit, middles, sel.full)
                 /\ IsJoined(sel', s, i)
    BY DEF Joins
  <2> QED BY <2>1, JoinedIs, Zenon
<1>2. /\ n \in Nat /\ full \in Seq(1 .. n) /\ exit \in 1 .. n /\ left \in Nat \ {0} /\ port \in UserPorts
      /\ SoFar = Append(full, exit) /\ Sound(rs, Append(full, exit), port)
      /\ \A a \in 1 .. Len(SoFar) : SoFar[a] \in Chosen(sel) /\ SoFar[a] \in 1 .. n
  <2>1. SelectorInv
    BY DEF Inv
  <2>2. SoFar = Append(full, exit)
    BY DEF SoFar
  <2>3. \A a \in 1 .. Len(SoFar) : SoFar[a] \in 1 .. n
    BY <2>1, SoFarIs
  <2>4. /\ n \in Nat /\ full \in Seq(1 .. n) /\ exit \in 1 .. n /\ left \in Nat \ {0} /\ port \in UserPorts
        /\ Sound(rs, SoFar, port) /\ \A a \in 1 .. Len(SoFar) : SoFar[a] \in Chosen(sel)
    BY <2>1 DEF SelectorInv
  <2> QED BY <2>2, <2>3, <2>4
<1>3. i \in 1 .. n /\ HaveAllKeys(rs[i]) /\ \A j \in Chosen(sel) : j \in 1 .. n => rs[j].ipLevel # rs[i].ipLevel
  BY DEF Picked
<1>4. \A a \in 1 .. Len(SoFar) : rs[SoFar[a]].ipLevel # rs[i].ipLevel
  BY <1>2, <1>3
<1>5. Sound(rs, full3, port)
  <2> HIDE DEF rs, n, full, exit, port
  <2>1. \A a \in 1 .. Len(Append(full, exit)) : rs[Append(full, exit)[a]].ipLevel # rs[i].ipLevel
    BY <1>2, <1>4
  <2> QED BY <1>2, <1>3, <2>1, SoundMore
<1>6. full2 \in Seq(1 .. n) /\ full3 \in Seq(1 .. n) /\ full3 # <<>>
  <2> DEFINE S == 1 .. n
  <2>1. full \in Seq(S) /\ i \in S /\ exit \in S
    BY <1>2, <1>3, Zenon
  <2> HIDE DEF S, full, exit
  <2>2. full2 \in Seq(S)
    BY <2>1, AppendProperties, Zenon
  <2> HIDE DEF full2
  <2>3. full3 \in Seq(S) /\ full3 # <<>>
    BY <2>1, <2>2, AppendProperties, ZenonT(30)
  <2> QED BY <2>2, <2>3, Zenon DEF S
<1>7. \A a \in 1 .. Len(full3) : full3[a] \in ({guard, exit} \cup ToSet(middles)) \ {0}
  <2> DEFINE C == ({guard, exit} \cup ToSet(middles)) \ {0}
             L == Len(full)
             q == Append(full, exit)
  <2>1. /\ L \in Nat /\ Len(q) = L + 1 /\ Len(full3) = L + 2
        /\ \A a \in 1 .. L : q[a] = full[a] /\ full3[a] = full[a]
        /\ q[L + 1] = exit /\ full3[L + 1] = i /\ full3[L + 2] = exit
    <3> HIDE DEF n, full, exit
    <3> QED BY <1>2, <1>3
  <2>2. i \in C /\ \A a \in 1 .. Len(q) : q[a] \in C
    BY <1>2 DEF Joins
  <2> HIDE DEF C, q, full3, L
  <2>3. \A a \in 1 .. L + 1 : q[a] \in C
    BY <2>1, <2>2
  <2>4. exit \in C
    <3>1. L + 1 \in 1 .. L + 1
      BY <2>1
    <3> QED BY <2>1, <2>3, <3>1
  <2>5. ASSUME NEW a \in 1 .. L + 2 PROVE full3[a] \in C
    <3>1. CASE a \in 1 .. L
      <4>1. a \in 1 .. L + 1
        BY <2>1, <3>1
      <4> QED BY <2>1, <2>3, <3>1, <4>1
    <3>2. CASE a = L + 1
      BY <2>1, <2>2, <3>2
    <3>3. CASE a = L + 2
      BY <2>1, <2>4, <3>3
    <3> QED BY <2>1, <3>1, <3>2, <3>3
  <2> QED BY <2>1, <2>5 DEF C
<1>8. guard \in 0 .. n /\ middles \in Seq(1 .. n) /\ exit \in 0 .. n /\ exit # 0
  BY <1>2 DEF Joins
<1>9. sel.pc \notin {"none", "wild"}
  OBVIOUS
<1>10. CASE left = 1
  <2>1. Selects("done", port, 0, guard, exit, middles, full3)
    BY <1>1, <1>10 DEF JoinedAt, Selects
  <2>2. Selectable("done", port, 0, guard, exit, middles, full3)
    BY <1>2, <1>5, <1>6, <1>8 DEF Selectable
  <2> QED BY <1>9, <2>1, <2>2, SelectedInv, Zenon
<1>11. CASE left # 1
  <2>1. Selects("middle", port, left - 1, guard, exit, middles, full2)
    BY <1>1, <1>11 DEF JoinedAt, Selects
  <2>2. left - 1 \in Nat \ {0}
    BY <1>2, <1>11
  <2> HIDE DEF full2
  <2>3. Selectable("middle", port, left - 1, guard, exit, middles, full2)
    BY <1>2, <1>5, <1>6, <1>7, <1>8, <2>2 DEF Selectable
  <2> QED BY <1>9, <2>1, <2>3, SelectedInv, Zenon
<1> QED BY <1>10, <1>11

LEMMA SelectGuardInv ==
  ASSUME Inv, SelectGuard, scenario' = scenario
  PROVE  Inv'
<1>0. /\ sel.pc = "guard" /\ UNCHANGED <<scenario, link, boot, cns, age, job, pending>>
      /\ \E g \in Picks(sel, "guard", 0) :
           sel' = IF g = 0 THEN [sel EXCEPT !.pc = "failed"] ELSE Joined([sel EXCEPT !.guard = g], g)
  BY Zenon DEF SelectGuard
<1>1. PICK g \in Picks(sel, "guard", 0) :
           sel' = IF g = 0 THEN [sel EXCEPT !.pc = "failed"] ELSE Joined([sel EXCEPT !.guard = g], g)
  BY <1>0, Zenon
<1>2. SelectorSets(sel, sel.pc, sel.src, sel.arr, sel.len, sel.weights, sel.longLive, sel.port,
                   sel.left, sel.guard, sel.exit, sel.middles, sel.full)
  <2>1. sel = SelectorAt(sel.pc, sel.src, sel.arr, sel.len, sel.weights, sel.longLive, sel.port,
                         sel.left, sel.guard, sel.exit, sel.middles, sel.full)
    BY DEF Inv, SelectorInv
  <2> QED BY <2>1, SelectorSetIs, Zenon
<1>3. /\ sel.guard \in 0 .. sel.len /\ sel.exit \in 0 .. sel.len
      /\ sel.middles \in Seq(1 .. sel.len) /\ sel.full \in Seq(1 .. sel.len) /\ sel.len \in Nat
      /\ sel.full = <<>> /\ SoFar = Append(sel.full, sel.exit)
  BY <1>0 DEF Inv, SelectorInv, SoFar
<1>4. CASE g = 0
  <2>1. Selects("failed", sel.port, sel.left, sel.guard, sel.exit, sel.middles, sel.full)
    BY <1>1, <1>2, <1>4, Zenon DEF SelectorSets, Selects
  <2>2. Selectable("failed", sel.port, sel.left, sel.guard, sel.exit, sel.middles, sel.full)
    BY <1>3 DEF Selectable
  <2>3. sel.pc \notin {"none", "wild"}
    BY <1>0
  <2> QED BY <1>0, <2>1, <2>2, <2>3, SelectedInv, Zenon
<1>5. CASE g # 0
  <2>1. Picked(sel, 0, g)
    BY <1>0, <1>5, PickIs DEF Inv, Places
  <2>2. [sel EXCEPT !.guard = g] = SelectorAt(sel.pc, sel.src, sel.arr, sel.len, sel.weights, sel.longLive, sel.port,
                                              sel.left, g, sel.exit, sel.middles, sel.full)
    BY <1>2, Zenon DEF SelectorSets
  <2>3. IsJoined(sel', [sel EXCEPT !.guard = g], g)
    BY <1>1, <1>5, Zenon DEF IsJoined
  <2>4. g \in 0 .. sel.len /\ g \in ({g, sel.exit} \cup ToSet(sel.middles)) \ {0}
    BY <1>5, <2>1 DEF Picked
  <2>5. \A a \in 1 .. Len(SoFar) : SoFar[a] \in ({g, sel.exit} \cup ToSet(sel.middles)) \ {0}
    <3>1. sel.exit # 0
      BY <1>0 DEF Inv, SelectorInv
    <3>2. Len(SoFar) = 1 /\ SoFar[1] = sel.exit
      BY <1>3
    <3> QED BY <3>1, <3>2
  <2>6. Joins(g, sel.middles, g)
    BY <1>3, <2>2, <2>3, <2>4, <2>5, Zenon DEF Joins
  <2>7. sel.pc \in {"guard", "middle"}
    BY <1>0
  <2> QED BY <1>0, <2>1, <2>6, <2>7, JoinInv, Zenon
<1> QED BY <1>4, <1>5

LEMMA SelectMiddleInv ==
  ASSUME Inv, SelectMiddle, scenario' = scenario
  PROVE  Inv'
<1>0. /\ sel.pc = "middle" /\ UNCHANGED <<scenario, link, boot, cns, age, job, pending>>
      /\ \E m \in Picks(sel, "middle", 0) :
           sel' = IF m = 0 THEN [sel EXCEPT !.pc = "failed"] ELSE Joined([sel EXCEPT !.middles = Append(sel.middles, m)], m)
  BY Zenon DEF SelectMiddle
<1>1. PICK m \in Picks(sel, "middle", 0) :
           sel' = IF m = 0 THEN [sel EXCEPT !.pc = "failed"] ELSE Joined([sel EXCEPT !.middles = Append(sel.middles, m)], m)
  BY <1>0, Zenon
<1>2. SelectorSets(sel, sel.pc, sel.src, sel.arr, sel.len, sel.weights, sel.longLive, sel.port,
                   sel.left, sel.guard, sel.exit, sel.middles, sel.full)
  <2>1. sel = SelectorAt(sel.pc, sel.src, sel.arr, sel.len, sel.weights, sel.longLive, sel.port,
                         sel.left, sel.guard, sel.exit, sel.middles, sel.full)
    BY DEF Inv, SelectorInv
  <2> QED BY <2>1, SelectorSetIs, Zenon
<1>3. /\ sel.guard \in 0 .. sel.len /\ sel.exit \in 0 .. sel.len
      /\ sel.middles \in Seq(1 .. sel.len) /\ sel.full \in Seq(1 .. sel.len) /\ sel.len \in Nat
  BY DEF Inv, SelectorInv
<1>4. CASE m = 0
  <2>1. Selects("failed", sel.port, sel.left, sel.guard, sel.exit, sel.middles, sel.full)
    BY <1>1, <1>2, <1>4, Zenon DEF SelectorSets, Selects
  <2>2. Selectable("failed", sel.port, sel.left, sel.guard, sel.exit, sel.middles, sel.full)
    BY <1>3 DEF Selectable
  <2>3. sel.pc \notin {"none", "wild"}
    BY <1>0
  <2> QED BY <1>0, <2>1, <2>2, <2>3, SelectedInv, Zenon
<1>5. CASE m # 0
  <2> DEFINE ms == Append(sel.middles, m)
  <2>1. Picked(sel, 0, m)
    BY <1>0, <1>5, PickIs DEF Inv, Places
  <2>2. [sel EXCEPT !.middles = ms] = SelectorAt(sel.pc, sel.src, sel.arr, sel.len, sel.weights, sel.longLive, sel.port,
                                                 sel.left, sel.guard, sel.exit, ms, sel.full)
    BY <1>2, Zenon DEF SelectorSets
  <2>3. IsJoined(sel', [sel EXCEPT !.middles = ms], m)
    BY <1>1, <1>5, Zenon DEF IsJoined
  <2>4. m \in 1 .. sel.len
    BY <2>1 DEF Picked
  <2>5. ms \in Seq(1 .. sel.len) /\ ToSet(sel.middles) \cup {m} \subseteq ToSet(ms)
    <3> DEFINE old == sel.middles
               n == sel.len
               k == Len(old)
    <3>1. old \in Seq(1 .. n) /\ m \in 1 .. n
      BY <1>3, <2>4
    <3> HIDE DEF old, n
    <3>2. /\ Append(old, m) \in Seq(1 .. n) /\ Len(Append(old, m)) = k + 1 /\ k \in Nat
          /\ DOMAIN old = 1 .. k /\ DOMAIN Append(old, m) = 1 .. k + 1
          /\ Append(old, m)[k + 1] = m /\ \A x \in 1 .. k : Append(old, m)[x] = old[x]
      BY <3>1
    <3> HIDE DEF k
    <3>3. \A x \in 1 .. k : x \in 1 .. k + 1
      BY <3>2
    <3>4. k + 1 \in 1 .. k + 1
      BY <3>2
    <3>5. ToSet(old) \cup {m} \subseteq ToSet(Append(old, m))
      BY <3>2, <3>3, <3>4 DEF ToSet
    <3> QED BY <3>2, <3>5 DEF old, n
  <2> HIDE DEF ms
  <2>6. m \in ({sel.guard, sel.exit} \cup ToSet(ms)) \ {0}
    BY <1>5, <2>5
  <2>7. \A a \in 1 .. Len(SoFar) : SoFar[a] \in ({sel.guard, sel.exit} \cup ToSet(ms)) \ {0}
    <3>1. \A a \in 1 .. Len(SoFar) : SoFar[a] \in Chosen(sel)
      BY <1>0 DEF Inv, SelectorInv
    <3> QED BY <2>5, <3>1 DEF Chosen
  <2>8. Joins(sel.guard, ms, m)
    BY <1>3, <2>2, <2>3, <2>5, <2>6, <2>7, Zenon DEF Joins
  <2>9. sel.pc \in {"guard", "middle"}
    BY <1>0
  <2> QED BY <1>0, <2>1, <2>8, <2>9, JoinInv, Zenon
<1> QED BY <1>4, <1>5
-----------------------------------------------------------------------------
(* The theorems.                                                           *)

LEMMA InvKept ==
  ASSUME Inv, [Next]_vars
  PROVE  Inv'
<1>1. CASE Next
  <2> SUFFICES ASSUME Step, scenario' = scenario PROVE Inv'
    BY <1>1 DEF Next
  <2>1. CASE BootstrapStarts
    BY <2>1, BootstrapStartsInv
  <2>2. CASE GetMicrodescriptors
    BY <2>2, GetMicrodescriptorsInv
  <2>3. CASE Apply
    BY <2>3, ApplyInv
  <2>4. CASE ChunkDone
    BY <2>4, ChunkDoneInv
  <2>5. CASE BootstrapDone
    BY <2>5, BootstrapDoneInv
  <2>6. CASE JobLoop
    BY <2>6, JobLoopInv
  <2>7. CASE WaitOver
    BY <2>7, WaitOverInv
  <2>8. CASE WaitCancelled
    BY <2>8, WaitCancelledInv
  <2>9. CASE FetchFails
    BY <2>9, FetchFailsInv
  <2>10. CASE FetchReturns
    BY <2>10, FetchReturnsInv
  <2>11. CASE Store
    BY <2>11, StoreInv
  <2>12. CASE New
    BY <2>12, NewInv
  <2>13. CASE SelectExit
    BY <2>13, SelectExitInv
  <2>14. CASE SelectGuard
    BY <2>14, SelectGuardInv
  <2>15. CASE SelectMiddle
    BY <2>15, SelectMiddleInv
  <2>16. CASE LinkFails
    BY <2>16, LinkFailsInv
  <2>17. CASE Tick
    BY <2>17, TickInv
  <2> QED BY <2>1, <2>2, <2>3, <2>4, <2>5, <2>6, <2>7, <2>8, <2>9, <2>10, <2>11, <2>12, <2>13, <2>14, <2>15,
             <2>16, <2>17 DEF Step
<1>2. CASE UNCHANGED vars
  <2>1. UNCHANGED <<scenario, link, boot, cns, age, job, pending, sel>>
    BY <1>2 DEF vars, stepVars
  <2>2. ConsensusInv' /\ BootInv' /\ SelectorInv' /\ FetchedInTime'
    BY <2>1, ConsensusKept, BootKept, SelectorUnchanged, InTimeKept DEF Inv
  <2>3. PhasesInv'
    BY <2>1 DEF Inv, PhasesInv
  <2> QED BY <2>2, <2>3 DEF Inv
<1> QED BY <1>1, <1>2

\* The invariant all the others follow from: every slice of relays anybody
\* still looks at was read from one published document, the chunks applied so
\* far cover the relays before Index, and a path found so far is sound.
THEOREM DirectoryInvariant == Spec => []Inv
<1>1. Init => Inv
  BY InitInv
<1>2. Inv /\ [Next]_vars => Inv'
  BY InvKept
<1> QED BY <1>1, <1>2, PTL DEF Spec

LEMMA TypeIs ==
  ASSUME Inv
  PROVE  TypeOK
<1>1. /\ scenario \in Scenarios /\ link \in {"up", "dead", "closed"}
      /\ boot.pc \in {"idle", "chunk", "apply", "done"} /\ boot.half \in {1, 2}
      /\ job.pc \in {"none", "loop", "wait", "fetch", "store", "ended"} /\ job.timer \in 0 .. Fresh + Valid
      /\ job.pc # "none" => cns # <<>>
      /\ job.pc = "store" <=> pending # <<>>
  BY DEF Inv, PhasesInv
<1>2. age \in 0 .. 2 * (Fresh + Valid) /\ Len(cns) <= 1 /\ Len(pending) <= 1
  <2>1. Len(cns) <= 1
    <3> DEFINE c == cns[1]
    <3>1. cns = <<>> \/ cns = <<c>>
      BY DEF Inv, ConsensusInv
    <3> HIDE DEF c
    <3>2. Len(<<>>) = 0 /\ Len(<<c>>) = 1
      OBVIOUS
    <3>3. Len(cns) = 0 \/ Len(cns) = 1
      BY <3>1, <3>2, Zenon
    <3> QED BY <3>3
  <2>2. Len(pending) <= 1
    <3> DEFINE p == Stored(pending[1].cns, pending[1].age)
    <3>1. pending = <<>> \/ pending = <<p>>
      BY DEF Inv, ConsensusInv
    <3> HIDE DEF p
    <3>2. Len(<<>>) = 0 /\ Len(<<p>>) = 1
      OBVIOUS
    <3>3. Len(pending) = 0 \/ Len(pending) = 1
      BY <3>1, <3>2, Zenon
    <3> QED BY <3>3
  <2> QED BY <2>1, <2>2 DEF Inv, ConsensusInv, AgeOK
<1>3. cns # <<>> => \A i \in DOMAIN Relays : RouterStatus(Relays[i])
  <2> SUFFICES ASSUME cns # <<>>, NEW i \in DOMAIN Relays PROVE RouterStatus(Relays[i])
    OBVIOUS
  <2> DEFINE r == Relays[i]
  <2>1. OwnRelays(Relays)
    BY ConsensusIs DEF Inv, Relays
  <2>2. r.bw \in Nat /\ Fielded(r) /\ Described(r)
    BY <2>1, OwnIs
  <2> HIDE DEF r
  <2>3. r.ports \subseteq 0 .. MaxPort
    BY <2>2 DEF Described
  <2>4. DOMAIN r = DOMAIN NoRelay
    <3>1. NoRelay = RouterStatusOf("", <<0, 0>>, {}, [f \in Optional |-> Unset], 0, "", {}, "", "", {})
      BY Zenon DEF NoRelay, RouterStatusOf
    <3>2. \A id, lvl, fl, gi, bw, dg, po, nt, ed, fa :
            DOMAIN RouterStatusOf(id, lvl, fl, gi, bw, dg, po, nt, ed, fa)
              = {"id", "ipLevel", "flags", "given", "bw", "digest", "ports", "ntor", "ed", "familys"}
      BY DEF RouterStatusOf
    <3>3. DOMAIN NoRelay = {"id", "ipLevel", "flags", "given", "bw", "digest", "ports", "ntor", "ed", "familys"}
      BY <3>1, <3>2, Zenon
    <3>4. DOMAIN r = {"id", "ipLevel", "flags", "given", "bw", "digest", "ports", "ntor", "ed", "familys"}
      BY <2>2, <3>2, Zenon DEF Fielded
    <3> QED BY <3>3, <3>4
  <2> QED BY <2>2, <2>3, <2>4 DEF r, RouterStatus
<1>4. /\ sel.pc \in {"none", "ready", "guard", "middle", "done", "failed", "wild"}
      /\ sel.pc \notin {"none", "wild"} => sel.len <= Len(Slice(sel.src))
  BY DEF Inv, SelectorInv, Pointed
<1>5. (ToSet(sel.full) \cup Chosen(sel)) \subseteq 1 .. sel.len
  <2> DEFINE n == sel.len
             full == sel.full
             ms == sel.middles
  <2>1. n \in Nat /\ full \in Seq(1 .. n) /\ ms \in Seq(1 .. n) /\ sel.guard \in 0 .. n /\ sel.exit \in 0 .. n
    BY DEF Inv, SelectorInv
  <2> HIDE DEF n, full, ms
  <2>2. ToSet(full) \subseteq 1 .. n /\ ToSet(ms) \subseteq 1 .. n
    BY <2>1 DEF ToSet
  <2>3. ({sel.guard, sel.exit} \cup ToSet(ms)) \ {0} \subseteq 1 .. n
    BY <2>1, <2>2
  <2> QED BY <2>2, <2>3 DEF n, full, ms, Chosen
<1> QED BY <1>1, <1>2, <1>3, <1>4, <1>5 DEF TypeOK

\* The consensus in use lists the first entries of one document, each with its
\* own identity, address, bandwidth and digest and with no keys but those of the
\* microdescriptor its digest names; it has the flags of the relays before it too,
\* and of the rest what it was given itself or else what the nearest relay before
\* it was: whatever the parser saw of the download, and wherever a chunk's answer
\* was applied.
THEOREM RelaysAreTheirOwnHolds == Spec => []RelaysAreTheirOwn
<1>1. Inv => RelaysAreTheirOwn
  <2> SUFFICES ASSUME Inv PROVE RelaysAreTheirOwn
    OBVIOUS
  <2>1. ASSUME cns # <<>>
        PROVE  \E d \in Documents : \A i \in DOMAIN Relays : LET r == Relays[i]  e == d.entries[i] IN
               /\ r.id = e.id /\ r.ipLevel = IPLevel(e.ip) /\ r.bw = e.bw /\ r.digest = e.digest
               /\ r.flags = UNION {d.entries[j].flags : j \in 1 .. i}
               /\ \A f \in Optional : GivenLast(r.given[f], f, d.entries, i)
               /\ LET m == ParseMicrodescBlock(Blocks[r.digest]) IN
                    /\ r.ntor \in {"", m.ntor}
                    /\ r.ed \in {"", m.ed}
    <3>1. OwnRelays(Relays)
      BY <2>1, ConsensusIs DEF Inv, Relays
    <3>2. PICK d \in Documents : \A i \in 1 .. Len(Relays) : Own(Relays[i], d.entries, i)
      BY <3>1 DEF OwnRelays
    <3>3. DOMAIN Relays = 1 .. Len(Relays)
      BY <3>1, OwnIs
    <3> DEFINE es == d.entries
    <3>4. ASSUME NEW i \in DOMAIN Relays
          PROVE  LET r == Relays[i]  e == es[i] IN
                 /\ r.id = e.id /\ r.ipLevel = IPLevel(e.ip) /\ r.bw = e.bw /\ r.digest = e.digest
                 /\ r.flags = UNION {es[j].flags : j \in 1 .. i}
                 /\ \A f \in Optional : GivenLast(r.given[f], f, es, i)
                 /\ LET m == ParseMicrodescBlock(Blocks[r.digest]) IN
                      /\ r.ntor \in {"", m.ntor}
                      /\ r.ed \in {"", m.ed}
      <4> DEFINE r == Relays[i]
                 e == es[i]
                 m == ParseMicrodescBlock(Blocks[r.digest])
      <4>1. Own(r, es, i)
        BY <3>2, <3>3
      <4> HIDE DEF r, es
      <4>2. /\ r.id = e.id /\ r.ipLevel = IPLevel(e.ip) /\ r.bw = e.bw /\ r.digest = e.digest
            /\ Described(r)
        BY <4>1 DEF Own
      <4>3. PICK h : Inherited(h, es, i) /\ r.flags = h[1] /\ r.given = h[2]
        BY <4>1, Zenon DEF Own
      <4>4. r.flags = UNION {es[j].flags : j \in 1 .. i} /\ \A f \in Optional : GivenLast(r.given[f], f, es, i)
        BY <4>3, Zenon DEF Inherited
      <4>5. r.ntor \in {"", m.ntor} /\ r.ed \in {"", m.ed}
        BY <4>2, Zenon DEF Described
      <4> HIDE DEF m, e
      <4> QED BY <4>2, <4>4, <4>5, Zenon DEF m, r, e
    <3> HIDE DEF es
    <3>5. QED
      BY <3>4, Zenon DEF es
  <2>2. TypeOK
    BY TypeIs
  <2> QED BY <2>1, <2>2, Zenon DEF RelaysAreTheirOwn
<1> QED BY <1>1, DirectoryInvariant, PTL

\* As long as fetches succeed the job is due to fetch again before the
\* consensus in use expires, whatever the intervals and the lag of the cache.
THEOREM FetchedInTimeHolds == Spec => []FetchedInTime
<1>1. Inv => FetchedInTime
  BY DEF Inv
<1> QED BY <1>1, DirectoryInvariant, PTL

\* The relays of a finished path are those the Selector points to.
LEMMA PathRelaysAre ==
  ASSUME Inv, sel.pc = "done"
  PROVE  /\ Len(sel.full) \in Nat \ {0} /\ DOMAIN PathRelays = 1 .. Len(sel.full) /\ Len(PathRelays) = Len(sel.full)
         /\ \A a \in 1 .. Len(sel.full) : sel.full[a] \in 1 .. sel.len /\ PathRelays[a] = Pointed[sel.full[a]]
<1>1. SoFar = sel.full
  BY DEF SoFar
<1>2. Len(sel.full) \in Nat \ {0} /\ \A a \in 1 .. Len(sel.full) : sel.full[a] \in 1 .. sel.len
  BY <1>1, SoFarIs DEF Inv
<1>3. sel.full \in Seq(1 .. sel.len)
  BY DEF Inv, SelectorInv
<1>4. \A x \in 1 .. sel.len : List[x] = Pointed[x]
  BY ListIs DEF Inv
<1> DEFINE full == sel.full
<1>5. PathRelays = [i \in 1 .. Len(full) |-> List[full[i]]]
  <2>1. DOMAIN full = 1 .. Len(full)
    BY <1>3
  <2> QED BY <2>1 DEF PathRelays
<1> HIDE DEF full
<1>6. DOMAIN PathRelays = 1 .. Len(full) /\ Len(PathRelays) = Len(full)
  BY <1>2, <1>5 DEF full
<1>7. \A a \in 1 .. Len(full) : PathRelays[a] = Pointed[full[a]]
  BY <1>2, <1>4, <1>5 DEF full
<1> QED BY <1>2, <1>6, <1>7 DEF full

\* A finished selection is a usable path, whatever bootstrap and refresh did
\* while it was made: no two of its relays in one /16, the keys of each, and an
\* exit whose microdescriptor lets the port through.
THEOREM PathIsSoundHolds == Spec => []PathIsSound
<1>1. Inv => PathIsSound
  <2> SUFFICES ASSUME Inv, sel.pc = "done"
               PROVE  /\ \A i, j \in DOMAIN PathRelays : i # j => PathRelays[i].ipLevel # PathRelays[j].ipLevel
                      /\ \A i \in DOMAIN PathRelays : HaveAllKeys(PathRelays[i])
                      /\ LET exit == PathRelays[Len(PathRelays)]
                             rules == ParseMicrodescBlock(Blocks[exit.digest]).exitRules
                         IN rules # <<>> /\ sel.port \in rules[1]
    BY Zenon DEF PathIsSound
  <2> DEFINE n == Len(sel.full)
             q == sel.full
  <2>1. /\ n \in Nat \ {0} /\ DOMAIN PathRelays = 1 .. n /\ Len(PathRelays) = n
        /\ \A a \in 1 .. n : q[a] \in 1 .. sel.len /\ PathRelays[a] = Pointed[q[a]]
    BY PathRelaysAre
  <2>2. Sound(Pointed, q, sel.port)
    BY DEF Inv, SelectorInv, SoFar
  <2>3. /\ \A a, b \in 1 .. n : a # b => Pointed[q[a]].ipLevel # Pointed[q[b]].ipLevel
        /\ \A a \in 1 .. n : HaveAllKeys(Pointed[q[a]])
        /\ sel.port \in Pointed[q[n]].ports
    BY <2>2 DEF Sound
  <2> HIDE DEF n, q
  <2>4. \A i, j \in DOMAIN PathRelays : i # j => PathRelays[i].ipLevel # PathRelays[j].ipLevel
    BY <2>1, <2>3
  <2>5. \A i \in DOMAIN PathRelays : HaveAllKeys(PathRelays[i])
    BY <2>1, <2>3
  <2> DEFINE r == PathRelays[Len(PathRelays)]
             m == ParseMicrodescBlock(Blocks[r.digest])
  <2>6. r = Pointed[q[n]] /\ q[n] \in 1 .. Len(Pointed) /\ sel.port \in r.ports
    <3>1. sel.len \in Nat /\ sel.len <= Len(Pointed) /\ n \in 1 .. n
      BY <2>1 DEF Inv, SelectorInv
    <3>2. Len(Pointed) \in Nat
      BY PointedOwn, OwnIs DEF Inv
    <3> QED BY <2>1, <2>3, <3>1, <3>2
  <2>7. Described(r)
    <3>1. OwnRelays(Pointed)
      BY PointedOwn, SMTT(30) DEF Inv
    <3> QED BY <2>6, <3>1, OwnIs
  <2> HIDE DEF r
  <2>8. m.exitRules = <<r.ports>>
    <3>1. r.ports = {} \/ m.exitRules = <<r.ports>>
      BY <2>7, Zenon DEF Described
    <3> QED BY <2>6, <3>1
  <2> HIDE DEF m
  <2>9. m.exitRules # <<>> /\ sel.port \in m.exitRules[1]
    BY <2>6, <2>8
  <2> QED BY <2>4, <2>5, <2>9, Zenon DEF m, r
<1> QED BY <1>1, DirectoryInvariant, PTL
\* A relay that has keys is left as it is, and so is everything the Selector
\* points to that has.
RelaysStay ==
    sel'.len = sel.len /\ \A i \in 1 .. sel.len : ~ Keyless(Pointed[i]) => Pointed'[i] = Pointed[i]

\* Apply writes only to a relay that has no key yet.
LEMMA ApplyStays ==
  ASSUME Inv, Apply
  PROVE  cns # <<>> /\ \A i \in 1 .. Len(cns[1].relays) : ~ Keyless(cns[1].relays[i]) => cns'[1].relays[i] = cns[1].relays[i]
<1>1. boot.pc = "apply" /\ boot.k <= Len(boot.desc) /\ Applies(boot.desc[boot.k])
  BY ApplyIs, Zenon
<1>2. cns # <<>> /\ Keyless(Relays[Index]) /\ Index \in 1 .. Len(Relays)
  BY <1>1, AppliedTo
<1>3. cns' = cns \/ \E r : RelaySet(Index, r)
  BY <1>1 DEF Applies
<1>4. CASE cns' = cns
  BY <1>2, <1>4
<1>5. ASSUME NEW r, RelaySet(Index, r)
      PROVE  \A i \in 1 .. Len(Relays) : i # Index => cns'[1].relays[i] = Relays[i]
  <2> DEFINE c == cns[1]
             rs == c.relays
             rs2 == [rs EXCEPT ![Index] = r]
             c2 == [c EXCEPT !.relays = rs2]
  <2>1. cns = <<c>> /\ Published(c) /\ OwnRelays(rs) /\ Relays = rs
    BY <1>2, ConsensusIs DEF Inv, Relays
  <2>2. cns' = [cns EXCEPT ![1] = c2]
    BY <1>5 DEF RelaySet
  <2>3. c = Cns(c.validAfter, c.freshUntil, c.validUntil, c.relays, c.weights)
    BY <2>1 DEF Published
  <2>4. DOMAIN rs = 1 .. Len(Relays)
    BY <2>1, OwnIs
  <2> HIDE DEF c2
  <2>5. cns'[1] = c2
    <3> HIDE DEF c
    <3> QED BY <2>1, <2>2
  <2> HIDE DEF rs2, c
  <2>6. c2.relays = rs2
    BY <2>3, CnsIs DEF c2, Cns
  <2>7. \A i \in 1 .. Len(Relays) : i # Index => rs2[i] = rs[i]
    BY <2>4 DEF rs2
  <2> QED BY <2>1, <2>5, <2>6, <2>7
<1>6. ASSUME NEW r, RelaySet(Index, r), NEW i \in 1 .. Len(Relays), ~ Keyless(Relays[i])
      PROVE  cns'[1].relays[i] = Relays[i]
  <2>1. i # Index
    BY <1>2, <1>6
  <2> QED BY <1>5, <1>6, <2>1
<1> QED BY <1>2, <1>3, <1>4, <1>6 DEF Relays

\* Of all the steps only those that finish a path change what it goes through.
LEMMA RelaysStayStep ==
  ASSUME Inv, [Next]_vars, sel.pc = "done", sel'.pc = "done"
  PROVE  RelaysStay
<1>1. SelectorInv /\ ConsensusInv /\ sel.len \in Nat /\ sel.len <= Len(Pointed) /\ Source
  BY DEF Inv, SelectorInv
<1>2. Len(Pointed) \in Nat
  BY <1>1, PointedOwn, OwnIs
<1>3. ASSUME SameRelays PROVE RelaysStay
  BY <1>3 DEF SameRelays, RelaysStay
<1>4. ASSUME sel' = sel, sel.src = "cns" => cns' = cns, sel.src = "pending" => pending' = pending PROVE RelaysStay
  <2>1. Pointed' = Pointed
    BY <1>1, <1>4, PointedIs DEF Source
  <2> QED BY <1>4, <2>1 DEF RelaysStay
<1>5. ASSUME sel' = Detached(sel), sel.src # "pending" PROVE RelaysStay
  <2>1. CASE sel.src = "cns"
    <3> DEFINE src2 == "old"
               arr2 == cns[1].relays
               s1 == [sel EXCEPT !.src = src2]
    <3>1. sel' = [s1 EXCEPT !.arr = arr2]
      BY <1>5, <2>1 DEF Detached
    <3>2. SelectorSets(sel, sel.pc, sel.src, sel.arr, sel.len, sel.weights, sel.longLive, sel.port,
                       sel.left, sel.guard, sel.exit, sel.middles, sel.full)
      <4>1. sel = SelectorAt(sel.pc, sel.src, sel.arr, sel.len, sel.weights, sel.longLive, sel.port,
                             sel.left, sel.guard, sel.exit, sel.middles, sel.full)
        BY <1>1 DEF SelectorInv
      <4> QED BY <4>1, SelectorSetIs, Zenon
    <3> HIDE DEF src2, arr2
    <3>3. s1 = SelectorAt(sel.pc, src2, sel.arr, sel.len, sel.weights, sel.longLive, sel.port,
                          sel.left, sel.guard, sel.exit, sel.middles, sel.full)
      BY <3>2, Zenon DEF SelectorSets
    <3> HIDE DEF s1
    <3>4. sel' = SelectorAt(sel.pc, src2, arr2, sel.len, sel.weights, sel.longLive, sel.port,
                            sel.left, sel.guard, sel.exit, sel.middles, sel.full)
      BY <3>1, <3>3 DEF SelectorAt
    <3>5. SelectorFields(sel', sel.pc, src2, arr2, sel.len, sel.weights, sel.longLive, sel.port,
                         sel.left, sel.guard, sel.exit, sel.middles, sel.full)
      BY <3>4, SelectorIs, Zenon
    <3>6. sel'.src = "old" /\ sel'.arr = cns[1].relays /\ sel'.len = sel.len
      BY <3>5 DEF SelectorFields, src2, arr2
    <3> QED BY <2>1, <3>6, PointedIs DEF RelaysStay
  <2>2. CASE sel.src = "old"
    <3>1. sel' = sel
      BY <1>5, <2>2 DEF Detached
    <3> QED BY <1>4, <2>2, <3>1
  <2> QED BY <1>1, <1>5, <2>1, <2>2 DEF Source
<1>6. CASE Next
  <2> SUFFICES ASSUME Step, scenario' = scenario PROVE RelaysStay
    BY <1>6 DEF Next
  <2>1. CASE BootstrapStarts
    <3>1. sel' = Detached(sel) /\ job.pc = "none"
      BY <2>1, Zenon DEF BootstrapStarts
    <3>2. sel.src # "pending"
      BY <1>1, <3>1 DEF Inv, PhasesInv, Source
    <3> QED BY <1>5, <3>1, <3>2
  <2>2. CASE Apply
    <3>1. sel' = sel /\ pending' = pending
      BY <2>2, ApplyIs
    <3>2. CASE sel.src = "cns"
      <4>1. Pointed = cns[1].relays /\ Pointed' = cns'[1].relays /\ sel'.len = sel.len
        BY <3>1, <3>2, PointedIs
      <4>2. \A i \in 1 .. Len(Pointed) : ~ Keyless(Pointed[i]) => Pointed'[i] = Pointed[i]
        BY <2>2, <4>1, ApplyStays
      <4>3. \A i \in 1 .. sel.len : i \in 1 .. Len(Pointed)
        BY <1>1, <1>2
      <4> QED BY <4>1, <4>2, <4>3 DEF RelaysStay
    <3>3. CASE sel.src # "cns"
      BY <1>4, <3>1, <3>3
    <3> QED BY <3>2, <3>3
  <2>3. CASE FetchReturns
    <3>1. sel' = sel /\ cns' = cns /\ job.pc = "fetch"
      BY <2>3, Zenon DEF FetchReturns
    <3>2. sel.src # "pending"
      BY <1>1, <3>1 DEF Inv, PhasesInv, Source
    <3> QED BY <1>4, <3>1, <3>2
  <2>4. CASE Store
    <3>1. /\ sel' = IF sel.src = "pending" THEN [sel EXCEPT !.src = "cns"] ELSE Detached(sel)
          /\ cns' = <<pending[1].cns>>
      BY <2>4, Zenon DEF Store
    <3>2. CASE sel.src = "pending"
      <4>1. sel' = SelectorAt(sel.pc, "cns", sel.arr, sel.len, sel.weights, sel.longLive, sel.port,
                              sel.left, sel.guard, sel.exit, sel.middles, sel.full)
        <5>1. sel = SelectorAt(sel.pc, sel.src, sel.arr, sel.len, sel.weights, sel.longLive, sel.port,
                               sel.left, sel.guard, sel.exit, sel.middles, sel.full)
          BY <1>1 DEF SelectorInv
        <5> QED BY <3>1, <3>2, <5>1 DEF SelectorAt
      <4>2. SelectorFields(sel', sel.pc, "cns", sel.arr, sel.len, sel.weights, sel.longLive, sel.port,
                           sel.left, sel.guard, sel.exit, sel.middles, sel.full)
        BY <4>1, SelectorIs, Zenon
      <4>3. sel'.src = "cns" /\ sel'.len = sel.len
        BY <4>2 DEF SelectorFields
      <4>4. cns'[1].relays = pending[1].cns.relays
        BY <3>1
      <4> QED BY <3>2, <4>3, <4>4, PointedIs DEF RelaysStay
    <3>3. CASE sel.src # "pending"
      BY <1>5, <3>1, <3>3
    <3> QED BY <3>2, <3>3
  <2>5. CASE New
    BY <2>5, NewInv
  <2>6. CASE SelectExit
    BY <1>3, <2>6, SelectExitInv
  <2>7. CASE SelectGuard \/ SelectMiddle
    <3>1. sel.pc \in {"guard", "middle"}
      BY <2>7, Zenon DEF SelectGuard, SelectMiddle
    <3> QED BY <3>1
  <2>8. CASE GetMicrodescriptors \/ ChunkDone \/ BootstrapDone \/ JobLoop \/ WaitOver \/ WaitCancelled \/ FetchFails
             \/ LinkFails \/ Tick
    <3>1. sel' = sel /\ cns' = cns /\ pending' = pending
      BY <2>8, Zenon DEF GetMicrodescriptors, ChunkDone, BootstrapDone, JobLoop, WaitOver, WaitCancelled, FetchFails,
                         LinkFails, Tick
    <3> QED BY <1>4, <3>1
  <2> QED BY <2>1, <2>2, <2>3, <2>4, <2>5, <2>6, <2>7, <2>8 DEF Step
<1>7. CASE UNCHANGED vars
  <2>1. sel' = sel /\ cns' = cns /\ pending' = pending
    BY <1>7 DEF vars, stepVars
  <2> QED BY <1>4, <2>1
<1> QED BY <1>6, <1>7

Listing == sel.pc = "done" => \A x \in 1 .. sel.len : List[x] = Pointed[x]

\* A path goes through the relays it was selected for: neither the download
\* that is applied in place nor a refresh changes them under it.
THEOREM PathKeepsItsRelaysHolds == Spec => PathKeepsItsRelays
<1>1. Inv => Listing
  BY ListIs DEF Inv, Listing
<1>2. Inv /\ Inv' /\ Listing' /\ [Next]_vars
        => [sel.pc = "done" /\ sel'.pc = "done" /\ sel'.full = sel.full => PathRelays' = PathRelays]_vars
  <2> SUFFICES ASSUME Inv, Inv', Listing', [Next]_vars, sel.pc = "done", sel'.pc = "done", sel'.full = sel.full
               PROVE  PathRelays' = PathRelays
    BY Zenon
  <2>1. RelaysStay
    BY RelaysStayStep
  <2> DEFINE full == sel.full
  <2>2. /\ DOMAIN full = 1 .. Len(full) /\ Len(full) \in Nat \ {0}
        /\ \A a \in 1 .. Len(full) : /\ full[a] \in 1 .. sel.len
                                     /\ List[full[a]] = Pointed[full[a]] /\ HaveAllKeys(Pointed[full[a]])
    <3>1. full \in Seq(1 .. sel.len) /\ Sound(Pointed, full, sel.port)
      BY DEF Inv, SelectorInv, SoFar
    <3>2. \A x \in 1 .. sel.len : List[x] = Pointed[x]
      BY ListIs DEF Inv
    <3>3. \A a \in 1 .. Len(full) : full[a] \in 1 .. sel.len
      BY PathRelaysAre
    <3>4. DOMAIN full = 1 .. Len(full) /\ Len(full) \in Nat \ {0}
      <4>1. Len(full) \in Nat \ {0}
        BY PathRelaysAre
      <4> QED BY <3>1, <4>1
    <3> QED BY <3>1, <3>2, <3>3, <3>4 DEF Sound
  <2>3. \A x \in 1 .. sel'.len : List'[x] = Pointed'[x]
    BY DEF Listing
  <2>4. \A a \in 1 .. Len(full) : List'[full[a]] = List[full[a]]
    <3> SUFFICES ASSUME NEW a \in 1 .. Len(full) PROVE List'[full[a]] = List[full[a]]
      OBVIOUS
    <3> DEFINE x == full[a]
    <3>1. x \in 1 .. sel.len /\ List[x] = Pointed[x] /\ HaveAllKeys(Pointed[x])
      BY <2>2
    <3> HIDE DEF x
    <3>2. ~ Keyless(Pointed[x])
      BY <3>1, Zenon DEF HaveAllKeys, Keyless
    <3>3. Pointed'[x] = Pointed[x] /\ List'[x] = Pointed'[x]
      BY <2>1, <2>3, <3>1, <3>2 DEF RelaysStay
    <3> QED BY <3>1, <3>3 DEF x
  <2> QED BY <2>2, <2>4 DEF PathRelays
<1> QED BY <1>1, <1>2, DirectoryInvariant, PTL DEF Spec, PathKeepsItsRelays
\* When BootstrapOneConn returns and the cache had them all, every relay whose
\* microdescriptor has a key that is one has its keys: the chunks leave no
\* relay out, and nothing is applied to another one.
THEOREM BootstrapCompleteHolds == Spec => BootstrapComplete
<1>1. Inv /\ [Next]_vars
        => [scenario.whole /\ job.pc = "none" /\ job'.pc = "loop" =>
              \A i \in DOMAIN Relays : LET m == ParseMicrodescBlock(Blocks[Relays[i].digest]) IN
                 m.ntor # "invalid" => Relays[i].ntor = m.ntor /\ Relays[i].ed = m.ed]_vars
  <2> SUFFICES ASSUME Inv, [Next]_vars, scenario.whole, job.pc = "none", job'.pc = "loop", NEW i \in DOMAIN Relays
               PROVE  LET m == ParseMicrodescBlock(Blocks[Relays[i].digest]) IN
                        m.ntor # "invalid" => Relays[i].ntor = m.ntor /\ Relays[i].ed = m.ed
    BY Zenon
  <2>1. BootstrapDone
    <3>1. job' # job
      OBVIOUS
    <3>2. Step
      BY <3>1 DEF Next, vars, stepVars
    <3>3. ~ (JobLoop \/ WaitOver \/ WaitCancelled \/ FetchFails \/ FetchReturns \/ Store \/ Tick)
      BY Zenon DEF JobLoop, WaitOver, WaitCancelled, FetchFails, FetchReturns, Store, Tick
    <3>4. ~ (BootstrapStarts \/ GetMicrodescriptors \/ Apply \/ ChunkDone \/ New \/ SelectExit \/ SelectGuard
             \/ SelectMiddle \/ LinkFails)
      BY <3>1, Zenon DEF BootstrapStarts, GetMicrodescriptors, Apply, ChunkDone, New, SelectExit, SelectGuard,
                         SelectMiddle, LinkFails
    <3> QED BY <3>2, <3>3, <3>4, Zenon DEF Step
  <2>2. boot.pc = "chunk" /\ boot.i >= Len(Relays)
    BY <2>1, Zenon DEF BootstrapDone, ChunksEnd
  <2>3. scenario.whole = TRUE
    BY Zenon
  <2>4. /\ boot.i \in Nat /\ boot.k = 1 /\ \A j \in 1 .. Len(Relays) : j < Index => Complete(Relays[j])
    BY <2>2, <2>3, Zenon DEF Inv, BootInv
  <2>5. Len(Relays) \in Nat /\ DOMAIN Relays = 1 .. Len(Relays)
    <3>1. OwnRelays(Relays)
      BY <2>2, ConsensusIs DEF Inv, PhasesInv, Relays
    <3> QED BY <3>1, OwnIs
  <2>6. i \in 1 .. Len(Relays) /\ i < Index
    BY <2>2, <2>4, <2>5 DEF Index
  <2>7. Complete(Relays[i])
    BY <2>4, <2>6
  <2> QED BY <2>7, Zenon DEF Complete
<1> QED BY <1>1, DirectoryInvariant, PTL DEF Spec, BootstrapComplete

\* Each candidate is drawn for as many numbers as its weight, and each eligible
\* relay that has bandwidth for one at least.
LEMMA EachByWeight ==
  ASSUME NEW values, NEW els, NEW able, NEW n \in Nat, Lists(values, els, able, n),
         NEW k \in DOMAIN values
  PROVE  Cardinality({r \in 0 .. TotalBw(values) - 1 : SelectRandom(r, values) = values[k].ptr}) = values[k].wb
<1> DEFINE N == Len(values)
           draws == 0 .. TotalBw(values) - 1
           S == {r \in draws : SelectRandom(r, values) = values[k].ptr}
<1>1. /\ N \in Nat /\ values = [x \in 1 .. N |-> values[x]]
      /\ \A x \in 1 .. N : values[x].ptr \in 1 .. n /\ values[x].wb \in Nat \ {0}
      /\ \A x, y \in 1 .. N : x < y => values[x].ptr < values[y].ptr
  BY DEF Lists
<1>2. DOMAIN values = 1 .. N /\ k \in 1 .. N
  BY <1>1
<1>3. PICK f : Sums(f, values, N)
  BY <1>1, SumsAre
<1>4. /\ f[k] = f[k - 1] + values[k].wb /\ TotalBw(values) = f[N]
      /\ \A x \in 0 .. N : f[x] \in Nat
      /\ \A x, y \in 0 .. N : x < y => f[x] < f[y]
  BY <1>2, <1>3 DEF Sums
<1>5. k \in 0 .. N /\ k - 1 \in 0 .. N /\ N \in 0 .. N
  BY <1>1, <1>2
<1>6. S = f[k - 1] .. f[k] - 1
  <2>1. ASSUME NEW r \in f[k - 1] .. f[k] - 1 PROVE r \in S
    <3>1. r \in Nat /\ f[k - 1] <= r /\ r < f[k]
      BY <1>4, <1>5
    <3>2. FallsOn(r, values, k)
      BY <1>1, <1>2, <1>3, <3>1, RandomIs
    <3>3. f[k] <= f[N]
      BY <1>2, <1>4, <1>5, SMTT(30)
    <3>4. r \in draws
      BY <1>4, <1>5, <3>1, <3>3, SMTT(30)
    <3> QED BY <3>2, <3>4 DEF FallsOn
  <2>2. ASSUME NEW r \in S PROVE r \in f[k - 1] .. f[k] - 1
    <3>1. r \in draws /\ r \in Nat /\ SelectRandom(r, values) = values[k].ptr
      BY <1>4, <1>5
    <3>2. PICK l \in 1 .. N : f[l - 1] <= r /\ r < f[l]
      BY <1>1, <1>3, <3>1, RandomFalls
    <3>3. FallsOn(r, values, l)
      BY <1>1, <1>2, <1>3, <3>1, <3>2, RandomIs
    <3>4. values[l].ptr = values[k].ptr
      BY <3>1, <3>3 DEF FallsOn
    <3>5. l = k
      BY <1>1, <1>2, <3>4
    <3> QED BY <1>4, <1>5, <3>1, <3>2, <3>5
  <2> QED BY <2>1, <2>2
<1>7. Cardinality(f[k - 1] .. f[k] - 1) = f[k] - f[k - 1]
  <2>1. f[k - 1] \in Int /\ f[k] \in Int /\ f[k] - 1 \in Int /\ f[k - 1] <= f[k] - 1
    BY <1>1, <1>2, <1>4, <1>5, SMTT(30)
  <2>2. Cardinality(f[k - 1] .. f[k] - 1) = IF f[k - 1] > f[k] - 1 THEN 0 ELSE (f[k] - 1) - f[k - 1] + 1
    BY <2>1, FS_Interval
  <2> DEFINE x == f[k - 1]
             y == f[k]
             z == Cardinality(f[k - 1] .. f[k] - 1)
  <2>3. x \in Int /\ y \in Int /\ x <= y - 1 /\ z = IF x > y - 1 THEN 0 ELSE (y - 1) - x + 1
    BY <2>1, <2>2, Zenon
  <2>4. z = y - x
    <3> HIDE DEF x, y, z
    <3> QED BY <2>3
  <2> QED BY <2>4
<1>8. f[k] - f[k - 1] = values[k].wb
  BY <1>1, <1>2, <1>4, <1>5
<1> QED BY <1>6, <1>7, <1>8

\* A relay with bandwidth is what some number falls on.
LEMMA NoneLeftOut ==
  ASSUME NEW values, NEW els, NEW able, NEW n \in Nat, Lists(values, els, able, n),
         NEW i \in able, i \in 1 .. n
  PROVE  \E r \in 0 .. TotalBw(values) - 1 : SelectRandom(r, values) = i
<1> DEFINE N == Len(values)
<1>1. /\ N \in Nat /\ values = [x \in 1 .. N |-> values[x]] /\ DOMAIN values = 1 .. N
      /\ \A x \in 1 .. N : values[x].wb \in Nat \ {0}
  BY DEF Lists
<1>2. PICK k \in 1 .. N : values[k].ptr = i
  BY DEF Lists
<1>3. PICK f : Sums(f, values, N)
  BY <1>1, SumsAre
<1>4. /\ TotalBw(values) = f[N] /\ \A x \in 0 .. N : f[x] \in Nat
      /\ \A x, y \in 0 .. N : x < y => f[x] < f[y]
  BY <1>3 DEF Sums
<1>5. k \in 0 .. N /\ k - 1 \in 0 .. N /\ N \in 0 .. N /\ k - 1 < k /\ k - 1 < N
  BY <1>1
<1>6. f[k - 1] \in Nat /\ f[k - 1] <= f[k - 1] /\ f[k - 1] < f[k] /\ f[k - 1] < f[N]
  BY <1>4, <1>5
<1>7. FallsOn(f[k - 1], values, k)
  BY <1>1, <1>3, <1>6, RandomIs
<1>8. f[k - 1] \in 0 .. TotalBw(values) - 1
  BY <1>4, <1>5, <1>6
<1> QED BY <1>2, <1>7, <1>8 DEF FallsOn

\* selectRandom chooses by weight: a candidate is drawn for exactly as many
\* numbers as its weighted bandwidth, and no eligible relay with bandwidth is
\* left out, however many relays there are and whatever the weights.
THEOREM ChoiceByWeightHolds == Spec => []ChoiceByWeight
<1>1. Inv => ChoiceByWeight
  <2> SUFFICES ASSUME Inv, sel.pc \in {"guard", "middle", "done"}, NEW place \in Places
               PROVE  LET port == IF place = "exit" THEN sel.port ELSE 0
                          values == Values(List, sel.weights, place, port, sel.longLive)
                          draws == 0 .. TotalBw(values) - 1
                      IN /\ \A k \in DOMAIN values :
                              Cardinality({r \in draws : SelectRandom(r, values) = values[k].ptr}) = values[k].wb
                         /\ \A i \in DOMAIN List :
                              Eligible(List[i], place, port, sel.longLive) /\ List[i].bw > 0
                                => \E r \in draws : SelectRandom(r, values) = i
    BY Zenon DEF ChoiceByWeight
  <2> DEFINE port == IF place = "exit" THEN sel.port ELSE 0
             list == List
             n == sel.len
             values == Values(list, sel.weights, place, port, sel.longLive)
             els == May(list, place, port, sel.longLive, n)
             able == Able(list, place, port, sel.longLive, n)
  <2>1. n \in Nat /\ DOMAIN list = 1 .. n /\ (\A i \in 1 .. n : list[i].bw \in Nat) /\ sel.weights \in [Weights -> Nat]
    BY ListIs DEF Inv, SelectorInv
  <2> HIDE DEF list, n, port
  <2>2. Lists(values, els, able, n)
    BY <2>1, ValuesRead, Zenon
  <2> HIDE DEF values, els
  <2>3. \A i \in 1 .. n : Eligible(list[i], place, port, sel.longLive) /\ list[i].bw > 0 => i \in able
    BY DEF Able
  <2> HIDE DEF able
  <2>4. \A k \in DOMAIN values :
          Cardinality({r \in 0 .. TotalBw(values) - 1 : SelectRandom(r, values) = values[k].ptr}) = values[k].wb
    BY <2>1, <2>2, EachByWeight
  <2>5. \A i \in DOMAIN list :
          Eligible(list[i], place, port, sel.longLive) /\ list[i].bw > 0
            => \E r \in 0 .. TotalBw(values) - 1 : SelectRandom(r, values) = i
    BY <2>1, <2>2, <2>3, NoneLeftOut
  <2> QED BY <2>4, <2>5, Zenon DEF values, port, list
<1> QED BY <1>1, DirectoryInvariant, PTL

=============================================================================
