------------------------- MODULE CircuitRecv_proofs -------------------------
(***************************************************************************)
(* RelayAcceptsSendMe and AcksAddUp hold of CircuitRecv for every number   *)
(* of hops, window size, queue size and number of cells.  The invariant    *)
(* keeps two books per hop: Left, what the window still covers of the      *)
(* cells the relay may send, and Covered, what has been used of it and     *)
(* will be acknowledged.  While every cell is charged both are exact,      *)
(* Trigged therefore never is full when a trigger point is reached, and    *)
(* every digest on its way to the relay is the next one it expects.        *)
(*                                                                         *)
(* The steps on this side of WriteRelayCell are proved for any number N[h] *)
(* of SENDMEs beyond it, so that a module with a longer way to the relay   *)
(* can use them too.                                                       *)
(***************************************************************************)
EXTENDS CircuitRecv, Flow_proofs

LEMMA Sizes ==
  /\ AddValue \in Nat /\ AddValue > 0 /\ StartValue \in Nat /\ StartValue > 0
  /\ QueueCap \in Nat /\ QueueCap > 0 /\ InboundCap \in Nat /\ MaxDown \in Nat
  /\ SendMeVersion \in {0, 1} /\ StreamsClose \in BOOLEAN
BY WindowAssumption, CircuitRecvAssumption

USE Sizes

\* Cells counts in steps of AddValue; the proofs use it through these facts.
LEMMA CellsFacts ==
  ASSUME NEW m \in Int, NEW n \in Int
  PROVE  /\ Cells(n) \in Int /\ Cells(0) = 0 /\ Cells(1) = AddValue
         /\ Cells(m + n) = Cells(m) + Cells(n)
         /\ n >= 0 => Cells(n) >= 0
         /\ n >= 1 => Cells(n) >= AddValue
<1>1. Cells(n) \in Int /\ Cells(0) = 0 /\ Cells(1) = AddValue
  BY DEF Cells
<1>2. Cells(m + n) = Cells(m) + Cells(n)
  BY DEF Cells
<1>3. n >= 0 => AddValue * n >= 0
  OBVIOUS
<1>4. n >= 1 => AddValue * n >= AddValue
  <2> SUFFICES ASSUME n >= 1 PROVE AddValue * n >= AddValue
    OBVIOUS
  <2>1. AddValue * (n - 1) >= 0 /\ AddValue * n = AddValue * (n - 1) + AddValue
    OBVIOUS
  <2> QED BY <2>1
<1> QED BY <1>1, <1>2, <1>3, <1>4 DEF Cells

LEMMA CellsNext ==
  ASSUME NEW n \in Int
  PROVE  /\ Cells(n) \in Int /\ Cells(n + 1) = Cells(n) + AddValue
         /\ Cells(0) = 0 /\ Cells(1) = AddValue
BY CellsFacts

\* What the types say of one hop.
LEMMA HopFacts ==
  ASSUME HalfType, NEW h \in Hops
  PROVE  /\ rcv[h] \in WindowType /\ rcv[h].v \in Int /\ rcv[h].trigged \in Seq(Nat)
         /\ Len(rcv[h].trigged) \in Nat
         /\ relaySent[h] \in Nat /\ relayCredit[h] \in Nat
         /\ CellsRead(h) \in Int /\ CellsRead(h) <= relaySent[h]
         /\ manager[h] \in [pc : {"idle", "put", "increase", "done"}, digest : Nat]
         /\ manager[h].digest \in Nat
         /\ At(h, "put") \in {0, 1} /\ At(h, "increase") \in {0, 1}
<1>1. Count(inbound, FromHop(h)) \in Nat
  BY CountType DEF HalfType
<1>2. rcv[h] \in WindowType /\ relaySent[h] \in Nat /\ relayCredit[h] \in Nat
  BY DEF HalfType
<1>3. rcv[h].v \in Int /\ rcv[h].trigged \in Seq(Nat) /\ Len(rcv[h].trigged) \in Nat
  BY <1>2, LenProperties DEF WindowType
<1>4. manager[h] \in [pc : {"idle", "put", "increase", "done"}, digest : Nat]
  BY DEF HalfType
<1> QED BY <1>1, <1>2, <1>3, <1>4 DEF CellsRead, At

-----------------------------------------------------------------------------
(* The cells to be read: one joins, one is read.                           *)

LEMMA InboundGrows ==
  ASSUME HalfType, NEW h \in Hops, NEW cell \in InCell, inbound' = Append(inbound, cell),
         relaySent'[h] = relaySent[h] + (IF cell.hop = h THEN 1 ELSE 0),
         cell.hop = h => cell.digest = relaySent[h] + 1
  PROVE  /\ CellsRead(h)' = CellsRead(h)
         /\ InboundInOrder(h) => InboundInOrder(h)'
<1> DEFINE T == FromHop(h)
           L == Len(inbound)
<1>1. /\ inbound \in Seq(InCell) /\ L \in Nat /\ relaySent[h] \in Nat
      /\ Count(inbound, T) \in Nat
  BY CountType, LenProperties DEF HalfType
<1>2. cell \in T <=> cell.hop = h
  BY DEF InCell, FromHop
<1>3. /\ Count(inbound', T) = Count(inbound, T) + (IF cell \in T THEN 1 ELSE 0)
      /\ \A i \in 0 .. L : CountTo(inbound', T, i) = CountTo(inbound, T, i)
  BY <1>1, CountAppend
<1>4. CellsRead(h)' = relaySent'[h] - Count(inbound', T)
  BY DEF CellsRead, FromHop
<1>5. CellsRead(h)' = CellsRead(h)
  BY <1>1, <1>2, <1>3, <1>4 DEF CellsRead
<1>6. ASSUME InboundInOrder(h), NEW i \in 1 .. Len(inbound'), inbound'[i].hop = h
      PROVE  inbound'[i].digest = CellsRead(h)' + CountTo(inbound', T, i)
  <2>1. Len(inbound') = L + 1 /\ inbound'[L + 1] = cell /\ \A j \in 1 .. L : inbound'[j] = inbound[j]
    BY <1>1, AppendProperties
  <2>2. CASE i = L + 1
    <3>1. cell.hop = h /\ CountTo(inbound', T, i) = Count(inbound, T) + 1
      BY <1>2, <1>3, <1>6, <2>1, <2>2 DEF Count
    <3> QED BY <1>1, <1>5, <2>1, <2>2, <3>1 DEF CellsRead
  <2>3. CASE i # L + 1
    <3>1. i \in 1 .. L /\ i \in 0 .. L
      BY <1>1, <2>1, <2>3
    <3>2. inbound[i].digest = CellsRead(h) + CountTo(inbound, T, i)
      BY <1>6, <2>1, <3>1 DEF InboundInOrder
    <3> QED BY <1>3, <1>5, <2>1, <3>1, <3>2
  <2> QED BY <2>2, <2>3
<1>7. FromHop(h)' = FromHop(h)
  BY DEF FromHop
<1> QED BY <1>5, <1>6, <1>7 DEF InboundInOrder

LEMMA InboundShrinks ==
  ASSUME HalfType, NEW h \in Hops, inbound # <<>>, inbound' = Tail(inbound),
         relaySent'[h] = relaySent[h]
  PROVE  /\ CellsRead(h)' = CellsRead(h) + (IF Head(inbound).hop = h THEN 1 ELSE 0)
         /\ CellsRead(h)' <= relaySent[h]
         /\ InboundInOrder(h) =>
              /\ InboundInOrder(h)'
              /\ Head(inbound).hop = h => Head(inbound).digest = CellsRead(h)'
<1> DEFINE T == FromHop(h)
           d == IF Head(inbound).hop = h THEN 1 ELSE 0
<1>1. /\ inbound \in Seq(InCell) /\ inbound' \in Seq(InCell) /\ Head(inbound) \in InCell
      /\ relaySent[h] \in Nat /\ Count(inbound, T) \in Nat /\ Count(inbound', T) \in Nat
      /\ Len(inbound) \in Nat /\ Len(inbound) = Len(inbound') + 1 /\ Len(inbound') \in Nat
      /\ \A i \in 1 .. Len(inbound') : inbound'[i] = inbound[i + 1]
      /\ Head(inbound) = inbound[1]
  <2>1. inbound \in Seq(InCell) /\ relaySent[h] \in Nat
    BY DEF HalfType
  <2>2. inbound' \in Seq(InCell) /\ Head(inbound) \in InCell
    BY <2>1, HeadTailProperties
  <2>3. Count(inbound, T) \in Nat /\ Count(inbound', T) \in Nat
    BY <2>1, <2>2, CountType
  <2>4. /\ Len(inbound) \in Nat /\ Len(inbound') \in Nat /\ Len(inbound) = Len(inbound') + 1
        /\ \A i \in 1 .. Len(inbound') : inbound'[i] = inbound[i + 1]
        /\ Head(inbound) = inbound[1]
    <3> HIDE DEF T
    <3> QED BY <2>1
  <2> QED BY <2>1, <2>2, <2>3, <2>4
<1>2. Head(inbound) \in T <=> Head(inbound).hop = h
  BY <1>1 DEF InCell, FromHop
<1>3. /\ Count(inbound, T) = Count(inbound', T) + d
      /\ \A i \in 0 .. Len(inbound') : CountTo(inbound, T, i + 1) = CountTo(inbound', T, i) + d
  BY <1>1, <1>2, CountTail
<1>4. CellsRead(h)' = relaySent[h] - Count(inbound', T)
  BY DEF CellsRead, FromHop
<1>5. CellsRead(h)' = CellsRead(h) + d /\ CellsRead(h)' <= relaySent[h] /\ CellsRead(h) \in Int
  <2>1. CellsRead(h) = relaySent[h] - Count(inbound, T) /\ d \in {0, 1}
    BY DEF CellsRead
  <2>2. /\ relaySent[h] \in Nat /\ Count(inbound, T) \in Nat /\ Count(inbound', T) \in Nat
        /\ Count(inbound, T) = Count(inbound', T) + d
    BY <1>1, <1>3
  <2> HIDE DEF d, T
  <2> QED BY <1>4, <2>1, <2>2
<1>6. ASSUME InboundInOrder(h), NEW i \in 1 .. Len(inbound'), inbound'[i].hop = h
      PROVE  inbound'[i].digest = CellsRead(h)' + CountTo(inbound', T, i)
  <2>1. i + 1 \in 1 .. Len(inbound) /\ i \in 0 .. Len(inbound') /\ inbound'[i] = inbound[i + 1]
    BY <1>1
  <2>2. inbound[i + 1].digest = CellsRead(h) + CountTo(inbound, T, i + 1)
    BY <1>6, <2>1 DEF InboundInOrder
  <2>3. CountTo(inbound', T, i) \in Nat
    <3> HIDE DEF T
    <3>1. i \in Nat
      BY <2>1
    <3> QED BY <3>1, CountToType
  <2>4. CountTo(inbound, T, i + 1) = CountTo(inbound', T, i) + d
    BY <1>3, <2>1
  <2> QED BY <1>5, <1>6, <2>1, <2>2, <2>3, <2>4
<1>7. ASSUME InboundInOrder(h), Head(inbound).hop = h
      PROVE  Head(inbound).digest = CellsRead(h)'
  <2>1. 1 \in 1 .. Len(inbound) /\ 0 \in 0 .. Len(inbound')
    BY <1>1
  <2>2. inbound[1].digest = CellsRead(h) + CountTo(inbound, T, 1)
    BY <1>1, <1>7, <2>1 DEF InboundInOrder
  <2>3. CountTo(inbound, T, 0 + 1) = CountTo(inbound', T, 0) + 1 /\ CountTo(inbound', T, 0) = 0
    BY <1>3, <1>7, <2>1, CountToType
  <2> QED BY <1>1, <1>5, <1>7, <2>2, <2>3
<1>8. FromHop(h)' = FromHop(h)
  BY DEF FromHop
<1> QED BY <1>5, <1>6, <1>7, <1>8 DEF InboundInOrder

-----------------------------------------------------------------------------
(* One step of one hop.                                                    *)

\* A hop whose state and whose cells to be read stay the same.
LEMMA QuietHop ==
  ASSUME NEW h \in Hops, NEW n,
         rcv'[h] = rcv[h], manager'[h] = manager[h],
         relaySent'[h] = relaySent[h], relayCredit'[h] = relayCredit[h],
         CellsRead(h)' = CellsRead(h)
  PROVE  /\ Bounds(h, n) => Bounds(h, n)'
         /\ Exact(h, n) /\ InboundInOrder(h)' => Exact(h, n)'
<1>1. /\ At(h, "put")' = At(h, "put") /\ At(h, "increase")' = At(h, "increase")
      /\ \A k : Ack(h, k)' = Ack(h, k)
  BY DEF At, Ack
<1>2. Left(h)' = Left(h) /\ Covered(h)' = Covered(h)
  BY <1>1 DEF Left, Covered
<1> QED BY <1>1, <1>2 DEF Bounds, Exact

LEMMA QuietInbound ==
  ASSUME NEW h \in Hops, inbound' = inbound, relaySent'[h] = relaySent[h]
  PROVE  CellsRead(h)' = CellsRead(h) /\ (InboundInOrder(h) => InboundInOrder(h)')
<1>1. CellsRead(h)' = CellsRead(h) /\ FromHop(h)' = FromHop(h)
  BY DEF CellsRead, FromHop
<1> QED BY <1>1 DEF InboundInOrder

\* The relay sends within its credit.
LEMMA RelaySendStep ==
  ASSUME NEW N, HalfInv(N), NEW h \in Hops, RelaySend(h)
  PROVE  HalfInv(N)'
<1>1. HalfType
  BY DEF HalfInv
<1>2. PICK s \in Streams :
        inbound' = Append(inbound, [hop |-> h, stream |-> s, digest |-> relaySent[h] + 1])
  BY DEF RelaySend
<1> DEFINE cell == [hop |-> h, stream |-> s, digest |-> relaySent[h] + 1]
<1>3. /\ cell \in InCell /\ cell.hop = h /\ cell.digest = relaySent[h] + 1
      /\ relaySent[h] \in Nat /\ inbound \in Seq(InCell)
  BY <1>1 DEF InCell, HalfType
<1> HIDE DEF cell
<1>4. /\ inbound' = Append(inbound, cell) /\ UNCHANGED <<live, rcv, manager, cause, relayCredit>>
      /\ relaySent' \in [Hops -> Nat] /\ relaySent'[h] = relaySent[h] + 1
      /\ \A g \in Hops \ {h} : relaySent'[g] = relaySent[g]
  BY <1>1, <1>2, <1>3 DEF RelaySend, HalfType, cell
<1>5. HalfType'
  <2>1. inbound' \in Seq(InCell)
    BY <1>3, <1>4, AppendProperties
  <2> QED BY <1>1, <1>4, <2>1 DEF HalfType
<1>6. ASSUME NEW g \in Hops
      PROVE  /\ CellsRead(g)' = CellsRead(g) /\ (InboundInOrder(g) => InboundInOrder(g)')
             /\ Left(g)' = Left(g) /\ Covered(g)' = Covered(g)
             /\ \A k : Ack(g, k)' = Ack(g, k)
             /\ At(g, "put")' = At(g, "put")
  <2>1. relaySent'[g] = relaySent[g] + (IF cell.hop = g THEN 1 ELSE 0)
    BY <1>1, <1>3, <1>4 DEF HalfType
  <2>2. CellsRead(g)' = CellsRead(g) /\ (InboundInOrder(g) => InboundInOrder(g)')
    BY <1>1, <1>3, <1>4, <2>1, InboundGrows
  <2>3. At(g, "put")' = At(g, "put") /\ At(g, "increase")' = At(g, "increase")
    BY <1>4 DEF At
  <2> QED BY <1>4, <2>2, <2>3 DEF Left, Covered, Ack
<1>7. ASSUME NEW g \in Hops PROVE Bounds(g, N[g])'
  <2>1. Bounds(g, N[g]) /\ relayCredit[g] \in Nat /\ relaySent[g] \in Nat
    BY <1>1 DEF HalfInv, HalfType
  <2>2. relaySent'[g] <= StartValue + relayCredit[g]
    <3>1. CASE g = h
      <4>1. relaySent[h] < StartValue + relayCredit[h]
        BY DEF RelaySend
      <4> QED BY <1>4, <2>1, <3>1, <4>1
    <3>2. CASE g # h
      BY <1>4, <2>1, <3>2 DEF Bounds
    <3> QED BY <3>1, <3>2
  <2> QED BY <1>4, <1>6, <2>1, <2>2 DEF Bounds
<1>8. ASSUME InStep' PROVE \A g \in Hops : Exact(g, N[g])'
  <2>1. \A g \in Hops : Exact(g, N[g])
    BY <1>4, <1>8 DEF HalfInv, InStep
  <2> QED BY <1>4, <1>6, <2>1 DEF Exact
<1> QED BY <1>5, <1>7, <1>8 DEF HalfInv

\* readloop charges a cell to the window of its hop; at a trigger point the
\* digest of this very cell joins Trigged.
LEMMA ChargeHop ==
  ASSUME HalfType, NEW h \in Hops, NEW n \in Nat, Bounds(h, n),
         ReadData, Head(inbound).hop = h, Head(inbound).stream \in live
  PROVE  /\ rcv' = [rcv EXCEPT ![h] = rcv'[h]] /\ rcv'[h] \in WindowType
         /\ Bounds(h, n)'
         /\ Exact(h, n) => Exact(h, n)'
<1> DEFINE cell == Head(inbound)
           w == rcv[h]
           u == SetDigest(w, cell.digest)
           put == At(h, "put")
           inc == At(h, "increase")
           L == Len(w.trigged)
<1>1. /\ w \in WindowType /\ w.v \in Int /\ w.trigged \in Seq(Nat) /\ L \in Nat
      /\ relaySent[h] \in Nat /\ relayCredit[h] \in Nat /\ CellsRead(h) \in Int
      /\ put \in {0, 1} /\ inc \in {0, 1}
  BY HopFacts
<1>2. /\ inbound # <<>> /\ inbound' = Tail(inbound) /\ rcv' = Charged(cell)
      /\ UNCHANGED <<live, manager, cause, relaySent, relayCredit>>
  BY DEF ReadData
<1>3. cell.digest \in Nat
  <2>1. cell \in InCell
    BY <1>2, HeadTailProperties DEF HalfType
  <2> QED BY <2>1 DEF InCell
<1>4. u \in WindowType /\ u.v = w.v /\ u.digest = cell.digest /\ u.trigged = w.trigged
  BY <1>1, <1>3, SetDigestFacts
<1>5. rcv' = [rcv EXCEPT ![h] = Subtract(u, 1)] /\ rcv'[h] = Subtract(u, 1)
  BY <1>2 DEF Charged, HalfType
<1>6. /\ rcv'[h] \in WindowType /\ rcv'[h].v = w.v - 1
      /\ rcv'[h].trigged = IF Phase(w.v - 1) = 0 /\ L < Capacity
                             THEN Append(w.trigged, cell.digest) ELSE w.trigged
  <2> HIDE DEF u
  <2> QED BY <1>4, <1>5, SubtractOne
<1>7. /\ CellsRead(h)' = CellsRead(h) + 1 /\ CellsRead(h)' <= relaySent[h]
      /\ InboundInOrder(h) => InboundInOrder(h)' /\ cell.digest = CellsRead(h)'
  BY <1>2, InboundShrinks
<1>8. /\ At(h, "put")' = put /\ At(h, "increase")' = inc /\ \A k : Ack(h, k)' = Ack(h, k)
  BY <1>2 DEF At, Ack
<1> DEFINE now == Len(rcv'[h].trigged)
           v == w.v
           read == CellsRead(h)
<1>9. /\ Left(h) = v + read + Cells(inc) /\ Covered(h) = v + Cells(L + put + inc) + Since(v)
      /\ Left(h)' = (v - 1) + (read + 1) + Cells(inc)
      /\ Covered(h)' = (v - 1) + Cells(now + put + inc) + Since(v - 1)
      /\ v \in Int /\ read \in Int /\ L \in Nat /\ now \in Nat
  <2>1. now \in Nat
    BY <1>6, LenProperties DEF WindowType
  <2> QED BY <1>1, <1>6, <1>7, <1>8, <2>1 DEF Left, Covered
<1> HIDE DEF u, cell, v, read, put, inc, L, now
<1>10. /\ Since(v) \in Int /\ Since(v - 1) \in Int
       /\ Phase(v - 1) = 0 => Since(v - 1) = 0 /\ Since(v) = AddValue - 1
       /\ Phase(v - 1) # 0 => Since(v - 1) = Since(v) + 1
  <2>1. v - 1 \in Int
    BY <1>9
  <2> QED BY <1>9, <2>1, SinceFacts, SinceDecrease
<1>11. Left(h)' = Left(h) /\ Left(h) \in Int
  <2>1. Cells(inc) \in Int
    BY <1>1, CellsFacts
  <2> QED BY <1>9, <2>1
<1>12. /\ now = (IF Phase(v - 1) = 0 /\ L < Capacity THEN L + 1 ELSE L)
  BY <1>1, <1>3, <1>6, AppendProperties DEF v, L, now
<1>13. /\ Cells(L + put + inc) \in Int /\ Cells(now + put + inc) \in Int
       /\ Cells(L + 1 + put + inc) = Cells(L + put + inc) + AddValue
  <2>1. L + put + inc \in Int /\ now + put + inc \in Int /\ L + 1 + put + inc = (L + put + inc) + 1
    BY <1>1, <1>9
  <2>2. Cells((L + put + inc) + 1) = Cells(L + put + inc) + AddValue
    BY <2>1, CellsFacts
  <2> QED BY <2>1, <2>2, CellsFacts
<1>14. /\ Covered(h)' <= Covered(h) /\ Covered(h) \in Int /\ Covered(h)' \in Int
       /\ Phase(v - 1) # 0 \/ L < Capacity => Covered(h)' = Covered(h)
  <2>1. CASE Phase(v - 1) # 0
    BY <1>9, <1>10, <1>12, <1>13, <2>1
  <2>2. CASE Phase(v - 1) = 0 /\ L < Capacity
    BY <1>9, <1>10, <1>12, <1>13, <2>2
  <2>3. CASE Phase(v - 1) = 0 /\ ~(L < Capacity)
    BY <1>9, <1>10, <1>12, <1>13, <2>3
  <2> QED BY <2>1, <2>2, <2>3
<1>15. Bounds(h, n)'
  <2>1. Bounds(h, n)
    OBVIOUS
  <2>2. Covered(h)' <= StartValue
    BY <1>14, <2>1 DEF Bounds
  <2> QED BY <1>2, <1>8, <1>11, <2>1, <2>2 DEF Bounds
<1>16. ASSUME Exact(h, n) PROVE Exact(h, n)'
  <2>1. /\ Left(h) = StartValue + (relayCredit[h] + Cells(n)) /\ Covered(h) = StartValue
        /\ InboundInOrder(h) /\ relaySent[h] <= StartValue + relayCredit[h]
    BY <1>16 DEF Exact, Bounds, Ack
  <2>2. /\ Cells(n) \in Int /\ Cells(n) >= 0
        /\ Cells(L + put + inc) = Cells(L) + Cells(put) + Cells(inc)
        /\ Cells(L) \in Int /\ Cells(put) \in Int /\ Cells(inc) \in Int
        /\ Cells(put) >= 0
    <3>1. L \in Int /\ put \in Int /\ inc \in Int /\ L + put \in Int /\ put >= 0 /\ n >= 0 /\ n \in Int
      BY <1>1, <1>9
    <3>2. Cells(L + put + inc) = Cells(L + put) + Cells(inc) /\ Cells(L + put) = Cells(L) + Cells(put)
      BY <3>1, CellsFacts
    <3> QED BY <3>1, <3>2, CellsFacts
  <2>3. read + 1 <= StartValue + relayCredit[h]
    BY <1>1, <1>7, <1>9, <2>1, SMTT(30) DEF read
  <2>4. /\ v - 1 + Cells(inc) >= Cells(n)
        /\ (v - 1) + (read + 1) + Cells(inc) = StartValue + (relayCredit[h] + Cells(n))
        /\ v \in Int /\ read \in Int /\ relayCredit[h] \in Int
    <3>1. v + read + Cells(inc) = StartValue + (relayCredit[h] + Cells(n))
      BY <1>9, <2>1
    <3>2. v \in Int /\ read \in Int
      BY <1>9
    <3>3. relayCredit[h] \in Int
      BY <1>1
    <3>4. Cells(inc) \in Int /\ Cells(n) \in Int
      BY <2>2
    <3> QED BY <2>3, <3>1, <3>2, <3>3, <3>4
  <2>5. Phase(v - 1) = 0 => L < Capacity
    <3> SUFFICES ASSUME Phase(v - 1) = 0 PROVE L < Capacity
      OBVIOUS
    <3>1. Cells(L) <= StartValue - AddValue
      BY <1>9, <1>10, <2>1, <2>2, <2>4
    <3> QED BY <1>9, <3>1, RoomForOne DEF Cells
  <2>6. Covered(h)' = StartValue
    BY <1>14, <2>1, <2>5
  <2>7. ASSUME NEW i \in 1 .. now PROVE rcv'[h].trigged[i] = Ack(h, n + put + i)
    <3>1. CASE i \in 1 .. L
      <4>1. w.trigged[i] = Ack(h, n + put + i)
        BY <1>16, <3>1 DEF Exact, L, put
      <4>2. rcv'[h].trigged[i] = w.trigged[i]
        BY <1>1, <1>3, <1>6, <3>1, AppendProperties DEF L
      <4> QED BY <4>1, <4>2
    <3>2. CASE i \notin 1 .. L
      <4>1. Phase(v - 1) = 0 /\ L < Capacity /\ now = L + 1 /\ i = L + 1
        BY <1>9, <1>12, <2>7, <3>2
      <4>2. rcv'[h].trigged[i] = cell.digest
        BY <1>1, <1>3, <1>6, <4>1, AppendProperties DEF v, L
      <4>3. /\ Cells(now + put + inc) = Cells(L + 1 + put) + Cells(inc)
            /\ Cells(n + put + i) = Cells(n) + Cells(L + 1 + put)
            /\ Cells(L + 1 + put) \in Int
        <5>1. /\ n + put + i = n + (L + 1 + put) /\ L + 1 + put \in Int /\ inc \in Int /\ n \in Int
              /\ now + put + inc = (L + 1 + put) + inc
          BY <1>1, <1>9, <4>1
        <5> QED BY <5>1, CellsFacts
      <4>4. read + 1 = relayCredit[h] + Cells(n + put + i)
        <5>1. (v - 1) + Cells(now + put + inc) + Since(v - 1) = StartValue /\ Since(v - 1) = 0
          BY <1>9, <1>10, <2>6, <4>1
        <5> DEFINE ahead == Cells(L + 1 + put)
        <5>2. ahead \in Int /\ Cells(inc) \in Int /\ Cells(n) \in Int
          BY <2>2, <4>3
        <5>3. (v - 1) + (ahead + Cells(inc)) + 0 = StartValue
          BY <4>3, <5>1
        <5>4. Cells(n + put + i) = Cells(n) + ahead
          BY <4>3
        <5> HIDE DEF ahead
        <5>5. read + 1 = relayCredit[h] + (Cells(n) + ahead)
          BY <2>4, <5>2, <5>3
        <5> QED BY <5>4, <5>5
      <4> QED BY <1>7, <2>1, <4>2, <4>4 DEF Ack, read
    <3> QED BY <3>1, <3>2
  <2>8. Left(h)' = StartValue + Ack(h, n)
    BY <1>11, <2>1 DEF Ack
  <2>9. /\ manager'[h].pc # "done"
        /\ manager'[h].pc = "put" => manager'[h].digest = Ack(h, n + 1)
    BY <1>2, <1>16 DEF Exact
  <2>10. InboundInOrder(h)'
    BY <1>7, <2>1
  <2> QED BY <1>8, <2>6, <2>7, <2>8, <2>9, <2>10 DEF Exact, now, put
<1>17. rcv' = [rcv EXCEPT ![h] = rcv'[h]]
  BY <1>5
<1> QED BY <1>6, <1>15, <1>16, <1>17

\* readloop takes a cell: it is charged, or its stream is gone.
LEMMA ReadStep ==
  ASSUME NEW N \in [Hops -> Nat], HalfInv(N), ReadData
  PROVE  HalfInv(N)'
<1> DEFINE cell == Head(inbound)
<1>1. HalfType
  BY DEF HalfInv
<1>2. /\ inbound # <<>> /\ inbound' = Tail(inbound)
      /\ rcv' = IF cell.stream \in live THEN Charged(cell) ELSE rcv
      /\ UNCHANGED <<live, manager, cause, relaySent, relayCredit>>
  BY DEF ReadData
<1>3. cell \in InCell /\ inbound' \in Seq(InCell)
  BY <1>1, <1>2, HeadTailProperties DEF HalfType
<1>4. cell.stream \in Streams /\ \E k \in Hops : cell.hop = k
  BY <1>3 DEF InCell
<1> PICK k \in Hops : cell.hop = k
  BY <1>4
<1>5. ASSUME cell.stream \in live
      PROVE  /\ rcv' = [rcv EXCEPT ![k] = rcv'[k]] /\ rcv'[k] \in WindowType
             /\ Bounds(k, N[k])'
             /\ Exact(k, N[k]) => Exact(k, N[k])'
  <2>1. Bounds(k, N[k]) /\ N[k] \in Nat
    BY <1>4 DEF HalfInv
  <2> QED BY <1>1, <1>4, <1>5, <2>1, ChargeHop
<1>6. rcv' \in [Hops -> WindowType]
  <2>1. CASE cell.stream \in live
    BY <1>1, <1>5, <2>1 DEF HalfType
  <2>2. CASE cell.stream \notin live
    BY <1>1, <1>2, <2>2 DEF HalfType
  <2> QED BY <2>1, <2>2
<1>7. HalfType'
  BY <1>1, <1>2, <1>3, <1>6 DEF HalfType
<1>8. ASSUME NEW g \in Hops
      PROVE  /\ CellsRead(g)' = CellsRead(g) + (IF k = g THEN 1 ELSE 0)
             /\ CellsRead(g)' <= relaySent[g]
             /\ InboundInOrder(g) => InboundInOrder(g)'
  BY <1>1, <1>2, InboundShrinks
<1>9. ASSUME NEW g \in Hops, g # k
      PROVE  /\ Bounds(g, N[g])'
             /\ Exact(g, N[g]) => Exact(g, N[g])'
  <2>1. rcv'[g] = rcv[g]
    BY <1>1, <1>2, <1>5, <1>9 DEF HalfType
  <2>2. CellsRead(g)' = CellsRead(g) /\ (InboundInOrder(g) => InboundInOrder(g)')
    <3>1. CellsRead(g) \in Int
      BY <1>1, HopFacts
    <3> QED BY <1>8, <1>9, <3>1
  <2>3. Exact(g, N[g]) => InboundInOrder(g)
    BY DEF Exact
  <2>4. Bounds(g, N[g])
    BY DEF HalfInv
  <2> QED BY <1>2, <2>1, <2>2, <2>3, <2>4, QuietHop
<1>10. ASSUME cell.stream \notin live
       PROVE  Bounds(k, N[k])' /\ ~InStep'
  <2>1. Bounds(k, N[k]) /\ Left(k) >= StartValue + Ack(k, N[k]) /\ N[k] \in Nat
    BY <1>4 DEF HalfInv, Bounds
  <2>2. rcv' = rcv /\ At(k, "put")' = At(k, "put") /\ At(k, "increase")' = At(k, "increase")
    BY <1>2, <1>10 DEF At
  <2>3. rcv[k].v \in Int /\ CellsRead(k) \in Int /\ relayCredit[k] \in Nat
        /\ Cells(At(k, "increase")) \in Int /\ Cells(N[k]) \in Int
    <3>1. At(k, "increase") \in Int
      BY <1>1, <1>4, HopFacts
    <3> QED BY <1>1, <1>4, <2>1, <3>1, HopFacts, CellsFacts
  <2>4. Left(k)' = Left(k) + 1
    BY <1>4, <1>8, <2>2, <2>3 DEF Left
  <2>5. Covered(k)' = Covered(k)
    BY <2>2 DEF Covered
  <2>6. Left(k) \in Int /\ Ack(k, N[k]) \in Int /\ Ack(k, N[k])' = Ack(k, N[k])
    BY <1>2, <2>3, SMTT(30) DEF Left, Ack
  <2>7. Bounds(k, N[k])'
    BY <1>2, <2>1, <2>4, <2>5, <2>6 DEF Bounds
  <2>8. ~InStep'
    BY <1>2, <1>4, <1>10 DEF InStep
  <2> QED BY <2>7, <2>8
<1>11. \A g \in Hops : Bounds(g, N[g])'
  BY <1>5, <1>9, <1>10
<1>12. ASSUME InStep' PROVE \A g \in Hops : Exact(g, N[g])'
  <2>1. cell.stream \in live
    BY <1>10, <1>12
  <2>2. \A g \in Hops : Exact(g, N[g])
    BY <1>2, <1>12 DEF InStep, HalfInv
  <2> QED BY <1>5, <1>9, <2>1, <2>2
<1> HIDE DEF cell
<1> QED BY <1>7, <1>11, <1>12 DEF HalfInv

\* sendmeManage takes the oldest digest of Trigged.
LEMMA ManagerTakeStep ==
  ASSUME NEW N \in [Hops -> Nat], HalfInv(N), NEW h \in Hops, ManagerTake(h)
  PROVE  HalfInv(N)'
<1> DEFINE w == rcv[h]
           L == Len(w.trigged)
           n == N[h]
<1>1. HalfType /\ Bounds(h, n) /\ n \in Nat
  BY DEF HalfInv
<1>2. /\ w \in WindowType /\ w.trigged \in Seq(Nat) /\ w.trigged # <<>> /\ HasDigest(w)
      /\ manager[h].pc = "idle" /\ L \in Nat
  BY <1>1, HopFacts DEF ManagerTake, HasDigest
<1>3. /\ Head(w.trigged) = w.trigged[1] /\ w.trigged[1] \in Nat /\ L >= 1
      /\ Len(Tail(w.trigged)) = L - 1
      /\ \A i \in 1 .. L - 1 : Tail(w.trigged)[i] = w.trigged[i + 1]
  <2> DEFINE q == w.trigged
  <2>1. q \in Seq(Nat) /\ q # <<>>
    BY <1>2
  <2> HIDE DEF q
  <2>2. /\ Head(q) = q[1] /\ q[1] \in Nat /\ Len(q) >= 1 /\ Len(Tail(q)) = Len(q) - 1
        /\ \A i \in 1 .. Len(q) - 1 : Tail(q)[i] = q[i + 1]
    BY <2>1
  <2> QED BY <2>2 DEF q
<1>4. /\ rcv' = [rcv EXCEPT ![h] = AfterGet(w)]
      /\ manager' = [manager EXCEPT ![h] = [pc |-> "put", digest |-> w.trigged[1]]]
      /\ UNCHANGED <<inbound, live, cause, relaySent, relayCredit>>
  BY <1>3 DEF ManagerTake, TakenDigest
<1>5. AfterGet(w) \in WindowType /\ AfterGet(w).v = w.v /\ AfterGet(w).trigged = Tail(w.trigged)
  BY <1>2, AfterGetFacts
<1>6. HalfType'
  BY <1>1, <1>3, <1>4, <1>5 DEF HalfType
<1>7. /\ rcv'[h].v = w.v /\ rcv'[h].trigged = Tail(w.trigged)
      /\ manager'[h].pc = "put" /\ manager'[h].digest = w.trigged[1]
      /\ At(h, "put") = 0 /\ At(h, "increase") = 0 /\ At(h, "put")' = 1 /\ At(h, "increase")' = 0
  BY <1>1, <1>2, <1>4, <1>5 DEF At, HalfType
<1>8. /\ \A g \in Hops : CellsRead(g)' = CellsRead(g) /\ (InboundInOrder(g) => InboundInOrder(g)')
      /\ \A g \in Hops : \A k : Ack(g, k)' = Ack(g, k)
  BY <1>4, QuietInbound DEF Ack
<1>9. Left(h)' = Left(h) /\ Covered(h)' = Covered(h)
  <2>1. Len(rcv'[h].trigged) + 1 + 0 = L + 0 + 0
    BY <1>2, <1>3, <1>7
  <2> QED BY <1>7, <1>8, <2>1 DEF Left, Covered
<1>10. Bounds(h, n)'
  BY <1>1, <1>4, <1>8, <1>9 DEF Bounds
<1>11. ASSUME Exact(h, n) PROVE Exact(h, n)'
  <2>1. \A i \in 1 .. L : w.trigged[i] = Ack(h, n + 0 + i)
    BY <1>7, <1>11 DEF Exact
  <2>2. manager'[h].digest = Ack(h, n + 1)
    <3>1. 1 \in 1 .. L /\ n + 0 + 1 = n + 1
      BY <1>1, <1>2, <1>3
    <3> QED BY <1>7, <2>1, <3>1
  <2>3. ASSUME NEW i \in 1 .. Len(rcv'[h].trigged) PROVE rcv'[h].trigged[i] = Ack(h, n + 1 + i)
    <3>1. /\ i \in 1 .. L - 1 /\ i + 1 \in 1 .. L /\ n + 0 + (i + 1) = n + 1 + i
          /\ Tail(w.trigged)[i] = w.trigged[i + 1]
      <4>1. Len(rcv'[h].trigged) = L - 1
        BY <1>3, <1>7
      <4>2. L \in Nat /\ n \in Nat /\ i \in 1 .. L - 1
        BY <1>1, <1>2, <4>1
      <4> HIDE DEF L, n
      <4>3. i + 1 \in 1 .. L /\ n + 0 + (i + 1) = n + 1 + i
        BY <4>2
      <4> QED BY <1>3, <4>2, <4>3 DEF L
    <3> QED BY <1>7, <2>1, <3>1
  <2>4. Left(h)' = StartValue + Ack(h, n) /\ Covered(h)' = StartValue /\ InboundInOrder(h)'
    BY <1>8, <1>9, <1>11 DEF Exact
  <2> HIDE DEF w, L, n
  <2> QED BY <1>7, <1>8, <2>2, <2>3, <2>4 DEF Exact
<1>12. ASSUME NEW g \in Hops, g # h
       PROVE  Bounds(g, N[g])' /\ (Exact(g, N[g]) => Exact(g, N[g])')
  <2>1. rcv'[g] = rcv[g] /\ manager'[g] = manager[g]
    BY <1>1, <1>4, <1>12 DEF HalfType
  <2>2. Bounds(g, N[g]) /\ (Exact(g, N[g]) => InboundInOrder(g))
    BY DEF HalfInv, Exact
  <2> QED BY <1>4, <1>8, <2>1, <2>2, QuietHop
<1>13. ASSUME InStep' PROVE \A g \in Hops : Exact(g, N[g])'
  <2>1. \A g \in Hops : Exact(g, N[g])
    BY <1>4, <1>13 DEF InStep, HalfInv
  <2> QED BY <1>11, <1>12, <2>1
<1> QED BY <1>6, <1>10, <1>12, <1>13 DEF HalfInv

\* sendmeManage has its SENDME in the queue: one more is on its way.
LEMMA ManagerPutStep ==
  ASSUME NEW N \in [Hops -> Nat], HalfInv(N), NEW h \in Hops, manager[h].pc = "put",
         manager' = [manager EXCEPT ![h].pc = "increase"],
         UNCHANGED <<inbound, live, rcv, cause, relaySent, relayCredit>>
  PROVE  /\ HalfInv([N EXCEPT ![h] = @ + 1])'
         /\ InStep => manager[h].digest = Ack(h, N[h] + 1)
<1> DEFINE n == N[h]
           M == [N EXCEPT ![h] = @ + 1]
           L == Len(rcv[h].trigged)
<1>1. HalfType /\ Bounds(h, n) /\ n \in Nat /\ L \in Nat
  BY HopFacts DEF HalfInv
<1>2. HalfType'
  BY <1>1 DEF HalfType
<1>3. /\ At(h, "put") = 1 /\ At(h, "increase") = 0 /\ At(h, "put")' = 0 /\ At(h, "increase")' = 1
      /\ manager'[h].pc = "increase"
  BY <1>1 DEF At, HalfType
<1>4. /\ \A g \in Hops : CellsRead(g)' = CellsRead(g) /\ (InboundInOrder(g) => InboundInOrder(g)')
      /\ \A g \in Hops : \A k : Ack(g, k)' = Ack(g, k)
  BY QuietInbound DEF Ack
<1>5. M[h] = n + 1 /\ \A g \in Hops : g # h => M[g] = N[g]
  OBVIOUS
<1>6. /\ rcv[h].v \in Int /\ CellsRead(h) \in Int /\ relayCredit[h] \in Nat
      /\ Cells(0) = 0 /\ Cells(1) = AddValue /\ Cells(n) \in Int /\ Cells(n + 1) = Cells(n) + AddValue
  <2>1. n \in Int
    BY <1>1
  <2>2. rcv[h].v \in Int /\ CellsRead(h) \in Int /\ relayCredit[h] \in Nat
    BY <1>1, HopFacts
  <2> QED BY <2>1, <2>2, CellsNext
<1>7. Left(h)' = Left(h) + AddValue /\ Left(h) \in Int
  BY <1>3, <1>4, <1>6 DEF Left
<1>8. Ack(h, n + 1)' = Ack(h, n) + AddValue /\ Ack(h, n) \in Int
  BY <1>6 DEF Ack
<1>9. Covered(h)' = Covered(h)
  <2>1. L + 0 + 1 = L + 1 + 0
    BY <1>1
  <2> QED BY <1>3, <2>1 DEF Covered
<1>10. Bounds(h, M[h])'
  <2>1. Bounds(h, n + 1)'
    BY <1>1, <1>7, <1>8, <1>9 DEF Bounds
  <2> QED BY <1>5, <2>1
<1>11. ASSUME Exact(h, n) PROVE Exact(h, M[h])'
  <2>1. Left(h)' = StartValue + Ack(h, n + 1)' /\ Covered(h)' = StartValue /\ InboundInOrder(h)'
    BY <1>4, <1>7, <1>8, <1>9, <1>11 DEF Exact
  <2>2. ASSUME NEW i \in 1 .. Len(rcv'[h].trigged)
        PROVE  rcv'[h].trigged[i] = Ack(h, (n + 1) + 0 + i)'
    <3>1. rcv[h].trigged[i] = Ack(h, n + 1 + i)
      BY <1>3, <1>11 DEF Exact
    <3>2. (n + 1) + 0 + i = n + 1 + i
      BY <1>1
    <3> QED BY <1>4, <3>1, <3>2
  <2> HIDE DEF n, M
  <2>3. Exact(h, n + 1)'
    BY <1>3, <2>1, <2>2 DEF Exact
  <2> QED BY <1>5, <2>3
<1>12. ASSUME NEW g \in Hops, g # h
       PROVE  Bounds(g, M[g])' /\ (Exact(g, N[g]) => Exact(g, M[g])')
  <2>1. rcv'[g] = rcv[g] /\ manager'[g] = manager[g]
    BY <1>1, <1>12 DEF HalfType
  <2>2. Bounds(g, N[g]) /\ (Exact(g, N[g]) => InboundInOrder(g))
    BY DEF HalfInv, Exact
  <2> HIDE DEF M
  <2> QED BY <1>4, <1>5, <1>12, <2>1, <2>2, QuietHop
<1>13. ASSUME InStep' PROVE \A g \in Hops : Exact(g, M[g])'
  <2>1. \A g \in Hops : Exact(g, N[g])
    BY <1>13 DEF InStep, HalfInv
  <2> HIDE DEF M
  <2> QED BY <1>11, <1>12, <2>1
<1>14. InStep => manager[h].digest = Ack(h, n + 1)
  BY DEF HalfInv, Exact
<1>15. HalfInv(M)'
  <2> HIDE DEF M
  <2> QED BY <1>2, <1>10, <1>12, <1>13 DEF HalfInv
<1> QED BY <1>14, <1>15

\* ... and has the window opened again.
LEMMA ManagerIncreaseStep ==
  ASSUME NEW N \in [Hops -> Nat], HalfInv(N), NEW h \in Hops, ManagerIncrease(h)
  PROVE  HalfInv(N)'
<1> DEFINE n == N[h]
           w == rcv[h]
           L == Len(w.trigged)
<1>1. HalfType /\ Bounds(h, n) /\ n \in Nat /\ L \in Nat
  BY HopFacts DEF HalfInv
<1>2. /\ manager[h].pc = "increase" /\ rcv' = [rcv EXCEPT ![h] = Increase(w)]
      /\ manager' = [manager EXCEPT ![h].pc = "idle"]
      /\ UNCHANGED <<inbound, live, cause, relaySent, relayCredit>>
  BY DEF ManagerIncrease
<1>3. /\ Increase(w) \in WindowType /\ Increase(w).v = w.v + AddValue
      /\ Increase(w).trigged = w.trigged
  BY <1>1, HopFacts, IncreaseFacts
<1>4. HalfType'
  BY <1>1, <1>2, <1>3 DEF HalfType
<1>5. /\ At(h, "put") = 0 /\ At(h, "increase") = 1 /\ At(h, "put")' = 0 /\ At(h, "increase")' = 0
      /\ manager'[h].pc = "idle" /\ rcv'[h].v = w.v + AddValue /\ rcv'[h].trigged = w.trigged
  BY <1>1, <1>2, <1>3 DEF At, HalfType
<1>6. /\ \A g \in Hops : CellsRead(g)' = CellsRead(g) /\ (InboundInOrder(g) => InboundInOrder(g)')
      /\ \A g \in Hops : \A k : Ack(g, k)' = Ack(g, k)
  BY <1>2, QuietInbound DEF Ack
<1>7. /\ w.v \in Int /\ CellsRead(h) \in Int
      /\ Cells(0) = 0 /\ Cells(1) = AddValue
      /\ Since(w.v + AddValue) = Since(w.v) /\ Since(w.v) \in Int
      /\ Cells(L) \in Int /\ Cells(L + 1) = Cells(L) + AddValue
      /\ L + 0 + 1 = L + 1 /\ L + 0 + 0 = L
  <2>1. w.v \in Int /\ CellsRead(h) \in Int /\ L \in Int
    BY <1>1, HopFacts
  <2> HIDE DEF L
  <2>2. Cells(0) = 0 /\ Cells(1) = AddValue /\ Cells(L) \in Int /\ Cells(L + 1) = Cells(L) + AddValue
    BY <2>1, CellsNext
  <2>3. Since(w.v + AddValue) = Since(w.v) /\ Since(w.v) \in Int
    BY <2>1, SinceFacts
  <2> QED BY <2>1, <2>2, <2>3
<1>8. Left(h)' = Left(h)
  <2>1. Left(h) = w.v + CellsRead(h) + AddValue /\ Left(h)' = w.v + AddValue + CellsRead(h) + 0
    BY <1>5, <1>6, <1>7 DEF Left
  <2> QED BY <1>7, <2>1
<1>9. Covered(h)' = Covered(h)
  <2>1. /\ Covered(h) = w.v + Cells(L + 1) + Since(w.v)
        /\ Covered(h)' = w.v + AddValue + Cells(L) + Since(w.v)
    BY <1>5, <1>7 DEF Covered
  <2> QED BY <1>7, <2>1
<1>10. Bounds(h, n)'
  BY <1>1, <1>2, <1>6, <1>8, <1>9 DEF Bounds
<1>11. ASSUME Exact(h, n) PROVE Exact(h, n)'
  <2>1. Left(h)' = StartValue + Ack(h, n) /\ Covered(h)' = StartValue /\ InboundInOrder(h)'
    BY <1>6, <1>8, <1>9, <1>11 DEF Exact
  <2>2. \A i \in 1 .. L : w.trigged[i] = Ack(h, n + 0 + i)
    BY <1>5, <1>11 DEF Exact
  <2> HIDE DEF n
  <2> QED BY <1>5, <1>6, <2>1, <2>2 DEF Exact
<1>12. ASSUME NEW g \in Hops, g # h
       PROVE  Bounds(g, N[g])' /\ (Exact(g, N[g]) => Exact(g, N[g])')
  <2>1. rcv'[g] = rcv[g] /\ manager'[g] = manager[g]
    BY <1>1, <1>2, <1>12 DEF HalfType
  <2>2. Bounds(g, N[g]) /\ (Exact(g, N[g]) => InboundInOrder(g))
    BY DEF HalfInv, Exact
  <2> QED BY <1>2, <1>6, <2>1, <2>2, QuietHop
<1>13. ASSUME InStep' PROVE \A g \in Hops : Exact(g, N[g])'
  <2>1. \A g \in Hops : Exact(g, N[g])
    BY <1>2, <1>13 DEF InStep, HalfInv
  <2> QED BY <1>11, <1>12, <2>1
<1> QED BY <1>4, <1>10, <1>12, <1>13 DEF HalfInv

\* A manager leaves, which it does only when the circuit is over.
LEMMA ManagerExitStep ==
  ASSUME NEW N \in [Hops -> Nat], HalfInv(N), NEW h \in Hops, ManagerExit(h)
  PROVE  HalfInv(N)'
<1> DEFINE n == N[h]
           L == Len(rcv[h].trigged)
<1>1. HalfType /\ Bounds(h, n) /\ L \in Nat
  BY HopFacts DEF HalfInv
<1>2. /\ manager[h].pc \in {"idle", "put"} /\ cause # "none"
      /\ manager' = [manager EXCEPT ![h].pc = "done"]
      /\ UNCHANGED <<inbound, live, rcv, cause, relaySent, relayCredit>>
  BY DEF ManagerExit
<1>3. HalfType'
  BY <1>1, <1>2 DEF HalfType
<1>4. /\ At(h, "increase") = 0 /\ At(h, "put")' = 0 /\ At(h, "increase")' = 0
      /\ At(h, "put") \in {0, 1}
  BY <1>1, <1>2 DEF At, HalfType
<1>5. /\ \A g \in Hops : CellsRead(g)' = CellsRead(g) /\ (InboundInOrder(g) => InboundInOrder(g)')
      /\ \A g \in Hops : \A k : Ack(g, k)' = Ack(g, k)
  BY <1>2, QuietInbound DEF Ack
<1>6. Left(h)' = Left(h)
  BY <1>2, <1>4, <1>5 DEF Left
<1>7. Covered(h)' <= Covered(h) /\ Covered(h) \in Int /\ Covered(h)' \in Int
  <2>1. /\ rcv[h].v \in Int /\ Since(rcv[h].v) \in Int /\ Cells(L) \in Int
        /\ Cells(L + 1) = Cells(L) + AddValue /\ L + 0 + 0 = L /\ L + 1 + 0 = L + 1
    <3>1. rcv[h].v \in Int /\ L \in Int
      BY <1>1, HopFacts
    <3> HIDE DEF L
    <3>2. Cells(L) \in Int /\ Cells(L + 1) = Cells(L) + AddValue
      BY <3>1, CellsNext
    <3> QED BY <3>1, <3>2, SinceFacts
  <2>2. Covered(h)' = rcv[h].v + Cells(L) + Since(rcv[h].v)
    BY <1>2, <1>4, <2>1 DEF Covered
  <2>3. Covered(h) = rcv[h].v + Cells(L) + Since(rcv[h].v)
        \/ Covered(h) = rcv[h].v + Cells(L + 1) + Since(rcv[h].v)
    <3>1. At(h, "put") = 0 \/ At(h, "put") = 1
      BY <1>4
    <3> QED BY <1>4, <2>1, <3>1 DEF Covered
  <2> QED BY <2>1, <2>2, <2>3
<1>8. Bounds(h, n)'
  BY <1>1, <1>2, <1>5, <1>6, <1>7 DEF Bounds
<1>9. ASSUME NEW g \in Hops, g # h PROVE Bounds(g, N[g])'
  <2>1. rcv'[g] = rcv[g] /\ manager'[g] = manager[g] /\ Bounds(g, N[g])
    BY <1>1, <1>2, <1>9 DEF HalfType, HalfInv
  <2> QED BY <1>2, <1>5, <2>1, QuietHop
<1>10. ~InStep'
  BY <1>2 DEF InStep
<1> QED BY <1>3, <1>8, <1>9, <1>10 DEF HalfInv

\* Steps that at most end the circuit or a stream.
LEMMA EndStep ==
  ASSUME NEW N \in [Hops -> Nat], HalfInv(N), live' \subseteq live,
         cause' = "none" => cause = "none",
         UNCHANGED <<inbound, rcv, manager, relaySent, relayCredit>>
  PROVE  HalfInv(N)'
<1>1. HalfType'
  BY DEF HalfInv, HalfType
<1>2. ASSUME NEW g \in Hops
      PROVE  Bounds(g, N[g])' /\ (Exact(g, N[g]) => Exact(g, N[g])')
  <2>1. Bounds(g, N[g]) /\ (Exact(g, N[g]) => InboundInOrder(g))
    BY DEF HalfInv, Exact
  <2> QED BY <2>1, QuietInbound, QuietHop
<1>3. InStep' => InStep
  BY DEF HalfInv, HalfType, InStep
<1> QED BY <1>1, <1>2, <1>3 DEF HalfInv

-----------------------------------------------------------------------------
(* A SENDME reaches the relay.                                             *)

\* What the books say: the cells of every SENDME on its way have been read, and
\* the counter stays within the window.
LEMMA BooksBalance ==
  ASSUME HalfType, NEW h \in Hops, NEW n \in Nat, Bounds(h, n)
  PROVE  /\ relayCredit[h] + Cells(n) <= CellsRead(h)
         /\ rcv[h].v \in -AddValue .. StartValue
         /\ Exact(h, n) =>
              CellsRead(h) = Ack(h, n + Len(rcv[h].trigged) + At(h, "put")) + Since(rcv[h].v)
<1> DEFINE v == rcv[h].v
           L == Len(rcv[h].trigged)
           put == At(h, "put")
           inc == At(h, "increase")
           read == CellsRead(h)
           credit == relayCredit[h]
<1>1. /\ v \in Int /\ L \in Nat /\ put \in {0, 1} /\ inc \in {0, 1} /\ read \in Int /\ credit \in Nat
      /\ relaySent[h] \in Nat /\ read <= relaySent[h]
  BY HopFacts
<1>2. /\ v + read + Cells(inc) >= StartValue + (credit + Cells(n))
      /\ v + Cells(L + put + inc) + Since(v) <= StartValue
      /\ relaySent[h] <= StartValue + credit
  BY DEF Bounds, Left, Covered, Ack
<1>3. ASSUME Exact(h, n)
      PROVE  /\ v + read + Cells(inc) = StartValue + (credit + Cells(n))
             /\ v + Cells(L + put + inc) + Since(v) = StartValue
  BY <1>3 DEF Exact, Left, Covered, Ack
<1>4. Ack(h, n + L + put) = credit + Cells(n + L + put)
  BY DEF Ack
<1> HIDE DEF v, L, put, inc, read, credit
<1>5. /\ L \in Int /\ put \in Int /\ inc \in Int /\ n \in Int /\ L + put \in Int /\ L + put >= 0
      /\ n + L + put = n + (L + put) /\ inc >= 0 /\ n >= 0 /\ inc <= 1
  BY <1>1
<1> DEFINE used == Cells(L + put)
           back == Cells(inc)
           way  == Cells(n)
           since == Since(v)
<1>6. /\ used \in Int /\ used >= 0 /\ back \in Int /\ way \in Int /\ way >= 0
      /\ back >= 0 /\ back <= AddValue
      /\ Cells(L + put + inc) = used + back /\ Cells(n + L + put) = way + used
  <2>1. /\ Cells(L + put) \in Int /\ Cells(L + put) >= 0 /\ Cells(n) \in Int /\ Cells(n) >= 0
        /\ Cells(L + put + inc) = Cells(L + put) + Cells(inc)
        /\ Cells(n + (L + put)) = Cells(n) + Cells(L + put)
    BY <1>5, CellsFacts
  <2>2. inc = 0 \/ inc = 1
    BY <1>1
  <2>3. Cells(0) = 0 /\ Cells(1) = AddValue
    BY <1>5, CellsFacts
  <2>4. Cells(inc) \in {0, AddValue}
    BY <2>2, <2>3
  <2> QED BY <1>5, <2>1, <2>4
<1>7. since \in Int /\ since >= 0
  BY <1>1, SinceFacts
<1>8. /\ v + read + back >= StartValue + (credit + way)
      /\ v + (used + back) + since <= StartValue
      /\ v \in Int /\ read \in Int /\ credit \in Int /\ read <= StartValue + credit
  BY <1>1, <1>2, <1>6
<1>9. Exact(h, n) => v + read + back = StartValue + (credit + way) /\ v + (used + back) + since = StartValue
  BY <1>3, <1>6
<1> HIDE DEF used, back, way, since
<1>10. credit + way <= read
  BY <1>6, <1>7, <1>8
<1>11. v \in -AddValue .. StartValue
  BY <1>6, <1>7, <1>8
<1>12. Exact(h, n) => read = credit + (way + used) + since
  BY <1>6, <1>7, <1>8, <1>9
<1> QED
  BY <1>4, <1>6, <1>10, <1>11, <1>12 DEF v, L, put, inc, read, credit, way, since

\* The relay takes the first of the SENDMEs on their way to it, and accepts it
\* when it needs no digest or the digest is the next.
LEMMA RelayReceiveStep ==
  ASSUME NEW N \in [Hops -> Nat], HalfInv(N), NEW h \in Hops, N[h] >= 1, NEW d,
         RelayReceive(h, d), UNCHANGED <<inbound, live, rcv, manager, relaySent>>
  PROVE  /\ HalfInv([N EXCEPT ![h] = @ - 1])'
         /\ InStep' => relayCredit' = [relayCredit EXCEPT ![h] = @ + AddValue]
         /\ (SendMeVersion = 1 => d = Ack(h, 1)) => cause' = cause
<1> DEFINE n == N[h]
           M == [N EXCEPT ![h] = @ - 1]
<1>1. HalfType /\ Bounds(h, n) /\ n \in Nat /\ n >= 1 /\ n \in Int
  BY DEF HalfInv
<1>2. /\ relayCredit[h] \in Nat /\ CellsRead(h) \in Int /\ CellsRead(h) <= relaySent[h]
      /\ relaySent[h] \in Nat
  BY <1>1, HopFacts
<1>3. Cells(n) \in Int /\ Cells(n) >= AddValue /\ Cells(1) = AddValue
      /\ \A k \in Int : Cells(k - 1) = Cells(k) - AddValue /\ Cells(k) \in Int
  <2>1. ASSUME NEW k \in Int PROVE Cells(k - 1) = Cells(k) - AddValue /\ Cells(k) \in Int
    <3>1. Cells((k - 1) + 1) = Cells(k - 1) + AddValue /\ Cells(k - 1) \in Int /\ Cells(k) \in Int
      BY CellsNext
    <3>2. (k - 1) + 1 = k
      OBVIOUS
    <3> QED BY <3>1, <3>2
  <2> QED BY <1>1, <2>1, CellsFacts
<1>4. relayCredit[h] + AddValue <= relaySent[h]
  <2>1. relayCredit[h] + Cells(n) <= CellsRead(h)
    BY <1>1, BooksBalance
  <2> HIDE DEF n
  <2> QED BY <1>2, <1>3, <2>1
<1>5. (SendMeVersion = 1 => d = Ack(h, 1)) => Acceptable(h, d)
  BY <1>3, <1>4 DEF Acceptable, Ack
<1>6. /\ M[h] = n - 1 /\ \A g \in Hops : g # h => M[g] = N[g]
  OBVIOUS
<1>7. /\ \A g \in Hops : CellsRead(g)' = CellsRead(g) /\ (InboundInOrder(g) => InboundInOrder(g)')
      /\ Covered(h)' = Covered(h) /\ Left(h)' = Left(h)
      /\ At(h, "put")' = At(h, "put")
  <2>1. At(h, "put")' = At(h, "put") /\ At(h, "increase")' = At(h, "increase")
    BY DEF At
  <2>2. \A g \in Hops : CellsRead(g)' = CellsRead(g) /\ (InboundInOrder(g) => InboundInOrder(g)')
    BY QuietInbound
  <2>3. CellsRead(h)' = CellsRead(h)
    BY <2>2
  <2>4. Covered(h)' = Covered(h) /\ Left(h)' = Left(h)
    BY <2>1, <2>3 DEF Covered, Left
  <2> QED BY <2>1, <2>2, <2>4
<1>8. CASE Acceptable(h, d)
  <2>1. relayCredit' = [relayCredit EXCEPT ![h] = @ + AddValue] /\ cause' = cause
    BY <1>8 DEF RelayReceive
  <2>2. relayCredit'[h] = relayCredit[h] + AddValue /\ relayCredit' \in [Hops -> Nat]
    BY <1>1, <1>2, <2>1 DEF HalfType
  <2>3. HalfType'
    BY <1>1, <2>2 DEF HalfType
  <2>4. \A k \in Int : Ack(h, k - 1)' = Ack(h, k)
    BY <1>2, <1>3, <2>2 DEF Ack
  <2>5. Bounds(h, M[h])'
    <3>1. Phase(relayCredit'[h]) = 0
      BY <1>1, <1>2, <2>2, PhaseIncrease DEF Bounds
    <3>2. relaySent'[h] <= StartValue + relayCredit'[h]
      BY <1>1, <1>2, <2>2 DEF Bounds
    <3>3. Ack(h, M[h])' = Ack(h, n)
      BY <1>1, <1>6, <2>4
    <3> HIDE DEF M, n
    <3> QED BY <1>1, <1>7, <3>1, <3>2, <3>3 DEF Bounds
  <2>6. ASSUME Exact(h, n) PROVE Exact(h, M[h])'
    <3>1. Ack(h, n - 1)' = Ack(h, n) /\ Ack(h, (n - 1) + 1)' = Ack(h, n + 1)
      <4>1. (n - 1) + 1 = (n + 1) - 1 /\ n + 1 \in Int
        BY <1>1
      <4> HIDE DEF n
      <4> QED BY <1>1, <2>4, <4>1
    <3>2. Left(h)' = StartValue + Ack(h, n - 1)' /\ Covered(h)' = StartValue /\ InboundInOrder(h)'
      <4>1. Left(h) = StartValue + Ack(h, n) /\ Covered(h) = StartValue /\ InboundInOrder(h)
        BY <2>6 DEF Exact
      <4> QED BY <1>7, <3>1, <4>1
    <3>3. /\ manager'[h].pc # "done"
          /\ manager'[h].pc = "put" => manager'[h].digest = Ack(h, (n - 1) + 1)'
      BY <2>6, <3>1 DEF Exact
    <3>4. ASSUME NEW i \in 1 .. Len(rcv'[h].trigged)
          PROVE  rcv'[h].trigged[i] = Ack(h, (n - 1) + At(h, "put") + i)'
      <4>1. rcv[h].trigged[i] = Ack(h, n + At(h, "put") + i)
        BY <2>6 DEF Exact
      <4>2. /\ (n - 1) + At(h, "put") + i = (n + At(h, "put") + i) - 1
            /\ n + At(h, "put") + i \in Int
        <5>1. At(h, "put") \in Int /\ i \in Int
          BY DEF At
        <5> HIDE DEF n
        <5> QED BY <1>1, <5>1
      <4> HIDE DEF n
      <4> QED BY <1>7, <2>4, <4>1, <4>2
    <3> HIDE DEF n, M
    <3>5. Exact(h, n - 1)'
      BY <3>2, <3>3, <3>4 DEF Exact
    <3> QED BY <1>6, <3>5
  <2>7. ASSUME NEW g \in Hops, g # h
        PROVE  Bounds(g, M[g])' /\ (Exact(g, N[g]) => Exact(g, M[g])')
    <3>1. relayCredit'[g] = relayCredit[g]
      BY <1>1, <2>1, <2>7 DEF HalfType
    <3>2. Bounds(g, N[g]) /\ (Exact(g, N[g]) => InboundInOrder(g))
      BY DEF HalfInv, Exact
    <3>3. /\ rcv'[g] = rcv[g] /\ manager'[g] = manager[g] /\ relaySent'[g] = relaySent[g]
          /\ CellsRead(g)' = CellsRead(g) /\ (InboundInOrder(g) => InboundInOrder(g)')
      BY <1>7
    <3>4. /\ Bounds(g, N[g]) => Bounds(g, N[g])'
          /\ Exact(g, N[g]) /\ InboundInOrder(g)' => Exact(g, N[g])'
      BY <3>1, <3>3, QuietHop
    <3>5. M[g] = N[g]
      BY <1>6, <2>7
    <3> HIDE DEF M
    <3> QED BY <3>2, <3>3, <3>4, <3>5
  <2>8. ASSUME InStep' PROVE \A g \in Hops : Exact(g, M[g])'
    <3>1. \A g \in Hops : Exact(g, N[g])
      BY <2>1, <2>8 DEF InStep, HalfInv
    <3> HIDE DEF M
    <3> QED BY <2>6, <2>7, <3>1
  <2>9. HalfInv(M)'
    <3> HIDE DEF M
    <3> QED BY <2>3, <2>5, <2>7, <2>8 DEF HalfInv
  <2> QED BY <2>1, <2>9
<1>9. CASE ~Acceptable(h, d)
  <2>1. relayCredit' = relayCredit /\ cause' # "none"
    BY <1>9 DEF RelayReceive
  <2>2. HalfType' /\ ~InStep'
    BY <1>1, <2>1 DEF HalfType, InStep
  <2>3. Bounds(h, M[h])'
    <3>1. Ack(h, n - 1)' = Ack(h, n) - AddValue /\ Ack(h, n) \in Int
      BY <1>1, <1>2, <1>3, <2>1 DEF Ack
    <3>2. Left(h) \in Int
      <4>1. rcv[h].v \in Int /\ At(h, "increase") \in Int
        BY <1>1, HopFacts
      <4>2. Cells(At(h, "increase")) \in Int
        BY <4>1, CellsNext
      <4> QED BY <1>2, <4>1, <4>2 DEF Left
    <3> HIDE DEF M, n
    <3> QED BY <1>1, <1>6, <1>7, <2>1, <3>1, <3>2 DEF Bounds
  <2>4. ASSUME NEW g \in Hops, g # h PROVE Bounds(g, M[g])'
    <3>1. Bounds(g, N[g]) /\ relayCredit'[g] = relayCredit[g]
      BY <2>1 DEF HalfInv
    <3>2. /\ rcv'[g] = rcv[g] /\ manager'[g] = manager[g] /\ relaySent'[g] = relaySent[g]
          /\ CellsRead(g)' = CellsRead(g)
      BY <1>7
    <3>3. Bounds(g, N[g])'
      BY <3>1, <3>2, QuietHop
    <3>4. M[g] = N[g]
      BY <1>6, <2>4
    <3> HIDE DEF M
    <3> QED BY <3>3, <3>4
  <2>5. HalfInv(M)'
    <3> HIDE DEF M
    <3> QED BY <2>2, <2>3, <2>4 DEF HalfInv
  <2> QED BY <1>5, <1>9, <2>2, <2>5
<1> QED BY <1>8, <1>9

-----------------------------------------------------------------------------
(* The invariant of CircuitRecv: WriteRelayCell is all there is between a  *)
(* manager and the relay.                                                  *)

LEMMA InitInv == Init => IInv
<1> SUFFICES ASSUME Init PROVE IInv
  OBVIOUS
<1> USE DEF Init
<1>1. /\ NewWindow \in WindowType /\ NewWindow.v = StartValue /\ NewWindow.trigged = <<>>
      /\ NoDigest \in Nat
  BY NewWindowType DEF NewWindow, NoDigest
<1>2. HalfType
  BY <1>1 DEF HalfType
<1>3. ASSUME NEW h \in Hops
      PROVE  QueuedFor(h) = 0 /\ Bounds(h, 0) /\ Exact(h, 0)
  <2>1. QueuedFor(h) = 0 /\ CellsRead(h) = 0
    <3>1. Count(<<>>, AckTo(h)) = 0 /\ Count(<<>>, FromHop(h)) = 0
      BY CountEmpty
    <3> QED BY <3>1 DEF QueuedFor, CellsRead
  <2>2. At(h, "put") = 0 /\ At(h, "increase") = 0 /\ Len(rcv[h].trigged) = 0
    BY <1>1 DEF At
  <2>3. Phase(0) = 0
    BY WindowAssumption DEF Phase
  <2>4. Since(StartValue) = 0
    BY UnitsStart DEF Since
  <2>5. Cells(0) = 0
    BY DEF Cells
  <2>6. Left(h) = StartValue /\ Covered(h) = StartValue /\ Ack(h, 0) = 0
    BY <1>1, <2>1, <2>2, <2>4, <2>5 DEF Left, Covered, Ack
  <2>7. Bounds(h, 0)
    BY <2>3, <2>6 DEF Bounds
  <2>8. InboundInOrder(h)
    BY DEF InboundInOrder
  <2>9. Exact(h, 0)
    BY <2>2, <2>6, <2>8 DEF Exact
  <2> QED BY <2>1, <2>7, <2>9
<1>4. HalfInv([h \in Hops |-> QueuedFor(h)])
  BY <1>2, <1>3 DEF HalfInv
<1>5. RestType /\ (\A i \in 1 .. Len(writeRelayCell) : writeRelayCell[i].cmd = "SENDME") /\ QueueInOrder
  BY DEF RestType, QueueInOrder
<1> QED BY <1>4, <1>5 DEF IInv

\* HalfInv as the lemmas about the steps want it.
LEMMA HalfOfInv ==
  ASSUME IInv
  PROVE  \E N \in [Hops -> Nat] : HalfInv(N) /\ \A h \in Hops : N[h] = QueuedFor(h)
<1> DEFINE N == [h \in Hops |-> QueuedFor(h)]
<1>1. \A h \in Hops : QueuedFor(h) \in Nat
  BY CountType DEF IInv, RestType, QueuedFor
<1>2. N \in [Hops -> Nat] /\ HalfInv(N) /\ \A h \in Hops : N[h] = QueuedFor(h)
  BY <1>1 DEF IInv
<1> HIDE DEF N
<1> QED BY <1>2

LEMMA InvOfHalf ==
  ASSUME NEW N \in [Hops -> Nat], HalfInv(N)', \A h \in Hops : N[h] = QueuedFor(h)'
  PROVE  HalfInv([h \in Hops |-> QueuedFor(h)])'
BY DEF HalfInv

\* What readloop, the managers, the relays and the streams do leaves
\* WriteRelayCell alone.
LEMMA OwnStep ==
  ASSUME IInv, OwnNext
  PROVE  IInv'
<1> PICK N \in [Hops -> Nat] : HalfInv(N) /\ \A h \in Hops : N[h] = QueuedFor(h)
  BY HalfOfInv
<1>1. HalfType /\ RestType /\ Len(inbound) \in Nat
  BY LenProperties DEF HalfInv, HalfType, IInv
<1>2. UNCHANGED <<writeRelayCell, reader, cause, relayCredit>>
  BY DEF OwnNext, RelaySend, ReadData, ManagerTake, ManagerIncrease, ManagerExit, FreeStream
<1>3. HalfInv(N)'
  <2>1. ASSUME NEW h \in Hops, RelaySend(h) PROVE HalfInv(N)'
    BY <2>1, RelaySendStep
  <2>2. CASE ReadData
    BY <2>2, ReadStep
  <2>3. ASSUME NEW h \in Hops, ManagerTake(h) PROVE HalfInv(N)'
    BY <2>3, ManagerTakeStep
  <2>4. ASSUME NEW h \in Hops, ManagerIncrease(h) PROVE HalfInv(N)'
    BY <2>4, ManagerIncreaseStep
  <2>5. ASSUME NEW h \in Hops, ManagerExit(h) PROVE HalfInv(N)'
    BY <2>5, ManagerExitStep
  <2>6. ASSUME NEW s \in Streams, FreeStream(s) PROVE HalfInv(N)'
    <3>1. /\ live' \subseteq live /\ cause' = cause
          /\ UNCHANGED <<inbound, rcv, manager, relaySent, relayCredit>>
      BY <2>6 DEF FreeStream
    <3> QED BY <3>1, EndStep
  <2> QED BY <2>1, <2>2, <2>3, <2>4, <2>5, <2>6 DEF OwnNext
<1>4. \A h \in Hops : N[h] = QueuedFor(h)'
  BY <1>2 DEF QueuedFor, AckTo
<1>5. RestType'
  <2>1. Len(inbound') <= InboundCap
    <3>1. CASE inbound' = inbound
      BY <1>1, <3>1 DEF RestType
    <3>2. CASE inbound' # inbound
      <4>1. CASE \E h \in Hops : RelaySend(h)
        <5>1. PICK cell : inbound' = Append(inbound, cell) /\ Len(inbound) < InboundCap
          BY <4>1 DEF RelaySend
        <5>2. Len(inbound') = Len(inbound) + 1
          BY <1>1, <5>1 DEF HalfType
        <5> QED BY <1>1, <5>1, <5>2
      <4>2. CASE ReadData
        <5>1. inbound # <<>> /\ inbound' = Tail(inbound) /\ inbound \in Seq(InCell)
          BY <1>1, <4>2 DEF ReadData, HalfType
        <5>2. Len(inbound') = Len(inbound) - 1
          BY <5>1
        <5> QED BY <1>1, <5>2 DEF RestType
      <4> QED BY <3>2, <4>1, <4>2
              DEF OwnNext, ManagerTake, ManagerIncrease, ManagerExit, FreeStream
    <3> QED BY <3>1, <3>2
  <2>2. ASSUME NEW h \in Hops PROVE relaySent'[h] <= MaxDown
    <3>1. relaySent[h] <= MaxDown /\ relaySent[h] \in Nat
      BY <1>1 DEF RestType, HalfType
    <3>2. CASE relaySent' = relaySent
      BY <3>1, <3>2
    <3>3. ASSUME NEW g \in Hops, RelaySend(g) PROVE relaySent'[h] <= MaxDown
      <4>1. relaySent' = [relaySent EXCEPT ![g] = @ + 1] /\ relaySent[g] < MaxDown
            /\ relaySent \in [Hops -> Nat]
        BY <1>1, <3>3 DEF RelaySend, HalfType
      <4> QED BY <3>1, <4>1
    <3> QED BY <3>2, <3>3
            DEF OwnNext, ReadData, ManagerTake, ManagerIncrease, ManagerExit, FreeStream
  <2> QED BY <1>1, <1>2, <2>1, <2>2 DEF RestType
<1>6. InStep' => InStep
  BY <1>1, <1>2 DEF InStep, HalfType, OwnNext, RelaySend, ReadData, ManagerTake, ManagerIncrease,
                    ManagerExit, FreeStream
<1>7. (~StreamsClose => live' = Streams) /\ (Safe => cause' # "destroyed")
  BY <1>2 DEF IInv, OwnNext, RelaySend, ReadData, ManagerTake, ManagerIncrease, ManagerExit, FreeStream
<1>8. QueueInOrder => QueueInOrder'
  BY <1>2 DEF QueueInOrder, Ack, AckTo
<1>9. \A i \in 1 .. Len(writeRelayCell') : writeRelayCell'[i].cmd = "SENDME"
  BY <1>2 DEF IInv
<1>10. HalfInv([h \in Hops |-> QueuedFor(h)])'
  BY <1>3, <1>4, InvOfHalf
<1>11. InStep' => QueueInOrder'
  BY <1>6, <1>8 DEF IInv
<1> QED BY <1>5, <1>7, <1>9, <1>10, <1>11 DEF IInv, Safe

\* A SENDME joins WriteRelayCell with the digest that comes next.
LEMMA PutStep ==
  ASSUME IInv, NEW h \in Hops, ManagerPut(h)
  PROVE  IInv'
<1> DEFINE q == writeRelayCell
           cell == [dst |-> h, cmd |-> "SENDME", digest |-> manager[h].digest]
<1> PICK N \in [Hops -> Nat] : HalfInv(N) /\ \A g \in Hops : N[g] = QueuedFor(g)
  BY HalfOfInv
<1>1. HalfType /\ RestType
  BY DEF HalfInv, IInv
<1>2. /\ manager[h].pc = "put" /\ manager' = [manager EXCEPT ![h].pc = "increase"]
      /\ Len(q) < QueueCap /\ q' = Append(q, cell)
      /\ UNCHANGED <<inbound, live, rcv, reader, cause, relaySent, relayCredit>>
  BY DEF ManagerPut
<1>3. cell \in RelayOut /\ q \in Seq(RelayOut) /\ cell.cmd = "SENDME" /\ Len(q) \in Nat
  BY <1>1, HopFacts, LenProperties DEF RelayOut, RestType
<1>4. \A g \in Hops : cell \in AckTo(g) <=> g = h
  BY <1>1, HopFacts DEF AckTo
<1> HIDE DEF cell
<1> DEFINE M == [N EXCEPT ![h] = @ + 1]
<1>5. HalfInv(M)' /\ (InStep => manager[h].digest = Ack(h, N[h] + 1))
  BY <1>2, ManagerPutStep
<1>6. ASSUME NEW g \in Hops
      PROVE  /\ Count(q', AckTo(g)) = Count(q, AckTo(g)) + (IF cell \in AckTo(g) THEN 1 ELSE 0)
             /\ \A i \in 0 .. Len(q) : CountTo(q', AckTo(g), i) = CountTo(q, AckTo(g), i)
             /\ Count(q, AckTo(g)) \in Nat
  <2> HIDE DEF q
  <2>1. /\ Count(Append(q, cell), AckTo(g)) = Count(q, AckTo(g)) + (IF cell \in AckTo(g) THEN 1 ELSE 0)
        /\ \A i \in 0 .. Len(q) : CountTo(Append(q, cell), AckTo(g), i) = CountTo(q, AckTo(g), i)
    BY <1>3, CountAppend
  <2>2. Count(q, AckTo(g)) \in Nat
    BY <1>3, CountType
  <2> QED BY <1>2, <2>1, <2>2
<1>7. ASSUME NEW g \in Hops PROVE M[g] = QueuedFor(g)'
  <2>1. QueuedFor(g)' = Count(q', AckTo(g)) /\ QueuedFor(g) = Count(q, AckTo(g)) /\ QueuedFor(g) = N[g]
    BY DEF QueuedFor, AckTo
  <2>2. Count(q', AckTo(g)) = Count(q, AckTo(g)) + (IF g = h THEN 1 ELSE 0)
    BY <1>4, <1>6
  <2>3. M[g] = N[g] + (IF g = h THEN 1 ELSE 0)
    <3>1. N[g] \in Nat
      OBVIOUS
    <3> QED BY <3>1
  <2> HIDE DEF q, M
  <2> QED BY <2>1, <2>2, <2>3
<1>8. /\ Len(q') = Len(q) + 1 /\ q'[Len(q) + 1] = cell /\ \A i \in 1 .. Len(q) : q'[i] = q[i]
      /\ q' \in Seq(RelayOut)
  BY <1>2, <1>3, AppendProperties
<1>9. RestType'
  BY <1>1, <1>2, <1>3, <1>8 DEF RestType
<1>10. ASSUME InStep', NEW i \in 1 .. Len(q'), NEW g \in Hops, q'[i] \in AckTo(g)
       PROVE  q'[i].digest = Ack(g, CountTo(q', AckTo(g), i))
  <2>1. InStep /\ QueueInOrder
    BY <1>2, <1>10 DEF InStep, IInv
  <2>2. CASE i \in 1 .. Len(q)
    <3>1. i \in 0 .. Len(q) /\ q'[i] = q[i]
      BY <1>8, <2>2
    <3>2. q[i].digest = Ack(g, CountTo(q, AckTo(g), i))
      BY <1>10, <2>1, <2>2, <3>1 DEF QueueInOrder
    <3> HIDE DEF q
    <3> QED BY <1>6, <3>1, <3>2
  <2>3. CASE i \notin 1 .. Len(q)
    <3>1. i = Len(q) + 1 /\ q'[i] = cell
      BY <1>3, <1>8, <1>10, <2>3
    <3>2. g = h /\ cell.digest = manager[h].digest
      BY <1>4, <1>10, <3>1 DEF cell
    <3>3. CountTo(q', AckTo(g), i) = N[h] + 1
      <4>1. CountTo(q', AckTo(g), i) = QueuedFor(g)'
        BY <1>8, <3>1 DEF Count, QueuedFor, AckTo
      <4> HIDE DEF q
      <4> QED BY <1>7, <3>2, <4>1
    <3> QED BY <1>5, <2>1, <3>1, <3>2, <3>3
  <2> QED BY <2>2, <2>3
<1>11. InStep' => QueueInOrder'
  BY <1>2, <1>10 DEF QueueInOrder, Ack, AckTo
<1>12. HalfInv([g \in Hops |-> QueuedFor(g)])'
  <2> HIDE DEF q
  <2>1. M \in [Hops -> Nat] /\ \A g \in Hops : M[g] = QueuedFor(g)'
    BY <1>7
  <2> HIDE DEF M
  <2> QED BY <1>5, <2>1, InvOfHalf
<1>13. \A i \in 1 .. Len(q') : q'[i].cmd = "SENDME"
  <2> SUFFICES ASSUME NEW i \in 1 .. Len(q') PROVE q'[i].cmd = "SENDME"
    OBVIOUS
  <2>1. i \in 1 .. Len(q) \/ q'[i] = cell
    BY <1>3, <1>8
  <2> QED BY <1>3, <1>8, <2>1 DEF IInv
<1>14. (~StreamsClose => live' = Streams) /\ (Safe => cause' # "destroyed")
  BY <1>2 DEF IInv
<1> QED BY <1>9, <1>11, <1>12, <1>13, <1>14 DEF IInv, Safe

\* readloop leaves, the circuit is closed, or nothing happens.
LEMMA QuietStep ==
  ASSUME IInv, ReaderExit \/ CloseCircuit \/ UNCHANGED vars
  PROVE  IInv'
<1> PICK N \in [Hops -> Nat] : HalfInv(N) /\ \A g \in Hops : N[g] = QueuedFor(g)
  BY HalfOfInv
<1>1. /\ UNCHANGED <<inbound, live, rcv, manager, writeRelayCell, relaySent, relayCredit>>
      /\ cause' = cause \/ cause' = "closed"
      /\ reader' \in {reader, "done"}
  BY DEF ReaderExit, CloseCircuit, vars
<1>2. HalfInv(N)'
  BY <1>1, EndStep
<1>3. \A h \in Hops : N[h] = QueuedFor(h)'
  BY <1>1 DEF QueuedFor, AckTo
<1>4. HalfInv([h \in Hops |-> QueuedFor(h)])'
  BY <1>2, <1>3, InvOfHalf
<1>5. RestType'
  BY <1>1 DEF IInv, RestType
<1>6. InStep' => QueueInOrder'
  BY <1>1 DEF IInv, InStep, QueueInOrder, Ack, AckTo
<1> QED BY <1>1, <1>4, <1>5, <1>6 DEF IInv, Safe

\* The first SENDME of WriteRelayCell reaches its relay.
LEMMA TransmitStep ==
  ASSUME IInv, Transmit
  PROVE  IInv'
<1> DEFINE q == writeRelayCell
           cell == Head(q)
<1> PICK N \in [Hops -> Nat] : HalfInv(N) /\ \A g \in Hops : N[g] = QueuedFor(g)
  BY HalfOfInv
<1>1. HalfType /\ RestType
  BY DEF HalfInv, IInv
<1>2. /\ q # <<>> /\ q' = Tail(q) /\ RelayReceive(cell.dst, cell.digest)
      /\ UNCHANGED <<inbound, live, rcv, manager, reader, relaySent>>
  BY DEF Transmit
<1>3. /\ q \in Seq(RelayOut) /\ cell \in RelayOut /\ q' \in Seq(RelayOut)
      /\ Len(q) \in Nat /\ Len(q') \in Nat /\ Len(q) = Len(q') + 1 /\ cell = q[1]
      /\ \A i \in 1 .. Len(q') : q'[i] = q[i + 1]
  <2>1. q \in Seq(RelayOut)
    BY <1>1 DEF RestType
  <2>2. cell \in RelayOut /\ q' \in Seq(RelayOut)
    BY <1>2, <2>1, HeadTailProperties
  <2> HIDE DEF q
  <2>3. /\ Len(q) \in Nat /\ Len(Tail(q)) \in Nat /\ Len(q) = Len(Tail(q)) + 1 /\ Head(q) = q[1]
        /\ \A i \in 1 .. Len(Tail(q)) : Tail(q)[i] = q[i + 1]
    BY <1>2, <2>1
  <2> QED BY <1>2, <2>1, <2>2, <2>3 DEF q
<1> PICK h \in Hops : cell.dst = h
  BY <1>3 DEF RelayOut
<1> PICK d \in Nat : cell.digest = d
  BY <1>3 DEF RelayOut
<1>4. cell.cmd = "SENDME" /\ \A g \in Hops : cell \in AckTo(g) <=> g = h
  <2>1. cell.cmd = "SENDME"
    BY <1>3 DEF IInv
  <2> QED BY <1>3, <2>1 DEF RelayOut, AckTo
<1>5. ASSUME NEW g \in Hops
      PROVE  /\ Count(q, AckTo(g)) = Count(q', AckTo(g)) + (IF g = h THEN 1 ELSE 0)
             /\ \A i \in 0 .. Len(q') :
                  CountTo(q, AckTo(g), i + 1) = CountTo(q', AckTo(g), i) + (IF g = h THEN 1 ELSE 0)
             /\ Count(q', AckTo(g)) \in Nat
  <2>1. Count(q', AckTo(g)) \in Nat
    BY <1>3, CountType
  <2> QED BY <1>2, <1>3, <1>4, <2>1, CountTail
<1>6. ASSUME NEW g \in Hops
      PROVE  /\ N[g] = Count(q, AckTo(g)) /\ QueuedFor(g)' = Count(q', AckTo(g))
  BY DEF QueuedFor, AckTo
<1> HIDE DEF q, cell
<1> DEFINE M == [N EXCEPT ![h] = @ - 1]
<1>7. N[h] >= 1 /\ \A g \in Hops : M[g] = QueuedFor(g)'
  <2>1. N[h] = Count(q', AckTo(h)) + 1 /\ Count(q', AckTo(h)) \in Nat
    BY <1>5, <1>6
  <2>2. \A g \in Hops : N[g] = QueuedFor(g)' + (IF g = h THEN 1 ELSE 0) /\ QueuedFor(g)' \in Nat
    BY <1>5, <1>6
  <2> QED BY <2>1, <2>2
<1>8. /\ HalfInv(M)'
      /\ InStep' => relayCredit' = [relayCredit EXCEPT ![h] = @ + AddValue]
      /\ (SendMeVersion = 1 => d = Ack(h, 1)) => cause' = cause
  BY <1>2, <1>7, RelayReceiveStep
<1>9. HalfInv([g \in Hops |-> QueuedFor(g)])'
  <2>1. M \in [Hops -> Nat]
    BY <1>7
  <2> HIDE DEF M
  <2> QED BY <1>7, <1>8, <2>1, InvOfHalf
<1>10. cause' \in {cause, "destroyed"} /\ (cause # "none" => cause' = cause)
  BY <1>2 DEF RelayReceive
<1>11. RestType'
  BY <1>1, <1>2, <1>3, <1>10 DEF RestType, q
<1>12. InStep' => InStep /\ QueueInOrder
  BY <1>2, <1>10 DEF InStep, IInv
<1>13. QueueInOrder => d = Ack(h, 1)
  <2> SUFFICES ASSUME QueueInOrder PROVE d = Ack(h, 1)
    OBVIOUS
  <2>1. 1 \in 1 .. Len(q) /\ 0 \in 0 .. Len(q') /\ q[1] \in AckTo(h) /\ q[1].digest = d
    BY <1>3, <1>4
  <2>2. q[1].digest = Ack(h, CountTo(q, AckTo(h), 1))
    BY <2>1 DEF QueueInOrder, q
  <2>3. CountTo(q, AckTo(h), 0 + 1) = CountTo(q', AckTo(h), 0) + 1
    BY <1>5, <2>1
  <2>4. CountTo(q', AckTo(h), 0) = 0
    BY CountToType
  <2> QED BY <2>1, <2>2, <2>3, <2>4
<1>14. Safe => cause' # "destroyed"
  <2> SUFFICES ASSUME Safe PROVE cause' # "destroyed"
    OBVIOUS
  <2>1. cause # "destroyed"
    BY DEF IInv
  <2>2. CASE cause # "none"
    BY <1>10, <2>1, <2>2
  <2>3. CASE cause = "none"
    <3>1. SendMeVersion = 1 => InStep
      BY <2>3 DEF Safe, IInv, InStep
    <3>2. SendMeVersion = 1 => d = Ack(h, 1)
      BY <1>13, <3>1 DEF IInv
    <3> QED BY <1>8, <2>1, <3>2
  <2> QED BY <2>2, <2>3
<1>15. ASSUME InStep', NEW i \in 1 .. Len(q'), NEW g \in Hops, q'[i] \in AckTo(g)
       PROVE  q'[i].digest = relayCredit'[g] + Cells(CountTo(q', AckTo(g), i))
  <2>1. i + 1 \in 1 .. Len(q) /\ i \in 0 .. Len(q') /\ q'[i] = q[i + 1]
    BY <1>3
  <2>2. q[i + 1].digest = Ack(g, CountTo(q, AckTo(g), i + 1))
    BY <1>12, <1>15, <2>1 DEF QueueInOrder, q
  <2> DEFINE c == CountTo(q', AckTo(g), i)
  <2>3. c \in Int
    <3>1. i \in Nat
      BY <2>1
    <3>2. CountTo(q', AckTo(g), i) \in Nat
      BY <3>1, CountToType
    <3> QED BY <3>2
  <2>4. CountTo(q, AckTo(g), i + 1) = c + (IF g = h THEN 1 ELSE 0)
    BY <1>5, <2>1
  <2>5. relayCredit'[g] = relayCredit[g] + (IF g = h THEN AddValue ELSE 0) /\ relayCredit[g] \in Nat
    BY <1>1, <1>8, <1>15, SMTT(30) DEF HalfType
  <2> HIDE DEF c
  <2>6. relayCredit[g] + Cells(c + (IF g = h THEN 1 ELSE 0)) = relayCredit'[g] + Cells(c)
    <3>1. Cells(c + 1) = Cells(c) + AddValue /\ Cells(c) \in Int
      BY <2>3, CellsNext
    <3>2. CASE g = h
      BY <2>5, <3>1, <3>2
    <3>3. CASE g # h
      <4>1. c + 0 = c
        BY <2>3
      <4> QED BY <2>5, <3>1, <3>3, <4>1
    <3> QED BY <3>2, <3>3
  <2>7. q'[i].digest = relayCredit'[g] + Cells(CountTo(q', AckTo(g), i))
    BY <2>1, <2>2, <2>4, <2>6 DEF Ack, c
  <2> QED BY <2>7
<1>16. InStep' => QueueInOrder'
  BY <1>15 DEF QueueInOrder, Ack, AckTo, q
<1>17. \A i \in 1 .. Len(q') : q'[i].cmd = "SENDME"
  <2> SUFFICES ASSUME NEW i \in 1 .. Len(q') PROVE q'[i].cmd = "SENDME"
    OBVIOUS
  <2>1. i + 1 \in 1 .. Len(q) /\ q'[i] = q[i + 1]
    BY <1>3
  <2> QED BY <2>1 DEF IInv, q
<1>18. ~StreamsClose => live' = Streams
  BY <1>2 DEF IInv
<1> QED BY <1>9, <1>11, <1>14, <1>16, <1>17, <1>18 DEF IInv, Safe, q

LEMMA NextInv == IInv /\ [Next]_vars => IInv'
BY OwnStep, PutStep, QuietStep, TransmitStep DEF Next

-----------------------------------------------------------------------------
\* The invariant holds of every run of the receiving half of a circuit.
THEOREM ReceiveInvariant == Spec => []IInv
BY InitInv, NextInv, PTL DEF Spec

\* The counters stay within the window and the queues within their capacity,
\* also when a stream is freed under its cells or the circuit ends.
THEOREM ReceiveTypeCorrect == Spec => []TypeOK
<1>1. IInv => TypeOK
  <2> SUFFICES ASSUME IInv PROVE TypeOK
    OBVIOUS
  <2> PICK N \in [Hops -> Nat] : HalfInv(N) /\ \A h \in Hops : N[h] = QueuedFor(h)
    BY HalfOfInv
  <2>1. HalfType /\ RestType /\ \A h \in Hops : Bounds(h, N[h])
    BY DEF HalfInv, IInv
  <2>2. \A h \in Hops : rcv[h].v \in -AddValue .. StartValue
    BY <2>1, BooksBalance
  <2>3. relaySent \in [Hops -> 0 .. MaxDown]
    BY <2>1 DEF HalfType, RestType
  <2> QED BY <2>1, <2>2, <2>3 DEF HalfType, RestType, TypeOK
<1> QED BY <1>1, ReceiveInvariant, PTL

\* The relays accept every SENDME of readloop and the managers, unless their
\* digests count (CREATE2 circuits) and a stream is freed while its relay
\* still sends.
THEOREM SendMesAccepted == Safe => (Spec => []RelayAcceptsSendMe)
<1> SUFFICES ASSUME Safe PROVE Spec => []RelayAcceptsSendMe
  OBVIOUS
<1>1. IInv => RelayAcceptsSendMe
  BY DEF IInv, RelayAcceptsSendMe
<1> QED BY <1>1, ReceiveInvariant, PTL

\* While the circuit lives and every cell is charged, each trigger point that
\* readloop has passed is acknowledged or about to be: none is dropped at a
\* full Trigged, however far the managers lag behind.
THEOREM NoTriggerLost == Spec => []AcksAddUp
<1>1. IInv /\ TypeOK => AcksAddUp
  <2> SUFFICES ASSUME IInv, TypeOK, InStep, NEW h \in Hops
               PROVE  relayCredit[h] + AddValue * (QueuedFor(h) + Len(rcv[h].trigged) + At(h, "put"))
                        = CellsRead(h) - (CellsRead(h) % AddValue)
    BY DEF AcksAddUp
  <2> PICK N \in [Hops -> Nat] : HalfInv(N) /\ \A g \in Hops : N[g] = QueuedFor(g)
    BY HalfOfInv
  <2> DEFINE n == N[h]
             m == n + Len(rcv[h].trigged) + At(h, "put")
             since == Since(rcv[h].v)
             read == CellsRead(h)
  <2>1. /\ HalfType /\ Bounds(h, n) /\ Exact(h, n) /\ n \in Nat /\ n = QueuedFor(h)
    BY DEF HalfInv
  <2>2. read = relayCredit[h] + Cells(m) + since
    BY <2>1, BooksBalance DEF Ack
  <2>3. /\ m \in Int /\ since \in 0 .. (AddValue - 1) /\ read \in Int /\ relayCredit[h] \in Nat
    <3>1. /\ rcv[h].v \in Int /\ Len(rcv[h].trigged) \in Nat /\ At(h, "put") \in {0, 1}
          /\ CellsRead(h) \in Int /\ relayCredit[h] \in Nat
      BY <2>1, HopFacts
    <3>2. Since(rcv[h].v) \in 0 .. (AddValue - 1)
      BY <3>1, SinceFacts
    <3> HIDE DEF n
    <3> QED BY <2>1, <3>1, <3>2, SMTT(30)
  <2>4. PICK k \in Int : relayCredit[h] = AddValue * k
    <3> DEFINE c == relayCredit[h]
    <3>1. c % AddValue = 0
      BY <2>1 DEF Bounds, Phase
    <3>2. c \in Int /\ AddValue \in Nat \ {0}
      BY <2>3
    <3> HIDE DEF c
    <3>3. c \div AddValue \in Int /\ c = (AddValue * (c \div AddValue)) + (c % AddValue)
      BY <3>2, DivMod
    <3>4. c = AddValue * (c \div AddValue)
      BY <3>1, <3>2, <3>3
    <3> QED BY <3>3, <3>4 DEF c
  <2>5. relayCredit[h] + AddValue * (QueuedFor(h) + Len(rcv[h].trigged) + At(h, "put"))
          = relayCredit[h] + AddValue * m
    BY <2>1
  <2> HIDE DEF n, m, since, read
  <2>6. read = AddValue * (k + m) + since /\ k + m \in Int
    BY <2>2, <2>3, <2>4 DEF Cells
  <2>7. read % AddValue = since
    BY <2>3, <2>6, DivModIs
  <2>8. relayCredit[h] + AddValue * m = read - (read % AddValue)
    BY <2>2, <2>3, <2>7 DEF Cells
  <2> QED BY <2>5, <2>8 DEF read
<1> QED BY <1>1, ReceiveInvariant, ReceiveTypeCorrect, PTL
=============================================================================
