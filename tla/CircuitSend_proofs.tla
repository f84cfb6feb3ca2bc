------------------------- MODULE CircuitSend_proofs -------------------------
(***************************************************************************)
(* CreditSafety, HonestSendMeAccepted and the implementation of CreditFlow *)
(* hold of CircuitSend for every number of hops, window size, queue size,  *)
(* number of cells and set of honest relays.  All three follow from the    *)
(* inductive invariant IInv: Ledger counts every DATA cell against the     *)
(* window, Room shows that Trigged never drops a digest, and Chain with    *)
(* Aligned show that the digest at its head is the one the relay           *)
(* acknowledges next.                                                      *)
(***************************************************************************)
EXTENDS CircuitSend, Flow_proofs

\* What the provers need to know of queues of digests.
LEMMA EmptyFacts ==
  ASSUME NEW q \in Seq(Nat)
  PROVE  Len(q) \in Nat /\ (q = <<>> <=> Len(q) = 0)
BY EmptySeq

LEMMA TailFacts ==
  ASSUME NEW q \in Seq(Nat), q # <<>>
  PROVE  /\ Tail(q) \in Seq(Nat) /\ Len(q) \in Nat /\ Len(q) >= 1 /\ Len(Tail(q)) = Len(q) - 1
         /\ \A i \in 1 .. Len(q) - 1 : Tail(q)[i] = q[i + 1]
         /\ Head(q) = q[1] /\ \A i \in 1 .. Len(q) : q[i] \in Nat
OBVIOUS

LEMMA AppendFacts ==
  ASSUME NEW q \in Seq(Nat), NEW e \in Nat
  PROVE  /\ Append(q, e) \in Seq(Nat) /\ Len(q) \in Nat /\ Len(Append(q, e)) = Len(q) + 1
         /\ \A i \in 1 .. Len(q) : Append(q, e)[i] = q[i] /\ q[i] \in Nat
         /\ Append(q, e)[Len(q) + 1] = e
         /\ q = <<>> <=> Len(q) = 0
OBVIOUS

\* The part of the assumptions that the arithmetic needs.
LEMMA Sizes ==
  /\ AddValue \in Nat /\ AddValue > 0 /\ StartValue \in Nat /\ StartValue > 0
  /\ SendMeVersion \in {0, 1} /\ Honest \subseteq Hops /\ MaxData \in Nat
  /\ QueueCap \in Nat /\ Hops \subseteq Int
BY WindowAssumption, CircuitSendAssumption DEF Hops

USE Sizes

\* A new trigger point extends a run ...
LEMMA RunAppend ==
  ASSUME NEW q \in Seq(Nat), NEW lo \in Int, NEW hi \in Int, Run(q, lo, hi),
         hi + AddValue >= lo, hi + AddValue \in Nat
  PROVE  Run(Append(q, hi + AddValue), lo, hi + AddValue)
<1> DEFINE r == Append(q, hi + AddValue)
<1>1. /\ r \in Seq(Nat) /\ Len(q) \in Nat /\ Len(r) = Len(q) + 1
      /\ \A i \in 1 .. Len(q) : r[i] = q[i] /\ q[i] \in Nat
      /\ r[Len(q) + 1] = hi + AddValue
      /\ q = <<>> <=> Len(q) = 0
  BY AppendFacts
<1> HIDE DEF r
<1>2. r[1] >= lo
  <2>1. CASE Len(q) = 0
    BY <1>1, <2>1
  <2>2. CASE Len(q) # 0
    <3>1. 1 \in 1 .. Len(q) /\ q[1] >= lo
      BY <1>1, <2>2 DEF Run
    <3> QED BY <1>1, <3>1
  <2> QED BY <2>1, <2>2
<1>3. ASSUME NEW i \in 1 .. Len(r) PROVE r[i] <= hi + AddValue
  <2>1. CASE i = Len(q) + 1
    BY <1>1, <2>1
  <2>2. CASE i # Len(q) + 1
    <3>1. i \in 1 .. Len(q)
      BY <1>1, <2>2
    <3>2. q[i] <= hi
      BY <3>1 DEF Run
    <3> QED BY <1>1, <3>1, <3>2
  <2> QED BY <2>1, <2>2
<1>4. ASSUME NEW i \in 1 .. Len(r) - 1 PROVE r[i + 1] = r[i] + AddValue
  <2>1. CASE i = Len(q)
    <3>1. q[Len(q)] = hi /\ Len(q) \in 1 .. Len(q)
      BY <1>1, <2>1 DEF Run
    <3> QED BY <1>1, <2>1, <3>1
  <2>2. CASE i # Len(q)
    <3>1. i \in 1 .. Len(q) - 1 /\ i \in 1 .. Len(q) /\ i + 1 \in 1 .. Len(q)
      BY <1>1, <2>2
    <3>2. q[i + 1] = q[i] + AddValue
      BY <3>1 DEF Run
    <3> QED BY <1>1, <3>1, <3>2
  <2> QED BY <2>1, <2>2
<1>5. r[Len(r)] = hi + AddValue
  BY <1>1
<1>6. Run(r, lo, hi + AddValue)
  BY <1>2, <1>3, <1>4, <1>5 DEF Run
<1> QED BY <1>6 DEF r

\* ... and an acknowledged one shortens it.
LEMMA RunTail ==
  ASSUME NEW q \in Seq(Nat), q # <<>>, NEW lo \in Int, NEW hi \in Int, Run(q, lo, hi)
  PROVE  /\ q[1] \in Nat /\ q[1] >= lo /\ q[1] <= hi
         /\ Run(Tail(q), q[1] + AddValue, hi)
         /\ IF Tail(q) = <<>> THEN q[1] = hi ELSE Tail(q)[1] = q[1] + AddValue
<1> DEFINE r == Tail(q)
<1>1. /\ r \in Seq(Nat) /\ Len(q) \in Nat /\ Len(q) >= 1 /\ Len(r) = Len(q) - 1
      /\ \A i \in 1 .. Len(q) - 1 : r[i] = q[i + 1]
      /\ \A i \in 1 .. Len(q) : q[i] \in Nat
  BY TailFacts
<1> HIDE DEF r
<1>2. r = <<>> <=> Len(r) = 0
  BY <1>1, EmptyFacts
<1>3. q[1] \in Nat /\ q[1] >= lo /\ q[1] <= hi
  BY <1>1 DEF Run
<1>4. r # <<>> => r[1] = q[1] + AddValue /\ r[Len(r)] = hi
  <2> SUFFICES ASSUME r # <<>> PROVE r[1] = q[1] + AddValue /\ r[Len(r)] = hi
    OBVIOUS
  <2>1. Len(q) >= 2 /\ 1 \in 1 .. Len(q) - 1 /\ Len(r) \in 1 .. Len(q) - 1
    BY <1>1, <1>2
  <2>2. q[1 + 1] = q[1] + AddValue /\ q[Len(q)] = hi
    BY <2>1 DEF Run
  <2>3. r[1] = q[1 + 1] /\ r[Len(r)] = q[Len(r) + 1] /\ Len(r) + 1 = Len(q)
    BY <1>1, <2>1, SMTT(30)
  <2> QED BY <2>2, <2>3
<1>5. r = <<>> => q[1] = hi
  <2>1. r = <<>> => Len(q) = 1
    BY <1>1, <1>2
  <2>2. q[Len(q)] = hi
    BY DEF Run
  <2> QED BY <2>1, <2>2
<1>6. \A i \in 1 .. Len(r) : r[i] <= hi
  <2> SUFFICES ASSUME NEW i \in 1 .. Len(r) PROVE r[i] <= hi
    OBVIOUS
  <2>1. i \in 1 .. Len(q) - 1 /\ i + 1 \in 1 .. Len(q)
    BY <1>1
  <2>2. q[i + 1] <= hi
    BY <2>1 DEF Run
  <2> QED BY <1>1, <2>1, <2>2
<1>7. ASSUME NEW i \in 1 .. Len(r) - 1 PROVE r[i + 1] = r[i] + AddValue
  <2>1. i \in 1 .. Len(q) - 1 /\ i + 1 \in 1 .. Len(q) - 1
    BY <1>1
  <2>2. q[(i + 1) + 1] = q[i + 1] + AddValue
    BY <2>1 DEF Run
  <2> QED BY <1>1, <2>1, <2>2
<1>8. Run(r, q[1] + AddValue, hi)
  BY <1>3, <1>4, <1>6, <1>7 DEF Run
<1> QED BY <1>3, <1>4, <1>5, <1>8 DEF r

\* The window after a DATA cell has been charged to it.
LEMMA ChargedFacts ==
  ASSUME NEW h \in Hops, snd[h] \in WindowType, marshalled[h] \in Nat
  PROVE  /\ Charged(h) \in WindowType
         /\ Charged(h).v = snd[h].v - 1
         /\ Charged(h).trigged =
              IF Phase(snd[h].v - 1) = 0 /\ Len(snd[h].trigged) < Capacity
                THEN Append(snd[h].trigged, marshalled[h] + 1) ELSE snd[h].trigged
<1> DEFINE w == SetDigest(snd[h], marshalled[h] + 1)
<1>1. /\ w \in WindowType /\ w.v = snd[h].v
      /\ w.digest = marshalled[h] + 1 /\ w.trigged = snd[h].trigged
  <2>1. marshalled[h] + 1 \in Nat
    OBVIOUS
  <2> QED BY <2>1, SetDigestFacts
<1>2. Charged(h) = Subtract(w, 1)
  BY DEF Charged
<1> HIDE DEF w
<1> QED BY <1>1, <1>2, SubtractOne

LEMMA InitInv == Init => IInv
<1> SUFFICES ASSUME Init PROVE IInv
  OBVIOUS
<1>1. NewWindow \in WindowType /\ NewWindow.v = StartValue /\ NewWindow.trigged = <<>>
  BY NewWindowType DEF NewWindow
<1>2. TypeOK
  BY <1>1 DEF Init, TypeOK, PerHop, NoCell
<1>3. WriterShape
  BY DEF Init, WriterShape
<1>4. \A h \in Hops : Ledger(h) /\ InFlight(h)
  BY <1>1 DEF Init, Ledger, InFlight, Holding, NoCell
<1>5. \A h \in Hops : Room(h) /\ Chain(h) /\ granted[h] <= sent[h] /\ Aligned(h)
  <2> SUFFICES ASSUME NEW h \in Hops
               PROVE  Room(h) /\ Chain(h) /\ granted[h] <= sent[h] /\ Aligned(h)
    OBVIOUS
  <2>1. /\ snd[h].trigged = <<>> /\ snd[h].v = StartValue /\ sendMe[h] = 0
        /\ marshalled[h] = 0 /\ granted[h] = 0 /\ sent[h] = 0
    BY <1>1 DEF Init
  <2>2. LastTrigger(h) = 0
    BY <2>1, UnitsStart DEF LastTrigger, Since
  <2>3. Room(h)
    <3>1. Len(snd[h].trigged) = 0
      BY <2>1
    <3> QED BY <2>1, <3>1, UnitsStart DEF Room
  <2>4. Run(<<>>, AddValue, 0)
    BY DEF Run
  <2>5. granted[h] + AddValue = AddValue
    BY <2>1
  <2> QED BY <2>1, <2>2, <2>3, <2>4, <2>5 DEF Chain, Aligned
<1>6. ~SendMeFailed
  BY DEF Init, SendMeFailed
<1> QED BY <1>2, <1>3, <1>4, <1>5, <1>6 DEF IInv

\* Steps that leave windows, counters and the writer alone.
LEMMA QueueStep ==
  ASSUME IInv, TypeOK', WriterShape',
         UNCHANGED <<snd, sendMe, writer, marshalled, sent, granted, acked, seen>>,
         ~SendMeFailed => ~SendMeFailed'
  PROVE  IInv'
BY DEF IInv, Ledger, Holding, InFlight, Room, Chain, Aligned, LastTrigger, SendMeFailed

LEMMA OfferStep ==
  ASSUME IInv, NEW d \in Dsts, NEW g \in Nat, OfferData(d) \/ OfferSendMe(d, g)
  PROVE  IInv'
<1>1. [dst |-> d, cmd |-> "DATA", digest |-> NoDigest] \in RelayOut
  BY DEF RelayOut, NoDigest
<1>2. [dst |-> d, cmd |-> "SENDME", digest |-> g] \in RelayOut
  BY DEF RelayOut
<1>3. writeRelayCell' \in Seq(RelayOut) /\ Len(writeRelayCell') <= QueueCap
  <2>1. PICK cell \in RelayOut : Enqueue(cell)
    BY <1>1, <1>2 DEF OfferData, OfferSendMe
  <2>2. writeRelayCell \in Seq(RelayOut)
    BY DEF IInv, TypeOK
  <2> QED BY <2>1, <2>2 DEF Enqueue
<1>4. offered' \in PerHop(0 .. MaxData)
  <2>1. offered \in [Hops -> 0 .. MaxData]
    BY DEF IInv, TypeOK, PerHop
  <2>2. CASE d \in Hops /\ OfferData(d)
    <3>1. offered[d] \in 0 .. MaxData /\ offered[d] < MaxData
      BY <2>1, <2>2 DEF OfferData
    <3>2. offered[d] + 1 \in 0 .. MaxData
      BY <3>1
    <3>3. offered' = [offered EXCEPT ![d] = offered[d] + 1]
      BY <2>2 DEF OfferData
    <3> QED BY <2>1, <3>2, <3>3 DEF PerHop
  <2>3. CASE ~(d \in Hops /\ OfferData(d))
    <3>1. offered' = offered
      BY <2>3 DEF OfferData, OfferSendMe
    <3> QED BY <2>1, <3>1 DEF PerHop
  <2> QED BY <2>2, <2>3
<1>5. TypeOK'
  BY <1>3, <1>4 DEF IInv, TypeOK, OfferData, OfferSendMe, relayVars
<1>6. WriterShape' /\ (~SendMeFailed => ~SendMeFailed')
  BY DEF IInv, WriterShape, Holding, OfferData, OfferSendMe, SendMeFailed
<1> QED BY <1>5, <1>6, QueueStep DEF OfferData, OfferSendMe, relayVars

LEMMA QuietStep ==
  ASSUME IInv, ReaderExit \/ CloseCircuit
  PROVE  IInv'
<1>1. TypeOK'
  BY DEF IInv, TypeOK, ReaderExit, CloseCircuit, relayVars
<1>2. WriterShape' /\ (~SendMeFailed => ~SendMeFailed')
  BY DEF IInv, WriterShape, Holding, ReaderExit, CloseCircuit, SendMeFailed
<1> QED BY <1>1, <1>2, QueueStep DEF ReaderExit, CloseCircuit, relayVars

LEMMA RelayAckStep ==
  ASSUME IInv, NEW h \in Hops, RelayAck(h)
  PROVE  IInv'
<1>1. acked' \in [Hops -> Nat] /\ \A g \in Hops : acked[g] <= acked'[g] /\ acked'[g] <= sent[g]
  <2>1. acked \in [Hops -> Nat] /\ sent \in [Hops -> Nat]
    BY DEF IInv, TypeOK, PerHop
  <2>2. acked' = [acked EXCEPT ![h] = acked[h] + AddValue] /\ acked[h] + AddValue <= sent[h]
    BY DEF RelayAck
  <2>3. \A g \in Hops : acked[g] <= sent[g]
    BY DEF IInv, InFlight
  <2> QED BY <2>1, <2>2, <2>3
<1>2. UNCHANGED <<writeRelayCell, offered, snd, sendMe, writer, reader, cause,
                  marshalled, sent, granted, seen>>
  BY DEF RelayAck, clientVars
<1>3. TypeOK'
  BY <1>1, <1>2 DEF IInv, TypeOK, PerHop
<1>4. WriterShape'
  BY <1>2 DEF IInv, WriterShape, Holding
<1>5. \A g \in Hops : Ledger(g)' /\ InFlight(g)'
  <2> SUFFICES ASSUME NEW g \in Hops PROVE Ledger(g)' /\ InFlight(g)'
    OBVIOUS
  <2>1. Ledger(g) /\ InFlight(g) /\ seen[g] \in Nat /\ acked[g] \in Nat /\ acked'[g] \in Nat
    BY <1>1 DEF IInv, TypeOK, PerHop
  <2>2. Ledger(g)'
    BY <1>2, <2>1 DEF Ledger, Holding
  <2>3. InFlight(g)'
    BY <1>1, <1>2, <2>1 DEF InFlight
  <2> QED BY <2>2, <2>3
<1>6. SendMeVersion = 1 =>
        \A g \in Hops : Room(g)' /\ Chain(g)' /\ granted'[g] <= sent'[g] /\ (g \in Honest => Aligned(g)')
  BY <1>2 DEF IInv, Room, Chain, Aligned, LastTrigger
<1>7. (Honest = Hops => ~SendMeFailed)'
  BY <1>2 DEF IInv, SendMeFailed
<1> QED BY <1>3, <1>4, <1>5, <1>6, <1>7 DEF IInv

LEMMA WriterExitStep ==
  ASSUME IInv, WriterExit
  PROVE  IInv'
<1>1. /\ UNCHANGED <<writeRelayCell, offered, snd, sendMe, reader, cause, marshalled, sent,
                     granted, acked, seen>>
      /\ writer' = [writer EXCEPT !.pc = "done"]
  BY DEF WriterExit, relayVars
<1>2. writer'.cell = writer.cell /\ writer'.pc = "done" /\ TypeOK'
  BY <1>1 DEF IInv, TypeOK
<1>3. WriterShape'
  BY <1>2 DEF WriterShape
<1>4. \A g \in Hops : Ledger(g)' /\ InFlight(g)'
  BY <1>1, <1>2 DEF IInv, Ledger, InFlight, Holding
<1>5. SendMeVersion = 1 =>
        \A g \in Hops : Room(g)' /\ Chain(g)' /\ granted'[g] <= sent'[g] /\ (g \in Honest => Aligned(g)')
  BY <1>1 DEF IInv, Room, Chain, Aligned, LastTrigger
<1>6. (Honest = Hops => ~SendMeFailed)'
  BY <1>1 DEF IInv, SendMeFailed
<1> QED BY <1>2, <1>3, <1>4, <1>5, <1>6 DEF IInv

LEMMA WriterSendStep ==
  ASSUME IInv, WriterSend
  PROVE  IInv'
<1> DEFINE d == writer.cell.dst
<1>1. /\ UNCHANGED <<writeRelayCell, offered, snd, sendMe, reader, cause, marshalled,
                     granted, acked, seen>>
      /\ writer' = [pc |-> "idle", cell |-> NoCell]
      /\ writer.pc = "send" /\ d \in Hops
  BY DEF WriterSend, relayVars, IInv, WriterShape
<1>2. sent \in [Hops -> Nat]
  BY DEF IInv, TypeOK, PerHop
<1>3. /\ sent' \in [Hops -> Nat]
      /\ \A g \in Hops : sent'[g] = sent[g] + (IF Holding(g) THEN 1 ELSE 0)
  <2>1. CASE writer.cell.cmd = "DATA"
    <3>1. sent' = [sent EXCEPT ![d] = sent[d] + 1]
      BY <2>1 DEF WriterSend
    <3>2. \A g \in Hops : Holding(g) <=> g = d
      BY <1>1, <2>1 DEF Holding
    <3> HIDE DEF d
    <3> QED BY <1>1, <1>2, <3>1, <3>2
  <2>2. CASE writer.cell.cmd # "DATA"
    <3>1. sent' = sent
      BY <2>2 DEF WriterSend
    <3> QED BY <1>1, <1>2, <2>2, <3>1 DEF Holding
  <2> QED BY <2>1, <2>2
<1>4. \A g \in Hops : ~Holding(g)'
  BY <1>1 DEF Holding, NoCell
<1>5. TypeOK'
  BY <1>1, <1>3, ZenonT(30) DEF IInv, TypeOK, PerHop
<1>6. WriterShape'
  BY <1>1 DEF WriterShape
<1>7. \A g \in Hops : Ledger(g)' /\ InFlight(g)' /\ sent[g] <= sent'[g]
  <2> SUFFICES ASSUME NEW g \in Hops PROVE Ledger(g)' /\ InFlight(g)' /\ sent[g] <= sent'[g]
    OBVIOUS
  <2>1. /\ Ledger(g) /\ InFlight(g) /\ sent[g] \in Nat /\ acked[g] \in Nat
        /\ marshalled[g] \in Nat
    BY DEF IInv, TypeOK, PerHop
  <2>2. sent'[g] = sent[g] + (IF Holding(g) THEN 1 ELSE 0) /\ ~Holding(g)'
    BY <1>3, <1>4
  <2>3. Ledger(g)'
    BY <1>1, <2>1, <2>2 DEF Ledger
  <2>4. InFlight(g)' /\ sent[g] <= sent'[g]
    BY <1>1, <2>1, <2>2 DEF InFlight
  <2> QED BY <2>3, <2>4
<1>8. SendMeVersion = 1 =>
        \A g \in Hops : Room(g)' /\ Chain(g)' /\ granted'[g] <= sent'[g] /\ (g \in Honest => Aligned(g)')
  <2> SUFFICES ASSUME SendMeVersion = 1, NEW g \in Hops
               PROVE Room(g)' /\ Chain(g)' /\ granted'[g] <= sent'[g] /\ (g \in Honest => Aligned(g)')
    OBVIOUS
  <2>1. Room(g)' /\ Chain(g)' /\ (g \in Honest => Aligned(g)')
    BY <1>1 DEF IInv, Room, Chain, Aligned, LastTrigger
  <2>2. granted[g] \in Nat /\ sent[g] \in Nat /\ granted[g] <= sent[g]
    BY DEF IInv, TypeOK, PerHop
  <2> QED BY <1>1, <1>3, <1>7, <2>1, <2>2
<1>9. (Honest = Hops => ~SendMeFailed)'
  BY <1>1 DEF IInv, SendMeFailed
<1> QED BY <1>5, <1>6, <1>7, <1>8, <1>9 DEF IInv

LEMMA WriterRestoreStep ==
  ASSUME IInv, WriterRestore
  PROVE  IInv'
<1> DEFINE d == writer.cell.dst
<1>1. /\ UNCHANGED <<writeRelayCell, offered, reader, cause, marshalled, sent, granted, acked, seen>>
      /\ writer.pc = "waitSendMe" /\ d \in Hops /\ sendMe[d] = 1
      /\ writer.cell \in RelayOut /\ Holding(d)
      /\ sendMe' = [sendMe EXCEPT ![d] = 0]
      /\ snd' = [snd EXCEPT ![d] = Increase(snd[d])]
      /\ writer' = [writer EXCEPT !.pc = "send"]
  BY DEF WriterRestore, relayVars, IInv, WriterShape
<1>2. snd \in [Hops -> WindowType] /\ sendMe \in [Hops -> {0, 1}]
  BY DEF IInv, TypeOK, PerHop
<1>3. /\ Increase(snd[d]) \in WindowType /\ Increase(snd[d]).v = snd[d].v + AddValue
      /\ Increase(snd[d]).trigged = snd[d].trigged
  BY <1>1, <1>2, IncreaseFacts
<1>4. snd' \in [Hops -> WindowType] /\ sendMe' \in [Hops -> {0, 1}]
  <2> HIDE DEF d
  <2> QED BY <1>1, <1>2, <1>3
<1>5. writer'.cell = writer.cell /\ writer'.pc = "send" /\ writer' \in
        [pc : {"idle", "waitSendMe", "send", "done"}, cell : RelayOut \cup {NoCell}]
  BY <1>1 DEF IInv, TypeOK
<1>6. \A g \in Hops : Holding(g)' <=> Holding(g)
  BY <1>5 DEF Holding
<1>7. TypeOK'
  BY <1>1, <1>4, <1>5 DEF IInv, TypeOK, PerHop
<1>8. WriterShape'
  BY <1>1, <1>5 DEF WriterShape
<1>9. ASSUME NEW g \in Hops
      PROVE  /\ Ledger(g)' /\ InFlight(g)'
             /\ SendMeVersion = 1 =>
                  Room(g)' /\ Chain(g)' /\ granted'[g] <= sent'[g] /\ (g \in Honest => Aligned(g)')
  <2>1. /\ Ledger(g) /\ InFlight(g)
        /\ SendMeVersion = 1 =>
             Room(g) /\ Chain(g) /\ granted[g] <= sent[g] /\ (g \in Honest => Aligned(g))
        /\ snd[g].v \in Int /\ marshalled[g] \in Nat /\ granted[g] \in Nat
        /\ Len(snd[g].trigged) \in Nat
    BY <1>2 DEF IInv, TypeOK, PerHop, WindowType
  <2>2. CASE g = d
    <3>1. /\ snd'[g].v = snd[g].v + AddValue /\ snd'[g].trigged = snd[g].trigged
          /\ sendMe[g] = 1 /\ sendMe'[g] = 0
      BY <1>1, <1>2, <1>3, <2>2
    <3>2. Ledger(g)'
      <4>1. /\ marshalled'[g] = sent'[g] + (IF Holding(g)' THEN 1 ELSE 0)
            /\ snd'[g].v >= 0 /\ snd'[g].v # 0
        BY <1>1, <1>6, <2>1, <3>1, SMTT(30) DEF Ledger
      <4>2. snd'[g].v + marshalled'[g] + (IF sendMe'[g] = 1 THEN AddValue ELSE 0)
              <= StartValue + granted'[g]
        <5>1. snd[g].v + marshalled[g] + AddValue <= StartValue + granted[g]
          BY <2>1, <3>1 DEF Ledger
        <5>2. marshalled'[g] = marshalled[g] /\ granted'[g] = granted[g]
          BY <1>1
        <5> QED BY <2>1, <3>1, <5>1, <5>2
      <4> QED BY <4>1, <4>2 DEF Ledger
    <3>3. InFlight(g)'
      BY <1>1, <2>1 DEF InFlight
    <3>4. Since(snd'[g].v) = Since(snd[g].v)
      BY <2>1, <3>1, PhaseIncrease DEF Since
    <3>5. SendMeVersion = 1 => Chain(g)' /\ granted'[g] <= sent'[g] /\ (g \in Honest => Aligned(g)')
      BY <1>1, <2>1, <3>1, <3>4 DEF Chain, Aligned, LastTrigger
    <3>6. SendMeVersion = 1 => Room(g)'
      <4>1. Units(snd'[g].v) = Units(snd[g].v) + 1 /\ Units(snd[g].v) \in Int /\ Capacity \in Int
        BY <2>1, <3>1, UnitsIncrease, UnitsType, UnitsStart
      <4> QED BY <2>1, <3>1, <4>1 DEF Room
    <3> QED BY <3>2, <3>3, <3>5, <3>6
  <2>3. CASE g # d
    <3>1. snd'[g] = snd[g] /\ sendMe'[g] = sendMe[g]
      BY <1>1, <1>2, <2>3
    <3>2. ~Holding(g)
      BY <1>1, <2>3 DEF Holding
    <3>3. Ledger(g)'
      BY <1>1, <1>6, <2>1, <3>1, <3>2 DEF Ledger
    <3> QED BY <1>1, <2>1, <3>1, <3>3 DEF InFlight, Room, Chain, Aligned, LastTrigger
  <2> QED BY <2>2, <2>3
<1>10. (Honest = Hops => ~SendMeFailed)'
  BY <1>1 DEF IInv, SendMeFailed
<1> QED BY <1>7, <1>8, <1>9, <1>10 DEF IInv

\* The cell that writeLoop takes.
LEMMA TakenCell ==
  ASSUME IInv, WriterTake
  PROVE  /\ Head(writeRelayCell) \in RelayOut
         /\ writeRelayCell' \in Seq(RelayOut) /\ Len(writeRelayCell') <= QueueCap
         /\ writer.cell = NoCell /\ \A g \in Hops : ~Holding(g)
         /\ UNCHANGED <<offered, sendMe, reader, sent, granted, acked, seen>>
<1>1. writeRelayCell \in Seq(RelayOut) /\ Len(writeRelayCell) <= QueueCap /\ writeRelayCell # <<>>
  BY DEF IInv, TypeOK, WriterTake
<1>2. writeRelayCell' = Tail(writeRelayCell)
  BY DEF WriterTake
<1>3. writer.cell = NoCell
  BY DEF IInv, WriterShape, WriterTake
<1>4. \A g \in Hops : ~Holding(g)
  BY <1>3 DEF Holding, NoCell
<1>5. UNCHANGED <<offered, sendMe, reader, sent, granted, acked, seen>>
  BY DEF WriterTake, relayVars
<1> QED BY <1>1, <1>2, <1>3, <1>4, <1>5

\* A cell that is charged to no window.
LEMMA TakeOtherStep ==
  ASSUME IInv, WriterTake,
         ~(Head(writeRelayCell).dst \in Hops /\ Head(writeRelayCell).cmd = "DATA")
  PROVE  IInv'
<1> DEFINE cell == Head(writeRelayCell)
<1>1. /\ UNCHANGED <<offered, sendMe, reader, sent, granted, acked, seen>>
      /\ cell \in RelayOut
      /\ writeRelayCell' \in Seq(RelayOut) /\ Len(writeRelayCell') <= QueueCap
      /\ writer.cell = NoCell /\ \A g \in Hops : ~Holding(g)
  BY TakenCell
<1>2. UNCHANGED <<snd, marshalled>>
  BY DEF WriterTake
<1>3. /\ writer' \in [pc : {"idle", "waitSendMe", "send", "done"}, cell : RelayOut \cup {NoCell}]
      /\ WriterShape'
      /\ \A g \in Hops : ~Holding(g)'
  <2>1. CASE cell.dst \notin Hops
    <3>1. writer' = [writer EXCEPT !.pc = "done"]
      BY <2>1 DEF WriterTake
    <3>2. writer'.pc = "done" /\ writer'.cell = NoCell
      BY <1>1, <3>1 DEF IInv, TypeOK
    <3>3. writer' \in [pc : {"idle", "waitSendMe", "send", "done"}, cell : RelayOut \cup {NoCell}]
      BY <3>1 DEF IInv, TypeOK
    <3> QED BY <3>2, <3>3 DEF WriterShape, Holding, NoCell
  <2>2. CASE cell.dst \in Hops
    <3>1. writer' = [pc |-> "send", cell |-> cell] /\ cell.cmd # "DATA"
      BY <2>2 DEF WriterTake
    <3> QED BY <1>1, <2>2, <3>1 DEF WriterShape, Holding
  <2> QED BY <2>1, <2>2
<1>4. cause' \in {cause, "encrypt"} /\ (cause' # cause => cause' = "encrypt")
  BY DEF WriterTake, Cancelled
<1>5. TypeOK'
  BY <1>1, <1>2, <1>3, <1>4 DEF IInv, TypeOK, PerHop
<1>6. ASSUME NEW g \in Hops
      PROVE  /\ Ledger(g)' /\ InFlight(g)'
             /\ SendMeVersion = 1 =>
                  Room(g)' /\ Chain(g)' /\ granted'[g] <= sent'[g] /\ (g \in Honest => Aligned(g)')
  <2>1. /\ Ledger(g) /\ InFlight(g)
        /\ SendMeVersion = 1 =>
             Room(g) /\ Chain(g) /\ granted[g] <= sent[g] /\ (g \in Honest => Aligned(g))
    BY DEF IInv
  <2>2. Ledger(g)'
    BY <1>1, <1>2, <1>3, <2>1 DEF Ledger
  <2> QED BY <1>1, <1>2, <2>1, <2>2 DEF InFlight, Room, Chain, Aligned, LastTrigger
<1>7. (Honest = Hops => ~SendMeFailed)'
  BY <1>4 DEF IInv, SendMeFailed
<1> QED BY <1>3, <1>5, <1>6, <1>7 DEF IInv

\* A DATA cell: charged, and held until the window allows it to go.
LEMMA TakeDataStep ==
  ASSUME IInv, WriterTake,
         Head(writeRelayCell).dst \in Hops, Head(writeRelayCell).cmd = "DATA"
  PROVE  IInv'
<1> DEFINE cell == Head(writeRelayCell)
           d == cell.dst
<1>1. /\ UNCHANGED <<offered, sendMe, reader, sent, granted, acked, seen>>
      /\ cell \in RelayOut
      /\ writeRelayCell' \in Seq(RelayOut) /\ Len(writeRelayCell') <= QueueCap
      /\ writer.cell = NoCell /\ \A g \in Hops : ~Holding(g)
  BY TakenCell
<1>2. /\ marshalled' = [marshalled EXCEPT ![d] = marshalled[d] + 1]
      /\ snd' = [snd EXCEPT ![d] = Charged(d)]
      /\ writer' = [pc |-> IF IsZero(Charged(d)) THEN "waitSendMe" ELSE "send", cell |-> cell]
      /\ cause' = cause
      /\ writer.pc = "idle"
  BY DEF WriterTake
<1>3. snd \in [Hops -> WindowType] /\ marshalled \in [Hops -> Nat]
  BY DEF IInv, TypeOK, PerHop
<1>4. /\ Charged(d) \in WindowType
      /\ Charged(d).v = snd[d].v - 1
      /\ Charged(d).trigged =
           IF Phase(snd[d].v - 1) = 0 /\ Len(snd[d].trigged) < Capacity
             THEN Append(snd[d].trigged, marshalled[d] + 1) ELSE snd[d].trigged
  <2>1. d \in Hops /\ snd[d] \in WindowType /\ marshalled[d] \in Nat
    BY <1>3
  <2> HIDE DEF d
  <2> QED BY <2>1, ChargedFacts
<1>5. /\ snd' \in [Hops -> WindowType] /\ marshalled' \in [Hops -> Nat]
      /\ snd'[d] = Charged(d) /\ marshalled'[d] = marshalled[d] + 1
      /\ \A g \in Hops : g # d => snd'[g] = snd[g] /\ marshalled'[g] = marshalled[g]
  <2>1. d \in Hops
    OBVIOUS
  <2> HIDE DEF d
  <2> QED BY <1>2, <1>3, <1>4, <2>1
<1>6. /\ writer' \in [pc : {"idle", "waitSendMe", "send", "done"}, cell : RelayOut \cup {NoCell}]
      /\ \A g \in Hops : Holding(g)' <=> g = d
      /\ writer'.pc = IF Charged(d).v <= 0 THEN "waitSendMe" ELSE "send"
  BY <1>1, <1>2 DEF Holding, IsZero
<1>7. WriterShape'
  BY <1>1, <1>2, <1>6 DEF WriterShape
<1>8. TypeOK'
  <2>1. /\ offered' \in PerHop(0 .. MaxData) /\ sendMe' \in PerHop({0, 1})
        /\ reader' \in {"running", "done"}
        /\ cause' \in {"none", "closed", "destroyed", "encrypt", "version", "mismatch", "unexpected"}
    BY <1>1, <1>2 DEF IInv, TypeOK, PerHop
  <2>2. \A f \in {sent', granted', acked', seen'} : f \in PerHop(Nat)
    BY <1>1 DEF IInv, TypeOK, PerHop
  <2>3. snd' \in PerHop(WindowType) /\ marshalled' \in PerHop(Nat)
    BY <1>5 DEF PerHop
  <2> QED BY <1>1, <1>6, <2>1, <2>2, <2>3, ZenonT(30) DEF TypeOK, PerHop
<1>9. ASSUME NEW g \in Hops
      PROVE  /\ Ledger(g)' /\ InFlight(g)'
             /\ SendMeVersion = 1 =>
                  Room(g)' /\ Chain(g)' /\ granted'[g] <= sent'[g] /\ (g \in Honest => Aligned(g)')
  <2>1. /\ Ledger(g) /\ InFlight(g)
        /\ SendMeVersion = 1 =>
             Room(g) /\ Chain(g) /\ granted[g] <= sent[g] /\ (g \in Honest => Aligned(g))
        /\ snd[g].v \in Int /\ marshalled[g] \in Nat /\ granted[g] \in Nat /\ sent[g] \in Nat
        /\ snd[g].trigged \in Seq(Nat) /\ sendMe[g] \in {0, 1}
    BY <1>3 DEF IInv, TypeOK, PerHop, WindowType
  <2>2. InFlight(g)'
    BY <1>1, <2>1 DEF InFlight
  <2>3. CASE g # d
    <3>1. snd'[g] = snd[g] /\ marshalled'[g] = marshalled[g] /\ ~Holding(g) /\ ~Holding(g)'
      BY <1>1, <1>5, <1>6, <2>3
    <3>2. Ledger(g)'
      BY <1>1, <2>1, <3>1 DEF Ledger
    <3> QED BY <1>1, <2>1, <2>2, <3>1, <3>2 DEF Room, Chain, Aligned, LastTrigger
  <2>4. CASE g = d
    <3> DEFINE v == snd[g].v
               q == snd[g].trigged
    <3>1. /\ snd'[g].v = v - 1 /\ marshalled'[g] = marshalled[g] + 1 /\ ~Holding(g) /\ Holding(g)'
          /\ snd'[g].trigged = IF Phase(v - 1) = 0 /\ Len(q) < Capacity
                                 THEN Append(q, marshalled[g] + 1) ELSE q
      BY <1>1, <1>4, <1>5, <1>6, <2>4
    <3>2. v >= 1 /\ (v - 1 = 0 => writer'.pc = "waitSendMe")
      <4>1. v >= 0 /\ v # 0
        BY <1>2, <2>1 DEF Ledger
      <4> QED BY <1>4, <1>6, <2>1, <2>4, <4>1
    <3>3. Ledger(g)'
      <4>1. /\ marshalled[g] = sent[g] /\ v + marshalled[g] + (IF sendMe[g] = 1 THEN AddValue ELSE 0)
                                           <= StartValue + granted[g]
            /\ sent'[g] = sent[g] /\ granted'[g] = granted[g] /\ sendMe'[g] = sendMe[g]
        BY <1>1, <2>1, <3>1 DEF Ledger
      <4>2. snd'[g].v + marshalled'[g] = v + marshalled[g]
        <5>1. snd'[g].v = v - 1 /\ marshalled'[g] = marshalled[g] + 1 /\ v \in Int /\ marshalled[g] \in Nat
          BY <2>1, <3>1
        <5> HIDE DEF v
        <5> QED BY <5>1
      <4>3. snd'[g].v >= 0 /\ (snd'[g].v = 0 => writer'.pc = "waitSendMe")
        <5>1. snd'[g].v = v - 1 /\ v \in Int /\ v >= 1
          BY <2>1, <3>1, <3>2
        <5> QED BY <3>2, <5>1
      <4> QED BY <3>1, <4>1, <4>2, <4>3 DEF Ledger
    <3>4. ASSUME SendMeVersion = 1
          PROVE  Room(g)' /\ Chain(g)' /\ granted'[g] <= sent'[g] /\ (g \in Honest => Aligned(g)')
      <4> DEFINE q2 == snd'[g].trigged
      <4>1. /\ Room(g) /\ Chain(g) /\ granted[g] <= sent[g] /\ (g \in Honest => Aligned(g))
            /\ Units(v) \in Int /\ Units(v - 1) \in Int /\ Units(v - 1) >= 0
            /\ Capacity \in Int /\ Len(q) \in Nat
        <5>1. v \in Int /\ v - 1 \in Int /\ v - 1 >= 0
          BY <2>1, <3>2
        <5>2. Units(v) \in Int /\ Units(v - 1) \in Int /\ Units(v - 1) >= 0
          <6> HIDE DEF v
          <6> QED BY <5>1, UnitsType
        <5> QED BY <2>1, <3>4, <5>2, UnitsStart
      <4>2. /\ Since(v) \in Int /\ Since(v - 1) \in Int
            /\ Phase(v - 1) = 0 => Since(v - 1) = 0 /\ Since(v) = AddValue - 1
            /\ Phase(v - 1) # 0 => Since(v - 1) = Since(v) + 1
        <5>1. v \in Int /\ v - 1 \in Int
          BY <2>1
        <5> HIDE DEF v
        <5>2. Since(v) \in Int /\ Since(v - 1) \in Int
          BY <5>1, PhaseType DEF Since
        <5> QED BY <5>1, <5>2, SinceDecrease
      <4>3. CASE Phase(v - 1) # 0
        <5>1. q2 = q /\ Units(v - 1) = Units(v)
          BY <2>1, <3>1, <4>3, UnitsDecrease
        <5>2. LastTrigger(g)' = LastTrigger(g)
          BY <2>1, <3>1, <4>2, <4>3, SMTT(30) DEF LastTrigger
        <5>3. Room(g)'
          BY <1>1, <3>1, <4>1, <5>1 DEF Room
        <5> QED BY <1>1, <4>1, <5>1, <5>2, <5>3 DEF Chain, Aligned
      <4>4. CASE Phase(v - 1) = 0
        <5>1. Units(v - 1) = Units(v) - 1
          BY <2>1, <4>4, UnitsDecrease
        <5>2. Len(q) < Capacity
          BY <2>1, <4>1, <5>1 DEF Room
        <5>3. /\ q2 = Append(q, marshalled[g] + 1) /\ Len(q2) = Len(q) + 1
              /\ q2[Len(q2)] = marshalled[g] + 1 /\ \A i \in 1 .. Len(q) : q2[i] = q[i]
          BY <2>1, <3>1, <4>4, <5>2
        <5>4. LastTrigger(g)' = marshalled[g] + 1 /\ LastTrigger(g)' = LastTrigger(g) + AddValue
          BY <2>1, <3>1, <4>2, <4>4 DEF LastTrigger
        <5>5. Room(g)'
          BY <1>1, <2>1, <3>1, <4>1, <5>1, <5>3 DEF Room
        <5>6. Chain(g)'
          <6>1. /\ LastTrigger(g) >= granted[g] /\ LastTrigger(g) \in Int
                /\ Run(q, granted[g] + AddValue, LastTrigger(g))
            BY <2>1, <4>1, <4>2 DEF Chain, LastTrigger
          <6>2. marshalled[g] + 1 = LastTrigger(g) + AddValue
            BY <5>4
          <6>3. Run(q2, granted[g] + AddValue, LastTrigger(g) + AddValue)
            <7> HIDE DEF q, q2
            <7>1. q \in Seq(Nat)
              BY <2>1 DEF q
            <7>2. LastTrigger(g) + AddValue \in Nat /\ granted[g] + AddValue \in Int
              BY <2>1, <6>2
            <7>3. LastTrigger(g) + AddValue >= granted[g] + AddValue
              BY <2>1, <6>1
            <7> QED BY <5>3, <6>1, <6>2, <7>1, <7>2, <7>3, RunAppend
          <6>4. granted'[g] = granted[g] /\ LastTrigger(g)' >= granted[g]
            BY <1>1, <2>1, <5>4, <6>1
          <6> QED BY <5>4, <6>3, <6>4 DEF Chain
        <5>7. g \in Honest => Aligned(g)'
          <6>1. granted'[g] = granted[g] /\ q2 # <<>>
            <7>1. Len(q2) # 0
              BY <4>1, <5>3
            <7>2. q2 = <<>> => Len(q2) = 0
              <8> HIDE DEF q2
              <8> QED OBVIOUS
            <7> QED BY <1>1, <7>1, <7>2
          <6>2. CASE q = <<>>
            <7>1. g \in Honest => LastTrigger(g) = granted[g]
              BY <4>1, <6>2 DEF Aligned
            <7>2. q2[1] = LastTrigger(g) + AddValue
              BY <5>3, <5>4, <6>2
            <7> QED BY <6>1, <7>1, <7>2 DEF Aligned
          <6>3. CASE q # <<>>
            <7>1. g \in Honest => q[1] = granted[g] + AddValue
              BY <4>1, <6>3 DEF Aligned
            <7>2. q2[1] = q[1]
              BY <2>1, <5>3, <6>3
            <7> QED BY <6>1, <7>1, <7>2 DEF Aligned
          <6> QED BY <6>2, <6>3
        <5> QED BY <1>1, <4>1, <5>5, <5>6, <5>7
      <4> QED BY <4>3, <4>4
    <3> QED BY <2>2, <3>3, <3>4
  <2> QED BY <2>3, <2>4
<1>10. (Honest = Hops => ~SendMeFailed)'
  BY <1>2 DEF IInv, SendMeFailed
<1> QED BY <1>7, <1>8, <1>9, <1>10 DEF IInv

-----------------------------------------------------------------------------
(* SENDMEs                                                                 *)

\* The digest that an honest relay sends is the one verifySendMe takes.
LEMMA HonestVerifies ==
  ASSUME IInv, NEW h \in Hops, h \in Honest, seen[h] + AddValue <= acked[h]
  PROVE  /\ VerifyError(h, SendMeVersion, seen[h] + AddValue) = "nil"
         /\ SendMeVersion = 1 => HasDigest(snd[h])
<1>1. CASE SendMeVersion = 0
  BY <1>1 DEF VerifyError
<1>2. CASE SendMeVersion = 1
  <2>1. /\ Chain(h) /\ Aligned(h) /\ seen[h] = granted[h]
        /\ acked[h] <= sent[h] /\ sent[h] <= marshalled[h]
        /\ snd[h] \in WindowType /\ seen[h] \in Nat /\ acked[h] \in Nat /\ sent[h] \in Nat
        /\ marshalled[h] \in Nat
    <3>1. /\ Chain(h) /\ Aligned(h) /\ Ledger(h) /\ InFlight(h)
      BY <1>2 DEF IInv
    <3>2. /\ snd[h] \in WindowType /\ seen[h] \in Nat /\ acked[h] \in Nat /\ sent[h] \in Nat
          /\ marshalled[h] \in Nat
      BY DEF IInv, TypeOK, PerHop
    <3>3. sent[h] <= marshalled[h]
      BY <3>1, <3>2 DEF Ledger
    <3> QED BY <3>1, <3>2, <3>3 DEF InFlight
  <2>2. snd[h].v \in Int /\ snd[h].trigged \in Seq(Nat)
    BY <2>1 DEF WindowType
  <2>3. Since(snd[h].v) \in 0 .. (AddValue - 1)
    <3>1. Phase(snd[h].v) \in 0 .. (AddValue - 1)
      BY <2>2, PhaseType
    <3> QED BY <3>1 DEF Since
  <2>4. snd[h].trigged # <<>>
    <3> SUFFICES ASSUME snd[h].trigged = <<>> PROVE FALSE
      OBVIOUS
    <3>1. LastTrigger(h) = granted[h]
      BY <2>1 DEF Aligned
    <3> QED BY <2>1, <2>3, <3>1 DEF LastTrigger
  <2>5. snd[h].trigged[1] = seen[h] + AddValue
    BY <2>1, <2>4 DEF Aligned
  <2>6. TakenDigest(snd[h]) = seen[h] + AddValue
    BY <2>2, <2>4, <2>5 DEF TakenDigest
  <2> QED BY <1>2, <2>4, <2>6 DEF VerifyError, HasDigest
<1> QED BY <1>1, <1>2

\* The window after verifySendMe: the head of Trigged is gone, or nothing is.
LEMMA VerifiedFacts ==
  ASSUME NEW h \in Hops, snd[h] \in WindowType, NEW version \in {0, 1}
  PROVE  /\ VerifiedWindow(h, version) \in WindowType
         /\ VerifiedWindow(h, version).v = snd[h].v
         /\ IF SendMeVersion = 1 /\ version = 1 /\ HasDigest(snd[h])
              THEN VerifiedWindow(h, version).trigged = Tail(snd[h].trigged)
              ELSE VerifiedWindow(h, version).trigged = snd[h].trigged
BY AfterGetFacts DEF VerifiedWindow

LEMMA SendMeStep ==
  ASSUME IInv, NEW h \in Hops, NEW version \in {0, 1}, NEW digest \in Nat,
         digest <= sent[h], HandleSendMe(h, version, digest),
         \/ /\ h \in Honest /\ version = SendMeVersion
            /\ digest = seen[h] + AddValue /\ digest <= acked[h]
            /\ seen' = [seen EXCEPT ![h] = @ + AddValue]
         \/ h \notin Honest /\ UNCHANGED seen
  PROVE  IInv'
<1> DEFINE ok == VerifyError(h, version, digest) = "nil"
<1>1. /\ UNCHANGED <<writeRelayCell, offered, writer, reader, marshalled, sent, acked>>
      /\ snd' = [snd EXCEPT ![h] = VerifiedWindow(h, version)]
      /\ ok => /\ sendMe' = [sendMe EXCEPT ![h] = 1]
               /\ granted' = [granted EXCEPT ![h] = granted[h] + AddValue]
               /\ cause' = cause
      /\ ~ok => /\ UNCHANGED <<sendMe, granted>>
                /\ cause' \in {cause, VerifyError(h, version, digest)}
  BY DEF HandleSendMe, NotifySendMe, Cancelled
<1>2. /\ snd \in [Hops -> WindowType] /\ sendMe \in [Hops -> {0, 1}]
      /\ granted \in [Hops -> Nat] /\ seen \in [Hops -> Nat] /\ sent \in [Hops -> Nat]
      /\ acked \in [Hops -> Nat] /\ marshalled \in [Hops -> Nat]
  BY DEF IInv, TypeOK, PerHop
<1>3. h \in Honest => ok
  BY HonestVerifies
<1>4. /\ VerifiedWindow(h, version) \in WindowType
      /\ VerifiedWindow(h, version).v = snd[h].v
      /\ IF SendMeVersion = 1 /\ version = 1 /\ HasDigest(snd[h])
           THEN VerifiedWindow(h, version).trigged = Tail(snd[h].trigged)
           ELSE VerifiedWindow(h, version).trigged = snd[h].trigged
  BY <1>2, VerifiedFacts
<1>5. SendMeVersion = 1 /\ ok => version = 1 /\ HasDigest(snd[h]) /\ TakenDigest(snd[h]) = digest
  BY DEF VerifyError
<1>6. /\ snd' \in [Hops -> WindowType] /\ sendMe' \in [Hops -> {0, 1}]
      /\ granted' \in [Hops -> Nat] /\ seen' \in [Hops -> Nat]
  <2> HIDE DEF ok
  <2>1. snd' \in [Hops -> WindowType]
    BY <1>1, <1>2, <1>4
  <2>2. sendMe' \in [Hops -> {0, 1}] /\ granted' \in [Hops -> Nat]
    BY <1>1, <1>2
  <2>3. seen' \in [Hops -> Nat]
    BY <1>2
  <2> QED BY <2>1, <2>2, <2>3
<1>7. cause' \in {cause, "version", "mismatch", "unexpected"} /\ (h \in Honest => cause' = cause)
  <2>1. VerifyError(h, version, digest) \in {"nil", "version", "mismatch", "unexpected"}
    BY DEF VerifyError
  <2> QED BY <1>1, <1>3, <2>1
<1>8. TypeOK'
  <2>1. \A f \in {marshalled', sent', granted', acked', seen'} : f \in PerHop(Nat)
    BY <1>1, <1>2, <1>6 DEF PerHop
  <2>2. cause' \in {"none", "closed", "destroyed", "encrypt", "version", "mismatch", "unexpected"}
    BY <1>7 DEF IInv, TypeOK
  <2>3. /\ writeRelayCell' \in Seq(RelayOut) /\ Len(writeRelayCell') <= QueueCap
        /\ offered' \in PerHop(0 .. MaxData) /\ reader' \in {"running", "done"}
        /\ writer' \in [pc : {"idle", "waitSendMe", "send", "done"}, cell : RelayOut \cup {NoCell}]
    BY <1>1 DEF IInv, TypeOK
  <2>4. snd' \in PerHop(WindowType) /\ sendMe' \in PerHop({0, 1})
    BY <1>6 DEF PerHop
  <2> QED BY <2>1, <2>2, <2>3, <2>4 DEF TypeOK
<1>9. WriterShape'
  BY <1>1 DEF IInv, WriterShape, Holding
<1>10. ASSUME NEW g \in Hops
       PROVE  /\ Ledger(g)' /\ InFlight(g)'
              /\ SendMeVersion = 1 =>
                   Room(g)' /\ Chain(g)' /\ granted'[g] <= sent'[g] /\ (g \in Honest => Aligned(g)')
  <2>1. /\ Ledger(g) /\ InFlight(g)
        /\ SendMeVersion = 1 =>
             Room(g) /\ Chain(g) /\ granted[g] <= sent[g] /\ (g \in Honest => Aligned(g))
    BY DEF IInv
  <2>num. /\ snd[g].v \in Int /\ marshalled[g] \in Nat /\ granted[g] \in Nat /\ sent[g] \in Nat
          /\ seen[g] \in Nat /\ acked[g] \in Nat /\ sendMe[g] \in {0, 1}
    BY <1>2 DEF WindowType
  <2>seq. snd[g].trigged \in Seq(Nat)
    BY <1>2 DEF WindowType
  <2>2. Holding(g)' <=> Holding(g)
    BY <1>1 DEF Holding
  <2>3. CASE g # h
    <3>1. /\ snd'[g] = snd[g] /\ sendMe'[g] = sendMe[g] /\ granted'[g] = granted[g]
          /\ seen'[g] = seen[g]
      BY <1>1, <1>2, <2>3
    <3>2. Ledger(g)'
      BY <1>1, <2>1, <2>num, <2>2, <3>1 DEF Ledger
    <3> QED BY <1>1, <2>1, <2>num, <3>1, <3>2 DEF InFlight, Room, Chain, Aligned, LastTrigger
  <2>4. CASE g = h
    <3> DEFINE q == snd[g].trigged
               q2 == snd'[g].trigged
    <3>1. /\ snd'[g] = VerifiedWindow(h, version) /\ snd'[g].v = snd[g].v
          /\ ok => sendMe'[g] = 1 /\ granted'[g] = granted[g] + AddValue
          /\ ~ok => sendMe'[g] = sendMe[g] /\ granted'[g] = granted[g]
      BY <1>1, <1>2, <1>4, <2>4
    <3>cr. \/ sendMe'[g] = 1 /\ granted'[g] = granted[g] + AddValue /\ ok
           \/ sendMe'[g] = sendMe[g] /\ granted'[g] = granted[g] /\ ~ok
      BY <3>1
    <3>2. Ledger(g)'
      <4>1. /\ marshalled'[g] = sent'[g] + (IF Holding(g)' THEN 1 ELSE 0)
            /\ snd'[g].v >= 0
            /\ snd'[g].v = 0 => writer'.pc \in {"waitSendMe", "done"} /\ Holding(g)'
        BY <1>1, <2>1, <2>num, <2>2, <3>1 DEF Ledger
      <4>2. snd'[g].v + marshalled'[g] + (IF sendMe'[g] = 1 THEN AddValue ELSE 0)
              <= StartValue + granted'[g]
        <5>1. snd[g].v + marshalled[g] + (IF sendMe[g] = 1 THEN AddValue ELSE 0)
                <= StartValue + granted[g]
          BY <2>1, <2>num DEF Ledger
        <5>2. marshalled'[g] = marshalled[g]
          BY <1>1
        <5> HIDE DEF ok
        <5>3. CASE ok
          BY <2>1, <2>num, <3>1, <5>1, <5>2, <5>3
        <5>4. CASE ~ok
          BY <2>1, <2>num, <3>1, <5>1, <5>2, <5>4
        <5> QED BY <5>3, <5>4
      <4> QED BY <4>1, <4>2 DEF Ledger
    <3>3. InFlight(g)'
      <4>1. seen[g] <= acked[g] /\ acked[g] <= sent[g] /\ (g \in Honest => seen[g] = granted[g])
        BY <2>1, <2>num DEF InFlight
      <4>2. acked'[g] = acked[g] /\ sent'[g] = sent[g]
        BY <1>1
      <4>3. CASE g \in Honest
        <5>1. /\ seen'[g] = seen[g] + AddValue /\ seen[g] + AddValue <= acked[g]
              /\ granted'[g] = granted[g] + AddValue
          BY <1>2, <1>3, <2>4, <3>1, <4>3
        <5> QED BY <4>1, <4>2, <5>1 DEF InFlight
      <4>4. CASE g \notin Honest
        BY <2>4, <4>1, <4>2, <4>4 DEF InFlight
      <4> QED BY <4>3, <4>4
    <3>4. ASSUME SendMeVersion = 1
          PROVE  Room(g)' /\ Chain(g)' /\ granted'[g] <= sent'[g] /\ (g \in Honest => Aligned(g)')
      <4>1. /\ Room(g) /\ Chain(g) /\ granted[g] <= sent[g] /\ (g \in Honest => Aligned(g))
            /\ Units(snd[g].v) \in Int /\ Capacity \in Int /\ Len(q) \in Nat
        <5>1. Units(snd[g].v) \in Int /\ Capacity \in Int
          BY <2>num, UnitsType, UnitsStart
        <5>2. Len(q) \in Nat
          BY <2>seq
        <5> QED BY <2>1, <3>4, <5>1, <5>2
      <4>2. LastTrigger(g)' = LastTrigger(g) /\ LastTrigger(g) \in Int
        <5>1. marshalled'[g] = marshalled[g]
          BY <1>1
        <5>2. Since(snd[g].v) \in Int
          <6>1. Phase(snd[g].v) \in 0 .. (AddValue - 1)
            BY <2>num, PhaseType
          <6> QED BY <6>1 DEF Since
        <5>3. Since(snd'[g].v) = Since(snd[g].v)
          BY <3>1
        <5> QED BY <2>1, <2>num, <5>1, <5>2, <5>3 DEF LastTrigger
      <4>3. CASE ~(version = 1 /\ HasDigest(snd[g]))
        <5>1. q2 = q /\ ~ok
          BY <1>4, <1>5, <2>4, <3>1, <3>4, <4>3
        <5>2. Room(g)' /\ Chain(g)'
          BY <3>1, <4>1, <4>2, <5>1 DEF Room, Chain
        <5> QED BY <1>1, <1>3, <2>4, <3>1, <4>1, <5>1, <5>2
      <4>4. CASE version = 1 /\ HasDigest(snd[g])
        <5>1. q2 = Tail(q) /\ q # <<>> /\ q \in Seq(Nat)
          BY <1>4, <2>seq, <2>4, <3>1, <3>4, <4>4 DEF HasDigest
        <5>2. /\ granted[g] + AddValue \in Int /\ LastTrigger(g) >= granted[g]
              /\ Run(q, granted[g] + AddValue, LastTrigger(g))
          BY <2>1, <2>num, <4>1 DEF Chain
        <5> HIDE DEF q, q2
        <5>3. /\ q[1] \in Nat /\ q[1] >= granted[g] + AddValue /\ q[1] <= LastTrigger(g)
              /\ Run(q2, q[1] + AddValue, LastTrigger(g))
              /\ IF q2 = <<>> THEN q[1] = LastTrigger(g) ELSE q2[1] = q[1] + AddValue
          BY <4>2, <5>1, <5>2, RunTail
        <5>4. Len(q2) = Len(q) - 1 /\ Len(q) \in Nat /\ Head(q) = q[1]
          BY <5>1, TailFacts
        <5>5. /\ ok => granted'[g] = granted[g] + AddValue
              /\ ~ok => granted'[g] = granted[g]
              /\ granted'[g] \in Nat /\ granted'[g] <= granted[g] + AddValue
          <6>1. granted[g] \in Nat
            BY <2>num
          <6>2. CASE granted'[g] = granted[g] + AddValue /\ ok
            BY <6>1, <6>2
          <6>3. CASE granted'[g] = granted[g] /\ ~ok
            BY <6>1, <6>3
          <6> QED BY <3>cr, <6>2, <6>3
        <5>6. Room(g)'
          <6>1. sendMe'[g] <= sendMe[g] + 1 /\ sendMe'[g] \in {0, 1}
            <7>1. sendMe[g] \in {0, 1} /\ sendMe'[g] \in {1, sendMe[g]}
              BY <2>num, <3>cr
            <7> QED BY <7>1
          <6>2. Units(snd[g].v) + Len(q) + sendMe[g] <= Capacity
            BY <4>1 DEF Room, q
          <6>3. Units(snd[g].v) + Len(q2) + sendMe'[g] <= Capacity
            BY <2>1, <2>num, <4>1, <5>4, <6>1, <6>2, SMTT(30)
          <6> QED BY <3>1, <6>3 DEF Room, q2
        <5>7. ok => q[1] = digest
          BY <1>5, <2>4, <3>4, <5>4 DEF TakenDigest, q
        <5>8. granted'[g] <= sent'[g]
          <6>1. sent'[g] = sent[g] /\ granted[g] <= sent[g] /\ digest <= sent[g]
            BY <1>1, <2>4, <4>1
          <6>2. CASE ok
            <7>1. granted'[g] = granted[g] + AddValue /\ granted[g] + AddValue <= digest
              BY <3>cr, <5>3, <5>7, <6>2
            <7> QED BY <2>num, <6>1, <7>1
          <6>3. CASE ~ok
            BY <3>cr, <6>1, <6>3
          <6> QED BY <6>2, <6>3
        <5>9. Chain(g)'
          <6>1. granted'[g] + AddValue <= q[1] + AddValue /\ LastTrigger(g) >= granted'[g]
            <7>1. granted'[g] <= q[1] /\ granted'[g] \in Nat /\ q[1] \in Nat
              <8>1. granted[g] + AddValue <= q[1] /\ granted'[g] <= granted[g] + AddValue
                BY <5>3, <5>5
              <8>2. granted[g] \in Nat /\ granted'[g] \in Nat /\ q[1] \in Nat
                BY <2>num, <5>3, <5>5
              <8> QED BY <8>1, <8>2
            <7> QED BY <4>2, <5>3, <7>1
          <6>2. Run(q2, granted'[g] + AddValue, LastTrigger(g))
            <7>1. q2 # <<>> => q2[1] >= granted'[g] + AddValue
              BY <2>1, <2>num, <5>3, <5>5, <6>1
            <7> QED BY <5>3, <7>1 DEF Run
          <6> QED BY <4>2, <6>1, <6>2 DEF Chain, q2
        <5>10. g \in Honest => Aligned(g)'
          <6> SUFFICES ASSUME g \in Honest PROVE Aligned(g)'
            OBVIOUS
          <6>1. q[1] = granted[g] + AddValue /\ granted'[g] = granted[g] + AddValue
            BY <1>3, <2>4, <4>1, <5>1, <5>5 DEF Aligned, q
          <6> QED BY <4>2, <5>3, <6>1 DEF Aligned, q2
        <5> QED BY <5>6, <5>8, <5>9, <5>10
      <4> QED BY <4>3, <4>4
    <3> QED BY <3>2, <3>3, <3>4
  <2> QED BY <2>3, <2>4
<1>11. (Honest = Hops => ~SendMeFailed)'
  BY <1>7 DEF IInv, SendMeFailed
<1> QED BY <1>8, <1>9, <1>10, <1>11 DEF IInv

LEMMA ReadStep ==
  ASSUME IInv, NEW h \in Hops, ReadSendMe(h) \/ ReadForgedSendMe(h)
  PROVE  IInv'
<1>1. /\ sent[h] \in Nat /\ acked[h] \in Nat /\ seen[h] \in Nat /\ acked[h] <= sent[h]
      /\ seen[h] <= acked[h]
  BY DEF IInv, TypeOK, PerHop, InFlight
<1>2. CASE ReadSendMe(h)
  <2>1. /\ h \in Honest
        /\ seen[h] + AddValue <= acked[h] /\ HandleSendMe(h, SendMeVersion, seen[h] + AddValue)
        /\ seen' = [seen EXCEPT ![h] = @ + AddValue]
    BY <1>2 DEF ReadSendMe
  <2>2. seen[h] + AddValue \in Nat /\ seen[h] + AddValue <= sent[h]
    BY <1>1, <2>1
  <2> QED BY <1>2, <2>1, <2>2, SendMeStep
<1>4. CASE ReadForgedSendMe(h)
  <2>1. PICK version \in {0, 1}, digest \in 0 .. sent[h] : HandleSendMe(h, version, digest)
    BY <1>4 DEF ReadForgedSendMe
  <2>2. h \notin Honest /\ UNCHANGED seen
    BY <1>4 DEF ReadForgedSendMe
  <2>3. digest \in Nat /\ digest <= sent[h]
    BY <1>1
  <2> QED BY <2>1, <2>2, <2>3, SendMeStep
<1> QED BY <1>2, <1>4

LEMMA NextInv == IInv /\ [Next]_vars => IInv'
<1> SUFFICES ASSUME IInv, [Next]_vars PROVE IInv'
  OBVIOUS
<1>1. CASE \E d \in Dsts : OfferData(d)
  BY <1>1, OfferStep, 0 \in Nat
<1>2. CASE \E d \in Dsts, digest \in Digests : OfferSendMe(d, digest)
  BY <1>2, OfferStep, CircuitSendAssumption
<1>3. CASE WriterTake
  BY <1>3, TakeOtherStep, TakeDataStep
<1>4. CASE WriterRestore
  BY <1>4, WriterRestoreStep
<1>5. CASE WriterSend
  BY <1>5, WriterSendStep
<1>6. CASE WriterExit
  BY <1>6, WriterExitStep
<1>7. CASE \E h \in Hops : ReadSendMe(h)
  BY <1>7, ReadStep
<1>8. CASE \E h \in Hops : ReadForgedSendMe(h)
  BY <1>8, ReadStep
<1>9. CASE ReaderExit \/ CloseCircuit
  BY <1>9, QuietStep
<1>10. CASE \E h \in Hops : RelayAck(h)
  BY <1>10, RelayAckStep
<1>11. CASE UNCHANGED vars
  <2>1. UNCHANGED <<writeRelayCell, offered, snd, sendMe, writer, reader, cause,
                    marshalled, sent, granted, acked, seen>>
    BY <1>11 DEF vars, clientVars, relayVars
  <2>2. TypeOK'
    BY <2>1 DEF IInv, TypeOK
  <2>3. WriterShape' /\ (~SendMeFailed => ~SendMeFailed')
    BY <2>1 DEF IInv, WriterShape, Holding, SendMeFailed
  <2> QED BY <2>1, <2>2, <2>3, QueueStep
<1> QED
  BY <1>1, <1>2, <1>3, <1>4, <1>5, <1>6, <1>7, <1>8, <1>9, <1>10, <1>11 DEF Next

-----------------------------------------------------------------------------
\* The invariant holds of every run of the send half of a circuit, whatever
\* the number of hops, the window, the queue and the relays' conduct.
THEOREM InductiveInvariant == Spec => []IInv
BY InitInv, NextInv, PTL DEF Spec

\* Every variable of writeLoop and readloop keeps its type: in particular the
\* queue and the token channel never exceed their capacity.
THEOREM TypeCorrect == Spec => []TypeOK
<1>1. IInv => TypeOK
  BY DEF IInv
<1> QED BY <1>1, InductiveInvariant, PTL

\* With SENDME digests (CREATE2 circuits), or with relays that follow the
\* protocol, what writeLoop puts on the link stays within the credit given,
\* and nothing is acknowledged that did not leave.
THEOREM CreditIsSafe == (Honest = Hops \/ SendMeVersion = 1) => (Spec => []CreditSafety)
<1> SUFFICES ASSUME Honest = Hops \/ SendMeVersion = 1 PROVE Spec => []CreditSafety
  OBVIOUS
<1>1. IInv => CreditSafety
  <2> SUFFICES ASSUME IInv, NEW h \in Hops
               PROVE  sent[h] <= StartValue + granted[h] /\ granted[h] <= sent[h]
    BY DEF CreditSafety
  <2>1. /\ sent[h] \in Nat /\ granted[h] \in Nat /\ marshalled[h] \in Nat /\ snd[h].v \in Int
        /\ seen[h] \in Nat /\ acked[h] \in Nat /\ sendMe[h] \in {0, 1}
    BY DEF IInv, TypeOK, PerHop, WindowType
  <2>2. sent[h] <= StartValue + granted[h]
    <3>1. /\ sent[h] <= marshalled[h] /\ snd[h].v >= 0
          /\ snd[h].v + marshalled[h] <= StartValue + granted[h]
      BY <2>1 DEF IInv, Ledger
    <3> QED BY <2>1, <3>1
  <2>3. granted[h] <= sent[h]
    <3>1. SendMeVersion = 1 => granted[h] <= sent[h]
      BY DEF IInv
    <3>2. InFlight(h)
      BY DEF IInv
    <3>3. h \in Honest => granted[h] <= sent[h]
      BY <2>1, <3>2 DEF InFlight
    <3> QED BY <3>1, <3>3
  <2> QED BY <2>2, <2>3
<1> QED BY <1>1, InductiveInvariant, PTL

\* verifySendMe never rejects the SENDME of a relay that follows the protocol:
\* no digest is dropped, and they are taken in the order they were queued.
THEOREM HonestRelayAccepted == Spec => HonestSendMeAccepted
<1>1. ASSUME IInv, NEW h \in Honest, ReadSendMe(h)
      PROVE  UNCHANGED cause
  <2>1. h \in Hops /\ seen[h] + AddValue <= acked[h]
    BY <1>1 DEF ReadSendMe
  <2>2. VerifyError(h, SendMeVersion, seen[h] + AddValue) = "nil"
    BY <1>1, <2>1, HonestVerifies
  <2> QED BY <1>1, <2>2 DEF ReadSendMe, HandleSendMe
<1>2. IInv /\ [Next]_vars => [\A h \in Honest : ReadSendMe(h) => UNCHANGED cause]_vars
  BY <1>1
<1> QED BY <1>2, InductiveInvariant, PTL DEF Spec, HonestSendMeAccepted

-----------------------------------------------------------------------------
(* The send half implements CreditFlow.                                    *)

LEMMA CreditInit == Init => Credit!Init
BY DEF Init, Credit!Init

LEMMA CreditStep ==
  ASSUME Honest = Hops \/ SendMeVersion = 1, IInv, IInv', [Next]_vars
  PROVE  [Credit!Next]_(Credit!vars)
<1> USE DEF Credit!vars
<1>1. /\ sent \in [Hops -> Nat] /\ granted \in [Hops -> Nat] /\ marshalled \in [Hops -> Nat]
      /\ \A h \in Hops : snd[h].v \in Int
  BY DEF IInv, TypeOK, PerHop, WindowType
<1>2. \A h \in Hops : granted'[h] <= sent'[h]
  <2> SUFFICES ASSUME NEW h \in Hops PROVE granted'[h] <= sent'[h]
    OBVIOUS
  <2>1. sent'[h] \in Nat /\ granted'[h] \in Nat /\ seen'[h] \in Nat /\ acked'[h] \in Nat
    BY DEF IInv, TypeOK, PerHop
  <2> QED BY <2>1 DEF IInv, InFlight
<1>3. CASE WriterSend
  <2> DEFINE d == writer.cell.dst
  <2>1. /\ writer.pc = "send" /\ d \in Hops /\ UNCHANGED granted
        /\ sent' = IF writer.cell.cmd = "DATA" THEN [sent EXCEPT ![d] = @ + 1] ELSE sent
    BY <1>3 DEF WriterSend, IInv, WriterShape
  <2>2. CASE writer.cell.cmd # "DATA"
    BY <2>1, <2>2
  <2>3. CASE writer.cell.cmd = "DATA"
    <3>1. Holding(d) /\ Ledger(d)
      BY <2>1, <2>3 DEF Holding, IInv
    <3>2. /\ marshalled[d] = sent[d] + 1 /\ snd[d].v >= 0 /\ snd[d].v # 0
          /\ snd[d].v + marshalled[d] + (IF sendMe[d] = 1 THEN AddValue ELSE 0)
               <= StartValue + granted[d]
      BY <2>1, <3>1 DEF Ledger
    <3>3. sent[d] < StartValue + granted[d]
      <4>1. snd[d].v \in Int /\ sent[d] \in Nat /\ granted[d] \in Nat /\ marshalled[d] \in Nat
        BY <1>1, <2>1
      <4> HIDE DEF d
      <4> QED BY <3>2, <4>1
    <3>4. Credit!Send(d)
      BY <2>1, <2>3, <3>3 DEF Credit!Send
    <3> QED BY <2>1, <3>4 DEF Credit!Next
  <2> QED BY <2>2, <2>3
<1>4. ASSUME NEW h \in Hops, NEW version, NEW digest, HandleSendMe(h, version, digest)
      PROVE  [Credit!Next]_(Credit!vars)
  <2>1. UNCHANGED sent
    BY <1>4 DEF HandleSendMe
  <2>2. CASE granted' = granted
    BY <2>1, <2>2
  <2>3. CASE granted' = [granted EXCEPT ![h] = @ + AddValue]
    <3>1. granted[h] + AddValue <= sent[h]
      BY <1>1, <1>2, <2>1, <2>3
    <3>2. Credit!Grant(h)
      BY <2>1, <2>3, <3>1 DEF Credit!Grant
    <3> QED BY <3>2 DEF Credit!Next
  <2> QED BY <1>4, <2>2, <2>3 DEF HandleSendMe
<1>5. CASE \E h \in Hops : ReadSendMe(h) \/ ReadForgedSendMe(h)
  BY <1>4, <1>5 DEF ReadSendMe, ReadForgedSendMe
<1>6. CASE UNCHANGED vars
  BY <1>6 DEF vars, clientVars
<1>7. CASE \/ \E d \in Dsts : OfferData(d)
           \/ \E d \in Dsts, digest \in Digests : OfferSendMe(d, digest)
           \/ WriterTake \/ WriterRestore \/ WriterExit \/ ReaderExit \/ CloseCircuit
           \/ \E h \in Hops : RelayAck(h)
  BY <1>7 DEF OfferData, OfferSendMe, WriterTake, WriterRestore, WriterExit, ReaderExit,
              CloseCircuit, RelayAck, clientVars
<1> QED BY <1>3, <1>5, <1>6, <1>7 DEF Next

\* Every behaviour of writeLoop and readloop is one of credit-based flow
\* control, under the same condition as CreditIsSafe.
THEOREM CreditImplemented == (Honest = Hops \/ SendMeVersion = 1) => (Spec => ImplementsCredit)
<1> SUFFICES ASSUME Honest = Hops \/ SendMeVersion = 1 PROVE Spec => ImplementsCredit
  OBVIOUS
<1>1. IInv /\ IInv' /\ [Next]_vars => [Credit!Next]_(Credit!vars)
  BY CreditStep
<1> QED BY <1>1, CreditInit, InductiveInvariant, PTL DEF Spec, ImplementsCredit, Credit!Spec
=============================================================================
