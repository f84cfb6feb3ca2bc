--------------------------- MODULE Circuit_proofs ---------------------------
(***************************************************************************)
(* The send half of a circuit that carries data both ways behaves as       *)
(* CircuitSend says, whatever the receive half puts into the queue they    *)
(* share.  The one fact about the receive half this rests on is that its   *)
(* managers only ever hold digests of cells that a relay has sent.         *)
(*                                                                         *)
(* The receive half keeps the invariant of CircuitRecv, with a longer way  *)
(* between a manager and the relay: WriteRelayCell, where SENDMEs mix with *)
(* DATA, the hands of writeLoop, and the link.                             *)
(***************************************************************************)
EXTENDS Circuit, SequenceTheorems, TLAPS

RP == INSTANCE CircuitRecv_proofs WITH StreamsClose <- FALSE

InCells == [hop : Hops, stream : Streams, digest : Digest]
Windows == [v : Int, digest : Digest, trigged : Seq(Digest)]

\* The window operators keep to known digests.
LEMMA WindowDigests ==
  ASSUME NEW w \in Windows, NEW d \in Digest
  PROVE  /\ Rcv!NewWindow \in Windows
         /\ Rcv!Increase(w) \in Windows
         /\ Rcv!Subtract(Rcv!SetDigest(w, d), 1) \in Windows
         /\ Rcv!HasDigest(w) => Rcv!TakenDigest(w) \in Digest /\ Rcv!AfterGet(w) \in Windows
<1> USE CircuitAssumption DEF Windows
<1>1. Rcv!NewWindow \in Windows
  <2>1. 0 \in Digest /\ <<>> \in Seq(Digest)
    BY DEF Digest
  <2> QED BY <2>1 DEF Rcv!NewWindow, Rcv!NoDigest
<1>2. Rcv!Increase(w) \in Windows
  BY SMTT(30) DEF Rcv!Increase
<1>3. Rcv!Subtract(Rcv!SetDigest(w, d), 1) \in Windows
  <2> DEFINE x == Rcv!SetDigest(w, d)
             u == [x EXCEPT !.v = @ - 1]
  <2>1. x \in Windows
    BY DEF Rcv!SetDigest
  <2>2. u \in Windows
    <3> HIDE DEF x
    <3> QED BY <2>1, SMTT(30)
  <2>3. Rcv!Trigger(u) \in Windows
    <3> HIDE DEF u
    <3>1. u.trigged \in Seq(Digest) /\ u.digest \in Digest
      BY <2>2
    <3>2. Append(u.trigged, u.digest) \in Seq(Digest)
      BY <3>1, AppendProperties
    <3> QED BY <2>2, <3>2 DEF Rcv!Trigger
  <2>4. Rcv!Subtract(x, 1) \in {u, Rcv!Trigger(u)}
    <3> HIDE DEF x
    <3> QED BY DEF Rcv!Subtract
  <2> QED BY <2>2, <2>3, <2>4
<1>4. ASSUME Rcv!HasDigest(w)
      PROVE  Rcv!TakenDigest(w) \in Digest /\ Rcv!AfterGet(w) \in Windows
  <2>1. w.trigged \in Seq(Digest) /\ w.trigged # <<>>
    BY <1>4 DEF Rcv!HasDigest
  <2>2. Head(w.trigged) \in Digest /\ Tail(w.trigged) \in Seq(Digest)
    BY <2>1, HeadTailProperties
  <2> QED BY <2>2 DEF Rcv!TakenDigest, Rcv!AfterGet
<1> QED BY <1>1, <1>2, <1>3, <1>4

-----------------------------------------------------------------------------
LEMMA DigestsInit == Init => DigestsKnown
<1> SUFFICES ASSUME Init PROVE DigestsKnown
  OBVIOUS
<1>1. 0 \in Digest /\ Rcv!NewWindow \in Windows
  <2>1. 0 \in Digest
    BY CircuitAssumption DEF Digest
  <2>2. [v |-> 0, digest |-> 0, trigged |-> <<>>] \in Windows
    BY <2>1 DEF Windows
  <2> QED BY <2>1, <2>2, WindowDigests
<1>2. inbound = <<>> /\ rcv = [h \in Hops |-> Rcv!NewWindow]
  BY DEF Init, Rcv!Init, Rcv!Hops, Hops
<1>3. /\ manager = [h \in Hops |-> [pc |-> "idle", digest |-> 0]]
      /\ relaySent = [h \in Hops |-> 0]
  BY DEF Init, Rcv!Init, Rcv!Hops, Hops, Rcv!NoDigest
<1> QED BY <1>1, <1>2, <1>3 DEF DigestsKnown, Windows

LEMMA DigestsStep ==
  ASSUME DigestsKnown, [Next]_vars
  PROVE  DigestsKnown'
<1>1. /\ inbound \in Seq(InCells) /\ rcv \in [Hops -> Windows] /\ relaySent \in [Hops -> Digest]
      /\ manager \in [Hops -> [pc : {"idle", "put", "increase", "done"}, digest : Digest]]
  BY DEF DigestsKnown, InCells, Windows
<1>2. CASE UNCHANGED <<inbound, rcv, manager, relaySent>>
  BY <1>2 DEF DigestsKnown
<1>3. ASSUME NEW h \in Hops, Rcv!RelaySend(h)
      PROVE  DigestsKnown'
  <2>1. relaySent[h] + 1 \in Digest
    BY <1>1, <1>3, CircuitAssumption DEF Rcv!RelaySend, Digest
  <2>2. PICK s \in Streams :
          inbound' = Append(inbound, [hop |-> h, stream |-> s, digest |-> relaySent[h] + 1])
    BY <1>3 DEF Rcv!RelaySend
  <2>3. [hop |-> h, stream |-> s, digest |-> relaySent[h] + 1] \in InCells
    BY <2>1 DEF InCells
  <2>4. inbound' \in Seq(InCells)
    BY <1>1, <2>2, <2>3, AppendProperties
  <2>5. relaySent' \in [Hops -> Digest] /\ UNCHANGED <<rcv, manager>>
    BY <1>1, <1>3, <2>1 DEF Rcv!RelaySend
  <2> QED BY <1>1, <2>4, <2>5 DEF DigestsKnown, InCells, Windows
<1>4. ASSUME Rcv!ReadData
      PROVE  DigestsKnown'
  <2>1. /\ inbound # <<>> /\ inbound' = Tail(inbound)
        /\ rcv' = (IF Head(inbound).stream \in live THEN Rcv!Charged(Head(inbound)) ELSE rcv)
        /\ UNCHANGED <<manager, relaySent>>
    BY <1>4 DEF Rcv!ReadData
  <2>2. Head(inbound) \in InCells /\ inbound' \in Seq(InCells)
    BY <1>1, <2>1, HeadTailProperties
  <2>3. Rcv!Charged(Head(inbound)) \in [Hops -> Windows]
    <3> DEFINE c == Head(inbound)
    <3>1. c.hop \in Hops /\ c.digest \in Digest /\ rcv[c.hop] \in Windows
      BY <1>1, <2>2 DEF InCells
    <3> HIDE DEF c
    <3>2. Rcv!Subtract(Rcv!SetDigest(rcv[c.hop], c.digest), 1) \in Windows
      BY <3>1, WindowDigests
    <3>3. Rcv!Charged(c) \in [Hops -> Windows]
      BY <1>1, <3>1, <3>2 DEF Rcv!Charged
    <3> QED BY <3>3 DEF c
  <2>4. rcv' \in [Hops -> Windows]
    BY <1>1, <2>1, <2>3
  <2> QED BY <1>1, <2>1, <2>2, <2>4 DEF DigestsKnown, InCells, Windows
<1>5. ASSUME NEW h \in Hops, Rcv!ManagerTake(h)
      PROVE  DigestsKnown'
  <2>1. rcv[h] \in Windows /\ Rcv!HasDigest(rcv[h])
    BY <1>1, <1>5 DEF Rcv!ManagerTake
  <2>2. 0 \in Digest
    BY CircuitAssumption DEF Digest
  <2>3. Rcv!TakenDigest(rcv[h]) \in Digest /\ Rcv!AfterGet(rcv[h]) \in Windows
    BY <2>1, <2>2, WindowDigests
  <2>4. rcv' \in [Hops -> Windows] /\ UNCHANGED <<inbound, relaySent>>
    BY <1>1, <1>5, <2>3 DEF Rcv!ManagerTake
  <2>5. manager' \in [Hops -> [pc : {"idle", "put", "increase", "done"}, digest : Digest]]
    BY <1>1, <1>5, <2>3 DEF Rcv!ManagerTake
  <2> QED BY <1>1, <2>4, <2>5 DEF DigestsKnown, InCells, Windows
<1>6. ASSUME NEW h \in Hops, Rcv!ManagerPut(h) \/ Rcv!ManagerExit(h)
      PROVE  DigestsKnown'
  <2>1. /\ UNCHANGED <<inbound, rcv, relaySent>>
        /\ \/ manager' = [manager EXCEPT ![h].pc = "increase"]
           \/ manager' = [manager EXCEPT ![h].pc = "done"]
    BY <1>6 DEF Rcv!ManagerPut, Rcv!ManagerExit
  <2> QED BY <1>1, <2>1, ZenonT(30) DEF DigestsKnown
<1>7. ASSUME NEW h \in Hops, Rcv!ManagerIncrease(h)
      PROVE  DigestsKnown'
  <2>1. /\ UNCHANGED <<inbound, relaySent>>
        /\ rcv' = [rcv EXCEPT ![h] = Rcv!Increase(@)]
        /\ manager' = [manager EXCEPT ![h].pc = "idle"]
    BY <1>7 DEF Rcv!ManagerIncrease
  <2>2. Rcv!Increase(rcv[h]) \in Windows
    <3>1. 0 \in Digest
      BY CircuitAssumption DEF Digest
    <3> QED BY <1>1, <3>1, WindowDigests
  <2>3. rcv' \in [Hops -> Windows]
    BY <1>1, <2>1, <2>2
  <2>4. manager' \in [Hops -> [pc : {"idle", "put", "increase", "done"}, digest : Digest]]
    BY <1>1, <2>1
  <2> QED BY <1>1, <2>1, <2>3, <2>4 DEF DigestsKnown, InCells, Windows
<1>8. CASE RecvHalf
  BY <1>3, <1>4, <1>5, <1>6, <1>7, <1>8 DEF RecvHalf
<1>9. CASE SendHalf \/ SendSendMe \/ RelayTake \/ ReaderExit \/ CloseCircuit \/ UNCHANGED vars
  BY <1>2, <1>9 DEF SendHalf, SendSendMe, RelayTake, ReaderExit, CloseCircuit, vars, rcvOnly
<1> QED BY <1>8, <1>9 DEF Next

-----------------------------------------------------------------------------
(* Every step of the circuit is a step of CircuitSend, or leaves it alone. *)

LEMMA SndStep ==
  ASSUME DigestsKnown, [Next]_vars
  PROVE  [Snd!Next]_(Snd!vars)
<1> USE DEF Snd!vars, Snd!clientVars, Snd!relayVars
<1>1. Snd!Hops = Hops /\ Snd!Dsts = Hops
  BY DEF Snd!Hops, Snd!Dsts, Hops
<1>2. CASE SendHalf
  BY <1>1, <1>2 DEF SendHalf, Snd!Next
<1>3. ASSUME NEW h \in Hops, Rcv!ManagerPut(h), UNCHANGED sndOnly
      PROVE  Snd!OfferSendMe(h, manager[h].digest) /\ manager[h].digest \in 0 .. MaxDown
  <2>1. manager[h].digest \in 0 .. MaxDown
    BY DEF DigestsKnown, Digest
  <2>2. Snd!OfferSendMe(h, manager[h].digest)
    BY <1>3 DEF Rcv!ManagerPut, Snd!OfferSendMe, Snd!Enqueue, sndOnly
  <2> QED BY <2>1, <2>2
<1>4. CASE RecvHalf
  <2>1. CASE \E h \in Hops : Rcv!ManagerPut(h)
    BY <1>1, <1>3, <1>4, <2>1 DEF RecvHalf, Snd!Next
  <2>2. CASE \/ \E h \in Hops : Rcv!RelaySend(h) \/ Rcv!ManagerTake(h)
             \/ \E h \in Hops : Rcv!ManagerIncrease(h) \/ Rcv!ManagerExit(h)
             \/ Rcv!ReadData
    BY <1>4, <2>2 DEF RecvHalf, Rcv!RelaySend, Rcv!ManagerTake, Rcv!ManagerIncrease,
                      Rcv!ManagerExit, Rcv!ReadData, sndOnly
  <2> QED BY <1>4, <2>1, <2>2 DEF RecvHalf
<1>5. CASE SendSendMe
  BY <1>5 DEF SendSendMe, Snd!Next
<1>6. CASE RelayTake
  <2>1. UNCHANGED <<sndOnly, writeRelayCell, reader>>
    BY <1>6 DEF RelayTake
  <2>2. cause' = cause \/ (cause = "none" /\ cause' = "destroyed")
    BY <1>6 DEF RelayTake, Rcv!RelayReceive
  <2>3. CASE cause' = cause
    BY <2>1, <2>3 DEF sndOnly
  <2>4. CASE cause = "none" /\ cause' = "destroyed"
    BY <2>1, <2>4 DEF sndOnly, Snd!Next, Snd!CloseCircuit
  <2> QED BY <2>2, <2>3, <2>4
<1>7. CASE ReaderExit \/ CloseCircuit
  BY <1>7 DEF ReaderExit, CloseCircuit, Snd!Next
<1>8. CASE UNCHANGED vars
  BY <1>8 DEF vars, sndOnly, shared
<1> QED BY <1>2, <1>4, <1>5, <1>6, <1>7, <1>8 DEF Next

\* What sendmeManage and readloop do for the receive direction is, to writeLoop
\* and the send windows, only what CircuitSend already allows for: everything
\* proved of CircuitSend with honest relays holds in a circuit that also
\* receives.
THEOREM SendHalfImplemented == Spec => ImplementsSend
<1>1. Init => Snd!Init
  BY DEF Init
<1>2. Spec => []DigestsKnown
  <2>1. DigestsKnown /\ [Next]_vars => DigestsKnown'
    BY DigestsStep
  <2> QED BY <2>1, DigestsInit, PTL DEF Spec
<1>3. DigestsKnown /\ [Next]_vars => [Snd!Next]_(Snd!vars)
  BY SndStep
<1> QED BY <1>1, <1>2, <1>3, PTL DEF Spec, ImplementsSend, Snd!Spec

-----------------------------------------------------------------------------
(* The SENDMEs between the managers and the relays.                        *)

Acks == [dst : Hops, cmd : {"SENDME"}, digest : Nat]

Shape ==
    /\ writeRelayCell \in Seq(RP!RelayOut)
    /\ uplink \in Seq(Acks)
    /\ writer \in [pc : {"idle", "waitSendMe", "send", "done"}, cell : RP!RelayOut \cup {Snd!NoCell}]
    /\ writer.pc = "idle" => writer.cell = Snd!NoCell
    /\ writer.pc = "waitSendMe" => writer.cell.cmd = "DATA"

Linked(h) == RP!Count(uplink, RP!AckTo(h))
Held(h)   == IF writer.cell \in RP!AckTo(h) THEN 1 ELSE 0

OnTheWay(h) == Linked(h) + Held(h) + RP!QueuedFor(h)

\* They are the next ones their relay expects, in order.
LinkInOrder(h) ==
    \A i \in 1 .. Len(uplink) : uplink[i] \in RP!AckTo(h) =>
        uplink[i].digest = RP!Ack(h, RP!CountTo(uplink, RP!AckTo(h), i))

HandInOrder(h) ==
    writer.cell \in RP!AckTo(h) => writer.cell.digest = RP!Ack(h, Linked(h) + 1)

RestInOrder(h) ==
    \A i \in 1 .. Len(writeRelayCell) : writeRelayCell[i] \in RP!AckTo(h) =>
        writeRelayCell[i].digest =
          RP!Ack(h, Linked(h) + Held(h) + RP!CountTo(writeRelayCell, RP!AckTo(h), i))

WayInOrder == \A h \in Hops : LinkInOrder(h) /\ HandInOrder(h) /\ RestInOrder(h)

RecvInv ==
    /\ Shape
    /\ RP!HalfInv([h \in Hops |-> OnTheWay(h)])
    /\ cause = "none" => WayInOrder
    /\ live = Streams
    /\ cause # "destroyed"

LEMMA RecvAssumptions == RP!WindowAssumption /\ RP!CircuitRecvAssumption /\ RP!Hops = Hops
BY CircuitAssumption DEF RP!WindowAssumption, RP!CircuitRecvAssumption, RP!Hops, Hops

\* The actions of the receive half are those that CircuitRecv_proofs is about.
LEMMA RecvActions ==
  /\ Rcv!Init => RP!Init
  /\ \A h \in Hops : /\ Rcv!RelaySend(h) => RP!RelaySend(h)
                     /\ Rcv!ManagerTake(h) => RP!ManagerTake(h)
                     /\ Rcv!ManagerPut(h) => RP!ManagerPut(h)
                     /\ Rcv!ManagerIncrease(h) => RP!ManagerIncrease(h)
                     /\ Rcv!ManagerExit(h) => RP!ManagerExit(h)
                     /\ \A d : Rcv!RelayReceive(h, d) => RP!RelayReceive(h, d)
  /\ Rcv!ReadData => RP!ReadData
<1>1. Rcv!Init => RP!Init
  BY DEF Rcv!Init, RP!Init, Rcv!NewWindow, RP!NewWindow, Rcv!NoDigest, RP!NoDigest, Rcv!Hops, RP!Hops
<1>2. ASSUME NEW h \in Hops, Rcv!RelaySend(h) PROVE RP!RelaySend(h)
  BY <1>2 DEF Rcv!RelaySend, RP!RelaySend
<1>3. ASSUME NEW h \in Hops, Rcv!ManagerTake(h) PROVE RP!ManagerTake(h)
  BY <1>3 DEF Rcv!ManagerTake, RP!ManagerTake, Rcv!HasDigest, RP!HasDigest,
              Rcv!TakenDigest, RP!TakenDigest, Rcv!AfterGet, RP!AfterGet
<1>4. ASSUME NEW h \in Hops, Rcv!ManagerPut(h) PROVE RP!ManagerPut(h)
  BY <1>4 DEF Rcv!ManagerPut, RP!ManagerPut
<1>5. ASSUME NEW h \in Hops, Rcv!ManagerIncrease(h) PROVE RP!ManagerIncrease(h)
  BY <1>5 DEF Rcv!ManagerIncrease, RP!ManagerIncrease, Rcv!Increase, RP!Increase
<1>6. ASSUME NEW h \in Hops, Rcv!ManagerExit(h) PROVE RP!ManagerExit(h)
  BY <1>6 DEF Rcv!ManagerExit, RP!ManagerExit
<1>7. ASSUME NEW h \in Hops, NEW d, Rcv!RelayReceive(h, d) PROVE RP!RelayReceive(h, d)
  BY <1>7 DEF Rcv!RelayReceive, RP!RelayReceive, Rcv!Acceptable, RP!Acceptable
<1>8. Rcv!ReadData => RP!ReadData
  BY DEF Rcv!ReadData, RP!ReadData, Rcv!Charged, RP!Charged, Rcv!Subtract, RP!Subtract,
         Rcv!SetDigest, RP!SetDigest, Rcv!Trigger, RP!Trigger, Rcv!Capacity, RP!Capacity
<1> QED BY <1>1, <1>2, <1>3, <1>4, <1>5, <1>6, <1>7, <1>8

LEMMA RecvInit == Init => RecvInv
<1> SUFFICES ASSUME Init PROVE RecvInv
  OBVIOUS
<1>1. /\ writeRelayCell = <<>> /\ uplink = <<>> /\ cause = "none" /\ live = Streams
      /\ writer = [pc |-> "idle", cell |-> Snd!NoCell]
  BY DEF Init, Snd!Init, Rcv!Init
<1>2. Shape
  BY <1>1 DEF Shape
<1>3. ASSUME NEW h \in Hops PROVE OnTheWay(h) = RP!QueuedFor(h)
  <2>1. RP!Count(<<>>, RP!AckTo(h)) = 0
    BY RecvAssumptions, RP!CountEmpty
  <2>2. Snd!NoCell \notin RP!AckTo(h)
    BY DEF Snd!NoCell, RP!AckTo
  <2> QED BY <1>1, <2>1, <2>2 DEF OnTheWay, Linked, Held, RP!QueuedFor
<1>4. RP!HalfInv([h \in Hops |-> RP!QueuedFor(h)])
  <2>1. RP!IInv
    BY RecvAssumptions, RecvActions, RP!InitInv DEF Init
  <2> QED BY <2>1, RecvAssumptions DEF RP!IInv
<1>5. RP!HalfInv([h \in Hops |-> OnTheWay(h)])
  <2>1. [h \in Hops |-> OnTheWay(h)] = [h \in Hops |-> RP!QueuedFor(h)]
    BY <1>3
  <2> QED BY <1>4, <2>1
<1>6. WayInOrder
  BY <1>1 DEF WayInOrder, LinkInOrder, HandInOrder, RestInOrder, RP!AckTo, Snd!NoCell
<1> QED BY <1>1, <1>2, <1>5, <1>6 DEF RecvInv

\* The invariant of the receive half, as the lemmas about its steps want it.
LEMMA WayOfInv ==
  ASSUME RecvInv
  PROVE  /\ \A h \in Hops : /\ Linked(h) \in Nat /\ Held(h) \in {0, 1}
                            /\ RP!QueuedFor(h) \in Nat /\ OnTheWay(h) \in Nat
         /\ RP!HalfType
         /\ \E N \in [Hops -> Nat] : RP!HalfInv(N) /\ \A h \in Hops : N[h] = OnTheWay(h)
<1>1. ASSUME NEW h \in Hops
      PROVE  Linked(h) \in Nat /\ Held(h) \in {0, 1} /\ RP!QueuedFor(h) \in Nat
  <2>1. writeRelayCell \in Seq(RP!RelayOut) /\ uplink \in Seq(Acks)
    BY DEF RecvInv, Shape
  <2>2. RP!Count(writeRelayCell, RP!AckTo(h)) \in Nat /\ RP!Count(uplink, RP!AckTo(h)) \in Nat
    BY <2>1, RecvAssumptions, RP!CountType
  <2> QED BY <2>2 DEF Linked, Held, RP!QueuedFor
<1>2. \A h \in Hops : OnTheWay(h) \in Nat
  BY <1>1 DEF OnTheWay
<1> DEFINE N == [h \in Hops |-> OnTheWay(h)]
<1>3. N \in [Hops -> Nat] /\ RP!HalfInv(N) /\ \A h \in Hops : N[h] = OnTheWay(h)
  BY <1>2 DEF RecvInv
<1> HIDE DEF N
<1>4. RP!HalfType
  BY <1>3 DEF RP!HalfInv
<1> QED BY <1>1, <1>2, <1>3, <1>4

LEMMA InvOfWay ==
  ASSUME NEW N \in [Hops -> Nat], RP!HalfInv(N)', \A h \in Hops : N[h] = OnTheWay(h)'
  PROVE  RP!HalfInv([h \in Hops |-> OnTheWay(h)])'
BY RecvAssumptions DEF RP!HalfInv

\* What keeps the order where nothing moves.
LEMMA OrderKept ==
  ASSUME NEW h \in Hops, relayCredit' = relayCredit
  PROVE  /\ uplink' = uplink => (LinkInOrder(h) => LinkInOrder(h)') /\ Linked(h)' = Linked(h)
         /\ writeRelayCell' = writeRelayCell /\ Linked(h)' + Held(h)' = Linked(h) + Held(h)
              => (RestInOrder(h) => RestInOrder(h)')
         /\ writer'.cell = writer.cell /\ Linked(h)' = Linked(h)
              => (HandInOrder(h) => HandInOrder(h)') /\ Held(h)' = Held(h)
<1>1. (\A k : RP!Ack(h, k)' = RP!Ack(h, k)) /\ RP!AckTo(h)' = RP!AckTo(h)
  BY DEF RP!Ack, RP!AckTo
<1>2. ASSUME uplink' = uplink, LinkInOrder(h) PROVE LinkInOrder(h)'
  <2> SUFFICES ASSUME NEW i \in 1 .. Len(uplink), uplink[i] \in RP!AckTo(h)
               PROVE  uplink[i].digest = RP!Ack(h, RP!CountTo(uplink, RP!AckTo(h), i))'
    BY <1>1, <1>2 DEF LinkInOrder
  <2>1. uplink[i].digest = RP!Ack(h, RP!CountTo(uplink, RP!AckTo(h), i))
    BY <1>2 DEF LinkInOrder
  <2>2. RP!CountTo(uplink, RP!AckTo(h), i)' = RP!CountTo(uplink, RP!AckTo(h), i)
    BY <1>1, <1>2
  <2> QED BY <2>1, <2>2 DEF RP!Ack
<1>3. ASSUME writeRelayCell' = writeRelayCell, RestInOrder(h),
             Linked(h)' + Held(h)' = Linked(h) + Held(h)
      PROVE  RestInOrder(h)'
  <2> SUFFICES ASSUME NEW i \in 1 .. Len(writeRelayCell), writeRelayCell[i] \in RP!AckTo(h)
               PROVE  writeRelayCell[i].digest =
                 RP!Ack(h, Linked(h) + Held(h) + RP!CountTo(writeRelayCell, RP!AckTo(h), i))'
    BY <1>1, <1>3 DEF RestInOrder
  <2>1. writeRelayCell[i].digest =
          RP!Ack(h, Linked(h) + Held(h) + RP!CountTo(writeRelayCell, RP!AckTo(h), i))
    BY <1>3 DEF RestInOrder
  <2>2. RP!CountTo(writeRelayCell, RP!AckTo(h), i)' = RP!CountTo(writeRelayCell, RP!AckTo(h), i)
    BY <1>1, <1>3
  <2> QED BY <1>3, <2>1, <2>2 DEF RP!Ack
<1>4. uplink' = uplink => Linked(h)' = Linked(h)
  BY <1>1 DEF Linked
<1>5. ASSUME writer'.cell = writer.cell, Linked(h)' = Linked(h)
      PROVE  (HandInOrder(h) => HandInOrder(h)') /\ Held(h)' = Held(h)
  BY <1>1, <1>5 DEF HandInOrder, Held, RP!Ack
<1> QED BY <1>2, <1>3, <1>4, <1>5

\* readloop, a manager or a relay does something on its own.
LEMMA RecvOwnStep ==
  ASSUME RecvInv, UNCHANGED sndOnly, UNCHANGED uplink, NEW h \in Hops,
         \/ Rcv!RelaySend(h) \/ Rcv!ReadData \/ Rcv!ManagerTake(h)
         \/ Rcv!ManagerIncrease(h) \/ Rcv!ManagerExit(h)
  PROVE  RecvInv'
<1> PICK N \in [Hops -> Nat] : RP!HalfInv(N) /\ \A g \in Hops : N[g] = OnTheWay(g)
  BY WayOfInv
<1>1. UNCHANGED <<writeRelayCell, writer, uplink, cause, relayCredit, live>>
  BY DEF sndOnly, Rcv!RelaySend, Rcv!ReadData, Rcv!ManagerTake, Rcv!ManagerIncrease, Rcv!ManagerExit
<1>2. RP!HalfInv(N)'
  <2>1. h \in RP!Hops /\ N \in [RP!Hops -> Nat]
    BY RecvAssumptions
  <2>2. CASE Rcv!RelaySend(h)
    BY <2>1, <2>2, RecvAssumptions, RecvActions, RP!RelaySendStep
  <2>3. CASE Rcv!ReadData
    BY <2>1, <2>3, RecvAssumptions, RecvActions, RP!ReadStep
  <2>4. CASE Rcv!ManagerTake(h)
    BY <2>1, <2>4, RecvAssumptions, RecvActions, RP!ManagerTakeStep
  <2>5. CASE Rcv!ManagerIncrease(h)
    BY <2>1, <2>5, RecvAssumptions, RecvActions, RP!ManagerIncreaseStep
  <2>6. CASE Rcv!ManagerExit(h)
    BY <2>1, <2>6, RecvAssumptions, RecvActions, RP!ManagerExitStep
  <2> QED BY <2>2, <2>3, <2>4, <2>5, <2>6
<1>3. ASSUME NEW g \in Hops
      PROVE  /\ Linked(g)' = Linked(g) /\ Held(g)' = Held(g) /\ OnTheWay(g)' = OnTheWay(g)
             /\ \A k : RP!Ack(g, k)' = RP!Ack(g, k)
  BY <1>1 DEF Linked, Held, OnTheWay, RP!QueuedFor, RP!AckTo, RP!Ack
<1>4. RP!HalfInv([g \in Hops |-> OnTheWay(g)])'
  BY <1>2, <1>3, InvOfWay
<1>5. WayInOrder => WayInOrder'
  BY <1>1, <1>3, OrderKept DEF WayInOrder
<1>6. Shape'
  BY <1>1 DEF RecvInv, Shape
<1> QED BY <1>1, <1>4, <1>5, <1>6 DEF RecvInv

\* The steps that move no SENDME: writeLoop lets go of a DATA cell or of
\* nothing, a SENDME of the other direction is read, the circuit ends.
LEMMA WayQuietStep ==
  ASSUME RecvInv, UNCHANGED <<rcvOnly, uplink, writeRelayCell>>, Shape',
         \/ writer'.cell = writer.cell
         \/ \A g \in Hops : writer.cell \notin RP!AckTo(g) /\ writer'.cell \notin RP!AckTo(g),
         cause' = cause \/ (cause' \notin {"none", "destroyed"})
  PROVE  RecvInv'
<1> PICK N \in [Hops -> Nat] : RP!HalfInv(N) /\ \A g \in Hops : N[g] = OnTheWay(g)
  BY WayOfInv
<1>1. UNCHANGED <<inbound, live, rcv, manager, relaySent, relayCredit>> /\ live = Streams
  BY DEF rcvOnly, RecvInv
<1>2. RP!HalfInv(N)'
  <2>1. N \in [RP!Hops -> Nat] /\ live' \subseteq live /\ (cause' = "none" => cause = "none")
    BY <1>1, RecvAssumptions
  <2> QED BY <1>1, <2>1, RecvAssumptions, RP!EndStep
<1>3. ASSUME NEW g \in Hops
      PROVE  /\ Linked(g)' = Linked(g) /\ Held(g)' = Held(g) /\ OnTheWay(g)' = OnTheWay(g)
             /\ \A k : RP!Ack(g, k)' = RP!Ack(g, k)
  BY <1>1 DEF Linked, Held, OnTheWay, RP!QueuedFor, RP!AckTo, RP!Ack
<1>4. RP!HalfInv([g \in Hops |-> OnTheWay(g)])'
  BY <1>2, <1>3, InvOfWay
<1>5. ASSUME WayInOrder, NEW g \in Hops PROVE LinkInOrder(g)' /\ HandInOrder(g)' /\ RestInOrder(g)'
  <2>1. LinkInOrder(g) /\ HandInOrder(g) /\ RestInOrder(g)
    BY <1>5 DEF WayInOrder
  <2>2. HandInOrder(g)'
    BY <1>3, <2>1 DEF HandInOrder, RP!AckTo
  <2> QED BY <1>1, <1>3, <2>1, <2>2, OrderKept
<1>6. WayInOrder => WayInOrder'
  BY <1>5 DEF WayInOrder
<1> QED BY <1>1, <1>4, <1>6 DEF RecvInv

\* A cell joins WriteRelayCell.
LEMMA QueueGrows ==
  ASSUME RecvInv, NEW cell \in RP!RelayOut, writeRelayCell' = Append(writeRelayCell, cell),
         UNCHANGED <<relayCredit, uplink, writer>>, NEW h \in Hops
  PROVE  /\ OnTheWay(h)' = OnTheWay(h) + (IF cell \in RP!AckTo(h) THEN 1 ELSE 0)
         /\ Linked(h)' = Linked(h) /\ Held(h)' = Held(h)
         /\ (cell \in RP!AckTo(h) => cell.digest = RP!Ack(h, OnTheWay(h) + 1)) /\ RestInOrder(h)
              => RestInOrder(h)'
<1> DEFINE q == writeRelayCell
           T == RP!AckTo(h)
<1>1. q \in Seq(RP!RelayOut) /\ Len(q) \in Nat
  BY LenProperties DEF RecvInv, Shape
<1>2. /\ Linked(h) \in Nat /\ Held(h) \in Nat /\ RP!Count(q, T) \in Nat
      /\ OnTheWay(h) = Linked(h) + Held(h) + RP!Count(q, T)
  BY WayOfInv DEF OnTheWay, RP!QueuedFor
<1>3. /\ Linked(h)' = Linked(h) /\ Held(h)' = Held(h) /\ OnTheWay(h)' = Linked(h) + Held(h) + RP!Count(q', T)
  BY DEF Linked, Held, RP!AckTo, OnTheWay, RP!QueuedFor
<1>4. /\ RP!Count(q', T) = RP!Count(q, T) + (IF cell \in T THEN 1 ELSE 0)
      /\ \A i \in 0 .. Len(q) : RP!CountTo(q', T, i) = RP!CountTo(q, T, i)
  <2> HIDE DEF q, T
  <2>1. /\ RP!Count(Append(q, cell), T) = RP!Count(q, T) + (IF cell \in T THEN 1 ELSE 0)
        /\ \A i \in 0 .. Len(q) : RP!CountTo(Append(q, cell), T, i) = RP!CountTo(q, T, i)
    BY <1>1, RecvAssumptions, RP!CountAppend
  <2> QED BY <2>1 DEF q
<1>5. OnTheWay(h)' = OnTheWay(h) + (IF cell \in T THEN 1 ELSE 0)
  <2> HIDE DEF q, T
  <2>1. CASE cell \in T
    BY <1>2, <1>3, <1>4, <2>1
  <2>2. CASE cell \notin T
    BY <1>2, <1>3, <1>4, <2>2
  <2> QED BY <2>1, <2>2
<1>6. ASSUME cell \in T => cell.digest = RP!Ack(h, OnTheWay(h) + 1), RestInOrder(h)
      PROVE  RestInOrder(h)'
  <2> SUFFICES ASSUME NEW i \in 1 .. Len(q'), q'[i] \in T
               PROVE  q'[i].digest = RP!Ack(h, Linked(h) + Held(h) + RP!CountTo(q', T, i))
    BY <1>3 DEF RestInOrder, RP!AckTo, RP!Ack
  <2>1. /\ Len(q') = Len(q) + 1 /\ q'[Len(q) + 1] = cell /\ \A j \in 1 .. Len(q) : q'[j] = q[j]
    BY <1>1, AppendProperties
  <2>2. CASE i \in 1 .. Len(q)
    <3>1. i \in 0 .. Len(q) /\ q'[i] = q[i]
      BY <1>1, <2>1, <2>2
    <3>2. q[i].digest = RP!Ack(h, Linked(h) + Held(h) + RP!CountTo(q, T, i))
      BY <1>6, <2>2, <3>1 DEF RestInOrder
    <3> HIDE DEF q, T
    <3> QED BY <1>4, <3>1, <3>2
  <2>3. CASE i \notin 1 .. Len(q)
    <3>1. i = Len(q) + 1 /\ q'[i] = cell
      BY <1>1, <2>1, <2>3
    <3>2. RP!CountTo(q', T, i) = RP!Count(q', T)
      BY <2>1, <3>1 DEF RP!Count
    <3> HIDE DEF q, T
    <3>3. RP!Count(q', T) = RP!Count(q, T) + 1
      BY <1>4, <3>1
    <3>4. OnTheWay(h) + 1 = Linked(h) + Held(h) + RP!Count(q', T)
      BY <1>2, <3>3
    <3> QED BY <1>6, <3>1, <3>2, <3>4
  <2> QED BY <2>2, <2>3
<1> QED BY <1>3, <1>5, <1>6

\* sendmeManage puts a SENDME with the digest that comes next.
LEMMA RecvPutStep ==
  ASSUME RecvInv, UNCHANGED sndOnly, UNCHANGED uplink, NEW h \in Hops, Rcv!ManagerPut(h)
  PROVE  RecvInv'
<1> DEFINE cell == [dst |-> h, cmd |-> "SENDME", digest |-> manager[h].digest]
<1> PICK N \in [Hops -> Nat] : RP!HalfInv(N) /\ \A g \in Hops : N[g] = OnTheWay(g)
  BY WayOfInv
<1>1. /\ manager[h].pc = "put" /\ manager' = [manager EXCEPT ![h].pc = "increase"]
      /\ writeRelayCell' = Append(writeRelayCell, cell)
      /\ UNCHANGED <<inbound, live, rcv, cause, relaySent, relayCredit, writer, uplink>>
  BY DEF Rcv!ManagerPut, sndOnly
<1>2. manager[h].digest \in Nat
  <2>1. RP!HalfType /\ h \in RP!Hops
    BY WayOfInv, RecvAssumptions
  <2> QED BY <2>1, RecvAssumptions, RP!HopFacts
<1>3. cell \in RP!RelayOut /\ \A g \in Hops : cell \in RP!AckTo(g) <=> g = h
  BY <1>2, RecvAssumptions DEF RP!RelayOut, RP!AckTo
<1>4. cell.digest = manager[h].digest
  OBVIOUS
<1> HIDE DEF cell
<1> DEFINE M == [N EXCEPT ![h] = @ + 1]
<1>5. RP!HalfInv(M)' /\ (RP!InStep => cell.digest = RP!Ack(h, OnTheWay(h) + 1))
  <2>1. h \in RP!Hops /\ N \in [RP!Hops -> Nat] /\ N[h] = OnTheWay(h)
    BY RecvAssumptions
  <2>2. /\ RP!HalfInv(M)'
        /\ RP!InStep => manager[h].digest = RP!Ack(h, N[h] + 1)
    BY <1>1, <2>1, RecvAssumptions, RP!ManagerPutStep
  <2> HIDE DEF M
  <2> QED BY <1>4, <2>1, <2>2
<1>6. ASSUME NEW g \in Hops
      PROVE  /\ OnTheWay(g)' = OnTheWay(g) + (IF g = h THEN 1 ELSE 0)
             /\ Linked(g)' = Linked(g) /\ Held(g)' = Held(g)
             /\ (g = h => cell.digest = RP!Ack(h, OnTheWay(h) + 1)) /\ RestInOrder(g)
                  => RestInOrder(g)'
  BY <1>1, <1>3, QueueGrows
<1>7. \A g \in Hops : M[g] = OnTheWay(g)'
  <2>1. \A g \in Hops : M[g] = N[g] + (IF g = h THEN 1 ELSE 0)
    OBVIOUS
  <2> HIDE DEF M
  <2> QED BY <1>6, <2>1
<1>8. RP!HalfInv([g \in Hops |-> OnTheWay(g)])'
  <2>1. M \in [Hops -> Nat]
    OBVIOUS
  <2> HIDE DEF M
  <2> QED BY <1>5, <1>7, <2>1, InvOfWay
<1>9. cause' = "none" => WayInOrder'
  <2> SUFFICES ASSUME cause' = "none", NEW g \in Hops
               PROVE  LinkInOrder(g)' /\ HandInOrder(g)' /\ RestInOrder(g)'
    BY DEF WayInOrder
  <2>1. LinkInOrder(g) /\ HandInOrder(g) /\ RestInOrder(g) /\ RP!InStep
    BY <1>1 DEF RecvInv, WayInOrder, RP!InStep
  <2> QED BY <1>1, <1>5, <1>6, <2>1, OrderKept
<1>10. Shape'
  <2>1. writeRelayCell' \in Seq(RP!RelayOut)
    BY <1>1, <1>3, AppendProperties DEF RecvInv, Shape
  <2> QED BY <1>1, <2>1 DEF RecvInv, Shape
<1> QED BY <1>1, <1>8, <1>9, <1>10 DEF RecvInv

\* A stream puts DATA between the SENDMEs.
LEMMA RecvOfferStep ==
  ASSUME RecvInv, NEW h \in Hops, Snd!OfferData(h), UNCHANGED <<rcvOnly, uplink>>
  PROVE  RecvInv'
<1> DEFINE cell == [dst |-> h, cmd |-> "DATA", digest |-> Snd!NoDigest]
<1> PICK N \in [Hops -> Nat] : RP!HalfInv(N) /\ \A g \in Hops : N[g] = OnTheWay(g)
  BY WayOfInv
<1>1. /\ writeRelayCell' = Append(writeRelayCell, cell)
      /\ UNCHANGED <<inbound, live, rcv, manager, cause, relaySent, relayCredit, writer, uplink>>
  BY DEF Snd!OfferData, Snd!Enqueue, rcvOnly
<1>2. cell \in RP!RelayOut /\ \A g \in Hops : cell \notin RP!AckTo(g)
  BY RecvAssumptions DEF RP!RelayOut, RP!AckTo, Snd!NoDigest
<1> HIDE DEF cell
<1>3. RP!HalfInv(N)'
  <2>1. N \in [RP!Hops -> Nat] /\ live' \subseteq live /\ (cause' = "none" => cause = "none")
    BY <1>1, RecvAssumptions
  <2> QED BY <1>1, <2>1, RecvAssumptions, RP!EndStep
<1>4. ASSUME NEW g \in Hops
      PROVE  /\ OnTheWay(g)' = OnTheWay(g)
             /\ Linked(g)' = Linked(g) /\ Held(g)' = Held(g)
             /\ RestInOrder(g) => RestInOrder(g)'
  <2>1. /\ OnTheWay(g)' = OnTheWay(g) + 0 /\ OnTheWay(g) \in Nat
        /\ Linked(g)' = Linked(g) /\ Held(g)' = Held(g)
        /\ RestInOrder(g) => RestInOrder(g)'
    BY <1>1, <1>2, QueueGrows, WayOfInv
  <2> QED BY <2>1
<1>5. RP!HalfInv([g \in Hops |-> OnTheWay(g)])'
  BY <1>3, <1>4, InvOfWay
<1>6. WayInOrder => WayInOrder'
  <2> SUFFICES ASSUME WayInOrder, NEW g \in Hops
               PROVE  LinkInOrder(g)' /\ HandInOrder(g)' /\ RestInOrder(g)'
    BY DEF WayInOrder
  <2>1. LinkInOrder(g) /\ HandInOrder(g) /\ RestInOrder(g)
    BY DEF WayInOrder
  <2> QED BY <1>1, <1>4, <2>1, OrderKept
<1>7. Shape'
  <2>1. writeRelayCell' \in Seq(RP!RelayOut)
    BY <1>1, <1>2, AppendProperties DEF RecvInv, Shape
  <2> QED BY <1>1, <2>1 DEF RecvInv, Shape
<1> QED BY <1>1, <1>5, <1>6, <1>7 DEF RecvInv

\* What a queue loses at the front.
LEMMA Shorter ==
  ASSUME NEW S, NEW q \in Seq(S), q # <<>>
  PROVE  /\ Head(q) \in S /\ Tail(q) \in Seq(S) /\ Head(q) = q[1]
         /\ Len(Tail(q)) \in Nat /\ Len(q) = Len(Tail(q)) + 1
         /\ \A i \in 1 .. Len(Tail(q)) : Tail(q)[i] = q[i + 1]
<1>1. Head(q) \in S /\ Tail(q) \in Seq(S) /\ Head(q) = q[1]
  BY HeadTailProperties
<1>2. /\ Len(Tail(q)) \in Nat /\ Len(q) = Len(Tail(q)) + 1
      /\ \A i \in 1 .. Len(Tail(q)) : Tail(q)[i] = q[i + 1]
  OBVIOUS
<1> QED BY <1>1, <1>2

LEMMA ShorterCount ==
  ASSUME NEW S, NEW q \in Seq(S), q # <<>>, NEW T
  PROVE  /\ RP!Count(q, T) = RP!Count(Tail(q), T) + (IF q[1] \in T THEN 1 ELSE 0)
         /\ \A i \in 0 .. Len(Tail(q)) :
              RP!CountTo(q, T, i + 1) = RP!CountTo(Tail(q), T, i) + (IF q[1] \in T THEN 1 ELSE 0)
         /\ RP!Count(Tail(q), T) \in Nat
         /\ RP!CountTo(Tail(q), T, 0) = 0
         /\ \A i \in Nat : RP!CountTo(Tail(q), T, i) \in Nat
<1>1. Tail(q) \in Seq(S) /\ Head(q) = q[1]
  BY Shorter
<1>2. /\ RP!Count(q, T) = RP!Count(Tail(q), T) + (IF q[1] \in T THEN 1 ELSE 0)
      /\ \A i \in 0 .. Len(Tail(q)) :
           RP!CountTo(q, T, i + 1) = RP!CountTo(Tail(q), T, i) + (IF q[1] \in T THEN 1 ELSE 0)
  BY <1>1, RecvAssumptions, RP!CountTail
<1>3. RP!Count(Tail(q), T) \in Nat
  BY <1>1, RecvAssumptions, RP!CountType
<1>4. ASSUME NEW i \in Nat PROVE RP!CountTo(Tail(q), T, i) \in Nat /\ RP!CountTo(Tail(q), T, 0) = 0
  BY RecvAssumptions, RP!CountToType
<1>5. RP!CountTo(Tail(q), T, 0) = 0
  BY <1>4
<1> QED BY <1>2, <1>3, <1>4, <1>5

\* writeLoop takes the first cell into its hands.
LEMMA RecvTakeStep ==
  ASSUME RecvInv, Snd!WriterTake, UNCHANGED <<rcvOnly, uplink>>
  PROVE  RecvInv'
<1> DEFINE q == writeRelayCell
           T(g) == RP!AckTo(g)
<1> PICK N \in [Hops -> Nat] : RP!HalfInv(N) /\ \A g \in Hops : N[g] = OnTheWay(g)
  BY WayOfInv
<1>1. /\ q \in Seq(RP!RelayOut) /\ q # <<>> /\ q' = Tail(q)
      /\ writer.pc = "idle" /\ writer.cell = Snd!NoCell
      /\ UNCHANGED <<inbound, live, rcv, manager, relaySent, relayCredit, uplink>>
  BY DEF Snd!WriterTake, rcvOnly, RecvInv, Shape
<1>2. /\ Head(q) \in RP!RelayOut /\ q' \in Seq(RP!RelayOut) /\ Head(q) = q[1]
      /\ Len(q') \in Nat /\ Len(q) = Len(q') + 1 /\ \A i \in 1 .. Len(q') : q'[i] = q[i + 1]
  BY <1>1, Shorter
<1>3. /\ writer' \in [pc : {"waitSendMe", "send"}, cell : {q[1]}]
      /\ writer'.pc = "waitSendMe" => q[1].cmd = "DATA"
      /\ cause' = cause
  <2>1. Head(q).dst \in Snd!Hops
    BY <1>2, RecvAssumptions DEF RP!RelayOut, Snd!Hops, Hops
  <2>2. CASE Head(q).cmd = "DATA"
    BY <1>2, <2>1, <2>2 DEF Snd!WriterTake
  <2>3. CASE Head(q).cmd # "DATA"
    BY <1>2, <2>1, <2>3 DEF Snd!WriterTake
  <2> QED BY <2>2, <2>3
<1>4. RP!HalfInv(N)'
  <2>1. N \in [RP!Hops -> Nat] /\ live' \subseteq live /\ (cause' = "none" => cause = "none")
    BY <1>1, <1>3, RecvAssumptions
  <2> QED BY <1>1, <2>1, RecvAssumptions, RP!EndStep
<1>5. \A g \in Hops : Snd!NoCell \notin T(g)
  BY DEF Snd!NoCell, RP!AckTo
<1>6. ASSUME NEW g \in Hops
      PROVE  /\ Linked(g)' = Linked(g) /\ Held(g) = 0 /\ Linked(g) \in Nat
             /\ Held(g)' = (IF q[1] \in T(g) THEN 1 ELSE 0)
             /\ RP!QueuedFor(g) = RP!QueuedFor(g)' + Held(g)'
             /\ \A i \in 0 .. Len(q') : RP!CountTo(q, T(g), i + 1) = RP!CountTo(q', T(g), i) + Held(g)'
             /\ RP!QueuedFor(g)' \in Nat /\ RP!CountTo(q', T(g), 0) = 0
             /\ \A i \in Nat : RP!CountTo(q', T(g), i) \in Nat
  <2>1. Linked(g)' = Linked(g) /\ Held(g) = 0 /\ Held(g)' = (IF q[1] \in T(g) THEN 1 ELSE 0)
    BY <1>1, <1>3, <1>5 DEF Linked, Held, RP!AckTo
  <2>2. RP!QueuedFor(g) = RP!Count(q, T(g)) /\ RP!QueuedFor(g)' = RP!Count(q', T(g))
    BY DEF RP!QueuedFor, RP!AckTo
  <2>3. Linked(g) \in Nat
    BY WayOfInv
  <2> HIDE DEF q, T
  <2>4. /\ RP!Count(q, T(g)) = RP!Count(Tail(q), T(g)) + (IF q[1] \in T(g) THEN 1 ELSE 0)
        /\ \A i \in 0 .. Len(Tail(q)) :
             RP!CountTo(q, T(g), i + 1) = RP!CountTo(Tail(q), T(g), i) + (IF q[1] \in T(g) THEN 1 ELSE 0)
        /\ RP!Count(Tail(q), T(g)) \in Nat /\ RP!CountTo(Tail(q), T(g), 0) = 0
        /\ \A i \in Nat : RP!CountTo(Tail(q), T(g), i) \in Nat
    BY <1>1, ShorterCount, ZenonT(30)
  <2> QED BY <1>1, <2>1, <2>2, <2>3, <2>4
<1>7. \A g \in Hops : OnTheWay(g)' = OnTheWay(g)
  <2> SUFFICES ASSUME NEW g \in Hops PROVE OnTheWay(g)' = OnTheWay(g)
    OBVIOUS
  <2>1. Held(g)' \in {0, 1}
    BY <1>6
  <2>2. /\ Linked(g)' = Linked(g) /\ Held(g) = 0 /\ Linked(g) \in Nat
        /\ RP!QueuedFor(g) = RP!QueuedFor(g)' + Held(g)' /\ RP!QueuedFor(g)' \in Nat
    BY <1>6
  <2> QED BY <2>1, <2>2 DEF OnTheWay
<1>8. RP!HalfInv([g \in Hops |-> OnTheWay(g)])'
  BY <1>4, <1>7, InvOfWay
<1>9. ASSUME WayInOrder, NEW g \in Hops
      PROVE  LinkInOrder(g)' /\ HandInOrder(g)' /\ RestInOrder(g)'
  <2>1. LinkInOrder(g) /\ RestInOrder(g)
    BY <1>9 DEF WayInOrder
  <2>2. \A k : RP!Ack(g, k)' = RP!Ack(g, k)
    BY <1>1 DEF RP!Ack
  <2>3. ASSUME NEW i \in 0 .. Len(q'), q[i + 1] \in T(g)
        PROVE  q[i + 1].digest = RP!Ack(g, Linked(g) + (RP!CountTo(q', T(g), i) + Held(g)'))
    <3>1. i + 1 \in 1 .. Len(q)
      BY <1>2
    <3>2. q[i + 1].digest = RP!Ack(g, Linked(g) + Held(g) + RP!CountTo(q, T(g), i + 1))
      BY <2>1, <2>3, <3>1 DEF RestInOrder
    <3>3. Held(g) = 0 /\ RP!CountTo(q, T(g), i + 1) = RP!CountTo(q', T(g), i) + Held(g)' /\ Linked(g) \in Nat
      BY <1>6
    <3>4. Linked(g) + 0 = Linked(g)
      BY <3>3
    <3> HIDE DEF q, T
    <3> QED BY <3>2, <3>3, <3>4
  <2>4. HandInOrder(g)'
    <3> SUFFICES ASSUME q[1] \in T(g) PROVE q[1].digest = RP!Ack(g, Linked(g) + 1)
      BY <1>3, <1>6, <2>2 DEF HandInOrder, RP!AckTo
    <3>1. 0 \in 0 .. Len(q') /\ 0 + 1 = 1
      BY <1>2
    <3>2. q[1].digest = RP!Ack(g, Linked(g) + (RP!CountTo(q', T(g), 0) + Held(g)'))
      BY <2>3, <3>1
    <3>3. RP!CountTo(q', T(g), 0) = 0 /\ Held(g)' = 1
      BY <1>6
    <3>4. 0 + 1 = 1
      OBVIOUS
    <3> HIDE DEF q, T
    <3> QED BY <3>2, <3>3, <3>4
  <2>5. RestInOrder(g)'
    <3> SUFFICES ASSUME NEW i \in 1 .. Len(q'), q'[i] \in T(g)
                 PROVE  q'[i].digest = RP!Ack(g, Linked(g)' + Held(g)' + RP!CountTo(q', T(g), i))
      BY <2>2 DEF RestInOrder, RP!AckTo, RP!Ack
    <3>1. i \in 0 .. Len(q') /\ i \in Nat /\ q'[i] = q[i + 1]
      BY <1>2
    <3>2. q[i + 1].digest = RP!Ack(g, Linked(g) + (RP!CountTo(q', T(g), i) + Held(g)'))
      BY <2>3, <3>1
    <3>3. RP!CountTo(q', T(g), i) \in Nat /\ Held(g)' \in {0, 1} /\ Linked(g) \in Nat /\ Linked(g)' = Linked(g)
      BY <1>6, <3>1
    <3> HIDE DEF q, T
    <3>4. Linked(g)' + Held(g)' + RP!CountTo(q', T(g), i) = Linked(g) + (RP!CountTo(q', T(g), i) + Held(g)')
      BY <3>3
    <3> QED BY <3>1, <3>2, <3>4
  <2> QED BY <1>1, <2>1, <2>4, <2>5, OrderKept
<1>10. cause' = "none" => WayInOrder'
  BY <1>3, <1>9 DEF RecvInv, WayInOrder
<1>11. Shape'
  BY <1>1, <1>2, <1>3 DEF RecvInv, Shape
<1> QED BY <1>1, <1>3, <1>8, <1>10, <1>11 DEF RecvInv

\* A SENDME put at the end of a queue adds itself to the count, and to no count before it.
LEMMA LongerCount ==
  ASSUME NEW S, NEW r \in Seq(S), NEW e \in S, NEW T
  PROVE  /\ RP!Count(Append(r, e), T) = RP!Count(r, T) + (IF e \in T THEN 1 ELSE 0)
         /\ \A i \in 0 .. Len(r) : RP!CountTo(Append(r, e), T, i) = RP!CountTo(r, T, i)
BY RecvAssumptions, RP!CountAppend

\* ... and puts a SENDME on the link.
LEMMA RecvSendStep ==
  ASSUME RecvInv, SendSendMe
  PROVE  RecvInv'
<1> DEFINE q == uplink
           cell == writer.cell
           T(g) == RP!AckTo(g)
<1> PICK N \in [Hops -> Nat] : RP!HalfInv(N) /\ \A g \in Hops : N[g] = OnTheWay(g)
  BY WayOfInv
<1>1. /\ writer.pc = "send" /\ cell.cmd = "SENDME" /\ q' = Append(q, cell)
      /\ writer' = [pc |-> "idle", cell |-> Snd!NoCell]
      /\ UNCHANGED <<inbound, live, rcv, manager, relaySent, relayCredit, cause, writeRelayCell>>
  BY DEF SendSendMe, Snd!WriterSend, rcvOnly
<1>2. /\ q \in Seq(Acks) /\ cell \in Acks /\ Len(q) \in Nat
      /\ Len(q') = Len(q) + 1 /\ q'[Len(q) + 1] = cell /\ \A i \in 1 .. Len(q) : q'[i] = q[i]
      /\ q' \in Seq(Acks)
  <2>1. q \in Seq(Acks) /\ cell \in RP!RelayOut \cup {Snd!NoCell}
    BY DEF RecvInv, Shape
  <2>2. cell \in Acks
    BY <1>1, <2>1, RecvAssumptions DEF RP!RelayOut, Snd!NoCell, Acks
  <2> HIDE DEF cell
  <2> QED BY <1>1, <2>1, <2>2, AppendProperties, LenProperties
<1>3. RP!HalfInv(N)'
  <2>1. N \in [RP!Hops -> Nat] /\ live' \subseteq live /\ (cause' = "none" => cause = "none")
    BY <1>1, RecvAssumptions
  <2> QED BY <1>1, <2>1, RecvAssumptions, RP!EndStep
<1>4. \A g \in Hops : Snd!NoCell \notin T(g)
  BY DEF Snd!NoCell, RP!AckTo
<1>5. ASSUME NEW g \in Hops
      PROVE  /\ Linked(g)' = Linked(g) + Held(g) /\ Held(g)' = 0
             /\ Held(g) = (IF cell \in T(g) THEN 1 ELSE 0)
             /\ RP!QueuedFor(g)' = RP!QueuedFor(g)
             /\ \A i \in 0 .. Len(q) : RP!CountTo(q', T(g), i) = RP!CountTo(q, T(g), i)
             /\ RP!CountTo(q', T(g), Len(q) + 1) = Linked(g)'
             /\ Linked(g) \in Nat /\ Held(g) \in {0, 1} /\ RP!QueuedFor(g) \in Nat
  <2>1. /\ Held(g)' = 0 /\ Held(g) = (IF cell \in T(g) THEN 1 ELSE 0)
        /\ RP!QueuedFor(g)' = RP!QueuedFor(g)
    BY <1>1, <1>4 DEF Held, RP!QueuedFor, RP!AckTo
  <2>2. Linked(g) = RP!Count(q, T(g)) /\ Linked(g)' = RP!Count(q', T(g))
    BY DEF Linked, RP!AckTo
  <2>3. Linked(g) \in Nat /\ Held(g) \in {0, 1} /\ RP!QueuedFor(g) \in Nat
    BY WayOfInv
  <2>4. RP!CountTo(q', T(g), Len(q) + 1) = RP!Count(q', T(g))
    BY <1>2 DEF RP!Count
  <2> HIDE DEF q, T, cell
  <2>5. /\ RP!Count(Append(q, cell), T(g)) = RP!Count(q, T(g)) + (IF cell \in T(g) THEN 1 ELSE 0)
        /\ \A i \in 0 .. Len(q) : RP!CountTo(Append(q, cell), T(g), i) = RP!CountTo(q, T(g), i)
    <3>1. q \in Seq(Acks)
      BY <1>2
    <3>2. cell \in Acks
      BY <1>2
    <3> QED BY <3>1, <3>2, LongerCount
  <2> QED BY <1>1, <2>1, <2>2, <2>3, <2>4, <2>5
<1>6. ASSUME NEW g \in Hops PROVE OnTheWay(g)' = OnTheWay(g) /\ Linked(g)' + Held(g)' = Linked(g) + Held(g)
  <2>1. /\ Linked(g)' = Linked(g) + Held(g) /\ Held(g)' = 0
        /\ RP!QueuedFor(g)' = RP!QueuedFor(g)
        /\ Linked(g) \in Nat /\ Held(g) \in {0, 1} /\ RP!QueuedFor(g) \in Nat
    BY <1>5
  <2> QED BY <2>1 DEF OnTheWay
<1>7. RP!HalfInv([g \in Hops |-> OnTheWay(g)])'
  BY <1>3, <1>6, InvOfWay
<1>8. ASSUME WayInOrder, NEW g \in Hops
      PROVE  LinkInOrder(g)' /\ HandInOrder(g)' /\ RestInOrder(g)'
  <2>1. LinkInOrder(g) /\ HandInOrder(g) /\ RestInOrder(g)
    BY <1>8 DEF WayInOrder
  <2>2. HandInOrder(g)'
    BY <1>1, <1>4 DEF HandInOrder, RP!AckTo
  <2>3. LinkInOrder(g)'
    <3> SUFFICES ASSUME NEW i \in 1 .. Len(q'), q'[i] \in T(g)
                 PROVE  q'[i].digest = RP!Ack(g, RP!CountTo(q', T(g), i))
      BY <1>1 DEF LinkInOrder, RP!AckTo, RP!Ack
    <3>1. CASE i \in 1 .. Len(q)
      <4>1. i \in 0 .. Len(q) /\ q'[i] = q[i]
        BY <1>2, <3>1
      <4>2. q[i].digest = RP!Ack(g, RP!CountTo(q, T(g), i))
        BY <2>1, <3>1, <4>1 DEF LinkInOrder
      <4>3. RP!CountTo(q', T(g), i) = RP!CountTo(q, T(g), i)
        BY <1>5, <4>1
      <4> HIDE DEF q, T
      <4> QED BY <4>1, <4>2, <4>3
    <3>2. CASE i \notin 1 .. Len(q)
      <4>1. i = Len(q) + 1 /\ q'[i] = cell
        BY <1>2, <3>2
      <4>2. cell.digest = RP!Ack(g, Linked(g) + 1)
        BY <2>1, <4>1 DEF HandInOrder
      <4>3. RP!CountTo(q', T(g), i) = Linked(g)' /\ Linked(g)' = Linked(g) + 1
        BY <1>5, <4>1
      <4> HIDE DEF q, T, cell
      <4> QED BY <4>1, <4>2, <4>3
    <3> QED BY <3>1, <3>2
  <2> QED BY <1>1, <1>6, <2>1, <2>2, <2>3, OrderKept
<1>9. cause' = "none" => WayInOrder'
  BY <1>1, <1>8 DEF RecvInv, WayInOrder
<1>10. Shape'
  <2>1. writer' \in [pc : {"idle", "waitSendMe", "send", "done"}, cell : RP!RelayOut \cup {Snd!NoCell}]
    BY <1>1
  <2> QED BY <1>1, <1>2, <2>1 DEF RecvInv, Shape
<1> QED BY <1>1, <1>7, <1>9, <1>10 DEF RecvInv

\* The relay takes the first SENDME of the link: it is the one it expects.
LEMMA RecvArriveStep ==
  ASSUME RecvInv, RelayTake
  PROVE  RecvInv'
<1> DEFINE q == uplink
           T(g) == RP!AckTo(g)
<1> PICK N \in [Hops -> Nat] : RP!HalfInv(N) /\ \A g \in Hops : N[g] = OnTheWay(g)
  BY WayOfInv
<1>1. /\ q # <<>> /\ q \in Seq(Acks) /\ q' = Tail(q) /\ Rcv!RelayReceive(Head(q).dst, Head(q).digest)
      /\ UNCHANGED <<writer, inbound, live, rcv, manager, relaySent, writeRelayCell>>
  BY DEF RelayTake, sndOnly, RecvInv, Shape
<1>2. /\ Head(q) \in Acks /\ q' \in Seq(Acks) /\ Head(q) = q[1]
      /\ Len(q') \in Nat /\ Len(q) = Len(q') + 1 /\ \A i \in 1 .. Len(q') : q'[i] = q[i + 1]
  BY <1>1, Shorter
<1> PICK h \in Hops : q[1].dst = h
  BY <1>2 DEF Acks
<1> PICK d \in Nat : q[1].digest = d
  BY <1>2 DEF Acks
<1>3. \A g \in Hops : q[1] \in T(g) <=> g = h
  BY <1>2 DEF Acks, RP!AckTo
<1>4. ASSUME NEW g \in Hops
      PROVE  /\ Linked(g) = Linked(g)' + (IF g = h THEN 1 ELSE 0) /\ Held(g)' = Held(g)
             /\ RP!QueuedFor(g)' = RP!QueuedFor(g)
             /\ \A i \in 0 .. Len(q') :
                  RP!CountTo(q, T(g), i + 1) = RP!CountTo(q', T(g), i) + (IF g = h THEN 1 ELSE 0)
             /\ \A i \in Nat : RP!CountTo(q', T(g), i) \in Nat
             /\ RP!CountTo(q', T(g), 0) = 0
             /\ Linked(g)' \in Nat /\ Held(g) \in {0, 1} /\ RP!QueuedFor(g) \in Nat
  <2>1. Held(g)' = Held(g) /\ RP!QueuedFor(g)' = RP!QueuedFor(g)
    BY <1>1 DEF Held, RP!QueuedFor, RP!AckTo
  <2>2. Linked(g) = RP!Count(q, T(g)) /\ Linked(g)' = RP!Count(q', T(g))
    BY DEF Linked, RP!AckTo
  <2>3. Held(g) \in {0, 1} /\ RP!QueuedFor(g) \in Nat
    BY WayOfInv
  <2>4. q[1] \in T(g) <=> g = h
    BY <1>3
  <2> HIDE DEF q, T
  <2>5. /\ RP!Count(q, T(g)) = RP!Count(Tail(q), T(g)) + (IF q[1] \in T(g) THEN 1 ELSE 0)
        /\ \A i \in 0 .. Len(Tail(q)) :
             RP!CountTo(q, T(g), i + 1) = RP!CountTo(Tail(q), T(g), i) + (IF q[1] \in T(g) THEN 1 ELSE 0)
        /\ RP!Count(Tail(q), T(g)) \in Nat /\ RP!CountTo(Tail(q), T(g), 0) = 0
        /\ \A i \in Nat : RP!CountTo(Tail(q), T(g), i) \in Nat
    BY <1>1, ShorterCount, ZenonT(30)
  <2> QED BY <1>1, <2>1, <2>2, <2>3, <2>4, <2>5
<1> DEFINE M == [N EXCEPT ![h] = @ - 1]
<1>5. N[h] >= 1 /\ M \in [Hops -> Nat] /\ \A g \in Hops : M[g] = OnTheWay(g)'
  <2>1. ASSUME NEW g \in Hops
        PROVE  OnTheWay(g) = OnTheWay(g)' + (IF g = h THEN 1 ELSE 0) /\ OnTheWay(g)' \in Nat
    <3>1. /\ Linked(g) = Linked(g)' + (IF g = h THEN 1 ELSE 0) /\ Held(g)' = Held(g)
          /\ RP!QueuedFor(g)' = RP!QueuedFor(g)
          /\ Linked(g)' \in Nat /\ Held(g) \in {0, 1} /\ RP!QueuedFor(g) \in Nat
      BY <1>4
    <3> QED BY <3>1 DEF OnTheWay
  <2> QED BY <2>1
<1>6. /\ RP!HalfInv(M)'
      /\ RP!InStep' => relayCredit' = [relayCredit EXCEPT ![h] = @ + AddValue]
      /\ (SendMeVersion = 1 => d = RP!Ack(h, 1)) => cause' = cause
  <2>1. RP!RelayReceive(h, d)
    BY <1>1, <1>2, RecvActions
  <2>2. h \in RP!Hops /\ N \in [RP!Hops -> Nat]
    BY RecvAssumptions
  <2> QED BY <1>1, <1>5, <2>1, <2>2, RecvAssumptions, RP!RelayReceiveStep
<1>7. RP!HalfInv([g \in Hops |-> OnTheWay(g)])'
  <2> HIDE DEF M
  <2> QED BY <1>5, <1>6, InvOfWay
<1>8. cause' \in {cause, "destroyed"} /\ (cause # "none" => cause' = cause)
  BY <1>1 DEF Rcv!RelayReceive
<1>9. WayInOrder => d = RP!Ack(h, 1)
  <2> SUFFICES ASSUME WayInOrder PROVE d = RP!Ack(h, 1)
    OBVIOUS
  <2>1. 1 \in 1 .. Len(q) /\ 0 \in 0 .. Len(q') /\ 0 + 1 = 1
    BY <1>2
  <2>2. q[1].digest = RP!Ack(h, RP!CountTo(q, T(h), 1))
    BY <1>3, <2>1 DEF WayInOrder, LinkInOrder
  <2>3. RP!CountTo(q, T(h), 0 + 1) = RP!CountTo(q', T(h), 0) + 1 /\ RP!CountTo(q', T(h), 0) = 0
    BY <1>4, <2>1
  <2> HIDE DEF q, T
  <2> QED BY <2>1, <2>2, <2>3
<1>10. cause' # "destroyed"
  <2>1. cause = "none" => cause' = cause
    BY <1>6, <1>9 DEF RecvInv
  <2>2. cause # "destroyed"
    BY DEF RecvInv
  <2> QED BY <1>8, <2>1, <2>2
<1>11. ASSUME cause' = "none", NEW g \in Hops
       PROVE  LinkInOrder(g)' /\ HandInOrder(g)' /\ RestInOrder(g)'
  <2> DEFINE one == IF g = h THEN 1 ELSE 0
  <2>1. LinkInOrder(g) /\ HandInOrder(g) /\ RestInOrder(g)
    BY <1>8, <1>11 DEF RecvInv, WayInOrder
  <2>2. relayCredit' = [relayCredit EXCEPT ![h] = @ + AddValue] /\ relayCredit \in [Hops -> Nat]
    <3>1. RP!InStep'
      BY <1>1, <1>11 DEF RecvInv, RP!InStep
    <3>2. RP!HalfType
      BY WayOfInv
    <3> QED BY <1>6, <3>1, <3>2, RecvAssumptions DEF RP!HalfType
  <2>3. ASSUME NEW k \in Int PROVE RP!Ack(g, k + one) = relayCredit'[g] + RP!Cells(k)
    <3>1. RP!Cells(k + 1) = RP!Cells(k) + AddValue /\ RP!Cells(k) \in Int
      BY RecvAssumptions, RP!CellsNext
    <3>2. relayCredit[g] \in Nat /\ AddValue \in Nat
      BY <2>2, CircuitAssumption
    <3>3. CASE g = h
      BY <2>2, <3>1, <3>2, <3>3 DEF RP!Ack
    <3>4. CASE g # h
      <4>1. k + 0 = k
        OBVIOUS
      <4> QED BY <2>2, <3>1, <3>2, <3>4, <4>1 DEF RP!Ack
    <3> QED BY <3>3, <3>4
  <2>4. Linked(g) = Linked(g)' + one /\ Held(g)' = Held(g) /\ Linked(g)' \in Nat /\ Held(g) \in {0, 1}
    BY <1>4
  <2> HIDE DEF one
  <2>5. one \in {0, 1}
    BY DEF one
  <2>6. LinkInOrder(g)'
    <3> SUFFICES ASSUME NEW i \in 1 .. Len(q'), q'[i] \in T(g)
                 PROVE  q'[i].digest = relayCredit'[g] + RP!Cells(RP!CountTo(q', T(g), i))
      BY DEF LinkInOrder, RP!AckTo, RP!Ack, RP!Cells
    <3>1. i + 1 \in 1 .. Len(q) /\ i \in 0 .. Len(q') /\ i \in Nat /\ q'[i] = q[i + 1]
      BY <1>2
    <3>2. q[i + 1].digest = RP!Ack(g, RP!CountTo(q, T(g), i + 1))
      BY <2>1, <3>1 DEF LinkInOrder
    <3>3. RP!CountTo(q, T(g), i + 1) = RP!CountTo(q', T(g), i) + one /\ RP!CountTo(q', T(g), i) \in Int
      BY <1>4, <3>1 DEF one
    <3> HIDE DEF q, T
    <3> QED BY <2>3, <3>1, <3>2, <3>3
  <2>7. HandInOrder(g)'
    <3> SUFFICES ASSUME writer.cell \in T(g)
                 PROVE  writer.cell.digest = relayCredit'[g] + RP!Cells(Linked(g)' + 1)
      BY <1>1 DEF HandInOrder, RP!AckTo, RP!Ack, RP!Cells
    <3>1. writer.cell.digest = RP!Ack(g, Linked(g) + 1)
      BY <2>1 DEF HandInOrder
    <3>2. Linked(g) + 1 = (Linked(g)' + 1) + one /\ Linked(g)' + 1 \in Int
      BY <2>4, <2>5
    <3> QED BY <2>3, <3>1, <3>2
  <2>8. RestInOrder(g)'
    <3> DEFINE r == writeRelayCell
    <3> SUFFICES ASSUME NEW i \in 1 .. Len(r), r[i] \in T(g)
                 PROVE  r[i].digest = relayCredit'[g]
                          + RP!Cells(Linked(g)' + Held(g)' + RP!CountTo(r, T(g), i))
      BY <1>1 DEF RestInOrder, RP!AckTo, RP!Ack, RP!Cells
    <3>1. r[i].digest = RP!Ack(g, Linked(g) + Held(g) + RP!CountTo(r, T(g), i))
      BY <2>1 DEF RestInOrder
    <3>2. RP!CountTo(r, T(g), i) \in Nat
      <4>1. i \in Nat
        OBVIOUS
      <4> HIDE DEF r, T
      <4> QED BY <4>1, RecvAssumptions, RP!CountToType
    <3> HIDE DEF r, T
    <3>3. /\ Linked(g) + Held(g) + RP!CountTo(r, T(g), i)
               = (Linked(g)' + Held(g)' + RP!CountTo(r, T(g), i)) + one
          /\ Linked(g)' + Held(g)' + RP!CountTo(r, T(g), i) \in Int
      BY <2>4, <2>5, <3>2
    <3> QED BY <2>3, <3>1, <3>3
  <2> QED BY <2>6, <2>7, <2>8
<1>12. Shape'
  BY <1>1, <1>2 DEF RecvInv, Shape
<1> QED BY <1>1, <1>7, <1>10, <1>11, <1>12 DEF RecvInv, WayInOrder

LEMMA RecvNext ==
  ASSUME RecvInv, [Next]_vars
  PROVE  RecvInv'
<1>1. CASE RecvHalf
  BY <1>1, RecvOwnStep, RecvPutStep, CircuitAssumption DEF RecvHalf, Hops
<1>2. ASSUME SendHalf PROVE RecvInv'
  <2>1. ASSUME NEW h \in Hops, Snd!OfferData(h) PROVE RecvInv'
    BY <1>2, <2>1, RecvOfferStep DEF SendHalf
  <2>2. CASE Snd!WriterTake
    BY <1>2, <2>2, RecvTakeStep DEF SendHalf
  <2>3. CASE \/ Snd!WriterRestore \/ (writer.cell.cmd = "DATA" /\ Snd!WriterSend) \/ Snd!WriterExit
             \/ \E h \in Hops : Snd!ReadSendMe(h) \/ Snd!RelayAck(h)
    <3>1. UNCHANGED <<rcvOnly, uplink, writeRelayCell>>
      BY <1>2, <2>3 DEF SendHalf, Snd!WriterRestore, Snd!WriterSend, Snd!WriterExit, Snd!ReadSendMe,
                        Snd!HandleSendMe, Snd!RelayAck, Snd!clientVars
    <3>2. cause' = cause \/ cause' \notin {"none", "destroyed"}
      BY <2>3 DEF Snd!WriterRestore, Snd!WriterSend, Snd!WriterExit, Snd!ReadSendMe, Snd!RelayAck,
                  Snd!clientVars, Snd!HandleSendMe, Snd!Cancelled, Snd!VerifyError
    <3>3. /\ Shape'
          /\ \/ writer'.cell = writer.cell
             \/ \A g \in Hops : writer.cell \notin RP!AckTo(g) /\ writer'.cell \notin RP!AckTo(g)
      <4>1. Shape
        BY DEF RecvInv
      <4>2. CASE writer.cell.cmd = "DATA" /\ Snd!WriterSend
        <5>1. writer' = [pc |-> "idle", cell |-> Snd!NoCell]
          BY <4>2 DEF Snd!WriterSend
        <5> QED BY <3>1, <4>1, <4>2, <5>1 DEF Shape, RP!AckTo, Snd!NoCell
      <4>3. CASE Snd!WriterRestore
        <5>1. writer' = [writer EXCEPT !.pc = "send"]
          BY <4>3 DEF Snd!WriterRestore
        <5> QED BY <3>1, <4>1, <5>1 DEF Shape
      <4>4. CASE Snd!WriterExit
        <5>1. writer' = [writer EXCEPT !.pc = "done"]
          BY <4>4 DEF Snd!WriterExit
        <5> QED BY <3>1, <4>1, <5>1 DEF Shape
      <4>5. CASE \E h \in Hops : Snd!ReadSendMe(h) \/ Snd!RelayAck(h)
        <5>1. writer' = writer
          BY <4>5 DEF Snd!ReadSendMe, Snd!HandleSendMe, Snd!RelayAck, Snd!clientVars
        <5> QED BY <3>1, <4>1, <5>1 DEF Shape
      <4> QED BY <2>3, <4>2, <4>3, <4>4, <4>5
    <3> QED BY <3>1, <3>2, <3>3, WayQuietStep
  <2> QED BY <1>2, <2>1, <2>2, <2>3 DEF SendHalf
<1>3. CASE ReaderExit \/ CloseCircuit \/ UNCHANGED vars
  <2>1. UNCHANGED <<rcvOnly, uplink, writeRelayCell, writer>> /\ (cause' = cause \/ cause' = "closed")
    BY <1>3 DEF ReaderExit, CloseCircuit, Snd!ReaderExit, Snd!CloseCircuit, vars, sndOnly, shared
  <2>2. Shape'
    BY <2>1 DEF RecvInv, Shape
  <2> QED BY <2>1, <2>2, WayQuietStep
<1> QED BY <1>1, <1>2, <1>3, RecvSendStep, RecvArriveStep DEF Next

\* Every SENDME of the receive half is accepted by its relay, whatever DATA it
\* shares WriteRelayCell and writeLoop with.
THEOREM CircuitSendMesAccepted == Spec => []SendMeAccepted
<1>1. RecvInv => SendMeAccepted
  BY DEF RecvInv, SendMeAccepted
<1> QED BY <1>1, RecvInit, RecvNext, PTL DEF Spec
=============================================================================
