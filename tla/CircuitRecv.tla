---------------------------- MODULE CircuitRecv -----------------------------
(***************************************************************************)
(* The receiving half of a circuit: Circuit.readloop charges every DATA    *)
(* cell it delivers to the receive window of the hop it came from, and one *)
(* sendmeManage goroutine per hop turns the digests that the window leaves *)
(* in Trigged into circuit SENDMEs on WriteRelayCell.                      *)
(*                                                                         *)
(* External: the relays.  Each sends DATA cells while its package window   *)
(* allows, and takes a SENDME only if it acknowledges the next AddValue of *)
(* them, with the right digest on circuits of version 1; any other SENDME  *)
(* makes it destroy the circuit.  The n-th DATA cell of a hop has digest n.*)
(***************************************************************************)
EXTENDS Window, Queue

CONSTANTS NumHops,
          QueueCap,       \* cap(c.WriteRelayCell)
          InboundCap,     \* cap(c.Inbound)
          SendMeVersion,  \* 1 after CREATE2, 0 after CREATE_FAST
          Streams,        \* the streams the relays send data on
          StreamsClose,   \* may the user free a stream the relay still sends on?
          MaxDown         \* bound: DATA cells per relay

Hops == 0 .. NumHops - 1

ASSUME CircuitRecvAssumption ==
    /\ NumHops \in Nat \ {0}
    /\ QueueCap \in Nat \ {0}
    /\ InboundCap \in Nat \ {0}
    /\ SendMeVersion \in {0, 1}
    /\ StreamsClose \in BOOLEAN
    /\ MaxDown \in Nat

VARIABLES
    inbound,        \* chan []byte, as the cells it holds
    live,           \* the ids in c.streams
    rcv,            \* per hop: hop.Recv()
    manager,        \* per hop: sendmeManage
    writeRelayCell, \* chan RelayOut
    reader,         \* readloop: "running" or "done"
    cause,          \* context.Cause(c.Ctx), "none" while the circuit lives
    relaySent,      \* per hop: DATA cells the relay has sent
    relayCredit     \* per hop: of them, acknowledged by SENDMEs it accepted

vars == <<inbound, live, rcv, manager, writeRelayCell, reader, cause, relaySent, relayCredit>>

InCell   == [hop : Hops, stream : Streams, digest : Nat]
RelayOut == [dst : Hops, cmd : {"DATA", "SENDME"}, digest : Nat]

TypeOK ==
    /\ inbound \in Seq(InCell) /\ Len(inbound) <= InboundCap
    /\ live \subseteq Streams
    /\ rcv \in [Hops -> WindowType]
    /\ \A h \in Hops : rcv[h].v \in -AddValue .. StartValue
    /\ manager \in [Hops -> [pc : {"idle", "put", "increase", "done"}, digest : Nat]]
    /\ writeRelayCell \in Seq(RelayOut) /\ Len(writeRelayCell) <= QueueCap
    /\ reader \in {"running", "done"}
    /\ cause \in {"none", "closed", "destroyed"}
    /\ relaySent \in [Hops -> 0 .. MaxDown]
    /\ relayCredit \in [Hops -> Nat]

Init ==
    /\ inbound = <<>>
    /\ live = Streams
    /\ rcv = [h \in Hops |-> NewWindow]
    /\ manager = [h \in Hops |-> [pc |-> "idle", digest |-> NoDigest]]
    /\ writeRelayCell = <<>>
    /\ reader = "running"
    /\ cause = "none"
    /\ relaySent = [h \in Hops |-> 0]
    /\ relayCredit = [h \in Hops |-> 0]

-----------------------------------------------------------------------------
(* The relay at hop h (external)                                           *)

RelaySend(h) ==
    /\ relaySent[h] < StartValue + relayCredit[h]
    /\ relaySent[h] < MaxDown
    /\ Len(inbound) < InboundCap
    /\ relaySent' = [relaySent EXCEPT ![h] = @ + 1]
    /\ \E s \in Streams :
         inbound' = Append(inbound, [hop |-> h, stream |-> s, digest |-> relaySent[h] + 1])
    /\ UNCHANGED <<live, rcv, manager, writeRelayCell, reader, cause, relayCredit>>

\* The SENDME that the relay can accept.
Acceptable(h, digest) ==
    /\ relayCredit[h] + AddValue <= relaySent[h]
    /\ SendMeVersion = 1 => digest = relayCredit[h] + AddValue

RelayReceive(h, digest) ==
    IF Acceptable(h, digest)
      THEN /\ relayCredit' = [relayCredit EXCEPT ![h] = @ + AddValue]
           /\ UNCHANGED cause
      ELSE /\ cause' = IF cause = "none" THEN "destroyed" ELSE cause
           /\ UNCHANGED relayCredit

-----------------------------------------------------------------------------
(* Circuit.readloop on a DATA cell                                         *)

\* hop.Recv(): digest of this cell, then one cell less.
Charged(cell) ==
    [rcv EXCEPT ![cell.hop] = Subtract(SetDigest(@, cell.digest), 1)]

ReadData ==
    /\ reader = "running"
    /\ inbound # <<>>
    /\ inbound' = Tail(inbound)
    /\ rcv' = IF Head(inbound).stream \in live THEN Charged(Head(inbound))
              ELSE rcv  \* "relay cell for unknown stream dropped"
    /\ UNCHANGED <<live, manager, writeRelayCell, reader, cause, relaySent, relayCredit>>

ReaderExit ==
    /\ reader = "running"
    /\ cause # "none"
    /\ reader' = "done"
    /\ UNCHANGED <<inbound, live, rcv, manager, writeRelayCell, cause, relaySent, relayCredit>>

-----------------------------------------------------------------------------
(* Circuit.sendmeManage for hop h                                          *)

ManagerTake(h) ==
    /\ manager[h].pc = "idle"
    /\ HasDigest(rcv[h])
    /\ manager' = [manager EXCEPT ![h] = [pc |-> "put", digest |-> TakenDigest(rcv[h])]]
    /\ rcv' = [rcv EXCEPT ![h] = AfterGet(@)]
    /\ UNCHANGED <<inbound, live, writeRelayCell, reader, cause, relaySent, relayCredit>>

\* A plausible bug: a manager that finds the channel full gives up its digest.
ManagerPutOrDrop(h) ==
    /\ manager[h].pc = "put"
    /\ writeRelayCell' = IF Len(writeRelayCell) < QueueCap
         THEN Append(writeRelayCell, [dst |-> h, cmd |-> "SENDME", digest |-> manager[h].digest])
         ELSE writeRelayCell
    /\ manager' = [manager EXCEPT ![h].pc = "increase"]
    /\ UNCHANGED <<inbound, live, rcv, reader, cause, relaySent, relayCredit>>

ManagerPut(h) ==
    /\ manager[h].pc = "put"
    /\ Len(writeRelayCell) < QueueCap
    /\ writeRelayCell' =
         Append(writeRelayCell, [dst |-> h, cmd |-> "SENDME", digest |-> manager[h].digest])
    /\ manager' = [manager EXCEPT ![h].pc = "increase"]
    /\ UNCHANGED <<inbound, live, rcv, reader, cause, relaySent, relayCredit>>

ManagerIncrease(h) ==
    /\ manager[h].pc = "increase"
    /\ rcv' = [rcv EXCEPT ![h] = Increase(@)]
    /\ manager' = [manager EXCEPT ![h].pc = "idle"]
    /\ UNCHANGED <<inbound, live, writeRelayCell, reader, cause, relaySent, relayCredit>>

ManagerExit(h) ==
    /\ manager[h].pc \in {"idle", "put"}
    /\ cause # "none"
    /\ manager' = [manager EXCEPT ![h].pc = "done"]
    /\ UNCHANGED <<inbound, live, rcv, writeRelayCell, reader, cause, relaySent, relayCredit>>

-----------------------------------------------------------------------------
\* Stream.Free: c.streams.Delete while the relay may still be sending.
FreeStream(s) ==
    /\ StreamsClose
    /\ live' = live \ {s}
    /\ s \in live
    /\ UNCHANGED <<inbound, rcv, manager, writeRelayCell, reader, cause, relaySent, relayCredit>>

CloseCircuit ==
    /\ cause = "none"
    /\ cause' = "closed"
    /\ UNCHANGED <<inbound, live, rcv, manager, writeRelayCell, reader, relaySent, relayCredit>>

\* External here: writeLoop takes the SENDME and it reaches the relay.
Transmit ==
    /\ writeRelayCell # <<>>
    /\ writeRelayCell' = Tail(writeRelayCell)
    /\ RelayReceive(Head(writeRelayCell).dst, Head(writeRelayCell).digest)
    /\ UNCHANGED <<inbound, live, rcv, manager, reader, relaySent>>

\* The steps that CircuitRecv shares with no other component.
OwnNext ==
    \/ \E h \in Hops : RelaySend(h)
    \/ ReadData
    \/ \E h \in Hops : ManagerTake(h)
    \/ \E h \in Hops : ManagerIncrease(h)
    \/ \E h \in Hops : ManagerExit(h)
    \/ \E s \in Streams : FreeStream(s)

Next ==
    \/ OwnNext
    \/ \E h \in Hops : ManagerPut(h)
    \/ ReaderExit
    \/ CloseCircuit
    \/ Transmit

Spec == Init /\ [][Next]_vars

\* The goroutines are scheduled, the relay has data to send and sends it.
Fairness ==
    /\ WF_vars(ReadData) /\ WF_vars(Transmit) /\ WF_vars(ReaderExit)
    /\ \A h \in Hops : /\ WF_vars(RelaySend(h)) /\ WF_vars(ManagerTake(h))
                       /\ WF_vars(ManagerPut(h)) /\ WF_vars(ManagerIncrease(h))
                       /\ WF_vars(ManagerExit(h))

FairSpec == Spec /\ Fairness

-----------------------------------------------------------------------------
(* The inductive invariant behind the properties.  Here n is the number of *)
(* SENDMEs for hop h between its manager and the relay: QueuedFor(h) when  *)
(* WriteRelayCell is all there is between them.                            *)

FromHop(h) == [hop : {h}, stream : Streams, digest : Nat]
AckTo(h)   == [dst : {h}, cmd : {"SENDME"}, digest : Nat]

QueuedFor(h) == Count(writeRelayCell, AckTo(h))
CellsRead(h) == relaySent[h] - Count(inbound, FromHop(h))

At(h, pc) == IF manager[h].pc = pc THEN 1 ELSE 0

\* The cells that n SENDMEs acknowledge, and the digest of the n-th one ahead.
Cells(n) == AddValue * n
Ack(h, n) == relayCredit[h] + Cells(n)

\* The two sides of the window: what is left of it covers what the relay may
\* still send, and what is used of it is acknowledged or about to be.
Left(h)    == rcv[h].v + CellsRead(h) + Cells(At(h, "increase"))
Covered(h) == rcv[h].v + Cells(Len(rcv[h].trigged) + At(h, "put") + At(h, "increase"))
                       + Since(rcv[h].v)

Bounds(h, n) ==
    /\ Phase(relayCredit[h]) = 0
    /\ relaySent[h] <= StartValue + relayCredit[h]
    /\ Left(h) >= StartValue + Ack(h, n)
    /\ Covered(h) <= StartValue

\* While every cell is charged and nobody has left, the books balance and the
\* digests are in order: in the cells to be read, in Trigged, in the manager.
InboundInOrder(h) ==
    \A i \in 1 .. Len(inbound) : inbound[i].hop = h =>
        inbound[i].digest = CellsRead(h) + CountTo(inbound, FromHop(h), i)

Exact(h, n) ==
    /\ Left(h) = StartValue + Ack(h, n)
    /\ Covered(h) = StartValue
    /\ manager[h].pc # "done"
    /\ manager[h].pc = "put" => manager[h].digest = Ack(h, n + 1)
    /\ \A i \in 1 .. Len(rcv[h].trigged) : rcv[h].trigged[i] = Ack(h, n + At(h, "put") + i)
    /\ InboundInOrder(h)

InStep == live = Streams /\ cause = "none"

HalfType ==
    /\ inbound \in Seq(InCell)
    /\ live \subseteq Streams
    /\ rcv \in [Hops -> WindowType]
    /\ manager \in [Hops -> [pc : {"idle", "put", "increase", "done"}, digest : Nat]]
    /\ relaySent \in [Hops -> Nat]
    /\ relayCredit \in [Hops -> Nat]

\* Of everything on this side of WriteRelayCell, for any N(h) beyond it.
HalfInv(N) ==
    /\ HalfType
    /\ \A h \in Hops : Bounds(h, N[h])
    /\ InStep => \A h \in Hops : Exact(h, N[h])

\* The SENDMEs in WriteRelayCell are the next ones, in order.
QueueInOrder ==
    \A i \in 1 .. Len(writeRelayCell), h \in Hops : writeRelayCell[i] \in AckTo(h) =>
        writeRelayCell[i].digest = Ack(h, CountTo(writeRelayCell, AckTo(h), i))

\* Nothing on this circuit can make a SENDME wrong.
Safe == SendMeVersion = 0 \/ ~StreamsClose

\* What TypeOK says beyond HalfType and the bounds that Bounds implies.
RestType ==
    /\ Len(inbound) <= InboundCap
    /\ writeRelayCell \in Seq(RelayOut) /\ Len(writeRelayCell) <= QueueCap
    /\ reader \in {"running", "done"}
    /\ cause \in {"none", "closed", "destroyed"}
    /\ \A h \in Hops : relaySent[h] <= MaxDown

IInv ==
    /\ RestType
    /\ \A i \in 1 .. Len(writeRelayCell) : writeRelayCell[i].cmd = "SENDME"
    /\ HalfInv([h \in Hops |-> QueuedFor(h)])
    /\ InStep => QueueInOrder
    /\ ~StreamsClose => live = Streams
    /\ Safe => cause # "destroyed"

-----------------------------------------------------------------------------
(* Properties                                                              *)

\* The SENDMEs of readloop and sendmeManage are the ones the relay expects:
\* one per AddValue cells, in order, with the digest of the last of them.
RelayAcceptsSendMe == cause # "destroyed"

\* Acknowledgements cover exactly the cells read: what the relay was granted,
\* what waits in WriteRelayCell, in a manager's hands and in Trigged add up to
\* the trigger points readloop has passed.
AcksAddUp ==
    /\ TypeOK
    /\ InStep =>
        \A h \in Hops :
            relayCredit[h] + AddValue * (QueuedFor(h) + Len(rcv[h].trigged) + At(h, "put"))
              = CellsRead(h) - (CellsRead(h) % AddValue)
=============================================================================
