------------------------------- MODULE Circuit -------------------------------
(***************************************************************************)
(* A whole circuit carrying data both ways: CircuitSend and CircuitRecv    *)
(* with what they share.  The SENDMEs of sendmeManage and the DATA of the  *)
(* streams compete for the one queue WriteRelayCell and for writeLoop,     *)
(* which serves neither while it waits for a SENDME of some hop; one       *)
(* context and one readloop end both halves.                               *)
(***************************************************************************)
EXTENDS Integers, Sequences, FiniteSets

CONSTANTS StartValue, AddValue, NumHops, QueueCap, InboundCap, SendMeVersion,
          Streams, MaxData, MaxDown

ASSUME CircuitAssumption ==
    /\ {StartValue, AddValue, NumHops, QueueCap, InboundCap} \subseteq Nat \ {0}
    /\ StartValue % AddValue = 0
    /\ SendMeVersion \in {0, 1}
    /\ MaxData \in Nat /\ MaxDown \in Nat

VARIABLES writeRelayCell, offered, snd, sendMe, writer, reader, cause,
          marshalled, sent, granted, acked, seen,
          inbound, live, rcv, manager, relaySent, relayCredit,
          uplink    \* the SENDMEs on their way to the relays

Snd == INSTANCE CircuitSend WITH BadDst <- {}, Honest <- 0 .. NumHops - 1, Digests <- 0 .. MaxDown
Rcv == INSTANCE CircuitRecv WITH StreamsClose <- FALSE

Hops == 0 .. NumHops - 1

sndOnly == <<offered, snd, sendMe, writer, marshalled, sent, granted, acked, seen>>
rcvOnly == <<inbound, live, rcv, manager, relaySent, relayCredit>>
shared  == <<writeRelayCell, reader, cause>>
vars    == <<sndOnly, rcvOnly, shared, uplink>>

Digest == 0 .. MaxDown

\* Every digest the receive half handles is one of a cell a relay has sent.
DigestsKnown ==
    /\ inbound \in Seq([hop : Hops, stream : Streams, digest : Digest])
    /\ rcv \in [Hops -> [v : Int, digest : Digest, trigged : Seq(Digest)]]
    /\ manager \in [Hops -> [pc : {"idle", "put", "increase", "done"}, digest : Digest]]
    /\ relaySent \in [Hops -> Digest]

Init == Snd!Init /\ Rcv!Init /\ uplink = <<>>

\* writeLoop and the streams, except for a SENDME that leaves.
SendHalf ==
    /\ \/ \E h \in Hops : Snd!OfferData(h)
       \/ Snd!WriterTake
       \/ Snd!WriterRestore
       \/ writer.cell.cmd = "DATA" /\ Snd!WriterSend
       \/ Snd!WriterExit
       \/ \E h \in Hops : Snd!ReadSendMe(h)
       \/ \E h \in Hops : Snd!RelayAck(h)
    /\ UNCHANGED <<rcvOnly, uplink>>

\* readloop's DATA branch, the managers and the relays' data.
RecvHalf ==
    /\ \/ \E h \in Hops : Rcv!RelaySend(h)
       \/ Rcv!ReadData
       \/ \E h \in Hops : Rcv!ManagerTake(h)
       \/ \E h \in Hops : Rcv!ManagerPut(h)
       \/ \E h \in Hops : Rcv!ManagerIncrease(h)
       \/ \E h \in Hops : Rcv!ManagerExit(h)
    /\ UNCHANGED <<sndOnly, uplink>>

\* A plausible bug: a SENDME overtakes the one before it on the link.
SendSendMeFirst ==
    /\ writer.cell.cmd = "SENDME"
    /\ Snd!WriterSend
    /\ uplink' = <<writer.cell>> \o uplink
    /\ UNCHANGED rcvOnly

\* writeLoop hands a SENDME to the connection.
SendSendMe ==
    /\ writer.cell.cmd = "SENDME"
    /\ Snd!WriterSend
    /\ uplink' = Append(uplink, writer.cell)
    /\ UNCHANGED rcvOnly

\* External: the SENDME reaches its relay.
RelayTake ==
    /\ uplink # <<>>
    /\ uplink' = Tail(uplink)
    /\ Rcv!RelayReceive(Head(uplink).dst, Head(uplink).digest)
    /\ UNCHANGED <<sndOnly, inbound, live, rcv, manager, relaySent, writeRelayCell, reader>>

ReaderExit == Snd!ReaderExit /\ UNCHANGED <<rcvOnly, uplink>>

\* A plausible bug: Close discards what is queued.
CloseCircuitDrains ==
    /\ cause = "none" /\ cause' = "closed"
    /\ writeRelayCell' = <<>>
    /\ UNCHANGED <<sndOnly, rcvOnly, reader, uplink>>

CloseCircuit == Snd!CloseCircuit /\ cause' = "closed" /\ UNCHANGED <<rcvOnly, uplink>>

Next == SendHalf \/ RecvHalf \/ SendSendMe \/ RelayTake \/ ReaderExit \/ CloseCircuit

Spec == Init /\ [][Next]_vars

\* The goroutines of the client are scheduled; a select that offers a full or a
\* ready channel for ever is served, which a queue shared by several senders
\* grants each of them only strongly.  The relays acknowledge and send.
Fairness ==
    /\ WF_vars(Snd!WriterTake /\ SendHalf)
    /\ WF_vars(Snd!WriterRestore /\ SendHalf)
    /\ WF_vars(Snd!WriterSend /\ (SendHalf \/ SendSendMe))
    /\ WF_vars(Snd!WriterExit /\ SendHalf)
    /\ WF_vars(RelayTake)
    /\ WF_vars(ReaderExit)
    /\ WF_vars(Rcv!ReadData /\ RecvHalf)
    /\ \A h \in Hops :
         /\ WF_vars(Snd!ReadSendMe(h) /\ SendHalf)
         /\ WF_vars(Snd!RelayAck(h) /\ SendHalf)
         /\ WF_vars(Rcv!RelaySend(h) /\ RecvHalf)
         /\ WF_vars(Rcv!ManagerTake(h) /\ RecvHalf)
         /\ SF_vars(Rcv!ManagerPut(h) /\ RecvHalf)
         /\ WF_vars(Rcv!ManagerIncrease(h) /\ RecvHalf)
         /\ WF_vars(Rcv!ManagerExit(h) /\ RecvHalf)

FairSpec == Spec /\ Fairness

-----------------------------------------------------------------------------
(* Properties                                                              *)

\* The send half of a circuit that also receives is the CircuitSend of its own
\* module: what readloop and sendmeManage put into WriteRelayCell disturbs
\* none of its properties.
ImplementsSend == Snd!Spec

\* Sharing the queue with DATA neither drops nor reorders a circuit SENDME.
SendMeAccepted == cause # "destroyed"

\* Nobody waits on everybody: writeLoop blocked on one hop's window keeps the
\* SENDMEs of every hop waiting, and still the relays' data all arrives
\* and the streams' data all leaves.
BothWaysFlow ==
    <>[](cause # "none" \/ (sent = offered /\ \A h \in Hops : relaySent[h] = MaxDown))
=============================================================================
