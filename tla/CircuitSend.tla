---------------------------- MODULE CircuitSend -----------------------------
(***************************************************************************)
(* The sending half of a circuit: Circuit.writeLoop takes cells from       *)
(* WriteRelayCell, charges every DATA cell to the send window of its hop,  *)
(* and waits on the hop's one-slot sendMe channel when the window is used  *)
(* up; Circuit.readloop, through relayControlFunc and verifySendMe, turns  *)
(* the SENDMEs of the relays into such tokens.                             *)
(*                                                                         *)
(* The relays are external.  An honest one acknowledges every AddValue-th  *)
(* DATA cell with its digest, in order, as late as it likes.  One that is  *)
(* not in Honest sends any SENDME it could make up from the cells it has   *)
(* seen, or none.  A DATA cell is identified by its position among the     *)
(* DATA cells encrypted for its hop, which is also its digest.             *)
(***************************************************************************)
EXTENDS Window

CONSTANTS NumHops,        \* len(c.hops.Hops)
          BadDst,         \* destinations outside the chain that a caller may name
          QueueCap,       \* cap(c.WriteRelayCell)
          SendMeVersion,  \* 1 after CREATE2, 0 after CREATE_FAST
          Honest,         \* the hops whose relays follow the protocol
          Digests,        \* the digests in the SENDMEs of the receive direction
          MaxData         \* bound: DATA cells the streams offer per hop

Hops == 0 .. NumHops - 1
Dsts == Hops \cup BadDst

ASSUME CircuitSendAssumption ==
    /\ NumHops \in Nat \ {0}
    /\ BadDst \subseteq Int \ Hops
    /\ QueueCap \in Nat \ {0}
    /\ SendMeVersion \in {0, 1}
    /\ Honest \subseteq Hops
    /\ Digests \subseteq Nat
    /\ MaxData \in Nat

VARIABLES
    writeRelayCell, \* chan RelayOut
    offered,        \* per hop: DATA cells put into writeRelayCell so far
    snd,            \* per hop: hop.Send()
    sendMe,         \* per hop: tokens in the channel hop.sendMe (0 or 1)
    writer,         \* writeLoop: where it is and the cell it holds
    reader,         \* readloop: "running" or "done"
    cause,          \* context.Cause(c.Ctx), "none" while the circuit lives
    marshalled,     \* per hop: DATA cells encrypted
    sent,           \* per hop: DATA cells given to conn.writeCall
    granted,        \* per hop: DATA cells acknowledged by accepted SENDMEs
    acked,          \* per hop: DATA cells the honest relay has acknowledged
    seen            \* per hop: the part of acked whose SENDMEs readloop took

clientVars == <<writeRelayCell, offered, snd, sendMe, writer, reader, cause,
                marshalled, sent, granted>>
relayVars  == <<acked, seen>>
vars == <<clientVars, relayVars>>

RelayOut == [dst : Dsts, cmd : {"DATA", "SENDME"}, digest : Nat]
NoCell   == [dst |-> -1, cmd |-> "none", digest |-> NoDigest]

PerHop(S) == [Hops -> S]

TypeOK ==
    /\ writeRelayCell \in Seq(RelayOut) /\ Len(writeRelayCell) <= QueueCap
    /\ offered \in PerHop(0 .. MaxData)
    /\ snd \in PerHop(WindowType)
    /\ sendMe \in PerHop({0, 1})
    /\ writer \in [pc : {"idle", "waitSendMe", "send", "done"},
                   cell : RelayOut \cup {NoCell}]
    /\ reader \in {"running", "done"}
    /\ cause \in {"none", "closed", "destroyed", "encrypt", "version", "mismatch", "unexpected"}
    /\ \A f \in {marshalled, sent, granted, acked, seen} : f \in PerHop(Nat)

Init ==
    /\ writeRelayCell = <<>>
    /\ offered = [h \in Hops |-> 0]
    /\ snd = [h \in Hops |-> NewWindow]
    /\ sendMe = [h \in Hops |-> 0]
    /\ writer = [pc |-> "idle", cell |-> NoCell]
    /\ reader = "running"
    /\ cause = "none"
    /\ marshalled = [h \in Hops |-> 0]
    /\ sent = [h \in Hops |-> 0]
    /\ granted = [h \in Hops |-> 0]
    /\ acked = [h \in Hops |-> 0]
    /\ seen = [h \in Hops |-> 0]

\* ctxCancel: the first cause stays.
Cancelled(c) == IF cause = "none" THEN c ELSE cause

-----------------------------------------------------------------------------
(* The users of the channel WriteRelayCell.                                *)

Enqueue(cell) == /\ Len(writeRelayCell) < QueueCap
                 /\ writeRelayCell' = Append(writeRelayCell, cell)

\* A stream's sendController hands over a DATA cell.
OfferData(d) ==
    /\ Enqueue([dst |-> d, cmd |-> "DATA", digest |-> NoDigest])
    /\ IF d \in Hops
         THEN /\ offered[d] < MaxData
              /\ offered' = [offered EXCEPT ![d] = @ + 1]
         ELSE UNCHANGED offered
    /\ UNCHANGED <<snd, sendMe, writer, reader, cause, marshalled, sent, granted, relayVars>>

\* sendmeManage hands over a circuit SENDME for the receive direction.
OfferSendMe(d, digest) ==
    /\ Enqueue([dst |-> d, cmd |-> "SENDME", digest |-> digest])
    /\ UNCHANGED <<offered, snd, sendMe, writer, reader, cause, marshalled, sent, granted, relayVars>>

-----------------------------------------------------------------------------
(* Circuit.writeLoop                                                       *)

\* A plausible bug: the window is charged before the cell's digest is stored.
ChargedBeforeDigest(h) == SetDigest(Subtract(snd[h], 1), marshalled[h] + 1)

\* The DATA branch: digest of this cell, charge it, is the window used up?
Charged(h) == Subtract(SetDigest(snd[h], marshalled[h] + 1), 1)

WriterTake ==
    /\ writer.pc = "idle"
    /\ writeRelayCell # <<>>
    /\ writeRelayCell' = Tail(writeRelayCell)
    /\ LET cell == Head(writeRelayCell) IN
       IF cell.dst \notin Hops
         THEN \* MarshalMessage refuses the destination: the circuit dies
              /\ writer' = [writer EXCEPT !.pc = "done"]
              /\ cause' = Cancelled("encrypt")
              /\ UNCHANGED <<snd, marshalled>>
         ELSE IF cell.cmd = "DATA"
           THEN /\ marshalled' = [marshalled EXCEPT ![cell.dst] = @ + 1]
                /\ snd' = [snd EXCEPT ![cell.dst] = Charged(cell.dst)]
                /\ writer' = [pc |-> IF IsZero(Charged(cell.dst)) THEN "waitSendMe" ELSE "send",
                              cell |-> cell]
                /\ UNCHANGED cause
           ELSE /\ writer' = [pc |-> "send", cell |-> cell]
                /\ UNCHANGED <<snd, marshalled, cause>>
    /\ UNCHANGED <<offered, sendMe, reader, sent, granted, relayVars>>

\* A plausible bug: the token is not consumed.
WriterRestoreKeepsToken ==
    /\ writer.pc = "waitSendMe"
    /\ LET h == writer.cell.dst IN
       /\ sendMe[h] = 1
       /\ snd' = [snd EXCEPT ![h] = Increase(@)]
    /\ writer' = [writer EXCEPT !.pc = "send"]
    /\ UNCHANGED <<writeRelayCell, offered, sendMe, reader, cause, marshalled, sent, granted, relayVars>>

\* case <-hop.SendMe()
WriterRestore ==
    /\ writer.pc = "waitSendMe"
    /\ LET h == writer.cell.dst IN
       /\ sendMe[h] = 1
       /\ sendMe' = [sendMe EXCEPT ![h] = 0]
       /\ snd' = [snd EXCEPT ![h] = Increase(@)]
    /\ writer' = [writer EXCEPT !.pc = "send"]
    /\ UNCHANGED <<writeRelayCell, offered, reader, cause, marshalled, sent, granted, relayVars>>

\* c.SendCell: the cell is handed to the connection's write loop.
WriterSend ==
    /\ writer.pc = "send"
    /\ sent' = IF writer.cell.cmd = "DATA" THEN [sent EXCEPT ![writer.cell.dst] = @ + 1] ELSE sent
    /\ writer' = [pc |-> "idle", cell |-> NoCell]
    /\ UNCHANGED <<writeRelayCell, offered, snd, sendMe, reader, cause, marshalled, granted, relayVars>>

\* A plausible bug: the wait for a SENDME does not watch the context.
WriterExitNotWaiting ==
    /\ writer.pc \notin {"done", "waitSendMe"}
    /\ cause # "none"
    /\ writer' = [writer EXCEPT !.pc = "done"]
    /\ UNCHANGED <<writeRelayCell, offered, snd, sendMe, reader, cause, marshalled, sent, granted, relayVars>>

\* case <-c.Ctx.Done() in any of the three selects.
WriterExit ==
    /\ writer.pc # "done"
    /\ cause # "none"
    /\ writer' = [writer EXCEPT !.pc = "done"]
    /\ UNCHANGED <<writeRelayCell, offered, snd, sendMe, reader, cause, marshalled, sent, granted, relayVars>>

-----------------------------------------------------------------------------
(* Circuit.readloop on a SENDME with stream id 0                           *)

\* A plausible bug: the digest is not compared.
VerifyAnyDigest(h, version, digest) ==
    IF SendMeVersion = 0 THEN "nil"
    ELSE IF version # SendMeVersion THEN "version"
    ELSE IF ~HasDigest(snd[h]) THEN "unexpected"
    ELSE "nil"

\* verifySendMe: the error it returns.
VerifyError(h, version, digest) ==
    IF SendMeVersion = 0 THEN "nil"
    ELSE IF version # SendMeVersion THEN "version"
    ELSE IF ~HasDigest(snd[h]) THEN "unexpected"
    ELSE IF TakenDigest(snd[h]) # digest THEN "mismatch"
    ELSE "nil"

\* verifySendMe receives from Trigged once the version is right.
VerifiedWindow(h, version) ==
    IF SendMeVersion = 1 /\ version = 1 /\ HasDigest(snd[h]) THEN AfterGet(snd[h]) ELSE snd[h]

\* A plausible bug: an accepted SENDME wakes nobody.
NotifyNobody(h) == UNCHANGED sendMe

\* hop.NotifySendMe: a full channel drops the token.
NotifySendMe(h) == sendMe' = [sendMe EXCEPT ![h] = 1]

HandleSendMe(h, version, digest) ==
    /\ reader = "running"
    /\ snd' = [snd EXCEPT ![h] = VerifiedWindow(h, version)]
    /\ IF VerifyError(h, version, digest) = "nil"
         THEN /\ NotifySendMe(h)
              /\ granted' = [granted EXCEPT ![h] = @ + AddValue]
              /\ UNCHANGED cause
         ELSE /\ cause' = Cancelled(VerifyError(h, version, digest))
              /\ UNCHANGED <<sendMe, granted>>
    /\ UNCHANGED <<writeRelayCell, offered, writer, reader, marshalled, sent, acked>>

\* The next SENDME of the honest relay at hop h.
ReadSendMe(h) ==
    /\ h \in Honest
    /\ seen[h] + AddValue <= acked[h]
    /\ HandleSendMe(h, SendMeVersion, seen[h] + AddValue)
    /\ seen' = [seen EXCEPT ![h] = @ + AddValue]

\* Any SENDME a relay can make up from the cells that reached it.
ReadForgedSendMe(h) ==
    /\ h \notin Honest
    /\ \E version \in {0, 1}, digest \in 0 .. sent[h] : HandleSendMe(h, version, digest)
    /\ UNCHANGED seen

ReaderExit ==
    /\ reader = "running"
    /\ cause # "none"
    /\ reader' = "done"
    /\ UNCHANGED <<writeRelayCell, offered, snd, sendMe, writer, cause, marshalled, sent, granted, relayVars>>

-----------------------------------------------------------------------------
\* Circuit.Close or the end of the connection; a DESTROY cell (handleCell).
CloseCircuit ==
    /\ cause = "none"
    /\ cause' \in {"closed", "destroyed"}
    /\ UNCHANGED <<writeRelayCell, offered, snd, sendMe, writer, reader, marshalled, sent, granted, relayVars>>

\* External: the honest relay acknowledges the next AddValue cells it has.
RelayAck(h) ==
    /\ h \in Honest
    /\ acked[h] + AddValue <= sent[h]
    /\ acked' = [acked EXCEPT ![h] = @ + AddValue]
    /\ UNCHANGED <<clientVars, seen>>

Next ==
    \/ \E d \in Dsts : OfferData(d)
    \/ \E d \in Dsts, digest \in Digests : OfferSendMe(d, digest)
    \/ WriterTake
    \/ WriterRestore
    \/ WriterSend
    \/ WriterExit
    \/ \E h \in Hops : ReadSendMe(h)
    \/ \E h \in Hops : ReadForgedSendMe(h)
    \/ ReaderExit
    \/ CloseCircuit
    \/ \E h \in Hops : RelayAck(h)

Spec == Init /\ [][Next]_vars

\* The goroutines are scheduled; an honest relay acknowledges what it has
\* received.  Nobody has to offer cells or to close the circuit.
Fairness ==
    /\ WF_vars(WriterTake)
    /\ WF_vars(WriterRestore)
    /\ WF_vars(WriterSend)
    /\ WF_vars(WriterExit)
    /\ WF_vars(ReaderExit)
    /\ \A h \in Hops : WF_vars(ReadSendMe(h)) /\ WF_vars(RelayAck(h))

FairSpec == Spec /\ Fairness

-----------------------------------------------------------------------------
(* The inductive invariant behind the properties.                          *)

\* The hop has the cell in writeLoop's hands.
Holding(h) == writer.cell.cmd = "DATA" /\ writer.cell.dst = h

WriterShape ==
    /\ writer.pc = "idle" => writer.cell = NoCell
    /\ writer.pc = "send" => writer.cell \in RelayOut /\ writer.cell.dst \in Hops
    /\ writer.pc = "waitSendMe" => /\ writer.cell \in RelayOut /\ writer.cell.dst \in Hops
                                   /\ Holding(writer.cell.dst)

\* Every cell charged to the window is on the link or in writeLoop's hands, and
\* the counter is spent only while writeLoop waits.
Ledger(h) ==
    /\ marshalled[h] = sent[h] + (IF Holding(h) THEN 1 ELSE 0)
    /\ snd[h].v >= 0
    /\ snd[h].v = 0 => writer.pc \in {"waitSendMe", "done"} /\ Holding(h)
    /\ snd[h].v + marshalled[h] + (IF sendMe[h] = 1 THEN AddValue ELSE 0)
         <= StartValue + granted[h]

\* Trigged has room for every trigger point that is still ahead.
Room(h) == Units(snd[h].v) + Len(snd[h].trigged) + sendMe[h] <= Capacity

\* The last cell whose digest went into Trigged.
LastTrigger(h) == marshalled[h] - Since(snd[h].v)

\* q holds consecutive trigger points, from lo or later up to hi.
Run(q, lo, hi) ==
    /\ q # <<>> => q[1] >= lo /\ q[Len(q)] = hi
    /\ \A i \in 1 .. Len(q) : q[i] <= hi
    /\ \A i \in 1 .. Len(q) - 1 : q[i + 1] = q[i] + AddValue

\* Trigged holds the trigger points not yet acknowledged, up to the last one.
Chain(h) ==
    /\ LastTrigger(h) >= granted[h]
    /\ Run(snd[h].trigged, granted[h] + AddValue, LastTrigger(h))

SendMeFailed == cause \in {"version", "mismatch", "unexpected"}

\* ... and, with an honest relay, from the next one to be acknowledged.
Aligned(h) == LET q == snd[h].trigged IN
    IF q = <<>> THEN LastTrigger(h) = granted[h] ELSE q[1] = granted[h] + AddValue

InFlight(h) ==
    /\ seen[h] <= acked[h] /\ acked[h] <= sent[h]
    /\ h \in Honest => seen[h] = granted[h]

IInv ==
    /\ TypeOK
    /\ WriterShape
    /\ \A h \in Hops : Ledger(h) /\ InFlight(h)
    /\ SendMeVersion = 1 =>
         \A h \in Hops : /\ Room(h) /\ Chain(h)
                         /\ granted[h] <= sent[h]
                         /\ h \in Honest => Aligned(h)
    /\ Honest = Hops => ~SendMeFailed

-----------------------------------------------------------------------------
(* Properties                                                              *)

\* writeLoop never puts more DATA cells on the link than the relay has given
\* credit for, and no accepted SENDME acknowledges a cell that never left.
CreditSafety ==
    \A h \in Hops : /\ sent[h] <= StartValue + granted[h]
                    /\ granted[h] <= sent[h]

\* verifySendMe and the digests writeLoop leaves in Trigged agree: a SENDME of
\* a relay that follows the protocol is accepted and never kills the circuit,
\* whatever the relays of the other hops make up.
HonestSendMeAccepted == [][\A h \in Honest : ReadSendMe(h) => UNCHANGED cause]_vars

\* NotifySendMe drops tokens when its one slot is full, and Increase runs only
\* when writeLoop takes one; still, no DATA cell is stuck for ever behind the
\* used-up window of a hop whose relay acknowledges.  (The streams offer at most
\* MaxData cells per hop, so in the end all of them have left, unless a relay
\* that does not acknowledge holds them all up.)
HeldUp == writer.pc = "waitSendMe" /\ writer.cell.dst \notin Honest
EveryDataCellLeaves == <>[](cause # "none" \/ HeldUp \/ sent = offered)

\* Both loops return once the circuit context is done, wherever they wait.
LoopsEnd == (cause # "none") ~> (writer.pc = "done" /\ reader = "done")

\* The send half implements credit-based flow control.
Credit == INSTANCE CreditFlow
ImplementsCredit == Credit!Spec
=============================================================================
