------------------------------- MODULE Stream --------------------------------
(***************************************************************************)
(* One stream of a circuit, goroutine by goroutine.                        *)
(*                                                                         *)
(*   "open"    NewStream: BEGIN, wait for CONNECTED, start the goroutines  *)
(*   "write"   the user in one Write call of MaxData cells                 *)
(*   "read"    the user reading until end of file                          *)
(*   "end"     the user in End                                             *)
(*   "send"    sendController                                              *)
(*   "ctrl"    controlLoop                                                 *)
(*   "loop"    the circuit's readloop, on the cells of this stream         *)
(*   "janitor" the goroutine of GetConsensus: Free once the context is done*)
(*                                                                         *)
(* Close runs under closeOnce and takes the write lock of mu; Write holds  *)
(* the read lock.  Sending on a closed channel ends the process.           *)
(* External: the rest of the circuit and the relay, which follows the      *)
(* protocol: it stays within its window, acknowledges every AddValue-th    *)
(* cell, and sends nothing after an END, its own or ours.                  *)
(***************************************************************************)
EXTENDS Window, FiniteSets

CONSTANTS SendMeVersion,   \* the circuit's
          OutboundCap,     \* cap(s.outbound)
          ControlCap,      \* cap(s.InboundControl)
          WireCap,         \* cap(c.WriteRelayCell), and the room towards the client
          BufferCap,       \* cells in the ring buffer (STREAM_BUFFER_SIZE)
          TriggerCells,    \* STREAM_SENDME_AMMOUNT_TRIGGER, in cells
          Scenarios        \* what may happen to the stream, one of these

ASSUME StreamAssumption ==
    /\ SendMeVersion \in {0, 1}
    /\ {OutboundCap, ControlCap, WireCap, BufferCap} \subseteq Nat \ {0}
    /\ TriggerCells \in Nat /\ StartValue + TriggerCells <= BufferCap
    /\ Scenarios \subseteq [data : Nat, down : Nat, userEnds : BOOLEAN, relayEnds : BOOLEAN,
                             dies : BOOLEAN, janitor : BOOLEAN]

Threads == {"open", "write", "read", "end", "send", "ctrl", "loop", "janitor"}

VARIABLES
    scenario,       \* the one of Scenarios this behaviour is in
    pc,             \* per thread: its next step
    ret,            \* per thread: where it goes on after Close
    state,          \* s.State
    registered,     \* is the stream in c.streams?
    rlocked,        \* does Write hold s.mu for reading?
    once,           \* s.closeOnce: "fresh", "done" or the thread inside it
    ended,          \* s.ctxCancel was called
    freed,          \* s.freeCtxCancel was called
    circuit,        \* context.Cause(c.Ctx)
    closed,         \* the closed ones of s.ReceiveWindow.Trigged ("rcv"),
                    \* s.SendWindow.Trigged ("snd"), s.receiveSendMe ("token"),
                    \* and of s.buffer's writer ("buffer") and reader ("reader")
    panicked,       \* a send on a closed channel
    snd, rcv,       \* s.SendWindow, s.ReceiveWindow
    token,          \* tokens in s.receiveSendMe
    outbound,       \* chan relay.Cell
    control,        \* s.InboundControl
    buffer,         \* s.buffer: the positions of the DATA cells in it
    wire,           \* c.WriteRelayCell, the cells of this stream
    inbound,        \* the cells of this stream on their way to readloop
    hand,           \* per thread: the cell it holds
    wrote,          \* cells of the Write call put into outbound
    got,            \* DATA cells the user has read
    up, down,       \* relay: DATA cells received, DATA cells sent
    acks, credit,   \* relay: SENDMEs sent, SENDMEs received
    relay           \* relay: "new", "open" or "ended"

MaxData       == scenario.data      \* bound: cells of the one Write call
MaxDown       == scenario.down      \* bound: DATA cells the relay sends
UserEnds      == scenario.userEnds  \* does the user call End?
RelayEnds     == scenario.relayEnds \* may the relay end the stream?
CircuitMayDie == scenario.dies      \* may the circuit's context be cancelled?
Janitor       == scenario.janitor   \* is there a goroutine that frees the stream?

lifeVars  == <<state, registered, rlocked, once, ended, freed, circuit, closed, panicked>>
flowVars  == <<snd, rcv, token, outbound, control, buffer, wire, inbound, wrote, got>>
relayVars == <<up, down, acks, credit, relay>>
mutable   == <<pc, ret, lifeVars, flowVars, hand, relayVars>>
vars      == <<scenario, mutable>>

Cmds   == {"BEGIN", "CONNECTED", "DATA", "SENDME", "END"}
Cell   == [cmd : Cmds, n : Nat]
NoCell == [cmd |-> "none", n |-> 0]
C(cmd, n) == [cmd |-> cmd, n |-> n]

\* s.freeCtx is a child of c.Ctx, and s.Ctx of s.freeCtx.
FreeDone == freed \/ circuit # "none"
Done     == ended \/ FreeDone

Labels == {"off", "begin", "connected", "unlist", "start",      \* NewStream
           "take", "put", "wait", "notify", "deliver", "fill",  \* the loops
           "read", "sendme", "increase", "unlock",              \* Read, Write
           "close", "lock", "cancel", "chans", "chansFree",     \* Close
           "free", "forget", "delete",                          \* Free
           "done", "failed"}

TypeOK ==
    /\ scenario \in Scenarios
    /\ pc \in [Threads -> Labels] /\ ret \in [Threads -> Labels]
    /\ state \in {"opening", "open", "closed"}
    /\ {registered, rlocked, ended, freed, panicked} \subseteq BOOLEAN
    /\ once \in {"fresh", "done"} \cup Threads
    /\ circuit \in {"none", "closed", "sendme"}
    /\ closed \subseteq {"rcv", "snd", "token", "buffer", "reader"}
    /\ snd \in WindowType /\ snd.v \in 0 .. StartValue /\ token \in {0, 1}
    /\ rcv \in WindowType /\ ("rcv" \notin closed => rcv.v \in -AddValue .. StartValue)
    /\ outbound \in Seq(Cell) /\ Len(outbound) <= OutboundCap
    /\ control \in Seq(Cell) /\ Len(control) <= ControlCap
    /\ buffer \in Seq(Nat) /\ Len(buffer) <= BufferCap
    /\ wire \in Seq(Cell) /\ inbound \in Seq(Cell)
    /\ hand \in [Threads -> Cell \cup {NoCell}]
    /\ {wrote, got, up, down, acks, credit} \subseteq Nat
    /\ relay \in {"new", "open", "ended"}

Init ==
    /\ scenario \in Scenarios
    /\ pc = [t \in Threads |-> CASE t = "open" -> "begin" [] t = "loop" -> "take"
                                 [] OTHER -> "off"]
    /\ ret = [t \in Threads |-> "off"]
    /\ state = "opening" /\ registered = TRUE /\ rlocked = FALSE /\ once = "fresh"
    /\ ended = FALSE /\ freed = FALSE /\ circuit = "none" /\ closed = {} /\ panicked = FALSE
    /\ snd = NewWindow /\ rcv = NewWindow /\ token = 0
    /\ outbound = <<>> /\ control = <<>> /\ buffer = <<>> /\ wire = <<>> /\ inbound = <<>>
    /\ hand = [t \in Threads |-> NoCell]
    /\ wrote = 0 /\ got = 0 /\ up = 0 /\ down = 0 /\ acks = 0 /\ credit = 0 /\ relay = "new"

Goto(t, l) == pc' = [pc EXCEPT ![t] = l]
At(t, l)   == pc[t] = l /\ ~panicked
\* s.Close() in thread t, which goes on at l.
CallClose(t, l) == Goto(t, "close") /\ ret' = [ret EXCEPT ![t] = l]

-----------------------------------------------------------------------------
(* Close and Free, in whatever thread calls them                           *)

\* closeOnce.Do: the first caller runs the body, the others wait for its end.
EnterClose(t) ==
    /\ At(t, "close")
    /\ \/ once = "fresh" /\ once' = t /\ Goto(t, "lock")
       \/ once = "done" /\ UNCHANGED once /\ Goto(t, ret[t])
    /\ UNCHANGED <<ret, state, registered, rlocked, ended, freed, circuit, closed, panicked,
                   flowVars, hand, relayVars>>

\* s.mu.Lock waits for a Write that holds the lock for reading.
LockClose(t) ==
    /\ At(t, "lock")
    /\ ~rlocked
    /\ state' = "closed"
    /\ Goto(t, "cancel")
    /\ UNCHANGED <<ret, registered, rlocked, once, ended, freed, circuit, closed, panicked,
                   flowVars, hand, relayVars>>

\* ctxCancel; "defer s.Free()" when the stream's parent context is done.
CancelCtx(t) ==
    /\ At(t, "cancel")
    /\ ended' = (ended \/ ~Done)
    /\ Goto(t, IF FreeDone THEN "chansFree" ELSE "chans")
    /\ UNCHANGED <<ret, state, registered, rlocked, once, freed, circuit, closed, panicked,
                   flowVars, hand, relayVars>>

\* close of the three channels, in this order, ...
ClosingOrder == <<"rcv", "snd", "token">>

CloseChan(t) ==
    /\ pc[t] \in {"chans", "chansFree"} /\ ~panicked
    /\ \E i \in 1 .. 3 : /\ ClosingOrder[i] \notin closed
                         /\ \A j \in 1 .. i - 1 : ClosingOrder[j] \in closed
                         /\ closed' = closed \cup {ClosingOrder[i]}
    /\ UNCHANGED <<pc, ret, state, registered, rlocked, once, ended, freed, circuit, panicked,
                   flowVars, hand, relayVars>>

\* ... then CloseWriter, and the deferred Free, which finds the stream closed:
\* Reader.Close, streams.Delete.
LeaveClose(t) ==
    /\ pc[t] \in {"chans", "chansFree"} /\ ~panicked
    /\ {"rcv", "snd", "token"} \subseteq closed
    /\ closed' = closed \cup {"buffer"} \cup (IF pc[t] = "chansFree" THEN {"reader"} ELSE {})
    /\ once' = "done"
    /\ Goto(t, ret[t])
    /\ registered' = (registered /\ pc[t] = "chans")
    /\ UNCHANGED <<ret, state, rlocked, ended, freed, circuit, panicked, flowVars, hand, relayVars>>

EnterFree(t) ==
    /\ At(t, "free")
    /\ IF state # "closed" THEN CallClose(t, "forget") ELSE Goto(t, "forget") /\ UNCHANGED ret
    /\ UNCHANGED <<lifeVars, flowVars, hand, relayVars>>

FreeCtx(t) ==
    /\ At(t, "forget")
    /\ freed' = (freed \/ ~FreeDone)
    /\ Goto(t, "delete")
    /\ UNCHANGED <<ret, state, registered, rlocked, once, ended, circuit, closed, panicked,
                   flowVars, hand, relayVars>>

\* A plausible bug: the registry keeps the stream.
DeleteNot(t) ==
    /\ At(t, "delete")
    /\ closed' = closed \cup {"buffer", "reader"}
    /\ Goto(t, IF t = "open" THEN "failed" ELSE "done")
    /\ UNCHANGED <<ret, state, registered, rlocked, once, ended, freed, circuit, panicked,
                   flowVars, hand, relayVars>>

\* Reader.Close, after which every Read fails whatever the buffer holds, and
\* streams.Delete.
Delete(t) ==
    /\ At(t, "delete")
    /\ closed' = closed \cup {"buffer", "reader"}
    /\ registered' = FALSE
    /\ Goto(t, IF t = "open" THEN "failed" ELSE "done")
    /\ UNCHANGED <<ret, state, rlocked, once, ended, freed, circuit, panicked,
                   flowVars, hand, relayVars>>

CloseOrFree(t) == \/ EnterClose(t) \/ LockClose(t) \/ CancelCtx(t) \/ CloseChan(t) \/ LeaveClose(t)
                  \/ EnterFree(t) \/ FreeCtx(t) \/ Delete(t)

-----------------------------------------------------------------------------
(* NewStream, begin and beginDir                                           *)

OpenBegin ==
    /\ At("open", "begin")
    /\ \/ /\ Len(wire) < WireCap
          /\ wire' = Append(wire, C("BEGIN", 0))
          /\ Goto("open", "connected")
       \/ Done /\ Goto("open", "unlist") /\ UNCHANGED wire
    /\ UNCHANGED <<ret, lifeVars, snd, rcv, token, outbound, control, buffer, inbound, wrote,
                   got, hand, relayVars>>

OpenConnected ==
    /\ At("open", "connected")
    /\ \/ /\ control # <<>>
          /\ control' = Tail(control)
          /\ Goto("open", IF Head(control).cmd = "CONNECTED" THEN "start" ELSE "unlist")
       \/ Done /\ Goto("open", "unlist") /\ UNCHANGED control
    /\ UNCHANGED <<ret, lifeVars, snd, rcv, token, outbound, buffer, wire, inbound, wrote, got,
                   hand, relayVars>>

\* State = STREAM_OPEN, go controlLoop, go sendController; the caller has the
\* stream.
OpenStart ==
    /\ At("open", "start")
    /\ state' = "open"
    /\ pc' = [t \in Threads |-> CASE t = "open" -> "done"
                                  [] t \in {"send", "ctrl"} -> "take"
                                  [] t = "read" -> "read"
                                  [] t = "janitor" /\ Janitor -> "wait"
                                  [] OTHER -> pc[t]]
    /\ UNCHANGED <<ret, registered, rlocked, once, ended, freed, circuit, closed, panicked,
                   flowVars, hand, relayVars>>

\* The deferred clean-up of a NewStream that failed.
OpenFail ==
    /\ At("open", "unlist")
    /\ registered' = FALSE
    /\ Goto("open", "free")
    /\ UNCHANGED <<ret, state, rlocked, once, ended, freed, circuit, closed, panicked,
                   flowVars, hand, relayVars>>

-----------------------------------------------------------------------------
(* The user: Write, End, Read, and the freeing goroutine of GetConsensus   *)

\* RLock waits behind a Close that waits for the lock.
WriteStart ==
    /\ At("write", "off") /\ pc["open"] = "done"
    /\ \A t \in Threads : pc[t] # "lock"
    /\ rlocked' = (state = "open")
    /\ Goto("write", IF state = "open" THEN "put" ELSE "failed")
    /\ UNCHANGED <<ret, state, registered, once, ended, freed, circuit, closed, panicked,
                   flowVars, hand, relayVars>>

\* SendCell: outbound takes the cell, or the context is done and Close is called.
WritePut ==
    /\ At("write", "put")
    /\ \/ /\ wrote < MaxData
          /\ Len(outbound) < OutboundCap
          /\ outbound' = Append(outbound, C("DATA", wrote + 1))
          /\ wrote' = wrote + 1
          /\ UNCHANGED <<pc, ret>>
       \/ /\ wrote < MaxData
          /\ Done
          /\ CallClose("write", "unlock")
          /\ UNCHANGED <<outbound, wrote>>
       \/ /\ wrote = MaxData
          /\ Goto("write", "unlock")
          /\ UNCHANGED <<ret, outbound, wrote>>
    /\ UNCHANGED <<lifeVars, snd, rcv, token, control, buffer, wire, inbound, got, hand, relayVars>>

WriteReturn ==
    /\ At("write", "unlock")
    /\ rlocked' = FALSE
    /\ Goto("write", "done")
    /\ UNCHANGED <<ret, state, registered, once, ended, freed, circuit, closed, panicked,
                   flowVars, hand, relayVars>>

\* End may be called while Write is still running in another goroutine.
EndStart ==
    /\ UserEnds
    /\ At("end", "off") /\ pc["open"] = "done"
    /\ Goto("end", IF state = "closed" THEN "failed" ELSE "put")
    /\ UNCHANGED <<ret, lifeVars, flowVars, hand, relayVars>>

EndPut ==
    /\ At("end", "put")
    /\ \/ /\ Len(outbound) < OutboundCap
          /\ outbound' = Append(outbound, C("END", 0))
          /\ Goto("end", "free")
          /\ UNCHANGED ret
       \/ Done /\ CallClose("end", "failed") /\ UNCHANGED outbound
    /\ UNCHANGED <<lifeVars, snd, rcv, token, control, buffer, wire, inbound, wrote, got, hand,
                   relayVars>>

\* buff.Read of any length; it blocks on an empty buffer.
ReadSome ==
    /\ At("read", "read")
    /\ "reader" \notin closed
    /\ \E k \in 1 .. Len(buffer) :
         /\ buffer' = SubSeq(buffer, k + 1, Len(buffer))
         /\ got' = got + k
    /\ Goto("read", "sendme")
    /\ UNCHANGED <<ret, lifeVars, snd, rcv, token, outbound, control, wire, inbound, wrote, hand,
                   relayVars>>

\* A plausible bug: end of file as soon as the writer is closed.
ReadEofEarly ==
    /\ At("read", "read")
    /\ "buffer" \in closed
    /\ Goto("read", "done")
    /\ UNCHANGED <<ret, lifeVars, flowVars, hand, relayVars>>

\* End of file, or the error of a closed reader.  SendCell fails at once, and
\* the window grows all the same.
ReadEof ==
    /\ At("read", "read")
    /\ "reader" \in closed \/ (buffer = <<>> /\ "buffer" \in closed)
    /\ rcv' = IF Len(buffer) >= TriggerCells THEN rcv
              ELSE IF HasDigest(rcv) THEN Increase(AfterGet(rcv))
              ELSE IF "rcv" \in closed THEN Increase(rcv) ELSE rcv
    /\ Goto("read", "done")
    /\ UNCHANGED <<ret, lifeVars, snd, token, outbound, control, buffer, wire, inbound, wrote,
                   got, hand, relayVars>>

\* A plausible bug: a SENDME for every digest, however full the buffer is.
ReadSendMeAlways ==
    /\ At("read", "sendme")
    /\ IF HasDigest(rcv)
         THEN /\ hand' = [hand EXCEPT !["read"] = C("SENDME", TakenDigest(rcv))]
              /\ rcv' = AfterGet(rcv)
              /\ Goto("read", "put")
         ELSE UNCHANGED <<hand, rcv>> /\ Goto("read", "read")
    /\ UNCHANGED <<ret, lifeVars, snd, token, outbound, control, buffer, wire, inbound, wrote,
                   got, relayVars>>

\* A digest is waiting, and the buffer is nearly empty: a SENDME is due.
ReadSendMe ==
    /\ At("read", "sendme")
    /\ IF Len(buffer) < TriggerCells /\ (HasDigest(rcv) \/ "rcv" \in closed)
         THEN /\ hand' = [hand EXCEPT !["read"] =
                            C("SENDME", IF HasDigest(rcv) THEN TakenDigest(rcv) ELSE NoDigest)]
              /\ rcv' = IF HasDigest(rcv) THEN AfterGet(rcv) ELSE rcv
              /\ Goto("read", IF state = "closed" THEN "increase" ELSE "put")
         ELSE UNCHANGED <<hand, rcv>> /\ Goto("read", "read")
    /\ UNCHANGED <<ret, lifeVars, snd, token, outbound, control, buffer, wire, inbound, wrote,
                   got, relayVars>>

ReadPut ==
    /\ At("read", "put")
    /\ \/ /\ Len(outbound) < OutboundCap
          /\ outbound' = Append(outbound, hand["read"])
          /\ Goto("read", "increase")
          /\ UNCHANGED ret
       \/ Done /\ CallClose("read", "increase") /\ UNCHANGED outbound
    /\ UNCHANGED <<lifeVars, snd, rcv, token, control, buffer, wire, inbound, wrote, got, hand,
                   relayVars>>

\* A plausible bug: the window is not opened again.
ReadIncreaseNot ==
    /\ At("read", "increase")
    /\ hand' = [hand EXCEPT !["read"] = NoCell]
    /\ Goto("read", "read")
    /\ UNCHANGED <<ret, lifeVars, flowVars, relayVars>>

ReadIncrease ==
    /\ At("read", "increase")
    /\ rcv' = Increase(rcv)
    /\ hand' = [hand EXCEPT !["read"] = NoCell]
    /\ Goto("read", "read")
    /\ UNCHANGED <<ret, lifeVars, snd, token, outbound, control, buffer, wire, inbound, wrote,
                   got, relayVars>>

JanitorWakes ==
    /\ At("janitor", "wait")
    /\ Done
    /\ Goto("janitor", "free")
    /\ UNCHANGED <<ret, lifeVars, flowVars, hand, relayVars>>

-----------------------------------------------------------------------------
(* sendController                                                          *)

\* A plausible bug: a digest for every cell, not for every AddValue-th one.
PanicsAlways(chan, w) == chan \in closed

\* A send on a closed Trigged, if this cell is at a trigger point.
Panics(chan, w) == chan \in closed /\ Subtract(w, 1).v % AddValue = 0

\* A DATA cell is charged before Marshal gives it a digest.
Charged == Subtract(SetDigest(snd, NoDigest), 1)

SendTake ==
    /\ At("send", "take")
    /\ outbound # <<>>
    /\ outbound' = Tail(outbound)
    /\ hand' = [hand EXCEPT !["send"] = Head(outbound)]
    /\ IF Head(outbound).cmd = "DATA"
         THEN /\ panicked' = Panics("snd", snd)
              /\ snd' = IF panicked' THEN snd ELSE Charged
              /\ Goto("send", IF IsZero(Charged) THEN "wait" ELSE "put")
         ELSE Goto("send", "put") /\ UNCHANGED <<panicked, snd>>
    /\ UNCHANGED <<ret, state, registered, rlocked, once, ended, freed, circuit, closed, rcv,
                   token, control, buffer, wire, inbound, wrote, got, relayVars>>

\* A plausible bug: the token is not consumed.
SendRestoreKeepsToken ==
    /\ At("send", "wait")
    /\ token = 1
    /\ snd' = Increase(snd)
    /\ Goto("send", "put")
    /\ UNCHANGED <<ret, lifeVars, rcv, token, outbound, control, buffer, wire, inbound, wrote,
                   got, hand, relayVars>>

\* case <-s.receiveSendMe, which a closed channel grants as well
SendRestore ==
    /\ At("send", "wait")
    /\ token = 1 \/ "token" \in closed
    /\ token' = 0
    /\ snd' = Increase(snd)
    /\ Goto("send", "put")
    /\ UNCHANGED <<ret, lifeVars, rcv, outbound, control, buffer, wire, inbound, wrote, got,
                   hand, relayVars>>

SendPut ==
    /\ At("send", "put")
    /\ Len(wire) < WireCap
    /\ wire' = Append(wire, hand["send"])
    /\ hand' = [hand EXCEPT !["send"] = NoCell]
    /\ Goto("send", "take")
    /\ UNCHANGED <<ret, lifeVars, snd, rcv, token, outbound, control, buffer, inbound, wrote, got,
                   relayVars>>

\* A plausible bug: no return after Close.
SendExitLoops ==
    /\ pc["send"] \in {"take", "put", "wait"} /\ ~panicked
    /\ Done
    /\ CallClose("send", pc["send"])
    /\ UNCHANGED <<lifeVars, flowVars, hand, relayVars>>

\* case <-s.Ctx.Done(): while it waits for a SENDME, without Close.
SendExit ==
    /\ pc["send"] \in {"take", "put", "wait"} /\ ~panicked
    /\ Done
    /\ IF pc["send"] = "wait" THEN Goto("send", "done") /\ UNCHANGED ret
       ELSE CallClose("send", "done")
    /\ UNCHANGED <<lifeVars, flowVars, hand, relayVars>>

-----------------------------------------------------------------------------
(* controlLoop                                                             *)

\* verifySendMe on the stream's window; a closed Trigged yields no digest.
SendMeValid(n) ==
    SendMeVersion = 1 => IF HasDigest(snd) THEN TakenDigest(snd) = n ELSE "snd" \in closed /\ n = NoDigest

CtrlTake ==
    /\ At("ctrl", "take")
    /\ control # <<>>
    /\ control' = Tail(control)
    /\ LET cell == Head(control) IN
         CASE cell.cmd = "SENDME" ->
                /\ snd' = IF SendMeVersion = 1 /\ HasDigest(snd) THEN AfterGet(snd) ELSE snd
                /\ UNCHANGED ret
                /\ IF SendMeValid(cell.n)
                     THEN Goto("ctrl", "notify") /\ UNCHANGED circuit
                     ELSE /\ circuit' = IF circuit = "none" THEN "sendme" ELSE circuit
                          /\ Goto("ctrl", "free")
           [] cell.cmd = "END" -> CallClose("ctrl", "take") /\ UNCHANGED <<snd, circuit>>
           [] OTHER -> UNCHANGED <<pc, ret, snd, circuit>>
    /\ UNCHANGED <<state, registered, rlocked, once, ended, freed, closed, panicked, rcv, token,
                   outbound, buffer, wire, inbound, wrote, got, hand, relayVars>>

\* A plausible bug: nobody is woken.
CtrlNotifyNobody ==
    /\ At("ctrl", "notify")
    /\ Goto("ctrl", "take")
    /\ UNCHANGED <<ret, lifeVars, flowVars, hand, relayVars>>

\* The token: dropped when there is one, a panic when the channel is closed.
CtrlNotify ==
    /\ At("ctrl", "notify")
    /\ panicked' = ("token" \in closed)
    /\ token' = IF panicked' THEN token ELSE 1
    /\ Goto("ctrl", "take")
    /\ UNCHANGED <<ret, state, registered, rlocked, once, ended, freed, circuit, closed, snd, rcv,
                   outbound, control, buffer, wire, inbound, wrote, got, hand, relayVars>>

CtrlExit ==
    /\ At("ctrl", "take")
    /\ Done
    /\ Goto("ctrl", "done")
    /\ UNCHANGED <<ret, lifeVars, flowVars, hand, relayVars>>

-----------------------------------------------------------------------------
(* Circuit.readloop, for the cells of this stream                          *)

\* c.streams.Get; a cell for a stream that is gone is dropped.
LoopTake ==
    /\ At("loop", "take")
    /\ inbound # <<>>
    /\ inbound' = Tail(inbound)
    /\ IF registered
         THEN /\ hand' = [hand EXCEPT !["loop"] = Head(inbound)]
              /\ Goto("loop", IF Head(inbound).cmd = "DATA" THEN "deliver" ELSE "put")
         ELSE UNCHANGED <<hand, pc>>
    /\ UNCHANGED <<ret, lifeVars, snd, rcv, token, outbound, control, buffer, wire, wrote, got,
                   relayVars>>

\* writeDataCell: the window ...
LoopCharge ==
    /\ At("loop", "deliver")
    /\ panicked' = Panics("rcv", rcv)
    /\ rcv' = IF panicked' THEN rcv ELSE Subtract(SetDigest(rcv, hand["loop"].n), 1)
    /\ Goto("loop", "fill")
    /\ UNCHANGED <<ret, state, registered, rlocked, once, ended, freed, circuit, closed, snd,
                   token, outbound, control, buffer, wire, inbound, wrote, got, hand, relayVars>>

\* ... and the ring buffer, which blocks while it is full.
LoopFill ==
    /\ At("loop", "fill")
    /\ IF "buffer" \in closed
         THEN CallClose("loop", "take") /\ UNCHANGED buffer
         ELSE /\ Len(buffer) < BufferCap
              /\ buffer' = Append(buffer, hand["loop"].n)
              /\ Goto("loop", "take") /\ UNCHANGED ret
    /\ hand' = [hand EXCEPT !["loop"] = NoCell]
    /\ UNCHANGED <<lifeVars, snd, rcv, token, outbound, control, wire, inbound, wrote, got,
                   relayVars>>

LoopControl ==
    /\ At("loop", "put")
    /\ \/ Len(control) < ControlCap /\ control' = Append(control, hand["loop"])
       \/ Done /\ UNCHANGED control
    /\ hand' = [hand EXCEPT !["loop"] = NoCell]
    /\ Goto("loop", "take")
    /\ UNCHANGED <<ret, lifeVars, snd, rcv, token, outbound, buffer, wire, inbound, wrote, got,
                   relayVars>>

LoopExit ==
    /\ At("loop", "take")
    /\ circuit # "none"
    /\ Goto("loop", "done")
    /\ UNCHANGED <<ret, lifeVars, flowVars, hand, relayVars>>

-----------------------------------------------------------------------------
(* External: the circuit's end and the relay                               *)

CircuitDies ==
    /\ CircuitMayDie /\ ~panicked
    /\ circuit = "none"
    /\ circuit' = "closed"
    /\ UNCHANGED <<pc, ret, state, registered, rlocked, once, ended, freed, closed, panicked,
                   flowVars, hand, relayVars>>

ToClient(cell) == inbound' = Append(inbound, cell)

RelayTake ==
    /\ ~panicked /\ circuit = "none"
    /\ wire # <<>>
    /\ wire' = Tail(wire)
    /\ CASE Head(wire).cmd = "BEGIN" ->
              /\ \/ relay' = "open" /\ ToClient(C("CONNECTED", 0))
                 \/ RelayEnds /\ relay' = "ended" /\ ToClient(C("END", 0))
              /\ UNCHANGED <<up, credit>>
         [] Head(wire).cmd = "DATA" -> up' = up + 1 /\ UNCHANGED <<relay, inbound, credit>>
         [] Head(wire).cmd = "SENDME" -> credit' = credit + 1 /\ UNCHANGED <<relay, inbound, up>>
         [] Head(wire).cmd = "END" -> relay' = "ended" /\ UNCHANGED <<inbound, up, credit>>
    /\ UNCHANGED <<pc, ret, lifeVars, snd, rcv, token, outbound, control, buffer, wrote, got,
                   hand, down, acks>>

RelayLive == ~panicked /\ circuit = "none" /\ relay = "open"

RelayData ==
    /\ RelayLive
    /\ down < MaxDown /\ down < StartValue + credit * AddValue
    /\ Len(inbound) < WireCap
    /\ down' = down + 1
    /\ ToClient(C("DATA", down + 1))
    /\ UNCHANGED <<pc, ret, lifeVars, snd, rcv, token, outbound, control, buffer, wire, wrote,
                   got, hand, up, acks, credit, relay>>

RelayAck ==
    /\ RelayLive
    /\ (acks + 1) * AddValue <= up
    /\ acks' = acks + 1
    /\ ToClient(C("SENDME", (acks + 1) * AddValue))
    /\ UNCHANGED <<pc, ret, lifeVars, snd, rcv, token, outbound, control, buffer, wire, wrote,
                   got, hand, up, down, credit, relay>>

RelayEnd ==
    /\ RelayLive /\ RelayEnds
    /\ relay' = "ended"
    /\ ToClient(C("END", 0))
    /\ UNCHANGED <<pc, ret, lifeVars, snd, rcv, token, outbound, control, buffer, wire, wrote,
                   got, hand, up, down, acks, credit>>

-----------------------------------------------------------------------------
Opening  == OpenBegin \/ OpenConnected \/ OpenStart \/ OpenFail
User     == WriteStart \/ WritePut \/ WriteReturn \/ EndStart \/ EndPut
Reading  == ReadSome \/ ReadEof \/ ReadSendMe \/ ReadPut \/ ReadIncrease
Sending  == SendTake \/ SendRestore \/ SendPut \/ SendExit
Control  == CtrlTake \/ CtrlNotify \/ CtrlExit
Readloop == LoopTake \/ LoopCharge \/ LoopFill \/ LoopControl \/ LoopExit
Peer     == RelayTake \/ RelayData \/ RelayAck \/ RelayEnd

Step == \/ \E t \in Threads : CloseOrFree(t)
        \/ Opening \/ User \/ Reading \/ JanitorWakes
        \/ Sending \/ Control \/ Readloop
        \/ CircuitDies \/ Peer

Next == Step /\ UNCHANGED scenario

Spec == Init /\ [][Next]_vars

\* Every goroutine is scheduled and the user keeps reading; the relay takes
\* what is sent to it, acknowledges it and sends what it has.  The queue
\* outbound is shared by Write, Read and End, which Go serves in turn.
Fairness ==
    /\ \A t \in Threads : WF_mutable(CloseOrFree(t))
    /\ WF_mutable(Opening) /\ WF_mutable(WriteStart)
    /\ SF_mutable(WritePut) /\ WF_mutable(WriteReturn) /\ SF_mutable(EndPut)
    /\ WF_mutable(ReadSome \/ ReadEof \/ ReadSendMe \/ ReadIncrease) /\ SF_mutable(ReadPut)
    /\ WF_mutable(JanitorWakes)
    /\ WF_mutable(Sending) /\ WF_mutable(Control) /\ WF_mutable(Readloop)
    /\ WF_mutable(RelayTake) /\ WF_mutable(RelayData) /\ WF_mutable(RelayAck)

FairSpec == Spec /\ Fairness

-----------------------------------------------------------------------------
(* Properties                                                              *)

DataIn(q) == Cardinality({i \in 1 .. Len(q) : q[i].cmd = "DATA"})

\* sendController keeps to the stream's window: the relay is never sent more
\* cells than it has given credit for, whatever tokens were dropped.
StreamCredit == "token" \notin closed => up + DataIn(wire) <= StartValue + acks * AddValue

\* The ring buffer has room for all the relay may send: readloop, which serves
\* every stream of the circuit, never blocks in writeDataCell.
ReadloopNeverBlocks == pc["loop"] = "fill" => Len(buffer) < BufferCap

\* Read sends SENDMEs only when it leaves the buffer nearly empty, at most one
\* per call, and a full receiveSendMe drops tokens; still neither side of a
\* stream that nobody ends is left without credit for what it has to send.
StreamFlows ==
    ~(UserEnds \/ RelayEnds \/ CircuitMayDie) => <>(got = MaxDown /\ up = MaxData)

\* What the relay sent before its END reaches the ring buffer, and the user
\* reads all of it before the end of file; only the freeing goroutine, which
\* the END wakes, can close the reader first and throw the rest away.
EndLosesNothing ==
    (relay = "ended" /\ ~UserEnds /\ pc["open"] = "done")
        ~> /\ pc["read"] = "done"
           /\ got + Len(buffer) = down
           /\ buffer # <<>> => Janitor

\* Write, which holds mu for reading, is in a Close that waits for mu: it and
\* every other caller of Close wait for ever (stream_write shows how).
WriteWaitsForItself == rlocked /\ pc["write"] \in {"close", "lock"}

\* The stream's goroutines return once its context is done, unless a Write
\* waits for itself, and them with it.
LoopsReturn ==
    (Done /\ pc["open"] = "done")
        ~> ((pc["send"] = "done" /\ pc["ctrl"] = "done") \/ WriteWaitsForItself)

\* When the relay or the circuit has ended a directory stream, its freeing
\* goroutine takes it out of the circuit's registry, whoever else is in Close.
EndForgets ==
    (Janitor /\ (relay = "ended" \/ circuit # "none")) ~> (~registered \/ WriteWaitsForItself)

\* A Write returns, even when the stream ends under it.
WriteReturns == (pc["write"] = "put") ~> (pc["write"] = "done")

\* A relay that acknowledges the stream's cells with their digests does not
\* make the client cancel the circuit.
StreamSendMeAccepted == circuit # "sendme"
=============================================================================
