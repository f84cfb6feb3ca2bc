-------------------------------- MODULE Conn --------------------------------
(***************************************************************************)
(* A link to a guard, from NewConn's handshake (module Link) on, and the   *)
(* circuits on it: Conn.readLoop dispatches what the socket delivers by    *)
(* circuit id, Conn.writeLoop serialises what the circuits send,           *)
(* NewCircuit and NewFastCircuit register a circuit, send CREATE and wait  *)
(* for the answer, Close cancels contexts.                                 *)
(*                                                                         *)
(* A circuit is one call of NewCircuit; the caller picks its id.  Every    *)
(* circuit's context is a child of the connection's.  External: the guard, *)
(* which answers a CREATE under a free id with CREATED or DESTROY, drops   *)
(* one under an id in use, and numbers the RELAY cells of each circuit.    *)
(***************************************************************************)
EXTENDS Link, Queue

CONSTANTS Circuits,     \* the calls of NewCircuit and NewFastCircuit
          IdOf,         \* the id each of them asks for
          InboundCap,   \* cap(circuit.Inbound)
          WriteCap,     \* cap(conn.writeCall)
          MaxSent,      \* bound, per circuit: RELAY cells it sends
          MaxRelay,     \* bound, per circuit: RELAY cells the guard sends
          LinkCap,      \* bound: cells on the link when the guard adds a RELAY cell
          WritesFail    \* may a write to the socket fail?

ASSUME ConnAssumption ==
    /\ DOMAIN IdOf = Circuits
    /\ None \notin Circuits \cup {"failed", "closed", "destroyed", "read", "write"}
    /\ {InboundCap, WriteCap, LinkCap} \subseteq Nat \ {0}
    /\ MaxSent \in [Circuits -> Nat] /\ MaxRelay \in [Circuits -> Nat]
    /\ WritesFail \in BOOLEAN

Ids  == {IdOf[c] : c \in Circuits}

VARIABLES
    opener,     \* per circuit: where NewCircuit is
    cause,      \* per circuit: the cause its own context was cancelled with
    inbound,    \* per circuit: chan Inbound
    reader,     \* per circuit: readloop
    destroying, \* circuits with a "go handleCell" for a DESTROY to run
    registry,   \* conn.circuits
    connCause,  \* context.Cause(conn.ctx)
    readLoop,   \* Conn.readLoop: where it is, and the cell it holds
    writeLoop,  \* Conn.writeLoop: "off", "running" or "done"
    writeCall,  \* conn.writeCall
    down,       \* cells on their way from the guard
    sent,       \* per circuit: RELAY cells given to writeCall
    guard,      \* per id: the circuit the guard knows by it
    pushed,     \* per circuit: RELAY cells the guard has sent
    got         \* per circuit: the numbers of the RELAY cells readloop has taken

newConn == <<hand, netinfo, deadline>>
vars == <<opener, cause, inbound, reader, destroying, registry, connCause, socket, readLoop,
          writeLoop, writeCall, down, sent, guard, pushed, got, newConn>>

Cell == [circ : Circuits, cmd : {"CREATE", "CREATED", "RELAY", "DESTROY"}, n : Nat]
Msg(c, cmd, n) == [circ |-> c, cmd |-> cmd, n |-> n]

NoHand == [pc |-> "read", to |-> None, cell |-> None]

Done(c) == cause[c] # None \/ connCause # None

TypeOK ==
    /\ opener \in [Circuits -> {"off", "send", "await", "up", "failed"}]
    /\ cause \in [Circuits -> {None, "failed", "closed", "destroyed"}]
    /\ inbound \in [Circuits -> Seq(Cell)] /\ \A c \in Circuits : Len(inbound[c]) <= InboundCap
    /\ reader \in [Circuits -> {"off", "running", "done"}]
    /\ destroying \subseteq Circuits
    /\ registry \in [Ids -> Circuits \cup {None}] /\ guard \in [Ids -> Circuits \cup {None}]
    /\ connCause \in {None, "closed", "read", "write"}
    /\ LinkTypeOK
    /\ readLoop \in [pc : {"off", "read", "put", "done"}, to : Circuits \cup {None},
                     cell : Cell \cup {None}]
    /\ readLoop.pc = "put" => readLoop.to # None /\ readLoop.cell \in Cell
    /\ writeLoop \in {"off", "running", "done"}
    /\ writeCall \in Seq(Cell) /\ Len(writeCall) <= WriteCap
    /\ down \in Seq(Cell)
    /\ {sent, pushed} \subseteq [Circuits -> Nat] /\ got \in [Circuits -> Seq(Nat)]
    /\ \A c \in Circuits : sent[c] <= MaxSent[c] /\ pushed[c] <= MaxRelay[c]

Init ==
    /\ opener = [c \in Circuits |-> "off"] /\ cause = [c \in Circuits |-> None]
    /\ inbound = [c \in Circuits |-> <<>>] /\ reader = [c \in Circuits |-> "off"]
    /\ destroying = {} /\ registry = [i \in Ids |-> None] /\ guard = registry
    /\ LinkInit /\ connCause = None
    /\ readLoop = [NoHand EXCEPT !.pc = "off"] /\ writeLoop = "off"
    /\ writeCall = <<>> /\ down = <<>>
    /\ sent = [c \in Circuits |-> 0] /\ pushed = sent /\ got = inbound

-----------------------------------------------------------------------------
(* NewConn                                                                 *)

Connect ==
    /\ Handshake
    /\ UNCHANGED <<opener, cause, inbound, reader, destroying, registry, connCause, readLoop,
                   writeLoop, writeCall, down, sent, guard, pushed, got>>

\* go conn.readLoop(), go conn.writeLoop()
StartLoops ==
    /\ WriteNetInfo
    /\ readLoop' = NoHand /\ writeLoop' = "running"
    /\ UNCHANGED <<opener, cause, inbound, reader, destroying, registry, connCause, writeCall,
                   down, sent, guard, pushed, got>>

Goto(c, l)   == opener' = [opener EXCEPT ![c] = l]
Cancel(c, w) == cause' = IF Done(c) THEN cause ELSE [cause EXCEPT ![c] = w]

-----------------------------------------------------------------------------
(* NewCircuit and NewFastCircuit                                           *)

\* The circuit enters conn.circuits.  A caller that uses an id again does so
\* only for a circuit it has closed.
Call(c) ==
    /\ hand.pc = "up" /\ opener[c] = "off"
    /\ \A b \in Circuits \ {c} : IdOf[b] = IdOf[c] => opener[b] = "off" \/ Done(b)
    /\ registry' = [registry EXCEPT ![IdOf[c]] = c]
    /\ Goto(c, "send")
    /\ UNCHANGED <<cause, inbound, reader, destroying, connCause, socket, readLoop,
                   writeLoop, writeCall, down, sent, guard, pushed, got, newConn>>

\* The deferred clean-up of a call that fails.
FailOpen(c) == /\ registry' = [registry EXCEPT ![IdOf[c]] = None]
               /\ Cancel(c, "failed")
               /\ Goto(c, "failed")

\* circuit.SendCell(&create)
OpenSend(c) ==
    /\ opener[c] = "send"
    /\ \/ /\ Len(writeCall) < WriteCap
          /\ writeCall' = Append(writeCall, Msg(c, "CREATE", 0))
          /\ Goto(c, "await")
          /\ UNCHANGED <<cause, registry>>
       \/ Done(c) /\ FailOpen(c) /\ UNCHANGED writeCall
    /\ UNCHANGED <<inbound, reader, destroying, connCause, socket, readLoop, writeLoop, down, sent,
                   guard, pushed, got, newConn>>

\* The answer: with CREATED the circuit has its first hop, and its loops start.
\* The CREATED of another circuit does not fit this one's handshake.
OpenAnswer(c) ==
    /\ opener[c] = "await"
    /\ \/ /\ inbound[c] # <<>>
          /\ inbound' = [inbound EXCEPT ![c] = Tail(@)]
          /\ IF Head(inbound[c]).cmd = "CREATED" /\ Head(inbound[c]).circ = c
               THEN /\ Goto(c, "up")
                    /\ reader' = [reader EXCEPT ![c] = "running"]
                    /\ UNCHANGED <<cause, registry>>
               ELSE FailOpen(c) /\ UNCHANGED reader
       \/ Done(c) /\ FailOpen(c) /\ UNCHANGED <<inbound, reader>>
    /\ UNCHANGED <<destroying, connCause, socket, readLoop, writeLoop, writeCall, down, sent,
                   guard, pushed, got, newConn>>

-----------------------------------------------------------------------------
(* A circuit that is up                                                    *)

\* Circuit.readloop, its handling of one cell in a single step.
ReaderTake(c) ==
    /\ reader[c] = "running"
    /\ inbound[c] # <<>>
    /\ inbound' = [inbound EXCEPT ![c] = Tail(@)]
    /\ LET cell == Head(inbound[c]) IN
         /\ destroying' = IF cell.cmd = "DESTROY" THEN destroying \cup {c} ELSE destroying
         /\ got' = IF cell.cmd = "RELAY" THEN [got EXCEPT ![c] = Append(@, cell.n)] ELSE got
    /\ UNCHANGED <<opener, cause, reader, registry, connCause, socket, readLoop, writeLoop,
                   writeCall, down, sent, guard, pushed, newConn>>

ReaderExit(c) ==
    /\ reader[c] = "running"
    /\ Done(c)
    /\ reader' = [reader EXCEPT ![c] = "done"]
    /\ UNCHANGED <<opener, cause, inbound, destroying, registry, connCause, socket, readLoop,
                   writeLoop, writeCall, down, sent, guard, pushed, got, newConn>>

\* handleCell, in a goroutine of its own
HandleDestroy(c) ==
    /\ c \in destroying
    /\ destroying' = destroying \ {c}
    /\ Cancel(c, "destroyed")
    /\ UNCHANGED <<opener, inbound, reader, registry, connCause, socket, readLoop, writeLoop,
                   writeCall, down, sent, guard, pushed, got, newConn>>

\* Circuit.SendCell; when the context is done it sends or gives up.
CircuitSend(c) ==
    /\ opener[c] = "up"
    /\ sent[c] < MaxSent[c]
    /\ Len(writeCall) < WriteCap
    /\ writeCall' = Append(writeCall, Msg(c, "RELAY", sent[c] + 1))
    /\ sent' = [sent EXCEPT ![c] = @ + 1]
    /\ UNCHANGED <<opener, cause, inbound, reader, destroying, registry, connCause, socket,
                   readLoop, writeLoop, down, guard, pushed, got, newConn>>

\* Circuit.Close
CloseCircuit(c) ==
    /\ opener[c] = "up" /\ ~Done(c)
    /\ Cancel(c, "closed")
    /\ UNCHANGED <<opener, inbound, reader, destroying, registry, connCause, socket, readLoop,
                   writeLoop, writeCall, down, sent, guard, pushed, got, newConn>>

-----------------------------------------------------------------------------
(* The connection                                                          *)

Fail(why) == connCause' = IF connCause = None THEN why ELSE connCause

\* A plausible bug: no check that there is such a circuit.
ReadCellUnchecked ==
    /\ readLoop.pc = "read"
    /\ socket # "closed"
    /\ down # <<>>
    /\ down' = Tail(down)
    /\ LET to == IF hand.frame = "in" THEN registry[IdOf[Head(down).circ]] ELSE None IN
         readLoop' = [pc |-> "put", to |-> to, cell |-> Head(down)]
    /\ UNCHANGED <<opener, cause, inbound, reader, destroying, registry, connCause, socket,
                   writeLoop, writeCall, sent, guard, pushed, got, newConn>>

\* The header and the body of a cell, and the circuit registered under its id.
\* Out of frame a header is any five octets (bound: those are no circuit's id).
ReadCell ==
    /\ readLoop.pc = "read"
    /\ socket # "closed"
    /\ down # <<>>
    /\ down' = Tail(down)
    /\ LET to == IF hand.frame = "in" THEN registry[IdOf[Head(down).circ]] ELSE None IN
         readLoop' = IF to = None THEN NoHand ELSE [pc |-> "put", to |-> to, cell |-> Head(down)]
    /\ UNCHANGED <<opener, cause, inbound, reader, destroying, registry, connCause, socket,
                   writeLoop, writeCall, sent, guard, pushed, got, newConn>>

ReadFail ==
    /\ readLoop.pc = "read"
    /\ socket = "closed" \/ (socket = "eof" /\ down = <<>>) \/ deadline
    /\ readLoop' = [readLoop EXCEPT !.pc = "done"]
    /\ Fail("read")
    /\ UNCHANGED <<opener, cause, inbound, reader, destroying, registry, socket, writeLoop,
                   writeCall, down, sent, guard, pushed, got, newConn>>

Push(c, cell) == /\ Len(inbound[c]) < InboundCap
                 /\ inbound' = [inbound EXCEPT ![c] = Append(@, cell)]

\* Plausible bugs: a circuit that is done is waited for, a full one is skipped.
DispatchWaits ==
    /\ readLoop.pc = "put"
    /\ \/ Push(readLoop.to, readLoop.cell) /\ readLoop' = NoHand
       \/ connCause # None /\ readLoop' = [readLoop EXCEPT !.pc = "done"] /\ UNCHANGED inbound
    /\ UNCHANGED <<opener, cause, reader, destroying, registry, connCause, socket, writeLoop,
                   writeCall, down, sent, guard, pushed, got, newConn>>

DispatchOrDrop ==
    /\ readLoop.pc = "put"
    /\ \/ Push(readLoop.to, readLoop.cell)
       \/ Len(inbound[readLoop.to]) = InboundCap /\ UNCHANGED inbound
    /\ readLoop' = NoHand
    /\ UNCHANGED <<opener, cause, reader, destroying, registry, connCause, socket, writeLoop,
                   writeCall, down, sent, guard, pushed, got, newConn>>

\* circuit.Inbound <- cell, or the circuit is done, or the connection is.
Dispatch ==
    /\ readLoop.pc = "put"
    /\ \/ Push(readLoop.to, readLoop.cell) /\ readLoop' = NoHand
       \/ Done(readLoop.to) /\ readLoop' = NoHand /\ UNCHANGED inbound
       \/ connCause # None /\ readLoop' = [readLoop EXCEPT !.pc = "done"] /\ UNCHANGED inbound
    /\ UNCHANGED <<opener, cause, reader, destroying, registry, connCause, socket, writeLoop,
                   writeCall, down, sent, guard, pushed, got, newConn>>

\* External: what the guard makes of a cell.
GuardTake(cell) ==
    LET c == cell.circ
        i == IdOf[c]
    IN  CASE cell.cmd = "CREATE" /\ guard[i] = None ->
               \/ guard' = [guard EXCEPT ![i] = c] /\ down' = Append(down, Msg(c, "CREATED", 0))
               \/ down' = Append(down, Msg(c, "DESTROY", 0)) /\ UNCHANGED guard
          [] OTHER -> UNCHANGED <<guard, down>>

\* Conn.writeLoop: writeCall is served in order.
WriteCell ==
    /\ writeLoop = "running"
    /\ writeCall # <<>>
    /\ writeCall' = Tail(writeCall)
    /\ \/ /\ socket = "open"
          /\ GuardTake(Head(writeCall))
          /\ UNCHANGED <<writeLoop, connCause>>
       \/ socket = "eof" /\ UNCHANGED <<writeLoop, connCause, guard, down>>
       \/ /\ socket # "open" \/ WritesFail
          /\ writeLoop' = "done" /\ Fail("write")
          /\ UNCHANGED <<guard, down>>
    /\ UNCHANGED <<opener, cause, inbound, reader, destroying, registry, socket, readLoop, sent,
                   pushed, got, newConn>>

\* A plausible bug: writeLoop leaves only between two cells it has.
WriteExitDrained ==
    /\ writeLoop = "running"
    /\ connCause # None /\ writeCall # <<>>
    /\ writeLoop' = "done"
    /\ UNCHANGED <<opener, cause, inbound, reader, destroying, registry, connCause, socket, readLoop,
                   writeCall, down, sent, guard, pushed, got, newConn>>

WriteExit ==
    /\ writeLoop = "running"
    /\ connCause # None
    /\ writeLoop' = "done"
    /\ UNCHANGED <<opener, cause, inbound, reader, destroying, registry, connCause, socket, readLoop,
                   writeCall, down, sent, guard, pushed, got, newConn>>

\* Conn.Close
CloseConn ==
    /\ hand.pc = "up" /\ socket # "closed"
    /\ Fail("closed")
    /\ socket' = "closed"
    /\ guard' = [i \in Ids |-> None]
    /\ UNCHANGED <<opener, cause, inbound, reader, destroying, registry, readLoop, writeLoop,
                   writeCall, down, sent, pushed, got, newConn>>

-----------------------------------------------------------------------------
(* External: the guard                                                     *)

GuardRelay(c) ==
    /\ socket = "open" /\ guard[IdOf[c]] = c
    /\ pushed[c] < MaxRelay[c]
    /\ Len(down) < LinkCap
    /\ pushed' = [pushed EXCEPT ![c] = @ + 1]
    /\ down' = Append(down, Msg(c, "RELAY", pushed[c] + 1))
    /\ UNCHANGED <<opener, cause, inbound, reader, destroying, registry, connCause, socket, readLoop,
                   writeLoop, writeCall, sent, guard, got, newConn>>

GuardDestroy(c) ==
    /\ socket = "open" /\ guard[IdOf[c]] = c
    /\ guard' = [guard EXCEPT ![IdOf[c]] = None]
    /\ down' = Append(down, Msg(c, "DESTROY", 0))
    /\ UNCHANGED <<opener, cause, inbound, reader, destroying, registry, connCause, socket, readLoop,
                   writeLoop, writeCall, sent, pushed, got, newConn>>

\* The guard, or the network, ends the connection.
GuardHangsUp ==
    /\ socket = "open"
    /\ socket' = "eof"
    /\ guard' = [i \in Ids |-> None]
    /\ UNCHANGED <<opener, cause, inbound, reader, destroying, registry, connCause, readLoop,
                   writeLoop, writeCall, down, sent, pushed, got, newConn>>

Opening(c) == OpenSend(c) \/ OpenAnswer(c)
Reading(c) == ReaderTake(c) \/ ReaderExit(c)

Next ==
    \/ Connect \/ StartLoops
    \/ \E c \in Circuits : Call(c) \/ Opening(c) \/ Reading(c)
    \/ \E c \in Circuits : HandleDestroy(c) \/ CircuitSend(c) \/ CloseCircuit(c)
    \/ ReadCell \/ ReadFail \/ Dispatch
    \/ WriteCell \/ WriteExit
    \/ CloseConn \/ GuardHangsUp
    \/ \E c \in Circuits : GuardRelay(c) \/ GuardDestroy(c)

Spec == Init /\ [][Next]_vars

\* Every goroutine is scheduled, and the guard answers what reaches it.  A send
\* on writeCall that is possible again and again is served.
Fairness ==
    /\ WF_vars(SetupTls /\ Connect) /\ WF_vars(HandshakeFails /\ Connect) /\ WF_vars(StartLoops)
    /\ \A c \in Circuits : /\ SF_vars(OpenSend(c)) /\ WF_vars(OpenAnswer(c))
                           /\ WF_vars(Reading(c)) /\ WF_vars(HandleDestroy(c))
    /\ WF_vars(ReadCell \/ ReadFail \/ Dispatch)
    /\ WF_vars(WriteCell \/ WriteExit)

FairSpec == Spec /\ Fairness

-----------------------------------------------------------------------------
(* Properties                                                              *)

\* A circuit reads the RELAY cells of its own relay side, all of them and in
\* order: anything else would put the key streams of its hops out of step.
RelayOf(c) == [circ : {c}, cmd : {"RELAY"}, n : Nat]
InHand(c)  == IF readLoop.pc = "put" /\ readLoop.cell \in RelayOf(c) THEN 1 ELSE 0
NoCellLost ==
    \A c \in Circuits :
      (opener[c] = "up" /\ ~Done(c)) =>
        /\ got[c] = [i \in 1 .. Len(got[c]) |-> i]
        /\ Len(got[c]) + Count(inbound[c], RelayOf(c)) + InHand(c) + Count(down, RelayOf(c))
              = pushed[c]

\* Circuits that are full, failed, closed or destroyed never stop the dispatch
\* of the other circuits' cells.
LinkNeverStuck == readLoop.pc = "put" ~> readLoop.pc # "put"

\* Nothing of the handshake outlives it: a connection that has no error, idle as
\* it may be, is not ended by the deadline NewConn had set.
LinkOutlivesHandshake == connCause = "read" => socket # "open"

\* NewConn returns, and on a link in frame so does a NewCircuit whose CREATE the
\* guard answers or whose connection ends.
OpenReturns ==
    /\ NewConnReturns
    /\ \A c \in Circuits : (opener[c] = "send" /\ hand.frame = "in") ~> (opener[c] \in {"up", "failed"})

\* After Conn.Close, or once the guard has hung up, every goroutine of the
\* connection and its circuits returns.
CloseEndsAll ==
    (socket # "open") ~>
       /\ readLoop.pc \in {"off", "done"} /\ writeLoop \in {"off", "done"}
       /\ hand.pc \in Returned
       /\ \A c \in Circuits : reader[c] # "running" /\ opener[c] \in {"off", "up", "failed"}
=============================================================================
