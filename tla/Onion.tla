-------------------------------- MODULE Onion --------------------------------
(***************************************************************************)
(* BuildPath and the onion it builds.  hops.Chain wraps and peels layers   *)
(* with one AES-CTR key stream per hop and direction, and numbers the      *)
(* cells of each hop in a running digest.  Both ends of a key stream must  *)
(* come from the same handshake and must have used it for the same number  *)
(* of cells, or the hop sees noise.                                        *)
(*                                                                         *)
(* BuildPath creates the first hop and extends to the others, and later    *)
(* the user may call ExtendTo; writeLoop marshals the cells of the         *)
(* streams, Extend marshals EXTEND2 in its caller's goroutine, readloop    *)
(* peels what comes back.  A key stream is the number of cells it was used *)
(* for, a layer the number under which it was applied.  External: the      *)
(* relays and the links, which are FIFO.  A relay in Faulty may answer an  *)
(* EXTEND2 itself before it handles it.                                    *)
(***************************************************************************)
EXTENDS NTor, Integers, Sequences, FiniteSets

CONSTANTS Relays,           \* the relays
          Faulty,           \* those that answer in another's place
          Paths,            \* the paths BuildPath may be given: entries of relays
          Extras,           \* the entries ExtendTo may be given later
          MaxHops,          \* bound: hops of the circuit
          MaxAttempts,      \* bound: handshakes of the client
          MaxCells,         \* bound: stream cells the client sends
          MaxReplies        \* bound: stream cells the relays send

\* No two relays of a path are in one /16 (module Path): they are different.
ASSUME OnionAssumption ==
    /\ {MaxHops, MaxAttempts} \subseteq Nat \ {0}
    /\ {MaxCells, MaxReplies} \subseteq Nat
    /\ None \notin Relays /\ Faulty \subseteq Relays
    /\ \A path \in Paths : Len(path) \in 1 .. MaxHops
    /\ \A path \in Paths : \A i, j \in 1 .. Len(path) :
         path[i].node \in Relays /\ (path[i].node = path[j].node => i = j)
    /\ \A entry \in Extras : entry.node \in Relays

Ids == 0 .. MaxHops - 1

VARIABLES
    builder,     \* BuildPath: where it is, and the path
    attempts,    \* handshakes begun
    keys,        \* c.hops.Hops: the handshake secret behind each hop's coder
    forwards,    \* per hop: cells through hop.coder.Forwards.XORKeyStream
    digests,     \* per hop: cells through hop.coder.Forwards.Write
    backwards,   \* per hop: cells through hop.coder.Backwards.XORKeyStream
    checked,     \* per hop: cells through hop.coder.Backwards.Write
    writer,      \* writeLoop: the marshalled cell it has still to send
    extender,    \* Extend: where it is, its cell and its handshake
    extended,    \* c.extended2Received
    cause,       \* context.Cause(c.Ctx)
    offered,     \* stream cells marshalled so far
    link,        \* cells on their way to the relays (conn.writeCall and TCP)
    downlink,    \* cells on their way back
    relays,      \* the relays that are part of the circuit, in its order
    relayKeys,   \* the handshake secret of each
    relayFwd, relayDig, relayBwd, relayNum,  \* the relays' ends of the four
    replies,     \* stream cells the relays have sent
    arrived      \* per relay: the numbers of the stream cells it recognised

clientVars == <<builder, attempts, keys, forwards, digests, backwards, checked, writer, extender,
                extended, offered>>
relayVars  == <<relays, relayKeys, relayFwd, relayDig, relayBwd, relayNum, replies, arrived>>
vars       == <<clientVars, cause, link, downlink, relayVars>>

hops == Len(keys)

\* layers[i] is the use of hop i's key stream that wrapped the cell.
NoCell    == [hop |-> -1, cmd |-> "none", num |-> 0, layers |-> <<>>, body |-> None]
Idle      == [pc |-> "idle", cell |-> NoCell, hs |-> None]
IsCell(c) == /\ c.hop \in Ids /\ c.num \in Nat
             /\ c.cmd \in {"EXTEND2", "EXTENDED2", "TRUNCATED", "STREAM"}
             /\ c.layers \in [0 .. c.hop -> Nat]
AllCells(q) == \A i \in 1 .. Len(q) : IsCell(q[i])

TypeOK ==
    /\ builder.pc \in {"start", "create", "extend", "up", "failed"}
    /\ attempts \in 0 .. MaxAttempts
    /\ relays \in Seq(Relays) /\ Len(relayKeys) = Len(relays)
    /\ hops \in Len(relays) - 1 .. Len(relays) /\ Len(relays) <= MaxHops
    /\ {forwards, digests, backwards, checked, relayFwd, relayDig, relayBwd, relayNum}
         \subseteq [Ids -> Nat]
    /\ writer = NoCell \/ IsCell(writer)
    /\ extender.pc \in {"idle", "marshalled", "waiting"}
    /\ extender.pc = "marshalled" <=> IsCell(extender.cell)
    /\ cause \in {"none", "closed", "failed", "destroyed", "decrypt", "accident", "unknown", "refused"}
    /\ AllCells(link) /\ AllCells(downlink)
    /\ offered \in 0 .. MaxCells /\ replies \in 0 .. MaxReplies
    /\ arrived \in [Ids -> Seq(Nat)]

Zeros == [h \in Ids |-> 0]

Init ==
    /\ builder = [pc |-> "start", path |-> <<>>] /\ attempts = 0
    /\ keys = <<>> /\ relays = <<>> /\ relayKeys = <<>>
    /\ forwards = Zeros /\ digests = Zeros /\ backwards = Zeros /\ checked = Zeros
    /\ relayFwd = Zeros /\ relayDig = Zeros /\ relayBwd = Zeros /\ relayNum = Zeros
    /\ writer = NoCell /\ extender = Idle /\ extended = None
    /\ cause = "none" /\ link = <<>> /\ downlink = <<>> /\ offered = 0 /\ replies = 0
    /\ arrived = [h \in Ids |-> <<>>]

\* One more use of the key streams of the hops in S.
Use(counts, S) == [h \in Ids |-> IF h \in S THEN counts[h] + 1 ELSE counts[h]]

-----------------------------------------------------------------------------
(* The client's way out                                                    *)

\* A plausible bug: the layer of the first hop is forgotten.
WrappingAfterGuard(dst) == (1 .. dst) \cup {dst}

\* Hop.Marshal at dst, then XORKeyStream of the hops dst-1 .. 0.
Wrapping(dst) == 0 .. dst

MarshalMessage(dst) ==
    /\ forwards' = Use(forwards, Wrapping(dst))
    /\ digests' = Use(digests, {dst})

Marshalled(dst, cmd, body) ==
    [hop |-> dst, cmd |-> cmd, num |-> digests[dst], layers |-> [i \in 0 .. dst |-> forwards[i]],
     body |-> body]

\* writeLoop takes the cell of a stream and encrypts it; there are streams once
\* BuildPath has returned the circuit.
WriterMarshal(dst) ==
    /\ builder.pc = "up"
    /\ writer = NoCell
    /\ dst < hops
    /\ offered < MaxCells
    /\ MarshalMessage(dst)
    /\ writer' = Marshalled(dst, "STREAM", None)
    /\ offered' = offered + 1
    /\ UNCHANGED <<builder, attempts, keys, backwards, checked, extender, extended, cause, link, downlink,
                   relayVars>>

\* c.SendCell; once the circuit is closed it may give up the cell instead.
Deliver(cell) == \/ link' = Append(link, cell)
                 \/ cause # "none" /\ UNCHANGED link

\* writeLoop sends it, after the wait for a SENDME if there is one.
WriterSend ==
    /\ writer # NoCell
    /\ Deliver(writer)
    /\ writer' = NoCell
    /\ UNCHANGED <<builder, attempts, keys, forwards, digests, backwards, checked, extender, extended,
                   offered, cause, downlink, relayVars>>

-----------------------------------------------------------------------------
(* BuildPath, ExtendTo and Extend                                          *)

Fail(why) == cause' = IF cause = "none" THEN why ELSE cause

\* The first hop or the next one is there.
Advance(n) == builder' = IF builder.pc = "up" THEN builder
                         ELSE [builder EXCEPT !.pc = IF n = Len(builder.path) THEN "up" ELSE "extend"]

\* ExtendTo returns an error; BuildPath closes the circuit.
ExtendError == IF builder.pc = "up" THEN UNCHANGED <<builder, cause>>
               ELSE builder' = [builder EXCEPT !.pc = "failed"] /\ Fail("closed")

\* BuildPath, up to the CREATE2 of NewCircuitTo.
BuildPath(path) ==
    /\ builder.pc = "start"
    /\ IF NewNTorHandshake(path[1], 1) = None
         THEN builder' = [pc |-> "failed", path |-> path] /\ UNCHANGED attempts
         ELSE builder' = [pc |-> "create", path |-> path] /\ attempts' = 1
    /\ UNCHANGED <<keys, forwards, digests, backwards, checked, writer, extender, extended, offered,
                   cause, link, downlink, relayVars>>

\* NewCircuit: the guard's CREATED2 makes the first hop; DESTROY, another auth
\* or the end of the connection ends the circuit.
Create ==
    /\ builder.pc = "create"
    /\ LET hs    == NewNTorHandshake(builder.path[1], attempts)
           guard == builder.path[1].node
       IN  \/ /\ Accepts(guard, hs)
              /\ keys' = <<Derive(hs, Answer(guard, hs))>>
              /\ relays' = <<guard>> /\ relayKeys' = <<Answer(guard, hs).Auth>>
              /\ Advance(1)
              /\ UNCHANGED cause
           \/ /\ builder' = [builder EXCEPT !.pc = "failed"]
              /\ Fail("failed")
              /\ UNCHANGED <<keys, relays, relayKeys>>
    /\ UNCHANGED <<attempts, forwards, digests, backwards, checked, writer, extender, extended, offered,
                   link, downlink, relayFwd, relayDig, relayBwd, relayNum, replies, arrived>>

\* ExtendTo, up to the EXTEND2 that Extend encrypts for the last hop; ...
ExtendTo(entry) ==
    /\ extender = Idle
    /\ attempts < MaxAttempts
    /\ LET specs == LinkSpecsFor(entry)
           hs    == NewNTorHandshake(entry, attempts + 1)
       IN  IF None \in {specs, hs}
             THEN ExtendError /\ UNCHANGED <<attempts, forwards, digests, extender>>
             ELSE /\ MarshalMessage(hops - 1)
                  /\ extender' = [pc |-> "marshalled", hs |-> hs,
                                  cell |-> Marshalled(hops - 1, "EXTEND2", [specs |-> specs, hs |-> hs])]
                  /\ attempts' = attempts + 1
                  /\ UNCHANGED <<builder, cause>>
    /\ UNCHANGED <<keys, backwards, checked, writer, extended, offered, link, downlink, relayVars>>

\* ... for BuildPath the next relay of the path, ...
BuilderExtends == builder.pc = "extend" /\ ExtendTo(builder.path[hops + 1])

\* ... for the user any relay (bound: nobody extends a closed circuit, or to a
\* relay it already has).
UserExtends == /\ builder.pc = "up" /\ cause = "none" /\ hops < MaxHops
               /\ \E entry \in Extras : /\ \A i \in 1 .. hops : keys[i].ID # entry.node
                                       /\ ExtendTo(entry)

\* c.SendCell, as RELAY_EARLY, ...
ExtendSend ==
    /\ extender.pc = "marshalled"
    /\ Deliver(extender.cell)
    /\ extender' = [extender EXCEPT !.pc = "waiting", !.cell = NoCell]
    /\ UNCHANGED <<builder, attempts, keys, forwards, digests, backwards, checked, writer, extended,
                   offered, cause, downlink, relayVars>>

\* ... the wait for EXTENDED2, and the new hop with fresh running values.
ExtendAnswered ==
    /\ extender.pc = "waiting"
    /\ extended # None
    /\ extended' = None
    /\ extender' = Idle
    /\ LET secret == Derive(extender.hs, extended) IN
         IF secret # None
           THEN keys' = Append(keys, secret) /\ Advance(hops + 1) /\ UNCHANGED cause
           ELSE ExtendError /\ UNCHANGED keys
    /\ UNCHANGED <<attempts, forwards, digests, backwards, checked, writer, offered, link, downlink,
                   relayVars>>

\* A plausible bug: it does not watch the circuit's context for the end of the
\* link or of a relay.
ExtendFailIfClosed == cause = "closed"

\* The context.
ExtendGivesUp == cause # "none"

ExtendFail ==
    /\ extender.pc = "waiting"
    /\ ExtendGivesUp
    /\ extender' = Idle
    /\ ExtendError
    /\ UNCHANGED <<attempts, keys, forwards, digests, backwards, checked, writer, extended, offered,
                   link, downlink, relayVars>>

-----------------------------------------------------------------------------
(* The client's way in: Circuit.readloop and Chain.UnmarshalMessage        *)

\* The layers up to hop h are the ones its end of the key stream removes next.
InStep(cell, counts, h) == \A i \in 0 .. h : cell.layers[i] = counts[i]

\* Hop id finds the cell in plain, all layers removed in step.
Own(cell, id) == id = cell.hop /\ InStep(cell, backwards, id)

\* A plausible bug: every hop peels its layer, also behind the sender.
PeelAll(id) == 0 .. hops - 1

\* The hops whose key streams are used when hop id is the first to recognise.
Peeled(id) == 0 .. id

\* A hop takes the cell for its own if two bytes are zero: in plain, or by
\* accident, in the noise of another hop's cell.  backwardCheck then asks
\* whether the digest fits what this hop has sent so far; after an accident it
\* does not, and no later hop is asked.  TRUNCATED is no command it knows: the
\* circuit ends.  An EXTENDED2 that finds another one waiting is dropped.
ReadCell ==
    /\ downlink # <<>>
    /\ downlink' = Tail(downlink)
    /\ LET cell == Head(downlink) IN
         \/ \E id \in 0 .. hops - 1 :
              /\ \A j \in 0 .. id - 1 : ~Own(cell, j)
              /\ backwards' = Use(backwards, Peeled(id))
              /\ IF Own(cell, id) /\ cell.cmd = "TRUNCATED"
                   THEN Fail("unknown") /\ UNCHANGED <<checked, extended>>
                   ELSE /\ checked' = Use(checked, {id})
                        /\ IF Own(cell, id) /\ cell.num = checked[id]
                             THEN /\ extended' = IF cell.cmd = "EXTENDED2" /\ extended = None
                                                   THEN cell.body ELSE extended
                                  /\ UNCHANGED cause
                             ELSE /\ Fail(IF Own(cell, id) THEN "decrypt" ELSE "accident")
                                  /\ UNCHANGED extended
         \/ /\ \A id \in 0 .. hops - 1 : ~Own(cell, id)
            /\ backwards' = Use(backwards, 0 .. hops - 1)
            /\ Fail("decrypt")
            /\ UNCHANGED <<checked, extended>>
    /\ UNCHANGED <<builder, attempts, keys, forwards, digests, writer, extender, offered, link, relayVars>>

CloseCircuit ==
    /\ cause = "none" /\ hops > 0
    /\ cause' = "closed"
    /\ UNCHANGED <<clientVars, link, downlink, relayVars>>

-----------------------------------------------------------------------------
(* External: the relays.  A cell that nobody recognises ends the circuit.  *)

\* A reply of relay h on its way to the client gets the layers of h .. 0.
Reply(h, cmd, body) ==
    /\ downlink' = Append(downlink, [hop |-> h, cmd |-> cmd, num |-> relayNum[h], body |-> body,
                                     layers |-> [i \in 0 .. h |-> relayBwd[i]]])
    /\ relayBwd' = Use(relayBwd, 0 .. h)
    /\ relayNum' = Use(relayNum, {h})

Recognised(cell) == InStep(cell, relayFwd, cell.hop) /\ cell.num = relayDig[cell.hop]

\* EXTEND2 at relay h: it connects to the address, compares the identities and
\* passes the handshake on, once.
Extend2(h, specs, hs) ==
    LET next == specs.addr IN
    IF Len(relays) > h + 1
      THEN /\ Fail("refused")
           /\ UNCHANGED <<relays, relayKeys, downlink, relayBwd, relayNum>>
      ELSE /\ UNCHANGED cause
           /\ IF specs.node = next /\ specs.ed = next /\ Accepts(next, hs)
                THEN /\ relays' = Append(relays, next)
                     /\ relayKeys' = Append(relayKeys, Answer(next, hs).Auth)
                     /\ Reply(h, "EXTENDED2", Answer(next, hs))
                ELSE Reply(h, "TRUNCATED", None) /\ UNCHANGED <<relays, relayKeys>>

RelayReceive ==
    /\ link # <<>>
    /\ link' = Tail(link)
    /\ LET cell == Head(link)
           h    == cell.hop
       IN  IF Recognised(cell)
             THEN /\ relayFwd' = Use(relayFwd, 0 .. h)
                  /\ relayDig' = Use(relayDig, {h})
                  /\ IF cell.cmd = "EXTEND2"
                       THEN Extend2(h, cell.body.specs, cell.body.hs) /\ UNCHANGED arrived
                       ELSE /\ arrived' = [arrived EXCEPT ![h] = Append(@, cell.num)]
                            /\ UNCHANGED <<relays, relayKeys, cause, downlink, relayBwd, relayNum>>
             ELSE /\ relayFwd' = Use(relayFwd, 0 .. Len(relays) - 1)
                  /\ Fail("destroyed")
                  /\ UNCHANGED <<relayDig, relays, relayKeys, arrived, downlink, relayBwd, relayNum>>
    /\ UNCHANGED <<clientVars, replies>>

\* A faulty relay answers in the place of the one it is asked to extend to.
RelayAnswersItself ==
    /\ link # <<>>
    /\ LET cell == Head(link) IN
         /\ cell.cmd = "EXTEND2" /\ Recognised(cell) /\ relays[cell.hop + 1] \in Faulty
         /\ Reply(cell.hop, "EXTENDED2", Answer(relays[cell.hop + 1], cell.body.hs))
    /\ replies < MaxReplies
    /\ replies' = replies + 1
    /\ UNCHANGED <<clientVars, cause, link, relays, relayKeys, relayFwd, relayDig, arrived>>

RelaySend(h) ==
    /\ arrived[h] # <<>>
    /\ replies < MaxReplies
    /\ replies' = replies + 1
    /\ Reply(h, "STREAM", None)
    /\ UNCHANGED <<clientVars, cause, link, relays, relayKeys, relayFwd, relayDig, arrived>>

Next ==
    \/ \E path \in Paths : BuildPath(path)
    \/ Create \/ BuilderExtends \/ UserExtends
    \/ ExtendSend \/ ExtendAnswered \/ ExtendFail
    \/ \E h \in Ids : WriterMarshal(h)
    \/ WriterSend
    \/ ReadCell
    \/ CloseCircuit
    \/ RelayReceive \/ RelayAnswersItself
    \/ \E h \in Ids : RelaySend(h)

Spec == Init /\ [][Next]_vars

\* The goroutines are scheduled, the relays and the links work off what they
\* are sent.  Nobody need send, extend or close anything.
Fairness ==
    /\ WF_vars(Create) /\ WF_vars(BuilderExtends)
    /\ WF_vars(ExtendSend) /\ WF_vars(ExtendAnswered \/ ExtendFail)
    /\ WF_vars(ReadCell) /\ WF_vars(RelayReceive)

FairSpec == Spec /\ Fairness

-----------------------------------------------------------------------------
(* Properties                                                              *)

\* The next cell of the link was overtaken: of the cells that have not reached
\* their relays, on the link and in the hands of writeLoop and Extend, another
\* one was encrypted before it.
Overtaken ==
    \E other \in {link[i] : i \in 2 .. Len(link)} \cup ({writer, extender.cell} \ {NoCell}) :
        other.layers[0] < Head(link).layers[0]

\* The next cell of either direction is recognised where it should be: one of
\* the client by the relay it is for, unless it left before a cell encrypted
\* earlier, which nothing keeps writeLoop and Extend from; one of a relay by the
\* client as that relay's, always.  (A circuit may have ended otherwise: closed,
\* by zero bytes that occur by accident, or by a cell that was recognised, a
\* TRUNCATED or an EXTEND2 the relay refuses.)
CellsRecognised ==
    cause = "none" =>
        /\ link # <<>> => \/ Head(link).hop < Len(relays) /\ Recognised(Head(link))
                         \/ Overtaken
        /\ downlink # <<>> => LET cell == Head(downlink) IN
             cell.hop < hops /\ Own(cell, cell.hop) /\ cell.num = checked[cell.hop]

\* The key streams are in step, cell for cell: what the client has used and
\* the relay has not is on the link or in the hands of a goroutine.
InFlight(h) ==
    Cardinality({i \in 1 .. Len(link) : link[i].hop >= h})
      + (IF writer.hop >= h THEN 1 ELSE 0) + (IF extender.cell.hop >= h THEN 1 ELSE 0)
KeyStreamsInStep ==
    /\ TypeOK
    /\ cause = "none" => \A h \in Ids : /\ forwards[h] = relayFwd[h] + InFlight(h)
                                        /\ relayBwd[h] = backwards[h] +
                                             Cardinality({i \in 1 .. Len(downlink) : downlink[i].hop >= h})

\* The hops of the chain are the relays that were asked for, each with its own
\* keys, whatever stale, missing or faulty answers there were; and BuildPath
\* returns the whole path, or an error and no open circuit.
HopsAreThePath ==
    /\ hops <= Len(relays)
    /\ \A i \in 1 .. hops : keys[i] = relayKeys[i] /\ keys[i].ID = relays[i]
    /\ builder.pc = "up" => \A i \in 1 .. Len(builder.path) : relays[i] = builder.path[i].node
    /\ builder.pc = "failed" => hops = 0 \/ cause # "none"

\* BuildPath and ExtendTo return: whatever a relay answers, refuses or makes up,
\* an answer or the end of the circuit reaches the Extend that waits for one.
ExtendReturns ==
    (builder.pc \in {"create", "extend"} \/ extender # Idle)
      ~> (builder.pc \in {"up", "failed"} /\ extender = Idle)
=============================================================================
