----------------------------- MODULE Directory ------------------------------
(***************************************************************************)
(* The directory side of a client: BootstrapOneConn, the refresh job       *)
(* nextConsensus it starts, and a user who selects paths while both run.   *)
(*                                                                         *)
(* The Consensus that GlobalConsensus points to is written in place by     *)
(* both; a Selector keeps the slice of relays it found when it was made.   *)
(* Nothing locks any of it.  External: the directory cache, whose newest   *)
(* consensus may be one interval old, whose answers may be partial, and    *)
(* whose downloads may fail or break off.                                  *)
(*                                                                         *)
(* Time goes in units of a quarter of an hour.  age is the time since the  *)
(* valid-after of the consensus in use.  Downloads, and waits of up to     *)
(* five minutes, take no time.                                             *)
(***************************************************************************)
EXTENDS Microdesc, Path

CONSTANTS Documents,  \* the consensuses the authorities publish
          FirstPhases, \* when, within an interval, the first download may come
          Chunk,      \* 91, the microdescriptors asked for at once
          MaxHops,    \* bound: hops of a path
          UserPorts,  \* the ports the user wants to reach
          Scenarios   \* records: lags of the cache, in intervals; broken: may
                      \* downloads break off; failing: may anything fail; whole:
                      \* does the cache know every microdescriptor; user: does
                      \* the user select paths

VARIABLES
    scenario,
    link,     \* the bootstrap connection: "up", its circuit "dead", or "closed"
    boot,     \* BootstrapOneConn: pc, offset i, the chunk's answer, place in it
    cns,      \* *GlobalConsensus, <<>> before the first
    age,
    job,      \* nextConsensus: pc, the timer it sleeps on and what is next,
              \* whether a fetch failed since the last one that did not
    pending,  \* cnsPtr: a consensus fetched, and its age, but not yet stored
    sel       \* the user's Selector

stepVars == <<link, boot, cns, age, job, pending, sel>>
vars == <<scenario, stepVars>>

Idle == [pc |-> "idle", i |-> 0, desc |-> <<>>, k |-> 1, half |-> 1]
NoJob == [pc |-> "none", timer |-> 0, next |-> "loop", failed |-> FALSE]
NoSelector == [pc |-> "none", src |-> "cns", arr |-> <<>>, len |-> 0, weights |-> NoWeights,
               longLive |-> FALSE,
               port |-> 0, left |-> 0, guard |-> 0, exit |-> 0, middles |-> <<>>, full |-> <<>>]

Init == /\ scenario \in Scenarios
        /\ link = "up"
        /\ boot = Idle
        /\ cns = <<>>
        /\ age = 0
        /\ job = NoJob
        /\ pending = <<>>
        /\ sel = NoSelector

HalfHour == 2
Hour == 4

ASSUME DirectoryAssumption ==
    /\ {Chunk, MaxHops} \subseteq Nat \ {0}
    /\ FirstPhases \subseteq 0 .. Fresh - 1
    /\ UserPorts \subseteq 1 .. MaxPort
    /\ \A s \in Scenarios : /\ {s.broken, s.failing, s.whole, s.user} \subseteq BOOLEAN
                             /\ s.lags \subseteq 0 .. 1

\* The authorities' intervals leave a window to fetch in, and are no shorter
\* than the waits the job falls back on.
ASSUME IntervalsAssumption ==
    /\ (Fresh * 3) \div 4 < (Valid * 7) \div 8
    /\ Hour <= Fresh + Valid

\* A relay's entry names a published microdescriptor, no other's in the same
\* document.
ASSUME DocumentsAssumption ==
    \A d \in Documents :
        /\ d.entries \in Seq(ToSet(d.entries))
        /\ \A i, j \in DOMAIN d.entries : i # j => d.entries[i].digest # d.entries[j].digest
        /\ d.weights \in [Weights -> Nat]
        /\ \A e \in ToSet(d.entries) : e.bw \in Nat /\ e.digest \in DOMAIN Blocks

-----------------------------------------------------------------------------
(* Time                                                                    *)

\* Past the end of the window only the phase within the interval matters.
Aged(a) == IF a + 1 > 2 * (Fresh + Valid) THEN a + 1 - Fresh ELSE a + 1

\* External: the age of the newest consensus of a cache that may lag behind.
AgesServed(phases) == {p + lag * Fresh : p \in phases, lag \in scenario.lags}

\* A plausible bug: the window's end counts from valid-after.
FetchTimesLate(c, now) ==
    LET start == c.freshUntil + ((c.freshUntil - c.validAfter) * 3) \div 4
        end == c.freshUntil + ((c.validUntil - c.validAfter) * 7) \div 8
    IN IF NoTime \in {c.validAfter, c.freshUntil, c.validUntil} \/ end <= start THEN {}
       ELSE IF now > end \/ end <= now THEN {now}
       ELSE (IF now > start THEN now ELSE start) .. end - 1

\* nextConsensusFetchTime: the times it may return; none when it fails.
FetchTimes(c, now) ==
    LET fresh == IF c.freshUntil > c.validAfter THEN c.freshUntil - c.validAfter ELSE Hour
        valid == IF c.validUntil > c.freshUntil THEN c.validUntil - c.freshUntil ELSE 2 * Hour
        start == c.freshUntil + (fresh * 3) \div 4
        end == c.freshUntil + (valid * 7) \div 8
    IN IF NoTime \in {c.validAfter, c.freshUntil, c.validUntil} \/ end <= start THEN {}
       ELSE IF end <= now THEN {now}
       ELSE (IF now > start THEN now ELSE start) .. end - 1

-----------------------------------------------------------------------------
(* GetConsensus: a document, whole or broken off, that parses.             *)

Parsed(downloads) == {p.cns : p \in {q \in {ParseConsensus(l) : l \in downloads} : ~q.err}}
Whole == Parsed({Lines(d) : d \in Documents})
BrokenOff == Parsed(UNION {Broken(Lines(d)) : d \in Documents})
Served == IF scenario.broken THEN Whole \cup BrokenOff ELSE Whole

\* The slice of a Selector outlives the Consensus it came from.
Detached(s) == IF s.pc \notin {"none", "wild"} /\ s.src = "cns" THEN [s EXCEPT !.src = "old", !.arr = cns[1].relays] ELSE s

-----------------------------------------------------------------------------
(* BootstrapOneConn                                                        *)

\* NewFastCircuit and GetConsensus.  When either fails, the call returns and
\* nothing has changed.
BootstrapStarts ==
    /\ boot.pc = "idle" /\ job.pc = "none"
    /\ link # "closed"
    /\ link' = "up"
    /\ \E c \in Served, a \in AgesServed(FirstPhases) :
         /\ cns' = <<c>>
         /\ age' = a
    /\ sel' = Detached(sel)
    /\ boot' = [Idle EXCEPT !.pc = "chunk"]
    /\ UNCHANGED <<job, pending>>

Relays == cns[1].relays
Digests == [i \in DOMAIN Relays |-> Relays[i].digest]
ChunkOf(i) == SubSeq(Digests, i + 1, IF i + Chunk < Len(Digests) THEN i + Chunk ELSE Len(Digests))

\* A plausible bug: the loop stops before a chunk that is not full.
ChunksEndAtFull == boot.i + Chunk > Len(Relays)

ChunksEnd == boot.i >= Len(Relays)

\* External: a cache that knows them all answers whole, in any order.
Descriptors(chunk) == IF scenario.whole THEN AnswersWith(ToSet(chunk)) ELSE Answers(chunk)

\* GetMicrodescriptors for the next chunk; an error ends the call.
GetMicrodescriptors ==
    /\ boot.pc = "chunk" /\ ~ChunksEnd
    /\ \/ /\ link = "up"
          /\ \E answer \in Descriptors(ChunkOf(boot.i)) :
               boot' = [boot EXCEPT !.pc = "apply", !.k = 1, !.half = 1,
                                    !.desc = ParseMicrodescFile(answer, ChunkOf(boot.i))]
       \/ scenario.failing /\ boot' = Idle
    /\ UNCHANGED <<link, cns, age, job, pending, sel>>

NextDesc == [boot EXCEPT !.k = @ + 1, !.half = 1]

\* A plausible bug: the offset of the chunk is forgotten.
IndexInChunk == boot.k

Index == boot.i + boot.k

\* The rest of a microdescriptor, applied to its relay.
Applied(r, m) == [r EXCEPT !.ports = IF m.exitRules = <<>> THEN @ ELSE m.exitRules[1],
                           !.familys = m.familys,
                           !.ed = IF m.ed = "" THEN @ ELSE m.ed]

\* fetchAndApplyMicrodescriptors for one descriptor, in two halves: the ntor
\* key, which may be refused, and then the rest.
Apply ==
    /\ boot.pc = "apply" /\ boot.k <= Len(boot.desc)
    /\ LET v == boot.desc[boot.k] IN
       IF v = <<>> THEN boot' = NextDesc /\ UNCHANGED cns
       ELSE IF Index > Len(Relays) THEN boot' = Idle /\ UNCHANGED cns
       ELSE IF boot.half = 1
         THEN /\ boot' = IF v[1].ntor = "invalid" THEN NextDesc ELSE [boot EXCEPT !.half = 2]
              /\ cns' = IF v[1].ntor \in {"", "invalid"} THEN cns
                        ELSE [cns EXCEPT ![1].relays[Index].ntor = v[1].ntor]
         ELSE /\ boot' = NextDesc
              /\ cns' = [cns EXCEPT ![1].relays[Index] = Applied(@, v[1])]
    /\ UNCHANGED <<link, age, job, pending, sel>>

ChunkDone ==
    /\ boot.pc = "apply" /\ boot.k > Len(boot.desc)
    /\ boot' = [Idle EXCEPT !.pc = "chunk", !.i = boot.i + Chunk]
    /\ UNCHANGED <<link, cns, age, job, pending, sel>>

\* StartConsensusRefresh
BootstrapDone ==
    /\ boot.pc = "chunk" /\ ChunksEnd
    /\ boot' = [Idle EXCEPT !.pc = "done"]
    /\ job' = [NoJob EXCEPT !.pc = "loop"]
    /\ UNCHANGED <<link, cns, age, pending, sel>>

-----------------------------------------------------------------------------
(* nextConsensus                                                           *)

\* sleepCtx: nothing to wait for, or a timer.
Sleep(d, next) == IF d <= 0 THEN [job EXCEPT !.pc = next]
                  ELSE [job EXCEPT !.pc = "wait", !.timer = d, !.next = next]

\* The top of the loop: is the context done?  When is the next fetch?
JobLoop ==
    /\ job.pc = "loop"
    /\ IF link = "closed" THEN job' = [job EXCEPT !.pc = "ended"]
       ELSE LET times == FetchTimes(cns[1], age) IN
            IF times = {} THEN job' = Sleep(Hour, "loop")
            ELSE \E t \in times : job' = Sleep(t - age, "fetch")
    /\ UNCHANGED <<link, boot, cns, age, pending, sel>>

WaitOver ==
    /\ job.pc = "wait" /\ job.timer = 0
    /\ job' = [job EXCEPT !.pc = job.next]
    /\ UNCHANGED <<link, boot, cns, age, pending, sel>>

WaitCancelled ==
    /\ job.pc = "wait" /\ link = "closed"
    /\ job' = [job EXCEPT !.pc = "ended", !.timer = 0]
    /\ UNCHANGED <<link, boot, cns, age, pending, sel>>

\* A plausible bug: a failed fetch ends the job.
FetchFailsForGood ==
    /\ job.pc = "fetch"
    /\ job' = [job EXCEPT !.pc = "ended"]
    /\ UNCHANGED <<link, boot, cns, age, pending, sel>>

\* GetConsensus fails; on a dead circuit it always does.
FetchFails ==
    /\ job.pc = "fetch" /\ scenario.failing
    /\ job' = [Sleep(HalfHour, "loop") EXCEPT !.failed = TRUE]
    /\ UNCHANGED <<link, boot, cns, age, pending, sel>>

FetchReturns ==
    /\ job.pc = "fetch" /\ link = "up"
    /\ \E c \in Served, a \in AgesServed({age % Fresh}) : pending' = <<[cns |-> c, age |-> a]>>
    /\ job' = [job EXCEPT !.pc = "store"]
    /\ UNCHANGED <<link, boot, cns, age, sel>>

\* A plausible bug: the relays are copied into the slice that is in use.
StoreInPlace ==
    /\ job.pc = "store"
    /\ cns' = <<pending[1].cns>>
    /\ age' = pending[1].age
    /\ pending' = <<>>
    /\ job' = [job EXCEPT !.pc = "loop", !.failed = FALSE]
    /\ sel' = LET old == Detached(sel)
                  new == pending[1].cns.relays
              IN IF sel.src = "pending" THEN [sel EXCEPT !.src = "cns"]
                 ELSE IF sel.src # "cns" THEN sel
                 ELSE [old EXCEPT !.arr = [i \in DOMAIN @ |-> IF i <= Len(new) THEN new[i] ELSE @[i]]]
    /\ UNCHANGED <<link, boot>>

\* *cns = *cnsPtr
Store ==
    /\ job.pc = "store"
    /\ cns' = <<pending[1].cns>>
    /\ age' = pending[1].age
    /\ pending' = <<>>
    /\ job' = [job EXCEPT !.pc = "loop", !.failed = FALSE]
    /\ sel' = IF sel.src = "pending" THEN [sel EXCEPT !.src = "cns"] ELSE Detached(sel)
    /\ UNCHANGED <<link, boot>>

-----------------------------------------------------------------------------
(* The user: path.New and SelectRandomCircuit                              *)

Slice(src) == CASE src = "cns" -> cns[1].relays
                [] src = "pending" -> pending[1].cns.relays
                [] src = "old" -> sel.arr

\* path.New copies the slice header and the weights.  While *cns is being
\* assigned each word of them may be the old one or the new one; "wild" is a
\* slice longer than its array.
New ==
    /\ scenario.user /\ sel.pc \in {"none", "done", "failed"}
    /\ cns # <<>>
    /\ LET srcs == IF job.pc = "store" THEN {"cns", "pending"} ELSE {"cns"}
           From(src) == IF src = "cns" THEN cns[1] ELSE pending[1].cns
       IN \E ptr, len, w \in srcs, longLive \in BOOLEAN :
            sel' = IF Len(From(len).relays) > Len(From(ptr).relays)
                     THEN [NoSelector EXCEPT !.pc = "wild"]
                     ELSE [NoSelector EXCEPT !.pc = "ready", !.src = ptr,
                             !.len = Len(From(len).relays), !.weights = From(w).weights,
                             !.longLive = longLive]
    /\ UNCHANGED <<link, boot, cns, age, job, pending>>

List == SubSeq(Slice(sel.src), 1, sel.len)
\* A plausible bug: the exit, which is chosen first, is not compared with.
ChosenOnTheWay(s) == ({s.guard} \cup ToSet(s.middles)) \ {0}

\* The relays of the path so far.
Chosen(s) == ({s.guard, s.exit} \cup ToSet(s.middles)) \ {0}

\* One call of selectRelay within s, which says what was chosen so far.
Picks(s, place, port) ==
    SelectRelay(List, s.weights, place, port, s.longLive, {List[i] : i \in Chosen(s)})

\* SelectRandomCircuit forgets an earlier selection and picks the exit.
SelectExit ==
    /\ sel.pc \in {"ready", "done", "failed"}
    /\ \E hops \in 1 .. MaxHops, port \in UserPorts :
       LET s == [sel EXCEPT !.guard = 0, !.exit = 0, !.middles = <<>>, !.full = <<>>,
                            !.port = port, !.left = hops - 1]
       IN \E e \in Picks(s, "exit", port) :
            sel' = IF e = 0 THEN [s EXCEPT !.pc = "failed"]
                   ELSE IF hops = 1 THEN [s EXCEPT !.pc = "done", !.exit = e, !.full = <<e>>]
                   ELSE [s EXCEPT !.pc = "guard", !.exit = e]
    /\ UNCHANGED <<link, boot, cns, age, job, pending>>

\* A relay joins the path; the exit comes last.
Joined(s, i) ==
    LET full == Append(s.full, i)
    IN IF s.left = 1 THEN [s EXCEPT !.pc = "done", !.left = 0, !.full = Append(full, s.exit)]
       ELSE [s EXCEPT !.pc = "middle", !.left = @ - 1, !.full = full]

SelectGuard ==
    /\ sel.pc = "guard"
    /\ \E g \in Picks(sel, "guard", 0) :
         sel' = IF g = 0 THEN [sel EXCEPT !.pc = "failed"]
                ELSE Joined([sel EXCEPT !.guard = g], g)
    /\ UNCHANGED <<link, boot, cns, age, job, pending>>

SelectMiddle ==
    /\ sel.pc = "middle"
    /\ \E m \in Picks(sel, "middle", 0) :
         sel' = IF m = 0 THEN [sel EXCEPT !.pc = "failed"]
                ELSE Joined([sel EXCEPT !.middles = Append(@, m)], m)
    /\ UNCHANGED <<link, boot, cns, age, job, pending>>

-----------------------------------------------------------------------------
\* External: the circuit is destroyed; the connection is closed, by either side.
LinkFails ==
    /\ scenario.failing
    /\ \/ link = "up" /\ link' = "dead"
       \/ link # "closed" /\ link' = "closed"
    /\ UNCHANGED <<boot, cns, age, job, pending, sel>>

\* Time passes once every step that is due has been taken.
Tick ==
    /\ job.pc = "wait" /\ job.timer > 0 /\ link # "closed"
    /\ job' = [job EXCEPT !.timer = @ - 1]
    /\ age' = Aged(age)
    /\ UNCHANGED <<link, boot, cns, pending, sel>>

Step ==
    \/ BootstrapStarts \/ GetMicrodescriptors \/ Apply \/ ChunkDone \/ BootstrapDone
    \/ JobLoop \/ WaitOver \/ WaitCancelled \/ FetchFails \/ FetchReturns \/ Store
    \/ New \/ SelectExit \/ SelectGuard \/ SelectMiddle
    \/ LinkFails \/ Tick

Next == Step /\ UNCHANGED scenario

\* The job's goroutine is scheduled and time passes.  The cache need not
\* answer; the user need not do anything.
Spec == /\ Init /\ [][Next]_vars
        /\ WF_stepVars(JobLoop \/ WaitOver \/ WaitCancelled \/ Store \/ Tick)

-----------------------------------------------------------------------------
(* Properties                                                              *)

RouterStatus(r) ==
    /\ DOMAIN r = DOMAIN NoRelay
    /\ r.ports \subseteq 0 .. MaxPort
    /\ r.bw \in Nat

TypeOK ==
    /\ scenario \in Scenarios
    /\ link \in {"up", "dead", "closed"}
    /\ boot.pc \in {"idle", "chunk", "apply", "done"} /\ boot.half \in {1, 2}
    /\ age \in 0 .. 2 * (Fresh + Valid)
    /\ job.pc \in {"none", "loop", "wait", "fetch", "store", "ended"}
    /\ job.timer \in 0 .. Fresh + Valid
    /\ Len(cns) <= 1 /\ Len(pending) <= 1
    /\ cns # <<>> => \A i \in DOMAIN Relays : RouterStatus(Relays[i])
    /\ job.pc # "none" => cns # <<>>
    /\ job.pc = "store" <=> pending # <<>>
    /\ sel.pc \in {"none", "ready", "guard", "middle", "done", "failed", "wild"}
    /\ sel.pc \notin {"none", "wild"} => sel.len <= Len(Slice(sel.src))
    /\ (ToSet(sel.full) \cup Chosen(sel)) \subseteq 1 .. sel.len

\* A field of relay i that its entry does not give is the one given last by an
\* entry before it, or unset.
GivenLast(v, f, es, i) ==
    \/ v = Unset /\ \A j \in 1 .. i : f \notin DOMAIN es[j].given
    \/ \E j \in 1 .. i : /\ f \in DOMAIN es[j].given /\ v = es[j].given[f]
                         /\ \A k \in j + 1 .. i : f \notin DOMAIN es[k].given

\* The consensus lists the first entries of one document, each with its own
\* identity, address, bandwidth, digest and keys: the parser, which reuses one
\* RouterStatus, and the application of microdescriptors by position mix none
\* of these, however the download ended and whatever the cache left out.  They
\* do mix the rest, and this says how far: a relay has its own flags and those
\* of every relay before it, no other; an Ipv6Addr or protocol its entry gives
\* is its own, and one it does not give is inherited from the nearest relay
\* before it that was given one.
RelaysAreTheirOwn == TypeOK /\
    (cns # <<>> => \E d \in Documents : \A i \in DOMAIN Relays : LET r == Relays[i]  e == d.entries[i] IN
        /\ r.id = e.id /\ r.ipLevel = IPLevel(e.ip) /\ r.bw = e.bw /\ r.digest = e.digest
        /\ r.flags = UNION {d.entries[j].flags : j \in 1 .. i}
        /\ \A f \in Optional : GivenLast(r.given[f], f, d.entries, i)
        /\ LET m == ParseMicrodescBlock(Blocks[r.digest]) IN
             /\ r.ntor \in {"", m.ntor}
             /\ r.ed \in {"", m.ed})

\* When BootstrapOneConn returns, every relay whose microdescriptor the cache
\* has, and has a key that is one, can be put on a path: the chunks leave no
\* relay of the consensus out, and no place is applied to another one.
BootstrapComplete ==
    [][scenario.whole /\ job.pc = "none" /\ job'.pc = "loop" =>
         \A i \in DOMAIN Relays : LET m == ParseMicrodescBlock(Blocks[Relays[i].digest]) IN
            m.ntor # "invalid" => Relays[i].ntor = m.ntor /\ Relays[i].ed = m.ed]_vars

PathRelays == [i \in DOMAIN sel.full |-> List[sel.full[i]]]

\* A finished selection is a usable path, whatever bootstrap and refresh did
\* meanwhile: no two relays in one /16, an exit whose published policy takes
\* the port, and for every relay the keys BuildPath needs.
PathIsSound ==
    sel.pc = "done" =>
        /\ \A i, j \in DOMAIN PathRelays : i # j => PathRelays[i].ipLevel # PathRelays[j].ipLevel
        /\ \A i \in DOMAIN PathRelays : HaveAllKeys(PathRelays[i])
        /\ LET exit == PathRelays[Len(PathRelays)]
               rules == ParseMicrodescBlock(Blocks[exit.digest]).exitRules
           IN rules # <<>> /\ sel.port \in rules[1]

\* The relays of a path stay what they were when they were selected: a refresh
\* replaces the slice and never writes into the one a Selector points into.
PathKeepsItsRelays ==
    [][sel.pc = "done" /\ sel'.pc = "done" /\ sel'.full = sel.full
         => PathRelays' = PathRelays]_vars

\* selectRandom picks each candidate for as many numbers as its weight says,
\* and no eligible relay with bandwidth is left out, missing weights or not.
ChoiceByWeight ==
    sel.pc \in {"guard", "middle", "done"} => \A place \in Places :
        LET port == IF place = "exit" THEN sel.port ELSE 0
            values == Values(List, sel.weights, place, port, sel.longLive)
            draws == 0 .. TotalBw(values) - 1
        IN /\ \A k \in DOMAIN values :
                Cardinality({r \in draws : SelectRandom(r, values) = values[k].ptr}) = values[k].wb
           /\ \A i \in DOMAIN List :
                Eligible(List[i], place, port, sel.longLive) /\ List[i].bw > 0
                  => \E r \in draws : SelectRandom(r, values) = i

Dated(c) == NoTime \notin {c.validAfter, c.freshUntil, c.validUntil}

\* As long as fetches succeed, the next one is due before the consensus expires.
FetchedInTime ==
    job.pc = "wait" /\ ~job.failed /\ Dated(cns[1]) => age + job.timer < cns[1].validUntil

\* While the connection is open the job fetches again and again: no failure,
\* and no consensus it can schedule by, stops it.
RefreshContinues ==
    (job.pc \notin {"none", "store"} /\ Dated(cns[1])) ~> (job.pc = "fetch" \/ link = "closed")

\* What the comment at the end of nextConsensus says of a refresh: the keys of
\* the relays whose digest is the same are kept.
RefreshKeepsKeys ==
    [][job.pc = "store" /\ cns' # cns =>
         \A i \in DOMAIN Relays, j \in DOMAIN Relays' :
           Relays'[j].digest = Relays[i].digest => Relays'[j].ntor = Relays[i].ntor]_vars
=============================================================================
