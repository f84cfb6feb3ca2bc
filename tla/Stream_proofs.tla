---------------------------- MODULE Stream_proofs ----------------------------
(***************************************************************************)
(* A stream keeps to the window of the relay at its far end, and leaves    *)
(* that relay no credit its ring buffer has no room for, in whatever order *)
(* the eight threads get on, and whoever closes the stream when.           *)
(***************************************************************************)
EXTENDS Stream, Flow_proofs

\* Where a thread may be inside Close, and inside Free.
Closing == {"close", "lock", "cancel", "chans", "chansFree"}
Freeing == {"free", "forget", "delete"}

\* The steps of each thread, and where it may go on after Close.
Home(t) == CASE t = "open" -> {"begin", "connected", "unlist", "start", "done", "failed"} \cup Freeing
             [] t = "write" -> {"off", "put", "unlock", "done", "failed"}
             [] t = "read" -> {"off", "read", "sendme", "put", "increase", "done"}
             [] t = "end" -> {"off", "put", "done", "failed"} \cup Freeing
             [] t = "send" -> {"off", "take", "wait", "put", "done"}
             [] t = "ctrl" -> {"off", "take", "notify", "done"} \cup Freeing
             [] t = "loop" -> {"take", "deliver", "fill", "put", "done"}
             [] t = "janitor" -> {"off", "wait", "done"} \cup Freeing

Back(t) == CASE t \in {"open", "janitor"} -> {"forget"}
             [] t = "write" -> {"unlock"}
             [] t = "read" -> {"increase"}
             [] t = "end" -> {"failed", "forget"}
             [] t = "send" -> {"done"}
             [] t = "ctrl" -> {"take", "forget"}
             [] t = "loop" -> {"take"}

\* Steps that only a closed stream sees.
Late    == {"cancel", "chans", "chansFree", "forget", "delete"}
Early   == {"begin", "connected", "start"}

Placed == \A t \in Threads : pc[t] \in Home(t) \/ (pc[t] \in Closing /\ ret[t] \in Back(t))

\* Until the stream is open nobody but NewStream and readloop is at work.
OpensAlone == pc["open"] \in Early =>
                /\ state = "opening" /\ closed = {} /\ pc["loop"] \in Home("loop")
                /\ \A t \in Threads : t \in {"open", "loop"} \/ pc[t] = "off"

ClosedFirst == (closed # {} \/ once = "done" \/ \E t \in Threads : pc[t] \in Late)
                  => state = "closed"

LifeType ==
    /\ scenario \in Scenarios
    /\ pc \in [Threads -> Labels] /\ ret \in [Threads -> Labels]
    /\ state \in {"opening", "open", "closed"}
    /\ {registered, rlocked, ended, freed, panicked} \subseteq BOOLEAN
    /\ once \in {"fresh", "done"} \cup Threads
    /\ circuit \in {"none", "closed", "sendme"}
    /\ closed \subseteq {"rcv", "snd", "token", "buffer", "reader"}

Stage == LifeType /\ Placed /\ OpensAlone /\ ClosedFirst

LEMMA HomeFacts ==
  /\ Home("open") = {"begin", "connected", "unlist", "start", "done", "failed", "free", "forget", "delete"}
  /\ Home("write") = {"off", "put", "unlock", "done", "failed"}
  /\ Home("read") = {"off", "read", "sendme", "put", "increase", "done"}
  /\ Home("end") = {"off", "put", "done", "failed", "free", "forget", "delete"}
  /\ Home("send") = {"off", "take", "wait", "put", "done"}
  /\ Home("ctrl") = {"off", "take", "notify", "done", "free", "forget", "delete"}
  /\ Home("loop") = {"take", "deliver", "fill", "put", "done"}
  /\ Home("janitor") = {"off", "wait", "done", "free", "forget", "delete"}
BY DEF Home, Freeing

LEMMA BackFacts ==
  /\ Back("open") = {"forget"} /\ Back("janitor") = {"forget"} /\ Back("write") = {"unlock"}
  /\ Back("read") = {"increase"} /\ Back("end") = {"failed", "forget"} /\ Back("send") = {"done"}
  /\ Back("ctrl") = {"take", "forget"} /\ Back("loop") = {"take"}
BY DEF Back

LEMMA Homes ==
  ASSUME NEW t \in Threads
  PROVE  /\ Home(t) \subseteq Labels /\ Back(t) \subseteq Home(t)
         /\ Home(t) \cap Closing = {} /\ Closing \subseteq Labels
         /\ "start" \in Home(t) => t = "open"
BY HomeFacts, BackFacts DEF Threads, Labels, Closing

\* A step of one thread from one of its places to another.
LEMMA StageMove ==
  ASSUME Stage, NEW t \in Threads, NEW l \in Home(t) \ Late, Goto(t, l),
         UNCHANGED <<ret, scenario, state, closed, once>>, LifeType',
         pc["open"] = "done" \/ pc[t] # "off",
         t = "open" => l \notin Early \/ pc["open"] \in Early
  PROVE  Stage'
<1>1. pc' \in [Threads -> Labels] /\ pc'[t] = l /\ \A u \in Threads : u # t => pc'[u] = pc[u]
  BY DEF Stage, LifeType, Goto
<1>2. Placed'
  BY <1>1 DEF Stage, Placed
<1>3. OpensAlone'
  <2> SUFFICES ASSUME pc'["open"] \in Early
               PROVE  OpensAlone'
    BY DEF OpensAlone
  <2>1. "open" \in Threads /\ "loop" \in Threads
    BY DEF Threads
  <2>2. pc["open"] \in Early
    BY <1>1, <2>1
  <2>3. pc["open"] # "done"
    BY <2>2 DEF Early
  <2>4. t \in {"open", "loop"}
    BY <2>2, <2>3 DEF Stage, OpensAlone
  <2> QED BY <1>1, <2>1, <2>2, <2>4 DEF Stage, OpensAlone
<1>4. ClosedFirst'
  BY <1>1 DEF Stage, ClosedFirst
<1> QED BY <1>2, <1>3, <1>4 DEF Stage

\* A step into Close.
LEMMA StageCall ==
  ASSUME Stage, NEW t \in Threads, NEW l \in Back(t), CallClose(t, l),
         UNCHANGED <<scenario, state, closed, once>>, LifeType',
         pc[t] # "off" /\ (t = "loop" => closed # {}), pc["open"] \notin Early \/ t # "open"
  PROVE  Stage'
<1>1. /\ pc' \in [Threads -> Labels] /\ pc'[t] = "close"
      /\ ret' \in [Threads -> Labels] /\ ret'[t] = l
      /\ \A u \in Threads : u # t => pc'[u] = pc[u] /\ ret'[u] = ret[u]
  BY DEF Stage, LifeType, CallClose, Goto
<1>2. Placed'
  BY <1>1 DEF Stage, Placed, Closing
<1>3. OpensAlone'
  <2> SUFFICES ASSUME pc'["open"] \in Early
               PROVE  FALSE
    BY DEF OpensAlone
  <2>1. "open" \in Threads /\ "loop" \in Threads
    BY DEF Threads
  <2>2. pc["open"] \in Early /\ t # "open"
    BY <1>1, <2>1 DEF Early
  <2> QED BY <2>2 DEF Stage, OpensAlone
<1>4. ClosedFirst'
  BY <1>1 DEF Stage, ClosedFirst, Late
<1> QED BY <1>2, <1>3, <1>4 DEF Stage
\* Goto and CallClose keep to the labels.
LEMMA GotoType ==
  ASSUME LifeType, NEW t \in Threads, NEW l \in Labels, Goto(t, l)
  PROVE  pc' \in [Threads -> Labels]
BY DEF LifeType, Goto

LEMMA CallType ==
  ASSUME LifeType, NEW t \in Threads, NEW l \in Labels, CallClose(t, l)
  PROVE  pc' \in [Threads -> Labels] /\ ret' \in [Threads -> Labels]
BY DEF LifeType, Goto, CallClose, Labels

\* In Close and Free, whichever thread it is.
LEMMA StageClosing ==
  ASSUME Stage, NEW t \in Threads, CloseOrFree(t), UNCHANGED scenario
  PROVE  Stage'
<1>1. Home(t) \subseteq Labels /\ Back(t) \subseteq Home(t)
  BY Homes
<1>2. pc[t] \in Home(t) \/ (pc[t] \in Closing /\ ret[t] \in Back(t))
  BY DEF Stage, Placed
<1>3. "open" \in Threads /\ "loop" \in Threads
  BY DEF Threads
<1>4. ASSUME NEW l \in Closing, Goto(t, l), ret' = ret, pc[t] \in Closing
      PROVE  /\ pc' \in [Threads -> Labels] /\ pc'[t] = l
             /\ \A u \in Threads : u # t => pc'[u] = pc[u]
             /\ Placed'
  <2>1. l \in Labels
    BY <1>4, Homes
  <2>2. /\ pc' \in [Threads -> Labels] /\ pc'[t] = l
        /\ \A u \in Threads : u # t => pc'[u] = pc[u]
    BY <1>4, <2>1 DEF Goto, Stage, LifeType
  <2> QED BY <1>2, <1>4, <2>2, Homes DEF Stage, Placed
<1>5. EnterClose(t) => Stage'
  <2> SUFFICES ASSUME EnterClose(t) PROVE Stage'
    OBVIOUS
  <2>1. pc[t] = "close"
    BY DEF EnterClose, At
  <2>2. UNCHANGED <<ret, state, closed, registered, rlocked, ended, freed, circuit, panicked>>
    BY DEF EnterClose
  <2>3. CASE once = "fresh" /\ once' = t /\ Goto(t, "lock")
    <3>1. /\ pc' \in [Threads -> Labels] /\ pc'[t] = "lock"
          /\ \A u \in Threads : u # t => pc'[u] = pc[u]
          /\ Placed'
      BY <1>4, <2>1, <2>2, <2>3 DEF Closing
    <3>2. LifeType'
      BY <3>1, <2>2, <2>3 DEF Stage, LifeType
    <3>3. OpensAlone'
      <4> SUFFICES ASSUME pc'["open"] \in Early PROVE OpensAlone'
        BY DEF OpensAlone
      <4>1. t # "open" /\ pc["open"] \in Early
        BY <3>1, <1>3 DEF Early
      <4>2. t = "loop" /\ pc["loop"] \in Home("loop")
        BY <4>1, <2>1, <1>3 DEF Stage, OpensAlone
      <4> QED BY <4>2, <2>1, HomeFacts
    <3>4. ClosedFirst'
      BY <3>1, <2>2, <2>3 DEF Stage, ClosedFirst, Late, Threads
    <3> QED BY <3>1, <3>2, <3>3, <3>4 DEF Stage
  <2>4. CASE once = "done" /\ UNCHANGED once /\ Goto(t, ret[t])
    <3>1. ret[t] \in Back(t) /\ ret[t] \in Labels /\ ret[t] \in Home(t)
      BY <2>1, <1>2, <1>1, Homes DEF Closing
    <3>2. /\ pc' \in [Threads -> Labels] /\ pc'[t] = ret[t]
          /\ \A u \in Threads : u # t => pc'[u] = pc[u]
      BY <2>4, <3>1 DEF Goto, Stage, LifeType
    <3>3. Placed'
      BY <3>1, <3>2, <2>2 DEF Stage, Placed
    <3>4. state = "closed"
      BY <2>4 DEF Stage, ClosedFirst
    <3>5. LifeType'
      BY <3>2, <2>2, <2>4 DEF Stage, LifeType
    <3>6. ret[t] \notin Early
      BY <3>1, BackFacts DEF Early, Threads
    <3>7. OpensAlone'
      <4> SUFFICES ASSUME pc'["open"] \in Early PROVE FALSE
        BY DEF OpensAlone
      <4>1. pc["open"] \in Early
        BY <3>2, <3>6, <1>3
      <4> QED BY <4>1, <3>4 DEF Stage, OpensAlone
    <3>8. ClosedFirst'
      BY <3>4, <2>2 DEF ClosedFirst
    <3> QED BY <3>3, <3>5, <3>7, <3>8 DEF Stage
  <2> QED BY <2>3, <2>4 DEF EnterClose
<1>6. LockClose(t) => Stage'
  <2> SUFFICES ASSUME LockClose(t) PROVE Stage'
    OBVIOUS
  <2>1. pc[t] = "lock" /\ state' = "closed" /\ Goto(t, "cancel")
    BY DEF LockClose, At
  <2>2. UNCHANGED <<ret, once, closed, registered, rlocked, ended, freed, circuit, panicked>>
    BY DEF LockClose
  <2>3. /\ pc' \in [Threads -> Labels] /\ pc'[t] = "cancel"
        /\ \A u \in Threads : u # t => pc'[u] = pc[u]
        /\ Placed'
    BY <1>4, <2>1, <2>2 DEF Closing
  <2>4. LifeType'
    BY <2>3, <2>2, <2>1 DEF Stage, LifeType
  <2>5. OpensAlone'
    <3> SUFFICES ASSUME pc'["open"] \in Early PROVE OpensAlone'
      BY DEF OpensAlone
    <3>1. t # "open" /\ pc["open"] \in Early
      BY <2>3, <1>3 DEF Early
    <3>2. t = "loop" /\ pc["loop"] \in Home("loop")
      BY <3>1, <2>1, <1>3 DEF Stage, OpensAlone
    <3> QED BY <3>2, <2>1, HomeFacts
  <2>6. ClosedFirst'
    BY <2>1 DEF ClosedFirst
  <2> QED BY <2>3, <2>4, <2>5, <2>6 DEF Stage
\* From here on the stream is closed.
<1>7. ASSUME pc[t] \in Late, state' = state, LifeType', Placed',
             \A u \in Threads : u # t => pc'[u] = pc[u],
             pc'[t] \notin Early
      PROVE  Stage'
  <2>1. state = "closed"
    BY <1>7 DEF Stage, ClosedFirst
  <2>2. pc["open"] \notin Early
    BY <2>1 DEF Stage, OpensAlone
  <2> QED BY <2>1, <2>2, <1>3, <1>7 DEF Stage, OpensAlone, ClosedFirst
<1>8. CancelCtx(t) => Stage'
  <2> SUFFICES ASSUME CancelCtx(t) PROVE Stage'
    OBVIOUS
  <2> DEFINE l == IF FreeDone THEN "chansFree" ELSE "chans"
  <2>1. pc[t] = "cancel" /\ Goto(t, l) /\ ended' \in BOOLEAN /\ l \in Closing
    BY DEF CancelCtx, At, Closing, Stage, LifeType, Done, FreeDone
  <2>2. UNCHANGED <<ret, state, once, closed, registered, rlocked, freed, circuit, panicked>>
    BY DEF CancelCtx
  <2>3. l \notin Early
    BY DEF Early
  <2> HIDE DEF l
  <2>4. /\ pc' \in [Threads -> Labels] /\ pc'[t] = l
        /\ \A u \in Threads : u # t => pc'[u] = pc[u]
        /\ Placed'
    BY <1>4, <2>1, <2>2 DEF Closing
  <2>5. LifeType'
    BY <2>4, <2>2, <2>1 DEF Stage, LifeType
  <2> QED BY <1>7, <2>1, <2>2, <2>3, <2>4, <2>5 DEF Late
<1>9. CloseChan(t) => Stage'
  <2> SUFFICES ASSUME CloseChan(t) PROVE Stage'
    OBVIOUS
  <2>1. /\ pc[t] \in {"chans", "chansFree"}
        /\ UNCHANGED <<pc, ret, state, once, registered, rlocked, ended, freed, circuit, panicked>>
    BY DEF CloseChan
  <2>2. closed' \subseteq {"rcv", "snd", "token", "buffer", "reader"}
    <3>1. PICK i \in 1 .. 3 : closed' = closed \cup {ClosingOrder[i]}
      BY DEF CloseChan
    <3>2. ClosingOrder[i] \in {"rcv", "snd", "token"}
      BY DEF ClosingOrder
    <3> QED BY <3>1, <3>2 DEF Stage, LifeType
  <2>3. LifeType'
    BY <2>1, <2>2 DEF Stage, LifeType
  <2>4. Placed'
    BY <2>1 DEF Stage, Placed
  <2>5. pc'[t] \notin Early
    BY <2>1 DEF Early
  <2> QED BY <1>7, <2>1, <2>3, <2>4, <2>5 DEF Late
<1>10. LeaveClose(t) => Stage'
  <2> SUFFICES ASSUME LeaveClose(t) PROVE Stage'
    OBVIOUS
  <2>1. /\ pc[t] \in {"chans", "chansFree"} /\ Goto(t, ret[t])
        /\ once' = "done" /\ closed \subseteq closed' /\ closed' \subseteq closed \cup {"buffer", "reader"}
        /\ UNCHANGED <<ret, state, rlocked, ended, freed, circuit, panicked>>
    BY DEF LeaveClose
  <2>2. registered' \in BOOLEAN
    BY DEF LeaveClose
  <2>3. ret[t] \in Back(t) /\ ret[t] \in Labels /\ ret[t] \in Home(t) /\ ret[t] \notin Early
    <3>1. ret[t] \in Back(t)
      BY <2>1, <1>2, <1>1, Homes DEF Closing
    <3> QED BY <3>1, <1>1, BackFacts DEF Early, Threads
  <2>4. /\ pc' \in [Threads -> Labels] /\ pc'[t] = ret[t]
        /\ \A u \in Threads : u # t => pc'[u] = pc[u]
    BY <2>1, <2>3 DEF Goto, Stage, LifeType
  <2>5. Placed'
    BY <2>1, <2>3, <2>4 DEF Stage, Placed
  <2>6. LifeType'
    BY <2>1, <2>2, <2>4 DEF Stage, LifeType
  <2> QED BY <1>7, <2>1, <2>3, <2>4, <2>5, <2>6 DEF Late
<1>11. EnterFree(t) => Stage'
  <2> SUFFICES ASSUME EnterFree(t) PROVE Stage'
    OBVIOUS
  <2>1. pc[t] = "free"
    BY DEF EnterFree, At
  <2>2. "forget" \in Home(t) /\ "forget" \in Back(t) /\ pc[t] \notin Early /\ t # "loop"
    <3>1. "free" \in Home(t)
      BY <1>2, <2>1 DEF Closing
    <3> QED BY <2>1, <3>1, HomeFacts, BackFacts DEF Threads, Early
  <2>3. UNCHANGED <<state, once, closed, registered, rlocked, ended, freed, circuit, panicked>>
    BY DEF EnterFree, lifeVars
  <2>4. CASE state # "closed"
    <3>1. CallClose(t, "forget")
      BY <2>4 DEF EnterFree
    <3>2. LifeType'
      BY <2>3, <3>1, <2>2, <1>1, CallType DEF Stage, LifeType
    <3> QED BY <2>1, <2>2, <2>3, <3>1, <3>2, StageCall
  <2>5. CASE state = "closed"
    <3>1. Goto(t, "forget") /\ ret' = ret
      BY <2>5 DEF EnterFree
    <3>2. /\ pc' \in [Threads -> Labels] /\ pc'[t] = "forget"
          /\ \A u \in Threads : u # t => pc'[u] = pc[u]
      BY <3>1, <2>2, <1>1 DEF Goto, Stage, LifeType
    <3>3. LifeType'
      BY <2>3, <3>1, <3>2 DEF Stage, LifeType
    <3>4. Placed'
      BY <3>1, <3>2, <2>2 DEF Stage, Placed
    <3>5. pc["open"] \notin Early
      BY <2>5 DEF Stage, OpensAlone
    <3> QED BY <2>3, <2>5, <3>2, <3>3, <3>4, <3>5, <1>3
        DEF Stage, OpensAlone, ClosedFirst, Early
  <2> QED BY <2>4, <2>5
<1>12. FreeCtx(t) => Stage'
  <2> SUFFICES ASSUME FreeCtx(t) PROVE Stage'
    OBVIOUS
  <2>1. /\ pc[t] = "forget" /\ Goto(t, "delete") /\ freed' \in BOOLEAN
        /\ UNCHANGED <<ret, state, once, closed, registered, rlocked, ended, circuit, panicked>>
    BY DEF FreeCtx, At, FreeDone, Stage, LifeType
  <2>2. "delete" \in Home(t)
    <3>1. "forget" \in Home(t)
      BY <1>2, <2>1 DEF Closing
    <3> QED BY <3>1, HomeFacts DEF Threads
  <2>3. /\ pc' \in [Threads -> Labels] /\ pc'[t] = "delete"
        /\ \A u \in Threads : u # t => pc'[u] = pc[u]
    BY <2>1, <2>2, <1>1 DEF Goto, Stage, LifeType
  <2>4. Placed'
    BY <2>1, <2>2, <2>3 DEF Stage, Placed
  <2>5. LifeType'
    BY <2>1, <2>3 DEF Stage, LifeType
  <2> QED BY <1>7, <2>1, <2>3, <2>4, <2>5 DEF Late, Early
<1>13. Delete(t) => Stage'
  <2> SUFFICES ASSUME Delete(t) PROVE Stage'
    OBVIOUS
  <2> DEFINE l == IF t = "open" THEN "failed" ELSE "done"
  <2>1. /\ pc[t] = "delete" /\ Goto(t, l) /\ registered' = FALSE
        /\ closed' = closed \cup {"buffer", "reader"}
        /\ UNCHANGED <<ret, state, once, rlocked, ended, freed, circuit, panicked>>
    BY DEF Delete, At
  <2>2. l \in Home(t) /\ l \notin Early
    <3>1. "delete" \in Home(t)
      BY <1>2, <2>1 DEF Closing
    <3> QED BY <3>1, HomeFacts DEF Threads, Early
  <2> HIDE DEF l
  <2>3. /\ pc' \in [Threads -> Labels] /\ pc'[t] = l
        /\ \A u \in Threads : u # t => pc'[u] = pc[u]
    BY <2>1, <2>2, <1>1 DEF Goto, Stage, LifeType
  <2>4. Placed'
    BY <2>1, <2>2, <2>3 DEF Stage, Placed
  <2>5. LifeType'
    BY <2>1, <2>3 DEF Stage, LifeType
  <2> QED BY <1>7, <2>1, <2>2, <2>3, <2>4, <2>5 DEF Late
<1> QED BY <1>5, <1>6, <1>8, <1>9, <1>10, <1>11, <1>12, <1>13 DEF CloseOrFree
\* What a thread outside Close and Free may do to the rest of the life cycle.
Kept == /\ UNCHANGED <<scenario, state, closed, once, ended, freed>>
        /\ {registered, rlocked, panicked}' \subseteq BOOLEAN
        /\ circuit' \in {"none", "closed", "sendme"}

LEMMA StageGo ==
  ASSUME Stage, Kept, ret' = ret, NEW t \in Threads, NEW l, Goto(t, l), l \in Home(t) \ Late,
         pc["open"] = "done" \/ pc[t] # "off",
         t = "open" => l \notin Early \/ pc["open"] \in Early
  PROVE  Stage'
<1>1. l \in Labels
  BY Homes
<1>2. LifeType'
  BY <1>1, GotoType DEF Stage, LifeType, Kept
<1> QED BY <1>2, StageMove DEF Kept

LEMMA StageGoClose ==
  ASSUME Stage, Kept, NEW t \in Threads, NEW l, CallClose(t, l), l \in Back(t),
         pc[t] # "off", t = "loop" => closed # {}, t # "open"
  PROVE  Stage'
<1>1. l \in Labels
  BY Homes
<1>2. LifeType'
  BY <1>1, CallType DEF Stage, LifeType, Kept
<1> QED BY <1>2, StageCall DEF Kept

LEMMA StageSame ==
  ASSUME Stage, Kept, UNCHANGED <<pc, ret>>
  PROVE  Stage'
BY DEF Stage, Kept, LifeType, Placed, OpensAlone, ClosedFirst

LEMMA KeptSame ==
  ASSUME Stage, UNCHANGED <<scenario, lifeVars>>
  PROVE  Kept
BY DEF Stage, LifeType, Kept, lifeVars

LEMMA StageOpening ==
  ASSUME Stage, Opening, UNCHANGED scenario
  PROVE  Stage'
<1>1. "open" \in Threads
  BY DEF Threads
<1>2. {"connected", "unlist", "start", "free"} \subseteq Home("open") \ Late
  BY HomeFacts DEF Late
<1>3. OpenBegin => Stage'
  <2> SUFFICES ASSUME OpenBegin PROVE Stage'
    OBVIOUS
  <2>1. Kept /\ ret' = ret /\ pc["open"] = "begin"
    BY KeptSame DEF OpenBegin, At
  <2>2. Goto("open", "connected") \/ Goto("open", "unlist")
    BY DEF OpenBegin
  <2>3. pc["open"] \in Early /\ pc["open"] # "off"
    BY <2>1 DEF Early
  <2> QED BY <1>1, <1>2, <2>1, <2>2, <2>3, StageGo
<1>4. OpenConnected => Stage'
  <2> SUFFICES ASSUME OpenConnected PROVE Stage'
    OBVIOUS
  <2>1. Kept /\ ret' = ret /\ pc["open"] = "connected"
    BY KeptSame DEF OpenConnected, At
  <2>2. Goto("open", "start") \/ Goto("open", "unlist")
    BY DEF OpenConnected
  <2>3. pc["open"] \in Early /\ pc["open"] # "off"
    BY <2>1 DEF Early
  <2> QED BY <1>1, <1>2, <2>1, <2>2, <2>3, StageGo
<1>5. OpenStart => Stage'
  <2> SUFFICES ASSUME OpenStart PROVE Stage'
    OBVIOUS
  <2> DEFINE Next1(t) == CASE t = "open" -> "done"
                           [] t \in {"send", "ctrl"} -> "take"
                           [] t = "read" -> "read"
                           [] t = "janitor" /\ Janitor -> "wait"
                           [] OTHER -> pc[t]
  <2>1. /\ pc["open"] = "start" /\ state' = "open"
        /\ UNCHANGED <<ret, registered, rlocked, once, ended, freed, circuit, closed, panicked>>
    BY DEF OpenStart, At
  <2>2. pc["open"] \in Early
    BY <2>1 DEF Early
  <2>3. /\ state = "opening" /\ closed = {} /\ pc["loop"] \in Home("loop")
        /\ \A t \in Threads : t \in {"open", "loop"} \/ pc[t] = "off"
    BY <2>2 DEF Stage, OpensAlone
  <2>4. \A t \in Threads : Next1(t) \in Home(t) /\ Next1(t) \notin Late
    <3> TAKE t \in Threads
    <3>1. CASE t = "open"
      BY <3>1, HomeFacts DEF Late
    <3>2. CASE t \in {"send", "ctrl"}
      BY <3>2, HomeFacts DEF Late
    <3>3. CASE t = "read"
      BY <3>3, HomeFacts DEF Late
    <3>4. CASE t = "janitor"
      BY <3>4, <2>3, HomeFacts DEF Late
    <3>5. CASE t \in {"write", "end", "loop"}
      <4>1. Next1(t) = pc[t]
        BY <3>5
      <4> QED BY <4>1, <3>5, <2>3, HomeFacts DEF Late
    <3> QED BY <3>1, <3>2, <3>3, <3>4, <3>5 DEF Threads
  <2>5. pc' = [t \in Threads |-> Next1(t)]
    BY DEF OpenStart
  <2>6. pc'["open"] = "done"
    BY <2>5, <1>1
  <2> HIDE DEF Next1
  <2>7. \A t \in Threads : pc'[t] \in Home(t) /\ pc'[t] \notin Late
    BY <2>4, <2>5
  <2>8. pc' \in [Threads -> Labels]
    <3>1. \A t \in Threads : Next1(t) \in Labels
      BY <2>4, Homes
    <3> QED BY <3>1, <2>5
  <2>9. LifeType'
    BY <2>8, <2>1 DEF Stage, LifeType
  <2>10. Placed'
    BY <2>7 DEF Placed
  <2>11. once # "done"
    BY <2>3 DEF Stage, ClosedFirst
  <2> QED BY <2>1, <2>3, <2>6, <2>7, <2>9, <2>10, <2>11 DEF Stage, OpensAlone, ClosedFirst, Early
<1>6. OpenFail => Stage'
  <2> SUFFICES ASSUME OpenFail PROVE Stage'
    OBVIOUS
  <2>1. Kept /\ ret' = ret /\ pc["open"] = "unlist"
    BY DEF OpenFail, At, Kept, Stage, LifeType
  <2>2. Goto("open", "free") /\ "free" \notin Early
    BY DEF OpenFail, Early
  <2> QED BY <1>1, <1>2, <2>1, <2>2, StageGo
<1> QED BY <1>3, <1>4, <1>5, <1>6 DEF Opening

LEMMA StageUser ==
  ASSUME Stage, User \/ Reading \/ JanitorWakes, UNCHANGED scenario
  PROVE  Stage'
<1>1. {"write", "end", "read", "janitor"} \subseteq Threads
  BY DEF Threads
<1>2. /\ {"put", "failed", "unlock", "done"} \subseteq Home("write") \ Late
      /\ {"put", "failed", "free"} \subseteq Home("end") \ Late
      /\ {"read", "sendme", "put", "increase", "done"} \subseteq Home("read") \ Late
      /\ "free" \in Home("janitor") \ Late
  BY HomeFacts DEF Late
<1>3. /\ "unlock" \in Back("write") /\ "failed" \in Back("end") /\ "increase" \in Back("read")
  BY BackFacts
<1>4. WriteStart => Stage'
  <2> SUFFICES ASSUME WriteStart PROVE Stage'
    OBVIOUS
  <2>1. Kept /\ ret' = ret /\ pc["open"] = "done"
    BY DEF WriteStart, Kept, Stage, LifeType
  <2>2. Goto("write", "put") \/ Goto("write", "failed")
    BY DEF WriteStart
  <2> QED BY <1>1, <1>2, <2>1, <2>2, StageGo
<1>5. WritePut => Stage'
  <2> SUFFICES ASSUME WritePut PROVE Stage'
    OBVIOUS
  <2>1. Kept /\ pc["write"] = "put"
    BY KeptSame DEF WritePut, At
  <2>2. \/ UNCHANGED <<pc, ret>>
        \/ CallClose("write", "unlock")
        \/ Goto("write", "unlock") /\ ret' = ret
    BY DEF WritePut
  <2>3. UNCHANGED <<pc, ret>> => Stage'
    BY <2>1, StageSame
  <2>4. CallClose("write", "unlock") => Stage'
    BY <1>1, <1>3, <2>1, StageGoClose
  <2>5. Goto("write", "unlock") /\ ret' = ret => Stage'
    BY <1>1, <1>2, <2>1, StageGo
  <2> QED BY <2>2, <2>3, <2>4, <2>5
<1>6. WriteReturn => Stage'
  <2> SUFFICES ASSUME WriteReturn PROVE Stage'
    OBVIOUS
  <2>1. Kept /\ ret' = ret /\ pc["write"] = "unlock" /\ Goto("write", "done")
    BY DEF WriteReturn, At, Kept, Stage, LifeType
  <2> QED BY <1>1, <1>2, <2>1, StageGo
<1>7. EndStart => Stage'
  <2> SUFFICES ASSUME EndStart PROVE Stage'
    OBVIOUS
  <2>1. Kept /\ ret' = ret /\ pc["open"] = "done"
    BY KeptSame DEF EndStart
  <2>2. Goto("end", "put") \/ Goto("end", "failed")
    BY DEF EndStart
  <2> QED BY <1>1, <1>2, <2>1, <2>2, StageGo
<1>8. EndPut => Stage'
  <2> SUFFICES ASSUME EndPut PROVE Stage'
    OBVIOUS
  <2>1. Kept /\ pc["end"] = "put"
    BY KeptSame DEF EndPut, At
  <2>2. CallClose("end", "failed") \/ (Goto("end", "free") /\ ret' = ret)
    BY DEF EndPut
  <2>3. CallClose("end", "failed") => Stage'
    BY <1>1, <1>3, <2>1, StageGoClose
  <2>4. Goto("end", "free") /\ ret' = ret => Stage'
    BY <1>1, <1>2, <2>1, StageGo
  <2> QED BY <2>2, <2>3, <2>4
<1>9. ReadSome => Stage'
  <2> SUFFICES ASSUME ReadSome PROVE Stage'
    OBVIOUS
  <2>1. Kept /\ ret' = ret /\ pc["read"] = "read" /\ Goto("read", "sendme")
    BY KeptSame DEF ReadSome, At
  <2> QED BY <1>1, <1>2, <2>1, StageGo
<1>10. ReadEof => Stage'
  <2> SUFFICES ASSUME ReadEof PROVE Stage'
    OBVIOUS
  <2>1. Kept /\ ret' = ret /\ pc["read"] = "read" /\ Goto("read", "done")
    BY KeptSame DEF ReadEof, At
  <2> QED BY <1>1, <1>2, <2>1, StageGo
<1>11. ReadSendMe => Stage'
  <2> SUFFICES ASSUME ReadSendMe PROVE Stage'
    OBVIOUS
  <2>1. Kept /\ ret' = ret /\ pc["read"] = "sendme"
    BY KeptSame DEF ReadSendMe, At
  <2>2. Goto("read", "increase") \/ Goto("read", "put") \/ Goto("read", "read")
    BY DEF ReadSendMe
  <2> QED BY <1>1, <1>2, <2>1, <2>2, StageGo
<1>12. ReadPut => Stage'
  <2> SUFFICES ASSUME ReadPut PROVE Stage'
    OBVIOUS
  <2>1. Kept /\ pc["read"] = "put"
    BY KeptSame DEF ReadPut, At
  <2>2. CallClose("read", "increase") \/ (Goto("read", "increase") /\ ret' = ret)
    BY DEF ReadPut
  <2>3. CallClose("read", "increase") => Stage'
    BY <1>1, <1>3, <2>1, StageGoClose
  <2>4. Goto("read", "increase") /\ ret' = ret => Stage'
    BY <1>1, <1>2, <2>1, StageGo
  <2> QED BY <2>2, <2>3, <2>4
<1>13. ReadIncrease => Stage'
  <2> SUFFICES ASSUME ReadIncrease PROVE Stage'
    OBVIOUS
  <2>1. Kept /\ ret' = ret /\ pc["read"] = "increase" /\ Goto("read", "read")
    BY KeptSame DEF ReadIncrease, At
  <2> QED BY <1>1, <1>2, <2>1, StageGo
<1>14. JanitorWakes => Stage'
  <2> SUFFICES ASSUME JanitorWakes PROVE Stage'
    OBVIOUS
  <2>1. Kept /\ ret' = ret /\ pc["janitor"] = "wait" /\ Goto("janitor", "free")
    BY KeptSame DEF JanitorWakes, At
  <2> QED BY <1>1, <1>2, <2>1, StageGo
<1> QED BY <1>4, <1>5, <1>6, <1>7, <1>8, <1>9, <1>10, <1>11, <1>12, <1>13, <1>14
        DEF User, Reading

LEMMA StageLoops ==
  ASSUME Stage, Sending \/ Control \/ Readloop, UNCHANGED scenario
  PROVE  Stage'
<1>1. {"send", "ctrl", "loop"} \subseteq Threads
  BY DEF Threads
<1>2. /\ {"take", "wait", "put", "done"} \subseteq Home("send") \ Late
      /\ {"take", "notify", "done", "free"} \subseteq Home("ctrl") \ Late
      /\ {"take", "deliver", "fill", "put", "done"} \subseteq Home("loop") \ Late
  BY HomeFacts DEF Late
<1>3. "done" \in Back("send") /\ "take" \in Back("ctrl") /\ "take" \in Back("loop")
  BY BackFacts
<1>4. SendTake => Stage'
  <2> SUFFICES ASSUME SendTake PROVE Stage'
    OBVIOUS
  <2>1. ret' = ret /\ pc["send"] = "take" /\ (Goto("send", "wait") \/ Goto("send", "put"))
    BY DEF SendTake, At
  <2>2. panicked' \in BOOLEAN
    <3>1. panicked' = Panics("snd", snd) \/ panicked' = panicked
      BY DEF SendTake
    <3> QED BY <3>1 DEF Panics, Stage, LifeType
  <2>3. Kept
    BY <2>2 DEF SendTake, Kept, Stage, LifeType
  <2> QED BY <1>1, <1>2, <2>1, <2>3, StageGo
<1>5. SendRestore => Stage'
  <2> SUFFICES ASSUME SendRestore PROVE Stage'
    OBVIOUS
  <2>1. Kept /\ ret' = ret /\ pc["send"] = "wait" /\ Goto("send", "put")
    BY KeptSame DEF SendRestore, At
  <2> QED BY <1>1, <1>2, <2>1, StageGo
<1>6. SendPut => Stage'
  <2> SUFFICES ASSUME SendPut PROVE Stage'
    OBVIOUS
  <2>1. Kept /\ ret' = ret /\ pc["send"] = "put" /\ Goto("send", "take")
    BY KeptSame DEF SendPut, At
  <2> QED BY <1>1, <1>2, <2>1, StageGo
<1>7. SendExit => Stage'
  <2> SUFFICES ASSUME SendExit PROVE Stage'
    OBVIOUS
  <2>1. Kept /\ pc["send"] \in {"take", "put", "wait"}
    BY KeptSame DEF SendExit
  <2>2. CallClose("send", "done") \/ (Goto("send", "done") /\ ret' = ret)
    BY DEF SendExit
  <2>3. CallClose("send", "done") => Stage'
    BY <1>1, <1>3, <2>1, StageGoClose
  <2>4. Goto("send", "done") /\ ret' = ret => Stage'
    BY <1>1, <1>2, <2>1, StageGo
  <2> QED BY <2>2, <2>3, <2>4
<1>8. CtrlTake => Stage'
  <2> SUFFICES ASSUME CtrlTake PROVE Stage'
    OBVIOUS
  <2>1. pc["ctrl"] = "take"
    BY DEF CtrlTake, At
  <2>2. /\ circuit' \in {circuit, "sendme"}
        /\ \/ (Goto("ctrl", "notify") \/ Goto("ctrl", "free")) /\ ret' = ret
           \/ CallClose("ctrl", "take")
           \/ UNCHANGED <<pc, ret>>
    BY DEF CtrlTake
  <2>3. Kept
    BY <2>2 DEF CtrlTake, Kept, Stage, LifeType
  <2>4. (Goto("ctrl", "notify") \/ Goto("ctrl", "free")) /\ ret' = ret => Stage'
    BY <1>1, <1>2, <2>1, <2>3, StageGo
  <2>5. CallClose("ctrl", "take") => Stage'
    BY <1>1, <1>3, <2>1, <2>3, StageGoClose
  <2>6. UNCHANGED <<pc, ret>> => Stage'
    BY <2>3, StageSame
  <2> QED BY <2>2, <2>4, <2>5, <2>6
<1>9. CtrlNotify => Stage'
  <2> SUFFICES ASSUME CtrlNotify PROVE Stage'
    OBVIOUS
  <2>1. Kept /\ ret' = ret /\ pc["ctrl"] = "notify" /\ Goto("ctrl", "take")
    BY DEF CtrlNotify, At, Kept, Stage, LifeType
  <2> QED BY <1>1, <1>2, <2>1, StageGo
<1>10. CtrlExit => Stage'
  <2> SUFFICES ASSUME CtrlExit PROVE Stage'
    OBVIOUS
  <2>1. Kept /\ ret' = ret /\ pc["ctrl"] = "take" /\ Goto("ctrl", "done")
    BY KeptSame DEF CtrlExit, At
  <2> QED BY <1>1, <1>2, <2>1, StageGo
<1>11. LoopTake => Stage'
  <2> SUFFICES ASSUME LoopTake PROVE Stage'
    OBVIOUS
  <2>1. Kept /\ ret' = ret /\ pc["loop"] = "take"
    BY KeptSame DEF LoopTake, At
  <2>2. Goto("loop", "deliver") \/ Goto("loop", "put") \/ pc' = pc
    BY DEF LoopTake
  <2> QED BY <1>1, <1>2, <2>1, <2>2, StageGo, StageSame
<1>12. LoopCharge => Stage'
  <2> SUFFICES ASSUME LoopCharge PROVE Stage'
    OBVIOUS
  <2>1. ret' = ret /\ pc["loop"] = "deliver" /\ Goto("loop", "fill")
    BY DEF LoopCharge, At
  <2>2. panicked' \in BOOLEAN
    BY DEF LoopCharge, Panics
  <2>3. Kept
    BY <2>2 DEF LoopCharge, Kept, Stage, LifeType
  <2> QED BY <1>1, <1>2, <2>1, <2>3, StageGo
<1>13. LoopFill => Stage'
  <2> SUFFICES ASSUME LoopFill PROVE Stage'
    OBVIOUS
  <2>1. Kept /\ pc["loop"] = "fill"
    BY KeptSame DEF LoopFill, At
  <2>2. \/ CallClose("loop", "take") /\ closed # {}
        \/ Goto("loop", "take") /\ ret' = ret
    BY DEF LoopFill
  <2>3. CallClose("loop", "take") /\ closed # {} => Stage'
    BY <1>1, <1>3, <2>1, StageGoClose
  <2>4. Goto("loop", "take") /\ ret' = ret => Stage'
    BY <1>1, <1>2, <2>1, StageGo
  <2> QED BY <2>2, <2>3, <2>4
<1>14. LoopControl => Stage'
  <2> SUFFICES ASSUME LoopControl PROVE Stage'
    OBVIOUS
  <2>1. Kept /\ ret' = ret /\ pc["loop"] = "put" /\ Goto("loop", "take")
    BY KeptSame DEF LoopControl, At
  <2> QED BY <1>1, <1>2, <2>1, StageGo
<1>15. LoopExit => Stage'
  <2> SUFFICES ASSUME LoopExit PROVE Stage'
    OBVIOUS
  <2>1. Kept /\ ret' = ret /\ pc["loop"] = "take" /\ Goto("loop", "done")
    BY KeptSame DEF LoopExit, At
  <2> QED BY <1>1, <1>2, <2>1, StageGo
<1> QED BY <1>4, <1>5, <1>6, <1>7, <1>8, <1>9, <1>10, <1>11, <1>12, <1>13, <1>14, <1>15
        DEF Sending, Control, Readloop

LEMMA StageNext ==
  ASSUME Stage, [Next]_vars
  PROVE  Stage'
<1>1. UNCHANGED scenario
  BY DEF Next, vars
<1>2. CASE \E t \in Threads : CloseOrFree(t)
  BY <1>1, <1>2, StageClosing
<1>3. CASE Opening \/ User \/ Reading \/ JanitorWakes
  BY <1>1, <1>3, StageOpening, StageUser
<1>4. CASE Sending \/ Control \/ Readloop
  BY <1>1, <1>4, StageLoops
<1>5. CASE CircuitDies
  <2>1. Kept /\ UNCHANGED <<pc, ret>>
    BY <1>1, <1>5 DEF CircuitDies, Kept, Stage, LifeType
  <2> QED BY <2>1, StageSame
<1>6. CASE Peer
  <2>1. UNCHANGED <<pc, ret, lifeVars>>
    BY <1>6 DEF Peer, RelayTake, RelayData, RelayAck, RelayEnd
  <2> QED BY <1>1, <2>1, KeptSame, StageSame
<1>7. CASE UNCHANGED vars
  BY <1>1, <1>7, KeptSame, StageSame DEF vars, mutable
<1> QED BY <1>2, <1>3, <1>4, <1>5, <1>6, <1>7 DEF Next, Step
-----------------------------------------------------------------------------
(* The cells on their way, and the credit they stand for                   *)

Datas    == [cmd : {"DATA"}, n : Nat]
SendMes  == [cmd : {"SENDME"}, n : Nat]
Outgoing == [cmd : {"BEGIN", "DATA", "SENDME", "END"}, n : Nat]

FlowType ==
    /\ snd \in WindowType /\ rcv \in WindowType /\ token \in {0, 1}
    /\ outbound \in Seq(Outgoing) /\ Len(outbound) <= OutboundCap
    /\ control \in Seq(Cell) /\ Len(control) <= ControlCap
    /\ buffer \in Seq(Nat) /\ Len(buffer) <= BufferCap
    /\ wire \in Seq(Outgoing) /\ inbound \in Seq(Cell)
    /\ hand \in [Threads -> Cell \cup {NoCell}]
    /\ {wrote, got, up, down, acks, credit} \subseteq Nat
    /\ relay \in {"new", "open", "ended"}

\* What the threads that hold a cell hold.
Hands ==
    /\ pc["send"] \in {"put", "wait"} => hand["send"] \in Outgoing
    /\ pc["send"] \in {"off", "take"} => hand["send"] = NoCell
    /\ pc["loop"] \in {"deliver", "fill"} => hand["loop"] \in Datas
    /\ pc["loop"] = "put" => hand["loop"] \in Cell \ Datas
    /\ pc["read"] = "put" => hand["read"] \in SendMes

\* sendController goes on only with a window that is open.
Opened ==
    /\ pc["send"] \in {"off", "take", "put"} => snd.v >= 1
    /\ pc["send"] = "wait" /\ ~panicked => snd.v = 0
    /\ snd.v \in 0 .. StartValue

One(cell, T) == IF cell \in T THEN 1 ELSE 0
Busy(t, ls)  == IF pc[t] \in ls THEN 1 ELSE 0

\* The DATA cells charged to the window, and the acknowledgements that may still
\* open it.
Spent == up + Count(wire, Datas) + One(hand["send"], Datas)
CtrlGrants == token + Busy("ctrl", {"notify"}) + Count(control, SendMes)
LoopGrants == One(hand["loop"], SendMes) + Count(inbound, SendMes)
Grants     == CtrlGrants + LoopGrants

Credit == ~panicked /\ "token" \notin closed =>
            Spent + snd.v + AddValue * Grants <= StartValue + AddValue * acks

\* The SENDMEs sent, and with the one Read is about to send; the DATA cells that
\* readloop has charged or dropped, and those the user has read or will.
Sent    == credit + Count(wire, SendMes) + One(hand["send"], SendMes) + Count(outbound, SendMes)
Asked   == Sent + Busy("read", {"put"})
Arrived == down - Count(inbound, Datas) - Busy("loop", {"deliver"})
Held    == got + Len(buffer) + Busy("loop", {"fill"})

\* A SENDME has been sent, or a digest taken, and the window not opened yet.
After   == Busy("read", {"increase"} \cup Closing)
Holding == Busy("read", {"put", "increase"} \cup Closing)

\* The window is never further open than the SENDMEs sent for it, ...
Floor == StartValue + AddValue * Sent <= rcv.v + Arrived + AddValue * After

\* ... nor than the trigger points it has passed.
Ceiling == "rcv" \notin closed =>
             rcv.v + AddValue * (Len(rcv.trigged) + Holding) + Since(rcv.v) <= StartValue

\* A digest stands for AddValue cells the user has got or will get.
Digests == state # "closed" => AddValue * (Asked + Len(rcv.trigged)) + Since(rcv.v) <= Held

\* A SENDME is sent for cells that are read but for a rest below the trigger.
Asking   == AddValue * Asked <= got + TriggerCells
Credited == down <= StartValue + AddValue * credit
Fetched  == Held <= Arrived

Received == Floor /\ Ceiling /\ Digests /\ Asking /\ Credited /\ Fetched

Flow == FlowType /\ Hands /\ Opened /\ Credit /\ Received

LEMMA MulMono ==
  ASSUME NEW a \in Nat, NEW x \in Int, NEW y \in Int, x <= y
  PROVE  a * x \in Int /\ a * y \in Int /\ a * x <= a * y
<1>1. a * (y - x) >= 0
  <2>1. y - x \in Nat
    OBVIOUS
  <2> QED BY <2>1
<1> QED BY <1>1

LEMMA CellKinds ==
  /\ Datas \subseteq Outgoing /\ SendMes \subseteq Outgoing /\ Outgoing \subseteq Cell
  /\ Datas \cap SendMes = {} /\ NoCell \notin Cell
  /\ \A n \in Nat : C("DATA", n) \in Datas /\ C("SENDME", n) \in SendMes
  /\ \A k \in {"BEGIN", "END"}, n \in Nat : C(k, n) \in Outgoing \ (Datas \cup SendMes)
  /\ \A k \in {"CONNECTED", "END"}, n \in Nat : C(k, n) \in Cell \ (Datas \cup SendMes)
  /\ \A cell \in Cell : cell.cmd = "DATA" <=> cell \in Datas
  /\ \A cell \in Cell : cell.cmd = "SENDME" <=> cell \in SendMes
  /\ \A cell \in Cell : cell.n \in Nat
BY DEF Datas, SendMes, Outgoing, Cell, Cmds, C, NoCell

LEMMA WindowV == ASSUME NEW w \in WindowType PROVE w.v \in Int /\ w.trigged \in Seq(Nat) /\ w.digest \in Nat
BY DEF WindowType

LEMMA Counts ==
  ASSUME FlowType
  PROVE  /\ {Count(wire, Datas), Count(wire, SendMes), Count(outbound, SendMes)} \subseteq Nat
         /\ {Count(control, SendMes), Count(inbound, SendMes), Count(inbound, Datas)} \subseteq Nat
         /\ Len(buffer) \in Nat /\ Len(rcv.trigged) \in Nat
BY CountType, LenProperties, WindowV DEF FlowType

LEMMA CountsNext ==
  ASSUME FlowType'
  PROVE  /\ {Count(wire, Datas)', Count(wire, SendMes)', Count(outbound, SendMes)'} \subseteq Nat
         /\ {Count(control, SendMes)', Count(inbound, SendMes)', Count(inbound, Datas)'} \subseteq Nat
         /\ Len(buffer)' \in Nat /\ Len(rcv.trigged)' \in Nat
BY CountType, LenProperties, WindowV DEF FlowType

LEMMA Ints == \A x : (x \in Nat => x \in Int) /\ (x \in {0, 1} => x \in Int)
OBVIOUS

\* Sums of up to four counts, and what two of them leave.
LEMMA SumOf ==
  ASSUME NEW a \in Nat, NEW b \in Nat
  PROVE  /\ a + b \in Nat /\ a + b >= a
         /\ \A c \in Nat : /\ a + b + c \in Nat
                          /\ \A d \in Nat : a + b + c + d \in Nat /\ a + b + c + d >= a
OBVIOUS

LEMMA RestOf ==
  ASSUME NEW a \in Nat, NEW b \in Nat, NEW c \in Nat
  PROVE  a - b - c \in Int /\ a - b - c <= a
OBVIOUS

LEMMA Measures ==
  ASSUME FlowType
  PROVE  /\ CtrlGrants \in Nat /\ LoopGrants \in Nat
         /\ Spent \in Nat /\ Grants \in Nat /\ Sent \in Nat /\ Asked \in Nat
         /\ Held \in Nat /\ Arrived \in Int /\ After \in {0, 1} /\ Holding \in {0, 1}
         /\ snd.v \in Int /\ rcv.v \in Int /\ acks \in Nat /\ got \in Nat
         /\ credit \in Nat /\ down \in Nat
         /\ Sent >= credit /\ Asked >= Sent /\ Arrived <= down
         /\ Len(rcv.trigged) \in Nat /\ Since(rcv.v) \in Int
<1>1. /\ up \in Nat /\ got \in Nat /\ credit \in Nat /\ down \in Nat /\ acks \in Nat
      /\ token \in Nat
  BY DEF FlowType
<1>2. snd.v \in Int /\ rcv.v \in Int
  BY WindowV DEF FlowType
<1>3. /\ Count(wire, Datas) \in Nat /\ Count(wire, SendMes) \in Nat
      /\ Count(outbound, SendMes) \in Nat /\ Count(control, SendMes) \in Nat
      /\ Count(inbound, SendMes) \in Nat /\ Count(inbound, Datas) \in Nat
      /\ Len(buffer) \in Nat /\ Len(rcv.trigged) \in Nat
  BY Counts
<1>4. /\ One(hand["send"], Datas) \in Nat /\ One(hand["send"], SendMes) \in Nat
      /\ One(hand["loop"], SendMes) \in Nat
  BY DEF One
<1>5. /\ Busy("ctrl", {"notify"}) \in Nat /\ Busy("read", {"put"}) \in Nat
      /\ Busy("loop", {"deliver"}) \in Nat /\ Busy("loop", {"fill"}) \in Nat
      /\ After \in {0, 1} /\ Holding \in {0, 1}
  BY DEF Busy, After, Holding
<1>6. Since(rcv.v) \in Int
  BY <1>2, SinceFacts, WindowAssumption
<1>7. Spent \in Nat
  BY <1>1, <1>3, <1>4, SumOf, Zenon DEF Spent
<1>8. CtrlGrants \in Nat /\ LoopGrants \in Nat /\ Grants \in Nat
  <2>1. CtrlGrants \in Nat
    BY <1>1, <1>3, <1>5, SumOf, Zenon DEF CtrlGrants
  <2>2. LoopGrants \in Nat
    BY <1>3, <1>4, SumOf, Zenon DEF LoopGrants
  <2> QED BY <2>1, <2>2, SumOf, Zenon DEF Grants
<1>9. Sent \in Nat /\ Sent >= credit
  BY <1>1, <1>3, <1>4, SumOf, Zenon DEF Sent
<1>10. Asked \in Nat /\ Asked >= Sent
  BY <1>9, <1>5, SumOf, Zenon DEF Asked
<1>11. Held \in Nat
  BY <1>1, <1>3, <1>5, SumOf, Zenon DEF Held
<1>12. Arrived \in Int /\ Arrived <= down
  BY <1>1, <1>3, <1>5, RestOf, Zenon DEF Arrived
<1> QED BY <1>1, <1>2, <1>3, <1>5, <1>6, <1>7, <1>8, <1>9, <1>10, <1>11, <1>12

LEMMA MeasuresNext ==
  ASSUME FlowType'
  PROVE  /\ CtrlGrants' \in Nat /\ LoopGrants' \in Nat
         /\ Spent' \in Nat /\ Grants' \in Nat /\ Sent' \in Nat /\ Asked' \in Nat
         /\ Held' \in Nat /\ Arrived' \in Int /\ After' \in {0, 1} /\ Holding' \in {0, 1}
         /\ snd'.v \in Int /\ rcv'.v \in Int /\ acks' \in Nat /\ got' \in Nat
         /\ credit' \in Nat /\ down' \in Nat
         /\ Sent' >= credit' /\ Asked' >= Sent' /\ Arrived' <= down'
         /\ Len(rcv.trigged)' \in Nat /\ Since(rcv.v)' \in Int
<1>1. /\ up' \in Nat /\ got' \in Nat /\ credit' \in Nat /\ down' \in Nat /\ acks' \in Nat
      /\ token' \in Nat
  BY DEF FlowType
<1>2. snd'.v \in Int /\ rcv'.v \in Int
  BY WindowV DEF FlowType
<1>3. /\ Count(wire, Datas)' \in Nat /\ Count(wire, SendMes)' \in Nat
      /\ Count(outbound, SendMes)' \in Nat /\ Count(control, SendMes)' \in Nat
      /\ Count(inbound, SendMes)' \in Nat /\ Count(inbound, Datas)' \in Nat
      /\ Len(buffer)' \in Nat /\ Len(rcv.trigged)' \in Nat
  BY CountsNext
<1>4. /\ One(hand["send"], Datas)' \in Nat /\ One(hand["send"], SendMes)' \in Nat
      /\ One(hand["loop"], SendMes)' \in Nat
  BY DEF One
<1>5. /\ Busy("ctrl", {"notify"})' \in Nat /\ Busy("read", {"put"})' \in Nat
      /\ Busy("loop", {"deliver"})' \in Nat /\ Busy("loop", {"fill"})' \in Nat
      /\ After' \in {0, 1} /\ Holding' \in {0, 1}
  BY DEF Busy, After, Holding
<1>6. Since(rcv.v)' \in Int
  BY <1>2, SinceFacts, WindowAssumption
<1>7. Spent' \in Nat
  BY <1>1, <1>3, <1>4, SumOf, Zenon DEF Spent
<1>8. CtrlGrants' \in Nat /\ LoopGrants' \in Nat /\ Grants' \in Nat
  <2>1. CtrlGrants' \in Nat
    BY <1>1, <1>3, <1>5, SumOf, Zenon DEF CtrlGrants
  <2>2. LoopGrants' \in Nat
    BY <1>3, <1>4, SumOf, Zenon DEF LoopGrants
  <2> QED BY <2>1, <2>2, SumOf, Zenon DEF Grants
<1>9. Sent' \in Nat /\ Sent' >= credit'
  BY <1>1, <1>3, <1>4, SumOf, Zenon DEF Sent
<1>10. Asked' \in Nat /\ Asked' >= Sent'
  BY <1>9, <1>5, SumOf, Zenon DEF Asked
<1>11. Held' \in Nat
  BY <1>1, <1>3, <1>5, SumOf, Zenon DEF Held
<1>12. Arrived' \in Int /\ Arrived' <= down'
  BY <1>1, <1>3, <1>5, RestOf, Zenon DEF Arrived
<1> QED BY <1>1, <1>2, <1>3, <1>5, <1>6, <1>7, <1>8, <1>9, <1>10, <1>11, <1>12

\* Arithmetic of credit: x and y are what is charged, g and h acknowledgements.
LEMMA CreditSum ==
  ASSUME NEW a \in Nat, NEW s \in Nat, NEW x \in Int, NEW y \in Int,
         NEW g \in Int, NEW h \in Int, NEW k \in Int, NEW m \in Int,
         x + a * g <= s + a * k, y <= x, h - m <= g - k
  PROVE  y + a * h <= s + a * m
<1>1. a * (h - m) <= a * (g - k)
  BY MulMono
<1>2. a * (h - m) = (a * h) - (a * m) /\ a * (g - k) = (a * g) - (a * k)
  OBVIOUS
<1>3. a * h \in Int /\ a * m \in Int /\ a * g \in Int /\ a * k \in Int
  OBVIOUS
<1> QED BY <1>1, <1>2, <1>3

LEMMA FloorSum ==
  ASSUME NEW a \in Nat, NEW s \in Int, NEW v \in Int, NEW x \in Int, NEW y \in Int,
         NEW g \in Int, NEW h \in Int, NEW k \in Int, NEW m \in Int,
         s + a * g <= v + x + a * k, x <= y, h <= g, k <= m
  PROVE  s + a * h <= v + y + a * m
<1>1. a * h <= a * g /\ a * k <= a * m
  BY MulMono
<1>2. a * h \in Int /\ a * m \in Int /\ a * g \in Int /\ a * k \in Int
  OBVIOUS
<1> QED BY <1>1, <1>2

\* ... and of what is owed for n acknowledgements.
LEMMA OwedSum ==
  ASSUME NEW a \in Nat, NEW n \in Int, NEW m \in Int, NEW x \in Int, NEW y \in Int, m <= n, x <= y
  PROVE  /\ \A t \in Int : a * n <= x + t => a * m <= y + t
         /\ \A l \in Int, r \in Int : a * (n + l) + r <= x => a * (m + l) + r <= y
         /\ \A v \in Int, l \in Int, r \in Int, s \in Int :
               v + a * (l + n) + r <= s => v + a * (l + m) + r <= s
<1>1. a * m <= a * n /\ a * m \in Int /\ a * n \in Int
  BY MulMono
<1>2. ASSUME NEW l \in Int
      PROVE  /\ a * (m + l) \in Int /\ a * (n + l) \in Int /\ a * (m + l) <= a * (n + l)
             /\ l + m = m + l /\ l + n = n + l
  <2>1. m + l \in Int /\ n + l \in Int /\ m + l <= n + l
    OBVIOUS
  <2> QED BY <2>1, MulMono
<1> QED BY <1>1, <1>2

LEMMA DueSum ==
  ASSUME NEW a \in Nat, NEW n \in Int, NEW m \in Int, NEW x \in Int, NEW s \in Int,
         x <= s + a * n, n <= m
  PROVE  x <= s + a * m
<1>1. a * n <= a * m /\ a * m \in Int /\ a * n \in Int
  BY MulMono
<1> QED BY <1>1

\* A step that charges what it spends and makes up no acknowledgement.
LEMMA CreditStep ==
  ASSUME FlowType, FlowType', Credit, ~panicked, closed \subseteq closed',
         ~panicked' => Spent' + snd'.v <= Spent + snd.v,
         Grants' - acks' <= Grants - acks
  PROVE  Credit'
<1> SUFFICES ASSUME ~panicked', "token" \notin closed'
             PROVE  Spent' + snd'.v + AddValue * Grants' <= StartValue + AddValue * acks'
  BY DEF Credit
<1>1. Spent + snd.v + AddValue * Grants <= StartValue + AddValue * acks
  BY DEF Credit
<1>2. /\ Spent + snd.v \in Int /\ Grants \in Int /\ acks \in Int
      /\ Spent' + snd'.v \in Int /\ Grants' \in Int /\ acks' \in Int
  <2>1. Spent \in Nat /\ Grants \in Nat /\ snd.v \in Int /\ acks \in Nat
    BY Measures
  <2>2. Spent' \in Nat /\ Grants' \in Nat /\ snd'.v \in Int /\ acks' \in Nat
    BY MeasuresNext
  <2> QED BY <2>1, <2>2
<1>3. AddValue \in Nat /\ StartValue \in Nat
  BY WindowAssumption
<1>4. Spent' + snd'.v <= Spent + snd.v
  OBVIOUS
<1> QED BY <1>1, <1>2, <1>3, <1>4, CreditSum, Zenon

\* A step that leaves the receive window alone.
LEMMA ReceivedStep ==
  ASSUME FlowType, FlowType', Received, rcv' = rcv,
         closed \subseteq closed', state = "closed" => state' = "closed",
         got' >= got, credit' >= credit, down' = down \/ Credited',
         Sent' <= Sent, Asked' <= Asked, Arrived' >= Arrived,
         After' >= After, Holding' <= Holding,
         Held' >= Held \/ state' = "closed", Held' <= Arrived'
  PROVE  Received'
<1>1. /\ Sent \in Int /\ Asked \in Int /\ Held \in Int /\ got \in Int /\ credit \in Int
      /\ down \in Int /\ Arrived \in Int /\ After \in Int /\ Holding \in Int /\ rcv.v \in Int
      /\ Len(rcv.trigged) \in Int /\ Since(rcv.v) \in Int
  BY Measures, Ints, Zenon
<1>2. /\ Sent' \in Int /\ Asked' \in Int /\ Held' \in Int /\ got' \in Int /\ credit' \in Int
      /\ down' \in Int /\ Arrived' \in Int /\ After' \in Int /\ Holding' \in Int
  BY MeasuresNext, Ints, Zenon
<1>3. AddValue \in Nat /\ StartValue \in Int /\ TriggerCells \in Nat
  BY WindowAssumption, StreamAssumption
<1>4. Floor'
  <2>1. StartValue + AddValue * Sent <= rcv.v + Arrived + AddValue * After
    BY DEF Received, Floor
  <2>2. Arrived <= Arrived' /\ After <= After'
    BY <1>1, <1>2
  <2>3. StartValue + AddValue * Sent' <= rcv.v + Arrived' + AddValue * After'
    BY <1>1, <1>2, <1>3, <2>1, <2>2, FloorSum, Zenon
  <2> QED BY <2>3 DEF Floor
<1>5. Ceiling'
  <2> SUFFICES ASSUME "rcv" \notin closed'
               PROVE  rcv.v + AddValue * (Len(rcv.trigged) + Holding') + Since(rcv.v) <= StartValue
    BY DEF Ceiling
  <2>1. rcv.v + AddValue * (Len(rcv.trigged) + Holding) + Since(rcv.v) <= StartValue
    BY DEF Received, Ceiling
  <2>2. 0 \in Int /\ 0 <= 0
    OBVIOUS
  <2> QED BY <1>1, <1>2, <1>3, <2>1, <2>2, OwedSum, Zenon
<1>6. Digests'
  <2> SUFFICES ASSUME state' # "closed"
               PROVE  AddValue * (Asked' + Len(rcv.trigged)) + Since(rcv.v) <= Held'
    BY DEF Digests
  <2>1. AddValue * (Asked + Len(rcv.trigged)) + Since(rcv.v) <= Held
    BY DEF Received, Digests
  <2>2. Held <= Held'
    BY <1>1, <1>2
  <2> QED BY <1>1, <1>2, <1>3, <2>1, <2>2, OwedSum, Zenon
<1>7. Asking'
  <2>1. AddValue * Asked <= got + TriggerCells
    BY DEF Received, Asking
  <2>2. got <= got' /\ TriggerCells \in Int
    BY <1>1, <1>2, <1>3
  <2>3. AddValue * Asked' <= got' + TriggerCells
    BY <1>1, <1>2, <1>3, <2>1, <2>2, OwedSum, Zenon
  <2> QED BY <2>3 DEF Asking
<1>8. Credited'
  <2> SUFFICES ASSUME down' = down PROVE Credited'
    OBVIOUS
  <2>1. down <= StartValue + AddValue * credit
    BY DEF Received, Credited
  <2>2. down <= StartValue + AddValue * credit'
    BY <1>1, <1>2, <1>3, <2>1, DueSum, Zenon
  <2> QED BY <2>2 DEF Credited
<1>9. Fetched'
  BY DEF Fetched
<1> QED BY <1>4, <1>5, <1>6, <1>7, <1>8, <1>9 DEF Received
\* One thread moves, one cell changes hands.
LEMMA Moved ==
  ASSUME Stage, NEW t \in Threads, NEW l, Goto(t, l)
  PROVE  pc'[t] = l /\ \A u \in Threads : u # t => pc'[u] = pc[u]
BY DEF Stage, LifeType, Goto

LEMMA Handed ==
  ASSUME Flow, NEW t \in Threads, NEW cell, hand' = [hand EXCEPT ![t] = cell]
  PROVE  /\ hand'[t] = cell /\ \A u \in Threads : u # t => hand'[u] = hand[u]
         /\ cell \in Cell \cup {NoCell} => hand' \in [Threads -> Cell \cup {NoCell}]
BY DEF Flow, FlowType

\* The sums a step is judged by, and a step that keeps them.
SameSums == /\ Sent' = Sent /\ Asked' = Asked /\ Arrived' = Arrived
            /\ After' = After /\ Holding' = Holding /\ Held' = Held

\* What readloop drops counts as arrived, and is held no more.
LooseSums == /\ Sent' = Sent /\ Asked' = Asked /\ Arrived' >= Arrived
             /\ After' = After /\ Holding' = Holding
             /\ Held' = Held \/ (state' = "closed" /\ Held' <= Held)

LEMMA LooseStep ==
  ASSUME Flow, FlowType', rcv' = rcv, credit' \in {credit, credit + 1}, down' = down \/ Credited',
         closed \subseteq closed', state = "closed" => state' = "closed",
         got' >= got, SameSums \/ LooseSums
  PROVE  Received'
<1>1. /\ Sent \in Int /\ Asked \in Int /\ Held \in Int /\ credit \in Int
      /\ Arrived \in Int /\ After \in Int /\ Holding \in Int
  BY Measures, Ints, Zenon DEF Flow
<1>2. Held' \in Int /\ Arrived' \in Int
  BY MeasuresNext, Ints, Zenon
<1>3. Held <= Arrived
  BY DEF Flow, Received, Fetched
<1>4. Held' <= Held
  BY <1>1 DEF SameSums, LooseSums
<1>5. Arrived' >= Arrived
  BY <1>1 DEF SameSums, LooseSums
<1>6. Held' <= Arrived'
  BY <1>1, <1>2, <1>3, <1>4, <1>5
<1>7. /\ Sent' <= Sent /\ Asked' <= Asked /\ After' >= After /\ Holding' <= Holding
      /\ Held' >= Held \/ state' = "closed"
  BY <1>1 DEF SameSums, LooseSums
<1>8. credit' >= credit
  BY <1>1
<1> QED BY <1>5, <1>6, <1>7, <1>8, ReceivedStep DEF Flow

LEMMA FlowStep ==
  ASSUME Flow, FlowType', Hands', Opened', ~panicked,
         rcv' = rcv, credit' \in {credit, credit + 1}, down' = down \/ Credited',
         closed \subseteq closed', state = "closed" => state' = "closed",
         ~panicked' => Spent' + snd'.v <= Spent + snd.v, Grants' - acks' <= Grants - acks,
         got' >= got, SameSums \/ LooseSums
  PROVE  Flow'
<1>1. Received'
  BY LooseStep
<1>2. Credit'
  BY CreditStep DEF Flow
<1> QED BY <1>1, <1>2 DEF Flow

\* A step in which no cell moves and nobody comes to hold one.
Calm == /\ UNCHANGED <<flowVars, hand, relayVars, panicked>>
        /\ closed \subseteq closed' /\ (state = "closed" => state' = "closed")
        /\ pc'["send"] \in {"off", "take"} => pc["send"] \in {"off", "take"}
        /\ pc'["send"] \in {"put", "wait"} => pc["send"] = pc'["send"]
        /\ \A l \in {"deliver", "fill", "put"} : pc'["loop"] = l <=> pc["loop"] = l
        /\ pc'["ctrl"] = "notify" <=> pc["ctrl"] = "notify"
        /\ pc'["read"] = "put" <=> pc["read"] = "put"
        /\ pc'["read"] \in {"increase"} \cup Closing <=> pc["read"] \in {"increase"} \cup Closing

LEMMA FlowCalm ==
  ASSUME Flow, Calm, ~panicked
  PROVE  Flow'
<1>1. /\ UNCHANGED <<snd, rcv, token, outbound, control, buffer, wire, inbound, wrote, got>>
      /\ UNCHANGED <<hand, up, down, acks, credit, relay, panicked>>
  BY DEF Calm, flowVars, relayVars
<1>2. FlowType'
  BY <1>1 DEF Flow, FlowType
<1>3. Hands'
  <2>1. /\ pc'["send"] \in {"put", "wait"} => hand'["send"] \in Outgoing
        /\ pc'["send"] \in {"off", "take"} => hand'["send"] = NoCell
    BY <1>1 DEF Calm, Flow, Hands
  <2>2. /\ pc'["loop"] \in {"deliver", "fill"} => hand'["loop"] \in Datas
        /\ pc'["loop"] = "put" => hand'["loop"] \in Cell \ Datas
        /\ pc'["read"] = "put" => hand'["read"] \in SendMes
    BY <1>1 DEF Calm, Flow, Hands
  <2> QED BY <2>1, <2>2 DEF Hands
<1>4. Opened'
  BY <1>1 DEF Calm, Flow, Opened
<1>5. /\ Busy("ctrl", {"notify"})' = Busy("ctrl", {"notify"})
      /\ Busy("read", {"put"})' = Busy("read", {"put"})
      /\ Busy("loop", {"deliver"})' = Busy("loop", {"deliver"})
      /\ Busy("loop", {"fill"})' = Busy("loop", {"fill"})
      /\ After' = After
  BY DEF Calm, Busy, After
<1>6. Holding' = Holding
  BY DEF Calm, Busy, Holding
<1>7. SameSums
  BY <1>1, <1>5, <1>6 DEF SameSums, Sent, Asked, Arrived, Held
<1>8. Spent' + snd'.v <= Spent + snd.v /\ Grants' - acks' <= Grants - acks /\ got' >= got
  <2>1. /\ Spent \in Nat /\ snd.v \in Int /\ Grants \in Nat /\ acks \in Nat /\ got \in Nat
    BY Measures DEF Flow
  <2>2. Spent' = Spent /\ Grants' = Grants
    BY <1>1, <1>5 DEF Spent, Grants, CtrlGrants, LoopGrants
  <2> QED BY <2>1, <2>2, <1>1
<1> QED BY <1>1, <1>2, <1>3, <1>4, <1>7, <1>8, FlowStep DEF Calm

\* Where a thread in Close or Free comes from and goes to.
LEMMA ClosingPlaces ==
  ASSUME Stage, NEW t \in Threads, CloseOrFree(t)
  PROVE  /\ \A u \in Threads : u # t => pc'[u] = pc[u]
         /\ \/ pc[t] \in Closing /\ pc'[t] \in Closing \cup Back(t)
            \/ pc[t] \in Freeing \cap Home(t) /\ pc'[t] \in {"close", "forget", "delete", "done", "failed"}
         /\ ~panicked
<1>1. pc[t] \in Home(t) \/ (pc[t] \in Closing /\ ret[t] \in Back(t))
  BY DEF Stage, Placed
<1>2. Home(t) \cap Closing = {}
  BY Homes
<1>3. CASE EnterClose(t)
  <2>1. pc[t] = "close" /\ ~panicked /\ (Goto(t, "lock") \/ Goto(t, ret[t]))
    BY <1>3 DEF EnterClose, At
  <2> QED BY <1>1, <1>2, <2>1, Moved DEF Closing
<1>4. CASE LockClose(t)
  <2>1. pc[t] = "lock" /\ ~panicked /\ Goto(t, "cancel")
    BY <1>4 DEF LockClose, At
  <2> QED BY <2>1, Moved DEF Closing
<1>5. CASE CancelCtx(t)
  <2>1. pc[t] = "cancel" /\ ~panicked /\ (Goto(t, "chansFree") \/ Goto(t, "chans"))
    BY <1>5 DEF CancelCtx, At
  <2> QED BY <2>1, Moved DEF Closing
<1>6. CASE CloseChan(t)
  BY <1>6 DEF CloseChan, Closing
<1>7. CASE LeaveClose(t)
  <2>1. pc[t] \in {"chans", "chansFree"} /\ ~panicked /\ Goto(t, ret[t])
    BY <1>7 DEF LeaveClose
  <2> QED BY <1>1, <1>2, <2>1, Moved DEF Closing
<1>8. CASE EnterFree(t)
  <2>1. pc[t] = "free" /\ ~panicked /\ (Goto(t, "close") \/ Goto(t, "forget"))
    BY <1>8 DEF EnterFree, At, CallClose
  <2> QED BY <1>1, <2>1, Moved DEF Freeing, Closing
<1>9. CASE FreeCtx(t)
  <2>1. pc[t] = "forget" /\ ~panicked /\ Goto(t, "delete")
    BY <1>9 DEF FreeCtx, At
  <2> QED BY <1>1, <2>1, Moved DEF Freeing, Closing
<1>10. CASE Delete(t)
  <2>1. pc[t] = "delete" /\ ~panicked /\ (Goto(t, "failed") \/ Goto(t, "done"))
    BY <1>10 DEF Delete, At
  <2> QED BY <1>1, <2>1, Moved DEF Freeing, Closing
<1> QED BY <1>3, <1>4, <1>5, <1>6, <1>7, <1>8, <1>9, <1>10 DEF CloseOrFree

LEMMA ClosingCalm ==
  ASSUME Stage, NEW t \in Threads, CloseOrFree(t)
  PROVE  Calm
<1>1. /\ \A u \in Threads : u # t => pc'[u] = pc[u]
      /\ \/ pc[t] \in Closing /\ pc'[t] \in Closing \cup Back(t)
         \/ pc[t] \in Freeing \cap Home(t) /\ pc'[t] \in {"close", "forget", "delete", "done", "failed"}
  BY ClosingPlaces
<1>2. /\ UNCHANGED <<flowVars, hand, relayVars, panicked>> /\ closed \subseteq closed'
      /\ state = "closed" => state' = "closed"
  BY DEF CloseOrFree, EnterClose, LockClose, CancelCtx, CloseChan, LeaveClose, EnterFree, FreeCtx,
         Delete, lifeVars
<1>3. /\ pc'["send"] \in {"off", "take"} => pc["send"] \in {"off", "take"}
      /\ pc'["send"] \in {"put", "wait"} => pc["send"] = pc'["send"]
  BY <1>1, HomeFacts, BackFacts DEF Threads, Closing, Freeing
<1>4. \A l \in {"deliver", "fill", "put"} : pc'["loop"] = l <=> pc["loop"] = l
  BY <1>1, HomeFacts, BackFacts DEF Threads, Closing, Freeing
<1>5. pc'["ctrl"] = "notify" <=> pc["ctrl"] = "notify"
  BY <1>1, HomeFacts, BackFacts DEF Threads, Closing, Freeing
<1>6. /\ pc'["read"] = "put" <=> pc["read"] = "put"
      /\ pc'["read"] \in {"increase"} \cup Closing <=> pc["read"] \in {"increase"} \cup Closing
  BY <1>1, HomeFacts, BackFacts DEF Threads, Closing, Freeing
<1> QED BY <1>2, <1>3, <1>4, <1>5, <1>6 DEF Calm

LEMMA OthersCalm ==
  ASSUME Stage, OpenStart \/ OpenFail \/ WriteStart \/ WriteReturn \/ EndStart \/ JanitorWakes
                  \/ SendExit \/ CtrlExit \/ LoopExit \/ CircuitDies
  PROVE  Calm /\ ~panicked
<1>1. {"open", "write", "end", "janitor", "send", "ctrl", "loop", "read"} \subseteq Threads
  BY DEF Threads
<1>2. /\ UNCHANGED <<flowVars, hand, relayVars, panicked>> /\ closed \subseteq closed' /\ ~panicked
  BY DEF OpenStart, OpenFail, WriteStart, WriteReturn, EndStart, JanitorWakes, SendExit, CtrlExit,
         LoopExit, CircuitDies, lifeVars, At
<1>3. state = "closed" => state' = "closed"
  <2>1. CASE OpenStart
    <3>1. pc["open"] \in Early
      BY <2>1 DEF OpenStart, At, Early
    <3> QED BY <3>1 DEF Stage, OpensAlone
  <2>2. CASE OpenFail \/ WriteStart \/ WriteReturn \/ EndStart \/ JanitorWakes
                  \/ SendExit \/ CtrlExit \/ LoopExit \/ CircuitDies
    BY <2>2 DEF OpenFail, WriteStart, WriteReturn, EndStart, JanitorWakes, SendExit, CtrlExit,
                LoopExit, CircuitDies, lifeVars
  <2> QED BY <2>1, <2>2
<1>4. CASE OpenStart
  <2>1. /\ pc' = [t \in Threads |-> CASE t = "open" -> "done"
                                  [] t \in {"send", "ctrl"} -> "take"
                                  [] t = "read" -> "read"
                                  [] t = "janitor" /\ Janitor -> "wait"
                                  [] OTHER -> pc[t]]
    BY <1>4 DEF OpenStart
  <2>2. pc["open"] \in Early
    BY <1>4 DEF OpenStart, At, Early
  <2>3. pc["send"] = "off" /\ pc["ctrl"] = "off" /\ pc["read"] = "off"
    BY <2>2, <1>1 DEF Stage, OpensAlone
  <2>4. pc'["send"] = "take" /\ pc'["ctrl"] = "take"
    BY <2>1, <1>1
  <2>5. pc'["read"] = "read"
    BY <2>1, <1>1
  <2>6. pc'["loop"] = pc["loop"]
    BY <2>1, <1>1
  <2> QED BY <1>2, <1>3, <2>3, <2>4, <2>5, <2>6 DEF Calm, Closing
<1>5. CASE OpenFail \/ WriteStart \/ WriteReturn \/ EndStart \/ JanitorWakes \/ CircuitDies
  <2>1. /\ pc'["send"] = pc["send"] /\ pc'["loop"] = pc["loop"]
        /\ pc'["ctrl"] = pc["ctrl"] /\ pc'["read"] = pc["read"]
    <3>1. \/ pc' = pc
          \/ \E t \in {"open", "write", "end", "janitor"}, l \in Labels : Goto(t, l)
      BY <1>5 DEF OpenFail, WriteStart, WriteReturn, EndStart, JanitorWakes, CircuitDies, Labels
    <3> QED BY <3>1, <1>1, Moved
  <2> QED BY <1>2, <1>3, <2>1 DEF Calm
<1>6. CASE SendExit
  <2>1. Goto("send", "done") \/ Goto("send", "close")
    BY <1>6 DEF SendExit, CallClose
  <2>2. /\ pc'["send"] \in {"done", "close"} /\ pc'["loop"] = pc["loop"]
        /\ pc'["ctrl"] = pc["ctrl"] /\ pc'["read"] = pc["read"]
    BY <2>1, <1>1, Moved
  <2> QED BY <1>2, <1>3, <2>2 DEF Calm
<1>7. CASE CtrlExit
  <2>1. Goto("ctrl", "done") /\ pc["ctrl"] = "take"
    BY <1>7 DEF CtrlExit, At
  <2>2. /\ pc'["ctrl"] = "done" /\ pc'["loop"] = pc["loop"]
        /\ pc'["send"] = pc["send"] /\ pc'["read"] = pc["read"]
    BY <2>1, <1>1, Moved
  <2> QED BY <1>2, <1>3, <2>1, <2>2 DEF Calm
<1>8. CASE LoopExit
  <2>1. Goto("loop", "done") /\ pc["loop"] = "take"
    BY <1>8 DEF LoopExit, At
  <2>2. /\ pc'["loop"] = "done" /\ pc'["ctrl"] = pc["ctrl"]
        /\ pc'["send"] = pc["send"] /\ pc'["read"] = pc["read"]
    BY <2>1, <1>1, Moved
  <2> QED BY <1>2, <1>3, <2>1, <2>2 DEF Calm
<1> QED BY <1>4, <1>5, <1>6, <1>7, <1>8
-----------------------------------------------------------------------------
(* The steps that move cells                                               *)

\* The pieces the sums are made of stay what they are, all but those of one thread.
Counts4 == <<Count(wire, Datas), Count(wire, SendMes), Count(outbound, SendMes),
             Count(control, SendMes)>>
Counts2 == <<Count(inbound, SendMes), Count(inbound, Datas)>>
Doing   == <<pc["send"], pc["loop"], pc["ctrl"], pc["read"]>>
Holds   == <<hand["send"], hand["loop"], hand["read"]>>

LEMMA SumsKept ==
  ASSUME UNCHANGED <<Counts4, Counts2, Doing, Holds>>, UNCHANGED <<up, token, credit, down, got>>,
         Len(buffer)' = Len(buffer)
  PROVE  SameSums /\ Spent' = Spent /\ Grants' = Grants
<1>1. /\ UNCHANGED <<Count(wire, Datas), Count(wire, SendMes), Count(outbound, SendMes)>>
      /\ UNCHANGED <<Count(control, SendMes), Count(inbound, SendMes), Count(inbound, Datas)>>
      /\ UNCHANGED <<pc["send"], pc["loop"], pc["ctrl"], pc["read"]>>
      /\ UNCHANGED <<hand["send"], hand["loop"], hand["read"]>>
  BY DEF Counts4, Counts2, Doing, Holds
<1>2. Sent' = Sent
  BY <1>1 DEF Sent
<1>3. Asked' = Asked
  BY <1>1, <1>2 DEF Asked, Busy
<1>4. Arrived' = Arrived
  BY <1>1 DEF Arrived, Busy
<1>5. Held' = Held
  BY <1>1 DEF Held, Busy
<1>6. After' = After /\ Holding' = Holding
  BY <1>1 DEF After, Holding, Busy
<1>7. Spent' = Spent
  BY <1>1 DEF Spent
<1>8. Grants' = Grants
  BY <1>1 DEF Grants, CtrlGrants, LoopGrants, Busy
<1> QED BY <1>2, <1>3, <1>4, <1>5, <1>6, <1>7, <1>8 DEF SameSums

\* A step that queues a cell no window counts, or takes one away.
LEMMA FlowPlain ==
  ASSUME Flow, FlowType', Hands', ~panicked, UNCHANGED <<Counts4, Counts2, Doing, Holds>>,
         UNCHANGED <<up, token, credit, down, got, snd, rcv, acks, panicked, closed, state>>,
         Len(buffer)' = Len(buffer)
  PROVE  Flow'
<1>1. SameSums /\ Spent' = Spent /\ Grants' = Grants
  BY SumsKept
<1>2. /\ Spent \in Nat /\ snd.v \in Int /\ Grants \in Nat /\ acks \in Nat /\ got \in Nat
  BY Measures DEF Flow
<1>3. Spent' + snd'.v <= Spent + snd.v /\ Grants' - acks' <= Grants - acks /\ got' >= got
  BY <1>1, <1>2
<1>4. Opened'
  BY DEF Flow, Opened, Doing
<1> QED BY <1>1, <1>3, <1>4, FlowStep

LEMMA CountSame ==
  ASSUME NEW S, NEW q \in Seq(S), NEW cell \in S
  PROVE  /\ Append(q, cell) \in Seq(S) /\ Len(Append(q, cell)) = Len(q) + 1
         /\ cell \notin Datas => Count(Append(q, cell), Datas) = Count(q, Datas)
         /\ cell \notin SendMes => Count(Append(q, cell), SendMes) = Count(q, SendMes)
         /\ cell \in Datas => Count(Append(q, cell), Datas) = Count(q, Datas) + 1
         /\ cell \in SendMes => Count(Append(q, cell), SendMes) = Count(q, SendMes) + 1
<1>1. Append(q, cell) \in Seq(S) /\ Len(Append(q, cell)) = Len(q) + 1
  BY AppendProperties
<1>2. /\ Count(Append(q, cell), Datas) = Count(q, Datas) + (IF cell \in Datas THEN 1 ELSE 0)
      /\ Count(Append(q, cell), SendMes) = Count(q, SendMes) + (IF cell \in SendMes THEN 1 ELSE 0)
  BY CountAppend
<1>3. Count(q, Datas) \in Nat /\ Count(q, SendMes) \in Nat
  BY CountType
<1> QED BY <1>1, <1>2, <1>3

LEMMA CountRest ==
  ASSUME NEW S, NEW q \in Seq(S), q # <<>>
  PROVE  /\ Head(q) \in S /\ Tail(q) \in Seq(S) /\ Len(Tail(q)) = Len(q) - 1 /\ Len(q) \in Nat
         /\ Head(q) \notin Datas => Count(Tail(q), Datas) = Count(q, Datas)
         /\ Head(q) \notin SendMes => Count(Tail(q), SendMes) = Count(q, SendMes)
         /\ Head(q) \in Datas => Count(q, Datas) = Count(Tail(q), Datas) + 1
         /\ Head(q) \in SendMes => Count(q, SendMes) = Count(Tail(q), SendMes) + 1
<1>1. Head(q) \in S /\ Tail(q) \in Seq(S) /\ Len(Tail(q)) = Len(q) - 1 /\ Len(q) \in Nat
  BY HeadTailProperties, LenProperties
<1>2. /\ Count(q, Datas) = Count(Tail(q), Datas) + (IF Head(q) \in Datas THEN 1 ELSE 0)
      /\ Count(q, SendMes) = Count(Tail(q), SendMes) + (IF Head(q) \in SendMes THEN 1 ELSE 0)
  BY CountTail
<1>3. Count(Tail(q), Datas) \in Nat /\ Count(Tail(q), SendMes) \in Nat
  BY <1>1, CountType
<1> QED BY <1>1, <1>2, <1>3

LEMMA FlowOpenBegin ==
  ASSUME Stage, Flow, OpenBegin
  PROVE  Flow'
<1>1. /\ ~panicked /\ UNCHANGED <<panicked, closed, state>>
      /\ UNCHANGED <<snd, rcv, token, outbound, control, buffer, inbound, wrote, got, hand>>
      /\ UNCHANGED <<up, down, acks, credit, relay>>
  BY DEF OpenBegin, At, lifeVars, relayVars
<1>2. UNCHANGED Doing
  <2>1. Goto("open", "connected") \/ Goto("open", "unlist")
    BY DEF OpenBegin
  <2> QED BY <2>1, Moved DEF Doing, Threads
<1>3. wire' \in Seq(Outgoing) /\ UNCHANGED <<Count(wire, Datas), Count(wire, SendMes)>>
  <2>1. CASE wire' = wire
    BY <2>1 DEF Flow, FlowType
  <2>2. CASE wire' = Append(wire, C("BEGIN", 0))
    <3>1. C("BEGIN", 0) \in Outgoing \ (Datas \cup SendMes) /\ wire \in Seq(Outgoing)
      BY CellKinds DEF Flow, FlowType
    <3> QED BY <3>1, <2>2, CountSame
  <2> QED BY <2>1, <2>2 DEF OpenBegin
<1>4. FlowType'
  BY <1>1, <1>3 DEF Flow, FlowType
<1>5. Hands'
  BY <1>1, <1>2 DEF Flow, Hands, Doing
<1>6. UNCHANGED <<Counts4, Counts2, Holds>>
  BY <1>1, <1>3 DEF Counts4, Counts2, Holds
<1> QED BY <1>1, <1>2, <1>4, <1>5, <1>6, FlowPlain

LEMMA FlowWritePut ==
  ASSUME Stage, Flow, WritePut \/ EndPut
  PROVE  Flow'
<1>1. /\ ~panicked /\ UNCHANGED <<panicked, closed, state>>
      /\ UNCHANGED <<snd, rcv, token, control, buffer, wire, inbound, got, hand>>
      /\ UNCHANGED <<up, down, acks, credit, relay>>
  BY DEF WritePut, EndPut, At, lifeVars, relayVars
<1>2. UNCHANGED Doing
  <2>1. \/ pc' = pc
        \/ \E t \in {"write", "end"}, l \in Labels : Goto(t, l)
    BY DEF WritePut, EndPut, CallClose, Labels
  <2>2. CASE pc' = pc
    BY <2>2 DEF Doing
  <2>3. ASSUME NEW t \in {"write", "end"}, NEW l \in Labels, Goto(t, l)
        PROVE  UNCHANGED Doing
    <3>1. t \in Threads /\ \A u \in Threads : u # t => pc'[u] = pc[u]
      BY <2>3, Moved DEF Threads
    <3> QED BY <3>1 DEF Doing, Threads
  <2> QED BY <2>1, <2>2, <2>3
<1>3. /\ outbound' \in Seq(Outgoing) /\ Len(outbound') <= OutboundCap
      /\ UNCHANGED Count(outbound, SendMes) /\ wrote' \in Nat
  <2>1. wrote' \in Nat
    BY DEF WritePut, EndPut, Flow, FlowType
  <2>2. CASE outbound' = outbound
    BY <2>1, <2>2 DEF Flow, FlowType
  <2>3. ASSUME NEW cell \in Outgoing \ SendMes, outbound' = Append(outbound, cell),
               Len(outbound) < OutboundCap
        PROVE  /\ outbound' \in Seq(Outgoing) /\ Len(outbound') <= OutboundCap
               /\ UNCHANGED Count(outbound, SendMes)
    <3>1. outbound \in Seq(Outgoing) /\ Len(outbound) \in Nat /\ OutboundCap \in Nat
      BY LenProperties, StreamAssumption DEF Flow, FlowType
    <3>2. Append(outbound, cell) \in Seq(Outgoing) /\ Len(Append(outbound, cell)) = Len(outbound) + 1
      BY <3>1, CountSame
    <3>3. Count(Append(outbound, cell), SendMes) = Count(outbound, SendMes)
      BY <3>1, CountSame
    <3> QED BY <2>3, <3>1, <3>2, <3>3
  <2>4. C("DATA", wrote + 1) \in Outgoing \ SendMes /\ C("END", 0) \in Outgoing \ SendMes
    <3>1. wrote + 1 \in Nat
      BY DEF Flow, FlowType
    <3> QED BY <3>1, CellKinds
  <2> QED BY <2>1, <2>2, <2>3, <2>4 DEF WritePut, EndPut
<1>4. FlowType'
  BY <1>1, <1>3 DEF Flow, FlowType
<1>5. Hands'
  BY <1>1, <1>2 DEF Flow, Hands, Doing
<1>6. UNCHANGED <<Counts4, Counts2, Holds>>
  BY <1>1, <1>3 DEF Counts4, Counts2, Holds
<1> QED BY <1>1, <1>2, <1>4, <1>5, <1>6, FlowPlain

LEMMA FlowRelayEnd ==
  ASSUME Stage, Flow, RelayEnd
  PROVE  Flow'
<1>1. /\ ~panicked /\ UNCHANGED <<panicked, closed, state, pc>>
      /\ UNCHANGED <<snd, rcv, token, outbound, control, buffer, wire, wrote, got, hand>>
      /\ UNCHANGED <<up, down, acks, credit>>
  BY DEF RelayEnd, RelayLive, lifeVars
<1>2. /\ relay' = "ended" /\ inbound' = Append(inbound, C("END", 0))
  BY DEF RelayEnd, ToClient
<1>3. inbound' \in Seq(Cell) /\ UNCHANGED <<Count(inbound, Datas), Count(inbound, SendMes)>>
  <2>1. C("END", 0) \in Cell \ (Datas \cup SendMes) /\ inbound \in Seq(Cell)
    BY CellKinds DEF Flow, FlowType
  <2> QED BY <2>1, <1>2, CountSame
<1>4. FlowType'
  BY <1>1, <1>2, <1>3 DEF Flow, FlowType
<1>5. Hands' /\ UNCHANGED Doing
  BY <1>1 DEF Flow, Hands, Doing
<1>6. UNCHANGED <<Counts4, Counts2, Holds>>
  BY <1>1, <1>3 DEF Counts4, Counts2, Holds
<1> QED BY <1>1, <1>4, <1>5, <1>6, FlowPlain

LEMMA FlowRelayAck ==
  ASSUME Stage, Flow, RelayAck
  PROVE  Flow'
<1>1. /\ ~panicked /\ UNCHANGED <<panicked, closed, state, pc>>
      /\ UNCHANGED <<snd, rcv, token, outbound, control, buffer, wire, wrote, got, hand>>
      /\ UNCHANGED <<up, down, credit, relay>>
  BY DEF RelayAck, RelayLive, lifeVars
<1> DEFINE cell == C("SENDME", (acks + 1) * AddValue)
<1>2. /\ acks' = acks + 1 /\ inbound' = Append(inbound, cell)
  BY DEF RelayAck, ToClient
<1>3. cell \in SendMes /\ cell \in Cell /\ cell \notin Datas /\ inbound \in Seq(Cell) /\ acks \in Nat
  <2>1. (acks + 1) * AddValue \in Nat
    BY WindowAssumption DEF Flow, FlowType
  <2> QED BY <2>1, CellKinds DEF Flow, FlowType
<1> HIDE DEF cell
<1>4. /\ inbound' \in Seq(Cell) /\ Count(inbound, Datas)' = Count(inbound, Datas)
      /\ Count(inbound, SendMes)' = Count(inbound, SendMes) + 1
  BY <1>2, <1>3, CountSame
<1>5. FlowType'
  BY <1>1, <1>2, <1>3, <1>4 DEF Flow, FlowType
<1>6. Hands' /\ Opened'
  BY <1>1 DEF Flow, Hands, Opened
<1>7. SameSums
  <2>1. Sent' = Sent
    BY <1>1 DEF Sent
  <2>2. Asked' = Asked /\ Held' = Held /\ After' = After /\ Holding' = Holding
    BY <1>1, <2>1 DEF Asked, Held, After, Holding, Busy
  <2>3. Arrived' = Arrived
    BY <1>1, <1>4 DEF Arrived, Busy
  <2> QED BY <2>1, <2>2, <2>3 DEF SameSums
<1>8. Spent' + snd'.v <= Spent + snd.v /\ got' >= got
  <2>1. Spent' = Spent
    BY <1>1 DEF Spent
  <2>2. Spent \in Nat /\ snd.v \in Int /\ got \in Nat
    BY Measures DEF Flow
  <2> QED BY <1>1, <2>1, <2>2
<1>9. Grants' - acks' <= Grants - acks
  <2>1. CtrlGrants' = CtrlGrants
    BY <1>1 DEF CtrlGrants, Busy
  <2>2. LoopGrants' = LoopGrants + 1
    <3>1. One(hand["loop"], SendMes)' = One(hand["loop"], SendMes) /\ One(hand["loop"], SendMes) \in Int
      BY <1>1 DEF One
    <3>2. Count(inbound, SendMes) \in Int
      BY Counts DEF Flow
    <3> QED BY <1>4, <3>1, <3>2 DEF LoopGrants
  <2>3. CtrlGrants \in Nat /\ LoopGrants \in Nat
    BY Measures DEF Flow
  <2>4. Grants' = Grants + 1 /\ Grants \in Int
    BY <2>1, <2>2, <2>3 DEF Grants
  <2> QED BY <1>2, <1>3, <2>4
<1>10. closed \subseteq closed' /\ (state = "closed" => state' = "closed")
  BY <1>1
<1> QED BY <1>1, <1>5, <1>6, <1>7, <1>8, <1>9, <1>10, FlowStep
LEMMA FlowRelayData ==
  ASSUME Stage, Flow, RelayData
  PROVE  Flow'
<1>1. /\ ~panicked /\ UNCHANGED <<panicked, closed, state, pc>>
      /\ UNCHANGED <<snd, rcv, token, outbound, control, buffer, wire, wrote, got, hand>>
      /\ UNCHANGED <<up, acks, credit, relay>>
  BY DEF RelayData, RelayLive, lifeVars
<1> DEFINE cell == C("DATA", down + 1)
<1>2. /\ down' = down + 1 /\ inbound' = Append(inbound, cell) /\ down < StartValue + credit * AddValue
  BY DEF RelayData, ToClient
<1>3. cell \in Datas /\ cell \in Cell /\ cell \notin SendMes /\ inbound \in Seq(Cell) /\ down \in Nat
  <2>1. down + 1 \in Nat
    BY DEF Flow, FlowType
  <2> QED BY <2>1, CellKinds DEF Flow, FlowType
<1> HIDE DEF cell
<1>4. /\ inbound' \in Seq(Cell) /\ Count(inbound, SendMes)' = Count(inbound, SendMes)
      /\ Count(inbound, Datas)' = Count(inbound, Datas) + 1
  BY <1>2, <1>3, CountSame
<1>5. FlowType'
  BY <1>1, <1>2, <1>3, <1>4 DEF Flow, FlowType
<1>6. Hands' /\ Opened'
  BY <1>1 DEF Flow, Hands, Opened
<1>7. SameSums
  <2>1. Sent' = Sent
    BY <1>1 DEF Sent
  <2>2. Asked' = Asked /\ Held' = Held /\ After' = After /\ Holding' = Holding
    BY <1>1, <2>1 DEF Asked, Held, After, Holding, Busy
  <2>3. Arrived' = Arrived
    <3>1. Busy("loop", {"deliver"})' = Busy("loop", {"deliver"}) /\ Busy("loop", {"deliver"}) \in Int
      BY <1>1 DEF Busy
    <3>2. Count(inbound, Datas) \in Nat
      BY Counts DEF Flow
    <3> QED BY <1>2, <1>3, <1>4, <3>1, <3>2 DEF Arrived
  <2> QED BY <2>1, <2>2, <2>3 DEF SameSums
<1>8. Spent' + snd'.v <= Spent + snd.v /\ got' >= got /\ Grants' - acks' <= Grants - acks
  <2>1. Spent' = Spent /\ Grants' = Grants
    BY <1>1, <1>4 DEF Spent, Grants, CtrlGrants, LoopGrants, Busy
  <2>2. Spent \in Nat /\ snd.v \in Int /\ got \in Nat /\ Grants \in Nat /\ acks \in Nat
    BY Measures DEF Flow
  <2> QED BY <1>1, <2>1, <2>2
<1>9. Credited'
  <2>1. AddValue * credit = credit * AddValue /\ AddValue * credit \in Int
    BY WindowAssumption DEF Flow, FlowType
  <2>2. down + 1 <= StartValue + AddValue * credit
    BY <1>2, <1>3, <2>1, WindowAssumption
  <2> QED BY <1>1, <1>2, <2>2 DEF Credited
<1>10. closed \subseteq closed' /\ (state = "closed" => state' = "closed")
  BY <1>1
<1> QED BY <1>1, <1>5, <1>6, <1>7, <1>8, <1>9, <1>10, FlowStep

LEMMA FlowRelayTake ==
  ASSUME Stage, Flow, RelayTake
  PROVE  Flow'
<1>1. /\ ~panicked /\ UNCHANGED <<panicked, closed, state, pc>>
      /\ UNCHANGED <<snd, rcv, token, outbound, control, buffer, wrote, got, hand>>
      /\ UNCHANGED <<down, acks>>
  BY DEF RelayTake, lifeVars
<1>2. wire # <<>> /\ wire' = Tail(wire)
  BY DEF RelayTake
<1>3. wire \in Seq(Outgoing) /\ inbound \in Seq(Cell) /\ up \in Nat /\ credit \in Nat
  BY DEF Flow, FlowType
<1>4. /\ Head(wire) \in Outgoing /\ wire' \in Seq(Outgoing)
      /\ Head(wire) \notin Datas => Count(wire, Datas)' = Count(wire, Datas)
      /\ Head(wire) \notin SendMes => Count(wire, SendMes)' = Count(wire, SendMes)
      /\ Head(wire) \in Datas => Count(wire, Datas) = Count(wire, Datas)' + 1
      /\ Head(wire) \in SendMes => Count(wire, SendMes) = Count(wire, SendMes)' + 1
  BY <1>2, <1>3, CountRest
<1>5. Head(wire).cmd \in {"BEGIN", "DATA", "SENDME", "END"} /\ Head(wire) \in Cell
  BY <1>4, CellKinds DEF Outgoing
<1>6. closed \subseteq closed' /\ (state = "closed" => state' = "closed") /\ down' = down
  BY <1>1
<1>7. CASE Head(wire).cmd \in {"BEGIN", "END"}
  <2>1. Head(wire) \notin Datas /\ Head(wire) \notin SendMes
    BY <1>5, <1>7, CellKinds
  <2>2. /\ up' = up /\ credit' = credit /\ relay' \in {"open", "ended"}
        /\ \/ inbound' = inbound
           \/ inbound' = Append(inbound, C("CONNECTED", 0))
           \/ inbound' = Append(inbound, C("END", 0))
    BY <1>7 DEF RelayTake, ToClient
  <2>3. inbound' \in Seq(Cell) /\ UNCHANGED <<Count(inbound, Datas), Count(inbound, SendMes)>>
    <3>1. CASE inbound' = inbound
      BY <3>1, <1>3
    <3>2. ASSUME NEW cell \in Cell \ (Datas \cup SendMes), inbound' = Append(inbound, cell)
          PROVE  inbound' \in Seq(Cell) /\ UNCHANGED <<Count(inbound, Datas), Count(inbound, SendMes)>>
      BY <3>2, <1>3, CountSame
    <3>3. /\ C("CONNECTED", 0) \in Cell \ (Datas \cup SendMes)
          /\ C("END", 0) \in Cell \ (Datas \cup SendMes)
      BY CellKinds
    <3> QED BY <2>2, <3>1, <3>2, <3>3
  <2>4. FlowType'
    BY <1>1, <1>4, <2>2, <2>3 DEF Flow, FlowType
  <2>5. Hands' /\ UNCHANGED Doing
    BY <1>1 DEF Flow, Hands, Doing
  <2>6. UNCHANGED <<Counts4, Counts2, Holds>>
    BY <1>1, <1>4, <2>1, <2>3 DEF Counts4, Counts2, Holds
  <2> QED BY <1>1, <2>2, <2>4, <2>5, <2>6, FlowPlain
<1>8. CASE Head(wire).cmd = "DATA"
  <2>1. Head(wire) \in Datas /\ Head(wire) \notin SendMes
    BY <1>5, <1>8, CellKinds
  <2>2. up' = up + 1 /\ UNCHANGED <<inbound, credit, relay>>
    BY <1>8 DEF RelayTake
  <2>3. FlowType'
    BY <1>1, <1>3, <1>4, <2>2 DEF Flow, FlowType
  <2>4. Hands' /\ Opened'
    BY <1>1 DEF Flow, Hands, Opened
  <2>5. SameSums
    <3>1. Sent' = Sent
      BY <1>1, <1>4, <2>1, <2>2 DEF Sent
    <3>2. Asked' = Asked /\ Held' = Held /\ After' = After /\ Holding' = Holding
      BY <1>1, <3>1 DEF Asked, Held, After, Holding, Busy
    <3>3. Arrived' = Arrived
      BY <1>1, <2>2 DEF Arrived, Busy
    <3> QED BY <3>1, <3>2, <3>3 DEF SameSums
  <2>6. Spent' = Spent
    <3>1. One(hand["send"], Datas)' = One(hand["send"], Datas) /\ One(hand["send"], Datas) \in Int
      BY <1>1 DEF One
    <3>2. Count(wire, Datas) \in Nat /\ Count(wire, Datas)' = Count(wire, Datas) - 1
      <4>1. Count(wire, Datas) \in Nat
        BY Counts DEF Flow
      <4>2. Count(wire, Datas)' \in Nat
        BY <2>3, CountsNext
      <4> QED BY <4>1, <4>2, <1>4, <2>1
    <3> QED BY <1>3, <2>2, <3>1, <3>2 DEF Spent
  <2>7. Grants' = Grants
    BY <1>1, <2>2 DEF Grants, CtrlGrants, LoopGrants, Busy
  <2>8. Spent' + snd'.v <= Spent + snd.v /\ got' >= got /\ Grants' - acks' <= Grants - acks
    <3>1. Spent \in Nat /\ snd.v \in Int /\ got \in Nat /\ Grants \in Nat /\ acks \in Nat
      BY Measures DEF Flow
    <3> QED BY <1>1, <2>6, <2>7, <3>1
  <2> QED BY <1>1, <1>6, <2>2, <2>3, <2>4, <2>5, <2>8, FlowStep
<1>9. CASE Head(wire).cmd = "SENDME"
  <2>1. Head(wire) \in SendMes /\ Head(wire) \notin Datas
    BY <1>5, <1>9, CellKinds
  <2>2. credit' = credit + 1 /\ UNCHANGED <<inbound, up, relay>>
    BY <1>9 DEF RelayTake
  <2>3. FlowType'
    BY <1>1, <1>3, <1>4, <2>2 DEF Flow, FlowType
  <2>4. Hands' /\ Opened'
    BY <1>1 DEF Flow, Hands, Opened
  <2>5. SameSums
    <3>1. Sent' = Sent
      <4>1. /\ One(hand["send"], SendMes)' = One(hand["send"], SendMes)
            /\ One(hand["send"], SendMes) \in Int
        BY <1>1 DEF One
      <4>2. Count(wire, SendMes) \in Nat /\ Count(outbound, SendMes) \in Nat
        BY Counts DEF Flow
      <4>3. Count(wire, SendMes)' \in Nat
        BY <2>3, CountsNext
      <4>4. Count(wire, SendMes)' = Count(wire, SendMes) - 1
        BY <4>2, <4>3, <1>4, <2>1
      <4>5. Count(outbound, SendMes)' = Count(outbound, SendMes)
        BY <1>1
      <4> QED BY <1>3, <2>2, <4>1, <4>2, <4>4, <4>5 DEF Sent
    <3>2. Asked' = Asked /\ Held' = Held /\ After' = After /\ Holding' = Holding
      BY <1>1, <3>1 DEF Asked, Held, After, Holding, Busy
    <3>3. Arrived' = Arrived
      BY <1>1, <2>2 DEF Arrived, Busy
    <3> QED BY <3>1, <3>2, <3>3 DEF SameSums
  <2>6. Spent' = Spent /\ Grants' = Grants
    BY <1>1, <1>4, <2>1, <2>2 DEF Spent, Grants, CtrlGrants, LoopGrants, Busy
  <2>7. Spent' + snd'.v <= Spent + snd.v /\ got' >= got /\ Grants' - acks' <= Grants - acks
    <3>1. Spent \in Nat /\ snd.v \in Int /\ got \in Nat /\ Grants \in Nat /\ acks \in Nat
      BY Measures DEF Flow
    <3> QED BY <1>1, <2>6, <3>1
  <2> QED BY <1>1, <1>6, <2>2, <2>3, <2>4, <2>5, <2>7, FlowStep
<1> QED BY <1>5, <1>7, <1>8, <1>9

LEMMA FlowReadSome ==
  ASSUME Stage, Flow, ReadSome
  PROVE  Flow'
<1>1. /\ ~panicked /\ UNCHANGED <<panicked, closed, state>>
      /\ UNCHANGED <<snd, rcv, token, outbound, control, wire, inbound, wrote, hand>>
      /\ UNCHANGED <<up, down, acks, credit, relay>>
  BY DEF ReadSome, At, lifeVars, relayVars
<1>2. /\ pc["read"] = "read" /\ pc'["read"] = "sendme"
      /\ \A t \in Threads : t # "read" => pc'[t] = pc[t]
  BY Moved DEF ReadSome, At, Threads
<1>3. PICK k \in 1 .. Len(buffer) : buffer' = SubSeq(buffer, k + 1, Len(buffer)) /\ got' = got + k
  BY DEF ReadSome
<1>4. buffer \in Seq(Nat) /\ Len(buffer) \in Nat /\ got \in Nat /\ Len(buffer) <= BufferCap
  BY LenProperties DEF Flow, FlowType
<1> DEFINE n == Len(buffer)
           m == Len(buffer')
<1>5. buffer' \in Seq(Nat) /\ m = n - k /\ got' \in Nat /\ got' + m = got + n /\ k \in 1 .. n
  <2>1. k \in 1 .. n /\ n \in Nat /\ k + 1 \in Int
    BY <1>4
  <2>2. \A i \in k + 1 .. n : buffer[i] \in Nat
    BY <1>4, <2>1, ElementOfSeq
  <2>3. buffer' \in Seq(Nat) /\ m = IF k + 1 <= n THEN n - (k + 1) + 1 ELSE 0
    BY <1>3, <2>1, <2>2, SubSeqProperties
  <2> HIDE DEF n, m
  <2>4. m = n - k
    BY <2>1, <2>3
  <2> QED BY <1>3, <1>4, <2>1, <2>3, <2>4
<1>6. FlowType'
  <2>1. Len(buffer') <= BufferCap
    <3> HIDE DEF n, m
    <3>1. n \in Nat /\ n <= BufferCap
      BY <1>4 DEF n
    <3>2. m <= BufferCap
      BY <1>5, <3>1, StreamAssumption
    <3> QED BY <3>2 DEF m
  <2> HIDE DEF n, m
  <2> QED BY <1>1, <1>5, <2>1 DEF Flow, FlowType
<1>7. pc'["send"] = pc["send"] /\ pc'["loop"] = pc["loop"] /\ pc'["ctrl"] = pc["ctrl"]
  BY <1>2 DEF Threads
<1>8. Hands' /\ Opened'
  BY <1>1, <1>2, <1>7 DEF Flow, Hands, Opened
<1>9. SameSums
  <2>1. Sent' = Sent
    BY <1>1 DEF Sent
  <2>2. Asked' = Asked
    BY <1>2, <2>1 DEF Asked, Busy
  <2>3. After' = After /\ Holding' = Holding
    BY <1>2 DEF After, Holding, Busy, Closing
  <2>4. Arrived' = Arrived
    BY <1>1, <1>7 DEF Arrived, Busy
  <2>5. Held' = Held
    <3>1. Busy("loop", {"fill"})' = Busy("loop", {"fill"}) /\ Busy("loop", {"fill"}) \in Int
      BY <1>7 DEF Busy
    <3>2. got' + Len(buffer)' = got + Len(buffer)
      BY <1>5
    <3> QED BY <3>1, <3>2 DEF Held
  <2> QED BY <2>1, <2>2, <2>3, <2>4, <2>5 DEF SameSums
<1>10. Spent' + snd'.v <= Spent + snd.v /\ got' >= got /\ Grants' - acks' <= Grants - acks
  <2>1. Spent' = Spent /\ Grants' = Grants
    BY <1>1, <1>7 DEF Spent, Grants, CtrlGrants, LoopGrants, Busy
  <2>2. Spent \in Nat /\ snd.v \in Int /\ got \in Nat /\ Grants \in Nat /\ acks \in Nat
    BY Measures DEF Flow
  <2> QED BY <1>1, <1>3, <1>4, <2>1, <2>2
<1>11. closed \subseteq closed' /\ (state = "closed" => state' = "closed")
  BY <1>1
<1> QED BY <1>1, <1>6, <1>8, <1>9, <1>10, <1>11, FlowStep
\* The steps of one loop leave the sums of the others alone.
LEMMA ReadSumsKept ==
  ASSUME pc'["read"] = pc["read"], Sent' = Sent
  PROVE  Asked' = Asked /\ After' = After /\ Holding' = Holding
BY DEF Asked, After, Holding, Busy

LEMMA LoopSumsKept ==
  ASSUME pc'["loop"] = pc["loop"], UNCHANGED <<down, inbound, got, buffer>>
  PROVE  Arrived' = Arrived /\ Held' = Held
BY DEF Arrived, Held, Busy

LEMMA LessSum ==
  ASSUME NEW a \in Nat, NEW b \in Nat, NEW c \in Nat, NEW d \in Nat, c <= a, d <= b
  PROVE  c + d <= a + b
OBVIOUS

\* The two halves of what may still open the window.
LEMMA GrantsLess ==
  ASSUME Flow, FlowType', CtrlGrants' <= CtrlGrants, LoopGrants' = LoopGrants \/ LoopGrants' <= LoopGrants
  PROVE  Grants' <= Grants
<1>1. CtrlGrants \in Nat /\ LoopGrants \in Nat
  BY Measures DEF Flow
<1>2. CtrlGrants' \in Nat /\ LoopGrants' \in Nat
  BY MeasuresNext
<1>3. LoopGrants' <= LoopGrants
  BY <1>1
<1>4. CtrlGrants' + LoopGrants' <= CtrlGrants + LoopGrants
  BY <1>1, <1>2, <1>3, LessSum, Zenon
<1> QED BY <1>4 DEF Grants

LEMMA GrantsArith ==
  ASSUME NEW g \in Nat, NEW h \in Nat, NEW a \in Nat, NEW b, h <= g, b = a
  PROVE  h - b <= g - a
OBVIOUS

\* A step that turns no cell into another.
LEMMA FlowTurn ==
  ASSUME Flow, FlowType', Hands', Opened', ~panicked,
         UNCHANGED <<rcv, credit, down, acks, closed, state>>, got' = got,
         Spent' = Spent, snd'.v = snd.v, Grants' <= Grants, SameSums \/ LooseSums
  PROVE  Flow'
<1>1. Spent \in Nat /\ snd.v \in Int /\ got \in Nat /\ Grants \in Nat /\ acks \in Nat
  BY Measures DEF Flow
<1>2. Grants' \in Nat
  BY MeasuresNext
<1>3. Grants' - acks' <= Grants - acks
  <2>1. acks' = acks /\ Grants' <= Grants
    OBVIOUS
  <2> QED BY <1>1, <1>2, <2>1, GrantsArith, Zenon
<1>4. Spent' + snd'.v <= Spent + snd.v
  BY <1>1
<1>5. got' >= got
  BY <1>1
<1> QED BY <1>3, <1>4, <1>5, FlowStep

LEMMA FlowOpenConnected ==
  ASSUME Stage, Flow, OpenConnected
  PROVE  Flow'
<1>1. /\ ~panicked /\ UNCHANGED <<panicked, closed, state>>
      /\ UNCHANGED <<snd, rcv, token, outbound, buffer, wire, inbound, wrote, got, hand>>
      /\ UNCHANGED <<up, down, acks, credit, relay>>
  BY DEF OpenConnected, At, lifeVars, relayVars
<1>2. /\ pc'["send"] = pc["send"] /\ pc'["loop"] = pc["loop"] /\ pc'["ctrl"] = pc["ctrl"]
      /\ pc'["read"] = pc["read"]
  <2>1. Goto("open", "start") \/ Goto("open", "unlist")
    BY DEF OpenConnected
  <2> QED BY <2>1, Moved DEF Threads
<1>3. /\ control' \in Seq(Cell) /\ Len(control') <= ControlCap
      /\ Count(control, SendMes)' <= Count(control, SendMes)
  <2>1. /\ control \in Seq(Cell) /\ Len(control) \in Nat /\ Len(control) <= ControlCap
        /\ Count(control, SendMes) \in Nat /\ ControlCap \in Nat
    BY LenProperties, Counts, StreamAssumption DEF Flow, FlowType
  <2>2. CASE control' = control
    BY <2>1, <2>2
  <2>3. CASE control # <<>> /\ control' = Tail(control)
    <3>1. /\ Tail(control) \in Seq(Cell) /\ Len(Tail(control)) = Len(control) - 1
          /\ Count(Tail(control), SendMes) \in {Count(control, SendMes), Count(control, SendMes) - 1}
      <4>1. /\ Tail(control) \in Seq(Cell) /\ Len(Tail(control)) = Len(control) - 1
            /\ Head(control) \notin SendMes => Count(Tail(control), SendMes) = Count(control, SendMes)
            /\ Head(control) \in SendMes => Count(control, SendMes) = Count(Tail(control), SendMes) + 1
        BY <2>1, <2>3, CountRest
      <4>2. Count(Tail(control), SendMes) \in Nat
        BY <4>1, CountType
      <4> QED BY <4>1, <4>2
    <3> QED BY <2>1, <2>3, <3>1
  <2> QED BY <2>2, <2>3 DEF OpenConnected
<1>4. FlowType'
  BY <1>1, <1>3 DEF Flow, FlowType
<1>5. Hands' /\ Opened'
  BY <1>1, <1>2 DEF Flow, Hands, Opened
<1>6. Sent' = Sent /\ Spent' = Spent
  BY <1>1 DEF Sent, Spent
<1>7. SameSums
  BY <1>1, <1>2, <1>6, ReadSumsKept, LoopSumsKept DEF SameSums
<1>8. Grants' <= Grants
  <2>1. CtrlGrants' <= CtrlGrants
    <3>1. token \in Nat /\ Busy("ctrl", {"notify"}) \in Nat
      BY DEF Busy, Flow, FlowType
    <3>2. token' = token /\ Busy("ctrl", {"notify"})' = Busy("ctrl", {"notify"})
      BY <1>1, <1>2 DEF Busy
    <3>3. Count(control, SendMes) \in Nat /\ Count(control, SendMes)' \in Nat
      BY <1>4, Counts, CountsNext DEF Flow
    <3> QED BY <1>3, <3>1, <3>2, <3>3 DEF CtrlGrants
  <2>2. LoopGrants' = LoopGrants
    BY <1>1 DEF LoopGrants
  <2> QED BY <1>4, <2>1, <2>2, GrantsLess
<1> QED BY <1>1, <1>4, <1>5, <1>6, <1>7, <1>8, FlowTurn

\* controlLoop takes a cell from its channel.
LEMMA ControlTail ==
  ASSUME Flow, control # <<>>, control' = Tail(control)
  PROVE  /\ control' \in Seq(Cell) /\ Len(control') <= ControlCap /\ Head(control) \in Cell
         /\ Count(control, SendMes)' <= Count(control, SendMes)
         /\ Head(control) \in SendMes => Count(control, SendMes)' = Count(control, SendMes) - 1
<1>1. /\ control \in Seq(Cell) /\ Len(control) \in Nat /\ Len(control) <= ControlCap
      /\ Count(control, SendMes) \in Nat /\ ControlCap \in Nat
  BY LenProperties, Counts, StreamAssumption DEF Flow, FlowType
<1>2. /\ Tail(control) \in Seq(Cell) /\ Len(Tail(control)) = Len(control) - 1 /\ Head(control) \in Cell
      /\ Head(control) \notin SendMes => Count(Tail(control), SendMes) = Count(control, SendMes)
      /\ Head(control) \in SendMes => Count(control, SendMes) = Count(Tail(control), SendMes) + 1
  BY <1>1, CountRest
<1>3. Count(Tail(control), SendMes) \in Nat
  BY <1>2, CountType
<1>4. Len(Tail(control)) <= ControlCap
  BY <1>1, <1>2
<1>5. /\ Count(Tail(control), SendMes) <= Count(control, SendMes)
      /\ Head(control) \in SendMes => Count(Tail(control), SendMes) = Count(control, SendMes) - 1
  BY <1>1, <1>2, <1>3
<1> QED BY <1>2, <1>4, <1>5

LEMMA FlowCtrlTake ==
  ASSUME Stage, Flow, CtrlTake
  PROVE  Flow'
<1>1. /\ ~panicked /\ UNCHANGED <<panicked, closed, state>> /\ pc["ctrl"] = "take"
      /\ UNCHANGED <<rcv, token, outbound, buffer, wire, inbound, wrote, got, hand>>
      /\ UNCHANGED <<up, down, acks, credit, relay>>
      /\ control # <<>> /\ control' = Tail(control)
  BY DEF CtrlTake, At, relayVars
<1>2. /\ control' \in Seq(Cell) /\ Len(control') <= ControlCap /\ Head(control) \in Cell
      /\ Count(control, SendMes)' <= Count(control, SendMes)
      /\ Head(control) \in SendMes => Count(control, SendMes)' = Count(control, SendMes) - 1
  BY <1>1, ControlTail
<1>3. \/ Head(control).cmd = "SENDME" /\ Goto("ctrl", "notify")
      \/ Goto("ctrl", "free") \/ Goto("ctrl", "close") \/ pc' = pc
  BY DEF CtrlTake, CallClose
<1>4. /\ \/ Head(control) \in SendMes /\ pc'["ctrl"] = "notify"
         \/ pc'["ctrl"] \in {"free", "close", "take"}
      /\ pc'["send"] = pc["send"] /\ pc'["loop"] = pc["loop"] /\ pc'["read"] = pc["read"]
  <2>1. /\ pc'["ctrl"] \in {"free", "close", "take", "notify"}
        /\ pc'["send"] = pc["send"] /\ pc'["loop"] = pc["loop"] /\ pc'["read"] = pc["read"]
    BY <1>1, <1>3, Moved DEF Threads
  <2>2. pc'["ctrl"] = "notify" => Head(control).cmd = "SENDME"
    BY <1>1, <1>3, Moved DEF Threads
  <2> QED BY <1>2, <2>1, <2>2, CellKinds
<1>5. snd' \in WindowType /\ snd'.v = snd.v
  <2>1. snd \in WindowType /\ (snd' = snd \/ (HasDigest(snd) /\ snd' = AfterGet(snd)))
    BY DEF CtrlTake, Flow, FlowType
  <2> QED BY <2>1, AfterGetFacts
<1>6. FlowType'
  BY <1>1, <1>2, <1>5 DEF Flow, FlowType
<1>7. Hands' /\ Opened'
  BY <1>1, <1>4, <1>5 DEF Flow, Hands, Opened
<1>8. Sent' = Sent /\ Spent' = Spent
  BY <1>1 DEF Sent, Spent
<1>9. SameSums
  BY <1>1, <1>4, <1>8, ReadSumsKept, LoopSumsKept DEF SameSums
<1>10. CtrlGrants' <= CtrlGrants
  <2>1. token \in Nat /\ token' = token /\ Busy("ctrl", {"notify"}) = 0
    BY <1>1 DEF Busy, Flow, FlowType
  <2>2. Count(control, SendMes) \in Nat /\ Count(control, SendMes)' \in Nat
    BY <1>6, Counts, CountsNext DEF Flow
  <2>3. \/ Busy("ctrl", {"notify"})' = 0
        \/ Busy("ctrl", {"notify"})' = 1 /\ Count(control, SendMes)' = Count(control, SendMes) - 1
    BY <1>2, <1>4 DEF Busy
  <2> QED BY <1>2, <2>1, <2>2, <2>3 DEF CtrlGrants
<1>11. Grants' <= Grants
  <2>1. LoopGrants' = LoopGrants
    BY <1>1 DEF LoopGrants
  <2> QED BY <1>6, <1>10, <2>1, GrantsLess
<1> QED BY <1>1, <1>5, <1>6, <1>7, <1>8, <1>9, <1>11, FlowTurn

LEMMA FlowCtrlNotify ==
  ASSUME Stage, Flow, CtrlNotify
  PROVE  Flow'
<1>1. /\ ~panicked /\ UNCHANGED <<closed, state>> /\ pc["ctrl"] = "notify"
      /\ UNCHANGED <<snd, rcv, outbound, control, buffer, wire, inbound, wrote, got, hand>>
      /\ UNCHANGED <<up, down, acks, credit, relay>>
      /\ token' \in {token, 1}
  BY DEF CtrlNotify, At, relayVars
<1>2. /\ pc'["ctrl"] = "take"
      /\ pc'["send"] = pc["send"] /\ pc'["loop"] = pc["loop"] /\ pc'["read"] = pc["read"]
  BY Moved DEF CtrlNotify, Threads
<1>3. FlowType'
  BY <1>1 DEF Flow, FlowType
<1>4. Hands' /\ Opened'
  BY <1>1, <1>2 DEF Flow, Hands, Opened
<1>5. Sent' = Sent /\ Spent' = Spent
  BY <1>1 DEF Sent, Spent
<1>6. SameSums
  BY <1>1, <1>2, <1>5, ReadSumsKept, LoopSumsKept DEF SameSums
<1>7. CtrlGrants' <= CtrlGrants
  <2>1. token \in {0, 1} /\ Busy("ctrl", {"notify"}) = 1 /\ Busy("ctrl", {"notify"})' = 0
    BY <1>1, <1>2 DEF Busy, Flow, FlowType
  <2>2. Count(control, SendMes) \in Nat /\ Count(control, SendMes)' = Count(control, SendMes)
    BY <1>1, Counts DEF Flow
  <2> QED BY <1>1, <2>1, <2>2 DEF CtrlGrants
<1>8. Grants' <= Grants
  <2>1. LoopGrants' = LoopGrants
    BY <1>1 DEF LoopGrants
  <2> QED BY <1>3, <1>7, <2>1, GrantsLess
<1>9. snd'.v = snd.v
  BY <1>1
<1> QED BY <1>1, <1>3, <1>4, <1>5, <1>6, <1>8, <1>9, FlowTurn

LEMMA FlowSendPut ==
  ASSUME Stage, Flow, SendPut
  PROVE  Flow'
<1>1. /\ ~panicked /\ UNCHANGED <<panicked, closed, state>> /\ pc["send"] = "put"
      /\ UNCHANGED <<snd, rcv, token, outbound, control, buffer, inbound, wrote, got>>
      /\ UNCHANGED <<up, down, acks, credit, relay>>
      /\ wire' = Append(wire, hand["send"]) /\ hand' = [hand EXCEPT !["send"] = NoCell]
  BY DEF SendPut, At, lifeVars, relayVars
<1>2. /\ pc'["send"] = "take"
      /\ pc'["ctrl"] = pc["ctrl"] /\ pc'["loop"] = pc["loop"] /\ pc'["read"] = pc["read"]
  BY Moved DEF SendPut, Threads
<1>3. /\ hand'["send"] = NoCell /\ hand'["loop"] = hand["loop"] /\ hand'["read"] = hand["read"]
      /\ hand' \in [Threads -> Cell \cup {NoCell}]
  BY <1>1, Handed DEF Threads
<1>4. hand["send"] \in Outgoing /\ wire \in Seq(Outgoing)
  BY <1>1 DEF Flow, Hands, FlowType
<1>5. /\ wire' \in Seq(Outgoing)
      /\ Count(wire, Datas)' = Count(wire, Datas) + One(hand["send"], Datas)
      /\ Count(wire, SendMes)' = Count(wire, SendMes) + One(hand["send"], SendMes)
  BY <1>1, <1>4, CountAppend, AppendProperties DEF One
<1>6. FlowType'
  BY <1>1, <1>3, <1>5 DEF Flow, FlowType
<1>7. Hands' /\ Opened'
  BY <1>1, <1>2, <1>3 DEF Flow, Hands, Opened
<1>8. /\ One(hand["send"], Datas)' = 0 /\ One(hand["send"], SendMes)' = 0
      /\ One(hand["send"], Datas) \in Nat /\ One(hand["send"], SendMes) \in Nat
  BY <1>3, CellKinds DEF One
<1>9. /\ Count(wire, Datas) \in Nat /\ Count(wire, SendMes) \in Nat /\ Count(outbound, SendMes) \in Nat
      /\ up \in Nat /\ credit \in Nat
  BY Counts DEF Flow, FlowType
<1>10. Spent' = Spent
  BY <1>1, <1>5, <1>8, <1>9 DEF Spent
<1>11. Sent' = Sent
  <2>1. Count(outbound, SendMes)' = Count(outbound, SendMes) /\ credit' = credit
    BY <1>1
  <2> QED BY <1>5, <1>8, <1>9, <2>1 DEF Sent
<1>12. SameSums
  BY <1>1, <1>2, <1>11, ReadSumsKept, LoopSumsKept DEF SameSums
<1>13. Grants' <= Grants
  <2>1. Grants' = Grants
    BY <1>1, <1>2, <1>3 DEF Grants, CtrlGrants, LoopGrants, Busy
  <2>2. Grants \in Nat
    BY Measures DEF Flow
  <2> QED BY <2>1, <2>2
<1>14. snd'.v = snd.v
  BY <1>1
<1> QED BY <1>1, <1>6, <1>7, <1>10, <1>12, <1>13, <1>14, FlowTurn

\* sendController takes a cell: a DATA cell is charged to the window at once.
LEMMA FlowSendTake ==
  ASSUME Stage, Flow, SendTake
  PROVE  Flow'
<1> DEFINE cell == Head(outbound)
<1>1. /\ ~panicked /\ UNCHANGED <<closed, state>> /\ pc["send"] = "take"
      /\ UNCHANGED <<rcv, token, control, buffer, wire, inbound, wrote, got>>
      /\ UNCHANGED <<up, down, acks, credit, relay>>
      /\ outbound # <<>> /\ outbound' = Tail(outbound)
      /\ hand' = [hand EXCEPT !["send"] = cell]
  BY DEF SendTake, At, relayVars
<1>2. /\ cell \in Outgoing /\ outbound' \in Seq(Outgoing) /\ Len(outbound') <= OutboundCap
      /\ Count(outbound, SendMes) = Count(outbound, SendMes)' + One(cell, SendMes)
  <2>1. outbound \in Seq(Outgoing) /\ Len(outbound) <= OutboundCap /\ OutboundCap \in Nat
    BY StreamAssumption DEF Flow, FlowType
  <2>2. /\ cell \in Outgoing /\ Tail(outbound) \in Seq(Outgoing)
        /\ Len(Tail(outbound)) = Len(outbound) - 1 /\ Len(outbound) \in Nat
    BY <1>1, <2>1, CountRest
  <2>3. Count(outbound, SendMes) = Count(Tail(outbound), SendMes) + One(cell, SendMes)
    BY <1>1, <2>1, CountTail DEF One
  <2> HIDE DEF cell
  <2> QED BY <1>1, <2>1, <2>2, <2>3
<1>3. /\ hand'["send"] = cell /\ hand'["loop"] = hand["loop"] /\ hand'["read"] = hand["read"]
      /\ hand' \in [Threads -> Cell \cup {NoCell}]
  BY <1>1, <1>2, CellKinds, Handed DEF Threads
<1>4. snd \in WindowType /\ snd.v \in 1 .. StartValue /\ hand["send"] = NoCell
  BY <1>1, WindowAssumption DEF Flow, FlowType, Hands, Opened
<1>5. /\ pc'["send"] \in {"put", "wait"}
      /\ pc'["ctrl"] = pc["ctrl"] /\ pc'["loop"] = pc["loop"] /\ pc'["read"] = pc["read"]
  <2>1. Goto("send", "put") \/ Goto("send", "wait")
    BY DEF SendTake
  <2> QED BY <2>1, Moved DEF Threads
<1>6. Charged \in WindowType /\ Charged.v = snd.v - 1
  <2>1. SetDigest(snd, NoDigest) \in WindowType /\ SetDigest(snd, NoDigest).v = snd.v
    BY <1>4, SetDigestFacts DEF NoDigest
  <2> QED BY <2>1, SubtractOne DEF Charged
<1>7. /\ snd' \in WindowType /\ snd'.v \in 0 .. StartValue
      /\ pc'["send"] = "put" => snd'.v >= 1
      /\ pc'["send"] = "wait" /\ ~panicked' => snd'.v = 0
      /\ ~panicked' => snd'.v = snd.v - One(cell, Datas)
  <2>1. cell.cmd = "DATA" <=> cell \in Datas
    BY <1>2, CellKinds
  <2>2. CASE cell \notin Datas
    <3>1. snd' = snd /\ Goto("send", "put")
      BY <2>1, <2>2 DEF SendTake
    <3>2. pc'["send"] = "put"
      BY <3>1, Moved DEF Threads
    <3>3. One(cell, Datas) = 0
      BY <2>2 DEF One
    <3> HIDE DEF cell
    <3> QED BY <1>4, <3>1, <3>2, <3>3
  <2>3. CASE cell \in Datas
    <3>1. /\ snd' = IF panicked' THEN snd ELSE Charged
          /\ Goto("send", IF IsZero(Charged) THEN "wait" ELSE "put")
      BY <2>1, <2>3 DEF SendTake
    <3>2. pc'["send"] = IF IsZero(Charged) THEN "wait" ELSE "put"
      BY <3>1, Moved DEF Threads
    <3>3. One(cell, Datas) = 1
      BY <2>3 DEF One
    <3> HIDE DEF cell
    <3>4. CASE panicked'
      BY <1>4, <3>1, <3>2, <3>4
    <3>5. CASE ~panicked'
      <4>1. snd'.v = snd.v - 1 /\ snd' \in WindowType
        BY <1>6, <3>1, <3>5
      <4>2. pc'["send"] = "put" => ~(snd'.v <= 0)
        BY <3>1, <3>2, <3>5 DEF IsZero
      <4>3. pc'["send"] = "wait" => snd'.v <= 0
        BY <3>1, <3>2, <3>5 DEF IsZero
      <4>4. snd'.v \in 0 .. StartValue
        BY <1>4, <4>1, WindowAssumption
      <4>5. pc'["send"] = "put" => snd'.v >= 1
        BY <4>2, <4>4
      <4>6. pc'["send"] = "wait" => snd'.v = 0
        BY <4>3, <4>4
      <4>7. snd'.v = snd.v - One(cell, Datas)
        BY <3>3, <4>1
      <4> QED BY <4>1, <4>4, <4>5, <4>6, <4>7
    <3> QED BY <3>4, <3>5
  <2> QED BY <2>2, <2>3
<1> HIDE DEF cell
<1>8. FlowType'
  BY <1>1, <1>2, <1>3, <1>7 DEF Flow, FlowType
<1>9. Hands' /\ Opened'
  BY <1>1, <1>2, <1>3, <1>5, <1>7 DEF Flow, Hands, Opened
<1>10. /\ One(hand["send"], Datas) = 0 /\ One(hand["send"], SendMes) = 0
       /\ One(hand["send"], Datas)' = One(cell, Datas) /\ One(hand["send"], SendMes)' = One(cell, SendMes)
       /\ One(cell, Datas) \in Nat /\ One(cell, SendMes) \in Nat
  BY <1>3, <1>4, CellKinds DEF One
<1>11. /\ Count(wire, Datas) \in Nat /\ Count(wire, SendMes) \in Nat /\ Count(outbound, SendMes) \in Nat
       /\ up \in Nat /\ credit \in Nat /\ Count(outbound, SendMes)' \in Nat
  BY <1>8, Counts, CountsNext DEF Flow, FlowType
<1>12. ~panicked' => Spent' + snd'.v <= Spent + snd.v
  <2>1. Spent' = up + Count(wire, Datas) + One(cell, Datas) /\ Spent = up + Count(wire, Datas)
    BY <1>1, <1>10, <1>11 DEF Spent
  <2> QED BY <1>4, <1>7, <1>10, <1>11, <2>1
<1>13. Sent' = Sent
  BY <1>1, <1>2, <1>10, <1>11 DEF Sent
<1>14. SameSums
  BY <1>1, <1>5, <1>13, ReadSumsKept, LoopSumsKept DEF SameSums
<1>15. Grants' - acks' <= Grants - acks
  <2>1. Grants' = Grants
    BY <1>1, <1>3, <1>5 DEF Grants, CtrlGrants, LoopGrants, Busy
  <2>2. Grants \in Nat /\ acks \in Nat
    BY Measures DEF Flow
  <2> QED BY <1>1, <2>1, <2>2
<1>16. got' >= got
  BY <1>1 DEF Flow, FlowType
<1>17. closed \subseteq closed' /\ (state = "closed" => state' = "closed")
  BY <1>1
<1> QED BY <1>1, <1>8, <1>9, <1>12, <1>14, <1>15, <1>16, <1>17, FlowStep

\* One acknowledgement opens an empty window, which it cannot overfill.
LEMMA AddBelowStart == AddValue <= StartValue /\ AddValue \in Nat /\ StartValue \in Nat
<1> DEFINE q == StartValue \div AddValue
<1>1. AddValue \in Nat \ {0} /\ StartValue \in Nat \ {0} /\ StartValue % AddValue = 0
  BY WindowAssumption
<1>2. q \in Int /\ StartValue = AddValue * q
  BY <1>1, DivMod
<1> HIDE DEF q
<1>3. q >= 1
  <2> SUFFICES ASSUME q <= 0 PROVE FALSE
    BY <1>2
  <2>1. AddValue * q <= AddValue * 0
    BY <1>1, <1>2, MulMono
  <2> QED BY <1>1, <1>2, <2>1
<1>4. AddValue * 1 <= AddValue * q
  BY <1>1, <1>2, <1>3, MulMono
<1> QED BY <1>1, <1>2, <1>4

LEMMA OpenOne ==
  ASSUME NEW a \in Nat, NEW x \in Int, NEW g \in Int, NEW s \in Int, x + 0 + a * g <= s
  PROVE  x + a + a * (g - 1) <= s
<1>1. a * (g - 1) = (a * g) - a /\ a * g \in Int
  OBVIOUS
<1> QED BY <1>1

LEMMA FlowSendRestore ==
  ASSUME Stage, Flow, SendRestore
  PROVE  Flow'
<1>1. /\ ~panicked /\ UNCHANGED <<closed, state, panicked>> /\ pc["send"] = "wait"
      /\ UNCHANGED <<rcv, outbound, control, buffer, wire, inbound, wrote, got, hand>>
      /\ UNCHANGED <<up, down, acks, credit, relay>>
      /\ token' = 0 /\ snd' = Increase(snd) /\ (token = 1 \/ "token" \in closed)
  BY DEF SendRestore, At, lifeVars, relayVars
<1>2. /\ pc'["send"] = "put"
      /\ pc'["ctrl"] = pc["ctrl"] /\ pc'["loop"] = pc["loop"] /\ pc'["read"] = pc["read"]
  BY Moved DEF SendRestore, Threads
<1>3. snd \in WindowType /\ snd.v = 0
  BY <1>1 DEF Flow, FlowType, Opened
<1>4. snd' \in WindowType /\ snd'.v = AddValue /\ snd'.v \in 1 .. StartValue
  <2>1. snd' \in WindowType /\ snd'.v = snd.v + AddValue
    BY <1>1, <1>3, IncreaseFacts
  <2> QED BY <1>3, <2>1, AddBelowStart, WindowAssumption
<1>5. FlowType'
  BY <1>1, <1>4 DEF Flow, FlowType
<1>6. Hands'
  BY <1>1, <1>2 DEF Flow, Hands
<1>7. Opened'
  <2>1. snd'.v >= 1 /\ snd'.v \in 0 .. StartValue
    BY <1>4
  <2> QED BY <1>2, <2>1 DEF Opened
<1>8. Sent' = Sent /\ Spent' = Spent
  BY <1>1 DEF Sent, Spent
<1>9. SameSums
  BY <1>1, <1>2, <1>8, ReadSumsKept, LoopSumsKept DEF SameSums
<1>10. Credit'
  <2> SUFFICES ASSUME ~panicked', "token" \notin closed'
               PROVE  Spent' + snd'.v + AddValue * Grants' <= StartValue + AddValue * acks'
    BY DEF Credit
  <2>1. token = 1
    BY <1>1
  <2>2. Grants' = Grants - 1
    <3>1. CtrlGrants' = CtrlGrants - 1
      <4>1. Busy("ctrl", {"notify"})' = Busy("ctrl", {"notify"}) /\ Busy("ctrl", {"notify"}) \in Nat
        BY <1>2 DEF Busy
      <4>2. Count(control, SendMes)' = Count(control, SendMes) /\ Count(control, SendMes) \in Nat
        BY <1>1, Counts DEF Flow
      <4> QED BY <1>1, <2>1, <4>1, <4>2 DEF CtrlGrants
    <3>2. LoopGrants' = LoopGrants
      BY <1>1 DEF LoopGrants
    <3>3. CtrlGrants \in Nat /\ LoopGrants \in Nat
      BY Measures DEF Flow
    <3> QED BY <3>1, <3>2, <3>3 DEF Grants
  <2>3. Spent + 0 + AddValue * Grants <= StartValue + AddValue * acks
    BY <1>1, <1>3 DEF Flow, Credit
  <2>4. Spent \in Int /\ Grants \in Int /\ StartValue + AddValue * acks \in Int /\ AddValue \in Nat
    <3>1. Spent \in Nat /\ Grants \in Nat /\ acks \in Nat
      BY Measures DEF Flow
    <3> QED BY <3>1, AddBelowStart
  <2>5. Spent + AddValue + AddValue * (Grants - 1) <= StartValue + AddValue * acks
    BY <2>3, <2>4, OpenOne, Zenon
  <2> QED BY <1>1, <1>4, <1>8, <2>2, <2>5
<1>11. Received'
  <2>1. got' >= got /\ credit' \in {credit, credit + 1} /\ down' = down
    BY <1>1 DEF Flow, FlowType
  <2>2. closed \subseteq closed' /\ (state = "closed" => state' = "closed") /\ rcv' = rcv
    BY <1>1
  <2> QED BY <1>5, <1>9, <2>1, <2>2, LooseStep
<1> QED BY <1>5, <1>6, <1>7, <1>10, <1>11 DEF Flow

\* What readloop hands on to controlLoop may still open the window.
LEMMA GrantsShift ==
  ASSUME NEW c \in Nat, NEW l \in Nat, NEW d \in Nat, NEW m \in Nat, NEW h \in Nat,
         d <= c + h, l = m + h
  PROVE  d + m <= c + l
OBVIOUS

LEMMA FlowLoopControl ==
  ASSUME Stage, Flow, LoopControl
  PROVE  Flow'
<1>1. /\ ~panicked /\ UNCHANGED <<closed, state, panicked>> /\ pc["loop"] = "put"
      /\ UNCHANGED <<snd, rcv, token, outbound, buffer, wire, inbound, wrote, got>>
      /\ UNCHANGED <<up, down, acks, credit, relay>>
      /\ hand' = [hand EXCEPT !["loop"] = NoCell]
  BY DEF LoopControl, At, lifeVars, relayVars
<1>2. /\ pc'["loop"] = "take"
      /\ pc'["ctrl"] = pc["ctrl"] /\ pc'["send"] = pc["send"] /\ pc'["read"] = pc["read"]
  BY Moved DEF LoopControl, Threads
<1>3. /\ hand'["loop"] = NoCell /\ hand'["send"] = hand["send"] /\ hand'["read"] = hand["read"]
      /\ hand' \in [Threads -> Cell \cup {NoCell}]
  BY <1>1, Handed DEF Threads
<1>4. hand["loop"] \in Cell /\ control \in Seq(Cell) /\ Len(control) <= ControlCap
  BY <1>1 DEF Flow, Hands, FlowType
<1>5. /\ control' \in Seq(Cell) /\ Len(control') <= ControlCap
      /\ Count(control, SendMes)' <= Count(control, SendMes) + One(hand["loop"], SendMes)
  <2>1. Count(control, SendMes) \in Nat /\ One(hand["loop"], SendMes) \in Nat
    BY Counts DEF One, Flow
  <2>2. CASE control' = control
    BY <1>4, <2>1, <2>2
  <2>3. CASE Len(control) < ControlCap /\ control' = Append(control, hand["loop"])
    <3>1. /\ Append(control, hand["loop"]) \in Seq(Cell) /\ Len(control) \in Nat
          /\ Len(Append(control, hand["loop"])) = Len(control) + 1
      BY <1>4, AppendProperties, LenProperties
    <3>2. Count(control, SendMes)' = Count(control, SendMes) + One(hand["loop"], SendMes)
      BY <1>4, <2>3, CountAppend DEF One
    <3>3. Len(control') <= ControlCap
      BY <2>3, <3>1, StreamAssumption
    <3> QED BY <2>1, <2>3, <3>1, <3>2, <3>3
  <2> QED BY <2>2, <2>3 DEF LoopControl
<1>6. FlowType'
  BY <1>1, <1>3, <1>5 DEF Flow, FlowType
<1>7. Hands' /\ Opened'
  BY <1>1, <1>2, <1>3 DEF Flow, Hands, Opened
<1>8. Sent' = Sent /\ Spent' = Spent
  BY <1>1, <1>3 DEF Sent, Spent
<1>9. SameSums
  <2>1. Arrived' = Arrived /\ Held' = Held
    BY <1>1, <1>2 DEF Arrived, Held, Busy
  <2> QED BY <1>2, <1>8, <2>1, ReadSumsKept DEF SameSums
<1>10. Grants' <= Grants
  <2>1. CtrlGrants \in Nat /\ LoopGrants \in Nat /\ CtrlGrants' \in Nat /\ LoopGrants' \in Nat
    BY <1>6, Measures, MeasuresNext DEF Flow
  <2>2. One(hand["loop"], SendMes) \in Nat /\ One(hand["loop"], SendMes)' = 0
    BY <1>3, CellKinds DEF One
  <2>3. CtrlGrants' <= CtrlGrants + One(hand["loop"], SendMes)
    <3>1. Busy("ctrl", {"notify"})' = Busy("ctrl", {"notify"}) /\ Busy("ctrl", {"notify"}) \in Nat
      BY <1>2 DEF Busy
    <3>2. Count(control, SendMes)' \in Nat /\ Count(control, SendMes) \in Nat
      BY <1>6, Counts, CountsNext DEF Flow
    <3>3. token' = token /\ token \in Nat
      BY <1>1 DEF Flow, FlowType
    <3> QED BY <1>5, <2>2, <3>1, <3>2, <3>3 DEF CtrlGrants
  <2>4. LoopGrants = LoopGrants' + One(hand["loop"], SendMes)
    <3>1. Count(inbound, SendMes)' = Count(inbound, SendMes) /\ Count(inbound, SendMes) \in Nat
      BY <1>1, Counts DEF Flow
    <3> QED BY <2>2, <3>1 DEF LoopGrants
  <2>5. CtrlGrants' + LoopGrants' <= CtrlGrants + LoopGrants
    BY <2>1, <2>2, <2>3, <2>4, GrantsShift, Zenon
  <2> QED BY <2>5 DEF Grants
<1>11. snd'.v = snd.v
  BY <1>1
<1> QED BY <1>1, <1>6, <1>7, <1>8, <1>9, <1>10, <1>11, FlowTurn

LEMMA FlowLoopTake ==
  ASSUME Stage, Flow, LoopTake
  PROVE  Flow'
<1> DEFINE cell == Head(inbound)
<1>1. /\ ~panicked /\ UNCHANGED <<closed, state, panicked>> /\ pc["loop"] = "take"
      /\ UNCHANGED <<snd, rcv, token, outbound, control, buffer, wire, wrote, got>>
      /\ UNCHANGED <<up, down, acks, credit, relay>>
      /\ inbound # <<>> /\ inbound' = Tail(inbound)
      /\ \/ /\ hand' = [hand EXCEPT !["loop"] = cell]
            /\ Goto("loop", IF cell.cmd = "DATA" THEN "deliver" ELSE "put")
         \/ UNCHANGED <<hand, pc>>
  BY DEF LoopTake, At, lifeVars, relayVars
<1>2. /\ cell \in Cell /\ inbound' \in Seq(Cell)
      /\ Count(inbound, SendMes) = Count(inbound, SendMes)' + One(cell, SendMes)
      /\ Count(inbound, Datas) = Count(inbound, Datas)' + One(cell, Datas)
  <2>1. inbound \in Seq(Cell)
    BY DEF Flow, FlowType
  <2>2. cell \in Cell /\ Tail(inbound) \in Seq(Cell)
    BY <1>1, <2>1, HeadTailProperties
  <2>3. /\ Count(inbound, SendMes) = Count(Tail(inbound), SendMes) + One(cell, SendMes)
        /\ Count(inbound, Datas) = Count(Tail(inbound), Datas) + One(cell, Datas)
    BY <1>1, <2>1, CountTail DEF One
  <2> HIDE DEF cell
  <2> QED BY <1>1, <2>2, <2>3
<1> HIDE DEF cell
<1>3. /\ \/ hand'["loop"] = cell /\ pc'["loop"] = (IF cell \in Datas THEN "deliver" ELSE "put")
         \/ hand'["loop"] = hand["loop"] /\ pc'["loop"] = "take"
      /\ pc'["ctrl"] = pc["ctrl"] /\ pc'["send"] = pc["send"] /\ pc'["read"] = pc["read"]
      /\ hand'["send"] = hand["send"] /\ hand'["read"] = hand["read"]
      /\ hand' \in [Threads -> Cell \cup {NoCell}]
  <2>1. cell.cmd = "DATA" <=> cell \in Datas
    BY <1>2, CellKinds
  <2>2. CASE UNCHANGED <<hand, pc>>
    BY <1>1, <2>2 DEF Flow, FlowType
  <2>3. CASE /\ hand' = [hand EXCEPT !["loop"] = cell]
             /\ Goto("loop", IF cell.cmd = "DATA" THEN "deliver" ELSE "put")
    <3>1. /\ hand'["loop"] = cell /\ hand'["send"] = hand["send"] /\ hand'["read"] = hand["read"]
          /\ hand' \in [Threads -> Cell \cup {NoCell}]
      BY <1>2, <2>3, Handed DEF Threads
    <3>2. /\ pc'["loop"] = (IF cell \in Datas THEN "deliver" ELSE "put")
          /\ pc'["ctrl"] = pc["ctrl"] /\ pc'["send"] = pc["send"] /\ pc'["read"] = pc["read"]
      BY <2>1, <2>3, Moved DEF Threads
    <3> QED BY <3>1, <3>2
  <2> QED BY <1>1, <2>2, <2>3
<1>4. FlowType'
  BY <1>1, <1>2, <1>3 DEF Flow, FlowType
<1>5. Hands' /\ Opened'
  BY <1>1, <1>2, <1>3 DEF Flow, Hands, Opened
<1>6. Sent' = Sent /\ Spent' = Spent
  BY <1>1, <1>3 DEF Sent, Spent
<1>7. /\ Count(inbound, SendMes) \in Nat /\ Count(inbound, SendMes)' \in Nat
      /\ Count(inbound, Datas) \in Nat /\ Count(inbound, Datas)' \in Nat
      /\ One(cell, SendMes) \in Nat /\ One(cell, Datas) \in Nat
  BY <1>4, Counts, CountsNext DEF Flow, One
<1>8. LooseSums
  <2>1. Held' = Held
    BY <1>1, <1>3 DEF Held, Busy
  <2>2. Arrived' >= Arrived
    <3>1. Busy("loop", {"deliver"}) = 0 /\ down' = down /\ down \in Nat
      BY <1>1 DEF Busy, Flow, FlowType
    <3>2. Busy("loop", {"deliver"})' \in Nat /\ Busy("loop", {"deliver"})' <= One(cell, Datas)
      BY <1>3 DEF Busy, One
    <3> QED BY <1>2, <1>7, <3>1, <3>2 DEF Arrived
  <2> QED BY <1>3, <1>6, <2>1, <2>2, ReadSumsKept DEF LooseSums
<1>9. Grants' <= Grants
  <2>1. CtrlGrants' = CtrlGrants
    BY <1>1, <1>3 DEF CtrlGrants, Busy
  <2>2. LoopGrants' <= LoopGrants
    <3>1. \/ One(hand["loop"], SendMes)' = One(cell, SendMes)
          \/ One(hand["loop"], SendMes)' = One(hand["loop"], SendMes)
      BY <1>3 DEF One
    <3>2. One(hand["loop"], SendMes) \in Nat
      BY DEF One
    <3> QED BY <1>2, <1>7, <3>1, <3>2 DEF LoopGrants
  <2>3. CtrlGrants' <= CtrlGrants
    <3>1. CtrlGrants \in Nat
      BY Measures DEF Flow
    <3> QED BY <2>1, <3>1
  <2> QED BY <1>4, <2>2, <2>3, GrantsLess
<1>10. snd'.v = snd.v
  BY <1>1
<1> QED BY <1>1, <1>4, <1>5, <1>6, <1>8, <1>9, <1>10, FlowTurn

LEMMA FlowLoopFill ==
  ASSUME Stage, Flow, LoopFill
  PROVE  Flow'
<1>1. /\ ~panicked /\ UNCHANGED <<closed, state, panicked>> /\ pc["loop"] = "fill"
      /\ UNCHANGED <<snd, rcv, token, outbound, control, inbound, wire, wrote, got>>
      /\ UNCHANGED <<up, down, acks, credit, relay>>
      /\ hand' = [hand EXCEPT !["loop"] = NoCell]
      /\ \/ "buffer" \in closed /\ buffer' = buffer
         \/ Len(buffer) < BufferCap /\ buffer' = Append(buffer, hand["loop"].n)
  BY DEF LoopFill, At, lifeVars, relayVars
<1>2. /\ pc'["loop"] \in {"take", "close"}
      /\ pc'["ctrl"] = pc["ctrl"] /\ pc'["send"] = pc["send"] /\ pc'["read"] = pc["read"]
  <2>1. Goto("loop", "take") \/ Goto("loop", "close")
    BY DEF LoopFill, CallClose
  <2> QED BY <2>1, Moved DEF Threads
<1>3. /\ hand'["loop"] = NoCell /\ hand'["send"] = hand["send"] /\ hand'["read"] = hand["read"]
      /\ hand' \in [Threads -> Cell \cup {NoCell}]
  BY <1>1, Handed DEF Threads
<1>4. /\ hand["loop"] \in Datas /\ hand["loop"].n \in Nat /\ buffer \in Seq(Nat)
      /\ Len(buffer) <= BufferCap /\ Len(buffer) \in Nat /\ BufferCap \in Nat
  BY <1>1, CellKinds, LenProperties, StreamAssumption DEF Flow, Hands, FlowType
<1>5. /\ buffer' \in Seq(Nat) /\ Len(buffer') <= BufferCap
      /\ \/ Len(buffer)' = Len(buffer) + 1
         \/ Len(buffer)' = Len(buffer) /\ state' = "closed"
  <2>1. CASE "buffer" \in closed /\ buffer' = buffer
    <3>1. state = "closed"
      BY <2>1 DEF Stage, ClosedFirst
    <3> QED BY <1>1, <1>4, <2>1, <3>1
  <2>2. CASE Len(buffer) < BufferCap /\ buffer' = Append(buffer, hand["loop"].n)
    <3>1. /\ Append(buffer, hand["loop"].n) \in Seq(Nat)
          /\ Len(Append(buffer, hand["loop"].n)) = Len(buffer) + 1
      BY <1>4, AppendProperties
    <3> QED BY <1>4, <2>2, <3>1
  <2> QED BY <1>1, <2>1, <2>2
<1>6. FlowType'
  BY <1>1, <1>3, <1>5 DEF Flow, FlowType
<1>7. Hands' /\ Opened'
  BY <1>1, <1>2, <1>3 DEF Flow, Hands, Opened
<1>8. Sent' = Sent /\ Spent' = Spent
  BY <1>1, <1>3 DEF Sent, Spent
<1>9. LooseSums
  <2>1. Held' = Held \/ (state' = "closed" /\ Held' <= Held)
    <3>1. Busy("loop", {"fill"}) = 1 /\ Busy("loop", {"fill"})' = 0
      BY <1>1, <1>2 DEF Busy
    <3>2. got' = got /\ got \in Nat
      BY <1>1 DEF Flow, FlowType
    <3> QED BY <1>4, <1>5, <3>1, <3>2 DEF Held
  <2>2. Arrived' = Arrived
    BY <1>1, <1>2 DEF Arrived, Busy
  <2>3. Arrived \in Int
    BY Measures DEF Flow
  <2>4. Arrived' >= Arrived
    BY <2>2, <2>3
  <2> QED BY <1>2, <1>8, <2>1, <2>4, ReadSumsKept DEF LooseSums
<1>10. Grants' <= Grants
  <2>1. One(hand["loop"], SendMes) = 0 /\ One(hand["loop"], SendMes)' = 0
    BY <1>3, <1>4, CellKinds DEF One
  <2>2. Grants' = Grants
    BY <1>1, <1>2, <2>1 DEF Grants, CtrlGrants, LoopGrants, Busy
  <2>3. Grants \in Nat
    BY Measures DEF Flow
  <2> QED BY <2>2, <2>3
<1>11. snd'.v = snd.v
  BY <1>1
<1> QED BY <1>1, <1>6, <1>7, <1>8, <1>9, <1>10, <1>11, FlowTurn
-----------------------------------------------------------------------------
(* The steps that move the receive window                                  *)

\* Nothing changes on the way out.
LEMMA FlowReceives ==
  ASSUME Flow, FlowType', Hands', Opened', Received', ~panicked, UNCHANGED <<closed, acks, snd>>,
         Spent' = Spent, Grants' = Grants
  PROVE  Flow'
<1>1. Spent \in Nat /\ snd.v \in Int /\ Grants \in Nat /\ acks \in Nat
  BY Measures DEF Flow
<1>2. Spent' + snd'.v <= Spent + snd.v /\ Grants' - acks' <= Grants - acks
  BY <1>1
<1>3. closed \subseteq closed'
  OBVIOUS
<1>4. Credit'
  BY <1>2, <1>3, CreditStep DEF Flow
<1> QED BY <1>4 DEF Flow

\* Where the window stands after one cell.
LEMMA ChargeOne ==
  ASSUME NEW w \in WindowType, NEW d \in Nat, NEW x, x = Subtract(SetDigest(w, d), 1)
  PROVE  /\ x \in WindowType /\ x.v = w.v - 1
         /\ AddValue * Len(x.trigged) + Since(x.v) <= AddValue * Len(w.trigged) + Since(w.v) + 1
<1> DEFINE u == SetDigest(w, d)
<1>1. u \in WindowType /\ u.v = w.v /\ u.trigged = w.trigged
  BY SetDigestFacts
<1>2. /\ x \in WindowType /\ x.v = w.v - 1
      /\ x.trigged = IF Phase(w.v - 1) = 0 /\ Len(w.trigged) < Capacity
                       THEN Append(w.trigged, u.digest) ELSE w.trigged
  <2> HIDE DEF u
  <2>1. x = Subtract(u, 1)
    BY DEF u
  <2> QED BY <1>1, <2>1, SubtractOne
<1>3. w.v \in Int /\ w.trigged \in Seq(Nat) /\ Len(w.trigged) \in Nat /\ u.digest \in Nat
  BY <1>1, WindowV, LenProperties
<1>4. AddValue \in Nat \ {0}
  BY WindowAssumption
<1> HIDE DEF u
<1>5. CASE Phase(w.v - 1) = 0
  <2>1. Since(w.v - 1) = 0 /\ Since(w.v) = AddValue - 1
    BY <1>3, <1>5, SinceDecrease
  <2>2. Len(x.trigged) \in Int /\ Len(x.trigged) <= Len(w.trigged) + 1
    <3>1. Len(Append(w.trigged, u.digest)) = Len(w.trigged) + 1
      BY <1>3, AppendProperties
    <3>2. x.trigged = Append(w.trigged, u.digest) \/ x.trigged = w.trigged
      BY <1>2
    <3>3. Len(x.trigged) \in {Len(w.trigged), Len(w.trigged) + 1}
      BY <3>1, <3>2
    <3> QED BY <1>3, <3>3
  <2>3. AddValue * Len(x.trigged) <= AddValue * (Len(w.trigged) + 1)
    BY <1>3, <1>4, <2>2, MulMono
  <2>4. AddValue * (Len(w.trigged) + 1) = AddValue * Len(w.trigged) + AddValue
    BY <1>3, <1>4
  <2>5. AddValue * Len(x.trigged) \in Int /\ AddValue * Len(w.trigged) \in Int
    BY <1>3, <1>4, <2>2
  <2> QED BY <1>2, <1>4, <2>1, <2>3, <2>4, <2>5
<1>6. CASE Phase(w.v - 1) # 0
  <2>1. Since(w.v - 1) = Since(w.v) + 1
    BY <1>3, <1>6, SinceDecrease
  <2>2. Since(w.v) \in 0 .. (AddValue - 1)
    BY <1>3, SinceFacts
  <2>3. AddValue * Len(w.trigged) \in Int
    BY <1>3, <1>4
  <2> QED BY <1>2, <1>4, <1>6, <2>1, <2>2, <2>3
<1> QED BY <1>2, <1>5, <1>6

\* An amount n of AddValue cells more, where l of them and a rest r become m and t.
LEMMA ShiftSum ==
  ASSUME NEW a \in Nat, NEW n \in Int, NEW l \in Int, NEW m \in Int, NEW r \in Int, NEW t \in Int,
         a * m + t <= a * l + r + 1
  PROVE  /\ \A x \in Int : a * (n + l) + r <= x => a * (n + m) + t <= x + 1
         /\ \A v \in Int, s \in Int : v + a * (l + n) + r <= s => v - 1 + a * (m + n) + t <= s
<1>1. /\ a * (n + l) = (a * n) + (a * l) /\ a * (n + m) = (a * n) + (a * m)
      /\ a * (l + n) = (a * n) + (a * l) /\ a * (m + n) = (a * n) + (a * m)
  OBVIOUS
<1>2. a * n \in Int /\ a * l \in Int /\ a * m \in Int
  OBVIOUS
<1> QED BY <1>1, <1>2

LEMMA PlusOne == ASSUME NEW x \in Int, NEW y \in Int, x <= y
                PROVE  x + 1 <= y + 1 /\ x + 1 >= x /\ y + 1 >= y
OBVIOUS

LEMMA FlowLoopCharge ==
  ASSUME Stage, Flow, LoopCharge
  PROVE  Flow'
<1>1. /\ ~panicked /\ UNCHANGED <<closed, state>> /\ pc["loop"] = "deliver"
      /\ UNCHANGED <<snd, token, outbound, control, buffer, inbound, wire, wrote, got, hand>>
      /\ UNCHANGED <<up, down, acks, credit, relay>>
      /\ panicked' = Panics("rcv", rcv)
      /\ rcv' = IF panicked' THEN rcv ELSE Subtract(SetDigest(rcv, hand["loop"].n), 1)
  BY DEF LoopCharge, At, relayVars
<1>2. /\ pc'["loop"] = "fill"
      /\ pc'["ctrl"] = pc["ctrl"] /\ pc'["send"] = pc["send"] /\ pc'["read"] = pc["read"]
  BY Moved DEF LoopCharge, Threads
<1>3. rcv \in WindowType /\ hand["loop"] \in Datas /\ hand["loop"].n \in Nat
  BY <1>1, CellKinds DEF Flow, FlowType, Hands
<1>4. rcv' \in WindowType
  BY <1>1, <1>3, ChargeOne
<1>5. FlowType'
  BY <1>1, <1>4 DEF Flow, FlowType
<1>6. Hands' /\ Opened'
  BY <1>1, <1>2 DEF Flow, Hands, Opened
<1>7. Sent' = Sent /\ Spent' = Spent
  BY <1>1 DEF Sent, Spent
<1>8. Asked' = Asked /\ After' = After /\ Holding' = Holding
  BY <1>2, <1>7, ReadSumsKept
<1>9. Grants' = Grants
  BY <1>1, <1>2 DEF Grants, CtrlGrants, LoopGrants, Busy
<1>10. Arrived' = Arrived + 1 /\ Held' = Held + 1
  <2>1. /\ Busy("loop", {"deliver"}) = 1 /\ Busy("loop", {"deliver"})' = 0
        /\ Busy("loop", {"fill"}) = 0 /\ Busy("loop", {"fill"})' = 1
    BY <1>1, <1>2 DEF Busy
  <2>2. Count(inbound, Datas) \in Nat /\ Len(buffer) \in Nat /\ down \in Nat /\ got \in Nat
    BY Counts DEF Flow, FlowType
  <2>3. UNCHANGED <<Count(inbound, Datas), Len(buffer), down, got>>
    BY <1>1
  <2> QED BY <2>1, <2>2, <2>3 DEF Arrived, Held
<1>11. /\ Sent \in Int /\ Asked \in Int /\ Held \in Int /\ Arrived \in Int
       /\ Holding \in Int /\ rcv.v \in Int
       /\ Len(rcv.trigged) \in Int /\ Since(rcv.v) \in Int /\ got \in Int /\ credit \in Int
       /\ Len(rcv.trigged)' \in Int /\ Since(rcv.v)' \in Int
  BY <1>5, Measures, MeasuresNext DEF Flow
<1>12. Held' <= Arrived' /\ Held' >= Held /\ Arrived' >= Arrived
  <2>1. Held <= Arrived
    BY DEF Flow, Received, Fetched
  <2>2. Held + 1 <= Arrived + 1 /\ Held + 1 >= Held /\ Arrived + 1 >= Arrived
    BY <1>11, <2>1, PlusOne, Zenon
  <2> QED BY <1>10, <2>2
<1>13. Received'
  <2>1. CASE panicked'
    <3>1. rcv' = rcv /\ closed \subseteq closed' /\ (state = "closed" => state' = "closed") /\ down' = down
      BY <1>1, <2>1
    <3>2. got' >= got /\ credit' >= credit /\ Sent' <= Sent /\ Asked' <= Asked
      BY <1>1, <1>7, <1>8, <1>11
    <3>3. After' >= After /\ Holding' <= Holding
      BY <1>8 DEF After, Holding, Busy
    <3> QED BY <1>5, <1>12, <3>1, <3>2, <3>3, ReceivedStep DEF Flow
  <2>2. CASE ~panicked'
    <3> DEFINE l == Len(rcv.trigged)
               m == Len(rcv'.trigged)
               r == Since(rcv.v)
               t == Since(rcv'.v)
    <3>1. /\ rcv'.v = rcv.v - 1 /\ AddValue * m + t <= AddValue * l + r + 1
      BY <1>1, <1>3, <2>2, ChargeOne
    <3>2. l \in Int /\ m \in Int /\ r \in Int /\ t \in Int /\ AddValue \in Nat
      BY <1>11, WindowAssumption
    <3>3. Floor'
      <4>1. StartValue + AddValue * Sent <= rcv.v + Arrived + AddValue * After
        BY DEF Flow, Received, Floor
      <4>2. rcv'.v + Arrived' = rcv.v + Arrived
        BY <1>10, <1>11, <3>1
      <4> QED BY <1>7, <1>8, <4>1, <4>2 DEF Floor
    <3>4. Ceiling'
      <4> SUFFICES ASSUME "rcv" \notin closed'
                   PROVE  rcv'.v + AddValue * (m + Holding') + t <= StartValue
        BY DEF Ceiling
      <4>1. rcv.v + AddValue * (l + Holding) + r <= StartValue
        BY <1>1 DEF Flow, Received, Ceiling
      <4> HIDE DEF l, m, r, t
      <4>2. rcv.v - 1 + AddValue * (m + Holding) + t <= StartValue
        <5>1. StartValue \in Int
          BY WindowAssumption
        <5> QED BY <1>11, <3>1, <3>2, <4>1, <5>1, ShiftSum, Zenon
      <4> QED BY <1>8, <3>1, <4>2
    <3>5. Digests'
      <4> SUFFICES ASSUME state' # "closed"
                   PROVE  AddValue * (Asked' + m) + t <= Held'
        BY DEF Digests
      <4>1. AddValue * (Asked + l) + r <= Held
        BY <1>1 DEF Flow, Received, Digests
      <4> HIDE DEF l, m, r, t
      <4>2. AddValue * (Asked + m) + t <= Held + 1
        BY <1>11, <3>1, <3>2, <4>1, ShiftSum, Zenon
      <4> QED BY <1>8, <1>10, <4>2
    <3>6. Asking' /\ Credited'
      BY <1>1, <1>8 DEF Flow, Received, Asking, Credited
    <3> QED BY <1>12, <3>3, <3>4, <3>5, <3>6 DEF Received, Fetched
  <2> QED BY <2>1, <2>2
<1>14. closed \subseteq closed' /\ ~panicked
  BY <1>1
<1> QED BY <1>1, <1>5, <1>6, <1>7, <1>9, <1>13, <1>14, FlowReceives

\* Read leaves alone what the loops have in hand.
LEMMA ReadLeaves ==
  ASSUME pc'["send"] = pc["send"], pc'["loop"] = pc["loop"], pc'["ctrl"] = pc["ctrl"],
         hand'["send"] = hand["send"], hand'["loop"] = hand["loop"],
         UNCHANGED <<up, token, control, wire, inbound, down, got, buffer>>
  PROVE  Spent' = Spent /\ Grants' = Grants /\ Arrived' = Arrived /\ Held' = Held
<1>1. Spent' = Spent
  BY DEF Spent
<1>2. Grants' = Grants
  BY DEF Grants, CtrlGrants, LoopGrants, Busy
<1>3. Arrived' = Arrived /\ Held' = Held
  BY DEF Arrived, Held, Busy
<1> QED BY <1>1, <1>2, <1>3

\* The digest taken from the window.
LEMMA TakeOne ==
  ASSUME NEW w \in WindowType, HasDigest(w)
  PROVE  /\ AfterGet(w) \in WindowType /\ AfterGet(w).v = w.v /\ TakenDigest(w) \in Nat
         /\ Len(AfterGet(w).trigged) = Len(w.trigged) - 1 /\ Len(w.trigged) >= 1
<1>1. w.trigged \in Seq(Nat) /\ w.trigged # <<>>
  BY WindowV DEF HasDigest
<1>2. AfterGet(w) \in WindowType /\ AfterGet(w).v = w.v /\ AfterGet(w).trigged = Tail(w.trigged)
  BY AfterGetFacts
<1>3. Head(w.trigged) \in Nat /\ Len(Tail(w.trigged)) = Len(w.trigged) - 1 /\ Len(w.trigged) \in Nat
  BY <1>1, HeadTailProperties, LenProperties
<1>4. Len(w.trigged) # 0
  BY <1>1, EmptySeq
<1> QED BY <1>2, <1>3, <1>4 DEF TakenDigest

LEMMA FloorMore ==
  ASSUME NEW s \in Int, NEW a \in Nat, NEW v \in Int, NEW x \in Int, s <= v + x + a * 0
  PROVE  /\ s <= v + a + x + a * 0 /\ s <= v + x + a * 1
BY SMT

LEMMA FloorLess ==
  ASSUME NEW s \in Int, NEW a \in Nat, NEW v \in Int, NEW x \in Int, s <= v + x + a * 1
  PROVE  s <= v + a + x + a * 0
BY SMT

LEMMA FlowReadEof ==
  ASSUME Stage, Flow, ReadEof
  PROVE  Flow'
<1>1. /\ ~panicked /\ UNCHANGED <<closed, state, panicked>> /\ pc["read"] = "read"
      /\ UNCHANGED <<snd, token, outbound, control, buffer, inbound, wire, wrote, got, hand>>
      /\ UNCHANGED <<up, down, acks, credit, relay>>
      /\ closed # {}
      /\ \/ HasDigest(rcv) /\ rcv' = Increase(AfterGet(rcv))
         \/ "rcv" \in closed /\ rcv' = Increase(rcv)
         \/ rcv' = rcv
  BY DEF ReadEof, At, lifeVars, relayVars
<1>2. /\ pc'["read"] = "done"
      /\ pc'["ctrl"] = pc["ctrl"] /\ pc'["send"] = pc["send"] /\ pc'["loop"] = pc["loop"]
  BY Moved DEF ReadEof, Threads
<1>3. rcv \in WindowType /\ rcv.v \in Int /\ Len(rcv.trigged) \in Nat
  BY WindowV, LenProperties DEF Flow, FlowType
<1>4. /\ rcv' \in WindowType
      /\ \/ /\ rcv'.v = rcv.v + AddValue
            /\ Len(rcv'.trigged) = Len(rcv.trigged) - 1 \/ "rcv" \in closed
         \/ rcv' = rcv
  <2>1. CASE HasDigest(rcv) /\ rcv' = Increase(AfterGet(rcv))
    <3>1. /\ AfterGet(rcv) \in WindowType /\ AfterGet(rcv).v = rcv.v
          /\ Len(AfterGet(rcv).trigged) = Len(rcv.trigged) - 1
      BY <1>3, <2>1, TakeOne
    <3> QED BY <2>1, <3>1, IncreaseFacts
  <2>2. CASE "rcv" \in closed /\ rcv' = Increase(rcv)
    BY <1>3, <2>2, IncreaseFacts
  <2>3. CASE rcv' = rcv
    BY <1>3, <2>3
  <2> QED BY <1>1, <2>1, <2>2, <2>3
<1>5. FlowType'
  BY <1>1, <1>4 DEF Flow, FlowType
<1>6. Hands' /\ Opened'
  BY <1>1, <1>2 DEF Flow, Hands, Opened
<1>7. Spent' = Spent /\ Grants' = Grants /\ Arrived' = Arrived /\ Held' = Held
  BY <1>1, <1>2, ReadLeaves
<1>8. Sent' = Sent
  BY <1>1 DEF Sent
<1>9. /\ Asked' = Asked /\ After' = 0 /\ After = 0 /\ Holding' = 0 /\ Holding = 0
  BY <1>1, <1>2, <1>8 DEF Asked, After, Holding, Busy, Closing
<1>10. state = "closed"
  BY <1>1 DEF Stage, ClosedFirst
<1>11. /\ Sent \in Int /\ Arrived \in Int /\ Since(rcv.v) \in Int /\ AddValue \in Nat /\ StartValue \in Nat
  BY Measures, AddBelowStart DEF Flow
<1>12. Received'
  <2>1. Floor'
    <3>1. StartValue + AddValue * Sent <= rcv.v + Arrived + AddValue * 0
      BY <1>9 DEF Flow, Received, Floor
    <3>2. StartValue + AddValue * Sent \in Int
      BY <1>11
    <3>3. StartValue + AddValue * Sent <= rcv.v + AddValue + Arrived + AddValue * 0
      BY <1>3, <1>11, <3>1, <3>2, FloorMore, Zenon
    <3> QED BY <1>4, <1>7, <1>8, <1>9, <3>1, <3>3 DEF Floor
  <2>2. Ceiling'
    <3> SUFFICES ASSUME "rcv" \notin closed
                 PROVE  rcv'.v + AddValue * (Len(rcv'.trigged) + 0) + Since(rcv'.v) <= StartValue
      BY <1>1, <1>9 DEF Ceiling
    <3>1. rcv.v + AddValue * (Len(rcv.trigged) + 0) + Since(rcv.v) <= StartValue
      BY <1>9 DEF Flow, Received, Ceiling
    <3>2. CASE rcv' = rcv
      BY <3>1, <3>2
    <3>3. CASE rcv'.v = rcv.v + AddValue /\ Len(rcv'.trigged) = Len(rcv.trigged) - 1
      <4>1. Since(rcv'.v) = Since(rcv.v)
        BY <1>3, <3>3, SinceFacts
      <4>2. AddValue * (Len(rcv.trigged) - 1 + 0) = AddValue * (Len(rcv.trigged) + 0) - AddValue
        BY <1>3, <1>11
      <4>3. AddValue * (Len(rcv.trigged) + 0) \in Int
        BY <1>3, <1>11
      <4> QED BY <1>3, <1>11, <3>1, <3>3, <4>1, <4>2, <4>3
    <3> QED BY <1>4, <3>2, <3>3
  <2>3. Digests'
    BY <1>1, <1>10 DEF Digests
  <2>4. Asking' /\ Credited' /\ Fetched'
    BY <1>1, <1>7, <1>9 DEF Flow, Received, Asking, Credited, Fetched
  <2> QED BY <2>1, <2>2, <2>3, <2>4 DEF Received
<1> QED BY <1>1, <1>5, <1>6, <1>7, <1>12, FlowReceives

LEMMA FlowReadIncrease ==
  ASSUME Stage, Flow, ReadIncrease
  PROVE  Flow'
<1>1. /\ ~panicked /\ UNCHANGED <<closed, state, panicked>> /\ pc["read"] = "increase"
      /\ UNCHANGED <<snd, token, outbound, control, buffer, inbound, wire, wrote, got>>
      /\ UNCHANGED <<up, down, acks, credit, relay>>
      /\ rcv' = Increase(rcv) /\ hand' = [hand EXCEPT !["read"] = NoCell]
  BY DEF ReadIncrease, At, lifeVars, relayVars
<1>2. /\ pc'["read"] = "read"
      /\ pc'["ctrl"] = pc["ctrl"] /\ pc'["send"] = pc["send"] /\ pc'["loop"] = pc["loop"]
  BY Moved DEF ReadIncrease, Threads
<1>3. /\ hand'["loop"] = hand["loop"] /\ hand'["send"] = hand["send"]
      /\ hand' \in [Threads -> Cell \cup {NoCell}]
  BY <1>1, Handed DEF Threads
<1>4. rcv \in WindowType /\ rcv.v \in Int /\ Len(rcv.trigged) \in Nat
  BY WindowV, LenProperties DEF Flow, FlowType
<1>5. rcv' \in WindowType /\ rcv'.v = rcv.v + AddValue /\ rcv'.trigged = rcv.trigged
  BY <1>1, <1>4, IncreaseFacts
<1>6. FlowType'
  BY <1>1, <1>3, <1>5 DEF Flow, FlowType
<1>7. Hands' /\ Opened'
  BY <1>1, <1>2, <1>3 DEF Flow, Hands, Opened
<1>8. Spent' = Spent /\ Grants' = Grants /\ Arrived' = Arrived /\ Held' = Held
  BY <1>1, <1>2, <1>3, ReadLeaves
<1>9. Sent' = Sent
  BY <1>1, <1>3 DEF Sent
<1>10. /\ Asked' = Asked /\ After' = 0 /\ After = 1 /\ Holding' = 0 /\ Holding = 1
  BY <1>1, <1>2, <1>9 DEF Asked, After, Holding, Busy, Closing
<1>11. /\ Sent \in Int /\ Arrived \in Int /\ Since(rcv.v) \in Int /\ AddValue \in Nat /\ StartValue \in Nat
  BY Measures, AddBelowStart DEF Flow
<1>12. Since(rcv'.v) = Since(rcv.v)
  BY <1>4, <1>5, SinceFacts
<1>13. Received'
  <2>1. Floor'
    <3>1. StartValue + AddValue * Sent <= rcv.v + Arrived + AddValue * 1
      BY <1>10 DEF Flow, Received, Floor
    <3>2. StartValue + AddValue * Sent \in Int
      BY <1>11
    <3>3. StartValue + AddValue * Sent <= rcv.v + AddValue + Arrived + AddValue * 0
      BY <1>4, <1>11, <3>1, <3>2, FloorLess, Zenon
    <3> QED BY <1>5, <1>8, <1>9, <1>10, <3>3 DEF Floor
  <2>2. Ceiling'
    <3> SUFFICES ASSUME "rcv" \notin closed
                 PROVE  rcv'.v + AddValue * (Len(rcv'.trigged) + 0) + Since(rcv'.v) <= StartValue
      BY <1>1, <1>10 DEF Ceiling
    <3>1. rcv.v + AddValue * (Len(rcv.trigged) + 1) + Since(rcv.v) <= StartValue
      BY <1>10 DEF Flow, Received, Ceiling
    <3>2. AddValue * (Len(rcv.trigged) + 1) = AddValue * (Len(rcv.trigged) + 0) + AddValue
      BY <1>4, <1>11
    <3>3. AddValue * (Len(rcv.trigged) + 0) \in Int
      BY <1>4, <1>11
    <3> QED BY <1>4, <1>5, <1>11, <1>12, <3>1, <3>2, <3>3
  <2>3. Digests'
    BY <1>1, <1>5, <1>8, <1>10, <1>12 DEF Flow, Received, Digests
  <2>4. Asking' /\ Credited' /\ Fetched'
    BY <1>1, <1>8, <1>10 DEF Flow, Received, Asking, Credited, Fetched
  <2> QED BY <2>1, <2>2, <2>3, <2>4 DEF Received
<1> QED BY <1>1, <1>6, <1>7, <1>8, <1>13, FlowReceives

\* A digest in the window stands for cells the user has read, or can read now.
LEMMA AskArith ==
  ASSUME NEW a \in Nat \ {0}, NEW n \in Int, NEW l \in Int, NEW r \in Int, NEW g \in Int,
         NEW b \in Int, NEW f \in Int, NEW c \in Int,
         a * (n + l) + r <= g + b + f, l >= 1, r >= 0, f <= 1, b < c
  PROVE  a * (n + 1) <= g + c
<1>1. a * (n + 1) <= a * (n + l) /\ a * (n + 1) \in Int /\ a * (n + l) \in Int
  BY MulMono
<1> QED BY <1>1

LEMMA SwapOne ==
  ASSUME NEW x \in Int, NEW l \in Int
  PROVE  (x + 1) + (l - 1) = x + l
OBVIOUS

LEMMA FlowReadSendMe ==
  ASSUME Stage, Flow, ReadSendMe
  PROVE  Flow'
<1>1. /\ ~panicked /\ UNCHANGED <<closed, state, panicked>> /\ pc["read"] = "sendme"
      /\ UNCHANGED <<snd, token, outbound, control, buffer, inbound, wire, wrote, got>>
      /\ UNCHANGED <<up, down, acks, credit, relay>>
  BY DEF ReadSendMe, At, lifeVars, relayVars
<1>2. /\ pc'["read"] \in {"read", "put", "increase"}
      /\ pc'["ctrl"] = pc["ctrl"] /\ pc'["send"] = pc["send"] /\ pc'["loop"] = pc["loop"]
  <2>1. Goto("read", "read") \/ Goto("read", "put") \/ Goto("read", "increase")
    BY DEF ReadSendMe
  <2> QED BY <2>1, Moved DEF Threads
<1>3. CASE ~(Len(buffer) < TriggerCells /\ (HasDigest(rcv) \/ "rcv" \in closed))
  <2>1. UNCHANGED <<hand, rcv>> /\ Goto("read", "read")
    BY <1>3 DEF ReadSendMe
  <2>2. pc'["read"] = "read"
    BY <2>1, Moved DEF Threads
  <2>3. Calm
    BY <1>1, <1>2, <2>1, <2>2 DEF Calm, flowVars, relayVars, Closing
  <2> QED BY <1>1, <2>3, FlowCalm
<1>4. CASE Len(buffer) < TriggerCells /\ (HasDigest(rcv) \/ "rcv" \in closed)
  <2> DEFINE cell == C("SENDME", IF HasDigest(rcv) THEN TakenDigest(rcv) ELSE NoDigest)
  <2>1. /\ hand' = [hand EXCEPT !["read"] = cell]
        /\ rcv' = IF HasDigest(rcv) THEN AfterGet(rcv) ELSE rcv
        /\ Goto("read", IF state = "closed" THEN "increase" ELSE "put")
    BY <1>4 DEF ReadSendMe
  <2>2. pc'["read"] = IF state = "closed" THEN "increase" ELSE "put"
    BY <2>1, Moved DEF Threads
  <2>3. rcv \in WindowType /\ rcv.v \in Int /\ Len(rcv.trigged) \in Nat
    BY WindowV, LenProperties DEF Flow, FlowType
  <2>4. /\ rcv' \in WindowType /\ rcv'.v = rcv.v
        /\ HasDigest(rcv) => Len(rcv.trigged) >= 1 /\ Len(rcv'.trigged) = Len(rcv.trigged) - 1
    BY <2>1, <2>3, TakeOne
  <2>5. cell \in SendMes
    <3>1. HasDigest(rcv) => TakenDigest(rcv) \in Nat
      BY <2>3, TakeOne
    <3> QED BY <3>1, CellKinds DEF NoDigest
  <2> HIDE DEF cell
  <2>6. /\ hand'["loop"] = hand["loop"] /\ hand'["send"] = hand["send"] /\ hand'["read"] = cell
        /\ hand' \in [Threads -> Cell \cup {NoCell}]
    <3>1. cell \in Cell \cup {NoCell}
      BY <2>5, CellKinds
    <3> QED BY <2>1, <3>1, Handed DEF Threads
  <2>7. FlowType'
    BY <1>1, <2>4, <2>6 DEF Flow, FlowType
  <2>8. Hands' /\ Opened'
    BY <1>1, <1>2, <2>5, <2>6 DEF Flow, Hands, Opened
  <2>9. Spent' = Spent /\ Grants' = Grants /\ Arrived' = Arrived /\ Held' = Held
    BY <1>1, <1>2, <2>6, ReadLeaves
  <2>10. Sent' = Sent
    BY <1>1, <2>6 DEF Sent
  <2>11. /\ Sent \in Int /\ Arrived \in Int /\ Since(rcv.v) \in Int /\ Asked \in Int
         /\ AddValue \in Nat /\ StartValue \in Nat /\ got \in Nat
    BY Measures, AddBelowStart DEF Flow
  <2>12. /\ After = 0 /\ Holding = 0 /\ Holding' = 1
         /\ After' = IF state = "closed" THEN 1 ELSE 0
         /\ Asked = Sent /\ Asked' = IF state = "closed" THEN Sent ELSE Sent + 1
    BY <1>1, <2>2, <2>10, <2>11 DEF Asked, After, Holding, Busy, Closing
  <2>13. Floor'
    <3>1. StartValue + AddValue * Sent <= rcv.v + Arrived + AddValue * 0
      BY <2>12 DEF Flow, Received, Floor
    <3>2. StartValue + AddValue * Sent \in Int
      BY <2>11
    <3>3. StartValue + AddValue * Sent <= rcv.v + Arrived + AddValue * 1
      BY <2>3, <2>11, <3>1, <3>2, FloorMore, Zenon
    <3> QED BY <2>4, <2>9, <2>10, <2>12, <3>1, <3>3 DEF Floor
  <2>14. Ceiling'
    <3> SUFFICES ASSUME "rcv" \notin closed
                 PROVE  rcv'.v + AddValue * (Len(rcv'.trigged) + 1) + Since(rcv'.v) <= StartValue
      BY <1>1, <2>12 DEF Ceiling
    <3>1. rcv.v + AddValue * (Len(rcv.trigged) + 0) + Since(rcv.v) <= StartValue
      BY <2>12 DEF Flow, Received, Ceiling
    <3>2. Len(rcv'.trigged) + 1 = Len(rcv.trigged) + 0
      BY <1>4, <2>3, <2>4
    <3> QED BY <2>4, <3>1, <3>2
  <2>15. Digests' /\ Asking'
    <3>1. CASE state = "closed"
      <4>1. Digests'
        BY <1>1, <3>1 DEF Digests
      <4>2. Asked' = Asked
        BY <2>12, <3>1
      <4> QED BY <1>1, <4>1, <4>2 DEF Flow, Received, Asking
    <3>2. CASE state # "closed"
      <4>1. HasDigest(rcv)
        BY <1>4, <3>2 DEF Stage, ClosedFirst
      <4>2. AddValue * (Asked + Len(rcv.trigged)) + Since(rcv.v) <= Held
        BY <3>2 DEF Flow, Received, Digests
      <4>3. Asked' = Asked + 1 /\ Asked' + Len(rcv'.trigged) = Asked + Len(rcv.trigged)
        <5>1. Asked' = Asked + 1
          BY <2>12, <3>2
        <5>2. Len(rcv'.trigged) = Len(rcv.trigged) - 1
          BY <2>4, <4>1
        <5>3. Asked \in Int /\ Len(rcv.trigged) \in Int
          BY <2>3, <2>11
        <5>4. Asked' + Len(rcv'.trigged) = Asked + Len(rcv.trigged)
          <6>1. (Asked + 1) + (Len(rcv.trigged) - 1) = Asked + Len(rcv.trigged)
            BY <5>3, SwapOne, Zenon
          <6> QED BY <5>1, <5>2, <6>1
        <5> QED BY <5>1, <5>4
      <4>4. Digests'
        BY <2>4, <2>9, <4>2, <4>3 DEF Digests
      <4>5. AddValue * (Asked + 1) <= got + TriggerCells
        <5>1. /\ AddValue \in Nat \ {0} /\ Len(buffer) \in Int /\ TriggerCells \in Int /\ got \in Int
              /\ Len(rcv.trigged) \in Int /\ Busy("loop", {"fill"}) \in Int
              /\ Busy("loop", {"fill"}) <= 1 /\ Len(rcv.trigged) >= 1 /\ Since(rcv.v) >= 0
              /\ Len(buffer) < TriggerCells
          <6>1. Len(buffer) \in Int /\ TriggerCells \in Int /\ AddValue \in Nat \ {0}
            BY Counts, WindowAssumption, StreamAssumption DEF Flow
          <6>2. Since(rcv.v) \in 0 .. (AddValue - 1)
            BY <2>3, SinceFacts
          <6>3. Busy("loop", {"fill"}) \in Int /\ Busy("loop", {"fill"}) <= 1
            BY DEF Busy
          <6>4. Since(rcv.v) >= 0
            BY <6>1, <6>2
          <6>5. Len(rcv.trigged) \in Int /\ got \in Int
            BY <2>3, <2>11
          <6> QED BY <1>4, <2>4, <4>1, <6>1, <6>3, <6>4, <6>5
        <5>2. AddValue * (Asked + Len(rcv.trigged)) + Since(rcv.v) <= got + Len(buffer) + Busy("loop", {"fill"})
          BY <4>2 DEF Held
        <5> QED BY <2>11, <5>1, <5>2, AskArith, Zenon
      <4>6. Asking'
        BY <1>1, <4>3, <4>5 DEF Asking
      <4> QED BY <4>4, <4>6
    <3> QED BY <3>1, <3>2
  <2>16. Credited' /\ Fetched'
    BY <1>1, <2>9 DEF Flow, Received, Credited, Fetched
  <2>17. Received'
    BY <2>13, <2>14, <2>15, <2>16 DEF Received
  <2> QED BY <1>1, <2>7, <2>8, <2>9, <2>17, FlowReceives
<1> QED BY <1>3, <1>4

LEMMA SentMore ==
  ASSUME NEW s \in Int, NEW a \in Nat, NEW n \in Int, NEW x \in Int, s + a * n <= x + a * 0
  PROVE  s + a * (n + 1) <= x + a * 1
<1>1. a * (n + 1) = (a * n) + a /\ a * n \in Int
  OBVIOUS
<1> QED BY <1>1

LEMMA FlowReadPut ==
  ASSUME Stage, Flow, ReadPut
  PROVE  Flow'
<1>1. /\ ~panicked /\ UNCHANGED <<closed, state, panicked>> /\ pc["read"] = "put"
      /\ UNCHANGED <<snd, rcv, token, control, buffer, inbound, wire, wrote, got, hand>>
      /\ UNCHANGED <<up, down, acks, credit, relay>>
  BY DEF ReadPut, At, lifeVars, relayVars
<1>2. hand["read"] \in SendMes
  BY <1>1 DEF Flow, Hands
<1>3. outbound \in Seq(Outgoing) /\ Len(outbound) <= OutboundCap
  BY DEF Flow, FlowType
<1>4. /\ pc'["ctrl"] = pc["ctrl"] /\ pc'["send"] = pc["send"] /\ pc'["loop"] = pc["loop"]
      /\ outbound' \in Seq(Outgoing) /\ Len(outbound') <= OutboundCap
      /\ \/ pc'["read"] = "increase" /\ Count(outbound, SendMes)' = Count(outbound, SendMes) + 1
         \/ pc'["read"] = "close" /\ outbound' = outbound
  <2>1. CASE /\ Len(outbound) < OutboundCap /\ Goto("read", "increase")
             /\ outbound' = Append(outbound, hand["read"])
    <3>1. hand["read"] \in Outgoing
      BY <1>2, CellKinds
    <3>2. /\ outbound' \in Seq(Outgoing) /\ Len(outbound') = Len(outbound) + 1
          /\ Count(outbound, SendMes)' = Count(outbound, SendMes) + 1 /\ Len(outbound) \in Nat
      BY <1>2, <1>3, <2>1, <3>1, CountSame, LenProperties
    <3>3. Len(outbound') <= OutboundCap
      BY <2>1, <3>2, StreamAssumption
    <3>4. /\ pc'["read"] = "increase"
          /\ pc'["ctrl"] = pc["ctrl"] /\ pc'["send"] = pc["send"] /\ pc'["loop"] = pc["loop"]
      BY <2>1, Moved DEF Threads
    <3> QED BY <3>2, <3>3, <3>4
  <2>2. CASE Goto("read", "close") /\ outbound' = outbound
    <3>1. /\ pc'["read"] = "close"
          /\ pc'["ctrl"] = pc["ctrl"] /\ pc'["send"] = pc["send"] /\ pc'["loop"] = pc["loop"]
      BY <2>2, Moved DEF Threads
    <3> QED BY <1>3, <2>2, <3>1
  <2> QED BY <2>1, <2>2 DEF ReadPut, CallClose
<1>5. FlowType'
  BY <1>1, <1>4 DEF Flow, FlowType
<1>6. Hands' /\ Opened'
  BY <1>1, <1>4 DEF Flow, Hands, Opened
<1>7. Spent' = Spent /\ Grants' = Grants /\ Arrived' = Arrived /\ Held' = Held
  BY <1>1, <1>4, ReadLeaves
<1>8. /\ Sent \in Int /\ Arrived \in Int /\ Held \in Int /\ AddValue \in Nat /\ StartValue \in Nat
      /\ rcv.v \in Int /\ got \in Int /\ credit \in Int
  BY Measures, AddBelowStart DEF Flow
<1>9. /\ After = 0 /\ After' = 1 /\ Holding = 1 /\ Holding' = 1 /\ Asked = Sent + 1
      /\ Busy("read", {"put"})' = 0
  BY <1>1, <1>4 DEF Asked, After, Holding, Busy, Closing
<1>10. CASE pc'["read"] = "close" /\ outbound' = outbound
  <2>1. Sent' = Sent
    BY <1>1, <1>10 DEF Sent
  <2>2. Asked' = Sent
    BY <1>8, <1>9, <2>1 DEF Asked
  <2>3. closed \subseteq closed' /\ (state = "closed" => state' = "closed") /\ down' = down /\ rcv' = rcv
    BY <1>1
  <2>4. got' >= got /\ credit' >= credit /\ Sent' <= Sent /\ Asked' <= Asked
    BY <1>1, <1>8, <1>9, <2>1, <2>2
  <2>5. After' >= After /\ Holding' <= Holding /\ Arrived' >= Arrived /\ Held' >= Held
    BY <1>7, <1>8, <1>9
  <2>6. Held' <= Arrived'
    BY <1>7 DEF Flow, Received, Fetched
  <2>7. Received'
    BY <1>5, <2>3, <2>4, <2>5, <2>6, ReceivedStep DEF Flow
  <2> QED BY <1>1, <1>5, <1>6, <1>7, <2>7, FlowReceives
<1>11. CASE pc'["read"] = "increase" /\ Count(outbound, SendMes)' = Count(outbound, SendMes) + 1
  <2>1. Sent' = Sent + 1
    <3>1. /\ Count(outbound, SendMes) \in Nat /\ Count(wire, SendMes) \in Nat /\ credit \in Nat
          /\ One(hand["send"], SendMes) \in Nat
      BY Counts DEF Flow, FlowType, One
    <3>2. UNCHANGED <<Count(wire, SendMes), credit, One(hand["send"], SendMes)>>
      BY <1>1
    <3> QED BY <1>11, <3>1, <3>2 DEF Sent
  <2>2. Asked' = Asked
    BY <1>8, <1>9, <2>1 DEF Asked
  <2>3. Floor'
    <3>1. StartValue + AddValue * Sent <= rcv.v + Arrived + AddValue * 0
      BY <1>9 DEF Flow, Received, Floor
    <3>2. rcv.v + Arrived \in Int /\ StartValue \in Int
      BY <1>8
    <3>3. StartValue + AddValue * (Sent + 1) <= rcv.v + Arrived + AddValue * 1
      BY <1>8, <3>1, <3>2, SentMore, Zenon
    <3> QED BY <1>1, <1>7, <1>9, <2>1, <3>3 DEF Floor
  <2>4. Ceiling' /\ Digests'
    BY <1>1, <1>7, <1>9, <2>2 DEF Flow, Received, Ceiling, Digests
  <2>5. Asking' /\ Credited' /\ Fetched'
    BY <1>1, <1>7, <2>2 DEF Flow, Received, Asking, Credited, Fetched
  <2>6. Received'
    BY <2>3, <2>4, <2>5 DEF Received
  <2> QED BY <1>1, <1>5, <1>6, <1>7, <2>6, FlowReceives
<1> QED BY <1>4, <1>10, <1>11
-----------------------------------------------------------------------------
(* The invariant                                                           *)

LEMMA FlowThreads ==
  ASSUME Stage, Flow, NEW t \in Threads, CloseOrFree(t)
  PROVE  Flow'
BY ClosingPlaces, ClosingCalm, FlowCalm

LEMMA FlowNext ==
  ASSUME Stage, Flow, [Next]_vars
  PROVE  Flow'
<1>1. CASE \E t \in Threads : CloseOrFree(t)
  BY <1>1, FlowThreads
<1>2. CASE OpenStart \/ OpenFail \/ WriteStart \/ WriteReturn \/ EndStart \/ JanitorWakes
             \/ SendExit \/ CtrlExit \/ LoopExit \/ CircuitDies
  BY <1>2, OthersCalm, FlowCalm
<1>3. CASE OpenBegin \/ OpenConnected \/ WritePut \/ EndPut
  BY <1>3, FlowOpenBegin, FlowOpenConnected, FlowWritePut
<1>4. CASE Reading
  BY <1>4, FlowReadSome, FlowReadEof, FlowReadSendMe, FlowReadPut, FlowReadIncrease DEF Reading
<1>5. CASE SendTake \/ SendRestore \/ SendPut
  BY <1>5, FlowSendTake, FlowSendRestore, FlowSendPut
<1>6. CASE CtrlTake \/ CtrlNotify
  BY <1>6, FlowCtrlTake, FlowCtrlNotify
<1>7. CASE LoopTake \/ LoopCharge \/ LoopFill \/ LoopControl
  BY <1>7, FlowLoopTake, FlowLoopCharge, FlowLoopFill, FlowLoopControl
<1>8. CASE Peer
  BY <1>8, FlowRelayTake, FlowRelayData, FlowRelayAck, FlowRelayEnd DEF Peer
<1>9. CASE UNCHANGED vars
  <2>1. UNCHANGED <<flowVars, hand, relayVars, panicked, pc, closed, state>>
    BY <1>9 DEF vars, mutable, lifeVars
  <2>2. /\ UNCHANGED <<snd, rcv, token, outbound, control, buffer, wire, inbound, wrote, got>>
        /\ UNCHANGED <<hand, up, down, acks, credit, relay, panicked, pc, closed, state>>
    BY <2>1 DEF flowVars, relayVars
  <2>3. FlowType' /\ Hands' /\ Opened'
    BY <2>2 DEF Flow, FlowType, Hands, Opened
  <2>4. /\ Spent' = Spent /\ Grants' = Grants /\ Sent' = Sent /\ Arrived' = Arrived
        /\ Held' = Held /\ After' = After /\ Holding' = Holding
    BY <2>2 DEF Spent, Grants, CtrlGrants, LoopGrants, Sent, Arrived, Held, After, Holding, Busy
  <2>5. Asked' = Asked
    BY <2>2, <2>4 DEF Asked, Busy
  <2>6. Credit'
    BY <2>2, <2>4 DEF Flow, Credit
  <2>7. Received'
    BY <2>2, <2>4, <2>5 DEF Flow, Received, Floor, Ceiling, Digests, Asking, Credited, Fetched
  <2> QED BY <2>3, <2>6, <2>7 DEF Flow
<1> QED BY <1>1, <1>2, <1>3, <1>4, <1>5, <1>6, <1>7, <1>8, <1>9
        DEF Next, Step, Opening, User, Sending, Control, Readloop

LEMMA DataCount ==
  ASSUME NEW q \in Seq(Outgoing)
  PROVE  DataIn(q) = Count(q, Datas)
<1>1. \A i \in 1 .. Len(q) : q[i] \in Outgoing
  BY ElementOfSeq
<1>2. \A i \in 1 .. Len(q) : q[i].cmd = "DATA" <=> q[i] \in Datas
  BY <1>1, CellKinds
<1>3. {i \in 1 .. Len(q) : q[i].cmd = "DATA"} = {i \in 1 .. Len(q) : q[i] \in Datas}
  BY <1>2
<1> QED BY <1>3 DEF DataIn, Count, CountTo

LEMMA CreditLeft ==
  ASSUME NEW u \in Nat, NEW w \in Seq(Outgoing), NEW h \in Nat, NEW v \in Nat, NEW g \in Nat,
         NEW k \in Nat, u + Count(w, Datas) + h + v + AddValue * g <= StartValue + AddValue * k
  PROVE  u + DataIn(w) <= StartValue + k * AddValue
<1>1. DataIn(w) = Count(w, Datas) /\ Count(w, Datas) \in Nat
  BY DataCount, CountType
<1>2. AddValue * g \in Nat /\ AddValue * k = k * AddValue /\ AddValue * k \in Nat
  BY WindowAssumption
<1> QED BY <1>1, <1>2, AddBelowStart

\* While the process lives the relay's credit covers what it has been sent; the
\* step that ends it sends nothing.
LEMMA KeepsCredit ==
  ASSUME Flow, ~panicked
  PROVE  StreamCredit
<1> SUFFICES ASSUME "token" \notin closed
             PROVE  up + DataIn(wire) <= StartValue + acks * AddValue
  BY DEF StreamCredit
<1>1. /\ wire \in Seq(Outgoing) /\ up \in Nat /\ acks \in Nat /\ snd.v \in Nat
      /\ Grants \in Nat /\ One(hand["send"], Datas) \in Nat
  <2>1. wire \in Seq(Outgoing) /\ up \in Nat /\ acks \in Nat
    BY DEF Flow, FlowType
  <2>2. snd.v \in 0 .. StartValue
    BY DEF Flow, Opened
  <2>3. snd.v \in Nat
    BY <2>2, AddBelowStart
  <2>4. Grants \in Nat
    BY Measures DEF Flow
  <2>5. One(hand["send"], Datas) \in Nat
    BY DEF One
  <2> QED BY <2>1, <2>3, <2>4, <2>5
<1>2. Spent + snd.v + AddValue * Grants <= StartValue + AddValue * acks
  BY DEF Flow, Credit
<1>3. up + Count(wire, Datas) + One(hand["send"], Datas) + snd.v + AddValue * Grants
         <= StartValue + AddValue * acks
  BY <1>2 DEF Spent
<1> QED BY <1>1, <1>3, CreditLeft, Zenon

LEMMA KeepsCreditNext ==
  ASSUME Flow', ~panicked'
  PROVE  StreamCredit'
<1> SUFFICES ASSUME "token" \notin closed'
             PROVE  up' + DataIn(wire') <= StartValue + acks' * AddValue
  BY DEF StreamCredit
<1>1. /\ wire' \in Seq(Outgoing) /\ up' \in Nat /\ acks' \in Nat /\ snd'.v \in Nat
      /\ Grants' \in Nat /\ One(hand["send"], Datas)' \in Nat
  <2>1. wire' \in Seq(Outgoing) /\ up' \in Nat /\ acks' \in Nat
    BY DEF Flow, FlowType
  <2>2. snd'.v \in 0 .. StartValue
    BY DEF Flow, Opened
  <2>3. snd'.v \in Nat
    BY <2>2, AddBelowStart
  <2>4. Grants' \in Nat
    BY MeasuresNext DEF Flow
  <2>5. One(hand["send"], Datas)' \in Nat
    BY DEF One
  <2> QED BY <2>1, <2>3, <2>4, <2>5
<1>2. Spent' + snd'.v + AddValue * Grants' <= StartValue + AddValue * acks'
  BY DEF Flow, Credit
<1>3. up' + Count(wire', Datas) + One(hand["send"], Datas)' + snd'.v + AddValue * Grants'
         <= StartValue + AddValue * acks'
  BY <1>2 DEF Spent
<1> QED BY <1>1, <1>3, CreditLeft, Zenon

LEMMA PanicStep ==
  ASSUME [Next]_vars, panicked'
  PROVE  UNCHANGED <<up, wire, acks, closed>>
<1>1. CASE \E t \in Threads : CloseOrFree(t)
  BY <1>1 DEF CloseOrFree, EnterClose, LockClose, CancelCtx, CloseChan, LeaveClose, EnterFree, FreeCtx,
              Delete, At, lifeVars
<1>2. CASE Opening \/ User \/ JanitorWakes
  BY <1>2 DEF Opening, OpenBegin, OpenConnected, OpenStart, OpenFail, User, WriteStart, WritePut,
              WriteReturn, EndStart, EndPut, JanitorWakes, At, lifeVars
<1>3. CASE Reading
  BY <1>3 DEF Reading, ReadSome, ReadEof, ReadSendMe, ReadPut, ReadIncrease, At, lifeVars
<1>4. CASE Sending
  BY <1>4 DEF Sending, SendTake, SendRestore, SendPut, SendExit, At, lifeVars, relayVars
<1>5. CASE Control
  BY <1>5 DEF Control, CtrlTake, CtrlNotify, CtrlExit, At, lifeVars, relayVars
<1>6. CASE Readloop
  BY <1>6 DEF Readloop, LoopTake, LoopCharge, LoopFill, LoopControl, LoopExit, At, lifeVars, relayVars
<1>7. CASE CircuitDies \/ Peer
  BY <1>7 DEF CircuitDies, Peer, RelayTake, RelayData, RelayAck, RelayEnd, RelayLive, lifeVars
<1>8. CASE UNCHANGED vars
  BY <1>8 DEF vars, mutable, flowVars, relayVars, lifeVars
<1> QED BY <1>1, <1>2, <1>3, <1>4, <1>5, <1>6, <1>7, <1>8 DEF Next, Step

IInv == Stage /\ Flow /\ StreamCredit

LEMMA IInvInit ==
  ASSUME Init
  PROVE  IInv
<1> USE DEF Init
<1>1. Stage
  <2>1. LifeType
    BY DEF LifeType, Threads, Labels
  <2>2. \A t \in Threads : pc[t] = CASE t = "open" -> "begin" [] t = "loop" -> "take" [] OTHER -> "off"
    OBVIOUS
  <2>3. /\ pc["open"] = "begin" /\ pc["loop"] = "take"
        /\ \A t \in Threads \ {"open", "loop"} : pc[t] = "off"
    BY <2>2 DEF Threads
  <2>4. Placed
    BY <2>3, HomeFacts DEF Placed, Threads
  <2>5. OpensAlone
    BY <2>3, HomeFacts DEF OpensAlone, Threads
  <2>6. ClosedFirst
    BY <2>3 DEF ClosedFirst, Late, Threads
  <2> QED BY <2>1, <2>4, <2>5, <2>6 DEF Stage
<1>2. /\ pc["send"] = "off" /\ pc["loop"] = "take" /\ pc["ctrl"] = "off" /\ pc["read"] = "off"
      /\ hand["send"] = NoCell /\ hand["loop"] = NoCell /\ hand["read"] = NoCell
  BY DEF Threads
<1>3. snd = NewWindow /\ rcv = NewWindow /\ snd.v = StartValue /\ rcv.v = StartValue /\ rcv.trigged = <<>>
  BY DEF NewWindow
<1>4. StartValue \in Nat \ {0} /\ AddValue \in Nat \ {0}
  BY WindowAssumption
<1>5. FlowType
  <2>1. snd \in WindowType /\ rcv \in WindowType
    BY <1>3, NewWindowType
  <2>2. Len(outbound) = 0 /\ Len(control) = 0 /\ Len(buffer) = 0
    BY EmptySeq
  <2>3. hand \in [Threads -> Cell \cup {NoCell}]
    OBVIOUS
  <2>4. OutboundCap \in Nat /\ ControlCap \in Nat /\ BufferCap \in Nat
    BY StreamAssumption
  <2> QED BY <2>1, <2>2, <2>3, <2>4, EmptySeq DEF FlowType
<1>6. Hands /\ Opened
  BY <1>2, <1>3, <1>4 DEF Hands, Opened
<1>7. \A T : Count(wire, T) = 0 /\ Count(outbound, T) = 0 /\ Count(control, T) = 0 /\ Count(inbound, T) = 0
  BY CountEmpty
<1>8. \A T : T \in {Datas, SendMes} => One(hand["send"], T) = 0 /\ One(hand["loop"], T) = 0
  BY <1>2, CellKinds DEF One
<1>9. /\ Spent = 0 /\ Grants = 0 /\ Sent = 0 /\ Asked = 0 /\ Arrived = 0 /\ Held = 0
      /\ After = 0 /\ Holding = 0
  <2>1. /\ Busy("ctrl", {"notify"}) = 0 /\ Busy("read", {"put"}) = 0 /\ Busy("loop", {"deliver"}) = 0
        /\ Busy("loop", {"fill"}) = 0 /\ After = 0 /\ Holding = 0
    BY <1>2 DEF Busy, After, Holding, Closing
  <2>2. Len(buffer) = 0
    BY EmptySeq
  <2> QED BY <1>7, <1>8, <2>1, <2>2 DEF Spent, Grants, CtrlGrants, LoopGrants, Sent, Asked, Arrived, Held
<1>10. Len(rcv.trigged) = 0 /\ Since(rcv.v) = 0
  <2>1. Since(StartValue) = 0
    BY UnitsStart DEF Since
  <2> QED BY <1>3, <2>1, EmptySeq
<1>11. Credit
  BY <1>3, <1>4, <1>9 DEF Credit
<1>12. Received
  <2>1. AddValue * 0 = 0 /\ AddValue * (0 + 0) = 0 /\ TriggerCells \in Nat
    BY <1>4, StreamAssumption
  <2>2. down = 0 /\ credit = 0 /\ got = 0
    OBVIOUS
  <2>3. Floor /\ Ceiling /\ Digests
    BY <1>3, <1>4, <1>9, <1>10, <2>1 DEF Floor, Ceiling, Digests
  <2>4. Asking /\ Credited /\ Fetched
    BY <1>4, <1>9, <2>1, <2>2 DEF Asking, Credited, Fetched
  <2> QED BY <2>3, <2>4 DEF Received
<1>13. Flow
  BY <1>5, <1>6, <1>11, <1>12 DEF Flow
<1>14. ~panicked
  OBVIOUS
<1> QED BY <1>1, <1>13, <1>14, KeepsCredit DEF IInv

LEMMA IInvNext ==
  ASSUME IInv, [Next]_vars
  PROVE  IInv'
<1>1. Stage'
  BY StageNext DEF IInv
<1>2. Flow'
  BY FlowNext DEF IInv
<1>3. StreamCredit'
  <2>1. CASE panicked'
    <3>1. UNCHANGED <<up, wire, acks, closed>>
      BY <2>1, PanicStep
    <3> QED BY <3>1 DEF IInv, StreamCredit
  <2>2. CASE ~panicked'
    BY <1>2, <2>2, KeepsCreditNext
  <2> QED BY <2>1, <2>2
<1> QED BY <1>1, <1>2, <1>3 DEF IInv

\* Whatever the threads do, and in whatever order, the invariant holds.
THEOREM StreamInvariant == Spec => []IInv
<1>1. Init => IInv
  BY IInvInit
<1>2. IInv /\ [Next]_vars => IInv'
  BY IInvNext
<1> QED BY <1>1, <1>2, PTL DEF Spec

\* What the relay may send before it waits, however far readloop has got.
LEMMA Allowed ==
  ASSUME Flow
  PROVE  /\ Arrived <= StartValue + AddValue * Sent
         /\ Arrived <= StartValue + got + TriggerCells
<1>1. /\ Arrived \in Int /\ Sent \in Int /\ Asked \in Int /\ credit \in Int /\ down \in Int /\ got \in Int
      /\ Sent >= credit /\ Asked >= Sent /\ Arrived <= down
  BY Measures DEF Flow
<1>2. AddValue \in Nat /\ StartValue \in Nat /\ TriggerCells \in Nat
  BY AddBelowStart, StreamAssumption
<1>3. down <= StartValue + AddValue * credit /\ AddValue * Asked <= got + TriggerCells
  BY DEF Flow, Received, Credited, Asking
<1>4. AddValue * credit <= AddValue * Sent /\ AddValue * Sent <= AddValue * Asked
  BY <1>1, <1>2, MulMono
<1>5. AddValue * credit \in Int /\ AddValue * Sent \in Int /\ AddValue * Asked \in Int
  BY <1>1, <1>2
<1> QED BY <1>1, <1>2, <1>3, <1>4, <1>5

LEMMA WindowBounds ==
  ASSUME Flow, "rcv" \notin closed
  PROVE  rcv.v \in -AddValue .. StartValue
<1>1. /\ Arrived \in Int /\ Sent \in Int /\ After \in {0, 1} /\ Holding \in {0, 1}
      /\ rcv.v \in Int /\ Len(rcv.trigged) \in Nat
  BY Measures DEF Flow
<1>2. AddValue \in Nat /\ StartValue \in Nat /\ AddValue * Sent \in Int
  BY <1>1, AddBelowStart
<1>3. rcv.v >= -AddValue
  <2>1. StartValue + AddValue * Sent <= rcv.v + Arrived + AddValue * After
    BY DEF Flow, Received, Floor
  <2>2. Arrived <= StartValue + AddValue * Sent
    BY Allowed
  <2>3. AddValue * After \in {0, AddValue}
    BY <1>1, <1>2
  <2> QED BY <1>1, <1>2, <2>1, <2>2, <2>3
<1>4. rcv.v <= StartValue
  <2>1. rcv.v + AddValue * (Len(rcv.trigged) + Holding) + Since(rcv.v) <= StartValue
    BY DEF Flow, Received, Ceiling
  <2>2. Since(rcv.v) \in 0 .. (AddValue - 1)
    BY <1>1, SinceFacts
  <2>3. AddValue * (Len(rcv.trigged) + Holding) \in Nat
    <3>1. Len(rcv.trigged) + Holding \in Nat
      BY <1>1
    <3> QED BY <1>2, <3>1
  <2> QED BY <1>1, <1>2, <2>1, <2>2, <2>3
<1> QED BY <1>1, <1>2, <1>3, <1>4

\* Every variable of the stream keeps its type: the channels stay within their
\* capacities, the send window between empty and full, and the receive window
\* never falls below the one SENDME that Read has sent and not yet counted.
THEOREM StreamTypeCorrect == Spec => []TypeOK
<1>1. ASSUME IInv PROVE TypeOK
  <2>1. LifeType /\ FlowType /\ Flow
    BY <1>1 DEF IInv, Stage, Flow
  <2>2. outbound \in Seq(Cell) /\ wire \in Seq(Cell)
    BY <2>1, CellKinds, SeqMonotonic DEF FlowType
  <2>3. snd.v \in 0 .. StartValue
    BY <2>1 DEF Flow, Opened
  <2>4. "rcv" \notin closed => rcv.v \in -AddValue .. StartValue
    BY <2>1, WindowBounds
  <2> QED BY <2>1, <2>2, <2>3, <2>4 DEF TypeOK, LifeType, FlowType
<1> QED BY <1>1, StreamInvariant, PTL

\* sendController keeps to the stream's window: the relay is never sent more
\* cells than it has given credit for, whatever tokens were dropped.
THEOREM StreamKeepsCredit == Spec => []StreamCredit
<1>1. IInv => StreamCredit
  BY DEF IInv
<1> QED BY <1>1, StreamInvariant, PTL

\* The ring buffer has room for every cell the relay may send: readloop, which
\* serves all the streams of the circuit, never waits in writeDataCell for the
\* reader of one of them.
THEOREM ReadloopFree == Spec => []ReadloopNeverBlocks
<1>1. ASSUME IInv PROVE ReadloopNeverBlocks
  <2> SUFFICES ASSUME pc["loop"] = "fill" PROVE Len(buffer) < BufferCap
    BY DEF ReadloopNeverBlocks
  <2>1. Flow
    BY <1>1 DEF IInv
  <2>2. Len(buffer) \in Nat /\ got \in Nat /\ Arrived \in Int
    BY <2>1, Counts, Measures DEF Flow
  <2>3. Held = got + Len(buffer) + 1
    BY DEF Held, Busy
  <2>4. Held <= Arrived /\ Arrived <= StartValue + got + TriggerCells
    BY <2>1, Allowed DEF Flow, Received, Fetched
  <2>5. StartValue + TriggerCells <= BufferCap /\ BufferCap \in Nat /\ TriggerCells \in Nat
    BY StreamAssumption
  <2> HIDE DEF Held
  <2> QED BY <2>2, <2>3, <2>4, <2>5, AddBelowStart
<1> QED BY <1>1, StreamInvariant, PTL
=============================================================================
