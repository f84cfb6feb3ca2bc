---------------------------- MODULE Onion_proofs ----------------------------
(***************************************************************************)
(* HopsAreThePath holds of Onion for every set of relays and paths,        *)
(* however many of the relays answer in another's place; and so do         *)
(* CellsRecognised and KeyStreamsInStep, in whatever order writeLoop and   *)
(* Extend encrypt their cells and hand them over.                          *)
(*                                                                         *)
(* PathInv follows a handshake: every answer on its way is some relay's    *)
(* answer to a public key of this circuit, and one that Derive accepts is  *)
(* the answer of the relay behind the last hop.                            *)
(*                                                                         *)
(* StepInv compares the two ends of the key streams and the cells between  *)
(* them.  On the way in the link keeps those in the order the relays       *)
(* wrapped them.  On the way out it need not: there is a queue of the same *)
(* cells in the order they were encrypted, and the next of the link is     *)
(* recognised exactly when it is the first of that queue.                  *)
(***************************************************************************)
EXTENDS Onion, Flow_proofs

IsSeq(q) == q \in Seq({q[i] : i \in 1 .. Len(q)})

Records ==
    /\ builder \in [pc : {"start", "create", "extend", "up", "failed"}, path : Paths \cup {<<>>}]
    /\ extender = [pc |-> extender.pc, cell |-> extender.cell, hs |-> extender.hs]
    /\ IsSeq(keys) /\ IsSeq(relayKeys) /\ IsSeq(link) /\ IsSeq(downlink)

\* An EXTEND2 carries one of the circuit's n handshakes, for one more hop.
Request(cell, n) ==
    /\ cell.hop + 2 <= MaxHops
    /\ cell.body.hs.NodeID \in Relays
    /\ \E k \in 1 .. n : cell.body.hs.PublicKey = ClientKey(k)

\* A relay's answer to one of the n handshakes.
Answers(x, n) ==
    \E r \in Relays : \E k \in 1 .. n : x = Answer(r, [PublicKey |-> ClientKey(k)])

\* An answer that Extend will accept is that of the relay behind the last hop,
\* which has the secret that Derive returns.
Fits(x, ext, len, chain, secrets) ==
    ext.pc # "idle" /\ Derive(ext.hs, x) # None =>
        /\ Len(chain) = len + 1
        /\ chain[len + 1] = ext.hs.NodeID
        /\ secrets[len + 1] = Derive(ext.hs, x)

LinkCell(c, n, len) ==
    /\ c.hop < len /\ c.cmd \in {"EXTEND2", "STREAM"}
    /\ c.cmd = "EXTEND2" => Request(c, n)

IsAnswer(x, n, ext, len, chain, secrets) == Answers(x, n) /\ Fits(x, ext, len, chain, secrets)

\* The cells of the circuit are for its hops.
CellsInv ==
    /\ \A i \in 1 .. Len(link) : LinkCell(link[i], attempts, hops)
    /\ \A i \in 1 .. Len(downlink) :
         /\ downlink[i].hop < hops
         /\ downlink[i].cmd = "EXTENDED2" =>
              IsAnswer(downlink[i].body, attempts, extender, hops, relays, relayKeys)
    /\ extended # None => IsAnswer(extended, attempts, extender, hops, relays, relayKeys)
    /\ writer # NoCell => writer.hop < hops /\ writer.cmd = "STREAM"
    /\ \A h \in Ids : arrived[h] # <<>> => h < hops

KeysInv ==
    \A i \in 1 .. hops : keys[i] = relayKeys[i] /\ keys[i].ID = relays[i]

BuilderInv ==
    LET path == builder.path IN
    /\ builder.pc = "start" => attempts = 0
    /\ builder.pc \in {"start", "create"} => hops = 0 /\ Len(relays) = 0
    /\ builder.pc \in {"create", "extend", "up"} => path \in Paths
    /\ builder.pc = "create" => NewNTorHandshake(path[1], 1) # None /\ attempts = 1
    /\ builder.pc = "extend" => hops \in 1 .. Len(path) - 1
    /\ builder.pc = "up" => hops >= Len(path)
    /\ builder.pc \in {"extend", "up"} =>
         \A i \in 1 .. Len(path) : i <= hops => keys[i].ID = path[i].node
    /\ builder.pc = "failed" => hops = 0 \/ cause # "none"

ExtenderInv ==
    /\ extender.pc = "idle" => extender = Idle
    /\ extender.pc # "idle" =>
         /\ builder.pc \in {"extend", "up"}
         /\ hops \in 1 .. MaxHops - 1
         /\ extender.hs.NodeID \in Relays /\ extender.hs.PublicKey = ClientKey(attempts)
         /\ \A i \in 1 .. hops : keys[i].ID # extender.hs.NodeID
         /\ builder.pc = "extend" => extender.hs.NodeID = builder.path[hops + 1].node
    /\ extender.pc = "marshalled" =>
         extender.cell.cmd = "EXTEND2" /\ LinkCell(extender.cell, attempts, hops)
    /\ extender.pc = "waiting" => extender.cell = NoCell

PathInv == TypeOK /\ Records /\ CellsInv /\ KeysInv /\ BuilderInv /\ ExtenderInv

\* Of the first n cells of q, those for a hop in S; the cells that use the key
\* stream of hop h are those for h and the hops behind it.
HopsOf(q)     == [i \in 1 .. Len(q) |-> q[i].hop]
Uses(q, S, n) == CountTo(HopsOf(q), S, n)
Behind(h)     == h .. MaxHops - 1
Only(h)       == {h}

\* The two ends of the key streams and digests, with the cells q between them:
\* near and nears have been used for all of q, far and fars for none, and every
\* cell has the numbers at which far and fars will arrive.
Numbered(q, far, fars) ==
    \A i \in 1 .. Len(q) :
        /\ \A h \in 0 .. q[i].hop : q[i].layers[h] = far[h] + Uses(q, Behind(h), i - 1)
        /\ q[i].num = fars[q[i].hop] + Uses(q, Only(q[i].hop), i - 1)

Synced(q, near, nears, far, fars) ==
    /\ Numbered(q, far, fars)
    /\ \A h \in Ids : near[h] = far[h] + Uses(q, Behind(h), Len(q))
    /\ \A h \in Ids : nears[h] = fars[h] + Uses(q, Only(h), Len(q))

\* The cells on their way out: on the link, or in the hands of writeLoop or Extend.
Hands     == {writer, extender.cell} \ {NoCell}
CellsOf(q) == {q[i] : i \in 1 .. Len(q)}
Flying    == CellsOf(link) \cup Hands

\* Each is in one place.
Apart ==
    /\ \A i, j \in 1 .. Len(link) : link[i] = link[j] => i = j
    /\ \A i \in 1 .. Len(link) : link[i] \notin Hands
    /\ writer = extender.cell => writer = NoCell

\* The key streams, counted whatever the order.
Held(c, h) == IF c.hop >= h THEN 1 ELSE 0
Counted ==
    \A h \in Ids : forwards[h] = relayFwd[h] + Uses(link, Behind(h), Len(link))
                                  + Held(writer, h) + Held(extender.cell, h)

\* They were encrypted in the order q, which need not be the order they leave in.
Encrypted(q) == /\ IsSeq(q)
                /\ CellsOf(q) = Flying
                /\ Synced(q, forwards, digests, relayFwd, relayDig)

OutInv      == Apart /\ Counted /\ \E q : Encrypted(q)
WayInSynced == Synced(downlink, relayBwd, relayNum, backwards, checked)

StepInv == cause = "none" => OutInv /\ WayInSynced

-----------------------------------------------------------------------------
(* Sequences, and what is counted in them                                  *)

LEMMA Sizes ==
  /\ MaxHops \in Nat /\ MaxHops > 0 /\ MaxAttempts \in Nat /\ MaxAttempts > 0
  /\ MaxCells \in Nat /\ MaxReplies \in Nat
BY OnionAssumption

LEMMA IdsAre ==
  ASSUME NEW h \in Ids
  PROVE  /\ h \in Nat /\ 0 .. h \subseteq Ids
         /\ \A g \in Ids : h \in Behind(g) <=> g \in 0 .. h
         /\ \A g \in Ids : h \in Only(g) <=> g = h
BY Sizes DEF Ids, Behind, Only

LEMMA SeqIs ==
  ASSUME NEW S, NEW q \in Seq(S)
  PROVE  IsSeq(q)
<1> DEFINE R == {q[i] : i \in 1 .. Len(q)}
<1>1. Len(q) \in Nat /\ q \in [1 .. Len(q) -> S]
  BY LenProperties
<1>2. q \in [1 .. Len(q) -> R]
  BY <1>1
<1>3. q \in Seq(R)
  BY <1>1, <1>2, SeqDef
<1> QED BY <1>3 DEF IsSeq

LEMMA SeqLen == ASSUME NEW q, IsSeq(q) PROVE Len(q) \in Nat /\ (q # <<>> => Len(q) >= 1)
BY LenProperties, EmptySeq DEF IsSeq

LEMMA SeqOne == ASSUME NEW e PROVE IsSeq(<<e>>) /\ Len(<<e>>) = 1 /\ <<e>>[1] = e
<1>1. <<e>> \in Seq({e})
  OBVIOUS
<1> QED BY <1>1, SeqIs

LEMMA SeqNone == IsSeq(<<>>) /\ Len(<<>>) = 0
<1>1. <<>> \in Seq({})
  BY EmptySeq
<1> QED BY <1>1, SeqIs

LEMMA SeqAppend ==
  ASSUME NEW q, IsSeq(q), NEW e
  PROVE  /\ IsSeq(Append(q, e)) /\ Len(q) \in Nat /\ Len(Append(q, e)) = Len(q) + 1
         /\ Append(q, e)[Len(q) + 1] = e
         /\ \A i \in 1 .. Len(q) : Append(q, e)[i] = q[i]
<1> DEFINE S == {q[i] : i \in 1 .. Len(q)} \cup {e}
<1>1. q \in Seq(S)
  <2>1. q \in Seq({q[i] : i \in 1 .. Len(q)}) /\ {q[i] : i \in 1 .. Len(q)} \subseteq S
    BY DEF IsSeq
  <2> HIDE DEF S
  <2> QED BY <2>1, SeqMonotonic
<1>2. e \in S
  OBVIOUS
<1> HIDE DEF S
<1>3. /\ Append(q, e) \in Seq(S) /\ Len(q) \in Nat /\ Len(Append(q, e)) = Len(q) + 1
      /\ Append(q, e)[Len(q) + 1] = e /\ \A i \in 1 .. Len(q) : Append(q, e)[i] = q[i]
  BY <1>1, <1>2, AppendProperties, LenProperties
<1> QED BY <1>3, SeqIs

LEMMA SeqTail ==
  ASSUME NEW q, IsSeq(q), q # <<>>
  PROVE  /\ IsSeq(Tail(q)) /\ Len(Tail(q)) \in Nat /\ Len(q) = Len(Tail(q)) + 1
         /\ Head(q) = q[1] /\ \A i \in 1 .. Len(Tail(q)) : Tail(q)[i] = q[i + 1]
<1> DEFINE S == {q[i] : i \in 1 .. Len(q)}
<1>1. q \in Seq(S)
  BY DEF IsSeq
<1> HIDE DEF S
<1>2. /\ Tail(q) \in Seq(S) /\ Len(Tail(q)) = Len(q) - 1 /\ Len(q) \in Nat
      /\ \A i \in 1 .. Len(Tail(q)) : Tail(q)[i] = q[i + 1]
  BY <1>1, HeadTailProperties, LenProperties
<1>3. Len(Tail(q)) \in Nat
  BY <1>2, LenProperties
<1>4. Head(q) = q[1]
  BY <1>1
<1>5. IsSeq(Tail(q))
  BY <1>2, SeqIs
<1>6. Len(q) = Len(Tail(q)) + 1
  BY <1>2
<1> QED BY <1>2, <1>3, <1>4, <1>5, <1>6

LEMMA UsesType ==
  ASSUME NEW q, NEW S, NEW n \in Nat
  PROVE  Uses(q, S, n) \in Nat /\ Uses(q, S, 0) = 0
BY CountToType DEF Uses

LEMMA UsesAppend ==
  ASSUME NEW q, IsSeq(q), NEW e, NEW S
  PROVE  /\ \A n \in 0 .. Len(q) : Uses(Append(q, e), S, n) = Uses(q, S, n)
         /\ Uses(Append(q, e), S, Len(q) + 1) = Uses(q, S, Len(q)) + (IF e.hop \in S THEN 1 ELSE 0)
<1> DEFINE r == Append(q, e)
<1>1. /\ Len(q) \in Nat /\ Len(r) = Len(q) + 1 /\ r[Len(q) + 1] = e
      /\ \A i \in 1 .. Len(q) : r[i] = q[i]
  BY SeqAppend
<1> HIDE DEF r
<1>2. HopsOf(r)[Len(q) + 1] = e.hop /\ \A i \in 1 .. Len(q) : HopsOf(r)[i] = HopsOf(q)[i]
  BY <1>1 DEF HopsOf
<1>3. ASSUME NEW n \in 0 .. Len(q) PROVE Uses(r, S, n) = Uses(q, S, n)
  <2>1. n \in Nat /\ \A i \in 1 .. n : HopsOf(r)[i] \in S <=> HopsOf(q)[i] \in S
    BY <1>1, <1>2
  <2> QED BY <2>1, CountToSame DEF Uses
<1>4. Uses(r, S, Len(q) + 1) = Uses(r, S, Len(q)) + (IF e.hop \in S THEN 1 ELSE 0)
  BY <1>1, <1>2, CountToNext DEF Uses
<1> QED BY <1>1, <1>3, <1>4 DEF r

LEMMA UsesTail ==
  ASSUME NEW q, IsSeq(q), q # <<>>, NEW S, NEW n \in Nat, n <= Len(Tail(q))
  PROVE  Uses(q, S, n + 1) = Uses(Tail(q), S, n) + (IF q[1].hop \in S THEN 1 ELSE 0)
<1> DEFINE r == Tail(q)
<1>1. Len(r) \in Nat /\ Len(q) = Len(r) + 1 /\ \A i \in 1 .. Len(r) : r[i] = q[i + 1]
  BY SeqTail
<1> HIDE DEF r
<1>2. n <= Len(r)
  BY DEF r
<1>3. HopsOf(q)[1] = q[1].hop /\ \A i \in 1 .. n : HopsOf(r)[i] = HopsOf(q)[i + 1]
  BY <1>1, <1>2 DEF HopsOf
<1>4. CountTo(HopsOf(q), S, n + 1) = CountTo(HopsOf(r), S, n) + (IF HopsOf(q)[1] \in S THEN 1 ELSE 0)
  BY <1>3, CountToShift
<1>5. Uses(q, S, n + 1) = Uses(r, S, n) + (IF q[1].hop \in S THEN 1 ELSE 0)
  BY <1>3, <1>4 DEF Uses
<1> QED BY <1>5 DEF r

LEMMA UseIs ==
  ASSUME NEW counts \in [Ids -> Nat], NEW S
  PROVE  /\ Use(counts, S) \in [Ids -> Nat]
         /\ \A h \in Ids : Use(counts, S)[h] = counts[h] + (IF h \in S THEN 1 ELSE 0)
BY DEF Use, Ids

LEMMA UseUpTo ==
  ASSUME NEW counts \in [Ids -> Nat], NEW c \in Ids
  PROVE  /\ Use(counts, 0 .. c) \in [Ids -> Nat]
         /\ \A h \in Ids : Use(counts, 0 .. c)[h] = counts[h] + (IF c \in Behind(h) THEN 1 ELSE 0)
BY IdsAre DEF Use

LEMMA UseOne ==
  ASSUME NEW counts \in [Ids -> Nat], NEW c
  PROVE  /\ Use(counts, {c}) \in [Ids -> Nat]
         /\ \A h \in Ids : Use(counts, {c})[h] = counts[h] + (IF h = c THEN 1 ELSE 0)
BY DEF Use, Ids

-----------------------------------------------------------------------------
(* Two ends of the key streams and the cells between them                  *)

\* A cell that is wrapped at the near end joins the queue, ...
LEMMA SyncedAppend ==
  ASSUME NEW q, IsSeq(q), NEW near \in [Ids -> Nat], NEW nears \in [Ids -> Nat],
         NEW far \in [Ids -> Nat], NEW fars \in [Ids -> Nat],
         Synced(q, near, nears, far, fars),
         NEW cell, NEW c \in Ids, cell.hop = c,
         \A h \in 0 .. c : cell.layers[h] = near[h],
         cell.num = nears[c]
  PROVE  Synced(Append(q, cell), Use(near, 0 .. c), Use(nears, {c}), far, fars)
<1> DEFINE r == Append(q, cell)
<1>1. /\ Len(q) \in Nat /\ Len(r) = Len(q) + 1 /\ r[Len(q) + 1] = cell
      /\ \A i \in 1 .. Len(q) : r[i] = q[i]
  BY SeqAppend
<1>2. ASSUME NEW S
      PROVE  /\ \A n \in 0 .. Len(q) : Uses(r, S, n) = Uses(q, S, n)
             /\ Uses(r, S, Len(q) + 1) = Uses(q, S, Len(q)) + (IF c \in S THEN 1 ELSE 0)
  <2>1. /\ \A n \in 0 .. Len(q) : Uses(r, S, n) = Uses(q, S, n)
        /\ Uses(r, S, Len(q) + 1) = Uses(q, S, Len(q)) + (IF cell.hop \in S THEN 1 ELSE 0)
    BY UsesAppend, Zenon
  <2> QED BY <2>1
<1>3. /\ \A h \in Ids : (c \in Behind(h) <=> h \in 0 .. c) /\ (c \in Only(h) <=> h = c)
      /\ 0 .. c \subseteq Ids
  BY IdsAre
<1>4. ASSUME NEW i \in 1 .. Len(q)
      PROVE  /\ \A h \in 0 .. q[i].hop : q[i].layers[h] = far[h] + Uses(q, Behind(h), i - 1)
             /\ q[i].num = fars[q[i].hop] + Uses(q, Only(q[i].hop), i - 1)
  BY DEF Synced, Numbered
<1>5. /\ \A h \in Ids : near[h] = far[h] + Uses(q, Behind(h), Len(q))
      /\ \A h \in Ids : nears[h] = fars[h] + Uses(q, Only(h), Len(q))
  BY DEF Synced
<1>6. \A h \in Ids : Use(near, 0 .. c)[h] = near[h] + (IF c \in Behind(h) THEN 1 ELSE 0)
  BY UseUpTo
<1> HIDE DEF r
<1>7. ASSUME NEW i \in 1 .. Len(r)
      PROVE  /\ \A h \in 0 .. r[i].hop : r[i].layers[h] = far[h] + Uses(r, Behind(h), i - 1)
             /\ r[i].num = fars[r[i].hop] + Uses(r, Only(r[i].hop), i - 1)
  <2>1. CASE i \in 1 .. Len(q)
    <3>1. r[i] = q[i] /\ i - 1 \in 0 .. Len(q)
      BY <1>1, <2>1
    <3>2. \A S : Uses(r, S, i - 1) = Uses(q, S, i - 1)
      BY <1>2, <3>1
    <3>3. /\ \A h \in 0 .. q[i].hop : q[i].layers[h] = far[h] + Uses(q, Behind(h), i - 1)
          /\ q[i].num = fars[q[i].hop] + Uses(q, Only(q[i].hop), i - 1)
      BY <1>4, <2>1
    <3> QED BY <3>1, <3>2, <3>3
  <2>2. CASE i = Len(q) + 1
    <3>1. r[i] = cell /\ r[i].hop = c /\ i - 1 = Len(q) /\ Len(q) \in 0 .. Len(q)
      BY <1>1, <2>2
    <3>2. \A S : Uses(r, S, i - 1) = Uses(q, S, Len(q))
      BY <1>2, <3>1
    <3>3. ASSUME NEW h \in 0 .. c PROVE r[i].layers[h] = far[h] + Uses(r, Behind(h), i - 1)
      <4>1. h \in Ids
        BY <1>3
      <4> QED BY <4>1, <1>5, <3>1, <3>2
    <3>4. r[i].num = fars[c] + Uses(r, Only(c), i - 1)
      BY <1>5, <3>1, <3>2
    <3> QED BY <3>1, <3>3, <3>4
  <2>3. i \in 1 .. Len(q) \/ i = Len(q) + 1
    BY <1>1
  <2> QED BY <2>1, <2>2, <2>3
<1>8. ASSUME NEW h \in Ids
      PROVE  /\ Use(near, 0 .. c)[h] = far[h] + Uses(r, Behind(h), Len(r))
             /\ Use(nears, {c})[h] = fars[h] + Uses(r, Only(h), Len(r))
  <2>1. /\ near[h] = far[h] + Uses(q, Behind(h), Len(q))
        /\ nears[h] = fars[h] + Uses(q, Only(h), Len(q))
    BY <1>5
  <2>2. Use(near, 0 .. c)[h] = near[h] + (IF c \in Behind(h) THEN 1 ELSE 0)
    BY <1>6
  <2>3. Use(nears, {c})[h] = nears[h] + (IF h = c THEN 1 ELSE 0)
    BY UseOne, ZenonT(30)
  <2>4. /\ Uses(r, Behind(h), Len(r)) = Uses(q, Behind(h), Len(q)) + (IF c \in Behind(h) THEN 1 ELSE 0)
        /\ Uses(r, Only(h), Len(r)) = Uses(q, Only(h), Len(q)) + (IF c \in Only(h) THEN 1 ELSE 0)
    BY <1>1, <1>2
  <2>5. /\ Uses(q, Behind(h), Len(q)) \in Nat /\ Uses(q, Only(h), Len(q)) \in Nat
        /\ far[h] \in Nat /\ fars[h] \in Nat
    BY <1>1, UsesType
  <2>6. (c \in Behind(h) <=> h \in 0 .. c) /\ (c \in Only(h) <=> h = c)
    BY <1>3
  <2> HIDE DEF Uses, Use, Behind
  <2> QED BY <2>1, <2>2, <2>3, <2>4, <2>5, <2>6
<1> QED BY <1>7, <1>8 DEF Synced, Numbered, r

\* ... and the one that reaches the far end has the numbers due there.
LEMMA SyncedTail ==
  ASSUME NEW q, IsSeq(q), q # <<>>, NEW near, NEW nears,
         NEW far \in [Ids -> Nat], NEW fars \in [Ids -> Nat],
         \A i \in 1 .. Len(q) : q[i].hop \in Ids,
         NEW c \in Ids, q[1].hop = c,
         Synced(q, near, nears, far, fars)
  PROVE  /\ \A h \in 0 .. c : q[1].layers[h] = far[h]
         /\ q[1].num = fars[c]
         /\ Synced(Tail(q), near, nears, Use(far, 0 .. c), Use(fars, {c}))
<1> DEFINE r == Tail(q)
<1>1. /\ Len(r) \in Nat /\ Len(q) = Len(r) + 1 /\ Len(q) \in Nat
      /\ \A i \in 1 .. Len(r) : r[i] = q[i + 1]
  BY SeqTail
<1>2. ASSUME NEW S, NEW n \in 0 .. Len(r)
      PROVE  Uses(q, S, n + 1) = Uses(r, S, n) + (IF c \in S THEN 1 ELSE 0)
  <2>1. n \in Nat /\ n <= Len(Tail(q))
    BY <1>1
  <2> QED BY <2>1, UsesTail
<1>3. /\ \A h \in Ids : h \in Nat /\ 0 .. h \subseteq Ids
      /\ \A h \in Ids : (c \in Behind(h) <=> h \in 0 .. c) /\ (c \in Only(h) <=> h = c)
  BY IdsAre
<1>4. ASSUME NEW i \in 1 .. Len(q)
      PROVE  /\ \A h \in 0 .. q[i].hop : q[i].layers[h] = far[h] + Uses(q, Behind(h), i - 1)
             /\ q[i].num = fars[q[i].hop] + Uses(q, Only(q[i].hop), i - 1)
  BY DEF Synced, Numbered
<1>5. ASSUME NEW h \in Ids
      PROVE  /\ near[h] = far[h] + Uses(q, Behind(h), Len(q))
             /\ nears[h] = fars[h] + Uses(q, Only(h), Len(q))
  BY DEF Synced
<1>6. ASSUME NEW h \in Ids
      PROVE  /\ Use(far, 0 .. c)[h] = far[h] + (IF c \in Behind(h) THEN 1 ELSE 0)
             /\ Use(fars, {c})[h] = fars[h] + (IF c \in Only(h) THEN 1 ELSE 0)
             /\ far[h] \in Nat /\ fars[h] \in Nat
  <2>1. Use(far, 0 .. c)[h] = far[h] + (IF c \in Behind(h) THEN 1 ELSE 0)
    BY UseUpTo
  <2>2. Use(fars, {c})[h] = fars[h] + (IF h = c THEN 1 ELSE 0)
    BY UseOne, ZenonT(30)
  <2> HIDE DEF Use, Behind, Only
  <2> QED BY <1>3, <2>1, <2>2
<1> HIDE DEF r
\* A count over q is the count over what is left and one for the cell itself.
<1>7. ASSUME NEW n \in 0 .. Len(r), NEW h \in Ids
      PROVE  /\ far[h] + Uses(q, Behind(h), n + 1) = Use(far, 0 .. c)[h] + Uses(r, Behind(h), n)
             /\ fars[h] + Uses(q, Only(h), n + 1) = Use(fars, {c})[h] + Uses(r, Only(h), n)
  <2>1. Uses(r, Behind(h), n) \in Nat /\ Uses(r, Only(h), n) \in Nat
    BY <1>1, UsesType
  <2>2. /\ Uses(q, Behind(h), n + 1) = Uses(r, Behind(h), n) + (IF c \in Behind(h) THEN 1 ELSE 0)
        /\ Uses(q, Only(h), n + 1) = Uses(r, Only(h), n) + (IF c \in Only(h) THEN 1 ELSE 0)
    BY <1>2
  <2>3. Uses(q, Behind(h), n + 1) \in Nat /\ Uses(q, Only(h), n + 1) \in Nat
    BY <2>1, <2>2
  <2>4. far[h] + Uses(q, Behind(h), n + 1) = Use(far, 0 .. c)[h] + Uses(r, Behind(h), n)
    <3> DEFINE x == Uses(q, Behind(h), n + 1)
               y == Uses(r, Behind(h), n)
               u == Use(far, 0 .. c)[h]
               v == far[h]
               B == c \in Behind(h)
    <3>1. x = y + (IF B THEN 1 ELSE 0) /\ u = v + (IF B THEN 1 ELSE 0) /\ v \in Nat /\ y \in Nat
      BY <1>6, <2>1, <2>2
    <3> HIDE DEF x, y, u, v, B
    <3>2. v + x = u + y
      BY <3>1
    <3> QED BY <3>2 DEF x, y, u, v
  <2>5. fars[h] + Uses(q, Only(h), n + 1) = Use(fars, {c})[h] + Uses(r, Only(h), n)
    <3> DEFINE x == Uses(q, Only(h), n + 1)
               y == Uses(r, Only(h), n)
               u == Use(fars, {c})[h]
               v == fars[h]
               B == c \in Only(h)
    <3>1. x = y + (IF B THEN 1 ELSE 0) /\ u = v + (IF B THEN 1 ELSE 0) /\ v \in Nat /\ y \in Nat
      BY <1>6, <2>1, <2>2
    <3> HIDE DEF x, y, u, v, B
    <3>2. v + x = u + y
      BY <3>1
    <3> QED BY <3>2 DEF x, y, u, v
  <2> QED BY <2>4, <2>5
<1>8. /\ \A h \in 0 .. c : q[1].layers[h] = far[h]
      /\ q[1].num = fars[c]
  <2>1. 1 \in 1 .. Len(q) /\ 1 - 1 = 0
    BY <1>1
  <2>2. /\ \A h \in 0 .. c : q[1].layers[h] = far[h] + Uses(q, Behind(h), 0)
        /\ q[1].num = fars[c] + Uses(q, Only(c), 0)
    BY <1>4, <2>1
  <2>3. \A S : Uses(q, S, 0) = 0
    BY UsesType
  <2> QED BY <1>3, <1>6, <2>2, <2>3
<1>9. ASSUME NEW i \in 1 .. Len(r)
      PROVE  /\ \A h \in 0 .. r[i].hop :
                   r[i].layers[h] = Use(far, 0 .. c)[h] + Uses(r, Behind(h), i - 1)
             /\ r[i].num = Use(fars, {c})[r[i].hop] + Uses(r, Only(r[i].hop), i - 1)
  <2>1. /\ i + 1 \in 1 .. Len(q) /\ (i + 1) - 1 = (i - 1) + 1 /\ i - 1 \in 0 .. Len(r)
        /\ r[i] = q[i + 1]
    BY <1>1
  <2> PICK d \in Ids : r[i].hop = d
    BY <2>1
  <2>2. /\ \A h \in 0 .. d : r[i].layers[h] = far[h] + Uses(q, Behind(h), (i - 1) + 1)
        /\ r[i].num = fars[d] + Uses(q, Only(d), (i - 1) + 1)
    BY <1>4, <2>1
  <2>3. 0 .. d \subseteq Ids
    BY <1>3
  <2>4. ASSUME NEW h \in 0 .. d
        PROVE  r[i].layers[h] = Use(far, 0 .. c)[h] + Uses(r, Behind(h), i - 1)
    <3>1. h \in Ids /\ r[i].layers[h] = far[h] + Uses(q, Behind(h), (i - 1) + 1)
      BY <2>2, <2>3
    <3>2. far[h] + Uses(q, Behind(h), (i - 1) + 1) = Use(far, 0 .. c)[h] + Uses(r, Behind(h), i - 1)
      BY <1>7, <2>1, <3>1, Zenon
    <3> QED BY <3>1, <3>2
  <2>5. fars[d] + Uses(q, Only(d), (i - 1) + 1) = Use(fars, {c})[d] + Uses(r, Only(d), i - 1)
    BY <1>7, <2>1, Zenon
  <2> QED BY <2>2, <2>4, <2>5
<1>10. ASSUME NEW h \in Ids
       PROVE  /\ near[h] = Use(far, 0 .. c)[h] + Uses(r, Behind(h), Len(r))
              /\ nears[h] = Use(fars, {c})[h] + Uses(r, Only(h), Len(r))
  <2>1. Len(r) \in 0 .. Len(r) /\ Len(q) = Len(r) + 1
    BY <1>1
  <2>2. /\ far[h] + Uses(q, Behind(h), Len(q)) = Use(far, 0 .. c)[h] + Uses(r, Behind(h), Len(r))
        /\ fars[h] + Uses(q, Only(h), Len(q)) = Use(fars, {c})[h] + Uses(r, Only(h), Len(r))
    BY <1>7, <2>1, Zenon
  <2> QED BY <1>5, <2>2
<1> QED BY <1>8, <1>9, <1>10 DEF Synced, Numbered, r

-----------------------------------------------------------------------------
(* Handshakes and their answers                                            *)

LEMMA Grow ==
  ASSUME NEW n \in Nat, NEW m \in Nat, n <= m, NEW x
  PROVE  (Answers(x, n) => Answers(x, m)) /\ (Request(x, n) => Request(x, m))
BY DEF Answers, Request

\* Derive accepts an answer only of the relay and to the public key it is for.
LEMMA DeriveAnswer ==
  ASSUME NEW r, NEW X, NEW hs, Derive(hs, Answer(r, [PublicKey |-> X])) # None
  PROVE  /\ hs.PublicKey = X /\ hs.NodeID = r
         /\ Derive(hs, Answer(r, [PublicKey |-> X])) = Answer(r, [PublicKey |-> X]).Auth
         /\ Derive(hs, Answer(r, [PublicKey |-> X])).ID = r
<1> DEFINE a == Answer(r, [PublicKey |-> X])
           s == SecretInput(hs.PublicKey, a.PublicKey, hs.KeyID, hs.NodeID)
<1>1. a.Auth = SecretInput(X, RelayKey(r, X), OnionKey(r), r)
  BY DEF Answer
<1>2. a.Auth = s /\ Derive(hs, a) = s
  BY DEF Derive
<1>3. s.X = hs.PublicKey /\ s.ID = hs.NodeID /\ a.Auth.X = X /\ a.Auth.ID = r
  BY <1>1 DEF SecretInput
<1> QED BY <1>2, <1>3

LEMMA AnswerSame == ASSUME NEW r, NEW hs PROVE Answer(r, hs) = Answer(r, [PublicKey |-> hs.PublicKey])
BY DEF Answer

\* A relay that accepts the handshake of an entry makes the keys Derive makes.
LEMMA DeriveOwn ==
  ASSUME NEW r, NEW hs, Accepts(r, hs)
  PROVE  Derive(hs, Answer(r, hs)) = Answer(r, hs).Auth /\ Answer(r, hs).Auth.ID = r
BY DEF Accepts, Derive, Answer, SecretInput

LEMMA FitsFresh ==
  ASSUME NEW n \in Nat, NEW x, Answers(x, n), NEW ext, ext.hs.PublicKey = ClientKey(n + 1),
         NEW len, NEW chain, NEW secrets
  PROVE  Fits(x, ext, len, chain, secrets)
<1>1. SUFFICES ASSUME Derive(ext.hs, x) # None PROVE FALSE
  BY DEF Fits
<1>2. PICK r \in Relays, k \in 1 .. n : x = Answer(r, [PublicKey |-> ClientKey(k)])
  BY DEF Answers
<1>3. ClientKey(n + 1) = ClientKey(k)
  BY <1>1, <1>2, DeriveAnswer
<1> QED BY <1>3 DEF ClientKey

LEMMA FitsOther ==
  ASSUME NEW r, NEW X, NEW ext, ext.hs.NodeID # r, NEW len, NEW chain, NEW secrets
  PROVE  Fits(Answer(r, [PublicKey |-> X]), ext, len, chain, secrets)
BY DeriveAnswer DEF Fits

\* An answer of the relay just added fits; while there was none behind the last
\* hop, the earlier answers are none that Extend would accept.
LEMMA FitsNew ==
  ASSUME NEW r, NEW X, NEW ext, NEW len, NEW chain, NEW secrets,
         Len(chain) = len + 1, chain[len + 1] = r,
         secrets[len + 1] = Answer(r, [PublicKey |-> X]).Auth
  PROVE  Fits(Answer(r, [PublicKey |-> X]), ext, len, chain, secrets)
BY DeriveAnswer DEF Fits

LEMMA FitsBefore ==
  ASSUME NEW x, NEW ext, NEW len \in Nat, NEW chain, NEW secrets, Len(chain) = len,
         Fits(x, ext, len, chain, secrets), NEW chain2, NEW secrets2
  PROVE  Fits(x, ext, len, chain2, secrets2)
BY DEF Fits

LEMMA FitsIdle ==
  ASSUME NEW x, NEW ext, ext.pc = "idle", NEW len, NEW chain, NEW secrets
  PROVE  Fits(x, ext, len, chain, secrets)
BY DEF Fits

LEMMA FitsSame ==
  ASSUME NEW x, NEW ext, NEW ext2, ext2.pc # "idle" => ext.pc # "idle" /\ ext2.hs = ext.hs,
         NEW len, NEW chain, NEW secrets, Fits(x, ext, len, chain, secrets)
  PROVE  Fits(x, ext2, len, chain, secrets)
BY DEF Fits

-----------------------------------------------------------------------------
(* The path                                                                *)

LEMMA PathFacts ==
  ASSUME PathInv
  PROVE  /\ hops \in Nat /\ Len(relays) \in Nat /\ hops <= MaxHops /\ attempts \in Nat
         /\ IsSeq(keys) /\ IsSeq(relays) /\ IsSeq(relayKeys) /\ IsSeq(link) /\ IsSeq(downlink)
         /\ Len(relayKeys) = Len(relays)
         /\ Len(relays) = hops \/ Len(relays) = hops + 1
         /\ builder.path \in Paths =>
              /\ Len(builder.path) \in Nat /\ Len(builder.path) >= 1 /\ Len(builder.path) <= MaxHops
              /\ \A i, j \in 1 .. Len(builder.path) :
                   /\ builder.path[i].node \in Relays
                   /\ builder.path[i].node = builder.path[j].node => i = j
<1>1. IsSeq(keys) /\ IsSeq(relayKeys) /\ IsSeq(link) /\ IsSeq(downlink) /\ relays \in Seq(Relays)
  BY DEF PathInv, Records, TypeOK
<1>2. hops \in Nat /\ Len(relays) \in Nat /\ IsSeq(relays)
  BY <1>1, SeqLen, SeqIs DEF hops
<1>3. Len(relays) <= MaxHops /\ hops \in Len(relays) - 1 .. Len(relays)
      /\ attempts \in 0 .. MaxAttempts /\ Len(relayKeys) = Len(relays)
  BY DEF PathInv, TypeOK
<1>4. builder.path \in Paths =>
         /\ Len(builder.path) \in 1 .. MaxHops
         /\ \A i, j \in 1 .. Len(builder.path) :
              /\ builder.path[i].node \in Relays
              /\ builder.path[i].node = builder.path[j].node => i = j
  BY OnionAssumption
<1> HIDE DEF hops
<1>5. hops <= MaxHops /\ attempts \in Nat /\ (Len(relays) = hops \/ Len(relays) = hops + 1)
  BY <1>2, <1>3, Sizes
<1> QED BY <1>1, <1>2, <1>3, <1>4, <1>5, Sizes

LEMMA CauseFacts ==
  ASSUME PathInv, NEW why, Fail(why)
  PROVE  /\ cause' = IF cause = "none" THEN why ELSE cause
BY DEF Fail

LEMMA PathInit == Init => PathInv
<1> SUFFICES ASSUME Init PROVE PathInv
  OBVIOUS
<1>1. /\ keys = <<>> /\ relays = <<>> /\ relayKeys = <<>> /\ link = <<>> /\ downlink = <<>>
      /\ IsSeq(<<>>) /\ Len(<<>>) = 0
  BY SeqNone DEF Init
<1>2. Zeros \in [Ids -> Nat]
  BY DEF Zeros
<1>3. TypeOK
  <2>1. relays \in Seq(Relays)
    BY <1>1
  <2>2. ~IsCell(NoCell)
    BY DEF IsCell, NoCell, Ids
  <2>3. arrived \in [Ids -> Seq(Nat)]
    BY DEF Init
  <2>4. extender.pc = "idle" /\ extender.cell = NoCell
    BY DEF Init, Idle
  <2>5. AllCells(link) /\ AllCells(downlink)
    BY <1>1 DEF AllCells
  <2>6. hops = 0 /\ Len(relays) = 0 /\ Len(relayKeys) = 0
    BY <1>1 DEF hops
  <2>7. builder.pc = "start" /\ attempts = 0 /\ offered = 0 /\ replies = 0 /\ cause = "none" /\ writer = NoCell
    BY DEF Init
  <2>8. {forwards, digests, backwards, checked, relayFwd, relayDig, relayBwd, relayNum} \subseteq [Ids -> Nat]
    BY <1>2 DEF Init
  <2> HIDE DEF hops
  <2> QED BY <2>1, <2>2, <2>3, <2>4, <2>5, <2>6, <2>7, <2>8, Sizes DEF TypeOK
<1>4. Records
  BY <1>1 DEF Init, Records, Idle
<1>5. CellsInv
  BY <1>1 DEF Init, CellsInv
<1>6. KeysInv
  BY <1>1 DEF KeysInv, hops
<1>7. BuilderInv
  BY <1>1 DEF Init, BuilderInv, hops
<1>8. ExtenderInv
  BY DEF Init, ExtenderInv, Idle
<1> QED BY <1>3, <1>4, <1>5, <1>6, <1>7, <1>8 DEF PathInv

\* Cells and answers that stay where they are stay what they are.
LEMMA CellsStay ==
  ASSUME PathInv, hops' \in Nat, hops <= hops', attempts' \in Nat, attempts <= attempts',
         \A x : Fits(x, extender, hops, relays, relayKeys) /\ Answers(x, attempts)
                  => Fits(x, extender', hops', relays', relayKeys')
  PROVE  /\ \A c : c.hop \in Int /\ LinkCell(c, attempts, hops) => LinkCell(c, attempts', hops')
         /\ \A c : c.hop \in Int /\ c.hop < hops => c.hop < hops'
         /\ \A x : IsAnswer(x, attempts, extender, hops, relays, relayKeys)
                     => IsAnswer(x, attempts', extender', hops', relays', relayKeys')
<1>1. hops \in Nat /\ attempts \in Nat
  BY PathFacts
<1>2. \A x : /\ Answers(x, attempts) => Answers(x, attempts')
             /\ Request(x, attempts) => Request(x, attempts')
  BY <1>1, Grow
<1> QED BY <1>1, <1>2 DEF LinkCell, IsAnswer

LEMMA CellTypes ==
  ASSUME PathInv
  PROVE  /\ \A i \in 1 .. Len(link) : IsCell(link[i]) /\ link[i].hop \in Int
         /\ \A i \in 1 .. Len(downlink) : IsCell(downlink[i]) /\ downlink[i].hop \in Int
         /\ writer # NoCell => IsCell(writer) /\ writer.hop \in Int
         /\ extender.pc = "marshalled" => IsCell(extender.cell) /\ extender.cell.hop \in Int
         /\ extender.pc = "idle" => extender = Idle
<1>1. \A c : IsCell(c) => c.hop \in Int
  BY IdsAre DEF IsCell
<1> QED BY <1>1 DEF PathInv, TypeOK, AllCells, ExtenderInv

LEMMA BuildPathStep ==
  ASSUME PathInv, NEW path \in Paths, BuildPath(path)
  PROVE  PathInv'
<1>1. /\ builder.pc = "start" /\ attempts = 0 /\ hops = 0 /\ Len(relays) = 0
      /\ \/ builder' = [pc |-> "failed", path |-> path] /\ attempts' = 0
         \/ /\ NewNTorHandshake(path[1], 1) # None
            /\ builder' = [pc |-> "create", path |-> path] /\ attempts' = 1
  BY DEF PathInv, BuilderInv, BuildPath
<1>2. UNCHANGED <<keys, forwards, digests, backwards, checked, writer, extender, extended, offered,
                  cause, link, downlink, relayVars>> /\ hops' = hops
  BY DEF BuildPath, hops
<1>3. TypeOK'
  <2>1. builder'.pc \in {"start", "create", "extend", "up", "failed"} /\ attempts' \in 0 .. MaxAttempts
    BY <1>1, Sizes
  <2> QED BY <1>2, <2>1 DEF PathInv, TypeOK, AllCells, relayVars
<1>4. Records'
  BY <1>1, <1>2 DEF PathInv, Records, relayVars
<1>5. CellsInv'
  <2>1. hops' \in Nat /\ hops <= hops' /\ attempts' \in Nat /\ attempts <= attempts'
    BY <1>1, <1>2
  <2>2. \A x : Fits(x, extender, hops, relays, relayKeys) => Fits(x, extender', hops', relays', relayKeys')
    BY <1>2 DEF relayVars
  <2> QED BY <1>2, <2>1, <2>2, CellsStay, CellTypes DEF PathInv, CellsInv, relayVars
<1>6. KeysInv'
  BY <1>2 DEF PathInv, KeysInv, relayVars
<1>7. BuilderInv'
  BY <1>1, <1>2 DEF BuilderInv, relayVars
<1>8. ExtenderInv'
  <2>1. extender.pc = "idle"
    BY <1>1 DEF PathInv, ExtenderInv, TypeOK
  <2> QED BY <1>2, <2>1 DEF PathInv, ExtenderInv
<1> QED BY <1>3, <1>4, <1>5, <1>6, <1>7, <1>8 DEF PathInv

\* NewCircuit makes the first hop out of the guard's answer.
LEMMA CreateStep ==
  ASSUME PathInv, Create
  PROVE  PathInv'
<1> DEFINE path  == builder.path
           guard == path[1].node
           hs    == NewNTorHandshake(path[1], attempts)
<1>1. /\ builder.pc = "create" /\ attempts = 1 /\ hops = 0 /\ Len(relays) = 0 /\ path \in Paths
      /\ hs # None /\ extender.pc = "idle"
  BY DEF PathInv, BuilderInv, Create, ExtenderInv, TypeOK
<1>2. UNCHANGED <<attempts, forwards, digests, backwards, checked, writer, extender, extended, offered,
                  link, downlink, relayFwd, relayDig, relayBwd, relayNum, replies, arrived>>
  BY DEF Create
<1>3. guard \in Relays /\ Len(path) \in Nat /\ Len(path) >= 1
  BY <1>1, PathFacts
<1>4. \/ /\ Accepts(guard, hs) /\ keys' = <<Derive(hs, Answer(guard, hs))>>
         /\ relays' = <<guard>> /\ relayKeys' = <<Answer(guard, hs).Auth>>
         /\ builder' = [builder EXCEPT !.pc = IF 1 = Len(path) THEN "up" ELSE "extend"]
         /\ cause' = cause
      \/ builder' = [builder EXCEPT !.pc = "failed"] /\ Fail("failed") /\ UNCHANGED <<keys, relays, relayKeys>>
  BY <1>1 DEF Create, Advance
<1>5. builder \in [pc : {"start", "create", "extend", "up", "failed"}, path : Paths \cup {<<>>}]
  BY DEF PathInv, Records
<1>6. CASE UNCHANGED <<keys, relays, relayKeys>> /\ builder' = [builder EXCEPT !.pc = "failed"] /\ Fail("failed")
  <2>1. hops' = hops /\ builder'.pc = "failed" /\ builder'.path = path
        /\ cause' \in {cause, "failed"}
    BY <1>5, <1>6 DEF hops, Fail
  <2>2. TypeOK'
    BY <1>2, <1>6, <2>1 DEF PathInv, TypeOK, AllCells
  <2>3. Records'
    BY <1>2, <1>5, <1>6, <2>1 DEF PathInv, Records
  <2>4. CellsInv'
    BY <1>2, <1>6, <2>1 DEF PathInv, CellsInv
  <2>5. KeysInv' /\ BuilderInv' /\ ExtenderInv'
    BY <1>1, <1>2, <1>6, <2>1 DEF PathInv, KeysInv, BuilderInv, ExtenderInv
  <2> QED BY <2>2, <2>3, <2>4, <2>5 DEF PathInv
<1>7. CASE /\ Accepts(guard, hs) /\ keys' = <<Derive(hs, Answer(guard, hs))>>
           /\ relays' = <<guard>> /\ relayKeys' = <<Answer(guard, hs).Auth>>
           /\ builder' = [builder EXCEPT !.pc = IF 1 = Len(path) THEN "up" ELSE "extend"]
           /\ cause' = cause
  <2>1. /\ hops' = 1 /\ Len(relays') = 1 /\ Len(relayKeys') = 1
        /\ \A i \in 1 .. 1 : keys'[i] = relayKeys'[i] /\ keys'[i].ID = guard /\ relays'[i] = guard
        /\ IsSeq(keys') /\ IsSeq(relayKeys')
    BY <1>7, SeqOne, DeriveOwn DEF hops
  <2>2. relays' \in Seq(Relays)
    BY <1>3, <1>7
  <2>3. builder'.pc = (IF 1 = Len(path) THEN "up" ELSE "extend") /\ builder'.path = path
    BY <1>5, <1>7
  <2>4. TypeOK'
    BY <1>2, <1>7, <2>1, <2>2, <2>3, Sizes, SMTT(30) DEF PathInv, TypeOK, AllCells
  <2>5. Records'
    BY <1>2, <1>5, <1>7, <2>1 DEF PathInv, Records
  <2>6. CellsInv'
    <3>1. \A x : Fits(x, extender', hops', relays', relayKeys')
      BY <1>1, <1>2, FitsIdle
    <3>2. hops' \in Nat /\ hops <= hops' /\ attempts' \in Nat /\ attempts <= attempts'
      BY <1>1, <1>2, <2>1
    <3> QED BY <1>1, <1>2, <2>1, <3>1, <3>2, CellsStay, CellTypes, IdsAre DEF PathInv, CellsInv
  <2>7. KeysInv'
    BY <2>1 DEF KeysInv
  <2>8. BuilderInv'
    <3>1. \A i \in 1 .. Len(path) : i <= 1 => keys'[i].ID = path[i].node
      <4>1. \A i \in 1 .. Len(path) : i <= 1 => i \in 1 .. 1 /\ i = 1
        BY <1>3
      <4> QED BY <2>1, <4>1
    <3> DEFINE n == Len(path)
               at == builder'.pc
    <3>2. at = (IF 1 = n THEN "up" ELSE "extend") /\ hops' = 1 /\ n \in Nat /\ n >= 1
      BY <1>3, <2>1, <2>3
    <3> HIDE DEF n, at
    <3>3. /\ at = "extend" => hops' \in 1 .. n - 1
          /\ at = "up" => hops' >= n
          /\ at \in {"extend", "up"}
      BY <3>2
    <3> QED BY <1>1, <2>1, <2>3, <3>1, <3>3 DEF BuilderInv, n, at
  <2>9. ExtenderInv'
    BY <1>1, <1>2 DEF PathInv, ExtenderInv
  <2> QED BY <2>4, <2>5, <2>6, <2>7, <2>8, <2>9 DEF PathInv
<1> QED BY <1>4, <1>6, <1>7

LEMMA CountsType ==
  ASSUME PathInv
  PROVE  /\ forwards \in [Ids -> Nat] /\ digests \in [Ids -> Nat]
         /\ backwards \in [Ids -> Nat] /\ checked \in [Ids -> Nat]
         /\ relayFwd \in [Ids -> Nat] /\ relayDig \in [Ids -> Nat]
         /\ relayBwd \in [Ids -> Nat] /\ relayNum \in [Ids -> Nat]
BY DEF PathInv, TypeOK

LEMMA MarshalledIs ==
  ASSUME PathInv, NEW dst \in Ids, NEW cmd \in {"EXTEND2", "STREAM"}, NEW body
  PROVE  LET c == Marshalled(dst, cmd, body) IN
         /\ IsCell(c) /\ c.hop = dst /\ c.cmd = cmd /\ c.body = body
         /\ c.num = digests[dst] /\ \A h \in 0 .. dst : c.layers[h] = forwards[h]
<1>1. \A h \in 0 .. dst : forwards[h] \in Nat
  BY CountsType, IdsAre
<1>2. digests[dst] \in Nat
  BY CountsType
<1> QED BY <1>1, <1>2 DEF Marshalled, IsCell

LEMMA NoCellIs == ~IsCell(NoCell) /\ NoCell.hop = -1 /\ NoCell.cmd = "none"
BY DEF IsCell, NoCell, Ids

\* Extend or ExtendTo gives up: BuildPath ends, a later ExtendTo just returns.
LEMMA ExtendErrorStep ==
  ASSUME PathInv, ExtendError, builder.pc \in {"extend", "up"}, extender' = Idle,
         extended' = extended \/ extended' = None,
         UNCHANGED <<attempts, keys, forwards, digests, backwards, checked, writer, offered, link,
                     downlink, relayVars>>
  PROVE  PathInv'
<1>1. /\ UNCHANGED <<attempts, keys, forwards, digests, backwards, checked, writer, offered, link,
                     downlink, relays, relayKeys, relayFwd, relayDig, relayBwd, relayNum, replies,
                     arrived>>
      /\ hops' = hops
  BY DEF relayVars, hops
<1>2. builder \in [pc : {"start", "create", "extend", "up", "failed"}, path : Paths \cup {<<>>}]
  BY DEF PathInv, Records
<1>3. /\ \/ builder.pc = "up" /\ builder' = builder /\ cause' = cause
         \/ builder'.pc = "failed" /\ cause' # "none"
      /\ builder'.path = builder.path
      /\ builder' \in [pc : {"start", "create", "extend", "up", "failed"}, path : Paths \cup {<<>>}]
      /\ cause' \in {cause, "closed"}
  BY <1>2 DEF ExtendError, Fail
<1>4. extender'.pc = "idle" /\ extender'.cell = NoCell
  BY DEF Idle
<1>5. TypeOK'
  BY <1>1, <1>3, <1>4, NoCellIs DEF PathInv, TypeOK, AllCells
<1>6. Records'
  BY <1>1, <1>3 DEF PathInv, Records, Idle
<1>7. CellsInv'
  <2>1. \A x : Fits(x, extender', hops', relays', relayKeys')
    BY <1>4, FitsIdle
  <2>2. hops' \in Nat /\ hops <= hops' /\ attempts' \in Nat /\ attempts <= attempts'
    BY <1>1, PathFacts
  <2> QED BY <1>1, <2>1, <2>2, CellsStay, CellTypes DEF PathInv, CellsInv
<1>8. KeysInv'
  BY <1>1 DEF PathInv, KeysInv
<1>9. BuilderInv'
  BY <1>1, <1>3 DEF PathInv, BuilderInv
<1>10. ExtenderInv'
  BY <1>4 DEF ExtenderInv
<1> QED BY <1>5, <1>6, <1>7, <1>8, <1>9, <1>10 DEF PathInv

LEMMA ExtendToStep ==
  ASSUME PathInv, NEW entry, ExtendTo(entry), builder.pc \in {"extend", "up"},
         hops \in 1 .. MaxHops - 1, entry.node \in Relays,
         \A i \in 1 .. hops : keys[i].ID # entry.node,
         builder.pc = "extend" => entry.node = builder.path[hops + 1].node
  PROVE  PathInv'
<1> DEFINE specs == LinkSpecsFor(entry)
           hs    == NewNTorHandshake(entry, attempts + 1)
           cell  == Marshalled(hops - 1, "EXTEND2", [specs |-> specs, hs |-> hs])
<1>1. /\ UNCHANGED <<keys, backwards, checked, writer, extended, offered, link, downlink, relays,
                     relayKeys, relayFwd, relayDig, relayBwd, relayNum, replies, arrived>>
      /\ hops' = hops /\ extender = Idle /\ attempts < MaxAttempts
  BY DEF ExtendTo, relayVars, hops
<1>2. CASE None \in {specs, hs}
  <2>1. ExtendError /\ UNCHANGED <<attempts, forwards, digests, extender>>
    BY <1>2 DEF ExtendTo
  <2> QED BY <1>1, <2>1, ExtendErrorStep DEF relayVars
<1>3. CASE ~(None \in {specs, hs})
  <2>1. /\ MarshalMessage(hops - 1)
        /\ extender' = [pc |-> "marshalled", hs |-> hs, cell |-> cell]
        /\ attempts' = attempts + 1 /\ UNCHANGED <<builder, cause>>
    BY <1>3 DEF ExtendTo
  <2>2. hs.NodeID = entry.node /\ hs.PublicKey = ClientKey(attempts + 1)
    BY <1>3 DEF NewNTorHandshake
  <2>3. /\ hops \in Nat /\ hops >= 1 /\ hops < MaxHops /\ attempts \in Nat /\ attempts' \in Nat
        /\ attempts + 1 <= MaxAttempts /\ hops - 1 \in Ids /\ (hops - 1) + 2 <= MaxHops
    BY <1>1, <2>1, PathFacts, Sizes DEF Ids
  <2>4. /\ IsCell(cell) /\ cell.hop = hops - 1 /\ cell.cmd = "EXTEND2" /\ cell.body.hs = hs
    <3> PICK dst : dst = hops - 1
      OBVIOUS
    <3> PICK body : body = [specs |-> specs, hs |-> hs]
      OBVIOUS
    <3>1. body.hs = hs
      OBVIOUS
    <3> HIDE DEF hs, specs
    <3>2. cell = Marshalled(dst, "EXTEND2", body)
      OBVIOUS
    <3> HIDE DEF cell
    <3> QED BY <2>3, <3>1, <3>2, MarshalledIs
  <2>5. Request(cell, attempts + 1)
    <3>1. attempts + 1 \in 1 .. attempts + 1
      BY <2>3
    <3> HIDE DEF cell, hs
    <3> QED BY <2>2, <2>3, <2>4, <3>1 DEF Request
  <2>6. /\ extender'.pc = "marshalled" /\ extender'.hs = hs /\ extender'.cell = cell
    BY <2>1
  <2> HIDE DEF cell, hs, specs
  <2>7. forwards' \in [Ids -> Nat] /\ digests' \in [Ids -> Nat]
    BY <2>1, CountsType, UseIs DEF MarshalMessage
  <2>8. TypeOK'
    <3>1. attempts' \in 0 .. MaxAttempts
      BY <2>1, <2>3, Sizes
    <3> QED BY <1>1, <2>1, <2>4, <2>6, <2>7, <3>1 DEF PathInv, TypeOK, AllCells
  <2>9. Records'
    BY <1>1, <2>1, <2>6 DEF PathInv, Records
  <2>10. CellsInv'
    <3>1. \A x : Answers(x, attempts) => Fits(x, extender', hops', relays', relayKeys')
      BY <2>2, <2>3, <2>6, FitsFresh
    <3>2. hops' \in Nat /\ hops <= hops' /\ attempts' \in Nat /\ attempts <= attempts'
      BY <1>1, <2>1, <2>3
    <3> QED BY <1>1, <3>1, <3>2, CellsStay, CellTypes DEF PathInv, CellsInv
  <2>11. KeysInv'
    BY <1>1 DEF PathInv, KeysInv
  <2>12. BuilderInv'
    BY <1>1, <2>1 DEF PathInv, BuilderInv
  <2>13. ExtenderInv'
    <3>1. LinkCell(cell, attempts', hops')
      BY <1>1, <2>1, <2>3, <2>4, <2>5 DEF LinkCell
    <3> QED BY <1>1, <2>1, <2>2, <2>3, <2>4, <2>6, <3>1 DEF ExtenderInv
  <2> QED BY <2>8, <2>9, <2>10, <2>11, <2>12, <2>13 DEF PathInv
<1> QED BY <1>2, <1>3

LEMMA BuilderExtendsStep ==
  ASSUME PathInv, BuilderExtends
  PROVE  PathInv'
<1>1. builder.pc = "extend" /\ hops \in 1 .. Len(builder.path) - 1 /\ builder.path \in Paths
  BY DEF PathInv, BuilderInv, BuilderExtends
<1>2. /\ hops \in Nat /\ Len(builder.path) \in Nat /\ Len(builder.path) <= MaxHops
      /\ \A i, j \in 1 .. Len(builder.path) :
           /\ builder.path[i].node \in Relays
           /\ builder.path[i].node = builder.path[j].node => i = j
  BY <1>1, PathFacts
<1>3. hops + 1 \in 1 .. Len(builder.path) /\ hops \in 1 .. MaxHops - 1
      /\ \A i \in 1 .. hops : i \in 1 .. Len(builder.path) /\ i # hops + 1
  BY <1>1, <1>2, Sizes
<1> PICK entry : entry = builder.path[hops + 1]
  OBVIOUS
<1>4. ExtendTo(entry)
  BY DEF BuilderExtends
<1>5. \A i \in 1 .. hops : keys[i].ID = builder.path[i].node
  BY <1>1, <1>3 DEF PathInv, BuilderInv
<1>6. entry.node \in Relays /\ \A i \in 1 .. hops : keys[i].ID # entry.node
  BY <1>2, <1>3, <1>5, ZenonT(30)
<1> QED BY <1>1, <1>3, <1>4, <1>6, ExtendToStep

LEMMA UserExtendsStep ==
  ASSUME PathInv, UserExtends
  PROVE  PathInv'
<1>1. PICK entry \in Extras : ExtendTo(entry) /\ \A i \in 1 .. hops : keys[i].ID # entry.node
  BY DEF UserExtends
<1>2. builder.pc = "up" /\ hops < MaxHops /\ hops >= Len(builder.path) /\ builder.path \in Paths
  BY DEF UserExtends, PathInv, BuilderInv
<1>3. hops \in 1 .. MaxHops - 1
  BY <1>2, PathFacts, Sizes
<1>4. entry.node \in Relays
  BY OnionAssumption
<1> QED BY <1>1, <1>2, <1>3, <1>4, ExtendToStep

\* A cell goes on the link, or with the circuit.
LEMMA DeliverIs ==
  ASSUME PathInv, NEW cell, IsCell(cell), LinkCell(cell, attempts, hops), Deliver(cell)
  PROVE  /\ IsSeq(link') /\ AllCells(link')
         /\ \A i \in 1 .. Len(link') : LinkCell(link'[i], attempts, hops)
<1>1. /\ \A i \in 1 .. Len(link) : IsCell(link[i]) /\ LinkCell(link[i], attempts, hops)
      /\ IsSeq(link)
  BY PathFacts DEF PathInv, TypeOK, AllCells, CellsInv
<1>2. CASE UNCHANGED link
  BY <1>1, <1>2 DEF AllCells
<1>3. CASE link' = Append(link, cell)
  <2>1. /\ IsSeq(link') /\ Len(link) \in Nat /\ Len(link') = Len(link) + 1
        /\ link'[Len(link) + 1] = cell /\ \A i \in 1 .. Len(link) : link'[i] = link[i]
    BY <1>1, <1>3, SeqAppend
  <2>2. ASSUME NEW i \in 1 .. Len(link')
        PROVE  IsCell(link'[i]) /\ LinkCell(link'[i], attempts, hops)
    <3>1. i \in 1 .. Len(link) \/ i = Len(link) + 1
      BY <2>1
    <3> QED BY <1>1, <2>1, <3>1
  <2> QED BY <2>1, <2>2 DEF AllCells
<1> QED BY <1>2, <1>3 DEF Deliver

LEMMA ExtendSendStep ==
  ASSUME PathInv, ExtendSend
  PROVE  PathInv'
<1>1. /\ UNCHANGED <<builder, attempts, keys, forwards, digests, backwards, checked, writer, extended,
                     offered, cause, downlink, relays, relayKeys, relayFwd, relayDig, relayBwd,
                     relayNum, replies, arrived>>
      /\ hops' = hops /\ extender.pc = "marshalled" /\ Deliver(extender.cell)
  BY DEF ExtendSend, relayVars, hops
<1>2. extender = [pc |-> extender.pc, cell |-> extender.cell, hs |-> extender.hs]
  BY DEF PathInv, Records
<1>3. /\ extender' = [pc |-> "waiting", cell |-> NoCell, hs |-> extender.hs]
      /\ extender'.pc = "waiting" /\ extender'.cell = NoCell /\ extender'.hs = extender.hs
  BY <1>2 DEF ExtendSend
<1>4. /\ IsSeq(link') /\ AllCells(link')
      /\ \A i \in 1 .. Len(link') : LinkCell(link'[i], attempts, hops)
  <2>1. IsCell(extender.cell) /\ LinkCell(extender.cell, attempts, hops)
    BY <1>1 DEF PathInv, TypeOK, ExtenderInv
  <2> QED BY <1>1, <2>1, DeliverIs
<1>5. TypeOK'
  BY <1>1, <1>3, <1>4, NoCellIs DEF PathInv, TypeOK, AllCells
<1>6. Records'
  BY <1>1, <1>3, <1>4 DEF PathInv, Records
<1>7. CellsInv'
  <2>1. \A x : Fits(x, extender, hops, relays, relayKeys)
                 => Fits(x, extender', hops', relays', relayKeys')
    BY <1>1, <1>3, FitsSame
  <2>2. hops' \in Nat /\ hops <= hops' /\ attempts' \in Nat /\ attempts <= attempts'
    BY <1>1, PathFacts
  <2> QED BY <1>1, <1>4, <2>1, <2>2, CellsStay, CellTypes DEF PathInv, CellsInv
<1>8. KeysInv' /\ BuilderInv'
  BY <1>1 DEF PathInv, KeysInv, BuilderInv
<1>9. ExtenderInv'
  BY <1>1, <1>3 DEF PathInv, ExtenderInv
<1> QED BY <1>5, <1>6, <1>7, <1>8, <1>9 DEF PathInv

\* The answer that Derive accepts makes the relay behind the last hop a hop.
LEMMA ExtendAnsweredStep ==
  ASSUME PathInv, ExtendAnswered
  PROVE  PathInv'
<1> DEFINE secret == Derive(extender.hs, extended)
<1>1. /\ UNCHANGED <<attempts, forwards, digests, backwards, checked, writer, offered, link, downlink,
                     relays, relayKeys, relayFwd, relayDig, relayBwd, relayNum, replies, arrived>>
      /\ extender.pc = "waiting" /\ extended # None /\ extended' = None /\ extender' = Idle
  BY DEF ExtendAnswered, relayVars
<1>2. /\ builder.pc \in {"extend", "up"} /\ hops \in 1 .. MaxHops - 1
      /\ builder.pc = "extend" => extender.hs.NodeID = builder.path[hops + 1].node
      /\ builder.path \in Paths
  BY <1>1 DEF PathInv, ExtenderInv, BuilderInv
<1>3. CASE secret = None
  <2>1. ExtendError /\ UNCHANGED keys
    BY <1>3 DEF ExtendAnswered
  <2> QED BY <1>1, <1>2, <2>1, ExtendErrorStep DEF relayVars
<1>4. CASE secret # None
  <2>1. /\ keys' = Append(keys, secret) /\ cause' = cause
        /\ builder' = IF builder.pc = "up" THEN builder
                      ELSE [builder EXCEPT !.pc = IF hops + 1 = Len(builder.path) THEN "up" ELSE "extend"]
    BY <1>4 DEF ExtendAnswered, Advance
  <2>2. IsAnswer(extended, attempts, extender, hops, relays, relayKeys)
    BY <1>1 DEF PathInv, CellsInv
  <2>3. PICK r, X : extended = Answer(r, [PublicKey |-> X])
    BY <2>2 DEF IsAnswer, Answers
  <2>4. /\ Len(relays) = hops + 1 /\ relays[hops + 1] = extender.hs.NodeID
        /\ relayKeys[hops + 1] = secret
        /\ secret.ID = extender.hs.NodeID
    <3>1. secret.ID = r /\ extender.hs.NodeID = r
      BY <1>4, <2>3, DeriveAnswer
    <3> QED BY <1>1, <1>4, <2>2, <3>1 DEF IsAnswer, Fits
  <2> HIDE DEF secret
  <2>5. /\ hops \in Nat /\ IsSeq(keys') /\ Len(keys') = hops + 1 /\ keys'[hops + 1] = secret
        /\ \A i \in 1 .. hops : keys'[i] = keys[i]
    BY <2>1, PathFacts, SeqAppend DEF hops
  <2>6. hops' = hops + 1
    BY <2>5 DEF hops
  <2>7. builder \in [pc : {"start", "create", "extend", "up", "failed"}, path : Paths \cup {<<>>}]
    BY DEF PathInv, Records
  <2>8. /\ builder' \in [pc : {"start", "create", "extend", "up", "failed"}, path : Paths \cup {<<>>}]
        /\ builder'.path = builder.path
        /\ builder.pc = "up" => builder'.pc = "up"
        /\ builder.pc = "extend" =>
             builder'.pc = IF hops + 1 = Len(builder.path) THEN "up" ELSE "extend"
    BY <1>2, <2>1, <2>7
  <2>9. extender'.pc = "idle" /\ extender'.cell = NoCell
    BY <1>1 DEF Idle
  <2>10. ASSUME NEW i \in 1 .. hops'
         PROVE  /\ keys'[i] = relayKeys[i] /\ keys'[i].ID = relays[i]
                /\ i \in 1 .. hops => keys'[i] = keys[i]
                /\ i \notin 1 .. hops => i = hops + 1 /\ keys'[i].ID = extender.hs.NodeID
    <3>1. CASE i \in 1 .. hops
      BY <2>5, <3>1 DEF PathInv, KeysInv
    <3>2. CASE i = hops + 1
      <4>1. i \notin 1 .. hops
        BY <2>5, <3>2
      <4> QED BY <2>4, <2>5, <3>2, <4>1
    <3>3. i \in 1 .. hops \/ i = hops + 1
      BY <2>5, <2>6
    <3> QED BY <3>1, <3>2, <3>3
  <2>11. TypeOK'
    <3>1. hops' \in Len(relays') - 1 .. Len(relays')
      BY <1>1, <2>4, <2>5, <2>6
    <3> QED BY <1>1, <2>1, <2>8, <2>9, <3>1, NoCellIs DEF PathInv, TypeOK, AllCells
  <2>12. Records'
    BY <1>1, <2>5, <2>8 DEF PathInv, Records, Idle
  <2>13. CellsInv'
    <3>1. \A x : Fits(x, extender', hops', relays', relayKeys')
      BY <2>9, FitsIdle
    <3>2. hops' \in Nat /\ hops <= hops' /\ attempts' \in Nat /\ attempts <= attempts'
      BY <1>1, <2>5, <2>6, PathFacts
    <3>3. \A h \in Ids : h < hops => h < hops'
      BY <3>2, <2>5, IdsAre
    <3> QED BY <1>1, <3>1, <3>2, <3>3, CellsStay, CellTypes DEF PathInv, CellsInv
  <2>14. KeysInv'
    BY <1>1, <2>10 DEF KeysInv
  <2>15. BuilderInv'
    <3> DEFINE path == builder.path
    <3>1. Len(path) \in Nat /\ \A i \in 1 .. Len(path) : i <= hops => keys[i].ID = path[i].node
      BY <1>2, PathFacts DEF PathInv, BuilderInv
    <3>2. /\ builder.pc = "extend" => hops + 1 <= Len(path)
          /\ builder.pc = "up" => Len(path) <= hops
      BY <1>2, <2>5, <3>1 DEF PathInv, BuilderInv
    <3>3. ASSUME NEW i \in 1 .. Len(path), i <= hops'
          PROVE  keys'[i].ID = path[i].node
      <4>1. i \in 1 .. hops' /\ i \in Nat
        BY <2>5, <2>6, <3>1, <3>3
      <4>2. CASE i \in 1 .. hops
        <5>1. i <= hops
          BY <2>5, <4>2
        <5> QED BY <2>10, <3>1, <4>1, <4>2, <5>1
      <4>3. CASE i \notin 1 .. hops
        <5>1. i = hops + 1 /\ keys'[i].ID = extender.hs.NodeID
          BY <2>10, <4>1, <4>3
        <5>2. builder.pc = "extend"
          BY <1>2, <2>5, <3>1, <3>2, <5>1
        <5> QED BY <1>2, <5>1, <5>2
      <4> QED BY <4>2, <4>3
    <3>4. /\ builder'.pc = "extend" => hops' \in 1 .. Len(path) - 1
          /\ builder'.pc = "up" => hops' >= Len(path)
          /\ builder'.pc \in {"extend", "up"}
      BY <1>2, <2>5, <2>6, <2>8, <3>1, <3>2
    <3> HIDE DEF path
    <3>5. builder'.path = path /\ path \in Paths
      BY <1>2, <2>8 DEF path
    <3> QED BY <3>3, <3>4, <3>5 DEF BuilderInv
  <2>16. ExtenderInv'
    BY <1>1, <2>9 DEF ExtenderInv
  <2> QED BY <2>11, <2>12, <2>13, <2>14, <2>15, <2>16 DEF PathInv
<1> QED BY <1>3, <1>4

LEMMA ExtendFailStep ==
  ASSUME PathInv, ExtendFail
  PROVE  PathInv'
<1>1. builder.pc \in {"extend", "up"}
  BY DEF PathInv, ExtenderInv, ExtendFail
<1>2. /\ ExtendError /\ extender' = Idle
      /\ UNCHANGED <<attempts, keys, forwards, digests, backwards, checked, writer, extended, offered,
                     link, downlink, relayVars>>
  BY DEF ExtendFail
<1> QED BY <1>1, <1>2, ExtendErrorStep

\* What only moves cells leaves the path and its keys alone.
LEMMA PathStays ==
  ASSUME PathInv, UNCHANGED <<builder, attempts, keys, extender, relays, relayKeys>>,
         cause # "none" => cause' # "none"
  PROVE  /\ hops' = hops /\ KeysInv' /\ BuilderInv' /\ ExtenderInv'
         /\ IsSeq(link') /\ IsSeq(downlink') => Records'
<1>1. hops' = hops
  BY DEF hops
<1>2. KeysInv' /\ BuilderInv' /\ ExtenderInv'
  BY <1>1 DEF PathInv, KeysInv, BuilderInv, ExtenderInv
<1>3. IsSeq(link') /\ IsSeq(downlink') => Records'
  BY DEF PathInv, Records
<1> QED BY <1>1, <1>2, <1>3

LEMMA WriterMarshalStep ==
  ASSUME PathInv, NEW dst \in Ids, WriterMarshal(dst)
  PROVE  PathInv'
<1>1. /\ UNCHANGED <<builder, attempts, keys, backwards, checked, extender, extended, cause, link,
                     downlink, relays, relayKeys, relayFwd, relayDig, relayBwd, relayNum, replies,
                     arrived>>
      /\ dst < hops /\ offered < MaxCells /\ MarshalMessage(dst)
      /\ writer' = Marshalled(dst, "STREAM", None) /\ offered' = offered + 1
  BY DEF WriterMarshal, relayVars
<1>2. hops' = hops /\ KeysInv' /\ BuilderInv' /\ ExtenderInv' /\ Records'
  BY <1>1, PathStays, PathFacts
<1>3. IsCell(writer') /\ writer'.hop = dst /\ writer'.cmd = "STREAM"
  BY <1>1, MarshalledIs
<1>4. forwards' \in [Ids -> Nat] /\ digests' \in [Ids -> Nat]
  BY <1>1, CountsType, UseIs DEF MarshalMessage
<1>5. TypeOK'
  <2>1. offered' \in 0 .. MaxCells
    <3>1. offered \in 0 .. MaxCells /\ offered < MaxCells /\ offered' = offered + 1
      BY <1>1 DEF PathInv, TypeOK
    <3> QED BY <3>1, Sizes
  <2>2. /\ builder'.pc = builder.pc /\ attempts' = attempts /\ relays' = relays
        /\ relayKeys' = relayKeys /\ extender' = extender /\ cause' = cause
        /\ AllCells(link') = AllCells(link) /\ AllCells(downlink') = AllCells(downlink)
        /\ replies' = replies /\ arrived' = arrived
    BY <1>1
  <2>3. {forwards', digests', backwards', checked', relayFwd', relayDig', relayBwd', relayNum'}
          \subseteq [Ids -> Nat]
    <3>1. {forwards, digests, backwards, checked, relayFwd, relayDig, relayBwd, relayNum}
            \subseteq [Ids -> Nat]
      BY DEF PathInv, TypeOK
    <3>2. \A f \in {backwards, checked, relayFwd, relayDig, relayBwd, relayNum} : f \in [Ids -> Nat]
      BY <3>1
    <3> QED BY <1>1, <1>4, <3>2
  <2> QED BY <1>2, <1>3, <2>1, <2>2, <2>3 DEF PathInv, TypeOK
<1>6. CellsInv'
  BY <1>1, <1>2, <1>3 DEF PathInv, CellsInv
<1> QED BY <1>2, <1>5, <1>6 DEF PathInv

LEMMA WriterSendStep ==
  ASSUME PathInv, WriterSend
  PROVE  PathInv'
<1>1. /\ UNCHANGED <<builder, attempts, keys, forwards, digests, backwards, checked, extender, extended,
                     offered, cause, downlink, relays, relayKeys, relayFwd, relayDig, relayBwd,
                     relayNum, replies, arrived>>
      /\ writer # NoCell /\ Deliver(writer) /\ writer' = NoCell
  BY DEF WriterSend, relayVars
<1>2. /\ IsSeq(link') /\ AllCells(link')
      /\ \A i \in 1 .. Len(link') : LinkCell(link'[i], attempts, hops)
  <2>1. IsCell(writer) /\ LinkCell(writer, attempts, hops)
    BY <1>1 DEF PathInv, TypeOK, CellsInv, LinkCell
  <2> QED BY <1>1, <2>1, DeliverIs
<1>3. hops' = hops /\ KeysInv' /\ BuilderInv' /\ ExtenderInv' /\ Records'
  BY <1>1, <1>2, PathStays, PathFacts
<1>4. TypeOK'
  BY <1>1, <1>2, <1>3 DEF PathInv, TypeOK, AllCells
<1>5. CellsInv'
  BY <1>1, <1>2, <1>3 DEF PathInv, CellsInv
<1> QED BY <1>3, <1>4, <1>5 DEF PathInv

LEMMA CloseCircuitStep ==
  ASSUME PathInv, CloseCircuit
  PROVE  PathInv'
<1>1. /\ UNCHANGED <<builder, attempts, keys, forwards, digests, backwards, checked, writer, extender,
                     extended, offered, link, downlink, relays, relayKeys, relayFwd, relayDig,
                     relayBwd, relayNum, replies, arrived>>
      /\ cause' = "closed"
  BY DEF CloseCircuit, clientVars, relayVars
<1>2. hops' = hops /\ KeysInv' /\ BuilderInv' /\ ExtenderInv' /\ Records'
  BY <1>1, PathStays, PathFacts
<1>3. TypeOK'
  BY <1>1, <1>2 DEF PathInv, TypeOK, AllCells
<1>4. CellsInv'
  BY <1>1, <1>2 DEF PathInv, CellsInv
<1> QED BY <1>2, <1>3, <1>4 DEF PathInv

\* A queue that has lost its first cell has no other cells.
LEMMA RestIs ==
  ASSUME NEW q, IsSeq(q), q # <<>>
  PROVE  /\ IsSeq(Tail(q)) /\ (AllCells(q) => AllCells(Tail(q))) /\ Len(q) \in Nat
         /\ 1 \in 1 .. Len(q) /\ Head(q) = q[1]
         /\ \A i \in 1 .. Len(Tail(q)) : i + 1 \in 1 .. Len(q) /\ Tail(q)[i] = q[i + 1]
<1>1. /\ IsSeq(Tail(q)) /\ Len(Tail(q)) \in Nat /\ Len(q) = Len(Tail(q)) + 1 /\ Head(q) = q[1]
      /\ \A i \in 1 .. Len(Tail(q)) : Tail(q)[i] = q[i + 1]
  BY SeqTail
<1>2. Len(q) \in Nat /\ 1 \in 1 .. Len(q) /\ \A i \in 1 .. Len(Tail(q)) : i + 1 \in 1 .. Len(q)
  BY <1>1
<1> QED BY <1>1, <1>2 DEF AllCells

LEMMA ReadCellStep ==
  ASSUME PathInv, ReadCell
  PROVE  PathInv'
<1>1. /\ UNCHANGED <<builder, attempts, keys, forwards, digests, writer, extender, offered, link,
                     relays, relayKeys, relayFwd, relayDig, relayBwd, relayNum, replies, arrived>>
      /\ downlink # <<>> /\ downlink' = Tail(downlink)
  BY DEF ReadCell, relayVars
<1>2. /\ IsSeq(downlink) /\ IsSeq(downlink') /\ (AllCells(downlink) => AllCells(downlink'))
      /\ 1 \in 1 .. Len(downlink) /\ Head(downlink) = downlink[1]
      /\ \A i \in 1 .. Len(downlink') : i + 1 \in 1 .. Len(downlink) /\ downlink'[i] = downlink[i + 1]
  BY <1>1, PathFacts, RestIs
<1>3. /\ backwards' \in [Ids -> Nat] /\ checked' \in [Ids -> Nat]
      /\ cause' \in {cause, "unknown", "decrypt", "accident"}
      /\ cause # "none" => cause' # "none"
      /\ extended' # extended => Head(downlink).cmd = "EXTENDED2" /\ extended' = Head(downlink).body
  <2> DEFINE cell == Head(downlink)
  <2>0. /\ \A S : Use(backwards, S) \in [Ids -> Nat] /\ Use(checked, S) \in [Ids -> Nat]
        /\ checked \in [Ids -> Nat]
    BY CountsType, UseIs
  <2>1. CASE \E id \in 0 .. hops - 1 :
              /\ \A j \in 0 .. id - 1 : ~Own(cell, j)
              /\ backwards' = Use(backwards, Peeled(id))
              /\ IF Own(cell, id) /\ cell.cmd = "TRUNCATED"
                   THEN Fail("unknown") /\ UNCHANGED <<checked, extended>>
                   ELSE /\ checked' = Use(checked, {id})
                        /\ IF Own(cell, id) /\ cell.num = checked[id]
                             THEN /\ extended' = IF cell.cmd = "EXTENDED2" /\ extended = None
                                                   THEN cell.body ELSE extended
                                  /\ UNCHANGED cause
                             ELSE /\ Fail(IF Own(cell, id) THEN "decrypt" ELSE "accident")
                                  /\ UNCHANGED extended
    <3> PICK id \in 0 .. hops - 1 :
              /\ backwards' = Use(backwards, Peeled(id))
              /\ IF Own(cell, id) /\ cell.cmd = "TRUNCATED"
                   THEN Fail("unknown") /\ UNCHANGED <<checked, extended>>
                   ELSE /\ checked' = Use(checked, {id})
                        /\ IF Own(cell, id) /\ cell.num = checked[id]
                             THEN /\ extended' = IF cell.cmd = "EXTENDED2" /\ extended = None
                                                   THEN cell.body ELSE extended
                                  /\ UNCHANGED cause
                             ELSE /\ Fail(IF Own(cell, id) THEN "decrypt" ELSE "accident")
                                  /\ UNCHANGED extended
      BY <2>1
    <3> HIDE DEF cell
    <3>1. backwards' \in [Ids -> Nat] /\ checked' \in [Ids -> Nat]
      BY <2>0
    <3>2. /\ cause' \in {cause, "unknown", "decrypt", "accident"}
          /\ cause # "none" => cause' # "none"
      BY DEF Fail
    <3>3. extended' # extended => cell.cmd = "EXTENDED2" /\ extended' = cell.body
      OBVIOUS
    <3> QED BY <3>1, <3>2, <3>3 DEF cell
  <2>2. CASE /\ backwards' = Use(backwards, 0 .. hops - 1)
             /\ Fail("decrypt")
             /\ UNCHANGED <<checked, extended>>
    <3>1. backwards' \in [Ids -> Nat] /\ checked' \in [Ids -> Nat]
      BY <2>0, <2>2
    <3>2. /\ cause' \in {cause, "unknown", "decrypt", "accident"}
          /\ cause # "none" => cause' # "none"
      BY <2>2 DEF Fail
    <3> QED BY <2>2, <3>1, <3>2
  <2> QED BY <2>1, <2>2 DEF ReadCell
<1>4. hops' = hops /\ KeysInv' /\ BuilderInv' /\ ExtenderInv' /\ Records'
  BY <1>1, <1>2, <1>3, PathStays, PathFacts
<1>5. TypeOK'
  <2>1. /\ AllCells(downlink') /\ AllCells(link')
        /\ cause' \in {"none", "closed", "failed", "destroyed", "decrypt", "accident", "unknown", "refused"}
    BY <1>1, <1>2, <1>3 DEF PathInv, TypeOK, AllCells
  <2> QED BY <1>1, <1>3, <1>4, <2>1 DEF PathInv, TypeOK
<1>6. CellsInv'
  <2>1. extended' # None => IsAnswer(extended', attempts, extender, hops, relays, relayKeys)
    BY <1>2, <1>3 DEF PathInv, CellsInv
  <2>2. \A i \in 1 .. Len(downlink') :
          /\ downlink'[i].hop < hops
          /\ downlink'[i].cmd = "EXTENDED2" =>
               IsAnswer(downlink'[i].body, attempts, extender, hops, relays, relayKeys)
    BY <1>2 DEF PathInv, CellsInv
  <2> QED BY <1>1, <1>4, <2>1, <2>2 DEF PathInv, CellsInv
<1> QED BY <1>4, <1>5, <1>6 DEF PathInv

\* The cell that Reply sends.
Replied(h, cmd, body) ==
    [hop |-> h, cmd |-> cmd, num |-> relayNum[h], body |-> body,
     layers |-> [i \in 0 .. h |-> relayBwd[i]]]

\* The queue r is q and one more cell.
Joined(q, cell, r) ==
    /\ IsSeq(r) /\ AllCells(r)
    /\ \A i \in 1 .. Len(r) : r[i] = cell \/ \E j \in 1 .. Len(q) : r[i] = q[j]

Replies(h, cmd, body) ==
    /\ relayBwd' \in [Ids -> Nat] /\ relayNum' \in [Ids -> Nat]
    /\ \E cell : /\ cell.hop = h /\ cell.cmd = cmd /\ cell.body = body
                /\ Joined(downlink, cell, downlink')

LEMMA ReplyIs ==
  ASSUME PathInv, NEW h \in Ids, NEW cmd \in {"EXTENDED2", "TRUNCATED", "STREAM"}, NEW body,
         Reply(h, cmd, body)
  PROVE  Replies(h, cmd, body)
<1> PICK cell : cell = Replied(h, cmd, body)
  OBVIOUS
<1>1. /\ relayBwd' = Use(relayBwd, 0 .. h) /\ relayNum' = Use(relayNum, {h})
      /\ downlink' = Append(downlink, cell)
  BY DEF Reply, Replied
<1>2. relayBwd' \in [Ids -> Nat] /\ relayNum' \in [Ids -> Nat]
  BY <1>1, CountsType, UseIs
<1>3. \A g \in 0 .. h : relayBwd[g] \in Nat
  BY CountsType, IdsAre
<1>4. relayNum[h] \in Nat
  BY CountsType
<1>5. IsCell(cell) /\ cell.hop = h /\ cell.cmd = cmd /\ cell.body = body
  BY <1>3, <1>4 DEF IsCell, Replied
<1>6. /\ IsSeq(downlink') /\ Len(downlink) \in Nat /\ Len(downlink') = Len(downlink) + 1
      /\ downlink'[Len(downlink) + 1] = cell
      /\ \A i \in 1 .. Len(downlink) : downlink'[i] = downlink[i]
  BY <1>1, PathFacts, SeqAppend
<1>7. \A i \in 1 .. Len(downlink') :
        downlink'[i] = cell \/ \E j \in 1 .. Len(downlink) : downlink'[i] = downlink[j]
  <2> SUFFICES ASSUME NEW i \in 1 .. Len(downlink')
               PROVE  downlink'[i] = cell \/ \E j \in 1 .. Len(downlink) : downlink'[i] = downlink[j]
    OBVIOUS
  <2>1. i \in 1 .. Len(downlink) \/ i = Len(downlink) + 1
    BY <1>6
  <2> QED BY <1>6, <2>1
<1>8. AllCells(downlink')
  BY <1>5, <1>7, CellTypes DEF AllCells
<1>9. Joined(downlink, cell, downlink')
  BY <1>6, <1>7, <1>8 DEF Joined
<1> QED BY <1>2, <1>5, <1>9 DEF Replies

LEMMA RelaySendStep ==
  ASSUME PathInv, NEW h \in Ids, RelaySend(h)
  PROVE  PathInv'
<1>1. /\ UNCHANGED <<builder, attempts, keys, forwards, digests, backwards, checked, writer, extender,
                     extended, offered, cause, link, relays, relayKeys, relayFwd, relayDig, arrived>>
      /\ Reply(h, "STREAM", None) /\ h < hops /\ replies < MaxReplies /\ replies' = replies + 1
  BY DEF RelaySend, clientVars, PathInv, CellsInv
<1>2. PICK cell : /\ cell.hop = h /\ cell.cmd = "STREAM" /\ cell.body = None
                  /\ Joined(downlink, cell, downlink')
                  /\ relayBwd' \in [Ids -> Nat] /\ relayNum' \in [Ids -> Nat]
  <2>1. Replies(h, "STREAM", None)
    BY <1>1, ReplyIs, Zenon
  <2> QED BY <2>1 DEF Replies
<1>3. /\ IsSeq(downlink') /\ AllCells(downlink')
      /\ \A i \in 1 .. Len(downlink') :
           downlink'[i] = cell \/ \E j \in 1 .. Len(downlink) : downlink'[i] = downlink[j]
  BY <1>2 DEF Joined
<1>4. hops' = hops /\ KeysInv' /\ BuilderInv' /\ ExtenderInv' /\ Records'
  BY <1>1, <1>3, PathStays, PathFacts
<1>5. TypeOK'
  <2>1. replies' \in 0 .. MaxReplies
    <3>1. replies \in 0 .. MaxReplies /\ replies < MaxReplies /\ replies' = replies + 1
      BY <1>1 DEF PathInv, TypeOK
    <3> QED BY <3>1, Sizes
  <2>2. AllCells(link') /\ AllCells(downlink')
    BY <1>1, <1>3 DEF PathInv, TypeOK, AllCells
  <2>3. relayBwd' \in [Ids -> Nat] /\ relayNum' \in [Ids -> Nat]
    BY <1>2
  <2> QED BY <1>1, <1>4, <2>1, <2>2, <2>3, ZenonT(30) DEF PathInv, TypeOK
<1>6. CellsInv'
  <2>1. ASSUME NEW i \in 1 .. Len(downlink')
        PROVE  /\ downlink'[i].hop < hops
               /\ downlink'[i].cmd = "EXTENDED2" =>
                    IsAnswer(downlink'[i].body, attempts, extender, hops, relays, relayKeys)
    BY <1>1, <1>2, <1>3 DEF PathInv, CellsInv
  <2> QED BY <1>1, <1>4, <2>1 DEF PathInv, CellsInv
<1> QED BY <1>4, <1>5, <1>6 DEF PathInv

\* The first cell of the way out, and what an EXTEND2 among them asks for.
LEMMA ArrivingCell ==
  ASSUME PathInv, link # <<>>, NEW cell, cell = Head(link), NEW h, h = cell.hop
  PROVE  /\ h \in Ids /\ h + 1 \in 1 .. hops /\ h < hops /\ relays[h + 1] \in Relays
         /\ cell.cmd = "EXTEND2" \/ cell.cmd = "STREAM"
         /\ cell.cmd = "EXTEND2" => Request(cell, attempts)
<1>1. 1 \in 1 .. Len(link) /\ cell = link[1]
  BY PathFacts, RestIs
<1>2. IsCell(cell) /\ LinkCell(cell, attempts, hops)
  BY <1>1, CellTypes DEF PathInv, CellsInv
<1>3. h \in Ids /\ h \in Nat /\ h < hops
  BY <1>2, IdsAre DEF IsCell, LinkCell
<1>4. h + 1 \in 1 .. hops /\ h + 1 \in 1 .. Len(relays)
  BY <1>3, PathFacts
<1>5. relays[h + 1] \in Relays
  BY <1>4 DEF PathInv, TypeOK
<1> QED BY <1>2, <1>3, <1>4, <1>5 DEF LinkCell

\* The answer of a relay in the place of the one behind it.
LEMMA RelayAnswersItselfStep ==
  ASSUME PathInv, RelayAnswersItself
  PROVE  PathInv'
<1> PICK head : head = Head(link)
  OBVIOUS
<1> PICK h : h = head.hop
  OBVIOUS
<1> PICK r : r = relays[h + 1]
  OBVIOUS
<1> PICK x : x = Answer(r, head.body.hs)
  OBVIOUS
<1>1. /\ UNCHANGED <<builder, attempts, keys, forwards, digests, backwards, checked, writer, extender,
                     extended, offered, cause, link, relays, relayKeys, relayFwd, relayDig, arrived>>
      /\ link # <<>> /\ head.cmd = "EXTEND2" /\ Reply(h, "EXTENDED2", x)
      /\ replies < MaxReplies /\ replies' = replies + 1
  BY DEF RelayAnswersItself, clientVars
<1>2. h \in Ids /\ h + 1 \in 1 .. hops /\ h < hops /\ r \in Relays /\ Request(head, attempts)
  BY <1>1, ArrivingCell
<1>3. PICK cell : /\ cell.hop = h /\ cell.cmd = "EXTENDED2" /\ cell.body = x
                  /\ Joined(downlink, cell, downlink')
                  /\ relayBwd' \in [Ids -> Nat] /\ relayNum' \in [Ids -> Nat]
  <2>1. Replies(h, "EXTENDED2", x)
    BY <1>1, <1>2, ReplyIs, Zenon
  <2> QED BY <2>1 DEF Replies
<1>4. /\ IsSeq(downlink') /\ AllCells(downlink')
      /\ \A i \in 1 .. Len(downlink') :
           downlink'[i] = cell \/ \E j \in 1 .. Len(downlink) : downlink'[i] = downlink[j]
  BY <1>3 DEF Joined
<1>5. hops' = hops /\ KeysInv' /\ BuilderInv' /\ ExtenderInv' /\ Records'
  BY <1>1, <1>4, PathStays, PathFacts
<1>6. IsAnswer(x, attempts, extender, hops, relays, relayKeys)
  <2>1. PICK k \in 1 .. attempts : head.body.hs.PublicKey = ClientKey(k)
    BY <1>2 DEF Request
  <2>2. x = Answer(r, [PublicKey |-> ClientKey(k)])
    BY <2>1, AnswerSame
  <2>3. Answers(x, attempts)
    BY <1>2, <2>2 DEF Answers
  <2>4. CASE extender.pc = "idle"
    BY <2>3, <2>4, FitsIdle DEF IsAnswer
  <2>5. CASE extender.pc # "idle"
    <3>1. keys[h + 1].ID = r /\ keys[h + 1].ID # extender.hs.NodeID
      BY <1>2, <2>5 DEF PathInv, KeysInv, ExtenderInv
    <3> QED BY <2>2, <2>3, <3>1, FitsOther DEF IsAnswer
  <2> QED BY <2>4, <2>5
<1>7. TypeOK'
  <2>1. replies' \in 0 .. MaxReplies
    <3>1. replies \in 0 .. MaxReplies /\ replies < MaxReplies /\ replies' = replies + 1
      BY <1>1 DEF PathInv, TypeOK
    <3> QED BY <3>1, Sizes
  <2>2. AllCells(link') /\ AllCells(downlink')
    BY <1>1, <1>4 DEF PathInv, TypeOK, AllCells
  <2>3. relayBwd' \in [Ids -> Nat] /\ relayNum' \in [Ids -> Nat]
    BY <1>3
  <2> QED BY <1>1, <1>5, <2>1, <2>2, <2>3 DEF PathInv, TypeOK
<1>8. CellsInv'
  <2>1. ASSUME NEW i \in 1 .. Len(downlink')
        PROVE  /\ downlink'[i].hop < hops
               /\ downlink'[i].cmd = "EXTENDED2" =>
                    IsAnswer(downlink'[i].body, attempts, extender, hops, relays, relayKeys)
    BY <1>2, <1>3, <1>4, <1>6 DEF PathInv, CellsInv
  <2> QED BY <1>1, <1>5, <2>1 DEF PathInv, CellsInv
<1> QED BY <1>5, <1>7, <1>8 DEF PathInv

LEMMA LinkRest ==
  ASSUME PathInv, link # <<>>, link' = Tail(link)
  PROVE  /\ IsSeq(link') /\ AllCells(link')
         /\ \A i \in 1 .. Len(link') : i + 1 \in 1 .. Len(link) /\ link'[i] = link[i + 1]
<1> PICK q : q = link
  OBVIOUS
<1>1. IsSeq(q) /\ q # <<>> /\ AllCells(q)
  BY PathFacts DEF PathInv, TypeOK
<1>2. /\ IsSeq(Tail(q)) /\ AllCells(Tail(q))
      /\ \A i \in 1 .. Len(Tail(q)) : i + 1 \in 1 .. Len(q) /\ Tail(q)[i] = q[i + 1]
  BY <1>1, RestIs
<1> QED BY <1>2

LEMMA TypesStay ==
  ASSUME PathInv,
         UNCHANGED <<builder, attempts, keys, forwards, digests, backwards, checked, writer, extender,
                     offered, replies, relays, relayKeys>>,
         relayFwd' \in [Ids -> Nat], relayDig' \in [Ids -> Nat],
         relayBwd' \in [Ids -> Nat], relayNum' \in [Ids -> Nat],
         cause' \in {cause, "refused", "destroyed"}, AllCells(link'), AllCells(downlink'),
         arrived' \in [Ids -> Seq(Nat)]
  PROVE  TypeOK'
<1>1. cause' \in {"none", "closed", "failed", "destroyed", "decrypt", "accident", "unknown", "refused"}
  BY DEF PathInv, TypeOK
<1>2. hops' = hops
  BY DEF hops
<1> QED BY <1>1, <1>2 DEF PathInv, TypeOK

\* A cell that is not passed on to a new relay: it may end the circuit, arrive
\* for a stream, or be answered with TRUNCATED.
LEMMA RelayReceivesStep ==
  ASSUME PathInv, link # <<>>, link' = Tail(link), NEW h \in Ids, h < hops,
         relayFwd' \in [Ids -> Nat], relayDig' \in [Ids -> Nat],
         UNCHANGED <<clientVars, replies, relays, relayKeys>>,
         cause' \in {cause, "refused", "destroyed"}, cause # "none" => cause' # "none",
         NEW num \in Nat,
         arrived' = arrived \/ arrived' = [arrived EXCEPT ![h] = Append(@, num)],
         \/ UNCHANGED <<downlink, relayBwd, relayNum>>
         \/ Reply(h, "TRUNCATED", None)
  PROVE  PathInv'
<1>1. /\ UNCHANGED <<builder, attempts, keys, forwards, digests, backwards, checked, writer, extender,
                     extended, offered, replies, relays, relayKeys>>
  BY DEF clientVars
<1>2. /\ IsSeq(downlink') /\ AllCells(downlink')
      /\ relayBwd' \in [Ids -> Nat] /\ relayNum' \in [Ids -> Nat]
      /\ \A i \in 1 .. Len(downlink') :
           \/ downlink'[i].hop = h /\ downlink'[i].cmd = "TRUNCATED"
           \/ \E j \in 1 .. Len(downlink) : downlink'[i] = downlink[j]
  <2>1. CASE UNCHANGED <<downlink, relayBwd, relayNum>>
    BY <2>1, PathFacts, CountsType DEF PathInv, TypeOK, AllCells
  <2>2. CASE Reply(h, "TRUNCATED", None)
    <3>1. PICK cell : /\ cell.hop = h /\ cell.cmd = "TRUNCATED" /\ cell.body = None
                      /\ Joined(downlink, cell, downlink')
                      /\ relayBwd' \in [Ids -> Nat] /\ relayNum' \in [Ids -> Nat]
      <4>1. Replies(h, "TRUNCATED", None)
        BY <2>2, ReplyIs, Zenon
      <4> QED BY <4>1 DEF Replies
    <3>2. /\ IsSeq(downlink') /\ AllCells(downlink')
          /\ \A i \in 1 .. Len(downlink') :
               downlink'[i] = cell \/ \E j \in 1 .. Len(downlink) : downlink'[i] = downlink[j]
      BY <3>1 DEF Joined
    <3> QED BY <3>1, <3>2
  <2> QED BY <2>1, <2>2
<1>3. /\ IsSeq(link') /\ AllCells(link')
      /\ \A i \in 1 .. Len(link') : i + 1 \in 1 .. Len(link) /\ link'[i] = link[i + 1]
  BY LinkRest
<1>4. hops' = hops /\ KeysInv' /\ BuilderInv' /\ ExtenderInv' /\ Records'
  BY <1>1, <1>2, <1>3, PathStays
<1>5. arrived' \in [Ids -> Seq(Nat)]
  <2>1. arrived \in [Ids -> Seq(Nat)]
    BY DEF PathInv, TypeOK
  <2>2. Append(arrived[h], num) \in Seq(Nat)
    BY <2>1, AppendProperties
  <2> QED BY <2>1, <2>2
<1>6. TypeOK'
  <2>1. AllCells(link') /\ AllCells(downlink')
    BY <1>2, <1>3
  <2>2. relayBwd' \in [Ids -> Nat] /\ relayNum' \in [Ids -> Nat]
    BY <1>2
  <2> QED BY <1>1, <1>5, <2>1, <2>2, TypesStay, Zenon
<1>7. CellsInv'
  <2>1. ASSUME NEW i \in 1 .. Len(downlink')
        PROVE  /\ downlink'[i].hop < hops
               /\ downlink'[i].cmd = "EXTENDED2" =>
                    IsAnswer(downlink'[i].body, attempts, extender, hops, relays, relayKeys)
    BY <1>2 DEF PathInv, CellsInv
  <2>2. ASSUME NEW i \in 1 .. Len(link') PROVE LinkCell(link'[i], attempts, hops)
    BY <1>3 DEF PathInv, CellsInv
  <2>3. ASSUME NEW g \in Ids, arrived'[g] # <<>> PROVE g < hops
    BY <2>3 DEF PathInv, CellsInv, TypeOK
  <2> QED BY <1>1, <1>4, <2>1, <2>2, <2>3 DEF PathInv, CellsInv
<1> QED BY <1>4, <1>6, <1>7 DEF PathInv

\* The last relay of the circuit passes the handshake on to the one behind it.
LEMMA RelayExtendsStep ==
  ASSUME PathInv, link # <<>>, link' = Tail(link), NEW h \in Ids, h < hops,
         relayFwd' \in [Ids -> Nat], relayDig' \in [Ids -> Nat],
         UNCHANGED <<clientVars, replies, cause, arrived>>,
         ~(Len(relays) > h + 1), h + 2 <= MaxHops, NEW next \in Relays,
         NEW k \in 1 .. attempts, NEW hs, hs.PublicKey = ClientKey(k), Accepts(next, hs),
         relays' = Append(relays, next), relayKeys' = Append(relayKeys, Answer(next, hs).Auth),
         Reply(h, "EXTENDED2", Answer(next, hs))
  PROVE  PathInv'
<1> PICK x : x = Answer(next, hs)
  OBVIOUS
<1>1. /\ UNCHANGED <<builder, attempts, keys, forwards, digests, backwards, checked, writer, extender,
                     extended, offered, replies, cause, arrived>>
      /\ hops' = hops
  BY DEF clientVars, hops
<1>2. h + 1 = hops /\ Len(relays) = hops /\ hops \in Nat /\ hops + 1 <= MaxHops
  BY IdsAre, PathFacts, SMTT(30)
<1>3. /\ IsSeq(relays) /\ IsSeq(relayKeys) /\ Len(relayKeys) = hops
  BY <1>2, PathFacts
<1>4. /\ Len(relays') = hops + 1 /\ relays'[hops + 1] = next
      /\ \A i \in 1 .. hops : relays'[i] = relays[i]
  BY <1>2, <1>3, SeqAppend
<1>5. /\ IsSeq(relayKeys') /\ Len(relayKeys') = hops + 1 /\ relayKeys'[hops + 1] = x.Auth
      /\ \A i \in 1 .. hops : relayKeys'[i] = relayKeys[i]
  BY <1>2, <1>3, SeqAppend
<1>6. PICK cell : /\ cell.hop = h /\ cell.cmd = "EXTENDED2" /\ cell.body = x
                   /\ Joined(downlink, cell, downlink')
                   /\ relayBwd' \in [Ids -> Nat] /\ relayNum' \in [Ids -> Nat]
  <2>1. Replies(h, "EXTENDED2", x)
    BY ReplyIs, Zenon
  <2> QED BY <2>1 DEF Replies
<1>7. /\ IsSeq(downlink') /\ AllCells(downlink')
      /\ \A i \in 1 .. Len(downlink') :
           downlink'[i] = cell \/ \E j \in 1 .. Len(downlink) : downlink'[i] = downlink[j]
  BY <1>6 DEF Joined
<1>8. /\ IsSeq(link') /\ AllCells(link')
      /\ \A i \in 1 .. Len(link') : i + 1 \in 1 .. Len(link) /\ link'[i] = link[i + 1]
  BY LinkRest
<1>9. TypeOK'
  <2>1. relays' \in Seq(Relays)
    BY DEF PathInv, TypeOK
  <2>2. hops' \in Len(relays') - 1 .. Len(relays') /\ Len(relays') <= MaxHops
    BY <1>1, <1>2, <1>4
  <2>3. relayBwd' \in [Ids -> Nat] /\ relayNum' \in [Ids -> Nat]
    BY <1>6
  <2>4. Len(relayKeys') = Len(relays')
    BY <1>4, <1>5
  <2>5. AllCells(link') /\ AllCells(downlink')
    BY <1>7, <1>8
  <2> QED BY <1>1, <2>1, <2>2, <2>3, <2>4, <2>5, ZenonT(30) DEF PathInv, TypeOK
<1>10. Records'
  BY <1>1, <1>5, <1>7, <1>8 DEF PathInv, Records
<1>11. CellsInv'
  <2>1. x = Answer(next, [PublicKey |-> ClientKey(k)])
    BY AnswerSame
  <2>2. IsAnswer(x, attempts, extender, hops, relays', relayKeys')
    <3>1. Answers(x, attempts)
      BY <2>1 DEF Answers
    <3>2. Fits(x, extender, hops, relays', relayKeys')
      <4> PICK chain : chain = relays'
        OBVIOUS
      <4> PICK secrets : secrets = relayKeys'
        OBVIOUS
      <4> PICK ext : ext = extender
        OBVIOUS
      <4> PICK X : X = ClientKey(k)
        OBVIOUS
      <4> PICK n : n = hops
        OBVIOUS
      <4>1. Len(chain) = n + 1 /\ chain[n + 1] = next /\ secrets[n + 1] = x.Auth
        BY <1>4, <1>5
      <4>2. x = Answer(next, [PublicKey |-> X])
        BY <2>1
      <4>3. Fits(x, ext, n, chain, secrets)
        BY <4>1, <4>2, FitsNew
      <4> QED BY <4>3
    <3> QED BY <3>1, <3>2 DEF IsAnswer
  <2>3. ASSUME NEW y, IsAnswer(y, attempts, extender, hops, relays, relayKeys)
        PROVE  IsAnswer(y, attempts, extender, hops, relays', relayKeys')
    BY <1>2, <2>3, FitsBefore DEF IsAnswer
  <2>4. ASSUME NEW i \in 1 .. Len(downlink')
        PROVE  /\ downlink'[i].hop < hops
               /\ downlink'[i].cmd = "EXTENDED2" =>
                    IsAnswer(downlink'[i].body, attempts, extender, hops, relays', relayKeys')
    BY <1>6, <1>7, <2>2, <2>3 DEF PathInv, CellsInv
  <2>5. ASSUME NEW i \in 1 .. Len(link') PROVE LinkCell(link'[i], attempts, hops)
    BY <1>8 DEF PathInv, CellsInv
  <2>6. extended # None => IsAnswer(extended, attempts, extender, hops, relays', relayKeys')
    BY <2>3 DEF PathInv, CellsInv
  <2> QED BY <1>1, <2>4, <2>5, <2>6 DEF PathInv, CellsInv
<1>12. KeysInv'
  BY <1>1, <1>4, <1>5 DEF PathInv, KeysInv
<1>13. BuilderInv'
  <2>1. builder.pc \notin {"start", "create"}
    BY <1>2, IdsAre DEF PathInv, BuilderInv
  <2> QED BY <1>1, <2>1 DEF PathInv, BuilderInv
<1>14. ExtenderInv'
  BY <1>1 DEF PathInv, ExtenderInv
<1> QED BY <1>9, <1>10, <1>11, <1>12, <1>13, <1>14 DEF PathInv

LEMMA RelayReceiveStep ==
  ASSUME PathInv, RelayReceive
  PROVE  PathInv'
<1> PICK cell : cell = Head(link)
  OBVIOUS
<1> PICK h : h = cell.hop
  OBVIOUS
<1>1. link # <<>> /\ link' = Tail(link) /\ UNCHANGED <<clientVars, replies>>
  BY DEF RelayReceive
<1>2. h \in Ids /\ h < hops /\ (cell.cmd = "EXTEND2" => Request(cell, attempts))
  BY <1>1, ArrivingCell
<1>3. cell.num \in Nat
  BY <1>1, PathFacts, RestIs, CellTypes DEF IsCell
<1>4. \A S : Use(relayFwd, S) \in [Ids -> Nat] /\ Use(relayDig, S) \in [Ids -> Nat]
  BY CountsType, UseIs
<1>5. CASE ~Recognised(cell)
  <2>1. /\ relayFwd' = Use(relayFwd, 0 .. Len(relays) - 1) /\ Fail("destroyed")
        /\ UNCHANGED <<relayDig, relays, relayKeys, arrived, downlink, relayBwd, relayNum>>
    BY <1>5 DEF RelayReceive
  <2>2. cause' \in {cause, "refused", "destroyed"} /\ (cause # "none" => cause' # "none")
    BY <2>1 DEF Fail
  <2>3. relayFwd' \in [Ids -> Nat] /\ relayDig' \in [Ids -> Nat]
    BY <1>4, <2>1, CountsType
  <2> QED BY <1>1, <1>2, <1>3, <2>1, <2>2, <2>3, RelayReceivesStep
<1>6. CASE Recognised(cell)
  <2>1. /\ relayFwd' = Use(relayFwd, 0 .. h) /\ relayDig' = Use(relayDig, {h})
        /\ IF cell.cmd = "EXTEND2"
             THEN Extend2(h, cell.body.specs, cell.body.hs) /\ UNCHANGED arrived
             ELSE /\ arrived' = [arrived EXCEPT ![h] = Append(@, cell.num)]
                  /\ UNCHANGED <<relays, relayKeys, cause, downlink, relayBwd, relayNum>>
    BY <1>6 DEF RelayReceive
  <2>2. relayFwd' \in [Ids -> Nat] /\ relayDig' \in [Ids -> Nat]
    BY <1>4, <2>1
  <2>3. CASE cell.cmd # "EXTEND2"
    <3>1. /\ arrived' = [arrived EXCEPT ![h] = Append(@, cell.num)]
          /\ UNCHANGED <<relays, relayKeys, cause, downlink, relayBwd, relayNum>>
      BY <2>1, <2>3
    <3>2. cause' \in {cause, "refused", "destroyed"} /\ (cause # "none" => cause' # "none")
      BY <3>1
    <3> QED BY <1>1, <1>2, <1>3, <2>2, <3>1, <3>2, RelayReceivesStep
  <2>4. CASE cell.cmd = "EXTEND2"
    <3> PICK hs : hs = cell.body.hs
      OBVIOUS
    <3> PICK next : next = cell.body.specs.addr
      OBVIOUS
    <3>1. arrived' = arrived /\ Extend2(h, cell.body.specs, hs)
      BY <2>1, <2>4
    <3>2. CASE Len(relays) > h + 1
      <4>1. Fail("refused") /\ UNCHANGED <<relays, relayKeys, downlink, relayBwd, relayNum>>
        BY <3>1, <3>2 DEF Extend2
      <4>2. cause' \in {cause, "refused", "destroyed"} /\ (cause # "none" => cause' # "none")
        BY <4>1 DEF Fail
      <4> QED BY <1>1, <1>2, <1>3, <2>2, <3>1, <4>1, <4>2, RelayReceivesStep
    <3>3. CASE ~(Len(relays) > h + 1)
      <4>1. /\ cause' = cause
            /\ \/ /\ Accepts(next, hs)
                  /\ relays' = Append(relays, next)
                  /\ relayKeys' = Append(relayKeys, Answer(next, hs).Auth)
                  /\ Reply(h, "EXTENDED2", Answer(next, hs))
               \/ Reply(h, "TRUNCATED", None) /\ UNCHANGED <<relays, relayKeys>>
        BY <3>1, <3>3 DEF Extend2
      <4>2. CASE Reply(h, "TRUNCATED", None) /\ UNCHANGED <<relays, relayKeys>>
        <5>1. cause' \in {cause, "refused", "destroyed"} /\ (cause # "none" => cause' # "none")
          BY <4>1
        <5> QED BY <1>1, <1>2, <1>3, <2>2, <3>1, <4>2, <5>1, RelayReceivesStep
      <4>3. CASE /\ Accepts(next, hs)
                 /\ relays' = Append(relays, next)
                 /\ relayKeys' = Append(relayKeys, Answer(next, hs).Auth)
                 /\ Reply(h, "EXTENDED2", Answer(next, hs))
        <5>1. /\ h + 2 <= MaxHops /\ hs.NodeID \in Relays
              /\ \E k \in 1 .. attempts : hs.PublicKey = ClientKey(k)
          BY <1>2, <2>4 DEF Request
        <5>2. next \in Relays
          BY <4>3, <5>1 DEF Accepts
        <5> PICK k \in 1 .. attempts : hs.PublicKey = ClientKey(k)
          BY <5>1
        <5> QED BY <1>1, <1>2, <2>2, <3>1, <3>3, <4>1, <4>3, <5>1, <5>2, RelayExtendsStep
      <4> QED BY <4>1, <4>2, <4>3
    <3> QED BY <3>2, <3>3
  <2> QED BY <2>3, <2>4
<1> QED BY <1>5, <1>6

LEMMA PathNext == PathInv /\ [Next]_vars => PathInv'
<1> SUFFICES ASSUME PathInv, [Next]_vars PROVE PathInv'
  OBVIOUS
<1>1. CASE \E path \in Paths : BuildPath(path)
  BY <1>1, BuildPathStep
<1>2. CASE Create
  BY <1>2, CreateStep
<1>3. CASE BuilderExtends
  BY <1>3, BuilderExtendsStep
<1>4. CASE UserExtends
  BY <1>4, UserExtendsStep
<1>5. CASE ExtendSend
  BY <1>5, ExtendSendStep
<1>6. CASE ExtendAnswered
  BY <1>6, ExtendAnsweredStep
<1>7. CASE ExtendFail
  BY <1>7, ExtendFailStep
<1>8. CASE \E h \in Ids : WriterMarshal(h)
  BY <1>8, WriterMarshalStep
<1>9. CASE WriterSend
  BY <1>9, WriterSendStep
<1>10. CASE ReadCell
  BY <1>10, ReadCellStep
<1>11. CASE CloseCircuit
  BY <1>11, CloseCircuitStep
<1>12. CASE RelayReceive
  BY <1>12, RelayReceiveStep
<1>13. CASE RelayAnswersItself
  BY <1>13, RelayAnswersItselfStep
<1>14. CASE \E h \in Ids : RelaySend(h)
  BY <1>14, RelaySendStep
<1>15. CASE UNCHANGED vars
  <2>1. /\ UNCHANGED <<builder, attempts, keys, forwards, digests, backwards, checked, writer, extender,
                       extended, offered, cause, link, downlink, relays, relayKeys, relayFwd,
                       relayDig, relayBwd, relayNum, replies, arrived>>
    BY <1>15 DEF vars, clientVars, relayVars
  <2>2. hops' = hops /\ KeysInv' /\ BuilderInv' /\ ExtenderInv' /\ Records'
    BY <2>1, PathStays, PathFacts
  <2>3. TypeOK'
    BY <2>1, <2>2 DEF PathInv, TypeOK, AllCells
  <2>4. CellsInv'
    BY <2>1, <2>2 DEF PathInv, CellsInv
  <2> QED BY <2>2, <2>3, <2>4 DEF PathInv
<1> QED BY <1>1, <1>2, <1>3, <1>4, <1>5, <1>6, <1>7, <1>8, <1>9, <1>10, <1>11, <1>12, <1>13,
           <1>14, <1>15 DEF Next

\* The handshakes in flight, the hops and the relays of the circuit fit together
\* in every state, with any number of faulty relays.
THEOREM PathInvariant == Spec => []PathInv
BY PathInit, PathNext, PTL DEF Spec

\* The state of the circuit has its type: a hop is never without a relay, and a
\* relay without a hop is the one whose answer Extend waits for.
THEOREM OnionTypeCorrect == Spec => []TypeOK
<1>1. PathInv => TypeOK
  BY DEF PathInv
<1> QED BY <1>1, PathInvariant, PTL

\* Extend and BuildPath: whatever stale, missing or false answers there are, the
\* hops of the chain are the relays of the circuit, each with the keys it has
\* itself, and a path that BuildPath returns is the one it was given.
THEOREM HopsCorrect == Spec => []HopsAreThePath
<1>1. ASSUME PathInv PROVE HopsAreThePath
  <2>1. hops <= Len(relays) /\ (builder.pc = "failed" => hops = 0 \/ cause # "none")
    BY <1>1, PathFacts DEF PathInv, BuilderInv
  <2>2. \A i \in 1 .. hops : keys[i] = relayKeys[i] /\ keys[i].ID = relays[i]
    BY <1>1 DEF PathInv, KeysInv
  <2>3. ASSUME builder.pc = "up", NEW i \in 1 .. Len(builder.path)
        PROVE  relays[i] = builder.path[i].node
    <3>1. hops >= Len(builder.path) /\ builder.path \in Paths
      BY <1>1, <2>3 DEF PathInv, BuilderInv
    <3>2. i <= hops /\ i \in 1 .. hops
      BY <1>1, <3>1, PathFacts
    <3>3. keys[i].ID = builder.path[i].node
      BY <1>1, <2>3, <3>2 DEF PathInv, BuilderInv
    <3> QED BY <2>2, <3>2, <3>3
  <2> QED BY <2>1, <2>2, <2>3 DEF HopsAreThePath
<1> QED BY <1>1, PathInvariant, PTL

-----------------------------------------------------------------------------
(* The key streams                                                         *)

\* What is in flight are cells of the circuit.
LEMMA FlyingCells ==
  ASSUME PathInv
  PROVE  /\ \A c \in Flying : IsCell(c) /\ c # NoCell /\ c.hop \in Ids /\ c.hop \in Int
         /\ IsSeq(link) /\ Len(link) \in Nat
         /\ writer = NoCell \/ (IsCell(writer) /\ writer.hop \in Ids)
         /\ extender.cell = NoCell \/ (IsCell(extender.cell) /\ extender.cell.hop \in Ids)
<1>1. extender.cell = NoCell \/ IsCell(extender.cell)
  BY DEF PathInv, TypeOK, ExtenderInv, Idle
<1>2. writer = NoCell \/ IsCell(writer)
  BY DEF PathInv, TypeOK
<1>3. \A i \in 1 .. Len(link) : IsCell(link[i])
  BY CellTypes
<1>4. \A c \in Flying : IsCell(c)
  BY <1>1, <1>2, <1>3 DEF Flying, CellsOf, Hands
<1>5. \A c : IsCell(c) => c.hop \in Ids /\ c.hop \in Int /\ c # NoCell
  BY NoCellIs, IdsAre DEF IsCell
<1>6. IsSeq(link) /\ Len(link) \in Nat
  BY PathFacts, SeqLen
<1> QED BY <1>1, <1>2, <1>4, <1>5, <1>6

LEMMA CellsOfAppend ==
  ASSUME NEW q, IsSeq(q), NEW e
  PROVE  CellsOf(Append(q, e)) = CellsOf(q) \cup {e}
<1> DEFINE r == Append(q, e)
<1>1. /\ Len(q) \in Nat /\ Len(r) = Len(q) + 1 /\ r[Len(q) + 1] = e
      /\ \A i \in 1 .. Len(q) : r[i] = q[i]
  BY SeqAppend
<1> HIDE DEF r
<1>2. \A i : i \in 1 .. Len(r) <=> (i \in 1 .. Len(q) \/ i = Len(q) + 1)
  BY <1>1
<1>3. CellsOf(r) = CellsOf(q) \cup {e}
  BY <1>1, <1>2 DEF CellsOf
<1> QED BY <1>3 DEF r

LEMMA CellsOfTail ==
  ASSUME NEW q, IsSeq(q), q # <<>>, \A i, j \in 1 .. Len(q) : q[i] = q[j] => i = j
  PROVE  /\ q[1] \in CellsOf(q) /\ Head(q) = q[1]
         /\ CellsOf(Tail(q)) = CellsOf(q) \ {q[1]}
         /\ CellsOf(Tail(q)) = {q[i] : i \in 2 .. Len(q)}
<1> DEFINE r == Tail(q)
<1>1. /\ Len(r) \in Nat /\ Len(q) = Len(r) + 1 /\ Len(q) \in Nat
      /\ Head(q) = q[1] /\ \A i \in 1 .. Len(r) : r[i] = q[i + 1]
  BY SeqTail
<1> HIDE DEF r
<1>2. 1 \in 1 .. Len(q) /\ \A i \in 1 .. Len(r) : i + 1 \in 2 .. Len(q)
  BY <1>1
<1>3. \A i \in 2 .. Len(q) : i \in 1 .. Len(q) /\ i # 1 /\ i - 1 \in 1 .. Len(r) /\ (i - 1) + 1 = i
  BY <1>1
<1>4. \A i \in 1 .. Len(q) : i = 1 \/ i \in 2 .. Len(q)
  BY <1>1
<1>5. CellsOf(r) = {q[i] : i \in 2 .. Len(q)}
  <2>1. ASSUME NEW i \in 1 .. Len(r) PROVE r[i] \in {q[k] : k \in 2 .. Len(q)}
    BY <1>1, <1>2
  <2>2. ASSUME NEW i \in 2 .. Len(q) PROVE q[i] \in CellsOf(r)
    <3>1. r[i - 1] = q[(i - 1) + 1] /\ i - 1 \in 1 .. Len(r)
      BY <1>1, <1>3
    <3>2. r[i - 1] = q[i]
      BY <1>3, <3>1
    <3> QED BY <3>1, <3>2 DEF CellsOf
  <2> QED BY <2>1, <2>2 DEF CellsOf
<1>6. {q[i] : i \in 2 .. Len(q)} = CellsOf(q) \ {q[1]}
  BY <1>2, <1>3, <1>4 DEF CellsOf
<1>7. q[1] \in CellsOf(q)
  BY <1>2 DEF CellsOf
<1> QED BY <1>1, <1>5, <1>6, <1>7 DEF r

\* Every cell uses the first hop's key stream.
LEMMA UsesAll ==
  ASSUME NEW q, IsSeq(q), \A i \in 1 .. Len(q) : q[i].hop \in Ids, NEW n \in 0 .. Len(q)
  PROVE  Uses(q, Behind(0), n) = n /\ n \in Nat /\ 0 \in Ids
<1>1. n \in Nat /\ \A i \in 1 .. n : i \in 1 .. Len(q)
  BY SeqLen
<1>2. Ids = Behind(0) /\ 0 \in Ids
  BY Sizes DEF Ids, Behind
<1>3. \A i \in 1 .. n : HopsOf(q)[i] \in Behind(0)
  BY <1>1, <1>2 DEF HopsOf
<1>4. {i \in 1 .. n : HopsOf(q)[i] \in Behind(0)} = 1 .. n
  BY <1>3
<1>5. Cardinality(1 .. n) = n
  BY <1>1, FS_Interval
<1> QED BY <1>1, <1>2, <1>4, <1>5 DEF Uses, CountTo

\* So the cells in flight are numbered in the order they were encrypted in.
LEMMA EncryptedIs ==
  ASSUME PathInv, NEW q, Encrypted(q)
  PROVE  /\ IsSeq(q) /\ Len(q) \in Nat /\ CellsOf(q) = Flying
         /\ \A i \in 1 .. Len(q) : q[i].hop \in Ids /\ q[i] \in Flying
         /\ \A i \in 1 .. Len(q) : q[i].layers[0] = relayFwd[0] + (i - 1)
         /\ \A i, j \in 1 .. Len(q) : q[i] = q[j] => i = j
         /\ forwards[0] = relayFwd[0] + Len(q) /\ relayFwd[0] \in Nat
<1>1. IsSeq(q) /\ Len(q) \in Nat /\ CellsOf(q) = Flying
  BY SeqLen DEF Encrypted
<1>2. \A i \in 1 .. Len(q) : q[i].hop \in Ids /\ q[i] \in Flying
  BY <1>1, FlyingCells DEF CellsOf
<1>3. relayFwd[0] \in Nat
  BY CountsType, Sizes DEF Ids
<1>4. ASSUME NEW i \in 1 .. Len(q) PROVE q[i].layers[0] = relayFwd[0] + (i - 1)
  <2>1. 0 \in 0 .. q[i].hop
    BY <1>2, IdsAre
  <2>2. q[i].layers[0] = relayFwd[0] + Uses(q, Behind(0), i - 1)
    BY <2>1 DEF Encrypted, Synced, Numbered
  <2>3. i - 1 \in 0 .. Len(q)
    BY <1>1
  <2>4. Uses(q, Behind(0), i - 1) = i - 1
    BY <1>1, <1>2, <2>3, UsesAll
  <2> QED BY <2>2, <2>4
<1>5. ASSUME NEW i \in 1 .. Len(q), NEW j \in 1 .. Len(q), q[i] = q[j] PROVE i = j
  <2>1. relayFwd[0] + (i - 1) = relayFwd[0] + (j - 1)
    BY <1>4, <1>5
  <2>2. i \in Nat /\ j \in Nat
    BY <1>1
  <2> QED BY <1>3, <2>1, <2>2
<1>6. forwards[0] = relayFwd[0] + Len(q)
  <2>1. Len(q) \in 0 .. Len(q)
    BY <1>1
  <2>2. Uses(q, Behind(0), Len(q)) = Len(q) /\ 0 \in Ids
    BY <1>1, <1>2, <2>1, UsesAll
  <2> QED BY <2>2 DEF Encrypted, Synced
<1> QED BY <1>1, <1>2, <1>3, <1>4, <1>5, <1>6

\* A step that moves, makes or loses none of them, ...
LEMMA OutStays ==
  ASSUME OutInv, UNCHANGED <<forwards, digests, relayFwd, relayDig, link, writer>>,
         extender'.cell = extender.cell
  PROVE  OutInv'
<1>1. PICK q : Encrypted(q)
  BY DEF OutInv
<1>2. Encrypted(q)'
  BY <1>1 DEF Encrypted, Flying, Hands, CellsOf
<1>3. Apart'
  BY DEF OutInv, Apart, Hands
<1>4. Counted'
  BY DEF OutInv, Counted, Held
<1> QED BY <1>2, <1>3, <1>4 DEF OutInv

\* ... writeLoop or Extend encrypts the next one for hop dst, ...
LEMMA MarshalOut ==
  ASSUME PathInv, OutInv, NEW dst \in Ids, NEW cmd \in {"EXTEND2", "STREAM"}, NEW body,
         NEW cell, cell = Marshalled(dst, cmd, body), MarshalMessage(dst),
         UNCHANGED <<link, relayFwd, relayDig>>,
         \/ writer = NoCell /\ writer' = cell /\ extender'.cell = extender.cell
         \/ extender.cell = NoCell /\ extender'.cell = cell /\ writer' = writer
  PROVE  OutInv'
<1>1. PICK q : Encrypted(q)
  BY DEF OutInv
<1>2. /\ cell.hop = dst /\ cell.num = digests[dst] /\ IsCell(cell)
      /\ \A h \in 0 .. dst : cell.layers[h] = forwards[h]
  BY MarshalledIs
<1>3. forwards' = Use(forwards, 0 .. dst) /\ digests' = Use(digests, {dst})
  BY DEF MarshalMessage, Wrapping
<1>4. /\ forwards \in [Ids -> Nat] /\ digests \in [Ids -> Nat]
      /\ relayFwd \in [Ids -> Nat] /\ relayDig \in [Ids -> Nat]
  BY CountsType
<1>5. cell \notin Flying /\ cell # NoCell
  <2>1. cell # NoCell
    BY <1>2, NoCellIs
  <2>2. cell.layers[0] = forwards[0]
    BY <1>2, IdsAre
  <2>3. ASSUME cell \in Flying PROVE FALSE
    <3>1. PICK i \in 1 .. Len(q) : q[i] = cell
      <4>1. cell \in CellsOf(q)
        BY <1>1, <2>3, EncryptedIs
      <4> QED BY <4>1 DEF CellsOf
    <3>2. cell.layers[0] = relayFwd[0] + (i - 1)
      BY <1>1, <3>1, EncryptedIs
    <3>3. forwards[0] = relayFwd[0] + Len(q) /\ relayFwd[0] \in Nat /\ Len(q) \in Nat
      BY <1>1, EncryptedIs
    <3>4. relayFwd[0] + (i - 1) = relayFwd[0] + Len(q)
      BY <2>2, <3>2, <3>3
    <3> HIDE DEF Encrypted
    <3> QED BY <3>3, <3>4
  <2> QED BY <2>1, <2>3
<1>6. Flying' = Flying \cup {cell}
  BY <1>5 DEF Flying, Hands
<1>7. Encrypted(Append(q, cell))'
  <2>1. IsSeq(q) /\ Synced(q, forwards, digests, relayFwd, relayDig) /\ CellsOf(q) = Flying
    BY <1>1 DEF Encrypted
  <2>2. IsSeq(Append(q, cell)) /\ CellsOf(Append(q, cell)) = Flying'
    BY <1>6, <2>1, SeqAppend, CellsOfAppend
  <2>3. Synced(Append(q, cell), Use(forwards, 0 .. dst), Use(digests, {dst}), relayFwd, relayDig)
    BY <1>2, <1>4, <2>1, SyncedAppend
  <2>4. Synced(Append(q, cell), forwards', digests', relayFwd', relayDig')
    BY <1>3, <2>3
  <2> HIDE DEF Synced, CellsOf, IsSeq
  <2> QED BY <2>2, <2>4 DEF Encrypted
<1>8. Apart'
  <2>1. \A i \in 1 .. Len(link) : link[i] # cell /\ link[i] \notin Hands
    BY <1>5 DEF Flying, CellsOf, OutInv, Apart
  <2>2. writer # cell /\ extender.cell # cell
    BY <1>5 DEF Flying, Hands
  <2>3. Hands' = Hands \cup {cell}
    BY <1>5 DEF Hands
  <2>4. writer' = extender.cell' => writer' = NoCell
    BY <1>5, <2>2 DEF OutInv, Apart
  <2>5. \A i, j \in 1 .. Len(link) : link[i] = link[j] => i = j
    BY DEF OutInv, Apart
  <2> QED BY <2>1, <2>3, <2>4, <2>5 DEF Apart
<1>9. Counted'
  <2> SUFFICES ASSUME NEW h \in Ids
               PROVE  forwards'[h] = relayFwd[h] + Uses(link, Behind(h), Len(link))
                                       + Held(writer', h) + Held(extender'.cell, h)
    BY DEF Counted
  <2>1. forwards[h] = relayFwd[h] + Uses(link, Behind(h), Len(link)) + Held(writer, h) + Held(extender.cell, h)
    BY DEF OutInv, Counted
  <2>2. forwards'[h] = forwards[h] + (IF dst \in Behind(h) THEN 1 ELSE 0)
    BY <1>3, <1>4, UseUpTo
  <2>3. /\ Held(cell, h) = (IF dst \in Behind(h) THEN 1 ELSE 0)
        /\ Held(NoCell, h) = 0
    <3>1. h \in Nat /\ (dst \in Behind(h) <=> dst >= h)
      BY Sizes DEF Ids, Behind
    <3> QED BY <1>2, <3>1, NoCellIs DEF Held
  <2>4. /\ relayFwd[h] \in Nat /\ Uses(link, Behind(h), Len(link)) \in Nat
        /\ Held(writer, h) \in Nat /\ Held(extender.cell, h) \in Nat /\ Held(cell, h) \in Nat
    BY <1>4, FlyingCells, UsesType DEF Held
  <2>5. CASE writer = NoCell /\ writer' = cell /\ extender'.cell = extender.cell
    <3>1. Held(writer, h) = 0 /\ Held(writer', h) = Held(cell, h)
          /\ Held(extender'.cell, h) = Held(extender.cell, h)
      BY <2>3, <2>5
    <3> QED BY <2>1, <2>2, <2>3, <2>4, <3>1
  <2>6. CASE extender.cell = NoCell /\ extender'.cell = cell /\ writer' = writer
    <3>1. Held(extender.cell, h) = 0 /\ Held(extender'.cell, h) = Held(cell, h)
          /\ Held(writer', h) = Held(writer, h)
      BY <2>3, <2>6
    <3> QED BY <2>1, <2>2, <2>3, <2>4, <3>1
  <2> QED BY <2>5, <2>6
<1> QED BY <1>7, <1>8, <1>9 DEF OutInv

\* ... or hands one over to the link, whatever was encrypted in between, ...
LEMMA SendOut ==
  ASSUME PathInv, OutInv, NEW cell, cell # NoCell, link' = Append(link, cell),
         UNCHANGED <<forwards, digests, relayFwd, relayDig>>,
         \/ cell = writer /\ writer' = NoCell /\ extender'.cell = extender.cell
         \/ cell = extender.cell /\ extender'.cell = NoCell /\ writer' = writer
  PROVE  OutInv'
<1>1. PICK q : Encrypted(q)
  BY DEF OutInv
<1>2. IsSeq(link) /\ Len(link) \in Nat /\ cell.hop \in Ids
  BY FlyingCells
<1>3. /\ Len(link') = Len(link) + 1 /\ link'[Len(link) + 1] = cell
      /\ \A i \in 1 .. Len(link) : link'[i] = link[i]
  BY <1>2, SeqAppend
<1>4. cell \in Hands /\ Hands' = Hands \ {cell}
  BY DEF Hands, OutInv, Apart
<1>5. CellsOf(link') = CellsOf(link) \cup {cell}
  BY <1>2, CellsOfAppend
<1>6. Flying' = Flying
  BY <1>4, <1>5 DEF Flying
<1>7. Encrypted(q)'
  BY <1>1, <1>6 DEF Encrypted
<1>8. Apart'
  <2>1. \A i \in 1 .. Len(link') : i \in 1 .. Len(link) \/ i = Len(link) + 1
    BY <1>2, <1>3
  <2>2. \A i \in 1 .. Len(link) : link[i] \notin Hands /\ link[i] # cell
    BY <1>4 DEF OutInv, Apart
  <2>3. \A i, j \in 1 .. Len(link) : link[i] = link[j] => i = j
    BY DEF OutInv, Apart
  <2>4. \A i, j \in 1 .. Len(link') : link'[i] = link'[j] => i = j
    BY <1>3, <2>1, <2>2, <2>3
  <2>5. \A i \in 1 .. Len(link') : link'[i] \notin Hands'
    BY <1>3, <1>4, <2>1, <2>2
  <2>6. writer' = extender'.cell => writer' = NoCell
    BY DEF OutInv, Apart
  <2> QED BY <2>4, <2>5, <2>6 DEF Apart
<1>9. Counted'
  <2> SUFFICES ASSUME NEW h \in Ids
               PROVE  forwards[h] = relayFwd[h] + Uses(link', Behind(h), Len(link'))
                                       + Held(writer', h) + Held(extender'.cell, h)
    BY DEF Counted
  <2>1. forwards[h] = relayFwd[h] + Uses(link, Behind(h), Len(link)) + Held(writer, h) + Held(extender.cell, h)
    BY DEF OutInv, Counted
  <2>2. Uses(link', Behind(h), Len(link')) =
          Uses(link, Behind(h), Len(link)) + (IF cell.hop \in Behind(h) THEN 1 ELSE 0)
    BY <1>2, <1>3, UsesAppend
  <2>3. /\ Held(cell, h) = (IF cell.hop \in Behind(h) THEN 1 ELSE 0)
        /\ Held(NoCell, h) = 0
    <3>1. h \in Nat /\ (cell.hop \in Behind(h) <=> cell.hop >= h)
      BY <1>2, Sizes DEF Ids, Behind
    <3> QED BY <3>1, NoCellIs DEF Held
  <2>4. /\ relayFwd[h] \in Nat /\ Uses(link, Behind(h), Len(link)) \in Nat
        /\ Held(writer, h) \in Nat /\ Held(extender.cell, h) \in Nat /\ Held(cell, h) \in Nat
    BY <1>2, CountsType, UsesType DEF Held
  <2>5. CASE cell = writer /\ writer' = NoCell /\ extender'.cell = extender.cell
    <3>1. Held(writer, h) = Held(cell, h) /\ Held(writer', h) = 0
          /\ Held(extender'.cell, h) = Held(extender.cell, h)
      BY <2>3, <2>5
    <3> QED BY <2>1, <2>2, <2>3, <2>4, <3>1
  <2>6. CASE cell = extender.cell /\ extender'.cell = NoCell /\ writer' = writer
    <3>1. Held(extender.cell, h) = Held(cell, h) /\ Held(extender'.cell, h) = 0
          /\ Held(writer', h) = Held(writer, h)
      BY <2>3, <2>6
    <3>2. Uses(link', Behind(h), Len(link')) = Uses(link, Behind(h), Len(link)) + Held(cell, h)
      BY <2>2, <2>3
    <3> DEFINE u == Uses(link, Behind(h), Len(link))
               v == Uses(link', Behind(h), Len(link'))
               w == Held(writer, h)
               c == Held(cell, h)
    <3>3. /\ forwards[h] = relayFwd[h] + u + w + c /\ v = u + c
          /\ {relayFwd[h], u, w, c} \subseteq Nat
      BY <2>1, <2>4, <3>1, <3>2
    <3> HIDE DEF u, v, w, c
    <3>4. forwards[h] = relayFwd[h] + v + w + 0
      BY <3>3
    <3> QED BY <3>1, <3>4 DEF v, w
  <2> QED BY <2>5, <2>6
<1> QED BY <1>7, <1>8, <1>9 DEF OutInv

\* ... and the relay that recognises the first of the link is due for it: it is
\* the one encrypted first.
LEMMA ReceiveOut ==
  ASSUME PathInv, OutInv, link # <<>>, NEW cell, cell = Head(link), Recognised(cell),
         NEW h \in Ids, h = cell.hop, link' = Tail(link),
         relayFwd' = Use(relayFwd, 0 .. h), relayDig' = Use(relayDig, {h}),
         UNCHANGED <<forwards, digests, writer, extender>>
  PROVE  OutInv'
<1>1. PICK q : Encrypted(q)
  BY DEF OutInv
<1>2. /\ IsSeq(link) /\ Len(link) \in Nat /\ \A i, j \in 1 .. Len(link) : link[i] = link[j] => i = j
      /\ \A i \in 1 .. Len(link) : link[i] \notin Hands
  BY FlyingCells DEF OutInv, Apart
<1>3. /\ cell = link[1] /\ cell \in CellsOf(link) /\ CellsOf(link') = CellsOf(link) \ {cell}
      /\ 1 \in 1 .. Len(link)
      /\ \A i \in 1 .. Len(link') : i + 1 \in 1 .. Len(link) /\ link'[i] = link[i + 1]
  BY <1>2, CellsOfTail, RestIs
<1>4. Flying' = Flying \ {cell} /\ cell \in Flying
  BY <1>2, <1>3 DEF Flying, Hands
<1>5. /\ relayFwd \in [Ids -> Nat] /\ relayDig \in [Ids -> Nat]
      /\ forwards \in [Ids -> Nat] /\ digests \in [Ids -> Nat]
  BY CountsType
<1>6. q # <<>> /\ cell = q[1]
  <2>1. PICK i \in 1 .. Len(q) : q[i] = cell
    <3>1. cell \in CellsOf(q)
      BY <1>1, <1>4, EncryptedIs
    <3> QED BY <3>1 DEF CellsOf
  <2>2. cell.layers[0] = relayFwd[0] + (i - 1) /\ relayFwd[0] \in Nat /\ Len(q) \in Nat
    BY <1>1, <2>1, EncryptedIs
  <2>3. cell.layers[0] = relayFwd[0]
    BY IdsAre DEF Recognised, InStep
  <2>4. i = 1
    BY <2>2, <2>3
  <2> QED BY <2>1, <2>4, SeqNone
<1>7. Encrypted(Tail(q))'
  <2>1. /\ IsSeq(q) /\ CellsOf(q) = Flying /\ \A i \in 1 .. Len(q) : q[i].hop \in Ids
        /\ \A i, j \in 1 .. Len(q) : q[i] = q[j] => i = j
    BY <1>1, EncryptedIs
  <2>2. Synced(q, forwards, digests, relayFwd, relayDig)
    BY <1>1 DEF Encrypted
  <2>3. q[1].hop = h
    BY <1>6
  <2>4. Synced(Tail(q), forwards, digests, Use(relayFwd, 0 .. h), Use(relayDig, {h}))
    BY <1>5, <1>6, <2>1, <2>2, <2>3, SyncedTail, Zenon
  <2>5. IsSeq(Tail(q)) /\ CellsOf(Tail(q)) = Flying'
    BY <1>4, <1>6, <2>1, CellsOfTail, SeqTail
  <2>6. Synced(Tail(q), forwards', digests', relayFwd', relayDig')
    BY <2>4
  <2> HIDE DEF Synced, CellsOf, IsSeq
  <2> QED BY <2>5, <2>6 DEF Encrypted
<1>8. Apart'
  <2>1. \A i, j \in 1 .. Len(link') : link'[i] = link'[j] => i = j
    <3> SUFFICES ASSUME NEW i \in 1 .. Len(link'), NEW j \in 1 .. Len(link'), link'[i] = link'[j]
                 PROVE  i = j
      OBVIOUS
    <3>1. i + 1 = j + 1
      BY <1>2, <1>3
    <3> QED BY <3>1
  <2>2. Hands' = Hands
    BY DEF Hands
  <2>3. \A i \in 1 .. Len(link') : link'[i] \notin Hands'
    BY <1>2, <1>3, <2>2
  <2> QED BY <2>1, <2>3 DEF Apart, OutInv
<1>9. Counted'
  <2> SUFFICES ASSUME NEW g \in Ids
               PROVE  forwards[g] = relayFwd'[g] + Uses(link', Behind(g), Len(link'))
                                       + Held(writer, g) + Held(extender.cell, g)
    BY DEF Counted
  <2>1. forwards[g] = relayFwd[g] + Uses(link, Behind(g), Len(link)) + Held(writer, g) + Held(extender.cell, g)
    BY DEF OutInv, Counted
  <2>2. relayFwd'[g] = relayFwd[g] + (IF h \in Behind(g) THEN 1 ELSE 0)
    BY <1>5, UseUpTo
  <2>3. Uses(link, Behind(g), Len(link)) =
          Uses(link', Behind(g), Len(link')) + (IF h \in Behind(g) THEN 1 ELSE 0)
    <3>1. Len(link') \in Nat /\ Len(link) = Len(link') + 1 /\ Len(link') <= Len(Tail(link))
      BY <1>2, SeqTail
    <3>2. Uses(link, Behind(g), Len(link') + 1) =
            Uses(Tail(link), Behind(g), Len(link')) + (IF link[1].hop \in Behind(g) THEN 1 ELSE 0)
      BY <1>2, <3>1, UsesTail
    <3> QED BY <1>3, <3>1, <3>2
  <2>4. /\ relayFwd[g] \in Nat /\ Uses(link', Behind(g), Len(link')) \in Nat
        /\ Held(writer, g) \in Nat /\ Held(extender.cell, g) \in Nat
    BY <1>2, <1>5, SeqTail, UsesType DEF Held
  <2> HIDE DEF Held, Uses, Behind
  <2> QED BY <2>1, <2>2, <2>3, <2>4
<1> QED BY <1>7, <1>8, <1>9 DEF OutInv

LEMMA StepInit == Init => StepInv
<1> SUFFICES ASSUME Init PROVE StepInv
  OBVIOUS
<1>1. /\ link = <<>> /\ downlink = <<>> /\ Len(<<>>) = 0 /\ writer = NoCell /\ IsSeq(<<>>)
      /\ extender.cell = NoCell
  BY SeqNone DEF Init, Idle
<1>2. \A h \in Ids : forwards[h] = 0 /\ digests[h] = 0 /\ backwards[h] = 0 /\ checked[h] = 0
  BY DEF Init, Zeros
<1>3. \A h \in Ids : relayFwd[h] = 0 /\ relayDig[h] = 0 /\ relayBwd[h] = 0 /\ relayNum[h] = 0
  BY DEF Init, Zeros
<1>4. \A S : Uses(<<>>, S, 0) = 0
  BY UsesType
<1>5. WayInSynced
  BY <1>1, <1>2, <1>3, <1>4 DEF WayInSynced, Synced, Numbered
<1>6. Encrypted(<<>>)
  BY <1>1, <1>2, <1>3, <1>4 DEF Encrypted, CellsOf, Flying, Hands, Synced, Numbered
<1>7. Apart
  BY <1>1 DEF Apart
<1>8. Counted
  BY <1>1, <1>2, <1>3, <1>4, NoCellIs DEF Counted, Held, Ids
<1> QED BY <1>5, <1>6, <1>7, <1>8 DEF StepInv, OutInv

\* A step keeps what it does not touch; nothing is claimed of a circuit that ended.
LEMMA StepStays ==
  ASSUME StepInv, cause # "none" => cause' # "none",
         cause' = "none" /\ OutInv => OutInv',
         cause' = "none" /\ WayInSynced => WayInSynced'
  PROVE  StepInv'
BY DEF StepInv

LEMMA WayInStays ==
  ASSUME UNCHANGED <<downlink, relayBwd, relayNum, backwards, checked>>
  PROVE  WayInSynced => WayInSynced'
BY DEF WayInSynced

\* A relay wraps the next cell for the client.
LEMMA ReplySynced ==
  ASSUME PathInv, NEW h \in Ids,
         NEW cmd, cmd \in {"EXTENDED2", "TRUNCATED", "STREAM"}, NEW body, Reply(h, cmd, body),
         UNCHANGED <<backwards, checked>>
  PROVE  WayInSynced => WayInSynced'
<1> SUFFICES ASSUME WayInSynced PROVE WayInSynced'
  OBVIOUS
<1> PICK cell : cell = Replied(h, cmd, body)
  OBVIOUS
<1>1. IsSeq(downlink) /\ Synced(downlink, relayBwd, relayNum, backwards, checked)
  BY PathFacts DEF WayInSynced
<1>2. /\ relayBwd' = Use(relayBwd, 0 .. h) /\ relayNum' = Use(relayNum, {h})
      /\ downlink' = Append(downlink, cell)
  BY DEF Reply, Replied
<1>3. cell.hop = h /\ cell.num = relayNum[h] /\ \A g \in 0 .. h : cell.layers[g] = relayBwd[g]
  BY DEF Replied
<1>4. /\ relayBwd \in [Ids -> Nat] /\ relayNum \in [Ids -> Nat]
      /\ backwards \in [Ids -> Nat] /\ checked \in [Ids -> Nat]
  BY CountsType
<1>5. Synced(Append(downlink, cell), Use(relayBwd, 0 .. h), Use(relayNum, {h}), backwards, checked)
  BY <1>1, <1>2, <1>3, <1>4, SyncedAppend
<1> QED BY <1>2, <1>5 DEF WayInSynced

\* The steps of BuildPath and Extend that hold no cell before or after.
LEMMA QuietStep ==
  ASSUME PathInv, StepInv,
         \/ \E path \in Paths : BuildPath(path)
         \/ Create \/ ExtendAnswered \/ ExtendFail \/ CloseCircuit
  PROVE  StepInv'
<1>1. /\ UNCHANGED <<writer, link, forwards, digests, relayFwd, relayDig, downlink, relayBwd, relayNum,
                     backwards, checked>>
      /\ \/ extender' = extender
         \/ extender.pc = "waiting" /\ extender' = Idle
  BY DEF BuildPath, Create, ExtendAnswered, ExtendFail, CloseCircuit, clientVars, relayVars
<1>2. cause # "none" => cause' # "none"
  BY DEF BuildPath, Create, ExtendAnswered, ExtendFail, CloseCircuit, Fail, ExtendError
<1>3. extender'.cell = extender.cell
  BY <1>1 DEF PathInv, ExtenderInv, Idle
<1> QED BY <1>1, <1>2, <1>3, OutStays, WayInStays, StepStays

\* Extend encrypts its EXTEND2, whatever cell writeLoop has in hand, ...
LEMMA ExtendToSynced ==
  ASSUME PathInv, StepInv, NEW entry, ExtendTo(entry), hops \in 1 .. MaxHops - 1
  PROVE  StepInv'
<1>1. /\ UNCHANGED <<writer, link, relayFwd, relayDig, downlink, relayBwd, relayNum, backwards, checked>>
      /\ extender.cell = NoCell
  BY DEF ExtendTo, relayVars, Idle
<1>2. cause # "none" => cause' # "none"
  BY DEF ExtendTo, ExtendError, Fail
<1> PICK specs : specs = LinkSpecsFor(entry)
  OBVIOUS
<1> PICK hs : hs = NewNTorHandshake(entry, attempts + 1)
  OBVIOUS
<1> PICK body : body = [specs |-> specs, hs |-> hs]
  OBVIOUS
<1> PICK dst : dst = hops - 1
  OBVIOUS
<1> PICK cell : cell = Marshalled(dst, "EXTEND2", body)
  OBVIOUS
<1>3. CASE None \in {specs, hs}
  <2>1. UNCHANGED <<forwards, digests, extender>>
    BY <1>3 DEF ExtendTo
  <2> QED BY <1>1, <1>2, <2>1, OutStays, WayInStays, StepStays
<1>4. CASE ~(None \in {specs, hs})
  <2>1. MarshalMessage(dst) /\ extender' = [pc |-> "marshalled", hs |-> hs, cell |-> cell]
    BY <1>4 DEF ExtendTo
  <2>2. dst \in Ids
    BY PathFacts, Sizes DEF Ids
  <2>3. extender'.cell = cell
    BY <2>1
  <2>4. OutInv => OutInv'
    BY <1>1, <2>1, <2>2, <2>3, MarshalOut
  <2> QED BY <1>1, <1>2, <2>4, WayInStays, StepStays
<1> QED BY <1>3, <1>4

LEMMA ExtendsSynced ==
  ASSUME PathInv, StepInv, BuilderExtends \/ UserExtends
  PROVE  StepInv'
<1>1. CASE BuilderExtends
  <2>1. hops \in 1 .. Len(builder.path) - 1 /\ builder.path \in Paths
    BY <1>1 DEF PathInv, BuilderInv, BuilderExtends
  <2>2. hops \in 1 .. MaxHops - 1
    BY <2>1, PathFacts, Sizes
  <2> PICK entry : entry = builder.path[hops + 1]
    OBVIOUS
  <2>3. ExtendTo(entry)
    BY <1>1 DEF BuilderExtends
  <2> QED BY <2>2, <2>3, ExtendToSynced
<1>2. CASE UserExtends
  <2>1. builder.pc = "up" /\ hops < MaxHops /\ hops >= Len(builder.path) /\ builder.path \in Paths
    BY <1>2 DEF UserExtends, PathInv, BuilderInv
  <2>2. hops \in 1 .. MaxHops - 1
    BY <2>1, PathFacts, Sizes
  <2> PICK entry \in Extras : ExtendTo(entry)
    BY <1>2 DEF UserExtends
  <2> QED BY <2>2, ExtendToSynced
<1> QED BY <1>1, <1>2

\* ... and writeLoop the cell of a stream, wherever Extend is.
LEMMA WriterMarshalSynced ==
  ASSUME PathInv, StepInv, NEW dst \in Ids, WriterMarshal(dst)
  PROVE  StepInv'
<1> PICK body : body = None
  OBVIOUS
<1> PICK cell : cell = Marshalled(dst, "STREAM", body)
  OBVIOUS
<1>1. /\ UNCHANGED <<extender, cause, link, relayFwd, relayDig, downlink, relayBwd, relayNum,
                     backwards, checked>>
      /\ writer = NoCell /\ MarshalMessage(dst) /\ writer' = cell
  BY DEF WriterMarshal, relayVars
<1>2. OutInv => OutInv'
  BY <1>1, MarshalOut
<1> QED BY <1>1, <1>2, WayInStays, StepStays

\* A cell in hand joins the link; only a circuit that has ended drops it.
LEMMA SendSynced ==
  ASSUME PathInv, StepInv, WriterSend \/ ExtendSend
  PROVE  StepInv'
<1>1. UNCHANGED <<cause, forwards, digests, relayFwd, relayDig, downlink, relayBwd, relayNum,
                  backwards, checked>>
  BY DEF WriterSend, ExtendSend, relayVars
<1>2. ASSUME cause' = "none", OutInv PROVE OutInv'
  <2>1. CASE WriterSend
    <3>1. writer # NoCell /\ extender' = extender /\ writer' = NoCell /\ link' = Append(link, writer)
      BY <1>1, <1>2, <2>1 DEF WriterSend, Deliver
    <3> PICK cell : cell = writer
      OBVIOUS
    <3> QED BY <1>1, <1>2, <3>1, SendOut
  <2>2. CASE ExtendSend
    <3> PICK cell : cell = extender.cell
      OBVIOUS
    <3>1. /\ extender.pc = "marshalled" /\ writer' = writer /\ link' = Append(link, cell)
          /\ extender' = [extender EXCEPT !.pc = "waiting", !.cell = NoCell]
      BY <1>1, <1>2, <2>2 DEF ExtendSend, Deliver
    <3>2. extender'.cell = NoCell
      BY <3>1 DEF PathInv, Records
    <3>3. cell # NoCell
      BY <3>1, CellTypes, NoCellIs
    <3> QED BY <1>1, <1>2, <3>1, <3>2, <3>3, SendOut
  <2> QED BY <2>1, <2>2
<1> QED BY <1>1, <1>2, WayInStays, StepStays

\* The cell at the client is the one its key streams are due for.
LEMMA WayInDue ==
  ASSUME PathInv, WayInSynced, downlink # <<>>, NEW cell, cell = Head(downlink), NEW c, c = cell.hop
  PROVE  /\ c \in Ids /\ c < hops
         /\ \A h \in 0 .. c : cell.layers[h] = backwards[h]
         /\ cell.num = checked[c]
         /\ Synced(Tail(downlink), relayBwd, relayNum, Use(backwards, 0 .. c), Use(checked, {c}))
<1>1. IsSeq(downlink) /\ 1 \in 1 .. Len(downlink) /\ cell = downlink[1]
  BY PathFacts, RestIs
<1>2. c \in Ids /\ c < hops /\ \A i \in 1 .. Len(downlink) : downlink[i].hop \in Ids
  BY <1>1, CellTypes DEF PathInv, CellsInv, IsCell
<1>3. Synced(downlink, relayBwd, relayNum, backwards, checked)
  BY DEF WayInSynced
<1>4. backwards \in [Ids -> Nat] /\ checked \in [Ids -> Nat]
  BY CountsType
<1>5. downlink[1].hop = c
  BY <1>1
<1>6. /\ \A h \in 0 .. c : downlink[1].layers[h] = backwards[h]
      /\ downlink[1].num = checked[c]
      /\ Synced(Tail(downlink), relayBwd, relayNum, Use(backwards, 0 .. c), Use(checked, {c}))
  BY <1>1, <1>2, <1>3, <1>4, <1>5, SyncedTail, Zenon
<1> QED BY <1>1, <1>2, <1>6, Zenon

\* A hop before the sender may take it by accident, else the sender's hop finds
\* it its own.
LEMMA ReadCellSynced ==
  ASSUME PathInv, StepInv, ReadCell
  PROVE  StepInv'
<1> PICK cell : cell = Head(downlink)
  OBVIOUS
<1> PICK c : c = cell.hop
  OBVIOUS
<1>1. /\ UNCHANGED <<writer, extender, link, forwards, digests, relayFwd, relayDig, relayBwd, relayNum>>
      /\ downlink # <<>> /\ downlink' = Tail(downlink)
  BY DEF ReadCell, relayVars
<1>2. (cause # "none" => cause' # "none") /\ (OutInv => OutInv')
  BY <1>1, OutStays DEF ReadCell, Fail
<1>3. ASSUME cause = "none", WayInSynced, cause' = "none" PROVE WayInSynced'
  <2>1. /\ c \in Ids /\ c < hops /\ \A h \in 0 .. c : cell.layers[h] = backwards[h]
        /\ cell.num = checked[c]
        /\ Synced(Tail(downlink), relayBwd, relayNum, Use(backwards, 0 .. c), Use(checked, {c}))
    BY <1>1, <1>3, WayInDue, Zenon
  <2>2. Own(cell, c) /\ \A id \in 0 .. hops - 1 : Own(cell, id) => id = c
    BY <2>1 DEF Own, InStep
  <2>3. c \in 0 .. hops - 1
    BY <2>1, PathFacts, IdsAre
  <2>4. PICK id \in 0 .. hops - 1 :
          /\ \A j \in 0 .. id - 1 : ~Own(cell, j)
          /\ backwards' = Use(backwards, Peeled(id))
          /\ IF Own(cell, id) /\ cell.cmd = "TRUNCATED"
               THEN Fail("unknown") /\ UNCHANGED <<checked, extended>>
               ELSE /\ checked' = Use(checked, {id})
                    /\ IF Own(cell, id) /\ cell.num = checked[id]
                         THEN UNCHANGED cause
                         ELSE Fail(IF Own(cell, id) THEN "decrypt" ELSE "accident")
    BY <2>2, <2>3 DEF ReadCell
  <2>5. Own(cell, id) /\ cell.cmd # "TRUNCATED"
    BY <1>3, <2>4 DEF Fail
  <2>6. id = c
    BY <2>2, <2>5
  <2>7. backwards' = Use(backwards, 0 .. c) /\ checked' = Use(checked, {c})
    BY <2>4, <2>5, <2>6 DEF Peeled
  <2> QED BY <1>1, <2>1, <2>7 DEF WayInSynced
<1> QED BY <1>2, <1>3, StepStays

\* The cell at a relay: recognised, it is the one encrypted first, and otherwise
\* it ends the circuit.
LEMMA RelayReceiveSynced ==
  ASSUME PathInv, StepInv, RelayReceive
  PROVE  StepInv'
<1> PICK cell : cell = Head(link)
  OBVIOUS
<1> PICK h : h = cell.hop
  OBVIOUS
<1>1. /\ UNCHANGED <<writer, extender, forwards, digests, backwards, checked>>
      /\ link # <<>> /\ link' = Tail(link)
  BY DEF RelayReceive, clientVars
<1>2. cause # "none" => cause' # "none"
  BY DEF RelayReceive, Extend2, Fail
<1>3. h \in Ids
  BY <1>1, ArrivingCell
<1>4. ASSUME cause = "none", cause' = "none"
      PROVE  (OutInv => OutInv') /\ (WayInSynced => WayInSynced')
  <2>1. Recognised(cell)
    BY <1>4 DEF RelayReceive, Fail
  <2>2. /\ relayFwd' = Use(relayFwd, 0 .. h) /\ relayDig' = Use(relayDig, {h})
        /\ IF cell.cmd = "EXTEND2"
             THEN Extend2(h, cell.body.specs, cell.body.hs)
             ELSE UNCHANGED <<cause, downlink, relayBwd, relayNum>>
    BY <2>1 DEF RelayReceive
  <2>3. OutInv => OutInv'
    BY <1>1, <1>3, <2>1, <2>2, ReceiveOut
  <2>4. CASE UNCHANGED <<downlink, relayBwd, relayNum>>
    BY <1>1, <2>3, <2>4, WayInStays
  <2>5. CASE \E cmd \in {"EXTENDED2", "TRUNCATED"} : \E body : Reply(h, cmd, body)
    BY <1>1, <1>3, <2>3, <2>5, ReplySynced
  <2> QED BY <2>2, <2>4, <2>5 DEF Extend2
<1> QED BY <1>2, <1>4, StepStays

LEMMA RelayRepliesSynced ==
  ASSUME PathInv, StepInv, RelayAnswersItself \/ \E h \in Ids : RelaySend(h)
  PROVE  StepInv'
<1>1. UNCHANGED <<writer, extender, forwards, digests, backwards, checked, cause, link, relayFwd, relayDig>>
  BY DEF RelayAnswersItself, RelaySend, clientVars
<1>2. PICK h \in Ids, cmd \in {"EXTENDED2", "STREAM"} : \E body : Reply(h, cmd, body)
  <2>1. CASE RelayAnswersItself
    <3> PICK cell : cell = Head(link)
      OBVIOUS
    <3>1. link # <<>> /\ \E body : Reply(cell.hop, "EXTENDED2", body)
      BY <2>1 DEF RelayAnswersItself
    <3>2. cell.hop \in Ids
      BY <3>1, ArrivingCell
    <3> QED BY <3>1, <3>2
  <2>2. CASE \E h \in Ids : RelaySend(h)
    BY <2>2 DEF RelaySend
  <2> QED BY <2>1, <2>2
<1>3. WayInSynced => WayInSynced'
  BY <1>1, <1>2, ReplySynced
<1> QED BY <1>1, <1>3, OutStays, StepStays

LEMMA StepNext == PathInv /\ StepInv /\ [Next]_vars => StepInv'
<1> SUFFICES ASSUME PathInv, StepInv, [Next]_vars PROVE StepInv'
  OBVIOUS
<1>1. CASE \/ \E path \in Paths : BuildPath(path)
           \/ Create \/ ExtendAnswered \/ ExtendFail \/ CloseCircuit
  BY <1>1, QuietStep
<1>2. CASE BuilderExtends \/ UserExtends
  BY <1>2, ExtendsSynced
<1>3. CASE ExtendSend \/ WriterSend
  BY <1>3, SendSynced
<1>4. CASE \E h \in Ids : WriterMarshal(h)
  BY <1>4, WriterMarshalSynced
<1>5. CASE ReadCell
  BY <1>5, ReadCellSynced
<1>6. CASE RelayReceive
  BY <1>6, RelayReceiveSynced
<1>7. CASE RelayAnswersItself \/ \E h \in Ids : RelaySend(h)
  BY <1>7, RelayRepliesSynced
<1>8. CASE UNCHANGED vars
  <2>1. UNCHANGED <<writer, extender, forwards, digests, backwards, checked, cause, link, downlink,
                    relayFwd, relayDig, relayBwd, relayNum>>
    BY <1>8 DEF vars, clientVars, relayVars
  <2> QED BY <2>1, OutStays, WayInStays, StepStays
<1> QED BY <1>1, <1>2, <1>3, <1>4, <1>5, <1>6, <1>7, <1>8 DEF Next

\* The two ends of every key stream keep step with the cells between them.
THEOREM StepInvariant == Spec => []StepInv
<1>1. PathInv /\ StepInv /\ [Next]_vars => StepInv'
  BY StepNext
<1> QED BY <1>1, StepInit, PathInvariant, PTL DEF Spec

\* The next cell of the way out is due at its relay if it was encrypted first;
\* if it was not, the one that was is still behind it or in a goroutine's hands.
LEMMA FirstIsRecognised ==
  ASSUME PathInv, OutInv, link # <<>>, NEW cell, cell = Head(link)
  PROVE  Recognised(cell) \/ Overtaken
<1>1. PICK q : Encrypted(q)
  BY DEF OutInv
<1>2. /\ IsSeq(q) /\ Len(q) \in Nat /\ CellsOf(q) = Flying
      /\ \A i \in 1 .. Len(q) : q[i].hop \in Ids /\ q[i] \in Flying
      /\ \A i \in 1 .. Len(q) : q[i].layers[0] = relayFwd[0] + (i - 1)
      /\ relayFwd[0] \in Nat
  BY <1>1, EncryptedIs
<1>3. IsSeq(link) /\ \A i, j \in 1 .. Len(link) : link[i] = link[j] => i = j
  BY FlyingCells DEF OutInv, Apart
<1>4. /\ cell = link[1] /\ cell \in Flying
      /\ {link[i] : i \in 2 .. Len(link)} = CellsOf(link) \ {cell}
  BY <1>3, CellsOfTail DEF Flying
<1>5. PICK i \in 1 .. Len(q) : q[i] = cell
  <2>1. cell \in CellsOf(q)
    BY <1>2, <1>4
  <2> QED BY <2>1 DEF CellsOf
<1>6. 1 \in 1 .. Len(q) /\ q[1].layers[0] = relayFwd[0]
  BY <1>2, <1>5
<1>7. CASE i = 1
  <2> PICK h \in Ids : h = cell.hop
    BY <1>2, <1>5
  <2>1. relayFwd \in [Ids -> Nat] /\ relayDig \in [Ids -> Nat] /\ 0 .. h \subseteq Ids
    BY CountsType, IdsAre
  <2>2. /\ \A g \in 0 .. h : cell.layers[g] = relayFwd[g] + Uses(q, Behind(g), 1 - 1)
        /\ cell.num = relayDig[h] + Uses(q, Only(h), 1 - 1)
    BY <1>1, <1>5, <1>6, <1>7 DEF Encrypted, Synced, Numbered
  <2>3. \A S : Uses(q, S, 1 - 1) = 0
    BY UsesType
  <2>4. cell.num = relayDig[h] /\ \A g \in 0 .. h : cell.layers[g] = relayFwd[g]
    BY <2>1, <2>2, <2>3
  <2> QED BY <2>4 DEF Recognised, InStep
<1>8. CASE i # 1
  <2>1. cell.layers[0] = relayFwd[0] + (i - 1) /\ i > 1
    BY <1>2, <1>5, <1>8
  <2>2. q[1].layers[0] < cell.layers[0]
    BY <1>2, <1>6, <2>1
  <2>3. q[1] \in Flying /\ q[1] # cell
    BY <1>2, <1>6, <2>1
  <2>4. q[1] \in {link[k] : k \in 2 .. Len(link)} \cup Hands
    BY <1>4, <2>3 DEF Flying
  <2> QED BY <2>2, <2>4 DEF Overtaken, Hands
<1> QED BY <1>7, <1>8

\* The next cell of either direction is recognised where it should be, unless it
\* left before a cell encrypted earlier; streams may send while Extend runs.
THEOREM CellsAreRecognised == Spec => []CellsRecognised
<1>1. ASSUME PathInv, StepInv PROVE CellsRecognised
  <2> SUFFICES ASSUME cause = "none"
               PROVE  /\ link # <<>> => \/ Head(link).hop < Len(relays) /\ Recognised(Head(link))
                                        \/ Overtaken
                      /\ downlink # <<>> => LET cell == Head(downlink) IN
                           cell.hop < hops /\ Own(cell, cell.hop) /\ cell.num = checked[cell.hop]
    BY DEF CellsRecognised
  <2>1. OutInv /\ WayInSynced
    BY <1>1 DEF StepInv
  <2>2. ASSUME link # <<>>
        PROVE  (Head(link).hop < Len(relays) /\ Recognised(Head(link))) \/ Overtaken
    <3>1. Recognised(Head(link)) \/ Overtaken
      BY <1>1, <2>1, <2>2, FirstIsRecognised
    <3>2. Head(link).hop < hops /\ Head(link).hop \in Ids
      BY <1>1, <2>2, ArrivingCell
    <3>3. Head(link).hop < Len(relays)
      BY <1>1, <3>2, PathFacts, IdsAre
    <3> QED BY <3>1, <3>3
  <2>3. ASSUME downlink # <<>>, NEW cell, cell = Head(downlink)
        PROVE  cell.hop < hops /\ Own(cell, cell.hop) /\ cell.num = checked[cell.hop]
    BY <1>1, <2>1, <2>3, WayInDue DEF Own, InStep
  <2> QED BY <2>2, <2>3
<1> QED BY <1>1, StepInvariant, PathInvariant, PTL

\* The cells of a queue that use the key stream of hop h.
LEMMA UsesAre ==
  ASSUME NEW q, IsSeq(q), \A i \in 1 .. Len(q) : q[i].hop \in Ids, NEW h \in Ids
  PROVE  Uses(q, Behind(h), Len(q)) = Cardinality({i \in 1 .. Len(q) : q[i].hop >= h})
<1>1. \A c \in Ids : c \in Behind(h) <=> c >= h
  BY Sizes DEF Ids, Behind
<1>2. \A i \in 1 .. Len(q) : HopsOf(q)[i] = q[i].hop
  BY DEF HopsOf
<1>3. {i \in 1 .. Len(q) : HopsOf(q)[i] \in Behind(h)} = {i \in 1 .. Len(q) : q[i].hop >= h}
  BY <1>1, <1>2
<1> QED BY <1>3 DEF Uses, CountTo

\* Each key stream of the client is ahead of the relay's by the cells in flight
\* for that hop or one behind it, and so on the way back, also while writeLoop
\* and Extend both hold a cell.
THEOREM KeyStreamsCorrect == Spec => []KeyStreamsInStep
<1>1. ASSUME PathInv, StepInv PROVE KeyStreamsInStep
  <2>1. ASSUME cause = "none", NEW h \in Ids
        PROVE  /\ forwards[h] = relayFwd[h] + InFlight(h)
               /\ relayBwd[h] = backwards[h] +
                    Cardinality({i \in 1 .. Len(downlink) : downlink[i].hop >= h})
    <3>1. /\ forwards[h] = relayFwd[h] + Uses(link, Behind(h), Len(link))
                             + Held(writer, h) + Held(extender.cell, h)
          /\ relayBwd[h] = backwards[h] + Uses(downlink, Behind(h), Len(downlink))
      BY <1>1, <2>1 DEF StepInv, OutInv, Counted, WayInSynced, Synced
    <3>2. /\ IsSeq(downlink) /\ \A i \in 1 .. Len(downlink) : downlink[i].hop \in Ids
          /\ IsSeq(link) /\ \A i \in 1 .. Len(link) : link[i].hop \in Ids
      BY <1>1, PathFacts, CellTypes DEF IsCell
    <3>3. /\ Uses(downlink, Behind(h), Len(downlink)) =
               Cardinality({i \in 1 .. Len(downlink) : downlink[i].hop >= h})
          /\ Uses(link, Behind(h), Len(link)) =
               Cardinality({i \in 1 .. Len(link) : link[i].hop >= h})
      BY <3>2, UsesAre
    <3>4. /\ relayFwd[h] \in Nat /\ Uses(link, Behind(h), Len(link)) \in Nat
          /\ Held(writer, h) \in Nat /\ Held(extender.cell, h) \in Nat
      BY <1>1, FlyingCells, CountsType, UsesType DEF Held
    <3>5. InFlight(h) = Uses(link, Behind(h), Len(link)) + Held(writer, h) + Held(extender.cell, h)
      BY <3>3 DEF InFlight, Held
    <3> HIDE DEF InFlight, Held, Uses
    <3> QED BY <3>1, <3>3, <3>4, <3>5
  <2> QED BY <1>1, <2>1 DEF KeyStreamsInStep, PathInv
<1> QED BY <1>1, StepInvariant, PathInvariant, PTL
=============================================================================
