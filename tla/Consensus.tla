----------------------------- MODULE Consensus ------------------------------
(***************************************************************************)
(* ParseConsensus: the line machine that reads a microdescriptor consensus *)
(* into a Consensus.  A document is a sequence of lines; a line keeps its  *)
(* keyword and what the parser takes from it.  The scanner reports a       *)
(* broken download as the end of the document, so any prefix may be what   *)
(* is parsed; the last line of it may be cut.                              *)
(***************************************************************************)
EXTENDS Integers, SequencesExt

CONSTANTS MaxPort,  \* 65535
          Protocols, \* the names a "pr" line may give versions of
          Fresh,    \* fresh-until less valid-after, in units of time
          Valid     \* valid-until less fresh-until

ASSUME ConsensusAssumption == MaxPort \in Nat /\ {Fresh, Valid} \subseteq Nat \ {0}

\* Times are counted from the document's valid-after; NoTime is time.Time{}.
NoTime == -1

Weights == {"Wgg", "Wgd", "Wee", "Wed", "Wmm", "Wmg", "Wmd"}
NoWeights == [w \in Weights |-> 0]

\* What not every entry says: the fields that an "a" line (Ipv6Addr) and a "pr"
\* line (ProtoVersions) set, and their zero value.
Optional == {"Ipv6Addr"} \cup Protocols
Unset == ""

NoRelay == [id |-> "", ipLevel |-> <<0, 0>>, flags |-> {}, given |-> [f \in Optional |-> Unset], bw |-> 0, digest |-> "",
            ports |-> {}, ntor |-> "", ed |-> "", familys |-> {}]

EmptyConsensus == [validAfter |-> NoTime, freshUntil |-> NoTime, validUntil |-> NoTime,
                   relays |-> <<>>, weights |-> NoWeights]

-----------------------------------------------------------------------------
\* ParsePortsLine, parseAccept, parseReject: the set of ports left on.
\* "reject" begins with every port on, port 0 too.
PortsOf(policy) ==
    LET listed == UNION {r[1] .. r[2] : r \in policy.ranges}
    IN IF policy.ranges = {<<1, MaxPort>>}
         THEN IF policy.accept THEN 0 .. MaxPort ELSE {}
         ELSE IF policy.accept THEN listed ELSE (0 .. MaxPort) \ listed

\* IPLevel of an IPv4 address: its /16 (the level is called P24).
IPLevel(ip) == <<ip[1], ip[2]>>

-----------------------------------------------------------------------------
RouterKeywords == {"r", "a", "s", "v", "pr", "w", "m", "p"}

\* The state in which the line is handled: errUnknownToken moves on to the
\* next state and parses the line again.
StateFor(state, kw) ==
    CASE state = "HEADER" /\ kw = "dir-source" -> "DIRS"
      [] state = "DIRS" /\ kw = "r" -> "ROUTERS"
      [] state = "ROUTERS" /\ kw \notin RouterKeywords -> "FOOTER"
      [] OTHER -> state

Failed(p) == [p EXCEPT !.err = TRUE]

\* A date that does not parse is the zero time, except fresh-until's.
HeaderLine(p, l) ==
    CASE l.kw = "valid-after" -> [p EXCEPT !.cns.validAfter = IF l.cut THEN NoTime ELSE l.time]
      [] l.kw = "valid-until" -> [p EXCEPT !.cns.validUntil = IF l.cut THEN NoTime ELSE l.time]
      [] l.kw = "fresh-until" -> IF l.cut THEN Failed(p) ELSE [p EXCEPT !.cns.freshUntil = l.time]
      [] OTHER -> p

\* An "r" line lists the relay before it.  routerStatusTmp is then reused, and
\* keeps whatever the next relay's lines do not overwrite.
Router(p, l) ==
    LET tmp == [(IF p.tmp = <<>> THEN NoRelay ELSE p.tmp[1])
                  EXCEPT !.id = l.id, !.ipLevel = IPLevel(l.ip)]
    IN [p EXCEPT !.cns.relays = @ \o p.tmp, !.tmp = <<tmp>>]

Overwritten(old, given) == [f \in Optional |-> IF f \in DOMAIN given THEN given[f] ELSE old[f]]

\* A cut "r" line has too few tokens, and a cut "pr" line one without versions.
\* Flags are only ever switched on; "a" and "pr" lines set what they name.
RouterLine(p, l) ==
    CASE l.kw = "r" -> IF l.cut THEN Failed(p) ELSE Router(p, l)
      [] l.kw = "s" -> [p EXCEPT !.tmp[1].flags = @ \cup l.flags]
      [] l.kw = "a" -> [p EXCEPT !.tmp[1].given = Overwritten(@, l.given)]
      [] l.kw = "pr" -> IF l.cut THEN Failed(p) ELSE [p EXCEPT !.tmp[1].given = Overwritten(@, l.given)]
      [] l.kw = "w" -> [p EXCEPT !.tmp[1].bw = l.bw]
      [] l.kw = "m" -> [p EXCEPT !.tmp[1].digest = l.digest]
      [] l.kw = "p" -> [p EXCEPT !.tmp[1].ports = PortsOf(l.policy)]
      [] OTHER -> p

FooterLine(p, l) ==
    IF l.kw = "bandwidth-weights" THEN [p EXCEPT !.cns.weights = l.weights] ELSE p

ParseLine(p, l) ==
    LET q == [p EXCEPT !.state = StateFor(p.state, l.kw)]
    IN IF p.err THEN p
       ELSE CASE q.state = "HEADER"  -> HeaderLine(q, l)
              [] q.state = "DIRS"    -> q
              [] q.state = "ROUTERS" -> RouterLine(q, l)
              [] q.state = "FOOTER"  -> FooterLine(q, l)

\* The parser's result: err, or the consensus.  The relay still in
\* routerStatusTmp at the end of the document is not listed.
ParseConsensus(lines) ==
    FoldLeft(ParseLine,
             [state |-> "HEADER", err |-> FALSE, tmp |-> <<>>, cns |-> EmptyConsensus],
             lines)

-----------------------------------------------------------------------------
(* External: the documents directory caches serve.                         *)

Line(kw) == [kw |-> kw, cut |-> FALSE]
Date(kw, t) == [kw |-> kw, cut |-> FALSE, time |-> t]

\* An entry has an "a" line, a "pr" line, both or neither.  For one it has not
\* stands a "v" line, which the parser skips and every entry has.
OptionalLine(kw, fields, e) ==
    LET named == fields \cap DOMAIN e.given
    IN IF named = {} THEN Line("v") ELSE [kw |-> kw, cut |-> FALSE, given |-> Restrict(e.given, named)]

\* The lines of one relay, entry = [id, ip, digest, flags, given, bw].
EntryLines(e) ==
    << [kw |-> "r", cut |-> FALSE, id |-> e.id, ip |-> e.ip],
       OptionalLine("a", {"Ipv6Addr"}, e),
       [kw |-> "m", cut |-> FALSE, digest |-> e.digest],
       [kw |-> "s", cut |-> FALSE, flags |-> e.flags],
       OptionalLine("pr", Protocols, e),
       [kw |-> "w", cut |-> FALSE, bw |-> e.bw] >>

\* A whole consensus, doc = [entries, weights].
Lines(doc) ==
    << Line("network-status-version"), Date("valid-after", 0), Date("fresh-until", Fresh),
       Date("valid-until", Fresh + Valid), Line("dir-source"), Line("contact") >>
    \o FoldLeft(LAMBDA ls, e : ls \o EntryLines(e), <<>>, doc.entries)
    \o << Line("directory-footer"),
          [kw |-> "bandwidth-weights", cut |-> FALSE, weights |-> doc.weights] >>

\* What arrives of a download that breaks off: a prefix, its last line perhaps
\* cut (the model cuts dates, "r" and "pr" lines).
Broken(lines) ==
    LET kept(n) == SubSeq(lines, 1, n)
        Cut(n) == [kept(n) EXCEPT ![n].cut = TRUE]
    IN {kept(n) : n \in 0 .. Len(lines) - 1}
       \cup {Cut(n) : n \in {i \in DOMAIN lines :
                  lines[i].kw \in {"valid-after", "fresh-until", "valid-until", "r", "pr"}}}
=============================================================================
