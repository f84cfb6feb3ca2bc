----------------------------- MODULE Microdesc ------------------------------
(***************************************************************************)
(* ParseMicrodescFile: the lines of a response are collected in a builder; *)
(* at every "id ed25519" line the digest of what was collected is looked   *)
(* up among those that were asked for.  A block that is not among them     *)
(* stays in the builder.                                                   *)
(***************************************************************************)
EXTENDS Consensus

CONSTANTS Blocks  \* digest -> the block of lines it is the SHA-256 of

\* A block ends with its "id ed25519" line, the only one it has, and has one
\* digest.  The ports of a policy are ports.
ASSUME BlocksAssumption ==
    /\ "" \notin DOMAIN Blocks
    /\ \A d \in DOMAIN Blocks : LET block == Blocks[d] IN
         /\ block \in Seq(ToSet(block)) /\ block # <<>>
         /\ \A e \in DOMAIN Blocks \ {d} : Blocks[e] # block
         /\ \A i \in DOMAIN block : /\ block[i].kw = "id ed25519" <=> i = Len(block)
                                    /\ block[i].kw = "p" =>
                                         \A r \in block[i].policy.ranges : r[1] .. r[2] \subseteq 0 .. MaxPort

\* The digest of the collected lines; "" stands for one nobody published.
DigestOf(lines) ==
    IF \E d \in DOMAIN Blocks : Blocks[d] = lines
      THEN CHOOSE d \in DOMAIN Blocks : Blocks[d] = lines
      ELSE ""

NoMicrodesc == [ntor |-> "", ed |-> "", exitRules |-> <<>>, familys |-> {}]

\* One line of parseMicrodescBlock.  parseFamilys returns nil whatever the
\* line lists.
BlockLine(m, l) ==
    CASE l.kw = "ntor-onion-key" -> [m EXCEPT !.ntor = l.key]
      [] l.kw = "id ed25519" -> [m EXCEPT !.ed = l.key]
      [] l.kw = "family-ids" -> [m EXCEPT !.familys = {}]
      [] l.kw = "p" -> [m EXCEPT !.exitRules = <<PortsOf(l.policy)>>]
      [] OTHER -> m

ParseMicrodescBlock(lines) == FoldLeft(BlockLine, NoMicrodesc, lines)

\* s = [builder, out]: out holds at each digest's index nothing or its block.
FileLine(digests, s, l) ==
    LET b == Append(s.builder, l)
        found == {i \in DOMAIN digests : digests[i] = DigestOf(b)}
        last == CHOOSE i \in found : \A j \in found : j <= i
    IN IF l.kw # "id ed25519" \/ found = {}
         THEN [s EXCEPT !.builder = b]
         ELSE [builder |-> <<>>, out |-> [s.out EXCEPT ![last] = <<ParseMicrodescBlock(b)>>]]

ParseMicrodescFile(lines, digests) ==
    FoldLeft(LAMBDA s, l : FileLine(digests, s, l),
             [builder |-> <<>>, out |-> [i \in DOMAIN digests |-> <<>>]],
             lines).out

-----------------------------------------------------------------------------
\* External: a cache answers with the blocks it has of those it was asked
\* for, in any order.
AnswersWith(found) ==
    {FoldLeft(LAMBDA ls, d : ls \o Blocks[d], <<>>, o) : o \in SetToSeqs(found)}
Answers(digests) == UNION {AnswersWith(found) : found \in SUBSET ToSet(digests)}
=============================================================================
