---------------------------- MODULE MCDirectory -----------------------------
EXTENDS Directory

All == {"Running", "Valid", "Fast", "Stable", "V2Dir"}
Web == [accept |-> TRUE, ranges |-> {<<2, 2>>, <<3, 3>>}]
NotWeb == [accept |-> FALSE, ranges |-> {<<1, 1>>}]
Nothing == [accept |-> FALSE, ranges |-> {<<1, 3>>}]

Block(policy, ntor, ed) ==
    << [kw |-> "onion-key"], [kw |-> "ntor-onion-key", key |-> ntor],
       [kw |-> "family-ids"], [kw |-> "p", policy |-> policy],
       [kw |-> "id ed25519", key |-> ed] >>

MCBlocks == [dA |-> Block(Nothing, "nA", "eA"), dB |-> Block(Nothing, "nB", "eB"),
             dC |-> Block(Web, "nC", "eC"), dD |-> Block(NotWeb, "nD", "eD"),
             dE |-> << [kw |-> "ntor-onion-key", key |-> "invalid"],
                       [kw |-> "id ed25519", key |-> "eE"] >>]

Entry(id, ip, digest, flags, given, bw) ==
    [id |-> id, ip |-> ip, digest |-> digest, flags |-> flags, given |-> given, bw |-> bw]

\* Entries with an "a" and a "pr" line, with either, and with neither.
Both == [Ipv6Addr |-> "6A", Link |-> "1-5", Relay |-> "1-4"]

A == Entry("A", <<10, 1, 0, 1>>, "dA", All \cup {"Guard"}, Both, 2)
B == Entry("B", <<10, 2, 0, 1>>, "dB", All, <<>>, 1)
C == Entry("C", <<10, 3, 0, 1>>, "dC", All \cup {"Exit"}, [Link |-> "4-5"], 1)
D == Entry("D", <<10, 1, 0, 2>>, "dD", (All \ {"Stable"}) \cup {"Exit"}, [Ipv6Addr |-> "6D"], 2)

E == Entry("E", <<10, 4, 0, 1>>, "dE", All \cup {"BadExit"}, <<>>, 1)

Weighted == [w \in Weights |-> IF w \in {"Wmg", "Wee"} THEN 5000 ELSE 10000]

\* The last relay of a consensus is never listed: chunks of two and two relays,
\* and of two and one.
MCDocuments == { [entries |-> <<A, B, C, D, E>>, weights |-> Weighted],
                 [entries |-> <<D, E, A, B>>, weights |-> NoWeights] }

\* Everything may go wrong; a user selects paths while all goes well; the cache
\* has whatever it is asked for.
Troubled == [lags |-> {0, 1}, broken |-> TRUE, failing |-> TRUE, whole |-> FALSE, user |-> FALSE]
MCScenarios == { Troubled,
                 [Troubled EXCEPT !.lags = {0}, !.broken = FALSE, !.failing = FALSE, !.user = TRUE],
                 [Troubled EXCEPT !.broken = FALSE, !.whole = TRUE] }
=============================================================================
