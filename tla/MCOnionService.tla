--------------------------- MODULE MCOnionService ---------------------------
EXTENDS OnionService

SomeSettings == {[len |-> 0, off |-> -1], [len |-> 2, off |-> 1], [len |-> 3, off |-> 0]}

(* A second on either side of the edges of the short periods and of the    *)
(* first two default ones (rotation after 12 hours, length 24 hours).      *)
Edges == {0, 59, 60, 179, 180, 43200, 129599, 129600}

(* The keys of the two services, one that nobody has, each also with a     *)
(* torsion part, the points of small order alone, and the identity.        *)
SomePoints == {104, 32, 40} \cup {(104 + 17) % 136, (32 + 68) % 136, (40 + 34) % 136}
              \cup {0, 17, 68}
=============================================================================
