------------------------------- MODULE MCConn -------------------------------
EXTENDS Conn, TLC
CONSTANTS c1, c2, r1, r2
TwoCircuits == {c1, c2}
OneReads == (c1 :> 2) @@ (c2 :> 0)
OneSends == (c1 :> 0) @@ (c2 :> 1)
OwnIds == [c \in TwoCircuits |-> c]
=============================================================================
