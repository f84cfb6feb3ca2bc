------------------------------- MODULE MCOnion -------------------------------
EXTENDS Onion
CONSTANTS a, b, c
Entry(r)    == [node |-> r, key |-> OnionKey(r), addr |-> r, ed |-> r]
Rotated(r)  == [Entry(r) EXCEPT !.key = <<"replaced", r>>]
NoKey(r)    == [Entry(r) EXCEPT !.key = None]
NoEd(r)     == [Entry(r) EXCEPT !.ed = None]
Moved(r, s) == [Entry(r) EXCEPT !.addr = s]
MCPaths ==
    {<<Entry(a)>>, <<Entry(a), Entry(b), Entry(c)>>,
     <<NoKey(a), Entry(b)>>, <<Rotated(a), Entry(b)>>,
     <<Entry(a), NoKey(b)>>, <<Entry(a), Rotated(b), Entry(c)>>,
     <<Entry(a), Entry(b), NoEd(c)>>, <<Entry(a), Entry(b), Moved(c, b)>>}
MCExtras == {Entry(b), Entry(c)}
JustB == {b}
=============================================================================
