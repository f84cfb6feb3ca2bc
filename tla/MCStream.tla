------------------------------ MODULE MCStream -------------------------------
EXTENDS Stream

Quiet == [data |-> 0, down |-> 0, userEnds |-> FALSE, relayEnds |-> FALSE, dies |-> FALSE,
          janitor |-> FALSE]

\* More cells than the windows hold, one way or both ways at once.
Up   == [Quiet EXCEPT !.data = 8]
Down == [Quiet EXCEPT !.down = 10]
Both == [Quiet EXCEPT !.data = 5, !.down = 3]

\* The relay, the user or the circuit ends a stream that is far from a trigger,
\* with the freeing goroutine of a directory request or without.
RelayStops   == [Quiet EXCEPT !.data = 1, !.down = 3, !.relayEnds = TRUE]
UserStops    == [Quiet EXCEPT !.data = 1, !.userEnds = TRUE, !.relayEnds = TRUE]
Dies         == [Quiet EXCEPT !.data = 1, !.userEnds = TRUE, !.dies = TRUE]
RequestStops == [RelayStops EXCEPT !.down = 1, !.janitor = TRUE]
RequestDies  == [Quiet EXCEPT !.data = 1, !.down = 1, !.dies = TRUE, !.janitor = TRUE]

Lives == {Up, Down, Both, RelayStops, UserStops, Dies, RequestStops, RequestDies}

\* A long Write under which the circuit dies, or the user ends the stream.
Cuts == {[Up EXCEPT !.dies = TRUE], [Up EXCEPT !.userEnds = TRUE]}

OnlyUp == {Up}
=============================================================================
