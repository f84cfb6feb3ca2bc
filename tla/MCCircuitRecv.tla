--------------------------- MODULE MCCircuitRecv ----------------------------
(***************************************************************************)
(* CircuitRecv with a history: how many of each relay's DATA cells were    *)
(* for a stream the user had freed, which readloop does not charge.        *)
(***************************************************************************)
EXTENDS CircuitRecv

VARIABLE dropped

HistoryInit == Init /\ dropped = [h \in Hops |-> 0]

\* readloop takes a cell of hop h for a stream that is gone.
Drops(h) == /\ inbound # <<>> /\ inbound' = Tail(inbound)
            /\ Head(inbound).hop = h /\ Head(inbound).stream \notin live

HistoryNext ==
    Next /\ dropped' = [h \in Hops |-> IF Drops(h) THEN dropped[h] + 1 ELSE dropped[h]]

HistorySpec     == HistoryInit /\ [][HistoryNext]_<<vars, dropped>>
FairHistorySpec == HistorySpec /\ Fairness

OneStream  == {1}
TwoStreams == {1, 2}

\* No trigger is lost when managers lag behind: whatever a relay has to send
\* gets through, unless the circuit ends.  The cells readloop drops uncharged
\* (circuit_loop.go:48) are never acknowledged, for any stream of the circuit;
\* they alone can starve a relay, and only when what is left of the window
\* without them is less than one acknowledgement.
DownstreamFlows ==
    <>(cause # "none" \/ \A h \in Hops : \/ relaySent[h] = MaxDown
                                         \/ StartValue - dropped[h] < AddValue)
=============================================================================
