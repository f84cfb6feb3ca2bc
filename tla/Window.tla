------------------------------- MODULE Window -------------------------------
(***************************************************************************)
(* The flow-control window of internal/window/window.go, as operators on a *)
(* record: the counter v, the digest stored last, and the buffered channel *)
(* Trigged as a sequence.  Circuits use (StartValue, AddValue) = (1000,    *)
(* 100), streams (500, 50).                                                *)
(***************************************************************************)
EXTENDS Integers, Sequences

CONSTANTS StartValue, AddValue

ASSUME WindowAssumption ==
    /\ AddValue \in Nat \ {0}
    /\ StartValue \in Nat \ {0}
    /\ StartValue % AddValue = 0

\* [20]byte{}, the digest nobody has set.
NoDigest == 0

\* make(chan [20]byte, startValue/addValue)
Capacity == StartValue \div AddValue

WindowType == [v : Int, digest : Nat, trigged : Seq(Nat)]

NewWindow == [v |-> StartValue, digest |-> NoDigest, trigged |-> <<>>]

Increase(w) == [w EXCEPT !.v = @ + AddValue]

SetDigest(w, d) == [w EXCEPT !.digest = d]

IsZero(w) == w.v <= 0

\* The non-blocking send of the latest digest.
Trigger(w) == IF Len(w.trigged) < Capacity
                THEN [w EXCEPT !.trigged = Append(@, w.digest)]
                ELSE w

\* A plausible bug: the trigger fires one cell too early.
TriggerEarly(w, n) == LET u == [w EXCEPT !.v = @ - n]
                      IN  IF w.v % AddValue = 0 THEN Trigger(u) ELSE u

\* A plausible bug: the trigger is lost.
TriggerNever(w, n) == [w EXCEPT !.v = @ - n]

Subtract(w, n) == LET u == [w EXCEPT !.v = @ - n]
                  IN  IF u.v % AddValue = 0 THEN Trigger(u) ELSE u

\* A receive from Trigged: the digest taken and the window that remains.
HasDigest(w) == w.trigged # <<>>
TakenDigest(w) == Head(w.trigged)
AfterGet(w) == [w EXCEPT !.trigged = Tail(@)]

-----------------------------------------------------------------------------
(* Vocabulary of the invariants over windows.                              *)

\* The position of a counter between two trigger points.
Phase(v) == v % AddValue

\* The trigger points that remain before the counter reaches zero.
Units(v) == (v + AddValue - 1) \div AddValue

\* The cells charged since the last trigger point.
Since(v) == IF Phase(v) = 0 THEN 0 ELSE AddValue - Phase(v)
=============================================================================
