------------------------------- MODULE Queue --------------------------------
(***************************************************************************)
(* How many cells of one kind wait in a queue; a kind is a set of cells.   *)
(***************************************************************************)
EXTENDS Integers, Sequences, FiniteSets

\* The cells of kind T among the first n of q, and in all of it.
CountTo(q, T, n) == Cardinality({i \in 1 .. n : q[i] \in T})
Count(q, T)      == CountTo(q, T, Len(q))
=============================================================================
