----------------------------- MODULE CreditFlow -----------------------------
(***************************************************************************)
(* What a SENDME window promises, per hop of a circuit: DATA cells go out  *)
(* only against credit, StartValue cells at first and AddValue more for    *)
(* every acknowledgement, and an acknowledgement stands for AddValue cells *)
(* that did go out.                                                        *)
(***************************************************************************)
EXTENDS Integers

CONSTANTS Hops, StartValue, AddValue

VARIABLES sent,     \* DATA cells on the link, per hop
          granted   \* cells acknowledged, per hop

vars == <<sent, granted>>

Init == /\ sent = [h \in Hops |-> 0]
        /\ granted = [h \in Hops |-> 0]

Send(h) == /\ sent[h] < StartValue + granted[h]
           /\ sent' = [sent EXCEPT ![h] = @ + 1]
           /\ UNCHANGED granted

Grant(h) == /\ granted[h] + AddValue <= sent[h]
            /\ granted' = [granted EXCEPT ![h] = @ + AddValue]
            /\ UNCHANGED sent

Next == \E h \in Hops : Send(h) \/ Grant(h)

Spec == Init /\ [][Next]_vars
=============================================================================
