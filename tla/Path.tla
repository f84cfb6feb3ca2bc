-------------------------------- MODULE Path --------------------------------
(***************************************************************************)
(* Relay selection (package path): who is eligible for a place in the      *)
(* path, with which weight, and which relay a random number selects.  A    *)
(* relay is known by its index in the list (the code keeps pointers into   *)
(* the slice).                                                             *)
(***************************************************************************)
EXTENDS Consensus

Places == {"exit", "guard", "middle"}

HaveAllKeys(r) == r.ntor # "" /\ r.id # "" /\ r.ed # ""

\* exitValidateFunc, guardValideFunc, middleValideFunc
Suits(place, r) ==
    /\ HaveAllKeys(r)
    /\ place = "exit" => "Exit" \in r.flags /\ "BadExit" \notin r.flags
    /\ place = "guard" => {"Guard", "Fast", "Stable", "V2Dir"} \subseteq r.flags

\* exitWeightFunc, guardWeightFunc, middleWeightFunc
PositionWeight(place, flags, weights) ==
    LET guard == "Guard" \in flags
        exit == "Exit" \in flags
    IN CASE place = "exit"  -> IF guard THEN weights["Wed"] ELSE weights["Wee"]
         [] place = "guard" -> IF exit THEN weights["Wgd"] ELSE weights["Wgg"]
         [] place = "middle" -> IF guard /\ exit THEN weights["Wmd"]
                                ELSE IF guard THEN weights["Wmg"] ELSE weights["Wmm"]

WeightedBandwidth(bw, weight) ==
    IF bw <= 0 THEN 0
    ELSE IF weight <= 0 THEN bw
    ELSE IF (bw * weight) \div 10000 <= 0 THEN 1
    ELSE (bw * weight) \div 10000

\* selectRelay's loop: the relays that may take the place, with their weights.
Eligible(r, place, port, longLive) ==
    /\ port # 0 => port \in r.ports
    /\ longLive => "Stable" \in r.flags
    /\ {"Running", "Valid"} \subseteq r.flags
    /\ Suits(place, r)

Values(list, weights, place, port, longLive) ==
    LET Wb(i) == WeightedBandwidth(list[i].bw, PositionWeight(place, list[i].flags, weights))
    IN FoldLeftDomain(LAMBDA values, i :
                        IF Eligible(list[i], place, port, longLive) /\ Wb(i) > 0
                          THEN Append(values, [wb |-> Wb(i), ptr |-> i])
                          ELSE values,
                      <<>>, list)

TotalBw(values) == FoldLeft(LAMBDA sum, v : sum + v.wb, 0, values)

\* A plausible bug: the boundary belongs to the relay before it.
SelectRandomLate(r, values) ==
    LET UpTo(k) == TotalBw(SubSeq(values, 1, k))
    IN values[CHOOSE k \in DOMAIN values : r <= UpTo(k) /\ \A j \in 1 .. k - 1 : r > UpTo(j)].ptr

\* The relay that r in [0, totalBw) falls on.
SelectRandom(r, values) ==
    LET UpTo(k) == TotalBw(SubSeq(values, 1, k))
    IN values[CHOOSE k \in DOMAIN values : r < UpTo(k) /\ \A j \in 1 .. k - 1 : r >= UpTo(j)].ptr

\* cmpFamily: an identity of the same kind and value.
CmpFamily(b, o) == b \cap o # {}

\* conflicts, with the relays already in the path
Conflicts(r, others) ==
    \E o \in others : o.ipLevel = r.ipLevel \/ CmpFamily(o.familys, r.familys)

\* What selectRelay may return, 0 for an error: samples that conflict are
\* drawn again, 256 times at most.
SelectRelay(list, weights, place, port, longLive, others) ==
    LET values == Values(list, weights, place, port, longLive)
        drawn == {SelectRandom(r, values) : r \in 0 .. TotalBw(values) - 1}
        clash == {i \in drawn : Conflicts(list[i], others)}
    IN (drawn \ clash) \cup (IF drawn = {} \/ clash # {} THEN {0} ELSE {})
=============================================================================
