------------------------------ MODULE MCDriver ------------------------------
(* Instances of Driver for TLC: two profiles, the second with one stage    *)
(* fewer, so that a change of profile can leave the target out of range.   *)
EXTENDS Driver

CONSTANTS a, b, bad

TwoProfiles == {0, 1}
TwoCounts == [p \in TwoProfiles |-> 2 - p]
AllA == [p \in TwoProfiles |-> [s \in {0, 1} |-> a]]
OneMayBeBad == {AllA, [AllA EXCEPT ![0][0] = bad]}

OneProfile == {0}
OneCount == [p \in OneProfile |-> 2]
OneStored == {[p \in OneProfile |-> [s \in {0, 1} |-> a]]}
=============================================================================
