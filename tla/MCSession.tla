----------------------------- MODULE MCSession -----------------------------
(* Instances of Session for TLC.                                           *)
EXTENDS Session, TLC

CONSTANTS p1, p2

One == {p1}
Two == {p1, p2}
AnyProcess == Permutations(Two)
=============================================================================
