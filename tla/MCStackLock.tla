---------------------------- MODULE MCStackLock ----------------------------
(* Instances of StackLock for TLC. *)
EXTENDS StackLock, TLC

CONSTANTS e1, e2, e3, r1, r2, r3

TwoEngines   == {e1, e2}
ThreeEngines == {e1, e2, e3}
OneEngine    == {e1}
ThreeReqs    == {r1, r2, r3}
TwoReqs      == {r1, r2}

AllOps       == {"update", "delete", "cancel"}
LockingOps   == {"update", "delete"}

Symmetry3x3 == Permutations(ThreeEngines) \cup Permutations(ThreeReqs)
=============================================================================
