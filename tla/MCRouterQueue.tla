--------------------------- MODULE MCRouterQueue ---------------------------
(* Instances of RouterQueue for TLC. *)
EXTENDS RouterQueue, TLC

Symmetry == Permutations(Workers)

NoFaults      == {}
OnlyRestarts  == {"restart"}
OnlyFetches   == {"fetch"}
AllFaults     == FaultKinds
=============================================================================
