---------------------------- MODULE MCTaskGroup ----------------------------
(* Instances of TaskGroup for TLC: all acyclic graphs over a few tasks.    *)
EXTENDS TaskGroup

FourTasks  == 1..4

\* Every acyclic graph is one of these, up to the names of its tasks.
Acyclic(T) == {g \in [T -> SUBSET T] : \A k \in T : g[k] \subseteq 1..(k - 1)}

GraphsOfFour  == Acyclic(FourTasks)
=============================================================================
