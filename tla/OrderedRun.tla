----------------------------- MODULE OrderedRun -----------------------------
(***************************************************************************)
(* What Heat expects of a task group: tasks run in the order of their      *)
(* dependencies, each at most once, and a task is dropped only on account  *)
(* of a failure - in an aggregating group only if it depends on the task   *)
(* that failed - or because the whole group is aborted.                    *)
(***************************************************************************)
CONSTANT Tasks

VARIABLES
    deps,       \* deps[k]: the tasks that k requires
    mode,       \* in mode "aggregate" independent tasks survive a failure
    phase,      \* phase[k]: what became of task k
    group       \* "on", or "aborted" for good

vars == <<deps, mode, phase, group>>

Phases == {"waiting", "running", "succeeded", "failed", "dropped"}

Closed(S) == \A x \in S, y \in Tasks : x \in deps[y] => y \in S

\* k and every task that depends on it, directly or not.
Downstream(k) == {d \in Tasks : \A S \in SUBSET Tasks :
                                   k \in S /\ Closed(S) => d \in S}

Init ==
    /\ deps \in [Tasks -> SUBSET Tasks]
    /\ mode \in {"aggregate", "at_once", "grace"}
    /\ phase = [k \in Tasks |-> "waiting"]
    /\ group = "on"

Failed == {k \in Tasks : phase[k] = "failed"}

\* A task that runs is never dropped while an aggregating group goes on.
MayDrop(k) ==
    \/ group' = "aborted"
    \/ IF mode = "aggregate"
       THEN phase[k] = "waiting"
            /\ \E f \in Tasks : phase'[f] = "failed" /\ k \in Downstream(f)
       ELSE \E f \in Tasks : phase'[f] = "failed"

Moves(k) ==
    \/ phase'[k] = phase[k]
    \/ /\ phase[k] = "waiting" /\ phase'[k] \in {"running", "succeeded", "failed"}
       /\ \A j \in deps[k] : phase[j] = "succeeded"
    \/ /\ phase[k] = "running" /\ phase'[k] \in {"succeeded", "failed"}
    \/ /\ phase[k] \in {"waiting", "running"} /\ phase'[k] = "dropped"
       /\ MayDrop(k)

\* At most one task of the group makes a step at a time.
Next ==
    /\ UNCHANGED <<deps, mode>>
    /\ group' \in {group, "aborted"}
    /\ phase' \in [Tasks -> Phases]
    /\ \A k \in Tasks : Moves(k)
    /\ \A j, k \in Tasks : /\ phase'[j] \notin {phase[j], "dropped"}
                           /\ phase'[k] \notin {phase[k], "dropped"}
                           => j = k

Spec == Init /\ [][Next]_vars
=============================================================================
