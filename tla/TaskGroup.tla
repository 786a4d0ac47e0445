----------------------------- MODULE TaskGroup -----------------------------
(***************************************************************************)
(* heat/engine/scheduler.py: a DependencyTaskGroup and the TaskRunners of  *)
(* its tasks, over the dependency graph of heat/engine/dependencies.py.    *)
(*                                                                         *)
(* The group is a coroutine.  A round starts the tasks whose requirements  *)
(* are gone from the graph, yields, and steps every task that has started. *)
(* A step of a task is one step of the model; what the task does in it -   *)
(* finish, raise, go on - is open.  The loops run over dictionaries, so    *)
(* their order is open too.                                                *)
(***************************************************************************)
EXTENDS Naturals, FiniteSets

CONSTANTS
    Tasks,   \* the objects of the dependency graph
    Graphs,  \* the dependency graphs considered: functions to requirements
    Modes    \* the ways to treat errors: a subset of ErrorModes

\* How the group is called: without error_wait_time (cancel at once), with
\* it (cancel when it has passed), or with aggregate_exceptions.
ErrorModes == {"at_once", "grace", "aggregate"}

ASSUME GraphsAssumption == Graphs \subseteq [Tasks -> SUBSET Tasks]
ASSUME ModesAssumption  == Modes \subseteq ErrorModes

VARIABLES
    deps,     \* deps[k]: what k required when the group was made
    mode,     \* error_wait_time and aggregate_exceptions
    runner,   \* runner[k]: the state of TaskRunner k
    graph,    \* the keys of self._graph
    require,  \* require[k]: Node.require of k, the part not yet satisfied
    limited,  \* the runners with a TimedCancel that runs
    errors,   \* the tasks with an exception in raised_exceptions
    at,       \* where the coroutine is
    todo      \* the runners its step loop has still to visit

vars == <<deps, mode, runner, graph, require, limited, errors, at, todo>>

\* "raised": the generator is finished by an exception, but the runner is
\* not marked done; "failed" is the same one marked done afterwards.
Started == {"open", "raised", "finished", "closed", "failed"}
Done    == {"finished", "cancelled", "closed", "failed"}

TypeOK ==
    /\ deps    \in Graphs
    /\ mode    \in Modes
    /\ runner  \in [Tasks -> Started \cup Done \cup {"new"}]
    /\ graph   \in SUBSET Tasks
    /\ require \in [Tasks -> SUBSET Tasks]
    /\ limited \in SUBSET Tasks
    /\ errors  \in SUBSET Tasks
    /\ at      \in {"starting", "suspended", "stepping", "returned", "aborted"}
    /\ todo    \in SUBSET Tasks

Init ==
    /\ deps \in Graphs
    /\ mode \in Modes
    /\ runner = [k \in Tasks |-> "new"]
    /\ graph = Tasks
    /\ require = deps
    /\ limited = {}
    /\ errors = {}
    /\ at = IF Tasks = {} THEN "returned" ELSE "starting"
    /\ todo = {}

-----------------------------------------------------------------------------
(* The graph and the runners.                                              *)

\* del self._graph[k]: k is gone, and what it was required by requires it
\* no more.
Delete_mutDropsNode(k) ==
    /\ graph' = graph \ {k}
    /\ require' = [j \in DOMAIN require \ {k} |-> require[j] \ {k}]
Delete(k) ==
    /\ graph' = graph \ {k}
    /\ require' = [j \in Tasks |-> require[j] \ {k}]

\* k and every task that depends on it, directly or not.
Closed(S) == \A x \in S, y \in Tasks : x \in deps[y] => y \in S

Downstream_mutDirect(k) == {k} \cup {d \in Tasks : k \in deps[d]}
Downstream(k) == {d \in Tasks : \A S \in SUBSET Tasks :
                                   k \in S /\ Closed(S) => d \in S}

\* TaskRunner.cancel() without a grace period, of every runner in S.
Cancelled(state) ==
    IF state = "new" THEN "cancelled"
    ELSE IF state = "open" THEN "closed"
    ELSE IF state = "raised" THEN "failed"
    ELSE state

Stopped_mutAll(S) == [k \in Tasks |-> Cancelled(runner[k])]
Stopped(S) ==
    [k \in Tasks |-> IF k \in S THEN Cancelled(runner[k]) ELSE runner[k]]

\* TaskRunner.cancel(grace): a runner that has not started is cancelled, one
\* that has gets a TimedCancel.
StoppedNew_mutKeepNew == runner
StoppedNew == [k \in Tasks |-> IF runner[k] = "new" THEN "cancelled"
                                                    ELSE runner[k]]

-----------------------------------------------------------------------------
(* The coroutine.                                                          *)

\* "while any(self._runners.itervalues())" at the top of a round.
Top == at' = IF \A k \in Tasks : runner'[k] \in Done THEN "returned"
                                                      ELSE "starting"

\* "except Exception": task k raised.  An aggregating group cancels what
\* depends on it and takes it out of the graph; the nodes of the dependents
\* come back empty, as deleting one touches them through the defaultdict.
RaiseInAggregate(k) ==
    /\ mode = "aggregate"
    /\ runner' = [Stopped(Downstream(k)) EXCEPT ![k] = "failed"]
    /\ graph' = graph \ {k}
    /\ require' = [j \in Tasks |->
                     IF j \in Downstream(k) THEN {} ELSE require[j]]
    /\ UNCHANGED limited

\* Any other group cancels everything: at once ...
RaiseAtOnce(k) ==
    /\ mode = "at_once"
    /\ runner' = [Stopped(Tasks) EXCEPT ![k] = "failed"]
    /\ UNCHANGED <<graph, require, limited>>

\* ... or after error_wait_time, as far as it has been started.
RaiseWithGrace(k) ==
    /\ mode = "grace"
    /\ runner' = [StoppedNew EXCEPT ![k] = "raised"]
    /\ limited' = limited \cup {k} \cup {j \in Tasks : runner[j] \in Started \ Done}
    /\ UNCHANGED <<graph, require>>

Raise(k) ==
    /\ RaiseInAggregate(k) \/ RaiseAtOnce(k) \/ RaiseWithGrace(k)
    /\ errors' = errors \cup {k}
    /\ Top
    /\ todo' = {}
    /\ UNCHANGED <<deps, mode>>

Ready_mutIgnoresGraph(k) == runner[k] = "new"
Ready(k) == k \in graph /\ require[k] = {} /\ runner[k] = "new"

\* r.start() runs the first step of a ready task.
Start(k) ==
    /\ at = "starting"
    /\ Ready(k)
    /\ \/ /\ runner' \in {[runner EXCEPT ![k] = "open"],
                          [runner EXCEPT ![k] = "finished"]}
          /\ UNCHANGED <<graph, require, limited, errors, at, todo>>
          /\ UNCHANGED <<deps, mode>>
       \/ Raise(k)

\* "yield", once nothing is ready.
Suspend ==
    /\ at = "starting"
    /\ \A k \in Tasks : ~Ready(k)
    /\ at' = "suspended"
    /\ UNCHANGED <<deps, mode, runner, graph, require, limited, errors, todo>>

Resume ==
    /\ at = "suspended"
    /\ at' = "stepping"
    /\ todo' = Tasks
    /\ UNCHANGED <<deps, mode, runner, graph, require, limited, errors>>

Running(k) == k \in graph /\ runner[k] \in Started

Visit(k) ==
    /\ at = "stepping"
    /\ k \in todo
    /\ Running(k)
    /\ todo' = todo \ {k}

\* step() finds the runner done, or its generator at an end: the task is
\* taken out of the graph.  A runner whose time is over is closed first.
StepEnds(k) ==
    /\ Visit(k)
    /\ \/ runner[k] \in Done /\ UNCHANGED runner
       \/ runner[k] = "raised" /\ runner' = [runner EXCEPT ![k] = "failed"]
       \/ runner[k] = "open" /\ runner' = [runner EXCEPT ![k] = "finished"]
    /\ Delete(k)
    /\ UNCHANGED <<deps, mode, limited, errors, at>>

StepExpires(k) ==
    /\ Visit(k)
    /\ k \in limited /\ runner[k] = "open"
    /\ runner' = [runner EXCEPT ![k] = "closed"]
    /\ Delete(k)
    /\ UNCHANGED <<deps, mode, limited, errors, at>>

\* next(self._runner) yields: the task goes on polling.
StepGoesOn(k) ==
    /\ Visit(k)
    /\ runner[k] = "open"
    /\ UNCHANGED <<deps, mode, runner, graph, require, limited, errors, at>>

StepRaises(k) ==
    /\ at = "stepping" /\ k \in todo /\ Running(k)
    /\ runner[k] = "open"
    /\ Raise(k)

RoundEnds ==
    /\ at = "stepping"
    /\ \A k \in todo : ~Running(k)
    /\ UNCHANGED <<deps, mode, runner, graph, require, limited, errors>>
    /\ Top
    /\ todo' = {}

\* Timeout, GeneratorExit or GreenletExit, thrown in at the yield or out of
\* the step of a task: cancel_all() and re-raise.
Abort_mutLeavesOpen ==
    /\ at \in {"starting", "suspended", "stepping"}
    /\ runner' = StoppedNew
    /\ at' = "aborted"
    /\ todo' = {}
    /\ UNCHANGED <<deps, mode, graph, require, limited, errors>>
Abort ==
    /\ at \in {"starting", "suspended", "stepping"}
    /\ runner' = Stopped(Tasks)
    /\ at' = "aborted"
    /\ todo' = {}
    /\ UNCHANGED <<deps, mode, graph, require, limited, errors>>

Ended == at \in {"returned", "aborted"} /\ UNCHANGED vars

Step(k) == StepEnds(k) \/ StepExpires(k) \/ StepGoesOn(k) \/ StepRaises(k)

Round == Suspend \/ Resume \/ RoundEnds \/ \E k \in Tasks : Start(k) \/ Step(k)

Next == Round \/ Abort \/ Ended

Spec == Init /\ [][Next]_vars

\* The group is resumed until it is over (TaskRunner.run_to_completion), and
\* the operation a task polls for comes to an end.
Fairness ==
    /\ WF_vars(Round)
    /\ \A k \in Tasks : SF_vars(StepEnds(k))

FairSpec == Spec /\ Fairness

-----------------------------------------------------------------------------
(* Properties.                                                             *)

\* A task has been started only after all it requires has finished well:
\* not failed, not cut short by the grace period, not merely taken out of
\* the graph.
OrderKept ==
    \A k \in Tasks : runner[k] \in Started
                       => \A j \in deps[k] : runner[j] = "finished"

\* After a failure a group that does not aggregate starts nothing new.
NoStartAfterError ==
    [][errors # {} /\ mode # "aggregate"
         => \A k \in Tasks : runner[k] = "new" => runner'[k] \notin Started]_vars

\* An aggregating group that returns has run every task that depends on no
\* failed one, and started none that does.
AggregateComplete ==
    at = "returned" /\ mode = "aggregate" =>
        \A k \in Tasks :
            IF \E f \in errors : k \in Downstream(f) /\ k # f
            THEN runner[k] = "cancelled"
            ELSE runner[k] = IF k \in errors THEN "failed" ELSE "finished"

\* When the coroutine is over no task is left half-way with its generator
\* open, and it raises (errors # {}) unless every task has finished.
NothingLeftOpen ==
    at \in {"returned", "aborted"} =>
        /\ \A k \in Tasks : runner[k] \in Done
        /\ at = "returned" /\ errors = {}
             => \A k \in Tasks : runner[k] = "finished"

\* The group comes to an end.
Terminates == <>(at \in {"returned", "aborted"})

\* The group runs its tasks in order, as OrderedRun says.
PhaseOf(state) ==
    IF state = "new" THEN "waiting"
    ELSE IF state = "open" THEN "running"
    ELSE IF state = "finished" THEN "succeeded"
    ELSE IF state \in {"raised", "failed"} THEN "failed"
    ELSE "dropped"

Run == INSTANCE OrderedRun WITH
         group <- IF at = "aborted" THEN "aborted" ELSE "on",
         phase <- [k \in Tasks |-> PhaseOf(runner[k])]
RunSpec == Run!Spec
=============================================================================
