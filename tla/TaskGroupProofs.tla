-------------------------- MODULE TaskGroupProofs --------------------------
(* Proofs about TaskGroup, for any tasks, dependency graph and error mode. *)
EXTENDS TaskGroup, WellFoundedInduction, TLAPS

USE GraphsAssumption, ModesAssumption DEF ErrorModes

-----------------------------------------------------------------------------
(* Facts about the operators.                                              *)

LEMMA DownstreamSelf ==
    ASSUME NEW k \in Tasks PROVE k \in Downstream(k)
BY DEF Downstream

LEMMA DownstreamNext ==
    ASSUME NEW k \in Tasks, NEW x \in Downstream(k), NEW y \in Tasks,
           x \in deps[y]
    PROVE  y \in Downstream(k)
BY DEF Downstream, Closed

LEMMA StoppedDone ==
    ASSUME TypeOK
    PROVE  \A k \in Tasks : Stopped(Tasks)[k] \in Done
BY DEF Stopped, Cancelled, TypeOK, Started, Done

-----------------------------------------------------------------------------
(* Every step keeps the types, for any tasks, graphs and error modes.      *)
THEOREM TypeCorrect == Spec => []TypeOK
<1>1. Init => TypeOK
  BY DEF Init, TypeOK, Started, Done
<1>2. TypeOK /\ [Next]_vars => TypeOK'
  <2> SUFFICES ASSUME TypeOK, [Next]_vars PROVE TypeOK'
    OBVIOUS
  <2> USE DEF TypeOK, Started, Done
  <2>1. ASSUME NEW k \in Tasks, Raise(k) PROVE TypeOK'
    BY <2>1, ZenonT(30) DEF Raise, RaiseInAggregate, RaiseAtOnce, RaiseWithGrace, Stopped,
                          Cancelled, StoppedNew, Top
  <2>2. ASSUME NEW k \in Tasks, Start(k) PROVE TypeOK'
    BY <2>1, <2>2 DEF Start
  <2>3. ASSUME NEW k \in Tasks, Step(k) PROVE TypeOK'
    BY <2>1, <2>3 DEF Step, StepEnds, StepExpires, StepGoesOn, StepRaises,
                      Visit, Delete
  <2>4. CASE Suspend \/ Resume \/ RoundEnds
    BY <2>4 DEF Suspend, Resume, RoundEnds, Top
  <2>5. CASE Abort
    BY <2>5 DEF Abort, Stopped, Cancelled
  <2>6. CASE UNCHANGED vars \/ Ended
    BY <2>6 DEF vars, Ended
  <2> QED  BY <2>2, <2>3, <2>4, <2>5, <2>6 DEF Next, Round
<1> QED  BY <1>1, <1>2, PTL DEF Spec

-----------------------------------------------------------------------------
(* The inductive invariant.  A task that waits is still in the graph, and  *)
(* what it requires no more has finished (WaitingExact); this survives the *)
(* removal of a failed task from the graph because everything that could   *)
(* be set free by it has been cancelled before (NoneWait, NoneWaitBelow).  *)
WaitingExact ==
    \A k \in Tasks : runner[k] = "new" =>
        /\ k \in graph
        /\ \A j \in deps[k] : j \notin require[k] => runner[j] = "finished"

NoneWait ==
    mode # "aggregate" /\ errors # {} => \A k \in Tasks : runner[k] # "new"

NoneWaitBelow ==
    \A k \in Tasks : runner[k] = "failed" /\ mode = "aggregate" =>
        \A j \in Tasks : k \in deps[j] => runner[j] # "new"

\* Who has failed, or may be cut short, and where an error has left traces.
ErrorTraces ==
    /\ \A k \in Tasks : runner[k] \in {"raised", "failed"} /\ at # "aborted"
                          => errors # {}
    /\ \A k \in errors : runner[k] \in {"raised", "failed"}
    /\ \A k \in Tasks : at # "aborted" /\
                        (runner[k] \in {"raised", "closed"} \/ k \in limited)
                          => errors # {} /\ mode # "aggregate"
    /\ errors = {} /\ at # "aborted" =>
         \A k \in Tasks : runner[k] \in {"new", "open", "finished"}

IInv == /\ WaitingExact /\ NoneWait /\ NoneWaitBelow /\ ErrorTraces
        /\ OrderKept /\ NothingLeftOpen

LEMMA InvInit == Init => IInv
BY DEF Init, IInv, WaitingExact, NoneWait, NoneWaitBelow, ErrorTraces,
       OrderKept, NothingLeftOpen, Started, Done

LEMMA BelowNotStarted ==
    ASSUME TypeOK, OrderKept, NEW k \in Tasks, runner[k] # "finished"
    PROVE  \A j \in Downstream(k) : j = k \/ runner[j] \notin Started
<1> DEFINE S == {k} \cup {x \in Tasks : runner[x] \notin Started}
<1>1. S \in SUBSET Tasks /\ k \in S
  OBVIOUS
<1>2. Closed(S)
  BY DEF Closed, OrderKept, Started, TypeOK
<1> QED  BY <1>1, <1>2 DEF Downstream

(* An exception of a task that runs, or is about to, keeps the invariant.  *)
LEMMA RaiseKeeps ==
    ASSUME TypeOK, IInv, NEW k \in Tasks, Raise(k),
           at \in {"starting", "stepping"},
           runner[k] \in {"new", "open"},
           \A j \in deps[k] : runner[j] = "finished"
    PROVE  IInv'
<1> USE DEF TypeOK, IInv, Started, Done
<1>1. /\ UNCHANGED <<deps, mode>>
      /\ errors' = errors \cup {k}
      /\ at' \in {"starting", "returned"}
      /\ at' = "returned" => \A j \in Tasks : runner'[j] \in Done
  BY DEF Raise, Top
<1>2. NothingLeftOpen'
  BY <1>1 DEF NothingLeftOpen
<1>3. CASE RaiseInAggregate(k)
  <2>1. \A j \in Tasks : j # k => runner'[j] = IF j \in Downstream(k)
                                   THEN Cancelled(runner[j]) ELSE runner[j]
    BY <1>3 DEF RaiseInAggregate, Stopped
  <2>2. runner'[k] = "failed"
    BY <1>3 DEF RaiseInAggregate, Stopped
  <2>3. \A j \in Tasks : runner[j] = "finished" => runner'[j] = "finished"
    BY <2>1 DEF Cancelled
  <2>4. \A j \in Tasks : runner'[j] = "new"
                          => runner[j] = "new" /\ j \notin Downstream(k)
    BY <2>1, <2>2, DownstreamSelf DEF Cancelled
  <2>5. \A j \in Tasks : runner'[j] \in Started
                          => j = k \/ runner'[j] = runner[j]
    BY <2>1, BelowNotStarted DEF Cancelled
  <2>6. WaitingExact'
    BY <1>3, <1>1, <2>3, <2>4, DownstreamSelf DEF WaitingExact, RaiseInAggregate
  <2>7. NoneWait'
    BY <1>3, <1>1 DEF NoneWait, RaiseInAggregate
  <2>8. NoneWaitBelow'
    <3> SUFFICES ASSUME NEW f \in Tasks, runner'[f] = "failed",
                        NEW j \in Tasks, f \in deps[j], runner'[j] = "new"
                 PROVE  FALSE
      BY <1>1 DEF NoneWaitBelow
    <3>1. f # k
      BY <2>4, DownstreamSelf, DownstreamNext
    <3>2. runner[f] = "failed"
      BY <2>5, <3>1
    <3> QED  BY <1>3, <2>4, <3>2 DEF NoneWaitBelow, RaiseInAggregate
  <2>9. OrderKept'
    BY <1>1, <2>3, <2>5 DEF OrderKept
  <2>10. ErrorTraces'
    <3>1. \A f \in errors : runner[f] = "failed"
      BY <1>3 DEF ErrorTraces, RaiseInAggregate
    <3>2. \A f \in errors : runner'[f] = "failed"
      BY <2>1, <2>2, <3>1 DEF Cancelled
    <3> QED  BY <1>1, <1>3, <2>2, <2>5, <3>2 DEF ErrorTraces, RaiseInAggregate
  <2> QED  BY <1>2, <2>6, <2>7, <2>8, <2>9, <2>10
<1>4. CASE RaiseAtOnce(k) \/ RaiseWithGrace(k)
  <2>1. /\ mode # "aggregate"
        /\ \A j \in Tasks : runner'[j] # "new"
        /\ \A j \in Tasks : runner[j] = "finished" => runner'[j] = "finished"
        /\ \A j \in Tasks : runner'[j] \in Started => j = k \/ runner[j] \in Started
    BY <1>4 DEF RaiseAtOnce, RaiseWithGrace, Stopped, StoppedNew, Cancelled
  <2>2. WaitingExact' /\ NoneWait' /\ NoneWaitBelow'
    BY <2>1 DEF WaitingExact, NoneWait, NoneWaitBelow
  <2>3. OrderKept'
    BY <1>1, <2>1 DEF OrderKept
  <2>4. ASSUME NEW f \in errors' PROVE runner'[f] \in {"raised", "failed"}
    <3>1. runner'[k] \in {"raised", "failed"}
      BY <1>4 DEF RaiseAtOnce, RaiseWithGrace, Stopped, StoppedNew
    <3>2. ASSUME f # k PROVE runner[f] \in {"raised", "failed"}
      BY <1>1, <2>4, <3>2 DEF ErrorTraces
    <3>3. ASSUME runner[f] \in {"raised", "failed"}, f # k, f \in Tasks
          PROVE  runner'[f] \in {"raised", "failed"}
      BY <1>4, <3>3 DEF RaiseAtOnce, RaiseWithGrace, Stopped, StoppedNew, Cancelled
    <3> QED  BY <1>1, <2>4, <3>1, <3>2, <3>3
  <2>5. ErrorTraces'
    BY <1>1, <2>1, <2>4 DEF ErrorTraces
  <2> QED  BY <1>2, <2>2, <2>3, <2>5
<1> QED  BY <1>3, <1>4 DEF Raise

LEMMA InvStep == TypeOK /\ IInv /\ [Next]_vars => IInv'
<1> SUFFICES ASSUME TypeOK, IInv, [Next]_vars PROVE IInv'
  OBVIOUS
<1> USE DEF TypeOK, IInv, Started, Done
<1>1. ASSUME NEW k \in Tasks, Start(k) PROVE IInv'
  <2>1. \A j \in deps[k] : runner[j] = "finished"
    BY <1>1 DEF Start, Ready, WaitingExact
  <2>2. CASE Raise(k)
    BY <1>1, <2>1, <2>2, RaiseKeeps DEF Start, Ready
  <2>3. CASE /\ runner' \in {[runner EXCEPT ![k] = "open"],
                             [runner EXCEPT ![k] = "finished"]}
             /\ UNCHANGED <<graph, require, limited, errors, at, deps, mode>>
    <3>1. runner[k] = "new" /\ at = "starting"
      BY <1>1 DEF Start, Ready
    <3> QED  BY <2>1, <2>3, <3>1 DEF WaitingExact, NoneWait, NoneWaitBelow,
                 ErrorTraces, OrderKept, NothingLeftOpen
  <2> QED  BY <1>1, <2>2, <2>3 DEF Start
<1>2. ASSUME NEW k \in Tasks, StepEnds(k) PROVE IInv'
  <2>1. /\ UNCHANGED <<deps, mode, limited, errors, at>>
        /\ at = "stepping"
        /\ graph' = graph \ {k}
        /\ require' = [j \in Tasks |-> require[j] \ {k}]
        /\ runner[k] \in Started
        /\ \A j \in Tasks \ {k} : runner'[j] = runner[j]
        /\ \/ runner[k] \in Done /\ runner'[k] = runner[k]
           \/ runner[k] = "raised" /\ runner'[k] = "failed"
           \/ runner[k] = "open" /\ runner'[k] = "finished"
    BY <1>2 DEF StepEnds, Visit, Running, Delete
  <2>2. runner'[k] # "finished"
          => \A j \in Tasks : k \in deps[j] => runner[j] # "new"
    BY <2>1 DEF NoneWait, NoneWaitBelow, ErrorTraces
  <2>3. WaitingExact'
    BY <2>1, <2>2 DEF WaitingExact
  <2>4. NoneWait' /\ NoneWaitBelow'
    BY <2>1, <2>2 DEF NoneWait, NoneWaitBelow
  <2>5. ErrorTraces'
    BY <2>1 DEF ErrorTraces
  <2>6. OrderKept' /\ NothingLeftOpen'
    BY <2>1 DEF OrderKept, NothingLeftOpen
  <2> QED  BY <2>3, <2>4, <2>5, <2>6
<1>3. ASSUME NEW k \in Tasks, StepExpires(k) PROVE IInv'
  <2>1. /\ UNCHANGED <<deps, mode, limited, errors, at>>
        /\ at = "stepping" /\ k \in limited /\ runner[k] = "open"
        /\ graph' = graph \ {k}
        /\ require' = [j \in Tasks |-> require[j] \ {k}]
        /\ runner' = [runner EXCEPT ![k] = "closed"]
    BY <1>3 DEF StepExpires, Visit, Delete
  <2>2. mode # "aggregate" /\ errors # {}
    BY <2>1 DEF ErrorTraces
  <2> QED  BY <2>1, <2>2 DEF WaitingExact, NoneWait, NoneWaitBelow,
               ErrorTraces, OrderKept, NothingLeftOpen
<1>4. ASSUME NEW k \in Tasks, StepRaises(k) PROVE IInv'
  BY <1>4, RaiseKeeps DEF StepRaises, OrderKept
<1>5. ASSUME NEW k \in Tasks, StepGoesOn(k) PROVE IInv'
  BY <1>5 DEF StepGoesOn, Visit, WaitingExact, NoneWait, NoneWaitBelow,
              ErrorTraces, OrderKept, NothingLeftOpen
<1>6. CASE Suspend \/ Resume
  BY <1>6 DEF Suspend, Resume, WaitingExact, NoneWait, NoneWaitBelow,
              ErrorTraces, OrderKept, NothingLeftOpen
<1>7. CASE RoundEnds
  BY <1>7 DEF RoundEnds, Top, WaitingExact, NoneWait, NoneWaitBelow,
              ErrorTraces, OrderKept, NothingLeftOpen
<1>8. CASE Abort
  <2>1. \A k \in Tasks : runner'[k] = Cancelled(runner[k])
    BY <1>8 DEF Abort, Stopped
  <2>2. \A k \in Tasks : runner'[k] \in Done
    BY <2>1 DEF Cancelled
  <2>3. \A k \in Tasks : runner'[k] # "new"
    BY <2>2
  <2>4. OrderKept'
    BY <1>8, <2>1 DEF Abort, OrderKept, Cancelled
  <2>5. ErrorTraces'
    BY <1>8, <2>1 DEF Abort, ErrorTraces, Cancelled
  <2> QED  BY <1>8, <2>2, <2>3, <2>4, <2>5
           DEF Abort, WaitingExact, NoneWait, NoneWaitBelow, NothingLeftOpen
<1>9. CASE UNCHANGED vars \/ Ended
  BY <1>9 DEF vars, Ended, WaitingExact, NoneWait, NoneWaitBelow,
              ErrorTraces, OrderKept, NothingLeftOpen
<1> QED  BY <1>1, <1>2, <1>3, <1>4, <1>5, <1>6, <1>7, <1>8, <1>9
         DEF Next, Round, Step

LEMMA Invariant == Spec => [](TypeOK /\ IInv)
BY InvInit, InvStep, TypeCorrect, PTL DEF Spec

-----------------------------------------------------------------------------
(* A task starts only when all it requires has finished: also while other  *)
(* tasks fail, are cancelled or run out of their grace period.             *)
THEOREM OrderAlwaysKept == Spec => []OrderKept
BY Invariant, PTL DEF IInv

(* No task is left half-way when the group is over, and a group that       *)
(* returns without an exception has finished every task.                   *)
THEOREM NothingEverLeftOpen == Spec => []NothingLeftOpen
BY Invariant, PTL DEF IInv

(* After a failure a group that does not aggregate starts no new task.     *)
THEOREM NothingStartsAfterError == Spec => NoStartAfterError
<1>1. TypeOK /\ IInv /\ [Next]_vars =>
        [errors # {} /\ mode # "aggregate" =>
           \A k \in Tasks : runner[k] = "new" => runner'[k] \notin Started]_vars
  BY DEF IInv, NoneWait
<1> QED  BY <1>1, Invariant, PTL DEF Spec, NoStartAfterError

-----------------------------------------------------------------------------
(* In an aggregating group the runners say exactly who has failed, and the *)
(* tasks cancelled are exactly those below a failed one.                   *)
CancelExact ==
    mode = "aggregate" /\ at # "aborted" => \A k \in Tasks :
        /\ runner[k] = "failed" <=> k \in errors
        /\ runner[k] = "cancelled" => \E f \in errors : k \in Downstream(f) /\ k # f
        /\ k \in errors => \A j \in Downstream(k) \ {k} : runner[j] = "cancelled"

LEMMA CancelExactStep ==
    ASSUME TypeOK, IInv, CancelExact, [Next]_vars
    PROVE  CancelExact'
<1> SUFFICES ASSUME mode = "aggregate", at' # "aborted" PROVE CancelExact'
  <2>1. UNCHANGED mode
    BY DEF Next, Round, Suspend, Resume, RoundEnds, Start, Step, StepEnds,
           StepExpires, StepGoesOn, StepRaises, Raise, Abort, Ended, vars
  <2> QED  BY <2>1 DEF CancelExact
<1> USE DEF TypeOK, Started, Done
<1>1. ASSUME NEW k \in Tasks, Raise(k), runner[k] \in {"new", "open"},
             at # "aborted"
      PROVE CancelExact'
  <2>1. /\ UNCHANGED <<deps, mode>> /\ errors' = errors \cup {k}
        /\ runner' = [Stopped(Downstream(k)) EXCEPT ![k] = "failed"]
    BY <1>1 DEF Raise, RaiseInAggregate, RaiseAtOnce, RaiseWithGrace
  <2>2. \A x \in Tasks : Downstream(x)' = Downstream(x)
    BY <2>1 DEF Downstream, Closed
  <2>3. Downstream(k) \subseteq Tasks
    BY DEF Downstream
  <2>4. \A j \in Downstream(k) : j = k \/ runner[j] \notin Started
    BY <1>1, BelowNotStarted DEF IInv
  <2>5. \A j \in Downstream(k) \ {k} : runner'[j] = "cancelled"
    BY <2>1, <2>3, <2>4 DEF Stopped, Cancelled
  <2>6. \A j \in Tasks \ Downstream(k) : runner'[j] = runner[j]
    BY <2>1, DownstreamSelf DEF Stopped
  <2>7. k \notin errors /\ runner'[k] = "failed"
    BY <1>1, <2>1 DEF CancelExact, Stopped
  <2>8. \A f \in errors : f # k /\ f \notin Downstream(k)
    BY <1>1, <2>3, <2>4, <2>7 DEF CancelExact
  <2>9. \A f \in errors : k \notin Downstream(f)
    BY <1>1, <2>8 DEF CancelExact
  <2>10. \A f \in errors, j \in Tasks :
             j \in Downstream(f) \ {f} => runner'[j] = "cancelled"
    BY <1>1, <2>5, <2>6, <2>9 DEF CancelExact
  <2>11. ASSUME NEW j \in Tasks PROVE runner'[j] = "failed" <=> j \in errors'
    BY <1>1, <2>1, <2>5, <2>6, <2>7, <2>8 DEF CancelExact
  <2>12. ASSUME NEW j \in Tasks, runner'[j] = "cancelled"
         PROVE  \E f \in errors' : j \in Downstream(f) /\ j # f
    BY <1>1, <2>1, <2>6, <2>7, <2>12 DEF CancelExact
  <2> QED  BY <2>1, <2>2, <2>3, <2>5, <2>10, <2>11, <2>12 DEF CancelExact, Downstream
<1>2. ASSUME UNCHANGED <<deps, mode, errors>>, at # "aborted",
             \A k \in Tasks : runner'[k] = runner[k] \/
               (/\ runner[k] \notin {"failed", "cancelled"}
                /\ runner'[k] \notin {"failed", "cancelled"})
      PROVE CancelExact'
  <2>1. \A x \in Tasks : Downstream(x)' = Downstream(x) /\ Downstream(x) \subseteq Tasks
    BY <1>2 DEF Downstream, Closed
  <2> QED  BY <1>2, <2>1 DEF CancelExact
<1>3. ASSUME NEW k \in Tasks, Start(k) PROVE CancelExact'
  BY <1>1, <1>2, <1>3 DEF Start, Ready
<1>4. ASSUME NEW k \in Tasks, Step(k) PROVE CancelExact'
  <2>1. CASE StepRaises(k)
    BY <1>1, <2>1 DEF StepRaises
  <2>2. CASE StepEnds(k)
    <3>1. runner[k] # "raised"
      BY <2>2 DEF IInv, ErrorTraces, StepEnds, Visit
    <3> QED  BY <1>2, <2>2, <3>1 DEF StepEnds, Visit
  <2>3. CASE StepExpires(k) \/ StepGoesOn(k)
    BY <1>2, <2>3 DEF StepExpires, StepGoesOn, Visit
  <2> QED  BY <1>4, <2>1, <2>2, <2>3 DEF Step
<1>5. CASE Suspend \/ Resume \/ RoundEnds
  BY <1>2, <1>5 DEF Suspend, Resume, RoundEnds
<1>6. CASE UNCHANGED vars \/ Ended
  <2>1. UNCHANGED vars
    BY <1>6 DEF Ended
  <2>2. \A x \in Tasks : Downstream(x)' = Downstream(x)
    BY <2>1 DEF Downstream, Closed, vars
  <2> QED  BY <1>2, <2>1 DEF vars
<1> QED  BY <1>3, <1>4, <1>5, <1>6 DEF Next, Round, Abort

(* An aggregating group that returns has finished every task that depends  *)
(* on no failed one, and has not started any that does.                    *)
THEOREM AggregateRunsTheRest == Spec => []AggregateComplete
<1>1. Init => CancelExact
  BY DEF Init, CancelExact
<1>2. TypeOK /\ IInv /\ CancelExact => AggregateComplete
  <2> SUFFICES ASSUME TypeOK, IInv, CancelExact, at = "returned",
                      mode = "aggregate", NEW k \in Tasks
               PROVE  IF \E f \in errors : k \in Downstream(f) /\ k # f
                      THEN runner[k] = "cancelled"
                      ELSE runner[k] = IF k \in errors THEN "failed" ELSE "finished"
    BY DEF AggregateComplete
  <2>1. runner[k] \in Done \ {"closed"}
    BY DEF IInv, NothingLeftOpen, ErrorTraces
  <2> QED  BY <2>1 DEF CancelExact, Done, TypeOK
<1>3. TypeOK /\ IInv /\ CancelExact /\ [Next]_vars => CancelExact'
  BY CancelExactStep
<1> QED  BY <1>1, <1>2, <1>3, Invariant, PTL DEF Spec

-----------------------------------------------------------------------------
(* The refinement of OrderedRun.                                           *)
Ph == [k \in Tasks |-> PhaseOf(runner[k])]
Group == IF at = "aborted" THEN "aborted" ELSE "on"

\* What a step may do to one task, in terms of the group.
TaskMoves(k) ==
    \/ Ph'[k] = Ph[k]
    \/ /\ Ph[k] = "waiting" /\ Ph'[k] \in {"running", "succeeded", "failed"}
       /\ \A j \in deps[k] : Ph[j] = "succeeded"
    \/ Ph[k] = "running" /\ Ph'[k] \in {"succeeded", "failed"}
    \/ /\ Ph[k] \in {"waiting", "running"} /\ Ph'[k] = "dropped"
       /\ \/ Group' = "aborted"
          \/ mode # "aggregate" /\ \E f \in Tasks : Ph'[f] = "failed"
          \/ /\ Ph[k] = "waiting"
             /\ \E f \in Tasks : Ph'[f] = "failed" /\ k \in Downstream(f)

LEMMA DownstreamSame == ASSUME NEW f \in Tasks PROVE Run!Downstream(f) = Downstream(f)
BY DEF Run!Downstream, Downstream, Run!Closed, Closed

LEMMA MapsToNext ==
    ASSUME TypeOK, TypeOK', UNCHANGED <<deps, mode>>, Group' \in {Group, "aborted"},
           \A k \in Tasks : TaskMoves(k),
           \A j, k \in Tasks : (/\ Ph'[j] \notin {Ph[j], "dropped"}
                                /\ Ph'[k] \notin {Ph[k], "dropped"}) => j = k
    PROVE  Run!Next
<1>1. Ph' \in [Tasks -> Run!Phases]
  BY DEF Ph, PhaseOf, Run!Phases
<1>2. ASSUME NEW k \in Tasks PROVE Run!Moves(k)
  BY DownstreamSame DEF TaskMoves, Run!Moves, Run!MayDrop, Ph, Group
<1> QED  BY <1>1, <1>2 DEF Run!Next, Ph, Group

(* One task moves on, the others stay or are dropped after a failure.      *)
LEMMA RaiseMaps ==
    ASSUME TypeOK, TypeOK', IInv, NEW k \in Tasks, Raise(k), at # "aborted",
           runner[k] \in {"new", "open"}, \A j \in deps[k] : runner[j] = "finished"
    PROVE  Run!Next
<1> USE DEF TypeOK, Started, Done
<1>1. UNCHANGED <<deps, mode>> /\ Ph'[k] = "failed" /\ Ph[k] \in {"waiting", "running"}
  BY DEF Raise, RaiseInAggregate, RaiseAtOnce, RaiseWithGrace, Ph, PhaseOf,
         Stopped, StoppedNew
<1>2. TaskMoves(k)
  BY <1>1 DEF TaskMoves, Ph, PhaseOf
<1>3. ASSUME NEW j \in Tasks \ {k} PROVE TaskMoves(j) /\ Ph'[j] \in {Ph[j], "dropped"}
  <2>1. CASE RaiseInAggregate(k)
    <3>1. runner'[j] = IF j \in Downstream(k) THEN Cancelled(runner[j])
                                              ELSE runner[j]
      BY <2>1 DEF RaiseInAggregate, Stopped
    <3>2. j \in Downstream(k) => runner[j] \notin Started
      BY BelowNotStarted DEF IInv
    <3> QED  BY <1>1, <3>1, <3>2 DEF TaskMoves, Ph, PhaseOf, Cancelled
  <2>2. CASE RaiseAtOnce(k) \/ RaiseWithGrace(k)
    <3>1. runner'[j] = runner[j]
          \/ runner'[j] = Cancelled(runner[j])
      BY <2>2 DEF RaiseAtOnce, RaiseWithGrace, Stopped, StoppedNew, Cancelled
    <3>2. mode # "aggregate"
      BY <2>2 DEF RaiseAtOnce, RaiseWithGrace
    <3> QED  BY <1>1, <3>1, <3>2 DEF TaskMoves, Ph, PhaseOf, Cancelled
  <2> QED  BY <2>1, <2>2 DEF Raise
<1> QED  BY <1>1, <1>2, <1>3, MapsToNext DEF Group

(* Any other step of one task.                                             *)
LEMMA OneMaps ==
    ASSUME TypeOK, TypeOK', NEW k \in Tasks, UNCHANGED <<deps, mode>>,
           Group' \in {Group, "aborted"}, TaskMoves(k), \A j \in Tasks \ {k} : runner'[j] = runner[j]
    PROVE  Run!Next
<1>1. \A j \in Tasks \ {k} : Ph'[j] = Ph[j]
  BY DEF Ph
<1> QED  BY <1>1, MapsToNext DEF TaskMoves

LEMMA RunStep ==
    ASSUME TypeOK, TypeOK', IInv, [Next]_vars
    PROVE  Run!Next \/ UNCHANGED <<deps, mode, Ph, Group>>
<1> USE DEF TypeOK, Started, Done
<1>1. ASSUME NEW k \in Tasks, Start(k) PROVE Run!Next
  <2>1. runner[k] = "new" /\ at = "starting" /\ \A j \in deps[k] : runner[j] = "finished"
    BY <1>1 DEF Start, Ready, IInv, WaitingExact
  <2>2. CASE Raise(k)
    BY <2>1, <2>2, RaiseMaps
  <2>3. CASE /\ runner' \in {[runner EXCEPT ![k] = "open"],
                             [runner EXCEPT ![k] = "finished"]}
             /\ UNCHANGED <<at, deps, mode>>
    <3>1. TaskMoves(k)
      BY <2>1, <2>3 DEF TaskMoves, Ph, PhaseOf
    <3> QED  BY <2>3, <3>1, OneMaps DEF Group
  <2> QED  BY <1>1, <2>2, <2>3 DEF Start
<1>2. ASSUME NEW k \in Tasks, Step(k) PROVE Run!Next
  <2>1. CASE StepRaises(k)
    <3>1. \A j \in deps[k] : runner[j] = "finished"
      BY <2>1 DEF StepRaises, IInv, OrderKept
    <3> QED  BY <2>1, <3>1, RaiseMaps DEF StepRaises
  <2>2. CASE StepEnds(k) \/ StepGoesOn(k)
    <3>1. /\ UNCHANGED <<deps, mode, at>>
          /\ \A j \in Tasks \ {k} : runner'[j] = runner[j]
          /\ \/ Ph'[k] = Ph[k]
             \/ Ph[k] = "running" /\ Ph'[k] = "succeeded"
      BY <2>2 DEF StepEnds, StepGoesOn, Visit, Ph, PhaseOf
    <3>2. TaskMoves(k)
      BY <3>1 DEF TaskMoves
    <3> QED  BY <3>1, <3>2, OneMaps DEF Group
  <2>3. CASE StepExpires(k)
    <3>1. /\ UNCHANGED <<deps, mode, at>> /\ k \in limited
          /\ \A j \in Tasks \ {k} : runner'[j] = runner[j]
          /\ Ph[k] = "running" /\ Ph'[k] = "dropped"
      BY <2>3 DEF StepExpires, Visit, Ph, PhaseOf
    <3>2. PICK f \in errors : TRUE
      BY <3>1, <2>3 DEF IInv, ErrorTraces, StepExpires, Visit
    <3>3. f \in Tasks /\ Ph'[f] = "failed" /\ mode # "aggregate"
      BY <3>1, <3>2, <2>3 DEF IInv, ErrorTraces, Ph, PhaseOf, StepExpires, Visit
    <3>4. TaskMoves(k)
      BY <3>1, <3>3 DEF TaskMoves
    <3> QED  BY <3>1, <3>4, OneMaps DEF Group
  <2> QED  BY <1>2, <2>1, <2>2, <2>3 DEF Step
<1>3. CASE Suspend \/ Resume \/ RoundEnds
  BY <1>3 DEF Suspend, Resume, RoundEnds, Top, Ph, Group
<1>4. CASE Abort
  <2>1. \A k \in Tasks : runner'[k] = Cancelled(runner[k])
    BY <1>4 DEF Abort, Stopped
  <2>2. \A k \in Tasks : TaskMoves(k) /\ Ph'[k] \in {Ph[k], "dropped"}
    BY <1>4, <2>1 DEF Abort, TaskMoves, Ph, PhaseOf, Cancelled, Group
  <2> QED  BY <1>4, <2>2, MapsToNext DEF Abort, Group
<1>5. CASE UNCHANGED vars \/ Ended
  BY <1>5 DEF vars, Ended, Ph, Group
<1> QED  BY <1>1, <1>2, <1>3, <1>4, <1>5 DEF Next, Round

(* The task group implements OrderedRun: what becomes of each task is what *)
(* the dependencies, the failures and an abort allow.                      *)
THEOREM GroupRunsInOrder == Spec => RunSpec
<1>1. Init => Run!Init
  BY GraphsAssumption, ModesAssumption DEF Init, Run!Init, PhaseOf, ErrorModes
<1>2. TypeOK /\ TypeOK' /\ IInv /\ [Next]_vars => [Run!Next]_(Run!vars)
  BY RunStep DEF Run!vars, Ph, Group
<1> QED  BY <1>1, <1>2, TypeCorrect, Invariant, PTL DEF Spec, RunSpec, Run!Spec

-----------------------------------------------------------------------------
(* No round in vain.  Dependencies are iterated in the order toposort()    *)
(* gives them, which raises CircularDependencyException unless the graph   *)
(* has one: every task comes after what it requires.                       *)
Sorted(g) == \E rank \in [Tasks -> Nat] :
                \A k \in Tasks : \A j \in g[k] : rank[j] < rank[k]

\* What is required and not yet satisfied is still in the graph, a task is
\* taken out of the graph only when its generator is over, and a cancelled
\* task is never waited for.
Pending ==
    /\ \A k \in Tasks : require[k] \subseteq deps[k] \cap graph
    /\ \A k \in Tasks : runner[k] \in {"open", "raised"} => k \in graph
    /\ \A j \in Tasks, k \in Tasks :
          runner[j] = "cancelled" /\ j \in deps[k] => runner[k] # "new"

\* A round that has begun has a task to start or one to step, and a group
\* that waits has one to step.
HasWork ==
    at = "starting" => \/ \E k \in Tasks : runner[k] \notin Done
                       \/ \E k \in graph : runner[k] \in Started
RoundHasWork ==
    at = "suspended" => \E k \in graph : runner[k] \in Started

\* Every set of natural numbers that is not empty has a least element.
LEMMA LeastElement ==
  ASSUME NEW S \in SUBSET Nat, S # {}
  PROVE  \E x \in S : \A y \in S : x <= y
<1> DEFINE R == {p \in Nat \X Nat : p[1] < p[2]}
<1>1. IsWellFoundedOn(R, Nat)
  BY NatLessThanWellFounded, Zenon DEF OpToRel
<1>2. \A x \in Nat, y \in Nat : y < x => <<y, x>> \in R
  OBVIOUS
<1>3. PICK x \in S : \A y \in S : ~ (<<y, x>> \in R)
  <2>1. S \subseteq Nat
    OBVIOUS
  <2> HIDE DEF R
  <2>2. QED
    BY <1>1, <2>1, WFMin, Zenon
<1> HIDE DEF R
<1>4. ASSUME NEW y \in S PROVE x <= y
  <2>1. x \in Nat /\ y \in Nat
    OBVIOUS
  <2>2. ~(y < x)
    BY <1>2, <1>3, <2>1
  <2>3. QED
    BY <2>1, <2>2
<1>5. QED
  BY <1>4

LEMMA PendingInit == Init => Pending /\ HasWork /\ RoundHasWork
BY DEF Init, Pending, HasWork, RoundHasWork, Done

LEMMA RaisePending ==
    ASSUME TypeOK, IInv, Pending, NEW k \in Tasks, Raise(k),
           runner[k] \in {"new", "open"}
    PROVE  Pending' /\ HasWork' /\ RoundHasWork'
<1> USE DEF TypeOK, Started, Done
<1>1. HasWork' /\ RoundHasWork'
  BY DEF Raise, Top, HasWork, RoundHasWork
<1>2. UNCHANGED deps
  BY DEF Raise
<1>3. CASE RaiseInAggregate(k)
  <2>1. \A j \in Tasks : j # k => runner'[j] = IF j \in Downstream(k)
                                   THEN Cancelled(runner[j]) ELSE runner[j]
    BY <1>3 DEF RaiseInAggregate, Stopped
  <2>2. runner'[k] = "failed"
    BY <1>3 DEF RaiseInAggregate, Stopped
  <2>3. /\ graph' = graph \ {k}
        /\ \A j \in Tasks : require'[j] =
              IF j \in Downstream(k) THEN {} ELSE require[j]
    BY <1>3 DEF RaiseInAggregate
  <2>4. ASSUME NEW j \in Tasks PROVE require'[j] \subseteq deps'[j] \cap graph'
    <3>1. CASE j \in Downstream(k)
      BY <2>3, <3>1
    <3>2. CASE j \notin Downstream(k)
      <4>1. k \notin deps[j]
        BY <3>2, DownstreamSelf, DownstreamNext
      <4> QED  BY <1>2, <2>3, <3>2, <4>1 DEF Pending
    <3> QED  BY <3>1, <3>2
  <2>5. ASSUME NEW j \in Tasks, runner'[j] \in {"open", "raised"}
        PROVE  j \in graph'
    <3>1. j # k /\ runner[j] = runner'[j]
      BY <2>1, <2>2, <2>5 DEF Cancelled
    <3> QED  BY <2>3, <2>5, <3>1 DEF Pending
  <2>6. ASSUME NEW j \in Tasks, NEW d \in Tasks,
               runner'[j] = "cancelled", j \in deps[d], runner'[d] = "new"
        PROVE  FALSE
    <3>1. runner[d] = "new" /\ d \notin Downstream(k)
      BY <2>1, <2>2, <2>6, DownstreamSelf DEF Cancelled
    <3>2. j \notin Downstream(k)
      BY <2>6, <3>1, DownstreamNext
    <3>3. runner[j] = "cancelled"
      BY <2>1, <2>2, <2>6, <3>2
    <3> QED  BY <2>6, <3>1, <3>3 DEF Pending
  <2> QED  BY <1>1, <1>2, <2>4, <2>5, <2>6 DEF Pending
<1>4. CASE RaiseAtOnce(k) \/ RaiseWithGrace(k)
  <2>1. /\ \A j \in Tasks : runner'[j] # "new"
        /\ UNCHANGED <<graph, require>>
        /\ \A j \in Tasks : runner'[j] \in {"open", "raised"}
                              => j = k \/ runner[j] = runner'[j]
    BY <1>4 DEF RaiseAtOnce, RaiseWithGrace, Stopped, StoppedNew, Cancelled
  <2>2. k \in graph
    BY DEF Pending, IInv, WaitingExact
  <2> QED  BY <1>1, <1>2, <2>1, <2>2 DEF Pending
<1> QED  BY <1>3, <1>4 DEF Raise

LEMMA PendingStep ==
    TypeOK /\ IInv /\ Pending /\ [Next]_vars => Pending'
<1> SUFFICES ASSUME TypeOK, IInv, Pending, [Next]_vars PROVE Pending'
  OBVIOUS
<1> USE DEF TypeOK, Started, Done
<1>1. ASSUME NEW k \in Tasks, Start(k) PROVE Pending'
  <2>1. CASE Raise(k)
    BY <1>1, <2>1, RaisePending DEF Start, Ready
  <2>2. CASE /\ runner' \in {[runner EXCEPT ![k] = "open"],
                             [runner EXCEPT ![k] = "finished"]}
             /\ UNCHANGED <<graph, require, deps>>
    BY <1>1, <2>2 DEF Pending, Start, Ready
  <2> QED  BY <1>1, <2>1, <2>2 DEF Start
<1>2. ASSUME NEW k \in Tasks, StepEnds(k) \/ StepExpires(k) PROVE Pending'
  <2>1. /\ UNCHANGED deps
        /\ graph' = graph \ {k}
        /\ require' = [j \in Tasks |-> require[j] \ {k}]
        /\ \A j \in Tasks \ {k} : runner'[j] = runner[j]
        /\ runner'[k] \in {"finished", "closed", "failed"}
    BY <1>2 DEF StepEnds, StepExpires, Visit, Running, Delete
  <2> QED  BY <2>1 DEF Pending
<1>3. ASSUME NEW k \in Tasks, StepRaises(k) PROVE Pending'
  BY <1>3, RaisePending DEF StepRaises
<1>4. CASE Abort
  <2>1. \A k \in Tasks : runner'[k] = Cancelled(runner[k])
    BY <1>4 DEF Abort, Stopped
  <2> QED  BY <1>4, <2>1 DEF Abort, Pending, Cancelled
<1>5. CASE UNCHANGED <<deps, runner, graph, require>>
  BY <1>5 DEF Pending
<1> QED  BY <1>1, <1>2, <1>3, <1>4, <1>5
         DEF Next, Round, Step, Suspend, Resume, RoundEnds, StepGoesOn, Ended, vars

\* In a graph that is sorted, a group in which a task still waits, and none
\* is started, has one that is ready.
LEMMA LeastWaitingReady ==
    ASSUME TypeOK, IInv, Pending, Sorted(deps),
           NEW w \in Tasks, runner[w] = "new"
    PROVE  \/ \E k \in Tasks : Ready(k)
           \/ \E k \in graph : runner[k] \in Started
<1> SUFFICES ASSUME \A k \in Tasks : ~Ready(k),
                    \A k \in graph : runner[k] \notin Started
             PROVE  FALSE
  OBVIOUS
<1> DEFINE waiting == {k \in Tasks : runner[k] = "new"}
<1>1. PICK rank \in [Tasks -> Nat] :
         \A k \in Tasks : \A j \in deps[k] : rank[j] < rank[k]
  BY DEF Sorted
<1> DEFINE ranks == {rank[k] : k \in waiting}
<1>2. PICK k \in waiting : \A j \in waiting : rank[k] <= rank[j]
  <2>1. ranks \in SUBSET Nat /\ ranks # {}
    BY <1>1
  <2>2. PICK r \in ranks : \A s \in ranks : r <= s
    <3> HIDE DEF ranks
    <3> QED  BY <2>1, LeastElement
  <2> QED  BY <2>2
<1>3. k \in Tasks /\ runner[k] = "new" /\ k \in graph
  BY DEF IInv, WaitingExact
<1>4. PICK j \in require[k] : TRUE
  BY <1>3 DEF Ready
<1>5. j \in Tasks /\ j \in deps[k] /\ j \in graph
  BY <1>3, <1>4 DEF Pending, TypeOK
<1>6. runner[j] = "new"
  BY <1>3, <1>5 DEF Pending, TypeOK, Started, Done
<1>7. rank[k] <= rank[j]
  BY <1>2, <1>5, <1>6
<1>8. rank[j] < rank[k]
  BY <1>1, <1>3, <1>5
<1>9. rank[j] \in Nat /\ rank[k] \in Nat
  BY <1>1, <1>3, <1>5
<1> QED  BY <1>7, <1>8, <1>9

LEMMA HasWorkStep ==
    ASSUME TypeOK, IInv, Pending, HasWork, RoundHasWork, Sorted(deps), [Next]_vars
    PROVE  HasWork' /\ RoundHasWork'
<1> USE DEF TypeOK, Started, Done
<1>1. ASSUME NEW k \in Tasks, Start(k) PROVE HasWork' /\ RoundHasWork'
  <2>1. CASE Raise(k)
    BY <1>1, <2>1, RaisePending DEF Start, Ready
  <2>2. CASE /\ runner' \in {[runner EXCEPT ![k] = "open"],
                             [runner EXCEPT ![k] = "finished"]}
             /\ UNCHANGED <<graph, at>>
    <3>1. k \in graph' /\ runner'[k] \in Started /\ at' = "starting"
      BY <1>1, <2>2 DEF Start, Ready
    <3> QED  BY <3>1 DEF HasWork, RoundHasWork
  <2> QED  BY <1>1, <2>1, <2>2 DEF Start
<1>2. ASSUME NEW k \in Tasks, StepRaises(k) PROVE HasWork' /\ RoundHasWork'
  BY <1>2, RaisePending DEF StepRaises
<1>3. CASE Suspend
  <2>1. /\ at = "starting" /\ at' = "suspended"
        /\ UNCHANGED <<graph, runner>>
        /\ \A k \in Tasks : ~Ready(k)
    BY <1>3 DEF Suspend
  <2>2. \E k \in graph : runner[k] \in Started
    <3>1. CASE \E w \in Tasks : runner[w] = "new"
      BY <2>1, <3>1, LeastWaitingReady
    <3>2. CASE \A w \in Tasks : runner[w] # "new"
      BY <2>1, <3>2 DEF HasWork, Pending
    <3> QED  BY <3>1, <3>2
  <2> QED  BY <2>1, <2>2 DEF HasWork, RoundHasWork
<1>4. CASE RoundEnds
  BY <1>4 DEF RoundEnds, Top, HasWork, RoundHasWork
<1>5. ASSUME NEW k \in Tasks, StepEnds(k) \/ StepExpires(k) \/ StepGoesOn(k)
      PROVE HasWork' /\ RoundHasWork'
  <2>1. at = "stepping" /\ UNCHANGED at
    BY <1>5 DEF StepEnds, StepExpires, StepGoesOn, Visit
  <2> QED  BY <2>1 DEF HasWork, RoundHasWork
<1>6. CASE Resume \/ Abort
  BY <1>6 DEF Resume, Abort, HasWork, RoundHasWork
<1>7. CASE UNCHANGED vars \/ Ended
  BY <1>7 DEF Ended, vars, HasWork, RoundHasWork
<1> QED  BY <1>1, <1>2, <1>3, <1>4, <1>5, <1>6, <1>7 DEF Next, Round, Step

(* A group never yields in vain.  If every dependency graph has an order,  *)
(* then whenever the group hands back control some task of its graph has   *)
(* been started and is stepped in the next round, whatever failed or was   *)
(* cancelled before: no task waits for one that nobody will run.           *)
THEOREM NoRoundInVain ==
    ASSUME \A g \in Graphs : Sorted(g)
    PROVE  Spec => []RoundHasWork
<1>1. Init => Pending /\ HasWork /\ RoundHasWork
  BY PendingInit
<1>2. TypeOK /\ IInv /\ (Pending /\ HasWork /\ RoundHasWork) /\ [Next]_vars
        => (Pending /\ HasWork /\ RoundHasWork)'
  BY PendingStep, HasWorkStep DEF TypeOK
<1> QED  BY <1>1, <1>2, Invariant, PTL DEF Spec
=============================================================================
