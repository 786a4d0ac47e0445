----------------------------- MODULE StackLock -----------------------------
(***************************************************************************)
(* The stack lock of the Heat engine: heat/engine/stack_lock.py, the rows  *)
(* of heat/db/sqlalchemy/api.py it is made of, and the code that takes and *)
(* gives it back: ThreadGroupManager, EngineListener and the handlers      *)
(* update_stack, stack_cancel_update and delete_stack of                   *)
(* heat/engine/service.py.                                                 *)
(*                                                                         *)
(* One stack is modelled: rows, thread groups and handlers of different    *)
(* stacks share nothing.  A request is one RPC to one engine; its handler  *)
(* is a green thread, and the work it starts runs in a second one (the     *)
(* worker), whose link() callback gives the lock back.  Every call that    *)
(* can yield - a database transaction, an RPC, a sleep - ends a step.      *)
(***************************************************************************)
EXTENDS Naturals, FiniteSets

CONSTANTS
    Engines,      \* engine ids; a restarted engine draws a new one
    NoEngine,     \* "there is no stack_lock row"
    Reqs,         \* requests on the stack: the bound on a behaviour
    Ops,          \* operations requested, a subset of the three below
    LateReplies,  \* may a live engine miss engine_life_check_timeout?
    Exclusive     \* do callers address a stack at one engine serially?

ASSUME EngineAssumption == NoEngine \notin Engines
ASSUME OpsAssumption    == Ops \subseteq {"update", "delete", "cancel"}
ASSUME BoolAssumption   == LateReplies \in BOOLEAN /\ Exclusive \in BOOLEAN

VARIABLES
    lock,     \* engine_id of the stack_lock row, or NoEngine
    row,      \* the stack row: "READY", "UPDATING", "DELETING", "GONE"
    up,       \* the engines whose process runs
    home,     \* home[r]: the engine that took request r
    op,       \* op[r]: what r asks for
    pc,       \* pc[r]: where the handler of r is
    seen,     \* seen[r]: the owner its last stack_lock_create returned
    retry,    \* retry[r]: argument "retry" of StackLock.acquire
    worker,   \* worker[r]: the thread that the handler of r started
    waits,    \* waits[r]: the threads ThreadGroupManager.stop waits for
    rstop     \* rstop[r]: the stop_stack call r made to another engine

vars == <<lock, row, up, home, op, pc, seen, retry, worker, waits, rstop>>

\* What the handler of r and its worker own.
reqVars == <<home, op, seen, retry>>

Ended == {"started", "signalled", "leaked", "failed", "dead"}
Steps == {"new", "load", "try", "dping", "rcall", "stop", "join", "reload",
          "create", "ping", "steal", "undo"} \cup Ended

\* A worker runs its function until it is "exiting": then only its links,
\* and with them the release of the lock, are left.
Working == {"ready", "running"}
Active  == Working \cup {"exiting"}

TypeOK ==
    /\ lock   \in Engines \cup {NoEngine}
    /\ row    \in {"READY", "UPDATING", "DELETING", "GONE"}
    /\ up     \in SUBSET Engines
    /\ home   \in [Reqs -> Engines \cup {NoEngine}]
    /\ op     \in [Reqs -> Ops]
    /\ pc     \in [Reqs -> Steps]
    /\ seen   \in [Reqs -> Engines \cup {NoEngine}]
    /\ retry  \in [Reqs -> BOOLEAN]
    /\ worker \in [Reqs -> Active \cup {"none", "done", "dead"}]
    /\ waits  \in [Reqs -> SUBSET Reqs]
    /\ rstop  \in [Reqs -> {"idle", "sent", "serving", "replied"}]

Init ==
    /\ lock = NoEngine
    /\ row = "READY"
    /\ up = Engines
    /\ home = [r \in Reqs |-> NoEngine]
    /\ op \in [Reqs -> Ops]
    /\ pc = [r \in Reqs |-> "new"]
    /\ seen = [r \in Reqs |-> NoEngine]
    /\ retry = [r \in Reqs |-> TRUE]
    /\ worker = [r \in Reqs |-> "none"]
    /\ waits = [r \in Reqs |-> {}]
    /\ rstop = [r \in Reqs |-> "idle"]

-----------------------------------------------------------------------------
(* The environment: requests arrive, engines die.                          *)

\* Nothing of an earlier request on the stack is left at engine e.
Idle(e) ==
    \A r \in Reqs : home[r] = e => /\ pc[r] \in Ended
                                   /\ worker[r] \notin Active

Arrive(r, e) ==
    /\ pc[r] = "new"
    /\ e \in up
    /\ Exclusive => Idle(e)
    /\ home' = [home EXCEPT ![r] = e]
    /\ pc' = [pc EXCEPT ![r] = "load"]
    /\ UNCHANGED <<lock, row, up, op, seen, retry, worker, waits, rstop>>

\* The process of e ends; its handlers and workers end with it, its row in
\* stack_lock stays.
Crash(e) ==
    /\ e \in up
    /\ up' = up \ {e}
    /\ pc' = [r \in Reqs |->
                IF home[r] = e /\ pc[r] \notin Ended THEN "dead" ELSE pc[r]]
    /\ worker' = [r \in Reqs |->
                IF home[r] = e /\ worker[r] \in Active THEN "dead"
                                                       ELSE worker[r]]
    /\ UNCHANGED <<lock, row, waits, rstop>> /\ UNCHANGED reqVars

-----------------------------------------------------------------------------
(* The three transactions on the stack_lock row.                           *)

\* stack_lock_create by r: the row is inserted if there is none, and the
\* engine that has it is returned otherwise.
CreateRow(r) == lock = NoEngine /\ lock' = home[r]

RowTaken(r) ==
    /\ lock # NoEngine
    /\ seen' = [seen EXCEPT ![r] = lock]
    /\ UNCHANGED lock

\* UPDATE ... WHERE engine_id = old_engine_id affects a row.
StealHits_mutAnyRow(r) == lock # NoEngine
StealHits(r) == lock = seen[r]

\* DELETE ... WHERE engine_id = self.engine_id
ReleaseRow_mutAnyOwner(r) == lock' = NoEngine
ReleaseRow_mutNever(r) == UNCHANGED lock
ReleaseRow(r) == lock' = IF lock = home[r] THEN NoEngine ELSE lock

\* engine_alive: the RPC "listening" is answered.  When the owner is not up
\* it times out; it may time out too when the answer is late.
SeenAnswers(r) == seen[r] \in up
SeenSilent_mutAlways(r) == TRUE
SeenSilent(r)  == seen[r] \notin up \/ LateReplies

Goto(r, step) == pc' = [pc EXCEPT ![r] = step]

\* start_with_acquired_lock: spawn the worker and link the release to it.
StartWorker_mutNoThread(r) ==
    Goto(r, "started") /\ UNCHANGED worker
StartWorker(r) ==
    /\ Goto(r, "started")
    /\ worker' = [worker EXCEPT ![r] = "ready"]

-----------------------------------------------------------------------------
(* The handlers up to the lock.                                            *)

\* _get_stack and Stack.load, before any lock is taken.  update_stack
\* refuses a stack whose action is DELETE, stack_cancel_update one that is
\* not (UPDATE, IN_PROGRESS), _get_stack one that is deleted.
Refuses(r) ==
    \/ row = "GONE"
    \/ op[r] = "update" /\ row = "DELETING"
    \/ op[r] = "cancel" /\ row # "UPDATING"

Load_mutDispatch(r) ==
    /\ pc[r] = "load"
    /\ Goto(r, IF Refuses(r) THEN "failed" ELSE op[r])
    /\ UNCHANGED <<lock, row, up, worker, waits, rstop>> /\ UNCHANGED reqVars
Load(r) ==
    /\ pc[r] = "load"
    /\ IF Refuses(r) THEN Goto(r, "failed")
       ELSE Goto(r, IF op[r] = "update" THEN "create" ELSE "try")
    /\ UNCHANGED <<lock, row, up, worker, waits, rstop>> /\ UNCHANGED reqVars

\* try_thread_lock of delete_stack.
TryDelete(r) ==
    /\ pc[r] = "try" /\ op[r] = "delete"
    /\ \/ CreateRow(r) /\ StartWorker(r) /\ UNCHANGED seen
       \/ /\ RowTaken(r)
          /\ Goto(r, IF lock = home[r] THEN "stop" ELSE "dping")
          /\ UNCHANGED worker
    /\ UNCHANGED <<row, up, home, op, retry, waits, rstop>>

\* try_acquire of stack_cancel_update.  A lock it does acquire is neither
\* released nor handed to a thread.  The cancel message itself only makes a
\* running update end, which it may do at any time in this model.
TryCancel(r) ==
    /\ pc[r] = "try" /\ op[r] = "cancel"
    /\ \/ CreateRow(r) /\ Goto(r, "leaked") /\ UNCHANGED seen
       \/ RowTaken(r) /\ Goto(r, "signalled")
    /\ UNCHANGED <<row, up, home, op, retry, worker, waits, rstop>>

-----------------------------------------------------------------------------
(* delete_stack when the lock is taken: stop the work, then lock again.    *)

\* The threads of the stack that engine e runs; ThreadGroup.threads drops a
\* thread when its function returns, before the release runs.
ThreadsAt(e) == {w \in Reqs : home[w] = e /\ worker[w] \in Working}

\* ThreadGroupManager.stop at engine e, for request r: pop the group, kill
\* its threads, and remember them to wait for their links.
StopThreads(r, e) ==
    /\ worker' = [w \in Reqs |-> IF w \in ThreadsAt(e) THEN "exiting"
                                                       ELSE worker[w]]
    /\ waits' = [waits EXCEPT ![r] = ThreadsAt(e)]

\* links_done: the threads that were stopped have run all their links.
LinksDone(r) == \A w \in waits[r] : worker[w] \notin Active

\* The owner is this engine: sleep(0.2), stop the threads, wait.
StopOwn(r) ==
    /\ pc[r] = "stop"
    /\ StopThreads(r, home[r])
    /\ Goto(r, "join")
    /\ UNCHANGED <<lock, row, up, rstop>> /\ UNCHANGED reqVars

Join(r) ==
    /\ pc[r] = "join"
    /\ LinksDone(r)
    /\ Goto(r, "reload")
    /\ UNCHANGED <<lock, row, up, worker, waits, rstop>> /\ UNCHANGED reqVars

\* The owner is another engine: if it is alive, send it stop_stack.
DeletePing(r) ==
    /\ pc[r] = "dping"
    /\ \/ /\ SeenAnswers(r)
          /\ Goto(r, "rcall")
          /\ rstop' = [rstop EXCEPT ![r] = "sent"]
       \/ SeenSilent(r) /\ Goto(r, "reload") /\ UNCHANGED rstop
    /\ UNCHANGED <<lock, row, up, worker, waits>> /\ UNCHANGED reqVars

\* EngineListener.stop_stack at that engine, whether or not the caller still
\* waits for the answer ...
ServeStop(r) ==
    /\ rstop[r] = "sent" /\ seen[r] \in up
    /\ rstop' = [rstop EXCEPT ![r] = "serving"]
    /\ StopThreads(r, seen[r])
    /\ UNCHANGED <<lock, row, up, pc>> /\ UNCHANGED reqVars

\* ... and its answer, once the stopped threads have run their links.
AnswerStop(r) ==
    /\ rstop[r] = "serving" /\ seen[r] \in up
    /\ LinksDone(r)
    /\ rstop' = [rstop EXCEPT ![r] = "replied"]
    /\ UNCHANGED <<lock, row, up, pc, worker, waits>> /\ UNCHANGED reqVars

StopAnswered(r) ==
    /\ pc[r] = "rcall" /\ rstop[r] = "replied"
    /\ Goto(r, "reload")
    /\ UNCHANGED <<lock, row, up, worker, waits, rstop>> /\ UNCHANGED reqVars

\* engine_life_check_timeout passes first: StopActionFailed.
StopTimeout_mutNoTimeout(r) == FALSE /\ UNCHANGED vars
StopTimeout(r) ==
    /\ pc[r] = "rcall" /\ rstop[r] # "replied"
    /\ Goto(r, "failed")
    /\ UNCHANGED <<lock, row, up, worker, waits, rstop>> /\ UNCHANGED reqVars

\* The stack is read again before start_with_lock.
Reload(r) ==
    /\ pc[r] = "reload"
    /\ Goto(r, IF row = "GONE" THEN "failed" ELSE "create")
    /\ UNCHANGED <<lock, row, up, worker, waits, rstop>> /\ UNCHANGED reqVars

-----------------------------------------------------------------------------
(* start_with_lock: StackLock.acquire inside thread_lock, then the worker. *)

Acquire(r) ==
    /\ pc[r] = "create"
    /\ \/ CreateRow(r) /\ StartWorker(r) /\ UNCHANGED seen
       \/ /\ RowTaken(r)
          /\ Goto(r, IF lock = home[r] THEN "undo" ELSE "ping")
          /\ UNCHANGED worker
    /\ UNCHANGED <<row, up, home, op, retry, waits, rstop>>

Ping(r) ==
    /\ pc[r] = "ping"
    /\ \/ SeenAnswers(r) /\ Goto(r, "undo")
       \/ SeenSilent(r) /\ Goto(r, "steal")
    /\ UNCHANGED <<lock, row, up, worker, waits, rstop>> /\ UNCHANGED reqVars

\* stack_lock_steal: it hits the owner seen before, or finds no row (try
\* stack_lock_create once more), or another engine stole the lock first.
Steal(r) ==
    /\ pc[r] = "steal"
    /\ \/ StealHits(r) /\ lock' = home[r] /\ StartWorker(r) /\ UNCHANGED retry
       \/ /\ ~StealHits(r) /\ lock = NoEngine /\ retry[r]
          /\ retry' = [retry EXCEPT ![r] = FALSE]
          /\ Goto(r, "create")
          /\ UNCHANGED <<lock, worker>>
       \/ /\ ~StealHits(r) /\ (lock = NoEngine => ~retry[r])
          /\ Goto(r, "undo")
          /\ UNCHANGED <<lock, worker, retry>>
    /\ UNCHANGED <<row, up, home, op, seen, waits, rstop>>

\* ActionInProgress leaves acquire inside the try of thread_lock: its bare
\* except releases the lock, although this handler never got it.
Undo(r) ==
    /\ pc[r] = "undo"
    /\ ReleaseRow(r)
    /\ Goto(r, "failed")
    /\ UNCHANGED <<row, up, worker, waits, rstop>> /\ UNCHANGED reqVars

-----------------------------------------------------------------------------
(* The worker: Stack.update or Stack.delete, and the release link.         *)

\* state_set(action, IN_PROGRESS); a deleted stack row is left alone.
Begin(w) ==
    /\ worker[w] = "ready"
    /\ worker' = [worker EXCEPT ![w] = "running"]
    /\ row' = IF row = "GONE" THEN "GONE"
              ELSE IF op[w] = "delete" THEN "DELETING" ELSE "UPDATING"
    /\ UNCHANGED <<lock, up, pc, waits, rstop>> /\ UNCHANGED reqVars

\* The function returns: the stack is updated (or failed to be), or it is
\* deleted, or (DELETE, FAILED).
Finish(w) ==
    /\ worker[w] = "running"
    /\ worker' = [worker EXCEPT ![w] = "exiting"]
    /\ row' \in IF row = "GONE" THEN {"GONE"}
                ELSE IF op[w] = "delete" THEN {"DELETING", "GONE"}
                ELSE {"READY"}
    /\ UNCHANGED <<lock, up, pc, waits, rstop>> /\ UNCHANGED reqVars

\* The link callback: lock.release.
Release(w) ==
    /\ worker[w] = "exiting"
    /\ worker' = [worker EXCEPT ![w] = "done"]
    /\ ReleaseRow(w)
    /\ UNCHANGED <<row, up, pc, waits, rstop>> /\ UNCHANGED reqVars

-----------------------------------------------------------------------------
Handler(r) ==
    \/ Load(r) \/ TryDelete(r) \/ TryCancel(r)
    \/ StopOwn(r) \/ Join(r) \/ Reload(r)
    \/ DeletePing(r) \/ StopAnswered(r) \/ StopTimeout(r)
    \/ Acquire(r) \/ Ping(r) \/ Steal(r) \/ Undo(r)

Listener(r) == ServeStop(r) \/ AnswerStop(r)

Thread(r) == Begin(r) \/ Finish(r) \/ Release(r)

\* No handler and no thread is left: the engines wait for requests.
Settled ==
    \A r \in Reqs : pc[r] \in Ended \cup {"new"} /\ worker[r] \notin Active

Terminated == Settled /\ UNCHANGED vars

Next ==
    \/ \E r \in Reqs, e \in Engines : Arrive(r, e)
    \/ \E e \in Engines : Crash(e)
    \/ \E r \in Reqs : Handler(r) \/ Listener(r) \/ Thread(r)
    \/ Terminated

Spec == Init /\ [][Next]_vars

\* Handlers and threads are scheduled by eventlet, which runs every green
\* thread that can run, and a stack operation ends (stack timeout).
Fairness ==
    \A r \in Reqs : WF_vars(Handler(r)) /\ WF_vars(Listener(r))
                                        /\ WF_vars(Thread(r))

FairSpec == Spec /\ Fairness
-----------------------------------------------------------------------------
(* Properties.                                                             *)

\* A stack_lock row of a live engine is never orphaned: some thread of that
\* engine is still bound to run its release link.  Otherwise the stack is
\* locked until the engine dies, as a live owner is never stolen from.
NoOrphanLock ==
    lock \in up => \E w \in Reqs : home[w] = lock /\ worker[w] \in Active

\* stack_lock_steal takes the row from an engine only when that engine is
\* dead, whatever happened between its liveness check and the UPDATE.
StealsFromDeadOnly ==
    [][(lock \in up /\ lock' # lock) => lock' = NoEngine]_vars

\* At most one thread of the live engines works on the stack, and the row
\* names its engine: what the stack lock is for.
MutualExclusion ==
    \A w \in Reqs : worker[w] \in Active =>
        /\ lock = home[w]
        /\ \A x \in Reqs : worker[x] \in Active => x = w

\* The operations of the stack run one at a time, and only the one that runs
\* writes the stack row: the lock implements StackSerial.
Serial == INSTANCE StackSerial WITH
            Threads <- Reqs,
            busy <- {<<w, op[w]>> : w \in {x \in Reqs : worker[x] \in Active}}
SerialSpec == Serial!Spec

\* "Release the lock when the thread finishes" (start_with_lock): while a
\* thread works, the row of its engine is not deleted under it.
LockKeptWhileWorking ==
    [][\A w \in Reqs : worker[w] \in Working /\ lock = home[w]
                       => lock' = home[w]]_vars

\* "Updating a stack when it is deleting" is not supported: no update thread
\* works on a stack that is deleted, or whose last action is DELETE.
NoUpdateOfDeleted ==
    \A w \in Reqs : worker[w] = "ready" /\ op[w] = "update"
                    => row \notin {"DELETING", "GONE"}

\* Every request that reached an engine is answered or dies with it: no
\* handler waits for links, a remote stop or the lock for ever.
RequestsEnd ==
    \A r \in Reqs : pc[r] = "load" ~> pc[r] \in Ended

\* The lock never stays with a live engine for ever.
LockGivenBack == \A e \in Engines :
    [](lock = e /\ e \in up => <>(lock # e \/ e \notin up))
=============================================================================
