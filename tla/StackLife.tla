----------------------------- MODULE StackLife -----------------------------
(***************************************************************************)
(* heat/engine/stack.py (create, update_task, delete), update.py (the      *)
(* StackUpdate task) and resource.py (update, delete, destroy): the life   *)
(* of one stack, its backup stack and the physical resources behind them.  *)
(*                                                                         *)
(* One operation runs at a time (StackLock.tla).  It is a group of tasks   *)
(* (TaskGroup.tla), one per resource - in an update one per resource of    *)
(* the new stack and one per resource of the existing stack.  A step of    *)
(* the model is what a task does between two yields.  Crash and Kill end   *)
(* the operation at any of these points and leave the database as it is.   *)
(***************************************************************************)
EXTENDS Naturals, FiniteSets

CONSTANTS
    Names,     \* the names resources have in the templates
    Requires,  \* Requires[n]: what n depends on in every template that has it
    Templates, \* templates: functions from names to definitions, 0 is absent
    MaxOps,    \* bound on the updates and deletes of a behaviour
    MaxFaults  \* bound on what fails, times out or is interrupted in it

ASSUME RequiresAssumption  == Requires \in [Names -> SUBSET Names]
ASSUME TemplatesAssumption == Templates \subseteq [Names -> Nat]
ASSUME BoundsAssumption    == MaxOps \in Nat /\ MaxFaults \in Nat

VARIABLES
    state,   \* state.action, state.status of the stack; action "GONE": deleted
    t,       \* the stored template of the stack
    pt,      \* that of the backup stack ("previous stack")
    res,     \* the resources of the stack
    prev,    \* the resources of the backup stack
    cloud,   \* the physical resources that exist
    made,    \* how many were ever made: their ids are 1..made
    phase,   \* what the operation that runs is doing, or "idle"
    want,    \* the template of newstack
    orig,    \* the template of oldstack
    undo,    \* ~newstack.disable_rollback
    new,     \* new[n]: the task of n for the new stack
    old,     \* old[n]: the task of n for the existing (or only) stack
    rid,     \* during a delete: resource_id of the resources, in memory
    pid,     \* the same for the backup stack
    ops,     \* updates and deletes so far
    faults,  \* failures, timeouts, cancellations, kills and crashes so far
    dropped,     \* history: the ids a delete held in memory and lost
    unheard,     \* history: the ids that only a failed or dead thread knew
    interrupted, \* history: a crash or a kill ended the last operation
    found        \* history: the resources as the last update found them

stackVars == <<state, t, pt>>
opVars    == <<phase, want, orig, undo, rid, pid, ops>>
histVars  == <<dropped, unheard, interrupted, found>>
vars == <<stackVars, res, prev, cloud, made, new, old, opVars, histVars, faults>>

Phases == {"idle", "create", "clean", "update", "purge", "unback", "delete"}

\* "called": the service has made the resource and no row has its id yet.
\* "cleared": the task has destroyed the resource of the backup stack and
\* goes on.  "died": ended by an error that is not a ResourceFailure.  "cut":
\* cancelled when its grace period had passed.
Running  == {"updating", "creating", "called", "checking", "clearing", "removing"}
Ended    == {"done", "failed", "died", "cut"}
Statuses == {"IN_PROGRESS", "COMPLETE", "FAILED"}
Nothing  == [n \in Names |-> 0]
Ids      == [Names -> Nat]

\* A Resource object: its state, resource_id (0: None), definition (0: the
\* stack has no such resource), the definition its physical resource was
\* brought to (0: none or unknown), and whether it has a row.
Resources == [action : {"INIT", "CREATE", "UPDATE", "DELETE"},
              status : Statuses, id : Nat, def : Nat, real : Nat,
              saved : BOOLEAN]

\* INIT, COMPLETE.  An object that was destroyed, DELETE, COMPLETE, has no
\* row either and is treated alike everywhere.
Blank(d) == [action |-> "INIT", status |-> "COMPLETE", id |-> 0, def |-> d,
             real |-> 0, saved |-> FALSE]
Gone(r)  == r.action = "INIT"

\* Stack.load: what has a row keeps it, and takes the template's definition.
Loaded(rs, tm) ==
    [n \in Names |-> IF rs[n].saved THEN [rs[n] EXCEPT !.def = tm[n]]
                                    ELSE Blank(tm[n])]

Began(r, action) == [r EXCEPT !.action = action, !.status = "IN_PROGRESS"]

\* state_set of CREATE, IN_PROGRESS makes the row.
Started(r) == [Began(r, "CREATE") EXCEPT !.saved = TRUE]

\* A resource put aside in the backup stack, whatever state it was in.
Backed(r) == [r EXCEPT !.action = "UPDATE", !.status = "COMPLETE"]

\* state_set of DELETE, IN_PROGRESS: the row takes the object's resource_id.
Removing(r, id) == [Began(r, "DELETE") EXCEPT !.id = id]

TypeOK ==
    /\ state \in [action : {"CREATE", "UPDATE", "ROLLBACK", "DELETE", "GONE"},
                  status : Statuses]
    /\ t \in Ids /\ pt \in Ids /\ want \in Ids /\ orig \in Ids
    /\ res \in [Names -> Resources] /\ prev \in [Names -> Resources]
    /\ made \in Nat /\ cloud \in SUBSET (1 .. made)
    /\ phase \in Phases
    /\ undo \in BOOLEAN
    /\ new \in [Names -> Running \cup Ended \cup {"wait", "cleared"}]
    /\ old \in [Names -> Running \cup Ended \cup {"wait", "cleared"}]
    /\ rid \in Ids /\ pid \in Ids
    /\ ops \in Nat /\ faults \in Nat
    /\ dropped \in SUBSET Nat /\ unheard \in SUBSET Nat
    /\ interrupted \in BOOLEAN
    /\ found \in {"whole", "sane", "odd"}

\* A stack that was just stored, and the thread that creates its resources.
Init ==
    /\ state = [action |-> "CREATE", status |-> "IN_PROGRESS"]
    /\ t \in Templates
    /\ pt = Nothing
    /\ res = [n \in Names |-> Blank(t[n])]
    /\ prev = [n \in Names |-> Blank(0)]
    /\ cloud = {} /\ made = 0
    /\ phase = "create"
    /\ want = Nothing /\ orig = Nothing /\ undo = FALSE
    /\ new = [n \in Names |-> IF t[n] # 0 THEN "wait" ELSE "done"]
    /\ old = [n \in Names |-> "done"]
    /\ rid = Nothing /\ pid = Nothing
    /\ ops = 0 /\ faults = 0
    /\ dropped = {} /\ unheard = {} /\ interrupted = FALSE /\ found = "whole"

Fault == faults < MaxFaults /\ faults' = faults + 1

-----------------------------------------------------------------------------
(* The task groups.                                                        *)

Failing == \E n \in Names : {new[n], old[n]} \cap {"failed", "died"} # {}

\* Between the service call and resource_id_set a task does not yield: nobody
\* else moves, and no timeout or cancellation is delivered.
Alone(n) == \A m \in Names \ {n} : new[m] # "called"
AtYield  == \A n \in Names : new[n] # "called"

\* The id that the service has given and that only the thread knows.
InAir == IF AtYield THEN {} ELSE {made}

\* A group made with error_wait_time lets its running tasks go on when one
\* has failed; the others are cancelled at once.
MayStep == phase \in {"create", "update"} \/ ~Failing

StartsNew(n) ==
    /\ new[n] = "wait" /\ ~Failing
    /\ \A m \in Requires[n] : new[m] = "done"

\* Resources are removed before what they depend on, and after their
\* replacement exists.
StartsOld(n) ==
    /\ old[n] = "wait" /\ ~Failing
    /\ new[n] = "done"
    /\ \A m \in Names : n \in Requires[m] => old[m] = "done"

AllDone == \A n \in Names : new[n] = "done" /\ old[n] = "done"
Stopped == Failing /\ \A n \in Names : {new[n], old[n]} \cap (Running \cup {"cleared"}) = {}

\* _action_recorder on its way out: what the tasks worked on is FAILED, and an
\* update that was under way leaves the physical resource in between.
Failed(r) == [r EXCEPT !.status = "FAILED",
                       !.real = IF r.action = "UPDATE" THEN 0 ELSE r.real]
OnRes  == {"updating", "creating", "called", "checking", "removing"}
OnPrev == {"clearing"}
Cut(rs, mine) == [n \in Names |-> IF {new[n], old[n]} \cap mine # {}
                                  THEN Failed(rs[n]) ELSE rs[n]]

StopNew(n, how) ==
    /\ new[n] \in Running
    /\ new' = [new EXCEPT ![n] = how]
    /\ res'  = IF new[n] \in OnRes THEN [res EXCEPT ![n] = Failed(res[n])] ELSE res
    /\ prev' = IF new[n] \in OnPrev THEN [prev EXCEPT ![n] = Failed(prev[n])] ELSE prev
    /\ unheard' = unheard \cup InAir
    /\ UNCHANGED <<stackVars, cloud, made, old, opVars, dropped, interrupted, found>>

StopOld(n, how) ==
    /\ old[n] \in Running
    /\ old' = [old EXCEPT ![n] = how]
    /\ res'  = IF old[n] \in OnRes THEN [res EXCEPT ![n] = Failed(res[n])] ELSE res
    /\ prev' = IF old[n] \in OnPrev THEN [prev EXCEPT ![n] = Failed(prev[n])] ELSE prev
    /\ UNCHANGED <<stackVars, cloud, made, new, opVars, histVars>>

\* The plug-in or the service behind it raises; at "called", the answer of the
\* service that has made the resource is lost.
FailNew(n) == MayStep /\ Fault /\ StopNew(n, "failed")
FailOld(n) == MayStep /\ Fault /\ StopOld(n, "failed")

\* The grace period has passed, or the group has none.
CutNew(n) == Failing /\ AtYield /\ StopNew(n, "cut") /\ UNCHANGED faults
CutOld(n) == Failing /\ StopOld(n, "cut") /\ UNCHANGED faults

-----------------------------------------------------------------------------
(* Resource.create                                                         *)

Create(n) ==
    /\ phase = "create" /\ StartsNew(n)
    /\ res' = [res EXCEPT ![n] = Started(res[n])]
    /\ new' = [new EXCEPT ![n] = "creating"]
    /\ UNCHANGED <<stackVars, prev, cloud, made, old, opVars, histVars, faults>>

\* handle_create: the service makes the resource and answers with its id,
HandleCreate_mutSameId(n) ==
    /\ new[n] = "creating"
    /\ cloud' = cloud \cup {made + 1} /\ UNCHANGED made
    /\ new' = [new EXCEPT ![n] = "called"]
    /\ UNCHANGED <<stackVars, res, prev, old, opVars, histVars, faults>>
HandleCreate(n) ==
    /\ new[n] = "creating"
    /\ made' = made + 1 /\ cloud' = cloud \cup {made'}
    /\ new' = [new EXCEPT ![n] = "called"]
    /\ UNCHANGED <<stackVars, res, prev, old, opVars, histVars, faults>>

\* which resource_id_set then writes to the row.
ResourceIdSet(n) ==
    /\ new[n] = "called"
    /\ res' = [res EXCEPT ![n].id = made]
    /\ new' = [new EXCEPT ![n] = "checking"]
    /\ UNCHANGED <<stackVars, prev, cloud, made, old, opVars, histVars, faults>>

CheckCreate(n) ==
    /\ new[n] = "checking"
    /\ res' = [res EXCEPT ![n].status = "COMPLETE", ![n].real = res[n].def]
    /\ new' = [new EXCEPT ![n] = "done"]
    /\ UNCHANGED <<stackVars, prev, cloud, made, old, opVars, histVars, faults>>

-----------------------------------------------------------------------------
(* The update of one resource: Resource.update and StackUpdate.            *)

\* What the definition refers to may resolve to something else than before.
MayDiffer(n) == res[n].def # want[n] \/ \E m \in Requires[n] : want[m] # 0

UpToDate_mutNoStatus(n) ==
    /\ phase = "update" /\ StartsNew(n) /\ t[n] # 0
    /\ res[n].def = want[n]
    /\ new' = [new EXCEPT ![n] = "done"]
    /\ UNCHANGED <<stackVars, res, prev, cloud, made, old, opVars, histVars, faults>>
UpToDate(n) ==
    /\ phase = "update" /\ StartsNew(n) /\ t[n] # 0
    /\ res[n].status # "FAILED" /\ res[n].def = want[n]
    /\ new' = [new EXCEPT ![n] = "done"]
    /\ UNCHANGED <<stackVars, res, prev, cloud, made, old, opVars, histVars, faults>>

InProgress(r) == r.action \in {"CREATE", "UPDATE"} /\ r.status = "IN_PROGRESS"

\* 'Resource update already requested'
RefuseUpdate(n) ==
    /\ phase = "update" /\ StartsNew(n) /\ t[n] # 0
    /\ InProgress(res[n]) /\ MayDiffer(n)
    /\ new' = [new EXCEPT ![n] = "failed"]
    /\ UNCHANGED <<stackVars, res, prev, cloud, made, old, opVars, histVars, faults>>

UpdateInPlace(n) ==
    /\ phase = "update" /\ StartsNew(n) /\ t[n] # 0
    /\ res[n].status # "FAILED" /\ ~InProgress(res[n]) /\ MayDiffer(n)
    /\ res' = [res EXCEPT ![n] = Began(res[n], "UPDATE")]
    /\ new' = [new EXCEPT ![n] = "updating"]
    /\ UNCHANGED <<stackVars, prev, cloud, made, old, opVars, histVars, faults>>

\* The object has the new definition; the stored template does not.
HandleUpdate(n) ==
    /\ new[n] = "updating"
    /\ res' = [res EXCEPT ![n].status = "COMPLETE", ![n].def = want[n], ![n].real = want[n]]
    /\ new' = [new EXCEPT ![n] = "done"]
    /\ UNCHANGED <<stackVars, prev, cloud, made, old, opVars, histVars, faults>>

\* _create_resource: for a name the stack does not have, a resource that is
\* FAILED, and one whose plug-in raises UpdateReplace.
NeedsNew(n) ==
    /\ phase = "update"
    /\ \/ StartsNew(n) /\ (t[n] = 0 \/ res[n].status = "FAILED")
       \/ new[n] = "updating"

\* The backup is in a valid state: the stacks exchange their resources.
Exchanges(n) ==
    /\ NeedsNew(n)
    /\ ~Gone(prev[n]) /\ prev[n].status = "COMPLETE"
    /\ res[n].saved /\ prev[n].saved
Exchange_mutAnyState(n) ==
    /\ NeedsNew(n)
    /\ ~Gone(prev[n])
    /\ res[n].saved /\ prev[n].saved
    /\ res' = [res EXCEPT ![n] = prev[n]]
    /\ prev' = [prev EXCEPT ![n] = res[n]]
    /\ t' = [t EXCEPT ![n] = prev[n].def]
    /\ pt' = [pt EXCEPT ![n] = res[n].def]
    /\ new' = [new EXCEPT ![n] = "done"]
    /\ UNCHANGED <<state, cloud, made, old, opVars, histVars, faults>>
Exchange_mutOneWay(n) ==
    /\ Exchanges(n)
    /\ res' = [res EXCEPT ![n] = prev[n]]
    /\ t' = [t EXCEPT ![n] = prev[n].def]
    /\ pt' = [pt EXCEPT ![n] = res[n].def]
    /\ new' = [new EXCEPT ![n] = "done"]
    /\ UNCHANGED <<state, prev, cloud, made, old, opVars, histVars, faults>>
Exchange(n) ==
    /\ Exchanges(n)
    /\ res' = [res EXCEPT ![n] = prev[n]]
    /\ prev' = [prev EXCEPT ![n] = res[n]]
    /\ t' = [t EXCEPT ![n] = prev[n].def]
    /\ pt' = [pt EXCEPT ![n] = res[n].def]
    /\ new' = [new EXCEPT ![n] = "done"]
    /\ UNCHANGED <<state, cloud, made, old, opVars, histVars, faults>>

\* The existing stack has no row, and maybe no resource, of the name: the
\* exchange raises AttributeError, or KeyError.
ExchangeDies(n) ==
    /\ NeedsNew(n)
    /\ ~Gone(prev[n]) /\ prev[n].status = "COMPLETE"
    /\ ~res[n].saved
    /\ new' = [new EXCEPT ![n] = "died"]
    /\ UNCHANGED <<stackVars, res, prev, cloud, made, old, opVars, histVars, faults>>

ClearFirst_mutNoDestroy(n) ==
    /\ NeedsNew(n)
    /\ ~Gone(prev[n]) /\ prev[n].status # "COMPLETE"
    /\ new' = [new EXCEPT ![n] = "cleared"]
    /\ UNCHANGED <<stackVars, res, prev, cloud, made, old, opVars, histVars, faults>>
ClearFirst(n) ==
    /\ NeedsNew(n)
    /\ ~Gone(prev[n]) /\ prev[n].status # "COMPLETE"
    /\ prev' = [prev EXCEPT ![n] = Removing(prev[n], prev[n].id)]
    /\ new' = [new EXCEPT ![n] = "clearing"]
    /\ UNCHANGED <<stackVars, res, cloud, made, old, opVars, histVars, faults>>

\* The existing resource, if there is one, goes to the backup stack, and the
\* new one is created in its place.
Replaces(n) ==
    \/ NeedsNew(n) /\ Gone(prev[n])
    \/ phase = "update" /\ new[n] = "cleared"
Replace(n) ==
    /\ Replaces(n)
    /\ IF t[n] # 0
         THEN /\ prev' = [prev EXCEPT ![n] = Backed(res[n])]
              /\ pt' = [pt EXCEPT ![n] = res[n].def]
         ELSE UNCHANGED <<prev, pt>>
    /\ t' = [t EXCEPT ![n] = want[n]]
    /\ res' = [res EXCEPT ![n] = Started(Blank(want[n]))]
    /\ new' = [new EXCEPT ![n] = "creating"]
    /\ UNCHANGED <<state, cloud, made, old, opVars, histVars, faults>>

\* _process_existing_resource_update: the backup goes first.  A resource the
\* new stack has is updated or replaced by now; any other is removed.
ClearOld(n) ==
    /\ phase \in {"clean", "update", "purge", "unback"} /\ StartsOld(n) /\ ~Gone(prev[n])
    /\ prev' = [prev EXCEPT ![n] =
                 Removing(prev[n], IF phase = "unback" THEN pid[n] ELSE prev[n].id)]
    /\ old' = [old EXCEPT ![n] = "clearing"]
    /\ UNCHANGED <<stackVars, res, cloud, made, new, opVars, histVars, faults>>

OldCleared_mutStops(n) == phase = "update" /\ StartsOld(n) /\ Gone(prev[n])
OldCleared(n) ==
    phase = "update" /\ ((StartsOld(n) /\ Gone(prev[n])) \/ old[n] = "cleared")

KeepOld(n) ==
    /\ OldCleared(n) /\ want[n] # 0
    /\ old' = [old EXCEPT ![n] = "done"]
    /\ UNCHANGED <<stackVars, res, prev, cloud, made, new, opVars, histVars, faults>>

RemoveOld(n) ==
    /\ \/ OldCleared(n) /\ want[n] = 0
       \/ phase = "delete" /\ StartsOld(n)
    /\ ~Gone(res[n])
    /\ res' = [res EXCEPT ![n] =
                Removing(res[n], IF phase = "delete" THEN rid[n] ELSE res[n].id)]
    /\ old' = [old EXCEPT ![n] = "removing"]
    /\ UNCHANGED <<stackVars, prev, cloud, made, new, opVars, histVars, faults>>

\* Never created: only the template loses it.
ForgetOld(n) ==
    /\ OldCleared(n) /\ want[n] = 0 /\ Gone(res[n])
    /\ res' = [res EXCEPT ![n] = Blank(0)]
    /\ t' = [t EXCEPT ![n] = 0]
    /\ old' = [old EXCEPT ![n] = "done"]
    /\ UNCHANGED <<state, pt, prev, cloud, made, new, opVars, histVars, faults>>

\* The physical resource is gone and so is the row of the backup stack.
EndClearNew(n) ==
    /\ new[n] = "clearing" /\ MayStep
    /\ cloud' = cloud \ {prev[n].id}
    /\ prev' = [prev EXCEPT ![n] = Blank(pt[n])]
    /\ new' = [new EXCEPT ![n] = "cleared"]
    /\ UNCHANGED <<stackVars, res, made, old, opVars, histVars, faults>>

EndClearOld(n) ==
    /\ old[n] = "clearing" /\ MayStep
    /\ cloud' = cloud \ {prev[n].id}
    /\ prev' = [prev EXCEPT ![n] = Blank(pt[n])]
    /\ old' = [old EXCEPT ![n] = IF phase = "update" THEN "cleared" ELSE "done"]
    /\ UNCHANGED <<stackVars, res, made, new, opVars, histVars, faults>>

\* An update removes the resource from the template too.
EndRemove(n) ==
    /\ old[n] = "removing" /\ MayStep
    /\ cloud' = cloud \ {res[n].id}
    /\ t' = IF phase = "update" THEN [t EXCEPT ![n] = 0] ELSE t
    /\ res' = [res EXCEPT ![n] = Blank(t'[n])]
    /\ old' = [old EXCEPT ![n] = "done"]
    /\ UNCHANGED <<state, pt, prev, made, new, opVars, histVars, faults>>

-----------------------------------------------------------------------------
(* The operations on the stack.                                            *)

Standing(r) == r.status = "COMPLETE" /\ r.saved /\ r.id \in cloud /\ r.real = r.def

Backup == \E n \in Names : pt[n] # 0

\* The ids a delete holds in memory only: after it exchanged those of n, the
\* rows of n carry the id of the stack's resource, or none.
Held ==
    IF phase \in {"unback", "delete"}
    THEN {rid[n] : n \in {m \in Names : rid[m] \notin {res[m].id, prev[m].id}}}
    ELSE {}

\* The thread is done; whoever comes next loads the stack from the database.
Leave(st, rs, tm, ps, ptm) ==
    /\ state' = st
    /\ t' = tm /\ pt' = ptm
    /\ res' = Loaded(rs, tm) /\ prev' = Loaded(ps, ptm)
    /\ phase' = "idle"
    /\ want' = Nothing /\ orig' = Nothing /\ undo' = FALSE
    /\ new' = [n \in Names |-> "done"] /\ old' = [n \in Names |-> "done"]
    /\ rid' = Nothing /\ pid' = Nothing
    /\ dropped' = dropped \cup Held /\ unheard' = unheard \cup InAir
    /\ UNCHANGED <<cloud, made, ops, found>>

End(status) == [state EXCEPT !.status = status]

\* self.delete(action=self.ROLLBACK) in the post_func of a failed create
\* raises TypeError in report_task_status: nothing is rolled back.
CreateEnds ==
    /\ phase = "create" /\ (AllDone \/ Stopped)
    /\ Leave(End(IF AllDone THEN "COMPLETE" ELSE "FAILED"), res, t, prev, pt)
    /\ UNCHANGED <<interrupted, faults>>

MayUpdate == phase = "idle" /\ ops < MaxOps /\ state.action \notin {"DELETE", "GONE"}

\* 'State invalid for UPDATE'
RejectUpdate ==
    /\ MayUpdate /\ state.status = "IN_PROGRESS"
    /\ state' = [action |-> "UPDATE", status |-> "FAILED"]
    /\ ops' = ops + 1 /\ interrupted' = FALSE /\ found' = "odd"
    /\ UNCHANGED <<t, pt, res, prev, cloud, made, new, old,
                   phase, want, orig, undo, rid, pid, dropped, unheard, faults>>

\* The tasks that remove what is left of the backup stack, and those of an
\* update to template w.
Removals(rs) == [n \in Names |-> IF Gone(rs[n]) THEN "done" ELSE "wait"]
Present(tm)  == [n \in Names |-> IF tm[n] = 0 THEN "done" ELSE "wait"]

Update(w, u) ==
    /\ MayUpdate /\ state.status # "IN_PROGRESS"
    /\ state' = [action |-> "UPDATE", status |-> "IN_PROGRESS"]
    /\ want' = w /\ orig' = t /\ undo' = u
    /\ pt' = IF Backup THEN pt ELSE t
    /\ prev' = Loaded(prev, pt')
    /\ phase' = "clean"
    /\ old' = Removals(prev)
    /\ ops' = ops + 1 /\ interrupted' = FALSE
    /\ found' = LET there == {res[n] : n \in {m \in Names : t[m] # 0}}
                IN  CASE (\A r \in there : Standing(r)) /\ (\A n \in Names : Gone(prev[n])) -> "whole"
                      [] \A r \in there : Standing(r) \/ r.status = "FAILED" -> "sane"
                      [] OTHER -> "odd"
    /\ UNCHANGED <<t, res, cloud, made, new, rid, pid, dropped, unheard, faults>>

CleanEnds ==
    /\ phase = "clean" /\ AllDone
    /\ phase' = "update"
    /\ new' = Present(want) /\ old' = Present(t)
    /\ UNCHANGED <<stackVars, res, prev, cloud, made, want, orig, undo, rid, pid, ops, histVars, faults>>

\* Another update task, to oldstack; the backup stack is loaded again.
Rollback(rs, ps) ==
    /\ state' = [action |-> "ROLLBACK", status |-> "IN_PROGRESS"]
    /\ want' = orig
    /\ phase' = "update"
    /\ res' = rs /\ prev' = Loaded(ps, pt)
    /\ new' = Present(orig) /\ old' = Present(t)
    /\ UNCHANGED <<t, pt, cloud, made, orig, undo, rid, pid, ops, histVars>>

UpdateFails ==
    /\ phase \in {"clean", "update"} /\ Stopped
    /\ \E n \in Names : "failed" \in {new[n], old[n]}
    /\ IF state.action = "UPDATE" /\ undo
         THEN Rollback(res, prev) /\ UNCHANGED faults
         ELSE Leave(End("FAILED"), res, t, prev, pt) /\ UNCHANGED <<interrupted, faults>>

\* Nothing in update_task catches the error of ExchangeDies.
UpdateDies ==
    /\ phase = "update" /\ Stopped
    /\ \E n \in Names : new[n] = "died"
    /\ Leave(state, res, t, prev, pt)
    /\ UNCHANGED <<interrupted, faults>>

UpdateEnds ==
    /\ phase = "update" /\ AllDone
    /\ phase' = "purge"
    /\ old' = Removals(prev)
    /\ UNCHANGED <<stackVars, res, prev, cloud, made, new, want, orig, undo, rid, pid, ops, histVars, faults>>

\* backup_stack.delete: what it could not remove it keeps, and nobody asks.
PurgeEnds ==
    /\ phase = "purge" /\ (AllDone \/ Stopped)
    /\ Leave(End("COMPLETE"), res, want, prev, IF AllDone THEN Nothing ELSE pt)
    /\ UNCHANGED <<interrupted, faults>>

\* n and all that depend on it, directly or not.
Dependents(n) ==
    {m \in Names : \A S \in SUBSET Names :
        n \in S /\ (\A x, y \in Names : x \in S /\ x \in Requires[y] => y \in S) => m \in S}

\* The names whose resource ids the delete exchanges in memory.
Exchanged ==
    {n \in Names :
        /\ prev[n].id # 0
        /\ \/ res[n].status \in {"FAILED", "IN_PROGRESS"}
           \/ \E m \in Dependents(n) : res[m].action = "CREATE"
                                       /\ res[m].status \in {"FAILED", "IN_PROGRESS"}}

MayDelete == phase = "idle" /\ ops < MaxOps /\ state.action # "GONE"

\* self.resources[key] raises KeyError.
Unmatched == \E n \in Names : pt[n] # 0 /\ t[n] = 0

Delete ==
    /\ MayDelete /\ ~Unmatched
    /\ state' = [action |-> "DELETE", status |-> "IN_PROGRESS"]
    /\ rid' = [n \in Names |-> IF n \in Exchanged THEN prev[n].id ELSE res[n].id]
    /\ pid' = [n \in Names |-> IF n \in Exchanged THEN res[n].id ELSE prev[n].id]
    /\ phase' = IF Backup THEN "unback" ELSE "delete"
    /\ old' = IF Backup THEN Removals(prev) ELSE Removals(res)
    /\ ops' = ops + 1 /\ interrupted' = FALSE
    /\ UNCHANGED <<t, pt, res, prev, cloud, made, new, want, orig, undo, dropped, unheard, found, faults>>

DeleteDies ==
    /\ MayDelete /\ Unmatched
    /\ state' = [action |-> "DELETE", status |-> "IN_PROGRESS"]
    /\ ops' = ops + 1 /\ interrupted' = FALSE
    /\ UNCHANGED <<t, pt, res, prev, cloud, made, new, old,
                   phase, want, orig, undo, rid, pid, dropped, unheard, found, faults>>

UnbackEnds ==
    /\ phase = "unback" /\ AllDone
    /\ pt' = Nothing /\ prev' = [n \in Names |-> Blank(0)]
    /\ phase' = "delete"
    /\ old' = Removals(res)
    /\ UNCHANGED <<state, t, res, cloud, made, new, want, orig, undo, rid, pid, ops, histVars, faults>>

DeleteEnds ==
    /\ phase = "delete" /\ AllDone
    /\ Leave([action |-> "GONE", status |-> "COMPLETE"], res, Nothing, prev, pt)
    /\ UNCHANGED <<interrupted, faults>>

DeleteFails ==
    /\ phase \in {"unback", "delete"} /\ Stopped
    /\ Leave(End("FAILED"), res, t, prev, pt)
    /\ UNCHANGED <<interrupted, faults>>

-----------------------------------------------------------------------------
(* What may happen to an operation from outside.                           *)

\* scheduler.Timeout: no rollback, and a purge that times out is over.
Timeout_mutKeepsState ==
    /\ phase # "idle" /\ ~AllDone /\ AtYield /\ Fault
    /\ Leave(state, Cut(res, OnRes), t, Cut(prev, OnPrev), pt)
    /\ UNCHANGED interrupted
Timeout ==
    /\ phase # "idle" /\ ~AllDone /\ AtYield /\ Fault
    /\ IF phase = "purge"
         THEN Leave(End("COMPLETE"), res, want, Cut(prev, OnPrev), pt)
         ELSE Leave(End("FAILED"), Cut(res, OnRes), t, Cut(prev, OnPrev), pt)
    /\ UNCHANGED interrupted

\* ForcedCancel: the rollback happens whether or not it is enabled.
CancelUpdate ==
    /\ phase \in {"clean", "update"} /\ state.action = "UPDATE" /\ AtYield /\ Fault
    /\ Rollback(Cut(res, OnRes), Cut(prev, OnPrev))

\* A delete stops the threads of the stack.
Kill ==
    /\ phase # "idle" /\ Fault
    /\ Leave(state, Cut(res, OnRes), t, Cut(prev, OnPrev), pt)
    /\ interrupted' = TRUE

Crash ==
    /\ phase # "idle" /\ Fault
    /\ Leave(state, res, t, prev, pt)
    /\ interrupted' = TRUE

\* The engine dies between two commits of Replace or Exchange.  Nothing else
\* sees what lies between them, for the task does not yield there.
CrashReplacing(n) ==
    /\ Replaces(n) /\ AtYield /\ Fault
    /\ LET named == [t EXCEPT ![n] = want[n]]
           kept  == [pt EXCEPT ![n] = res[n].def]
           moved == [prev EXCEPT ![n] = Backed(res[n])]
           left  == [res EXCEPT ![n] = Blank(t[n])]
       IN  \/ t[n] # 0 /\ Leave(state, res, t, prev, kept)
           \/ t[n] # 0 /\ Leave(state, left, t, moved, kept)
           \/ t[n] # 0 /\ Leave(state, left, named, moved, kept)
           \/ t[n] = 0 /\ Leave(state, res, named, prev, pt)
    /\ interrupted' = TRUE

CrashExchanging(n) ==
    /\ Exchanges(n) /\ AtYield /\ Fault
    /\ \E kept \in {pt, [pt EXCEPT ![n] = res[n].def]} :
          Leave(state, [res EXCEPT ![n] = prev[n]], t, [prev EXCEPT ![n] = res[n]], kept)
    /\ interrupted' = TRUE

-----------------------------------------------------------------------------
NewTask(n) ==
    \/ Create(n) \/ HandleCreate(n) \/ ResourceIdSet(n) \/ CheckCreate(n)
    \/ UpToDate(n) \/ RefuseUpdate(n) \/ UpdateInPlace(n) \/ HandleUpdate(n)
    \/ Exchange(n) \/ ExchangeDies(n) \/ ClearFirst(n) \/ EndClearNew(n) \/ Replace(n)
    \/ CutNew(n)

OldTask(n) ==
    \/ ClearOld(n) \/ EndClearOld(n) \/ KeepOld(n) \/ RemoveOld(n)
    \/ EndRemove(n) \/ ForgetOld(n) \/ CutOld(n)

PhaseEnds ==
    \/ CreateEnds \/ CleanEnds \/ UpdateFails \/ UpdateDies \/ UpdateEnds
    \/ PurgeEnds \/ UnbackEnds \/ DeleteEnds \/ DeleteFails

Work ==
    \/ \E n \in Names : (Alone(n) /\ NewTask(n)) \/ (AtYield /\ OldTask(n))
    \/ PhaseEnds

Request ==
    \/ \E w \in Templates, u \in BOOLEAN : Update(w, u)
    \/ RejectUpdate \/ Delete \/ DeleteDies

Fails ==
    \E n \in Names : (Alone(n) /\ FailNew(n)) \/ (AtYield /\ FailOld(n))

Crashes ==
    Crash \/ \E n \in Names : CrashReplacing(n) \/ CrashExchanging(n)

Next == Work \/ Fails \/ Request \/ Timeout \/ CancelUpdate \/ Kill \/ Crashes

\* The loop of the thread runs on while the engine does.
Spec == Init /\ [][Next]_vars /\ WF_vars(Work)

-----------------------------------------------------------------------------
(* Properties.                                                             *)

Recorded(p) == \E n \in Names : \/ res[n].saved /\ t[n] # 0 /\ res[n].id = p
                                \/ prev[n].saved /\ pt[n] # 0 /\ prev[n].id = p

\* No failure, crash or kill loses a physical resource: each has a row of
\* the stack or its backup, under a name of the template, where a later
\* delete finds it.  Two things are lost: what was made for a task whose
\* service call failed, or whose thread ended, before resource_id_set, and
\* what a delete exchanged in memory and had not carried out when it ended.
NoneLost ==
    phase = "idle" => \A p \in cloud \ (dropped \cup unheard) : Recorded(p)

\* Two rows never stand for one physical resource: what the deletion of one
\* removes is not in use by another.
Single(rs, ps) ==
    \A m, n \in Names :
        /\ rs[m].id = rs[n].id /\ rs[m].id # 0 => m = n
        /\ ps[m].id = ps[n].id /\ ps[m].id # 0 => m = n
        /\ rs[m].id = 0 \/ rs[m].id # ps[n].id
NoneShared == phase \notin {"unback", "delete"} /\ dropped = {} => Single(res, prev)

Aligned == \A n \in Names : t[n] # 0 => Standing(res[n])

\* An update that ends COMPLETE has brought every resource to its template,
\* if it found each one either FAILED or as its template said.
UpdateAligns ==
    phase = "idle" /\ state = [action |-> "UPDATE", status |-> "COMPLETE"]
        => found = "odd" \/ Aligned

\* A rollback that ends COMPLETE leaves every resource as its template says,
\* if the update it undoes found the stack whole.
RollbackAligns ==
    phase = "idle" /\ state = [action |-> "ROLLBACK", status |-> "COMPLETE"]
        => found # "whole" \/ Aligned

\* A stack nobody works on is IN_PROGRESS only when its operation was cut
\* off, or met a name that only the backup stack has: of the template in a
\* delete, of a row in a rollback.
NobodyWorks ==
    phase = "idle" /\ state.status = "IN_PROGRESS"
        => \/ interrupted
           \/ state.action = "DELETE" /\ Unmatched
           \/ state.action = "ROLLBACK" /\ \E n \in Names : prev[n].saved /\ ~res[n].saved

\* Each operation ends: no task waits for another that will not finish.
Ends == phase # "idle" ~> phase = "idle"
=============================================================================
