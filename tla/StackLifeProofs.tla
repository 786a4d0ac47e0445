-------------------------- MODULE StackLifeProofs --------------------------
(***************************************************************************)
(* Theorems about StackLife, for any names, dependencies, templates and    *)
(* bounds.                                                                 *)
(***************************************************************************)
EXTENDS StackLife, TLAPS

\* What has a row has a name in its template, a definition, and an operation
\* that began; what has no row stands for nothing, and only an update has an
\* object that began without a row.
RowsOK == \A n \in Names :
    /\ res[n].saved => t[n] # 0 /\ res[n].def # 0 /\ ~Gone(res[n])
    /\ prev[n].saved => pt[n] # 0 /\ prev[n].def # 0 /\ ~Gone(prev[n])
    /\ ~res[n].saved => res[n].id = 0
    /\ ~prev[n].saved => prev[n].id = 0
    /\ phase \in {"idle", "unback", "delete"} =>
         /\ ~res[n].saved => Gone(res[n])
         /\ ~prev[n].saved => Gone(prev[n])

\* What the task of the new stack has reached for n.
NewOK == \A n \in Names :
    /\ new[n] # "done" => phase \in {"create", "update"}
    /\ new[n] # "done" /\ phase = "update" => want[n] # 0
    /\ new[n] = "updating" => phase = "update"
    /\ new[n] = "wait" /\ phase = "create" => ~res[n].saved /\ res[n].def # 0 /\ t[n] # 0
    /\ new[n] \in {"creating", "called"} => res[n].saved /\ res[n].id = 0
    /\ new[n] = "cleared" => ~prev[n].saved

\* What the task of the existing stack has reached for n.
OldOK == \A n \in Names :
    /\ old[n] \in {"clearing", "cleared", "removing"} => new[n] = "done"
    /\ old[n] = "clearing" => phase \in {"clean", "update", "purge", "unback"}
    /\ old[n] = "cleared" => phase = "update" /\ ~prev[n].saved
    /\ old[n] = "removing" => phase \in {"update", "delete"} /\ ~prev[n].saved
    /\ old[n] = "removing" /\ phase = "update" => want[n] = 0
    /\ old[n] = "done" /\ phase = "update" /\ want[n] = 0 => ~res[n].saved
    /\ old[n] = "done" /\ phase \in {"clean", "purge", "unback"} => ~prev[n].saved
    /\ old[n] = "done" /\ phase = "delete" => ~res[n].saved
    /\ phase = "purge" /\ want[n] = 0 => ~res[n].saved
    /\ phase = "delete" => ~prev[n].saved

\* What a delete holds in memory: the ids of n, exchanged or not.
HeldOK == \A n \in Names :
    /\ phase = "unback" /\ prev[n].saved => pid[n] \in {prev[n].id, res[n].id}
    /\ phase = "unback" /\ old[n] = "clearing" => prev[n].id = pid[n]
    /\ phase = "delete" /\ old[n] = "removing" => res[n].id = rid[n]

Deleting == phase \in {"unback", "delete"}
InRow(p) == \E n \in Names : \/ res[n].saved /\ res[n].id = p
                             \/ prev[n].saved /\ prev[n].id = p
InMemory(p) == \E n \in Names : \/ rid[n] = p
                                \/ prev[n].saved /\ pid[n] = p
Kept ==
    \A p \in cloud \ (dropped \cup unheard \cup InAir) :
        IF Deleting THEN InMemory(p) ELSE InRow(p)

IInv == RowsOK /\ NewOK /\ OldOK /\ HeldOK /\ Kept

-----------------------------------------------------------------------------
(* Helpers.                                                                *)

LEMMA BlankType == \A d \in Nat : Blank(d) \in Resources
  BY DEF Blank, Resources, Statuses

LEMMA BlankOK ==
  ASSUME NEW d \in Nat
  PROVE  /\ Blank(d).saved = FALSE /\ Blank(d).id = 0 /\ Blank(d).def = d
         /\ Gone(Blank(d))
  BY DEF Blank, Gone

\* Loading keeps the row of what has one and nothing of the rest.
LEMMA LoadedOK ==
  ASSUME NEW rs \in [Names -> Resources], NEW tm \in Ids
  PROVE  /\ Loaded(rs, tm) \in [Names -> Resources]
         /\ \A n \in Names :
              /\ Loaded(rs, tm)[n].saved = rs[n].saved
              /\ Loaded(rs, tm)[n].def = tm[n]
              /\ rs[n].saved => /\ Loaded(rs, tm)[n].id = rs[n].id
                                /\ Gone(Loaded(rs, tm)[n]) = Gone(rs[n])
              /\ ~rs[n].saved => Loaded(rs, tm)[n].id = 0 /\ Gone(Loaded(rs, tm)[n])
<1>1. ASSUME NEW n \in Names
      PROVE  /\ Loaded(rs, tm)[n] \in Resources
             /\ Loaded(rs, tm)[n].saved = rs[n].saved
             /\ Loaded(rs, tm)[n].def = tm[n]
             /\ rs[n].saved => /\ Loaded(rs, tm)[n].id = rs[n].id
                               /\ Gone(Loaded(rs, tm)[n]) = Gone(rs[n])
             /\ ~rs[n].saved => Loaded(rs, tm)[n].id = 0 /\ Gone(Loaded(rs, tm)[n])
  BY <1>1 DEF Loaded, Blank, Gone, Ids, Resources, Statuses
<1>2. Loaded(rs, tm) = [n \in Names |-> Loaded(rs, tm)[n]]
  BY DEF Loaded
<1>3. QED BY <1>1, <1>2

LEMMA FailedOK ==
  ASSUME NEW r \in Resources
  PROVE  /\ Failed(r) \in Resources
         /\ Failed(r).saved = r.saved /\ Failed(r).id = r.id
         /\ Failed(r).def = r.def /\ Gone(Failed(r)) = Gone(r)
  BY DEF Failed, Gone, Resources, Statuses

\* An abort changes only the status of what was worked on.
LEMMA CutOK ==
  ASSUME NEW rs \in [Names -> Resources], NEW mine
  PROVE  /\ Cut(rs, mine) \in [Names -> Resources]
         /\ \A n \in Names : /\ Cut(rs, mine)[n].saved = rs[n].saved
                             /\ Cut(rs, mine)[n].id = rs[n].id
                             /\ Cut(rs, mine)[n].def = rs[n].def
                             /\ Gone(Cut(rs, mine)[n]) = Gone(rs[n])
  BY FailedOK DEF Cut

LEMMA BeganOK ==
  ASSUME NEW r \in Resources, NEW action \in {"CREATE", "UPDATE", "DELETE"}
  PROVE  /\ Began(r, action) \in Resources
         /\ Began(r, action).saved = r.saved /\ Began(r, action).id = r.id
         /\ Began(r, action).def = r.def /\ ~Gone(Began(r, action))
  BY DEF Began, Gone, Resources, Statuses

LEMMA RemovingOK ==
  ASSUME NEW r \in Resources, NEW id \in Nat
  PROVE  /\ Removing(r, id) \in Resources
         /\ Removing(r, id).saved = r.saved /\ Removing(r, id).id = id
         /\ Removing(r, id).def = r.def /\ ~Gone(Removing(r, id))
  BY DEF Removing, Began, Gone, Resources, Statuses

LEMMA StartedOK ==
  ASSUME NEW r \in Resources
  PROVE  /\ Started(r) \in Resources /\ Started(r).saved = TRUE
         /\ Started(r).id = r.id /\ Started(r).def = r.def /\ ~Gone(Started(r))
  BY DEF Started, Began, Gone, Resources, Statuses

\* Done: brought to definition d; made: it has a physical resource.
LEMMA DoneOK ==
  ASSUME NEW r \in Resources, NEW d \in Nat, NEW id \in Nat
  PROVE  /\ [r EXCEPT !.status = "COMPLETE", !.real = r.def] \in Resources
         /\ [r EXCEPT !.status = "COMPLETE", !.def = d, !.real = d] \in Resources
         /\ [r EXCEPT !.id = id] \in Resources
  BY DEF Resources, Statuses

LEMMA CheckedOK ==
  ASSUME NEW r \in Resources, NEW q, q = [r EXCEPT !.status = "COMPLETE", !.real = r.def]
  PROVE  q.saved = r.saved /\ q.id = r.id /\ q.def = r.def /\ Gone(q) = Gone(r)
  BY DEF Resources, Gone

LEMMA MadeOK ==
  ASSUME NEW r \in Resources, NEW i
  PROVE  /\ [r EXCEPT !.id = i].saved = r.saved
         /\ [r EXCEPT !.id = i].id = i
         /\ [r EXCEPT !.id = i].def = r.def
         /\ Gone([r EXCEPT !.id = i]) = Gone(r)
  BY DEF Resources, Gone

\* What goes to the backup stack: UPDATE, COMPLETE, whatever it was.
LEMMA BackedOK ==
  ASSUME NEW r \in Resources
  PROVE  /\ Backed(r) \in Resources
         /\ Backed(r).saved = r.saved /\ Backed(r).id = r.id
         /\ Backed(r).def = r.def /\ ~Gone(Backed(r))
  BY DEF Backed, Gone, Resources, Statuses

LEMMA FieldTypes ==
  ASSUME TypeOK, NEW n \in Names
  PROVE  /\ res[n] \in Resources /\ res[n].id \in Nat /\ res[n].def \in Nat
         /\ prev[n] \in Resources /\ prev[n].id \in Nat /\ prev[n].def \in Nat
         /\ t[n] \in Nat /\ pt[n] \in Nat /\ want[n] \in Nat
         /\ rid[n] \in Nat /\ pid[n] \in Nat
<1>1. res[n] \in Resources /\ prev[n] \in Resources
  BY DEF TypeOK
<1>2. QED
  BY <1>1 DEF TypeOK, Resources, Ids

LEMMA HeldType == ASSUME TypeOK PROVE Held \in SUBSET Nat /\ InAir \in SUBSET Nat
  BY DEF Held, InAir, TypeOK, Ids

-----------------------------------------------------------------------------
(* Types.                                                                  *)

LEMMA FailNewType == ASSUME TypeOK, NEW n \in Names, FailNew(n) PROVE TypeOK'
<1>1. unheard' \in SUBSET Nat
  BY HeldType DEF TypeOK, StopNew, FailNew
<1>2. QED
  BY <1>1, FailedOK DEF TypeOK, Ids, Resources, Statuses, Phases, Running, Ended, stackVars, opVars, StopNew, Fault, FailNew

LEMMA CutNewType == ASSUME TypeOK, NEW n \in Names, CutNew(n) PROVE TypeOK'
<1>1. unheard' \in SUBSET Nat
  BY HeldType DEF TypeOK, StopNew, CutNew
<1>2. QED
  BY <1>1, FailedOK DEF TypeOK, Ids, Resources, Statuses, Phases, Running, Ended, stackVars, opVars, StopNew, Fault, CutNew

LEMMA CreateType == ASSUME TypeOK, NEW n \in Names, Create(n) PROVE TypeOK'
  BY StartedOK DEF TypeOK, Ids, Resources, Statuses, Phases, Running, Ended, stackVars, opVars, histVars, Create

LEMMA HandleCreateType == ASSUME TypeOK, NEW n \in Names, HandleCreate(n) PROVE TypeOK'
<1>1. made' \in Nat /\ cloud' \in SUBSET (1 .. made')
  BY DEF TypeOK, HandleCreate
<1>2. QED
  BY <1>1 DEF TypeOK, Running, Ended, HandleCreate, stackVars, opVars, histVars

LEMMA ResourceIdSetType == ASSUME TypeOK, NEW n \in Names, ResourceIdSet(n) PROVE TypeOK'
<1>1. made \in Nat
  BY DEF TypeOK
<1>2. res' \in [Names -> Resources]
  BY <1>1, FieldTypes, DoneOK DEF TypeOK, ResourceIdSet
<1>3. QED
  BY <1>2 DEF TypeOK, Running, Ended, ResourceIdSet, stackVars, opVars, histVars

LEMMA CheckCreateType == ASSUME TypeOK, NEW n \in Names, CheckCreate(n) PROVE TypeOK'
<1>1. res' \in [Names -> Resources]
  BY FieldTypes, DoneOK DEF TypeOK, CheckCreate
<1>2. QED
  BY <1>1 DEF TypeOK, Running, Ended, CheckCreate, stackVars, opVars, histVars

LEMMA UpToDateType == ASSUME TypeOK, NEW n \in Names, UpToDate(n) PROVE TypeOK'
  BY DEF TypeOK, Ids, Resources, Statuses, Phases, Running, Ended, stackVars, opVars, histVars, UpToDate

LEMMA RefuseUpdateType == ASSUME TypeOK, NEW n \in Names, RefuseUpdate(n) PROVE TypeOK'
  BY DEF TypeOK, Ids, Resources, Statuses, Phases, Running, Ended, stackVars, opVars, histVars, RefuseUpdate

LEMMA UpdateInPlaceType == ASSUME TypeOK, NEW n \in Names, UpdateInPlace(n) PROVE TypeOK'
  BY BeganOK DEF TypeOK, Ids, Resources, Statuses, Phases, Running, Ended, stackVars, opVars, histVars, UpdateInPlace

LEMMA HandleUpdateType == ASSUME TypeOK, NEW n \in Names, HandleUpdate(n) PROVE TypeOK'
<1>1. res' \in [Names -> Resources]
  BY FieldTypes, DoneOK DEF TypeOK, HandleUpdate
<1>2. QED
  BY <1>1 DEF TypeOK, Running, Ended, HandleUpdate, stackVars, opVars, histVars

LEMMA ExchangeType == ASSUME TypeOK, NEW n \in Names, Exchange(n) PROVE TypeOK'
  BY DEF TypeOK, Ids, Resources, Statuses, Phases, Running, Ended, stackVars, opVars, histVars, Exchange

LEMMA ExchangeDiesType == ASSUME TypeOK, NEW n \in Names, ExchangeDies(n) PROVE TypeOK'
  BY DEF TypeOK, Running, Ended, ExchangeDies, stackVars, opVars, histVars

LEMMA ClearFirstType == ASSUME TypeOK, NEW n \in Names, ClearFirst(n) PROVE TypeOK'
<1>1. prev' \in [Names -> Resources]
  BY FieldTypes, RemovingOK DEF TypeOK, ClearFirst
<1>2. QED
  BY <1>1 DEF TypeOK, Running, Ended, ClearFirst, stackVars, opVars, histVars

LEMMA EndClearNewType == ASSUME TypeOK, NEW n \in Names, EndClearNew(n) PROVE TypeOK'
<1>1. prev' = [prev EXCEPT ![n] = Blank(pt[n])] /\ pt[n] \in Nat
  BY FieldTypes DEF EndClearNew
<1>2. prev' \in [Names -> Resources]
  BY <1>1, BlankType DEF TypeOK
<1>3. QED
  BY <1>2 DEF TypeOK, Running, Ended, EndClearNew, stackVars, opVars, histVars

LEMMA ReplaceType == ASSUME TypeOK, NEW n \in Names, Replace(n) PROVE TypeOK'
<1>1. Blank(want[n]) \in Resources
  BY FieldTypes, BlankType
<1>2. res' \in [Names -> Resources]
  BY <1>1, StartedOK DEF TypeOK, Replace
<1>3. prev' \in [Names -> Resources]
  BY FieldTypes, BackedOK DEF TypeOK, Replace
<1>4. t' \in Ids /\ pt' \in Ids
  BY FieldTypes DEF TypeOK, Replace, Ids
<1>5. QED
  BY <1>2, <1>3, <1>4 DEF TypeOK, Running, Ended, Replace, opVars, histVars

LEMMA FailOldType == ASSUME TypeOK, NEW n \in Names, FailOld(n) PROVE TypeOK'
  BY FailedOK DEF TypeOK, Ids, Resources, Statuses, Phases, Running, Ended, stackVars, opVars, histVars, StopOld, Fault, FailOld

LEMMA CutOldType == ASSUME TypeOK, NEW n \in Names, CutOld(n) PROVE TypeOK'
  BY FailedOK DEF TypeOK, Ids, Resources, Statuses, Phases, Running, Ended, stackVars, opVars, histVars, StopOld, CutOld

LEMMA ClearOldType == ASSUME TypeOK, NEW n \in Names, ClearOld(n) PROVE TypeOK'
<1>1. prev' \in [Names -> Resources]
  BY FieldTypes, RemovingOK DEF TypeOK, ClearOld
<1>2. QED
  BY <1>1 DEF TypeOK, Running, Ended, ClearOld, stackVars, opVars, histVars

LEMMA EndClearOldType == ASSUME TypeOK, NEW n \in Names, EndClearOld(n) PROVE TypeOK'
<1>1. prev' = [prev EXCEPT ![n] = Blank(pt[n])] /\ pt[n] \in Nat
  BY FieldTypes DEF EndClearOld
<1>2. prev' \in [Names -> Resources]
  BY <1>1, BlankType DEF TypeOK
<1>3. QED
  BY <1>2 DEF TypeOK, Running, Ended, EndClearOld, stackVars, opVars, histVars

LEMMA KeepOldType == ASSUME TypeOK, NEW n \in Names, KeepOld(n) PROVE TypeOK'
  BY DEF TypeOK, Ids, Resources, Statuses, Phases, Running, Ended, stackVars, opVars, histVars, KeepOld

LEMMA RemoveOldType == ASSUME TypeOK, NEW n \in Names, RemoveOld(n) PROVE TypeOK'
<1>1. res' \in [Names -> Resources]
  BY FieldTypes, RemovingOK DEF TypeOK, RemoveOld
<1>2. QED
  BY <1>1 DEF TypeOK, Running, Ended, RemoveOld, stackVars, opVars, histVars

LEMMA EndRemoveType == ASSUME TypeOK, NEW n \in Names, EndRemove(n) PROVE TypeOK'
<1>1. t' \in Ids
  BY DEF TypeOK, EndRemove, Ids
<1>2. res' = [res EXCEPT ![n] = Blank(t'[n])] /\ t'[n] \in Nat
  BY <1>1 DEF EndRemove, Ids
<1>3. res' \in [Names -> Resources]
  BY <1>2, BlankType DEF TypeOK
<1>4. QED
  BY <1>1, <1>3 DEF TypeOK, Running, Ended, EndRemove, stackVars, opVars, histVars

LEMMA ForgetOldType == ASSUME TypeOK, NEW n \in Names, ForgetOld(n) PROVE TypeOK'
  BY DEF TypeOK, Ids, Resources, Statuses, Phases, Running, Ended, stackVars, opVars, histVars, Blank, ForgetOld

LEMMA LeaveType ==
  ASSUME TypeOK, NEW st, NEW rs \in [Names -> Resources], NEW tm \in Ids,
         NEW ps \in [Names -> Resources], NEW ptm \in Ids,
         st \in [action : {"CREATE", "UPDATE", "ROLLBACK", "DELETE", "GONE"}, status : Statuses],
         Leave(st, rs, tm, ps, ptm), interrupted' \in BOOLEAN, faults' \in Nat
  PROVE  TypeOK'
  BY LoadedOK, HeldType DEF TypeOK, Ended, Leave, Nothing, Ids, Phases

LEMMA EndType ==
  ASSUME TypeOK, NEW s \in Statuses
  PROVE  End(s) \in [action : {"CREATE", "UPDATE", "ROLLBACK", "DELETE", "GONE"}, status : Statuses]
  BY DEF TypeOK, End

LEMMA RollbackType ==
  ASSUME TypeOK, NEW rs \in [Names -> Resources], NEW ps \in [Names -> Resources],
         Rollback(rs, ps), faults' \in Nat
  PROVE  TypeOK'
  BY LoadedOK DEF TypeOK, Ended, Rollback, Present, Ids, Phases, Statuses, histVars

LEMMA UpdateType == ASSUME TypeOK, NEW w \in Templates, NEW u \in BOOLEAN, Update(w, u) PROVE TypeOK'
<1>1. w \in Ids
  BY TemplatesAssumption DEF Ids
<1>2. pt' \in Ids /\ prev' \in [Names -> Resources]
  BY LoadedOK DEF TypeOK, Update
<1>3. found' \in {"whole", "sane", "odd"}
  BY DEF Update
<1>4. old' \in [Names -> {"wait", "done"}]
  BY DEF Update, Removals
<1>5. state' = [action |-> "UPDATE", status |-> "IN_PROGRESS"] /\ phase' = "clean"
  BY DEF Update
<1>6. /\ want' = w /\ orig' = t /\ undo' = u /\ ops' = ops + 1 /\ interrupted' = FALSE
      /\ UNCHANGED <<t, res, cloud, made, new, rid, pid, dropped, unheard, faults>>
  BY DEF Update
<1>7. undo' \in BOOLEAN /\ interrupted' \in BOOLEAN
  BY <1>6, Zenon
<1>8. state' \in [action : {"CREATE", "UPDATE", "ROLLBACK", "DELETE", "GONE"}, status : Statuses]
  BY <1>5 DEF Statuses
<1>9. QED
  BY <1>1, <1>2, <1>3, <1>4, <1>5, <1>6, <1>7, <1>8 DEF TypeOK, Ended, Phases

\* Every crash between two commits leaves what some resources and templates
\* say of n, and the rest as it was.
LEMMA TornLeaves ==
  ASSUME TypeOK, NEW n \in Names, CrashReplacing(n) \/ CrashExchanging(n)
  PROVE  /\ interrupted' = TRUE /\ faults' = faults + 1 /\ phase = "update"
         /\ \E rs, ps \in [Names -> Resources], tm, ptm \in Ids :
              /\ Leave(state, rs, tm, ps, ptm)
              /\ \A m \in Names \ {n} : rs[m] = res[m] /\ ps[m] = prev[m]
              /\ \/ rs[n].id = res[n].id /\ ps[n].id = prev[n].id
                 \/ rs[n].id = prev[n].id /\ ps[n].id = res[n].id
                 \/ rs[n].id = 0 /\ ps[n].id = res[n].id
<1> DEFINE named == [t EXCEPT ![n] = want[n]]
           kept  == [pt EXCEPT ![n] = res[n].def]
           moved == [prev EXCEPT ![n] = Backed(res[n])]
           left  == [res EXCEPT ![n] = Blank(t[n])]
           taken == [res EXCEPT ![n] = prev[n]]
           given == [prev EXCEPT ![n] = res[n]]
<1>1. /\ res \in [Names -> Resources] /\ prev \in [Names -> Resources]
      /\ t \in Ids /\ pt \in Ids /\ t[n] \in Nat /\ want[n] \in Nat /\ res[n].def \in Nat
      /\ Backed(res[n]) \in Resources /\ Blank(t[n]) \in Resources
      /\ Backed(res[n]).id = res[n].id /\ Blank(t[n]).id = 0
  BY FieldTypes, BackedOK, BlankType, BlankOK DEF TypeOK
<1>2. /\ named \in Ids /\ kept \in Ids
      /\ moved \in [Names -> Resources] /\ left \in [Names -> Resources]
      /\ taken \in [Names -> Resources] /\ given \in [Names -> Resources]
  BY <1>1 DEF Ids
<1>3. /\ moved[n].id = res[n].id /\ left[n].id = 0
      /\ taken[n].id = prev[n].id /\ given[n].id = res[n].id
      /\ \A m \in Names \ {n} : /\ moved[m] = prev[m] /\ left[m] = res[m]
                                /\ taken[m] = res[m] /\ given[m] = prev[m]
  BY <1>1
<1>4. CASE CrashReplacing(n)
  <2>1. /\ \/ Leave(state, res, t, prev, kept)
           \/ Leave(state, left, t, moved, kept)
           \/ Leave(state, left, named, moved, kept)
           \/ Leave(state, res, named, prev, pt)
        /\ interrupted' = TRUE /\ faults' = faults + 1 /\ phase = "update"
    BY <1>4 DEF CrashReplacing, Fault, Replaces, NeedsNew
  <2> HIDE DEF named, kept, moved, left
  <2>2. QED
    BY <1>1, <1>2, <1>3, <2>1
<1>5. CASE CrashExchanging(n)
  <2>1. /\ Leave(state, taken, t, given, pt) \/ Leave(state, taken, t, given, kept)
        /\ interrupted' = TRUE /\ faults' = faults + 1 /\ phase = "update"
    BY <1>5 DEF CrashExchanging, Fault, Exchanges, NeedsNew
  <2> HIDE DEF kept, taken, given
  <2>2. QED
    BY <1>1, <1>2, <1>3, <2>1
<1>6. QED BY <1>4, <1>5

\* The actions that start, end or interrupt an operation.
LEMMA PhaseType ==
  ASSUME TypeOK,
         PhaseEnds \/ Request \/ Timeout \/ CancelUpdate \/ Kill \/ Crashes
  PROVE  TypeOK'
<1>1. /\ res \in [Names -> Resources] /\ prev \in [Names -> Resources]
      /\ t \in Ids /\ pt \in Ids /\ want \in Ids /\ Nothing \in Ids
      /\ interrupted \in BOOLEAN /\ TRUE \in BOOLEAN
      /\ faults \in Nat /\ faults + 1 \in Nat
  BY DEF TypeOK, Nothing, Ids
<1>2. /\ state \in [action : {"CREATE", "UPDATE", "ROLLBACK", "DELETE", "GONE"}, status : Statuses]
      /\ End("COMPLETE") \in [action : {"CREATE", "UPDATE", "ROLLBACK", "DELETE", "GONE"}, status : Statuses]
      /\ End("FAILED") \in [action : {"CREATE", "UPDATE", "ROLLBACK", "DELETE", "GONE"}, status : Statuses]
      /\ [action |-> "GONE", status |-> "COMPLETE"]
           \in [action : {"CREATE", "UPDATE", "ROLLBACK", "DELETE", "GONE"}, status : Statuses]
  BY EndType DEF TypeOK, Statuses
<1>3. /\ Cut(res, OnRes) \in [Names -> Resources]
      /\ Cut(prev, OnPrev) \in [Names -> Resources]
  BY <1>1, CutOK
<1>4. CASE CreateEnds
  <2>1. CASE AllDone
    BY <1>1, <1>2, <1>4, <2>1, LeaveType DEF CreateEnds
  <2>2. CASE ~AllDone
    BY <1>1, <1>2, <1>4, <2>2, LeaveType DEF CreateEnds
  <2>3. QED BY <2>1, <2>2
<1>5. CASE CleanEnds
  BY <1>5 DEF CleanEnds, TypeOK, Ended, Present, Phases, stackVars, histVars
<1>6. CASE UpdateFails
  <2>1. CASE state.action = "UPDATE" /\ undo
    BY <1>1, <1>6, <2>1, RollbackType DEF UpdateFails
  <2>2. CASE ~(state.action = "UPDATE" /\ undo)
    BY <1>1, <1>2, <1>6, <2>2, LeaveType DEF UpdateFails
  <2>3. QED BY <2>1, <2>2
<1>7. CASE UpdateEnds
  BY <1>7 DEF UpdateEnds, TypeOK, Ended, Removals, Phases, stackVars, histVars
<1>8. CASE PurgeEnds
  <2>1. CASE AllDone
    BY <1>1, <1>2, <1>8, <2>1, LeaveType DEF PurgeEnds
  <2>2. CASE ~AllDone
    BY <1>1, <1>2, <1>8, <2>2, LeaveType DEF PurgeEnds
  <2>3. QED BY <2>1, <2>2
<1>9. CASE UnbackEnds
  <2>1. prev' \in [Names -> Resources] /\ pt' \in Ids
    BY <1>1, <1>9, BlankType DEF UnbackEnds
  <2>2. QED
    BY <1>9, <2>1 DEF UnbackEnds, TypeOK, Ended, Removals, Phases, histVars
<1>10. CASE DeleteEnds
  BY <1>1, <1>2, <1>10, LeaveType DEF DeleteEnds
<1>11. CASE DeleteFails
  BY <1>1, <1>2, <1>11, LeaveType DEF DeleteFails
<1>12. CASE Request
  <2>1. CASE \E w \in Templates, u \in BOOLEAN : Update(w, u)
    BY <2>1, UpdateType
  <2>2. CASE RejectUpdate
    <3>1. /\ state' = [action |-> "UPDATE", status |-> "FAILED"]
          /\ ops' = ops + 1 /\ interrupted' = FALSE /\ found' = "odd"
          /\ UNCHANGED <<t, pt, res, prev, cloud, made, new, old,
                         phase, want, orig, undo, rid, pid, dropped, unheard, faults>>
      BY <2>2 DEF RejectUpdate
    <3>2. /\ state' \in [action : {"CREATE", "UPDATE", "ROLLBACK", "DELETE", "GONE"}, status : Statuses]
          /\ found' \in {"whole", "sane", "odd"}
      BY <3>1 DEF Statuses
    <3>3. undo' \in BOOLEAN /\ interrupted' \in BOOLEAN
      BY <3>1, Zenon DEF TypeOK
    <3>4. ops' \in Nat
      BY <3>1 DEF TypeOK
    <3>5. QED
      BY <3>1, <3>2, <3>3, <3>4 DEF TypeOK
  <2>3. CASE Delete
    <3>1. rid' \in Ids /\ pid' \in Ids
      BY <2>3, FieldTypes DEF Delete, Ids
    <3>2. old' \in [Names -> {"wait", "done"}]
      BY <2>3 DEF Delete, Removals
    <3>3. state' \in [action : {"CREATE", "UPDATE", "ROLLBACK", "DELETE", "GONE"}, status : Statuses]
      BY <2>3 DEF Delete, Statuses
    <3>4. /\ phase' \in {"unback", "delete"} /\ ops' = ops + 1 /\ interrupted' = FALSE
          /\ UNCHANGED <<t, pt, res, prev, cloud, made, new, want, orig, undo, dropped, unheard, found, faults>>
      BY <2>3 DEF Delete
    <3>5. undo' \in BOOLEAN /\ interrupted' \in BOOLEAN
      BY <3>4, Zenon DEF TypeOK
    <3>6. ops' \in Nat
      BY <3>4 DEF TypeOK
    <3>7. QED
      BY <3>1, <3>2, <3>3, <3>4, <3>5, <3>6 DEF TypeOK, Ended, Phases
  <2>4. CASE DeleteDies
    <3>1. /\ state' = [action |-> "DELETE", status |-> "IN_PROGRESS"]
          /\ ops' = ops + 1 /\ interrupted' = FALSE
          /\ UNCHANGED <<t, pt, res, prev, cloud, made, new, old,
                         phase, want, orig, undo, rid, pid, dropped, unheard, found, faults>>
      BY <2>4 DEF DeleteDies
    <3>2. state' \in [action : {"CREATE", "UPDATE", "ROLLBACK", "DELETE", "GONE"}, status : Statuses]
      BY <3>1 DEF Statuses
    <3>3. undo' \in BOOLEAN /\ interrupted' \in BOOLEAN
      BY <3>1, Zenon DEF TypeOK
    <3>4. ops' \in Nat
      BY <3>1 DEF TypeOK
    <3>5. QED
      BY <3>1, <3>2, <3>3, <3>4 DEF TypeOK
  <2>5. QED BY <1>12, <2>1, <2>2, <2>3, <2>4 DEF Request
<1>13. CASE Timeout
  <2>1. CASE phase = "purge"
    BY <1>1, <1>2, <1>3, <1>13, <2>1, LeaveType DEF Timeout, Fault
  <2>2. CASE phase # "purge"
    BY <1>1, <1>2, <1>3, <1>13, <2>2, LeaveType DEF Timeout, Fault
  <2>3. QED BY <2>1, <2>2
<1>14. CASE CancelUpdate
  BY <1>1, <1>3, <1>14, RollbackType DEF CancelUpdate, Fault
<1>15. CASE Kill
  BY <1>1, <1>2, <1>3, <1>15, LeaveType DEF Kill, Fault
<1>16. CASE Crash
  BY <1>1, <1>2, <1>16, LeaveType DEF Crash, Fault
<1>17. CASE UpdateDies
  BY <1>1, <1>2, <1>17, LeaveType DEF UpdateDies
<1>18. ASSUME NEW n \in Names, CrashReplacing(n) \/ CrashExchanging(n) PROVE TypeOK'
  BY <1>1, <1>2, <1>18, TornLeaves, LeaveType
<1>19. QED
  BY <1>4, <1>5, <1>6, <1>7, <1>8, <1>9, <1>10, <1>11, <1>12, <1>13, <1>14, <1>15, <1>16,
     <1>17, <1>18
  DEF PhaseEnds, Crashes

LEMMA TypeInit == Init => TypeOK
<1>1. SUFFICES ASSUME Init PROVE TypeOK
  OBVIOUS
<1>2. t \in Ids /\ Nothing \in Ids
  BY <1>1, TemplatesAssumption DEF Init, Ids, Nothing
<1>3. res \in [Names -> Resources] /\ prev \in [Names -> Resources]
  BY <1>1, <1>2, BlankType DEF Init, Ids
<1>4. cloud \in SUBSET (1 .. made)
  BY <1>1 DEF Init
<1>5. QED
  BY <1>1, <1>2, <1>3, <1>4 DEF Init, TypeOK, Ended, Statuses, Phases

LEMMA TypeNext == TypeOK /\ [Next]_vars => TypeOK'
<1> SUFFICES ASSUME TypeOK, [Next]_vars PROVE TypeOK'
  OBVIOUS
<1>2. ASSUME NEW n \in Names, NewTask(n) PROVE TypeOK'
  <2>1. CASE Create(n)
    BY <2>1, CreateType
  <2>2. CASE HandleCreate(n)
    BY <2>2, HandleCreateType
  <2>3. CASE CheckCreate(n)
    BY <2>3, CheckCreateType
  <2>4. CASE UpToDate(n)
    BY <2>4, UpToDateType
  <2>5. CASE RefuseUpdate(n)
    BY <2>5, RefuseUpdateType
  <2>6. CASE UpdateInPlace(n)
    BY <2>6, UpdateInPlaceType
  <2>7. CASE HandleUpdate(n)
    BY <2>7, HandleUpdateType
  <2>8. CASE Exchange(n)
    BY <2>8, ExchangeType
  <2>9. CASE ClearFirst(n)
    BY <2>9, ClearFirstType
  <2>10. CASE EndClearNew(n)
    BY <2>10, EndClearNewType
  <2>11. CASE Replace(n)
    BY <2>11, ReplaceType
  <2>12. CASE CutNew(n)
    BY <2>12, CutNewType
  <2>13. CASE ResourceIdSet(n)
    BY <2>13, ResourceIdSetType
  <2>14. CASE ExchangeDies(n)
    BY <2>14, ExchangeDiesType
  <2>15. QED
    BY <1>2, <2>1, <2>2, <2>3, <2>4, <2>5, <2>6, <2>7, <2>8, <2>9, <2>10, <2>11, <2>12,
       <2>13, <2>14 DEF NewTask
<1>3. ASSUME NEW n \in Names, OldTask(n) PROVE TypeOK'
  <2>1. CASE ClearOld(n)
    BY <2>1, ClearOldType
  <2>2. CASE EndClearOld(n)
    BY <2>2, EndClearOldType
  <2>3. CASE KeepOld(n)
    BY <2>3, KeepOldType
  <2>4. CASE RemoveOld(n)
    BY <2>4, RemoveOldType
  <2>5. CASE EndRemove(n)
    BY <2>5, EndRemoveType
  <2>6. CASE ForgetOld(n)
    BY <2>6, ForgetOldType
  <2>7. CASE CutOld(n)
    BY <2>7, CutOldType
  <2>8. QED
    BY <1>3, <2>1, <2>2, <2>3, <2>4, <2>5, <2>6, <2>7 DEF OldTask
<1>4. ASSUME NEW n \in Names, FailNew(n) \/ FailOld(n) PROVE TypeOK'
  <2>1. CASE FailNew(n)
    BY <2>1, FailNewType
  <2>2. CASE FailOld(n)
    BY <2>2, FailOldType
  <2>3. QED
    BY <1>4, <2>1, <2>2
<1>5. CASE UNCHANGED vars
  <2>1. /\ UNCHANGED <<state, t, pt, res, prev, cloud, made, phase, want, orig, undo>>
        /\ UNCHANGED <<new, old, rid, pid, ops, faults, dropped, unheard, interrupted, found>>
    BY <1>5 DEF vars, stackVars, opVars, histVars
  <2>2. undo' \in BOOLEAN /\ interrupted' \in BOOLEAN
    BY <2>1, Zenon DEF TypeOK
  <2>3. QED
    BY <2>1, <2>2 DEF TypeOK
<1>6. QED
  BY <1>2, <1>3, <1>4, <1>5, PhaseType, Zenon DEF Next, Work, Fails

\* Every step keeps the types.
THEOREM TypeCorrect == Spec => []TypeOK
  BY TypeInit, TypeNext, PTL DEF Spec
-----------------------------------------------------------------------------
(* The invariant.  Each lemma about a task says first what the step does to  *)
(* n, then why each part of IInv survives it.                              *)

\* A task touches one name, and nothing of the operation around it.
Aside(n) ==
    /\ \A m \in Names \ {n} :
         /\ res'[m] = res[m] /\ prev'[m] = prev[m]
         /\ new'[m] = new[m] /\ old'[m] = old[m]
         /\ t'[m] = t[m] /\ pt'[m] = pt[m]
    /\ UNCHANGED <<phase, want, rid, pid, dropped, unheard>>

LEMMA AirKept ==
  ASSUME NEW n \in Names, Aside(n), made' = made, new'[n] = "called" <=> new[n] = "called"
  PROVE  InAir' = InAir
  BY DEF InAir, AtYield, Aside

LEMMA CreateKeeps == ASSUME TypeOK, IInv, NEW n \in Names, Create(n) PROVE IInv'
<1>1. Aside(n)
  BY DEF TypeOK, Aside, Create, stackVars, opVars, histVars
<1>2. /\ new[n] = "wait" /\ phase = "create"
      /\ res'[n].saved /\ res'[n].id = res[n].id
      /\ res'[n].def = res[n].def /\ ~Gone(res'[n])
      /\ prev'[n] = prev[n]
      /\ new'[n] = "creating" /\ old'[n] = old[n]
      /\ t'[n] = t[n] /\ pt'[n] = pt[n]
      /\ cloud' = cloud
  <2>1. res'[n] = Started(res[n])
    BY DEF TypeOK, Create
  <2>5. res[n] \in Resources
    BY FieldTypes
  <2>2. /\ res'[n].saved /\ res'[n].id = res[n].id
        /\ res'[n].def = res[n].def /\ ~Gone(res'[n])
    BY <2>1, <2>5, StartedOK
  <2>3. /\ new[n] = "wait" /\ phase = "create"
        /\ prev'[n] = prev[n]
        /\ new'[n] = "creating" /\ old'[n] = old[n]
        /\ t'[n] = t[n] /\ pt'[n] = pt[n]
        /\ cloud' = cloud
    BY FieldTypes DEF TypeOK, Ids, Create, StartsNew, stackVars, opVars
  <2>4. QED
    BY <2>2, <2>3
<1>3. RowsOK'
  BY <1>1, <1>2 DEF IInv, RowsOK, NewOK, OldOK, Aside
<1>4. NewOK'
  BY <1>1, <1>2 DEF IInv, RowsOK, NewOK, OldOK, Aside
<1>5. OldOK'
  BY <1>1, <1>2 DEF IInv, RowsOK, NewOK, OldOK, Aside
<1>6. HeldOK'
  BY <1>1, <1>2 DEF IInv, RowsOK, NewOK, OldOK, HeldOK, Aside
<1>7. Kept'
  <2>1. InAir' = InAir
    BY <1>1, <1>2, AirKept DEF Create
  <2>2. QED
    BY <1>1, <1>2, <2>1 DEF IInv, RowsOK, NewOK, OldOK, HeldOK, Kept, Deleting, InRow, InMemory, Aside, TypeOK
<1>8. QED
  BY <1>3, <1>4, <1>5, <1>6, <1>7 DEF IInv

LEMMA HandleCreateKeeps == ASSUME TypeOK, IInv, NEW n \in Names, Alone(n), HandleCreate(n) PROVE IInv'
<1>1. Aside(n)
  BY DEF TypeOK, Aside, HandleCreate, stackVars, opVars, histVars
<1>2. /\ new[n] = "creating" /\ res'[n] = res[n] /\ prev'[n] = prev[n]
      /\ new'[n] = "called" /\ old'[n] = old[n]
      /\ t'[n] = t[n] /\ pt'[n] = pt[n]
      /\ made' = made + 1 /\ cloud' = cloud \cup {made + 1}
  BY FieldTypes DEF TypeOK, Ids, HandleCreate, stackVars, opVars
<1>3. RowsOK'
  BY <1>1, <1>2 DEF IInv, RowsOK, NewOK, OldOK, Aside
<1>4. NewOK'
  BY <1>1, <1>2 DEF IInv, RowsOK, NewOK, OldOK, Aside
<1>5. OldOK'
  BY <1>1, <1>2 DEF IInv, RowsOK, NewOK, OldOK, Aside
<1>6. HeldOK'
  BY <1>1, <1>2 DEF IInv, RowsOK, NewOK, OldOK, HeldOK, Aside
<1>7. Kept'
  <2>1. ~Deleting /\ ~Deleting'
    BY <1>1, <1>2 DEF IInv, NewOK, Deleting, Aside
  <2>2. InAir = {} /\ InAir' = {made + 1}
    BY <1>2 DEF InAir, AtYield, Alone
  <2>3. \A p : InRow(p) => InRow(p)'
    BY <1>1, <1>2 DEF InRow, Aside
  <2>4. dropped' = dropped /\ unheard' = unheard
    BY <1>1 DEF Aside
  <2>5. QED
    BY <1>2, <2>1, <2>2, <2>3, <2>4 DEF IInv, Kept
<1>8. QED
  BY <1>3, <1>4, <1>5, <1>6, <1>7 DEF IInv

LEMMA ResourceIdSetKeeps == ASSUME TypeOK, IInv, NEW n \in Names, ResourceIdSet(n) PROVE IInv'
<1>1. Aside(n)
  BY DEF TypeOK, Aside, ResourceIdSet, stackVars, opVars, histVars
<1>2. /\ new[n] = "called"
      /\ res'[n].saved = res[n].saved /\ res'[n].id = made
      /\ res'[n].def = res[n].def /\ Gone(res'[n]) = Gone(res[n])
      /\ prev'[n] = prev[n]
      /\ new'[n] = "checking" /\ old'[n] = old[n]
      /\ t'[n] = t[n] /\ pt'[n] = pt[n]
      /\ cloud' = cloud
  <2>1. res'[n] = [res[n] EXCEPT !.id = made]
    BY DEF TypeOK, ResourceIdSet
  <2>5. res[n] \in Resources
    BY FieldTypes
  <2>2. /\ res'[n].saved = res[n].saved /\ res'[n].id = made
        /\ res'[n].def = res[n].def /\ Gone(res'[n]) = Gone(res[n])
    BY <2>1, <2>5, MadeOK
  <2>3. /\ new[n] = "called"
        /\ prev'[n] = prev[n]
        /\ new'[n] = "checking" /\ old'[n] = old[n]
        /\ t'[n] = t[n] /\ pt'[n] = pt[n]
        /\ cloud' = cloud
    BY FieldTypes DEF TypeOK, Ids, ResourceIdSet, stackVars, opVars
  <2>4. QED
    BY <2>2, <2>3
<1>3. RowsOK'
  BY <1>1, <1>2 DEF IInv, RowsOK, NewOK, OldOK, Aside
<1>4. NewOK'
  BY <1>1, <1>2 DEF IInv, RowsOK, NewOK, OldOK, Aside
<1>5. OldOK'
  BY <1>1, <1>2 DEF IInv, RowsOK, NewOK, OldOK, Aside
<1>6. HeldOK'
  BY <1>1, <1>2 DEF IInv, RowsOK, NewOK, OldOK, HeldOK, Aside
<1>7. Kept'
  <2>1. ~Deleting /\ ~Deleting'
    BY <1>1, <1>2 DEF IInv, NewOK, Deleting, Aside
  <2>2. ASSUME NEW p \in cloud' \ (dropped' \cup unheard'), p # made PROVE InRow(p)'
    <3>1. p \in cloud \ (dropped \cup unheard \cup InAir) /\ p # 0
      BY <1>1, <1>2, <2>2 DEF TypeOK, Aside, InAir
    <3>2. PICK m \in Names : (res[m].saved /\ res[m].id = p) \/ (prev[m].saved /\ prev[m].id = p)
      BY <2>1, <3>1 DEF IInv, Kept, InRow
    <3>3. QED
      BY <1>1, <1>2, <3>1, <3>2 DEF IInv, NewOK, Aside, InRow
  <2>3. InRow(made)'
    <3>1. made' = made
      BY DEF ResourceIdSet
    <3>2. QED
      BY <1>2, <3>1 DEF IInv, NewOK, InRow
  <2>4. made' = made
    BY DEF ResourceIdSet
  <2>5. QED
    BY <2>1, <2>2, <2>3, <2>4 DEF Kept
<1>8. QED
  BY <1>3, <1>4, <1>5, <1>6, <1>7 DEF IInv

LEMMA CheckCreateKeeps == ASSUME TypeOK, IInv, NEW n \in Names, CheckCreate(n) PROVE IInv'
<1>1. Aside(n)
  BY DEF TypeOK, Aside, CheckCreate, stackVars, opVars, histVars
<1>2. /\ new[n] = "checking"
      /\ res'[n].saved = res[n].saved /\ res'[n].id = res[n].id
      /\ res'[n].def = res[n].def /\ Gone(res'[n]) = Gone(res[n])
      /\ prev'[n] = prev[n]
      /\ new'[n] = "done" /\ old'[n] = old[n]
      /\ t'[n] = t[n] /\ pt'[n] = pt[n]
      /\ cloud' = cloud
  <2>1. res'[n] = [res[n] EXCEPT !.status = "COMPLETE", !.real = res[n].def]
    BY DEF TypeOK, CheckCreate
  <2>5. res[n] \in Resources
    BY FieldTypes
  <2>2. /\ res'[n].saved = res[n].saved /\ res'[n].id = res[n].id
        /\ res'[n].def = res[n].def /\ Gone(res'[n]) = Gone(res[n])
    BY <2>1, <2>5, CheckedOK
  <2>3. /\ new[n] = "checking"
        /\ prev'[n] = prev[n]
        /\ new'[n] = "done" /\ old'[n] = old[n]
        /\ t'[n] = t[n] /\ pt'[n] = pt[n]
        /\ cloud' = cloud
    BY FieldTypes DEF TypeOK, Ids, CheckCreate, stackVars, opVars
  <2>4. QED
    BY <2>2, <2>3
<1>3. RowsOK'
  BY <1>1, <1>2 DEF IInv, RowsOK, NewOK, OldOK, Aside
<1>4. NewOK'
  BY <1>1, <1>2 DEF IInv, RowsOK, NewOK, OldOK, Aside
<1>5. OldOK'
  BY <1>1, <1>2 DEF IInv, RowsOK, NewOK, OldOK, Aside
<1>6. HeldOK'
  BY <1>1, <1>2 DEF IInv, RowsOK, NewOK, OldOK, HeldOK, Aside
<1>7. Kept'
  <2>1. InAir' = InAir
    BY <1>1, <1>2, AirKept DEF CheckCreate
  <2>2. QED
    BY <1>1, <1>2, <2>1 DEF IInv, RowsOK, NewOK, OldOK, HeldOK, Kept, Deleting, InRow, InMemory, Aside, TypeOK
<1>8. QED
  BY <1>3, <1>4, <1>5, <1>6, <1>7 DEF IInv

LEMMA UpToDateKeeps == ASSUME TypeOK, IInv, NEW n \in Names, UpToDate(n) PROVE IInv'
<1>1. Aside(n)
  BY DEF TypeOK, Aside, UpToDate, stackVars, opVars, histVars
<1>2. /\ new[n] = "wait" /\ phase = "update"
      /\ res'[n] = res[n]
      /\ prev'[n] = prev[n]
      /\ new'[n] = "done" /\ old'[n] = old[n]
      /\ t'[n] = t[n] /\ pt'[n] = pt[n]
      /\ cloud' = cloud
  BY FieldTypes DEF TypeOK, Ids, UpToDate, StartsNew, stackVars, opVars
<1>3. RowsOK'
  BY <1>1, <1>2 DEF IInv, RowsOK, NewOK, OldOK, Aside
<1>4. NewOK'
  BY <1>1, <1>2 DEF IInv, RowsOK, NewOK, OldOK, Aside
<1>5. OldOK'
  BY <1>1, <1>2 DEF IInv, RowsOK, NewOK, OldOK, Aside
<1>6. HeldOK'
  BY <1>1, <1>2 DEF IInv, RowsOK, NewOK, OldOK, HeldOK, Aside
<1>7. Kept'
  <2>1. InAir' = InAir
    BY <1>1, <1>2, AirKept DEF UpToDate
  <2>2. QED
    BY <1>1, <1>2, <2>1 DEF IInv, RowsOK, NewOK, OldOK, HeldOK, Kept, Deleting, InRow, InMemory, Aside, TypeOK
<1>8. QED
  BY <1>3, <1>4, <1>5, <1>6, <1>7 DEF IInv

LEMMA RefuseUpdateKeeps == ASSUME TypeOK, IInv, NEW n \in Names, RefuseUpdate(n) PROVE IInv'
<1>1. Aside(n)
  BY DEF TypeOK, Aside, RefuseUpdate, stackVars, opVars, histVars
<1>2. /\ new[n] = "wait" /\ phase = "update"
      /\ res'[n] = res[n]
      /\ prev'[n] = prev[n]
      /\ new'[n] = "failed" /\ old'[n] = old[n]
      /\ t'[n] = t[n] /\ pt'[n] = pt[n]
      /\ cloud' = cloud
  BY FieldTypes DEF TypeOK, Ids, RefuseUpdate, StartsNew, stackVars, opVars
<1>3. RowsOK'
  BY <1>1, <1>2 DEF IInv, RowsOK, NewOK, OldOK, Aside
<1>4. NewOK'
  BY <1>1, <1>2 DEF IInv, RowsOK, NewOK, OldOK, Aside
<1>5. OldOK'
  BY <1>1, <1>2 DEF IInv, RowsOK, NewOK, OldOK, Aside
<1>6. HeldOK'
  BY <1>1, <1>2 DEF IInv, RowsOK, NewOK, OldOK, HeldOK, Aside
<1>7. Kept'
  <2>1. InAir' = InAir
    BY <1>1, <1>2, AirKept DEF RefuseUpdate
  <2>2. QED
    BY <1>1, <1>2, <2>1 DEF IInv, RowsOK, NewOK, OldOK, HeldOK, Kept, Deleting, InRow, InMemory, Aside, TypeOK
<1>8. QED
  BY <1>3, <1>4, <1>5, <1>6, <1>7 DEF IInv

LEMMA UpdateInPlaceKeeps == ASSUME TypeOK, IInv, NEW n \in Names, UpdateInPlace(n) PROVE IInv'
<1>1. Aside(n)
  BY DEF TypeOK, Aside, UpdateInPlace, stackVars, opVars, histVars
<1>2. /\ new[n] = "wait" /\ phase = "update"
      /\ res'[n].saved = res[n].saved /\ res'[n].id = res[n].id
      /\ res'[n].def = res[n].def /\ ~Gone(res'[n])
      /\ prev'[n] = prev[n]
      /\ new'[n] = "updating" /\ old'[n] = old[n]
      /\ t'[n] = t[n] /\ pt'[n] = pt[n]
      /\ cloud' = cloud
  <2>1. res'[n] = Began(res[n], "UPDATE")
    BY DEF TypeOK, UpdateInPlace
  <2>5. res[n] \in Resources
    BY FieldTypes
  <2>2. /\ res'[n].saved = res[n].saved /\ res'[n].id = res[n].id
        /\ res'[n].def = res[n].def /\ ~Gone(res'[n])
    BY <2>1, <2>5, BeganOK
  <2>3. /\ new[n] = "wait" /\ phase = "update"
        /\ prev'[n] = prev[n]
        /\ new'[n] = "updating" /\ old'[n] = old[n]
        /\ t'[n] = t[n] /\ pt'[n] = pt[n]
        /\ cloud' = cloud
    BY FieldTypes DEF TypeOK, Ids, UpdateInPlace, StartsNew, stackVars, opVars
  <2>4. QED
    BY <2>2, <2>3
<1>3. RowsOK'
  BY <1>1, <1>2 DEF IInv, RowsOK, NewOK, OldOK, Aside
<1>4. NewOK'
  BY <1>1, <1>2 DEF IInv, RowsOK, NewOK, OldOK, Aside
<1>5. OldOK'
  BY <1>1, <1>2 DEF IInv, RowsOK, NewOK, OldOK, Aside
<1>6. HeldOK'
  BY <1>1, <1>2 DEF IInv, RowsOK, NewOK, OldOK, HeldOK, Aside
<1>7. Kept'
  <2>1. InAir' = InAir
    BY <1>1, <1>2, AirKept DEF UpdateInPlace
  <2>2. QED
    BY <1>1, <1>2, <2>1 DEF IInv, RowsOK, NewOK, OldOK, HeldOK, Kept, Deleting, InRow, InMemory, Aside, TypeOK
<1>8. QED
  BY <1>3, <1>4, <1>5, <1>6, <1>7 DEF IInv

LEMMA HandleUpdateKeeps == ASSUME TypeOK, IInv, NEW n \in Names, HandleUpdate(n) PROVE IInv'
<1>1. Aside(n)
  BY DEF TypeOK, Aside, HandleUpdate, stackVars, opVars, histVars
<1>2. /\ new[n] = "updating"
      /\ res'[n].saved = res[n].saved /\ res'[n].id = res[n].id
      /\ res'[n].def = want[n] /\ Gone(res'[n]) = Gone(res[n])
      /\ prev'[n] = prev[n]
      /\ new'[n] = "done" /\ old'[n] = old[n]
      /\ t'[n] = t[n] /\ pt'[n] = pt[n]
      /\ cloud' = cloud
  <2>1. res'[n] = [res[n] EXCEPT !.status = "COMPLETE", !.def = want[n], !.real = want[n]]
    BY DEF TypeOK, HandleUpdate
  <2>5. res[n] \in Resources
    BY FieldTypes
  <2>2. /\ res'[n].saved = res[n].saved /\ res'[n].id = res[n].id
        /\ res'[n].def = want[n] /\ Gone(res'[n]) = Gone(res[n])
    BY <2>1, <2>5 DEF Resources, Gone
  <2>3. /\ new[n] = "updating"
        /\ prev'[n] = prev[n]
        /\ new'[n] = "done" /\ old'[n] = old[n]
        /\ t'[n] = t[n] /\ pt'[n] = pt[n]
        /\ cloud' = cloud
    BY FieldTypes DEF TypeOK, Ids, HandleUpdate, stackVars, opVars
  <2>4. QED
    BY <2>2, <2>3
<1>3. RowsOK'
  BY <1>1, <1>2 DEF IInv, RowsOK, NewOK, OldOK, Aside
<1>4. NewOK'
  BY <1>1, <1>2 DEF IInv, RowsOK, NewOK, OldOK, Aside
<1>5. OldOK'
  BY <1>1, <1>2 DEF IInv, RowsOK, NewOK, OldOK, Aside
<1>6. HeldOK'
  BY <1>1, <1>2 DEF IInv, RowsOK, NewOK, OldOK, HeldOK, Aside
<1>7. Kept'
  <2>1. InAir' = InAir
    BY <1>1, <1>2, AirKept DEF HandleUpdate
  <2>2. QED
    BY <1>1, <1>2, <2>1 DEF IInv, RowsOK, NewOK, OldOK, HeldOK, Kept, Deleting, InRow, InMemory, Aside, TypeOK
<1>8. QED
  BY <1>3, <1>4, <1>5, <1>6, <1>7 DEF IInv

LEMMA ExchangeKeeps == ASSUME TypeOK, IInv, NEW n \in Names, Exchange(n) PROVE IInv'
<1>1. Aside(n)
  BY DEF TypeOK, Aside, Exchange, stackVars, opVars, histVars
<1>2. /\ new[n] \in {"wait", "updating"} /\ phase = "update"
      /\ res[n].saved /\ prev[n].saved
      /\ res'[n] = prev[n]
      /\ prev'[n] = res[n]
      /\ new'[n] = "done" /\ old'[n] = old[n]
      /\ t'[n] = prev[n].def /\ pt'[n] = res[n].def
      /\ cloud' = cloud
  BY FieldTypes DEF TypeOK, Ids, Exchange, Exchanges, NeedsNew, StartsNew, stackVars, opVars
<1>3. RowsOK'
  BY <1>1, <1>2 DEF IInv, RowsOK, NewOK, OldOK, Aside
<1>4. NewOK'
  BY <1>1, <1>2 DEF IInv, RowsOK, NewOK, OldOK, Aside
<1>5. OldOK'
  BY <1>1, <1>2 DEF IInv, RowsOK, NewOK, OldOK, Aside
<1>6. HeldOK'
  BY <1>1, <1>2 DEF IInv, RowsOK, NewOK, OldOK, HeldOK, Aside
<1>7. Kept'
  <2>1. InAir' = InAir
    BY <1>1, <1>2, AirKept DEF Exchange
  <2>2. QED
    BY <1>1, <1>2, <2>1 DEF IInv, RowsOK, NewOK, OldOK, HeldOK, Kept, Deleting, InRow, InMemory, Aside, TypeOK
<1>8. QED
  BY <1>3, <1>4, <1>5, <1>6, <1>7 DEF IInv

LEMMA ExchangeDiesKeeps == ASSUME TypeOK, IInv, NEW n \in Names, ExchangeDies(n) PROVE IInv'
<1>1. Aside(n)
  BY DEF TypeOK, Aside, ExchangeDies, stackVars, opVars, histVars
<1>2. /\ new[n] \in {"wait", "updating"} /\ phase = "update"
      /\ res'[n] = res[n]
      /\ prev'[n] = prev[n]
      /\ new'[n] = "died" /\ old'[n] = old[n]
      /\ t'[n] = t[n] /\ pt'[n] = pt[n]
      /\ cloud' = cloud
  BY FieldTypes DEF TypeOK, Ids, ExchangeDies, NeedsNew, StartsNew, stackVars, opVars
<1>3. RowsOK'
  BY <1>1, <1>2 DEF IInv, RowsOK, NewOK, OldOK, Aside
<1>4. NewOK'
  BY <1>1, <1>2 DEF IInv, RowsOK, NewOK, OldOK, Aside
<1>5. OldOK'
  BY <1>1, <1>2 DEF IInv, RowsOK, NewOK, OldOK, Aside
<1>6. HeldOK'
  BY <1>1, <1>2 DEF IInv, RowsOK, NewOK, OldOK, HeldOK, Aside
<1>7. Kept'
  <2>1. InAir' = InAir
    BY <1>1, <1>2, AirKept DEF ExchangeDies
  <2>2. QED
    BY <1>1, <1>2, <2>1 DEF IInv, RowsOK, NewOK, OldOK, HeldOK, Kept, Deleting, InRow, InMemory, Aside, TypeOK
<1>8. QED
  BY <1>3, <1>4, <1>5, <1>6, <1>7 DEF IInv

LEMMA ClearFirstKeeps == ASSUME TypeOK, IInv, NEW n \in Names, ClearFirst(n) PROVE IInv'
<1>1. Aside(n)
  BY DEF TypeOK, Aside, ClearFirst, stackVars, opVars, histVars
<1>2. /\ new[n] \in {"wait", "updating"} /\ phase = "update"
      /\ ~Gone(prev[n])
      /\ res'[n] = res[n]
      /\ prev'[n].saved = prev[n].saved /\ prev'[n].id = prev[n].id
      /\ prev'[n].def = prev[n].def /\ ~Gone(prev'[n])
      /\ new'[n] = "clearing" /\ old'[n] = old[n]
      /\ t'[n] = t[n] /\ pt'[n] = pt[n]
      /\ cloud' = cloud
  <2>1. prev'[n] = Removing(prev[n], prev[n].id)
    BY DEF TypeOK, ClearFirst
  <2>5. prev[n] \in Resources
    BY FieldTypes
  <2>2. /\ prev'[n].saved = prev[n].saved /\ prev'[n].id = prev[n].id
        /\ prev'[n].def = prev[n].def /\ ~Gone(prev'[n])
    BY <2>1, <2>5, FieldTypes, RemovingOK
  <2>3. /\ new[n] \in {"wait", "updating"} /\ phase = "update"
        /\ ~Gone(prev[n])
        /\ res'[n] = res[n]
        /\ new'[n] = "clearing" /\ old'[n] = old[n]
        /\ t'[n] = t[n] /\ pt'[n] = pt[n]
        /\ cloud' = cloud
    BY FieldTypes DEF TypeOK, Ids, ClearFirst, NeedsNew, StartsNew, stackVars, opVars
  <2>4. QED
    BY <2>2, <2>3
<1>3. RowsOK'
  BY <1>1, <1>2 DEF IInv, RowsOK, NewOK, OldOK, Aside
<1>4. NewOK'
  BY <1>1, <1>2 DEF IInv, RowsOK, NewOK, OldOK, Aside
<1>5. OldOK'
  BY <1>1, <1>2 DEF IInv, RowsOK, NewOK, OldOK, Aside
<1>6. HeldOK'
  BY <1>1, <1>2 DEF IInv, RowsOK, NewOK, OldOK, HeldOK, Aside
<1>7. Kept'
  <2>1. InAir' = InAir
    BY <1>1, <1>2, AirKept DEF ClearFirst, NeedsNew
  <2>2. QED
    BY <1>1, <1>2, <2>1 DEF IInv, RowsOK, NewOK, OldOK, HeldOK, Kept, Deleting, InRow, InMemory, Aside, TypeOK
<1>8. QED
  BY <1>3, <1>4, <1>5, <1>6, <1>7 DEF IInv

LEMMA EndClearNewKeeps == ASSUME TypeOK, IInv, NEW n \in Names, EndClearNew(n) PROVE IInv'
<1>1. Aside(n)
  BY DEF TypeOK, Aside, EndClearNew, stackVars, opVars, histVars
<1>2. /\ new[n] = "clearing"
      /\ res'[n] = res[n]
      /\ ~prev'[n].saved /\ prev'[n].id = 0
      /\ prev'[n].def = pt[n] /\ Gone(prev'[n])
      /\ new'[n] = "cleared" /\ old'[n] = old[n]
      /\ t'[n] = t[n] /\ pt'[n] = pt[n]
      /\ cloud' = cloud \ {prev[n].id}
  BY FieldTypes, BlankOK DEF TypeOK, Ids, EndClearNew, stackVars, opVars
<1>3. RowsOK'
  BY <1>1, <1>2 DEF IInv, RowsOK, NewOK, OldOK, Aside
<1>4. NewOK'
  BY <1>1, <1>2 DEF IInv, RowsOK, NewOK, OldOK, Aside
<1>5. OldOK'
  BY <1>1, <1>2 DEF IInv, RowsOK, NewOK, OldOK, Aside
<1>6. HeldOK'
  BY <1>1, <1>2 DEF IInv, RowsOK, NewOK, OldOK, HeldOK, Aside
<1>7. Kept'
  <2>1. InAir' = InAir
    BY <1>1, <1>2, AirKept DEF EndClearNew
  <2>2. QED
    BY <1>1, <1>2, <2>1 DEF IInv, RowsOK, NewOK, OldOK, HeldOK, Kept, Deleting, InRow, InMemory, Aside, TypeOK
<1>8. QED
  BY <1>3, <1>4, <1>5, <1>6, <1>7 DEF IInv

LEMMA ClearOldKeeps == ASSUME TypeOK, IInv, NEW n \in Names, ClearOld(n) PROVE IInv'
<1>1. Aside(n)
  BY DEF TypeOK, Aside, ClearOld, stackVars, opVars, histVars
<1>2. /\ old[n] = "wait" /\ new[n] = "done" /\ phase \in {"clean", "update", "purge", "unback"}
      /\ ~Gone(prev[n])
      /\ res'[n] = res[n]
      /\ prev'[n].saved = prev[n].saved /\ prev'[n].def = prev[n].def /\ ~Gone(prev'[n])
      /\ prev'[n].id = IF phase = "unback" THEN pid[n] ELSE prev[n].id
      /\ new'[n] = new[n] /\ old'[n] = "clearing"
      /\ t'[n] = t[n] /\ pt'[n] = pt[n]
      /\ cloud' = cloud
  <2>1. PICK i \in Nat : prev'[n] = Removing(prev[n], i) /\ i = IF phase = "unback" THEN pid[n] ELSE prev[n].id
    BY FieldTypes DEF TypeOK, ClearOld
  <2>5. prev[n] \in Resources
    BY FieldTypes
  <2>2. /\ prev'[n].saved = prev[n].saved /\ prev'[n].def = prev[n].def /\ ~Gone(prev'[n])
        /\ prev'[n].id = IF phase = "unback" THEN pid[n] ELSE prev[n].id
    BY <2>1, <2>5, RemovingOK
  <2>3. /\ old[n] = "wait" /\ new[n] = "done" /\ phase \in {"clean", "update", "purge", "unback"}
        /\ ~Gone(prev[n])
        /\ res'[n] = res[n]
        /\ new'[n] = new[n] /\ old'[n] = "clearing"
        /\ t'[n] = t[n] /\ pt'[n] = pt[n]
        /\ cloud' = cloud
    BY FieldTypes DEF TypeOK, Ids, ClearOld, StartsOld, stackVars, opVars
  <2>4. QED
    BY <2>2, <2>3
<1>3. RowsOK'
  BY <1>1, <1>2 DEF IInv, RowsOK, NewOK, OldOK, Aside
<1>4. NewOK'
  BY <1>1, <1>2 DEF IInv, RowsOK, NewOK, OldOK, Aside
<1>5. OldOK'
  BY <1>1, <1>2 DEF IInv, RowsOK, NewOK, OldOK, Aside
<1>6. HeldOK'
  BY <1>1, <1>2 DEF IInv, RowsOK, NewOK, OldOK, HeldOK, Aside
<1>7. Kept'
  <2>1. InAir' = InAir
    BY <1>1, <1>2, AirKept DEF ClearOld
  <2>2. QED
    BY <1>1, <1>2, <2>1 DEF IInv, RowsOK, NewOK, OldOK, HeldOK, Kept, Deleting, InRow, InMemory, Aside, TypeOK
<1>8. QED
  BY <1>3, <1>4, <1>5, <1>6, <1>7 DEF IInv

LEMMA EndClearOldKeeps == ASSUME TypeOK, IInv, NEW n \in Names, EndClearOld(n) PROVE IInv'
<1>1. Aside(n)
  BY DEF TypeOK, Aside, EndClearOld, stackVars, opVars, histVars
<1>2. /\ old[n] = "clearing"
      /\ res'[n] = res[n]
      /\ ~prev'[n].saved /\ prev'[n].id = 0
      /\ prev'[n].def = pt[n] /\ Gone(prev'[n])
      /\ new'[n] = new[n] /\ old'[n] = IF phase = "update" THEN "cleared" ELSE "done"
      /\ t'[n] = t[n] /\ pt'[n] = pt[n]
      /\ cloud' = cloud \ {prev[n].id}
  BY FieldTypes, BlankOK DEF TypeOK, Ids, EndClearOld, stackVars, opVars
<1>3. RowsOK'
  BY <1>1, <1>2 DEF IInv, RowsOK, NewOK, OldOK, Aside
<1>4. NewOK'
  BY <1>1, <1>2 DEF IInv, RowsOK, NewOK, OldOK, Aside
<1>5. OldOK'
  BY <1>1, <1>2 DEF IInv, RowsOK, NewOK, OldOK, Aside
<1>6. HeldOK'
  BY <1>1, <1>2 DEF IInv, RowsOK, NewOK, OldOK, HeldOK, Aside
<1>7. Kept'
  <2>1. InAir' = InAir
    BY <1>1, <1>2, AirKept DEF EndClearOld
  <2>2. ASSUME NEW p \in cloud, p # prev[n].id
        PROVE  (InRow(p) => InRow(p)') /\ (phase = "unback" /\ InMemory(p) => InMemory(p)')
    BY <1>1, <1>2, <2>2 DEF IInv, RowsOK, HeldOK, InRow, InMemory, Aside
  <2>3. phase # "delete"
    BY <1>2 DEF IInv, OldOK
  <2>4. QED
    BY <1>1, <1>2, <2>1, <2>2, <2>3 DEF IInv, Kept, Deleting, Aside
<1>8. QED
  BY <1>3, <1>4, <1>5, <1>6, <1>7 DEF IInv

LEMMA KeepOldKeeps == ASSUME TypeOK, IInv, NEW n \in Names, KeepOld(n) PROVE IInv'
<1>1. Aside(n)
  BY DEF TypeOK, Aside, KeepOld, stackVars, opVars, histVars
<1>2. /\ want[n] # 0 /\ phase = "update" /\ old[n] \in {"wait", "cleared"}
      /\ res'[n] = res[n]
      /\ prev'[n] = prev[n]
      /\ new'[n] = new[n] /\ old'[n] = "done"
      /\ t'[n] = t[n] /\ pt'[n] = pt[n]
      /\ cloud' = cloud
  BY FieldTypes DEF TypeOK, Ids, KeepOld, OldCleared, StartsOld, stackVars, opVars
<1>3. RowsOK'
  BY <1>1, <1>2 DEF IInv, RowsOK, NewOK, OldOK, Aside
<1>4. NewOK'
  BY <1>1, <1>2 DEF IInv, RowsOK, NewOK, OldOK, Aside
<1>5. OldOK'
  BY <1>1, <1>2 DEF IInv, RowsOK, NewOK, OldOK, Aside
<1>6. HeldOK'
  BY <1>1, <1>2 DEF IInv, RowsOK, NewOK, OldOK, HeldOK, Aside
<1>7. Kept'
  <2>1. InAir' = InAir
    BY <1>1, <1>2, AirKept DEF KeepOld
  <2>2. QED
    BY <1>1, <1>2, <2>1 DEF IInv, RowsOK, NewOK, OldOK, HeldOK, Kept, Deleting, InRow, InMemory, Aside, TypeOK
<1>8. QED
  BY <1>3, <1>4, <1>5, <1>6, <1>7 DEF IInv

LEMMA RemoveOldKeeps == ASSUME TypeOK, IInv, NEW n \in Names, RemoveOld(n) PROVE IInv'
<1>1. Aside(n)
  BY DEF TypeOK, Aside, RemoveOld, stackVars, opVars, histVars
<1>2. /\ ~Gone(res[n])
      /\ old[n] \in {"wait", "cleared"} /\ (old[n] = "wait" => new[n] = "done")
      /\ \/ phase = "update" /\ want[n] = 0 /\ (Gone(prev[n]) \/ old[n] = "cleared")
         \/ phase = "delete"
      /\ res'[n].saved = res[n].saved /\ res'[n].def = res[n].def /\ ~Gone(res'[n])
      /\ res'[n].id = IF phase = "delete" THEN rid[n] ELSE res[n].id
      /\ prev'[n] = prev[n]
      /\ new'[n] = new[n] /\ old'[n] = "removing"
      /\ t'[n] = t[n] /\ pt'[n] = pt[n]
      /\ cloud' = cloud
  <2>1. PICK i \in Nat : res'[n] = Removing(res[n], i) /\ i = IF phase = "delete" THEN rid[n] ELSE res[n].id
    BY FieldTypes DEF TypeOK, RemoveOld
  <2>5. res[n] \in Resources
    BY FieldTypes
  <2>2. /\ res'[n].saved = res[n].saved /\ res'[n].def = res[n].def /\ ~Gone(res'[n])
        /\ res'[n].id = IF phase = "delete" THEN rid[n] ELSE res[n].id
    BY <2>1, <2>5, RemovingOK
  <2>3. /\ ~Gone(res[n])
        /\ old[n] \in {"wait", "cleared"} /\ (old[n] = "wait" => new[n] = "done")
        /\ \/ phase = "update" /\ want[n] = 0 /\ (Gone(prev[n]) \/ old[n] = "cleared")
           \/ phase = "delete"
        /\ prev'[n] = prev[n]
        /\ new'[n] = new[n] /\ old'[n] = "removing"
        /\ t'[n] = t[n] /\ pt'[n] = pt[n]
        /\ cloud' = cloud
    BY FieldTypes DEF TypeOK, Ids, RemoveOld, OldCleared, StartsOld, stackVars, opVars
  <2>4. QED
    BY <2>2, <2>3
<1>3. RowsOK'
  BY <1>1, <1>2 DEF IInv, RowsOK, NewOK, OldOK, Aside
<1>4. NewOK'
  BY <1>1, <1>2 DEF IInv, RowsOK, NewOK, OldOK, Aside
<1>5. OldOK'
  BY <1>1, <1>2 DEF IInv, RowsOK, NewOK, OldOK, Aside
<1>6. HeldOK'
  BY <1>1, <1>2 DEF IInv, RowsOK, NewOK, OldOK, HeldOK, Aside
<1>7. Kept'
  <2>1. InAir' = InAir
    BY <1>1, <1>2, AirKept DEF RemoveOld
  <2>2. QED
    BY <1>1, <1>2, <2>1 DEF IInv, RowsOK, NewOK, OldOK, HeldOK, Kept, Deleting, InRow, InMemory, Aside, TypeOK
<1>8. QED
  BY <1>3, <1>4, <1>5, <1>6, <1>7 DEF IInv

LEMMA EndRemoveKeeps == ASSUME TypeOK, IInv, NEW n \in Names, EndRemove(n) PROVE IInv'
<1>1. Aside(n)
  BY DEF TypeOK, Aside, EndRemove, stackVars, opVars, histVars
<1>2. /\ old[n] = "removing"
      /\ ~res'[n].saved /\ res'[n].id = 0 /\ Gone(res'[n])
      /\ prev'[n] = prev[n]
      /\ new'[n] = new[n] /\ old'[n] = "done"
      /\ t'[n] \in Nat /\ pt'[n] = pt[n]
      /\ cloud' = cloud \ {res[n].id}
  <2>1. res'[n] = Blank(t'[n])
    BY DEF TypeOK, EndRemove
  <2>5. t'[n] \in Nat
    BY EndRemoveType DEF TypeOK, Ids
  <2>2. /\ ~res'[n].saved /\ res'[n].id = 0 /\ Gone(res'[n])
    BY <2>1, <2>5, BlankOK
  <2>3. /\ old[n] = "removing"
        /\ prev'[n] = prev[n]
        /\ new'[n] = new[n] /\ old'[n] = "done"
        /\ t'[n] \in Nat /\ pt'[n] = pt[n]
        /\ cloud' = cloud \ {res[n].id}
    BY <2>5, FieldTypes DEF TypeOK, Ids, EndRemove, stackVars, opVars
  <2>4. QED
    BY <2>2, <2>3
<1>3. RowsOK'
  BY <1>1, <1>2 DEF IInv, RowsOK, NewOK, OldOK, Aside
<1>4. NewOK'
  BY <1>1, <1>2 DEF IInv, RowsOK, NewOK, OldOK, Aside
<1>5. OldOK'
  BY <1>1, <1>2 DEF IInv, RowsOK, NewOK, OldOK, Aside
<1>6. HeldOK'
  BY <1>1, <1>2 DEF IInv, RowsOK, NewOK, OldOK, HeldOK, Aside
<1>7. Kept'
  <2>1. InAir' = InAir
    BY <1>1, <1>2, AirKept DEF EndRemove
  <2>2. QED
    BY <1>1, <1>2, <2>1 DEF IInv, RowsOK, NewOK, OldOK, HeldOK, Kept, Deleting, InRow, InMemory, Aside, TypeOK
<1>8. QED
  BY <1>3, <1>4, <1>5, <1>6, <1>7 DEF IInv

LEMMA ForgetOldKeeps == ASSUME TypeOK, IInv, NEW n \in Names, ForgetOld(n) PROVE IInv'
<1>1. Aside(n)
  BY DEF TypeOK, Aside, ForgetOld, stackVars, opVars, histVars
<1>2. /\ Gone(res[n]) /\ want[n] = 0 /\ phase = "update"
      /\ old[n] = "cleared" \/ (old[n] = "wait" /\ new[n] = "done" /\ Gone(prev[n]))
      /\ ~res'[n].saved /\ res'[n].id = 0 /\ Gone(res'[n])
      /\ prev'[n] = prev[n]
      /\ new'[n] = new[n] /\ old'[n] = "done"
      /\ t'[n] = 0 /\ pt'[n] = pt[n]
      /\ cloud' = cloud
  <2>1. res'[n] = Blank(0)
    BY DEF TypeOK, ForgetOld
  <2>2. /\ ~res'[n].saved /\ res'[n].id = 0 /\ Gone(res'[n])
    BY <2>1, BlankOK
  <2>3. /\ Gone(res[n]) /\ want[n] = 0 /\ phase = "update"
        /\ old[n] = "cleared" \/ (old[n] = "wait" /\ new[n] = "done" /\ Gone(prev[n]))
        /\ prev'[n] = prev[n]
        /\ new'[n] = new[n] /\ old'[n] = "done"
        /\ t'[n] = 0 /\ pt'[n] = pt[n]
        /\ cloud' = cloud
    BY FieldTypes DEF TypeOK, Ids, ForgetOld, OldCleared, StartsOld, stackVars, opVars
  <2>4. QED
    BY <2>2, <2>3
<1>3. RowsOK'
  BY <1>1, <1>2 DEF IInv, RowsOK, NewOK, OldOK, Aside
<1>4. NewOK'
  BY <1>1, <1>2 DEF IInv, RowsOK, NewOK, OldOK, Aside
<1>5. OldOK'
  BY <1>1, <1>2 DEF IInv, RowsOK, NewOK, OldOK, Aside
<1>6. HeldOK'
  BY <1>1, <1>2 DEF IInv, RowsOK, NewOK, OldOK, HeldOK, Aside
<1>7. Kept'
  <2>1. InAir' = InAir
    BY <1>1, <1>2, AirKept DEF ForgetOld
  <2>2. QED
    BY <1>1, <1>2, <2>1 DEF IInv, RowsOK, NewOK, OldOK, HeldOK, Kept, Deleting, InRow, InMemory, Aside, TypeOK
<1>8. QED
  BY <1>3, <1>4, <1>5, <1>6, <1>7 DEF IInv

\* Nothing with a row of the backup stack is overwritten.
LEMMA ReplacesOK ==
  ASSUME TypeOK, IInv, NEW n \in Names, Replaces(n)
  PROVE  /\ new[n] \in {"wait", "updating", "cleared"} /\ phase = "update"
         /\ ~prev[n].saved /\ want[n] # 0
<1>1. /\ new[n] \in {"wait", "updating", "cleared"} /\ phase = "update"
      /\ Gone(prev[n]) \/ new[n] = "cleared"
  BY DEF Replaces, NeedsNew, StartsNew
<1>2. QED
  BY <1>1 DEF IInv, RowsOK, NewOK

LEMMA ReplaceKeeps == ASSUME TypeOK, IInv, NEW n \in Names, Replace(n) PROVE IInv'
<1>1. Aside(n)
  <2>1. \A m \in Names \ {n} : prev'[m] = prev[m] /\ pt'[m] = pt[m]
    BY DEF TypeOK, Ids, Replace
  <2>2. /\ \A m \in Names \ {n} : res'[m] = res[m] /\ new'[m] = new[m] /\ t'[m] = t[m]
        /\ old' = old
        /\ UNCHANGED <<phase, want, rid, pid, dropped, unheard>>
    BY DEF TypeOK, Ids, Replace, opVars, histVars
  <2>3. QED
    BY <2>1, <2>2 DEF Aside
<1>2. /\ new[n] \in {"wait", "updating", "cleared"} /\ phase = "update"
      /\ ~prev[n].saved /\ want[n] # 0
      /\ new'[n] = "creating" /\ old'[n] = old[n]
      /\ t'[n] = want[n] /\ cloud' = cloud
  <2>1. /\ new[n] \in {"wait", "updating", "cleared"} /\ phase = "update"
        /\ ~prev[n].saved /\ want[n] # 0
    BY ReplacesOK DEF Replace
  <2>3. /\ new'[n] = "creating" /\ old'[n] = old[n]
        /\ t'[n] = want[n] /\ cloud' = cloud
    BY DEF TypeOK, Ids, Replace
  <2>4. QED
    BY <2>1, <2>3
<1>3. res'[n].saved /\ res'[n].id = 0 /\ res'[n].def = want[n] /\ ~Gone(res'[n])
  <2>1. res'[n] = Started(Blank(want[n]))
    BY DEF TypeOK, Replace
  <2>2. want[n] \in Nat /\ Blank(want[n]) \in Resources
    BY FieldTypes, BlankType
  <2>3. Blank(want[n]).id = 0 /\ Blank(want[n]).def = want[n]
    BY DEF Blank
  <2>4. QED
    BY <2>1, <2>2, <2>3, StartedOK
<1>4. \/ /\ t[n] = 0 /\ ~res[n].saved
         /\ prev'[n] = prev[n] /\ pt'[n] = pt[n]
      \/ /\ prev'[n].saved = res[n].saved /\ prev'[n].id = res[n].id
         /\ prev'[n].def = res[n].def /\ ~Gone(prev'[n])
         /\ pt'[n] = res[n].def
  <2>1. CASE t[n] = 0
    BY <2>1 DEF Replace, IInv, RowsOK
  <2>2. CASE t[n] # 0
    <3>1. prev'[n] = Backed(res[n]) /\ pt'[n] = res[n].def
      BY <2>2 DEF TypeOK, Ids, Replace
    <3>2. res[n] \in Resources
      BY FieldTypes
    <3>3. QED
      BY <3>1, <3>2, BackedOK
  <2>3. QED
    BY <2>1, <2>2
<1>5. RowsOK'
  BY <1>1, <1>2, <1>3, <1>4 DEF IInv, RowsOK, Aside
<1>6. NewOK'
  BY <1>1, <1>2, <1>3, <1>4 DEF IInv, NewOK, Aside
<1>7. OldOK'
  BY <1>1, <1>2, <1>3, <1>4 DEF IInv, OldOK, Aside
<1>8. HeldOK'
  BY <1>1, <1>2 DEF HeldOK, Aside
<1>9. Kept'
  <2>1. InAir' = InAir
    BY <1>1, <1>2, AirKept DEF Replace
  <2>2. QED
    BY <1>1, <1>2, <1>3, <1>4, <2>1 DEF IInv, Kept, Deleting, InRow, Aside
<1>10. QED
  BY <1>5, <1>6, <1>7, <1>8, <1>9 DEF IInv

\* What a failure, a cancellation or an abort leaves of the rows: everything
\* but the status.
Alike(rs, ps) ==
    \A n \in Names :
        /\ rs[n].saved = res[n].saved /\ rs[n].id = res[n].id
        /\ rs[n].def = res[n].def /\ Gone(rs[n]) = Gone(res[n])
        /\ ps[n].saved = prev[n].saved /\ ps[n].id = prev[n].id
        /\ ps[n].def = prev[n].def /\ Gone(ps[n]) = Gone(prev[n])

LEMMA AlikeSelf == Alike(res, prev)
  BY DEF Alike

LEMMA AlikeCut ==
  ASSUME TypeOK
  PROVE  Alike(Cut(res, OnRes), Cut(prev, OnPrev)) /\ Alike(res, Cut(prev, OnPrev))
<1>1. res \in [Names -> Resources] /\ prev \in [Names -> Resources]
  BY DEF TypeOK
<1>2. QED
  BY <1>1, CutOK DEF Alike

LEMMA StopAlike ==
  ASSUME TypeOK, NEW n \in Names,
         res' = res \/ res' = [res EXCEPT ![n] = Failed(res[n])],
         prev' = prev \/ prev' = [prev EXCEPT ![n] = Failed(prev[n])]
  PROVE  Alike(res', prev')
<1>1. /\ res[n] \in Resources /\ prev[n] \in Resources
      /\ res \in [Names -> Resources] /\ prev \in [Names -> Resources]
  BY DEF TypeOK
<1>2. ASSUME NEW m \in Names
      PROVE  /\ res'[m].saved = res[m].saved /\ res'[m].id = res[m].id
             /\ res'[m].def = res[m].def /\ Gone(res'[m]) = Gone(res[m])
  BY <1>1, FailedOK
<1>3. ASSUME NEW m \in Names
      PROVE  /\ prev'[m].saved = prev[m].saved /\ prev'[m].id = prev[m].id
             /\ prev'[m].def = prev[m].def /\ Gone(prev'[m]) = Gone(prev[m])
  BY <1>1, FailedOK
<1>4. QED
  BY <1>2, <1>3 DEF Alike

\* A task that failed or was cancelled is no longer at work on anything.
LEMMA StopKeeps ==
  ASSUME TypeOK, IInv, Alike(res', prev'), NEW n \in Names,
         UNCHANGED <<stackVars, cloud, made, opVars, dropped>>,
         \/ /\ new[n] \in Running /\ old' = old /\ unheard' = unheard \cup InAir
            /\ new' = [new EXCEPT ![n] = "failed"] \/ new' = [new EXCEPT ![n] = "cut"]
         \/ /\ old[n] \in Running /\ new' = new /\ unheard' = unheard
            /\ old' = [old EXCEPT ![n] = "failed"] \/ old' = [old EXCEPT ![n] = "cut"]
  PROVE  IInv'
<1>1. UNCHANGED <<t, pt, cloud, made, phase, want, rid, pid, dropped>>
  BY DEF stackVars, opVars
<1>2. \A m \in Names : /\ new'[m] = new[m] \/ (new[m] # "done" /\ new'[m] \in {"failed", "cut"})
                       /\ old'[m] = old[m] \/ old'[m] \in {"failed", "cut"}
                       /\ old'[m] \in {"clearing", "cleared", "removing"} => new'[m] = new[m]
  BY DEF TypeOK, Running, Ended, IInv, OldOK
<1>3. RowsOK'
  BY <1>1 DEF IInv, RowsOK, Alike
<1>4. NewOK'
  BY <1>1, <1>2 DEF IInv, NewOK, Alike
<1>5. OldOK'
  BY <1>1, <1>2 DEF IInv, OldOK, Alike
<1>6. HeldOK'
  BY <1>1, <1>2 DEF IInv, HeldOK, Alike
<1>7. Kept'
  <2>1. cloud' \ (dropped' \cup unheard' \cup InAir') \subseteq cloud \ (dropped \cup unheard \cup InAir)
    BY <1>1 DEF InAir, AtYield
  <2>2. QED
    BY <1>1, <2>1 DEF IInv, Kept, Deleting, InRow, InMemory, Alike
<1>8. QED
  BY <1>3, <1>4, <1>5, <1>6, <1>7 DEF IInv

LEMMA StopsKeep ==
  ASSUME TypeOK, IInv, NEW n \in Names, FailNew(n) \/ CutNew(n) \/ FailOld(n) \/ CutOld(n)
  PROVE  IInv'
<1>1. /\ res' = res \/ res' = [res EXCEPT ![n] = Failed(res[n])]
      /\ prev' = prev \/ prev' = [prev EXCEPT ![n] = Failed(prev[n])]
      /\ UNCHANGED <<stackVars, cloud, made, opVars, dropped>>
  BY DEF FailNew, CutNew, FailOld, CutOld, StopNew, StopOld, histVars
<1>2. \/ /\ new[n] \in Running /\ old' = old /\ unheard' = unheard \cup InAir
         /\ new' = [new EXCEPT ![n] = "failed"] \/ new' = [new EXCEPT ![n] = "cut"]
      \/ /\ old[n] \in Running /\ new' = new /\ unheard' = unheard
         /\ old' = [old EXCEPT ![n] = "failed"] \/ old' = [old EXCEPT ![n] = "cut"]
  BY DEF FailNew, CutNew, FailOld, CutOld, StopNew, StopOld, histVars
<1>3. Alike(res', prev')
  BY <1>1, StopAlike
<1>4. QED
  BY <1>1, <1>2, <1>3, StopKeeps

\* Every row the stack or its backup has is a row of rs or ps.
Carried(rs, ps) ==
    \A n \in Names :
        /\ rs[n].saved => ~Gone(rs[n])
        /\ ps[n].saved => ~Gone(ps[n])
        /\ res[n].saved => \/ rs[n].saved /\ rs[n].id = res[n].id
                           \/ ps[n].saved /\ ps[n].id = res[n].id
        /\ prev[n].saved => \/ rs[n].saved /\ rs[n].id = prev[n].id
                            \/ ps[n].saved /\ ps[n].id = prev[n].id

\* Whatever ends an operation leaves the rows; what a delete held in memory
\* and did not carry out counts as dropped, and an id that no row has yet as
\* unheard.
LEMMA CarriedKeeps ==
  ASSUME TypeOK, IInv, NEW st,
         NEW rs \in [Names -> Resources], NEW tm \in Ids,
         NEW ps \in [Names -> Resources], NEW ptm \in Ids,
         Carried(rs, ps), Leave(st, rs, tm, ps, ptm),
         \A n \in Names : (rs[n].saved => tm[n] # 0) /\ (ps[n].saved => ptm[n] # 0)
  PROVE  IInv'
<1>1. /\ t' = tm /\ pt' = ptm /\ res' = Loaded(rs, tm) /\ prev' = Loaded(ps, ptm)
      /\ phase' = "idle" /\ cloud' = cloud
      /\ dropped' = dropped \cup Held /\ unheard' = unheard \cup InAir
      /\ \A n \in Names : new'[n] = "done" /\ old'[n] = "done"
  BY DEF Leave
<1>2. \A n \in Names :
        /\ res'[n].saved = rs[n].saved /\ res'[n].def = tm[n]
        /\ rs[n].saved => res'[n].id = rs[n].id /\ ~Gone(res'[n])
        /\ ~rs[n].saved => res'[n].id = 0 /\ Gone(res'[n])
        /\ prev'[n].saved = ps[n].saved /\ prev'[n].def = ptm[n]
        /\ ps[n].saved => prev'[n].id = ps[n].id /\ ~Gone(prev'[n])
        /\ ~ps[n].saved => prev'[n].id = 0 /\ Gone(prev'[n])
  BY <1>1, LoadedOK DEF Carried
<1>3. RowsOK'
  BY <1>1, <1>2 DEF RowsOK
<1>4. NewOK' /\ OldOK' /\ HeldOK'
  BY <1>1 DEF NewOK, OldOK, HeldOK
<1>5. ASSUME NEW p \in cloud' \ (dropped' \cup unheard') PROVE InRow(p)'
  <2>1. p \in cloud \ (dropped \cup unheard \cup InAir) /\ p \notin Held /\ p # 0
    BY <1>1 DEF TypeOK
  <2>2. PICK n \in Names : (res[n].saved /\ res[n].id = p) \/ (prev[n].saved /\ prev[n].id = p)
    <3>1. CASE ~Deleting
      BY <2>1, <3>1 DEF IInv, Kept, InRow
    <3>2. CASE Deleting
      <4>1. PICK n \in Names : rid[n] = p \/ (prev[n].saved /\ pid[n] = p)
        BY <2>1, <3>2 DEF IInv, Kept, InMemory
      <4>2. p = res[n].id \/ p = prev[n].id
        BY <2>1, <3>2, <4>1 DEF Held, Deleting, IInv, HeldOK, OldOK
      <4>3. QED
        BY <2>1, <4>2 DEF IInv, RowsOK
    <3>3. QED
      BY <3>1, <3>2
  <2>3. \/ rs[n].saved /\ rs[n].id = p
        \/ ps[n].saved /\ ps[n].id = p
    BY <2>2 DEF Carried
  <2>4. QED
    BY <1>2, <2>3 DEF InRow
<1>6. Kept'
  BY <1>1, <1>5 DEF Kept, Deleting
<1>7. QED
  BY <1>3, <1>4, <1>6 DEF IInv

LEMMA LeaveKeeps ==
  ASSUME TypeOK, IInv, NEW st,
         NEW rs \in [Names -> Resources], NEW tm \in Ids,
         NEW ps \in [Names -> Resources], NEW ptm \in Ids,
         Alike(rs, ps), Leave(st, rs, tm, ps, ptm),
         \A n \in Names : (res[n].saved => tm[n] # 0) /\ (prev[n].saved => ptm[n] # 0)
  PROVE  IInv'
<1>1. Carried(rs, ps)
  BY DEF Alike, Carried, IInv, RowsOK
<1>2. \A n \in Names : (rs[n].saved => tm[n] # 0) /\ (ps[n].saved => ptm[n] # 0)
  BY DEF Alike
<1>3. QED
  BY <1>1, <1>2, CarriedKeeps

\* A row that Replace moves is in the stack or in its backup at each commit.
LEMMA CrashReplacingKeeps ==
  ASSUME TypeOK, IInv, NEW n \in Names, CrashReplacing(n)
  PROVE  IInv'
<1> DEFINE named == [t EXCEPT ![n] = want[n]]
           kept  == [pt EXCEPT ![n] = res[n].def]
           moved == [prev EXCEPT ![n] = Backed(res[n])]
           left  == [res EXCEPT ![n] = Blank(t[n])]
<1>1. /\ Replaces(n)
      /\ \/ t[n] # 0 /\ Leave(state, res, t, prev, kept)
         \/ t[n] # 0 /\ Leave(state, left, t, moved, kept)
         \/ t[n] # 0 /\ Leave(state, left, named, moved, kept)
         \/ t[n] = 0 /\ Leave(state, res, named, prev, pt)
  BY DEF CrashReplacing
<1>2. /\ res \in [Names -> Resources] /\ prev \in [Names -> Resources]
      /\ t \in Ids /\ pt \in Ids /\ t[n] \in Nat /\ want[n] \in Nat /\ res[n].def \in Nat
      /\ Backed(res[n]) \in Resources /\ Blank(t[n]) \in Resources
  BY FieldTypes, BackedOK, BlankType DEF TypeOK
<1>3. /\ named \in Ids /\ kept \in Ids
      /\ moved \in [Names -> Resources] /\ left \in [Names -> Resources]
  BY <1>2 DEF Ids
<1>4. /\ ~prev[n].saved
      /\ Backed(res[n]).saved = res[n].saved /\ Backed(res[n]).id = res[n].id
      /\ ~Gone(Backed(res[n])) /\ ~Blank(t[n]).saved
  BY <1>1, <1>2, ReplacesOK, BackedOK, BlankOK
<1>5. /\ \A m \in Names \ {n} : /\ named[m] = t[m] /\ kept[m] = pt[m]
                                /\ moved[m] = prev[m] /\ left[m] = res[m]
      /\ kept[n] = res[n].def /\ moved[n] = Backed(res[n]) /\ left[n] = Blank(t[n])
  BY <1>2 DEF Ids
<1>6. /\ Carried(res, prev) /\ Carried(left, moved)
      /\ \A m \in Names : /\ res[m].saved => t[m] # 0
                          /\ left[m].saved => t[m] # 0 /\ named[m] # 0
                          /\ t[n] = 0 /\ res[m].saved => named[m] # 0
                          /\ prev[m].saved => pt[m] # 0 /\ kept[m] # 0
                          /\ moved[m].saved => kept[m] # 0
  <2> HIDE DEF named, kept, moved, left
  <2>1. QED
    BY <1>4, <1>5 DEF Carried, IInv, RowsOK
<1> HIDE DEF named, kept, moved, left
<1>7. QED
  BY <1>1, <1>2, <1>3, <1>6, CarriedKeeps

LEMMA CrashExchangingKeeps ==
  ASSUME TypeOK, IInv, NEW n \in Names, CrashExchanging(n)
  PROVE  IInv'
<1> DEFINE taken == [res EXCEPT ![n] = prev[n]]
           given == [prev EXCEPT ![n] = res[n]]
<1>1. PICK kept \in {pt, [pt EXCEPT ![n] = res[n].def]} : Leave(state, taken, t, given, kept)
  BY DEF CrashExchanging
<1>2. res[n].saved /\ prev[n].saved
  BY DEF CrashExchanging, Exchanges
<1>3. /\ res \in [Names -> Resources] /\ prev \in [Names -> Resources]
      /\ t \in Ids /\ pt \in Ids /\ res[n].def \in Nat
  BY FieldTypes DEF TypeOK
<1>4. /\ kept \in Ids /\ taken \in [Names -> Resources] /\ given \in [Names -> Resources]
  BY <1>3 DEF Ids
<1>5. /\ \A m \in Names \ {n} : kept[m] = pt[m] /\ taken[m] = res[m] /\ given[m] = prev[m]
      /\ kept[n] \in {pt[n], res[n].def} /\ taken[n] = prev[n] /\ given[n] = res[n]
  BY <1>3 DEF Ids
<1> HIDE DEF taken, given
<1>6. /\ Carried(taken, given)
      /\ \A m \in Names : (taken[m].saved => t[m] # 0) /\ (given[m].saved => kept[m] # 0)
  BY <1>2, <1>5 DEF Carried, IInv, RowsOK
<1>7. QED
  BY <1>1, <1>3, <1>4, <1>6, CarriedKeeps

\* A rollback loads the backup stack again and starts tasks for the template
\* and the resources the stack has.
LEMMA RollbackKeeps ==
  ASSUME TypeOK, IInv, phase \in {"clean", "update"}, AtYield,
         NEW rs \in [Names -> Resources], NEW ps \in [Names -> Resources],
         Alike(rs, ps), Rollback(rs, ps)
  PROVE  IInv'
<1>1. /\ res' = rs /\ prev' = Loaded(ps, pt) /\ want' = orig /\ phase' = "update"
      /\ new' = Present(orig) /\ old' = Present(t)
      /\ UNCHANGED <<t, pt, cloud, dropped, unheard>>
  BY DEF Rollback, histVars
<1>2. \A n \in Names :
        /\ prev'[n].saved = prev[n].saved /\ prev'[n].def = pt[n]
        /\ prev[n].saved => prev'[n].id = prev[n].id /\ Gone(prev'[n]) = Gone(prev[n])
        /\ ~prev[n].saved => prev'[n].id = 0 /\ Gone(prev'[n])
  <2>1. pt \in Ids
    BY DEF TypeOK
  <2>2. QED
    BY <1>1, <2>1, LoadedOK DEF Alike
<1>3. \A n \in Names :
        /\ new'[n] = IF orig[n] = 0 THEN "done" ELSE "wait"
        /\ old'[n] = IF t[n] = 0 THEN "done" ELSE "wait"
  BY <1>1 DEF Present
<1>4. RowsOK'
  BY <1>1, <1>2 DEF IInv, RowsOK, Alike
<1>5. NewOK'
  BY <1>1, <1>3 DEF NewOK
<1>6. OldOK'
  BY <1>1, <1>3, <1>4 DEF OldOK, RowsOK
<1>7. HeldOK'
  BY <1>1 DEF HeldOK
<1>8. Kept'
  <2>1. InAir = {}
    BY DEF InAir
  <2>2. QED
    BY <1>1, <1>2, <2>1 DEF IInv, Kept, Deleting, InRow, Alike
<1>9. QED
  BY <1>4, <1>5, <1>6, <1>7, <1>8 DEF IInv

LEMMA UpdateKeeps == ASSUME TypeOK, IInv, NEW w \in Templates, NEW u, Update(w, u) PROVE IInv'
<1>1. /\ want' = w /\ phase = "idle" /\ phase' = "clean"
      /\ pt' = (IF Backup THEN pt ELSE t) /\ prev' = Loaded(prev, pt')
      /\ old' = Removals(prev)
      /\ UNCHANGED <<t, res, cloud, made, new, dropped, unheard>>
  BY DEF Update, MayUpdate
<1>2. pt' \in Ids
  BY <1>1 DEF TypeOK
<1>3. \A n \in Names :
        /\ prev'[n].saved = prev[n].saved /\ prev'[n].def = pt'[n]
        /\ prev[n].saved => /\ prev'[n].id = prev[n].id /\ Gone(prev'[n]) = Gone(prev[n])
                            /\ pt'[n] # 0
        /\ ~prev[n].saved => prev'[n].id = 0 /\ Gone(prev'[n])
  BY <1>1, <1>2, LoadedOK DEF TypeOK, IInv, RowsOK, Backup
<1>4. \A n \in Names : /\ new'[n] = "done"
                       /\ old'[n] = IF Gone(prev[n]) THEN "done" ELSE "wait"
  BY <1>1 DEF Removals, IInv, NewOK
<1>5. RowsOK'
  BY <1>1, <1>3 DEF IInv, RowsOK
<1>6. NewOK' /\ HeldOK'
  BY <1>1, <1>4 DEF NewOK, HeldOK
<1>7. OldOK'
  BY <1>1, <1>3, <1>4 DEF OldOK, IInv, RowsOK
<1>8. Kept'
  BY <1>1, <1>3 DEF IInv, Kept, Deleting, InRow, InAir, AtYield
<1>9. QED
  BY <1>5, <1>6, <1>7, <1>8 DEF IInv

\* What Delete exchanges in memory it still holds.
LEMMA DeleteKeeps == ASSUME TypeOK, IInv, Delete PROVE IInv'
<1>1. /\ phase = "idle" /\ phase' = IF Backup THEN "unback" ELSE "delete"
      /\ old' = IF Backup THEN Removals(prev) ELSE Removals(res)
      /\ UNCHANGED <<t, pt, res, prev, cloud, made, new, want, dropped, unheard>>
  BY DEF Delete, MayDelete
<1>2. \A n \in Names :
        /\ prev[n].saved => Backup
        /\ \/ rid'[n] = res[n].id /\ pid'[n] = prev[n].id
           \/ rid'[n] = prev[n].id /\ pid'[n] = res[n].id /\ prev[n].saved
  BY DEF Delete, Exchanged, Backup, IInv, RowsOK
<1>3. \A n \in Names :
        /\ new'[n] = "done"
        /\ old'[n] = "wait" \/ old'[n] = "done"
        /\ old'[n] = "done" => IF Backup THEN Gone(prev[n]) ELSE Gone(res[n])
  BY <1>1 DEF Removals, IInv, NewOK
<1>4. RowsOK' /\ NewOK'
  BY <1>1, <1>3 DEF IInv, RowsOK, NewOK
<1>5. OldOK'
  BY <1>1, <1>2, <1>3 DEF OldOK, IInv, RowsOK
<1>6. HeldOK'
  BY <1>1, <1>2, <1>3 DEF HeldOK
<1>7. InAir' = InAir
  BY <1>1 DEF InAir, AtYield
<1>8. Kept'
  <2>1. ASSUME NEW p \in cloud \ (dropped \cup unheard \cup InAir) PROVE InMemory(p)'
    <3>1. PICK n \in Names : (res[n].saved /\ res[n].id = p) \/ (prev[n].saved /\ prev[n].id = p)
      BY <1>1 DEF IInv, Kept, Deleting, InRow
    <3>2. QED
      BY <1>1, <1>2, <3>1 DEF InMemory
  <2>2. QED
    BY <1>1, <1>7, <2>1 DEF Kept, Deleting
<1>9. QED
  BY <1>4, <1>5, <1>6, <1>8 DEF IInv

LEMMA CleanEndsKeeps == ASSUME TypeOK, IInv, CleanEnds PROVE IInv'
<1>1. /\ phase = "clean" /\ phase' = "update"
      /\ new' = Present(want) /\ old' = Present(t)
      /\ UNCHANGED <<t, pt, res, prev, cloud, want, rid, pid, dropped, unheard>>
  BY DEF CleanEnds, stackVars, histVars
<1>2. \A n \in Names :
        /\ new'[n] = IF want[n] = 0 THEN "done" ELSE "wait"
        /\ old'[n] = IF t[n] = 0 THEN "done" ELSE "wait"
  BY <1>1 DEF Present
<1>3. RowsOK' /\ NewOK' /\ OldOK' /\ HeldOK'
  BY <1>1, <1>2 DEF IInv, RowsOK, NewOK, OldOK, HeldOK
<1>4. Kept'
  <2>1. InAir = {}
    BY DEF CleanEnds, AllDone, InAir, AtYield
  <2>2. QED
    BY <1>1, <2>1 DEF IInv, Kept, Deleting, InRow
<1>5. QED
  BY <1>3, <1>4 DEF IInv

LEMMA UpdateEndsKeeps == ASSUME TypeOK, IInv, UpdateEnds PROVE IInv'
<1>1. /\ phase = "update" /\ AllDone /\ phase' = "purge"
      /\ old' = Removals(prev)
      /\ UNCHANGED <<t, pt, res, prev, cloud, made, new, want, rid, pid, dropped, unheard>>
  BY DEF UpdateEnds, stackVars, histVars
<1>2. \A n \in Names :
        /\ new'[n] = "done" /\ old[n] = "done"
        /\ old'[n] = IF Gone(prev[n]) THEN "done" ELSE "wait"
  BY <1>1 DEF Removals, AllDone
<1>3. RowsOK' /\ NewOK' /\ OldOK' /\ HeldOK'
  BY <1>1, <1>2 DEF IInv, RowsOK, NewOK, OldOK, HeldOK
<1>4. Kept'
  BY <1>1 DEF IInv, Kept, Deleting, InRow, InAir, AtYield
<1>5. QED
  BY <1>3, <1>4 DEF IInv

LEMMA UnbackEndsKeeps == ASSUME TypeOK, IInv, UnbackEnds PROVE IInv'
<1>1. /\ phase = "unback" /\ AllDone /\ phase' = "delete"
      /\ old' = Removals(res)
      /\ \A n \in Names : prev'[n] = Blank(0)
      /\ UNCHANGED <<t, res, cloud, made, new, want, rid, pid, dropped, unheard>>
  BY DEF UnbackEnds, histVars
<1>2. \A n \in Names :
        /\ new'[n] = "done" /\ old[n] = "done" /\ ~prev[n].saved
        /\ old'[n] = IF Gone(res[n]) THEN "done" ELSE "wait"
  BY <1>1 DEF Removals, AllDone, IInv, OldOK
<1>3. \A n \in Names : ~prev'[n].saved /\ prev'[n].id = 0 /\ Gone(prev'[n])
  BY <1>1, BlankOK
<1>4. RowsOK' /\ NewOK' /\ OldOK' /\ HeldOK'
  BY <1>1, <1>2, <1>3 DEF IInv, RowsOK, NewOK, OldOK, HeldOK
<1>5. Kept'
  BY <1>1, <1>2, <1>3 DEF IInv, Kept, Deleting, InMemory, InAir, AtYield
<1>6. QED
  BY <1>4, <1>5 DEF IInv

\* The actions that start, end or interrupt an operation.
LEMMA PhaseKeeps ==
  ASSUME TypeOK, IInv,
         PhaseEnds \/ Request \/ Timeout \/ CancelUpdate \/ Kill \/ Crashes
  PROVE  IInv'
<1>1. /\ res \in [Names -> Resources] /\ prev \in [Names -> Resources]
      /\ t \in Ids /\ pt \in Ids /\ want \in Ids /\ Nothing \in Ids
      /\ \A n \in Names : (res[n].saved => t[n] # 0) /\ (prev[n].saved => pt[n] # 0)
  BY DEF TypeOK, Nothing, Ids, IInv, RowsOK
<1>2. /\ Cut(res, OnRes) \in [Names -> Resources]
      /\ Cut(prev, OnPrev) \in [Names -> Resources]
  BY <1>1, CutOK
<1>3. \A n \in Names : phase = "purge" /\ res[n].saved => want[n] # 0
  BY DEF IInv, OldOK
<1>4. CASE CreateEnds
  <2>1. Leave(End(IF AllDone THEN "COMPLETE" ELSE "FAILED"), res, t, prev, pt)
    BY <1>4 DEF CreateEnds
  <2>2. QED
    BY <1>1, <2>1, AlikeSelf, LeaveKeeps
<1>5. CASE UpdateFails
  <2>1. CASE state.action = "UPDATE" /\ undo
    <3>1. AtYield
      BY <1>5 DEF UpdateFails, Stopped, AtYield, Running
    <3>2. QED
      BY <1>1, <1>5, <2>1, <3>1, AlikeSelf, RollbackKeeps DEF UpdateFails
  <2>2. CASE ~(state.action = "UPDATE" /\ undo)
    BY <1>1, <1>5, <2>2, AlikeSelf, LeaveKeeps DEF UpdateFails
  <2>3. QED BY <2>1, <2>2
<1>6. CASE PurgeEnds
  <2>1. CASE AllDone
    <3>1. Leave(End("COMPLETE"), res, want, prev, Nothing)
      BY <1>6, <2>1 DEF PurgeEnds
    <3>2. \A n \in Names : ~prev[n].saved
      BY <1>6, <2>1 DEF PurgeEnds, AllDone, IInv, OldOK
    <3>3. phase = "purge"
      BY <1>6 DEF PurgeEnds
    <3>4. QED
      BY <1>1, <1>3, <3>1, <3>2, <3>3, AlikeSelf, LeaveKeeps
  <2>2. CASE ~AllDone
    <3>1. Leave(End("COMPLETE"), res, want, prev, pt) /\ phase = "purge"
      BY <1>6, <2>2 DEF PurgeEnds
    <3>2. QED
      BY <1>1, <1>3, <3>1, AlikeSelf, LeaveKeeps
  <2>3. QED BY <2>1, <2>2
<1>7. CASE DeleteEnds
  <2>1. /\ Leave([action |-> "GONE", status |-> "COMPLETE"], res, Nothing, prev, pt)
        /\ phase = "delete" /\ AllDone
    BY <1>7 DEF DeleteEnds
  <2>2. \A n \in Names : ~res[n].saved
    BY <2>1 DEF AllDone, IInv, OldOK
  <2>3. QED
    BY <1>1, <2>1, <2>2, AlikeSelf, LeaveKeeps
<1>8. CASE DeleteFails
  <2>1. Leave(End("FAILED"), res, t, prev, pt)
    BY <1>8 DEF DeleteFails
  <2>2. QED
    BY <1>1, <2>1, AlikeSelf, LeaveKeeps
<1>9. CASE Timeout
  <2>1. CASE phase = "purge"
    <3>1. Leave(End("COMPLETE"), res, want, Cut(prev, OnPrev), pt)
      BY <1>9, <2>1 DEF Timeout
    <3>2. QED
      BY <1>1, <1>2, <1>3, <2>1, <3>1, AlikeCut, LeaveKeeps
  <2>2. CASE phase # "purge"
    <3>1. Leave(End("FAILED"), Cut(res, OnRes), t, Cut(prev, OnPrev), pt)
      BY <1>9, <2>2 DEF Timeout
    <3>2. QED
      BY <1>1, <1>2, <3>1, AlikeCut, LeaveKeeps
  <2>3. QED BY <2>1, <2>2
<1>10. CASE CancelUpdate
  BY <1>2, <1>10, AlikeCut, RollbackKeeps DEF CancelUpdate
<1>11. CASE Kill
  <2>1. Leave(state, Cut(res, OnRes), t, Cut(prev, OnPrev), pt)
    BY <1>11 DEF Kill
  <2>2. QED
    BY <1>1, <1>2, <2>1, AlikeCut, LeaveKeeps
<1>12. CASE Crash
  <2>1. Leave(state, res, t, prev, pt)
    BY <1>12 DEF Crash
  <2>2. QED
    BY <1>1, <2>1, AlikeSelf, LeaveKeeps
<1>13. CASE RejectUpdate \/ DeleteDies
  <2>1. UNCHANGED <<t, pt, res, prev, cloud, made, new, old, phase, want, rid, pid, dropped, unheard>>
    BY <1>13 DEF RejectUpdate, DeleteDies
  <2>2. QED
    BY <2>1 DEF IInv, RowsOK, NewOK, OldOK, HeldOK, Kept, Deleting, InRow, InMemory, InAir, AtYield
<1>14. CASE \E w \in Templates, u \in BOOLEAN : Update(w, u)
  BY <1>14, UpdateKeeps
<1>15. CASE UpdateDies
  <2>1. Leave(state, res, t, prev, pt)
    BY <1>15 DEF UpdateDies
  <2>2. QED
    BY <1>1, <2>1, AlikeSelf, LeaveKeeps
<1>16. QED
  BY <1>4, <1>5, <1>6, <1>7, <1>8, <1>9, <1>10, <1>11, <1>12, <1>13, <1>14, <1>15,
     CleanEndsKeeps, UpdateEndsKeeps, UnbackEndsKeeps, DeleteKeeps,
     CrashReplacingKeeps, CrashExchangingKeeps
  DEF PhaseEnds, Request, Crashes

LEMMA InvInit == Init => IInv
<1>1. SUFFICES ASSUME Init PROVE IInv
  OBVIOUS
<1>2. \A n \in Names : t[n] \in Nat
  BY <1>1, TemplatesAssumption DEF Init
<1>3. /\ cloud = {} /\ phase = "create"
      /\ \A n \in Names : /\ res[n] = Blank(t[n]) /\ prev[n] = Blank(0) /\ old[n] = "done"
                          /\ new[n] = IF t[n] # 0 THEN "wait" ELSE "done"
  BY <1>1 DEF Init
<1>4. \A n \in Names : /\ ~res[n].saved /\ res[n].id = 0 /\ res[n].def = t[n]
                       /\ ~prev[n].saved /\ prev[n].id = 0
  <2>1. ASSUME NEW d \in Nat, NEW r, r = Blank(d)
        PROVE  ~r.saved /\ r.id = 0 /\ r.def = d
    BY <2>1 DEF Blank
  <2>2. QED
    BY <1>2, <1>3, <2>1
<1>5. QED
  BY <1>3, <1>4 DEF IInv, RowsOK, NewOK, OldOK, HeldOK, Kept

LEMMA InvNext == TypeOK /\ IInv /\ [Next]_vars => IInv'
<1> SUFFICES ASSUME TypeOK, IInv, [Next]_vars PROVE IInv'
  OBVIOUS
<1>2. ASSUME NEW n \in Names, Alone(n), NewTask(n) PROVE IInv'
  <2>1. CASE Create(n)
    BY <2>1, CreateKeeps
  <2>2. CASE HandleCreate(n)
    BY <1>2, <2>2, HandleCreateKeeps
  <2>3. CASE CheckCreate(n)
    BY <2>3, CheckCreateKeeps
  <2>4. CASE UpToDate(n)
    BY <2>4, UpToDateKeeps
  <2>5. CASE RefuseUpdate(n)
    BY <2>5, RefuseUpdateKeeps
  <2>6. CASE UpdateInPlace(n)
    BY <2>6, UpdateInPlaceKeeps
  <2>7. CASE HandleUpdate(n)
    BY <2>7, HandleUpdateKeeps
  <2>8. CASE Exchange(n)
    BY <2>8, ExchangeKeeps
  <2>9. CASE ClearFirst(n)
    BY <2>9, ClearFirstKeeps
  <2>10. CASE EndClearNew(n)
    BY <2>10, EndClearNewKeeps
  <2>11. CASE Replace(n)
    BY <2>11, ReplaceKeeps
  <2>12. CASE CutNew(n)
    BY <2>12, StopsKeep
  <2>13. CASE ResourceIdSet(n)
    BY <2>13, ResourceIdSetKeeps
  <2>14. CASE ExchangeDies(n)
    BY <2>14, ExchangeDiesKeeps
  <2>15. QED
    BY <1>2, <2>1, <2>2, <2>3, <2>4, <2>5, <2>6, <2>7, <2>8, <2>9, <2>10, <2>11, <2>12,
       <2>13, <2>14 DEF NewTask
<1>3. ASSUME NEW n \in Names, OldTask(n) PROVE IInv'
  <2>1. CASE ClearOld(n)
    BY <2>1, ClearOldKeeps
  <2>2. CASE EndClearOld(n)
    BY <2>2, EndClearOldKeeps
  <2>3. CASE KeepOld(n)
    BY <2>3, KeepOldKeeps
  <2>4. CASE RemoveOld(n)
    BY <2>4, RemoveOldKeeps
  <2>5. CASE EndRemove(n)
    BY <2>5, EndRemoveKeeps
  <2>6. CASE ForgetOld(n)
    BY <2>6, ForgetOldKeeps
  <2>7. CASE CutOld(n)
    BY <2>7, StopsKeep
  <2>8. QED
    BY <1>3, <2>1, <2>2, <2>3, <2>4, <2>5, <2>6, <2>7 DEF OldTask
<1>4. ASSUME NEW n \in Names, FailNew(n) \/ FailOld(n) PROVE IInv'
  BY <1>4, StopsKeep
<1>5. CASE UNCHANGED vars
  <2>1. UNCHANGED <<t, pt, res, prev, cloud, made, new, old, phase, want, rid, pid, dropped, unheard>>
    BY <1>5 DEF vars, stackVars, opVars, histVars
  <2>2. QED
    BY <2>1 DEF IInv, RowsOK, NewOK, OldOK, HeldOK, Kept, Deleting, InRow, InMemory, InAir, AtYield
<1>6. QED
  BY <1>2, <1>3, <1>4, <1>5, PhaseKeeps, Zenon DEF Next, Work, Fails

\* No failure, timeout, cancellation, kill or crash loses a physical resource
\* whose id a row has had: but for what a delete held in memory and what only
\* a thread had heard of, each has a row that a later delete finds.
THEOREM NoneIsLost == Spec => []NoneLost
<1>1. TypeOK /\ IInv => NoneLost
  <2>1. SUFFICES ASSUME IInv, phase = "idle", NEW p \in cloud \ (dropped \cup unheard)
                 PROVE  Recorded(p)
    BY DEF NoneLost
  <2>2. InRow(p)
    <3>1. InAir = {}
      BY <2>1 DEF IInv, NewOK, InAir, AtYield
    <3>2. QED
      BY <2>1, <3>1 DEF IInv, Kept, Deleting
  <2>3. QED
    BY <2>1, <2>2 DEF InRow, IInv, RowsOK, Recorded
<1>2. TypeOK /\ IInv /\ [Next]_vars => (TypeOK /\ IInv)'
  BY TypeNext, InvNext
<1>3. QED
  BY <1>1, <1>2, TypeInit, InvInit, PTL DEF Spec
=============================================================================
