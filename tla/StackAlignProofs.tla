-------------------------- MODULE StackAlignProofs --------------------------
(***************************************************************************)
(* What the rows of a stack and of its backup say of the physical          *)
(* resources: no two stand for the same one, and an update or a rollback   *)
(* that ends COMPLETE has brought each to its template.  And no operation  *)
(* gets stuck: while tasks are left one of them can go on.  For any names, *)
(* dependencies, templates and bounds.                                     *)
(***************************************************************************)
EXTENDS StackLifeProofs, WellFoundedInduction

\* What the state of the stack says of the operation that runs.
PhaseOK ==
    /\ phase # "idle" => state.status = "IN_PROGRESS"
    /\ phase = "create" => state.action = "CREATE"
    /\ phase = "clean" => state.action = "UPDATE"
    /\ phase \in {"update", "purge"} => state.action \in {"UPDATE", "ROLLBACK"}
    /\ Deleting => state.action = "DELETE"
    /\ dropped # {} => state.action \in {"DELETE", "GONE"}

\* A new id is new everywhere.
IdsOK == \A n \in Names :
    /\ res[n].id <= made /\ prev[n].id <= made
    /\ rid[n] <= made /\ pid[n] <= made

\* Single, for the ids a delete holds in memory.
SingleIds(f, g) ==
    \A m, n \in Names :
        /\ f[m] = f[n] /\ f[m] # 0 => m = n
        /\ g[m] = g[n] /\ g[m] # 0 => m = n
        /\ f[m] = 0 \/ f[m] # g[n]

\* While a delete goes on, the rows of n have the ids it was loaded with or
\* those it exchanged, or none.
MemoryOf(n) ==
    IF phase = "delete" THEN prev[n].id = 0 /\ res[n].id \in {rid[n], pid[n], 0}
    ELSE \/ res[n].id = rid[n] /\ prev[n].id \in {pid[n], 0}
         \/ res[n].id = pid[n] /\ prev[n].id \in {rid[n], pid[n], 0}

SharedOK == dropped = {} =>
    IF Deleting THEN SingleIds(rid, pid) /\ \A n \in Names : MemoryOf(n)
                ELSE Single(res, prev)

SInv == PhaseOK /\ IdsOK /\ SharedOK

\* What a service has answered, and no row says yet, is of one task, and new.
AirOK == ~AtYield =>
    /\ made \in cloud
    /\ \A n \in Names : res[n].id # made /\ prev[n].id # made
    /\ \A m, n \in Names : new[m] = "called" /\ new[n] = "called" => m = n

-----------------------------------------------------------------------------
(* Helpers.                                                                *)

\* What a task leaves alone, whatever it does.
Frame(n) ==
    /\ \A m \in Names \ {n} :
         /\ res'[m] = res[m] /\ prev'[m] = prev[m]
         /\ new'[m] = new[m] /\ old'[m] = old[m]
         /\ t'[m] = t[m] /\ pt'[m] = pt[m]
    /\ UNCHANGED <<phase, want, rid, pid, dropped, state, orig, undo, interrupted, found>>

\* A task takes a step when no other one is between its call and its row.
Steps(n) == \/ Alone(n) /\ (NewTask(n) \/ FailNew(n))
            \/ AtYield /\ (OldTask(n) \/ FailOld(n))

LEMMA NewTaskFrame ==
  ASSUME TypeOK, NEW n \in Names, NewTask(n) \/ FailNew(n)
  PROVE  Frame(n)
<1>1. CASE Create(n) \/ HandleCreate(n) \/ ResourceIdSet(n) \/ CheckCreate(n)
  BY <1>1 DEF TypeOK, Frame, Create, HandleCreate, ResourceIdSet, CheckCreate, stackVars, opVars, histVars
<1>2. CASE UpToDate(n) \/ RefuseUpdate(n) \/ UpdateInPlace(n) \/ HandleUpdate(n)
  BY <1>2 DEF TypeOK, Frame, UpToDate, RefuseUpdate, UpdateInPlace, HandleUpdate,
              stackVars, opVars, histVars
<1>3. CASE Exchange(n) \/ ExchangeDies(n) \/ ClearFirst(n) \/ EndClearNew(n)
  BY <1>3 DEF TypeOK, Ids, Frame, Exchange, ExchangeDies, ClearFirst, EndClearNew,
              stackVars, opVars, histVars
<1>4. CASE Replace(n)
  <2>1. \A m \in Names \ {n} : prev'[m] = prev[m] /\ pt'[m] = pt[m]
    BY <1>4 DEF TypeOK, Ids, Replace
  <2>2. /\ \A m \in Names \ {n} : res'[m] = res[m] /\ new'[m] = new[m] /\ t'[m] = t[m]
        /\ old' = old
        /\ UNCHANGED <<phase, want, rid, pid, dropped, state, orig, undo, interrupted, found>>
    BY <1>4 DEF TypeOK, Ids, Replace, opVars, histVars
  <2>3. QED
    BY <2>1, <2>2 DEF Frame
<1>5. CASE CutNew(n) \/ FailNew(n)
  BY <1>5 DEF TypeOK, Frame, CutNew, FailNew, StopNew, stackVars, opVars
<1>6. QED
  BY <1>1, <1>2, <1>3, <1>4, <1>5 DEF NewTask

LEMMA OldTaskFrame ==
  ASSUME TypeOK, NEW n \in Names, OldTask(n) \/ FailOld(n)
  PROVE  Frame(n)
<1>1. CASE ClearOld(n) \/ EndClearOld(n) \/ KeepOld(n) \/ RemoveOld(n)
  BY <1>1 DEF TypeOK, Frame, ClearOld, EndClearOld, KeepOld, RemoveOld,
              stackVars, opVars, histVars
<1>2. CASE EndRemove(n) \/ ForgetOld(n)
  BY <1>2 DEF TypeOK, Ids, Frame, EndRemove, ForgetOld, opVars, histVars
<1>3. CASE CutOld(n) \/ FailOld(n)
  BY <1>3 DEF TypeOK, Frame, CutOld, FailOld, StopOld, stackVars, opVars, histVars
<1>4. QED
  BY <1>1, <1>2, <1>3 DEF OldTask

LEMMA StateParts ==
  ASSUME TypeOK
  PROVE  /\ state.action \in {"CREATE", "UPDATE", "ROLLBACK", "DELETE", "GONE"}
         /\ \A s : End(s).action = state.action /\ End(s).status = s
  BY DEF TypeOK, End

\* The fields of the rows that a step replaces.
LEMMA BlankFields ==
  ASSUME NEW d
  PROVE  /\ Blank(d).id = 0 /\ ~Blank(d).saved /\ Blank(d).status = "COMPLETE"
         /\ Blank(d).def = d /\ Blank(d).action = "INIT"
  BY DEF Blank

LEMMA RowFields ==
  ASSUME NEW r \in Resources
  PROVE  /\ /\ Failed(r).id = r.id /\ Failed(r).saved = r.saved /\ Failed(r).def = r.def
            /\ Failed(r).status = "FAILED"
         /\ /\ Backed(r).id = r.id /\ Backed(r).saved = r.saved /\ Backed(r).def = r.def
            /\ Backed(r).status = "COMPLETE" /\ Backed(r).real = r.real
         /\ /\ Started(r).id = r.id /\ Started(r).saved /\ Started(r).def = r.def
            /\ Started(r).status = "IN_PROGRESS"
  BY DEF Resources, Failed, Backed, Started, Began

LEMMA BeganFields ==
  ASSUME NEW r \in Resources, NEW a, NEW i
  PROVE  /\ /\ Began(r, a).id = r.id /\ Began(r, a).saved = r.saved /\ Began(r, a).def = r.def
            /\ Began(r, a).status = "IN_PROGRESS" /\ Began(r, a).real = r.real
         /\ /\ Removing(r, i).id = i /\ Removing(r, i).saved = r.saved
            /\ Removing(r, i).def = r.def /\ Removing(r, i).status = "IN_PROGRESS"
  BY DEF Resources, Removing, Began

-----------------------------------------------------------------------------
(* No two rows for one resource.                                           *)

\* The ids of n after a step are among those before, and still differ.
IdsLeft(n) ==
    /\ res'[n].id \in {res[n].id, prev[n].id, 0}
    /\ prev'[n].id \in {res[n].id, prev[n].id, 0}
    /\ (res[n].id = 0 \/ res[n].id # prev[n].id) => (res'[n].id = 0 \/ res'[n].id # prev'[n].id)

LEMMA StaysSingle ==
  ASSUME NEW n \in Names, Frame(n), IdsLeft(n), Single(res, prev)
  PROVE  Single(res', prev')
  BY DEF Single, Frame, IdsLeft

LEMMA NewTaskIds ==
  ASSUME TypeOK, NEW n \in Names,
         NewTask(n) \/ FailNew(n), ~ResourceIdSet(n)
  PROVE  IdsLeft(n) /\ made' \in {made, made + 1}
<1>1. res[n] \in Resources /\ prev[n] \in Resources
  BY FieldTypes
<1>2. CASE Create(n)
  <2>1. res'[n] = Started(res[n]) /\ prev'[n] = prev[n] /\ made' = made
    BY <1>2 DEF TypeOK, Create
  <2>2. QED
    BY <1>1, <2>1, RowFields DEF IdsLeft
<1>3. CASE CheckCreate(n)
  <2>1. /\ res'[n] = [res[n] EXCEPT !.status = "COMPLETE", !.real = res[n].def]
        /\ prev'[n] = prev[n] /\ made' = made
    BY <1>3 DEF TypeOK, CheckCreate
  <2>2. res'[n].id = res[n].id
    BY <1>1, <2>1, CheckedOK
  <2>3. QED
    BY <1>1, <2>1, <2>2 DEF IdsLeft
<1>4. CASE UpToDate(n) \/ RefuseUpdate(n) \/ ExchangeDies(n) \/ HandleCreate(n)
  BY <1>1, <1>4 DEF UpToDate, RefuseUpdate, ExchangeDies, HandleCreate, IdsLeft
<1>5. CASE UpdateInPlace(n)
  <2>1. res'[n] = Began(res[n], "UPDATE") /\ prev'[n] = prev[n] /\ made' = made
    BY <1>5 DEF TypeOK, UpdateInPlace
  <2>2. QED
    BY <1>1, <2>1, BeganFields DEF IdsLeft
<1>6. CASE HandleUpdate(n)
  <2>1. /\ res'[n] = [res[n] EXCEPT !.status = "COMPLETE", !.def = want[n], !.real = want[n]]
        /\ prev'[n] = prev[n] /\ made' = made
    BY <1>6 DEF TypeOK, HandleUpdate
  <2>2. res'[n].id = res[n].id
    BY <1>1, <2>1 DEF Resources
  <2>3. QED
    BY <1>1, <2>1, <2>2 DEF IdsLeft
<1>7. CASE Exchange(n)
  BY <1>1, <1>7 DEF TypeOK, Exchange, IdsLeft
<1>8. CASE ClearFirst(n)
  <2>1. res'[n] = res[n] /\ prev'[n] = Removing(prev[n], prev[n].id) /\ made' = made
    BY <1>8 DEF TypeOK, ClearFirst
  <2>2. QED
    BY <1>1, <2>1, BeganFields DEF IdsLeft
<1>9. CASE EndClearNew(n)
  <2>1. res'[n] = res[n] /\ prev'[n] = Blank(pt[n]) /\ made' = made
    BY <1>9 DEF TypeOK, EndClearNew
  <2>2. QED
    BY <1>1, <2>1, BlankFields DEF IdsLeft
<1>10. CASE Replace(n)
  <2>1. /\ res'[n] = Started(Blank(want[n])) /\ made' = made
        /\ prev'[n] = prev[n] \/ prev'[n] = Backed(res[n])
    BY <1>10 DEF TypeOK, Replace
  <2>2. res'[n].id = 0
    BY <2>1, FieldTypes, BlankType, BlankFields, RowFields
  <2>3. prev'[n].id \in {prev[n].id, res[n].id}
    BY <1>1, <2>1, RowFields
  <2>4. QED
    BY <2>1, <2>2, <2>3 DEF IdsLeft
<1>11. CASE CutNew(n) \/ FailNew(n)
  <2>1. Alike(res', prev') /\ made' = made
    BY <1>11, StopAlike DEF CutNew, FailNew, StopNew
  <2>2. QED
    BY <1>1, <2>1 DEF Alike, IdsLeft
<1>12. QED
  BY <1>2, <1>3, <1>4, <1>5, <1>6, <1>7, <1>8, <1>9, <1>10, <1>11 DEF NewTask

LEMMA OldTaskIds ==
  ASSUME TypeOK, ~Deleting, NEW n \in Names, OldTask(n) \/ FailOld(n)
  PROVE  IdsLeft(n) /\ made' = made
<1>1. res[n] \in Resources /\ prev[n] \in Resources
  BY FieldTypes
<1>2. CASE ClearOld(n)
  <2>1. res'[n] = res[n] /\ prev'[n] = Removing(prev[n], prev[n].id) /\ made' = made
    BY <1>2 DEF TypeOK, ClearOld, Deleting
  <2>2. QED
    BY <1>1, <2>1, BeganFields DEF IdsLeft
<1>3. CASE EndClearOld(n)
  <2>1. res'[n] = res[n] /\ prev'[n] = Blank(pt[n]) /\ made' = made
    BY <1>3 DEF TypeOK, EndClearOld
  <2>2. QED
    BY <1>1, <2>1, BlankFields DEF IdsLeft
<1>4. CASE KeepOld(n)
  BY <1>1, <1>4 DEF KeepOld, IdsLeft
<1>5. CASE RemoveOld(n)
  <2>1. prev'[n] = prev[n] /\ res'[n] = Removing(res[n], res[n].id) /\ made' = made
    BY <1>5 DEF TypeOK, RemoveOld, Deleting
  <2>2. QED
    BY <1>1, <2>1, BeganFields DEF IdsLeft
<1>6. CASE EndRemove(n) \/ ForgetOld(n)
  <2>1. prev'[n] = prev[n] /\ made' = made /\ \E d : res'[n] = Blank(d)
    BY <1>6 DEF TypeOK, EndRemove, ForgetOld
  <2>2. QED
    BY <1>1, <2>1, BlankFields DEF IdsLeft
<1>7. CASE CutOld(n) \/ FailOld(n)
  <2>1. Alike(res', prev') /\ made' = made
    BY <1>7, StopAlike DEF CutOld, FailOld, StopOld
  <2>2. QED
    BY <1>1, <2>1 DEF Alike, IdsLeft
<1>8. QED
  BY <1>2, <1>3, <1>4, <1>5, <1>6, <1>7 DEF OldTask

\* During a delete only the tasks of the existing stack do anything.
MemoryLeft(n) ==
    /\ res'[n].id \in {res[n].id, rid[n], 0}
    /\ prev'[n].id \in {prev[n].id, pid[n], 0}
    /\ MemoryOf(n) => MemoryOf(n)'

LEMMA DeletingIds ==
  ASSUME TypeOK, IInv, Deleting, NEW n \in Names, OldTask(n) \/ FailOld(n)
  PROVE  MemoryLeft(n) /\ made' = made
<1>1. res[n] \in Resources /\ prev[n] \in Resources
  BY FieldTypes
<1>2. UNCHANGED <<phase, rid, pid>>
  BY OldTaskFrame DEF Frame
<1>3. CASE ClearOld(n)
  <2>1. phase = "unback" /\ res'[n] = res[n] /\ prev'[n] = Removing(prev[n], pid[n]) /\ made' = made
    BY <1>3 DEF TypeOK, ClearOld, Deleting
  <2>2. QED
    BY <1>1, <1>2, <2>1, BeganFields DEF MemoryLeft, MemoryOf
<1>4. CASE EndClearOld(n)
  <2>1. phase = "unback" /\ res'[n] = res[n] /\ prev'[n] = Blank(pt[n]) /\ made' = made
    BY <1>4 DEF TypeOK, EndClearOld, Deleting, IInv, OldOK
  <2>2. QED
    BY <1>2, <2>1, BlankFields DEF MemoryLeft, MemoryOf
<1>5. CASE RemoveOld(n)
  <2>1. /\ phase = "delete" /\ prev'[n] = prev[n]
        /\ res'[n] = Removing(res[n], rid[n]) /\ made' = made
    BY <1>5 DEF TypeOK, RemoveOld, OldCleared, Deleting
  <2>2. QED
    BY <1>1, <1>2, <2>1, BeganFields DEF MemoryLeft, MemoryOf
<1>6. CASE EndRemove(n)
  <2>1. phase = "delete" /\ prev'[n] = prev[n] /\ made' = made /\ \E d : res'[n] = Blank(d)
    BY <1>6 DEF TypeOK, EndRemove, Deleting, IInv, OldOK
  <2>2. QED
    BY <1>2, <2>1, BlankFields DEF MemoryLeft, MemoryOf
<1>7. CASE KeepOld(n) \/ ForgetOld(n)
  BY <1>7 DEF KeepOld, ForgetOld, OldCleared, Deleting
<1>8. CASE CutOld(n) \/ FailOld(n)
  <2>1. Alike(res', prev') /\ made' = made
    BY <1>8, StopAlike DEF CutOld, FailOld, StopOld
  <2>2. QED
    BY <1>2, <2>1 DEF Alike, MemoryLeft, MemoryOf
<1>9. QED
  BY <1>3, <1>4, <1>5, <1>6, <1>7, <1>8 DEF OldTask

LEMMA DeletingStill ==
  ASSUME IInv, Deleting, NEW n \in Names, NewTask(n) \/ FailNew(n)
  PROVE  FALSE
<1>1. new[n] = "done" /\ phase # "create" /\ phase # "update"
  BY DEF IInv, NewOK, Deleting
<1>2. QED
  BY <1>1 DEF NewTask, FailNew, CutNew, StopNew, Running, Create, HandleCreate, ResourceIdSet,
              CheckCreate, UpToDate, RefuseUpdate, UpdateInPlace, HandleUpdate, Exchange,
              Exchanges, ExchangeDies, ClearFirst, EndClearNew, Replace, Replaces, NeedsNew

LEMMA TaskShares ==
  ASSUME TypeOK, IInv, SInv, AirOK, NEW n \in Names, Steps(n)
  PROVE  SInv'
<1> USE DEF Steps
<1>1. Frame(n)
  BY NewTaskFrame, OldTaskFrame
<1>2. PhaseOK'
  BY <1>1 DEF SInv, PhaseOK, Frame, Deleting
<1>3. made \in Nat /\ \A m \in Names : /\ res[m].id <= made /\ prev[m].id <= made
                                       /\ rid[m] <= made /\ pid[m] <= made
                                       /\ res[m].id \in Nat /\ prev[m].id \in Nat
                                       /\ rid[m] \in Nat /\ pid[m] \in Nat
  BY FieldTypes DEF SInv, IdsOK, TypeOK
<1>4. CASE ResourceIdSet(n)
  <2>1. /\ res'[n] = [res[n] EXCEPT !.id = made] /\ prev'[n] = prev[n] /\ made' = made
        /\ new[n] = "called"
    BY <1>4 DEF TypeOK, ResourceIdSet
  <2>2. res'[n].id = made /\ ~Deleting
    BY <2>1, FieldTypes, MadeOK DEF IInv, NewOK, Deleting
  <2>3. \A m \in Names : res[m].id # made /\ prev[m].id # made
    BY <2>1 DEF AirOK, AtYield
  <2>4. \A m \in Names : prev'[m] = prev[m] /\ (m # n => res'[m] = res[m])
    BY <1>1, <2>1 DEF Frame
  <2>5. UNCHANGED <<phase, dropped, rid, pid>>
    BY <1>1 DEF Frame
  <2>6. IdsOK'
    <3>1. made <= made
      BY <1>3
    <3>2. ASSUME NEW m \in Names PROVE res'[m].id <= made /\ prev'[m].id <= made
      BY <1>3, <2>2, <2>4, <3>1
    <3>3. QED
      BY <1>3, <2>1, <2>5, <3>2 DEF IdsOK
  <2>7. SharedOK'
    <3>1. ASSUME dropped = {}, NEW m \in Names, NEW k \in Names
          PROVE  /\ res'[m].id = res'[k].id /\ res'[m].id # 0 => m = k
                 /\ prev'[m].id = prev'[k].id /\ prev'[m].id # 0 => m = k
                 /\ res'[m].id = 0 \/ res'[m].id # prev'[k].id
      <4>1. Single(res, prev)
        BY <2>2, <3>1 DEF SInv, SharedOK
      <4>2. QED
        BY <2>2, <2>3, <2>4, <4>1 DEF Single
    <3>2. QED
      BY <2>2, <2>5, <3>1 DEF SharedOK, Single, Deleting
  <2>8. QED
    BY <1>2, <2>6, <2>7 DEF SInv
<1>5. CASE ~ResourceIdSet(n) /\ ~Deleting
  <2>1. IdsLeft(n) /\ made' \in {made, made + 1}
    BY <1>5, NewTaskIds, OldTaskIds
  <2>2. \A i \in Nat : i <= made => i <= made'
    BY <1>3, <2>1
  <2>3. 0 <= made'
    BY <1>3, <2>1
  <2>4. ASSUME NEW m \in Names PROVE res'[m].id <= made' /\ prev'[m].id <= made'
    <3>1. /\ res[m].id <= made' /\ prev[m].id <= made'
          /\ res[n].id <= made' /\ prev[n].id <= made'
      BY <1>3, <2>2
    <3>2. /\ res'[m].id \in {res[n].id, prev[n].id, res[m].id, 0}
          /\ prev'[m].id \in {res[n].id, prev[n].id, prev[m].id, 0}
      BY <1>1, <2>1 DEF IdsLeft, Frame
    <3>3. QED
      BY <2>3, <3>1, <3>2
  <2>5. \A m \in Names : rid'[m] <= made' /\ pid'[m] <= made'
    BY <1>1, <1>3, <2>2 DEF Frame
  <2>6. IdsOK'
    BY <2>4, <2>5 DEF IdsOK
  <2>7. SharedOK'
    BY <1>1, <1>5, <2>1, StaysSingle DEF SInv, SharedOK, Deleting, Frame
  <2>8. QED
    BY <1>2, <2>6, <2>7 DEF SInv
<1>6. CASE Deleting
  <2>1. MemoryLeft(n) /\ made' = made
    BY <1>6, DeletingIds, DeletingStill
  <2>2. IdsOK'
    BY <1>1, <2>1, FieldTypes DEF SInv, IdsOK, MemoryLeft, Frame, TypeOK
  <2>3. ASSUME dropped = {}, NEW m \in Names PROVE MemoryOf(m)'
    <3>1. MemoryOf(m)
      BY <1>6, <2>3 DEF SInv, SharedOK
    <3>2. QED
      BY <1>1, <2>1, <3>1 DEF MemoryLeft, MemoryOf, Frame
  <2>4. SharedOK'
    BY <1>1, <1>6, <2>3 DEF SInv, SharedOK, SingleIds, Deleting, Frame
  <2>5. QED
    BY <1>2, <2>2, <2>4 DEF SInv
<1>7. QED
  BY <1>4, <1>5, <1>6

\* When a delete ends and holds no id that its rows do not have, its rows
\* are again as different as the ids it held.
LEMMA MemorySettles ==
  ASSUME Deleting, Held = {}, SingleIds(rid, pid), \A n \in Names : MemoryOf(n)
  PROVE  Single(res, prev)
<1>1. \A n \in Names : rid[n] \in {res[n].id, prev[n].id}
  BY DEF Held, Deleting
<1>2. \A n \in Names : /\ res[n].id \in {rid[n], pid[n], 0} /\ prev[n].id \in {rid[n], pid[n], 0}
                       /\ res[n].id = 0 \/ res[n].id # prev[n].id
  BY <1>1 DEF MemoryOf, SingleIds, Deleting
<1>3. QED
  BY <1>2 DEF Single, SingleIds

\* What becomes of the ids when an operation is left or its rows are loaded.
Kin(rs, ps) ==
    \A n \in Names : /\ rs[n].id \in {res[n].id, 0}
                     /\ ps[n].id \in {prev[n].id, 0}

LEMMA KinSingle ==
  ASSUME NEW rs, NEW ps, Kin(rs, ps), Single(res, prev)
  PROVE  Single(rs, ps)
  BY DEF Kin, Single

LEMMA KinLoaded ==
  ASSUME TypeOK, NEW rs \in [Names -> Resources], NEW ps \in [Names -> Resources],
         NEW tm \in Ids, NEW ptm \in Ids, Alike(rs, ps)
  PROVE  Kin(Loaded(rs, tm), Loaded(ps, ptm)) /\ Kin(rs, Loaded(ps, ptm))
<1>1. ASSUME NEW n \in Names
      PROVE  /\ Loaded(rs, tm)[n].id \in {rs[n].id, 0}
             /\ Loaded(ps, ptm)[n].id \in {ps[n].id, 0}
  BY LoadedOK
<1>2. \A n \in Names : rs[n].id = res[n].id /\ ps[n].id = prev[n].id
  BY DEF Alike
<1>3. QED
  BY <1>1, <1>2 DEF Kin

LEMMA KinIds ==
  ASSUME TypeOK, SInv, Kin(res', prev'), made' = made,
         \A n \in Names : rid'[n] \in {rid[n], res[n].id, prev[n].id, 0}
                          /\ pid'[n] \in {pid[n], res[n].id, prev[n].id, 0}
  PROVE  IdsOK'
<1>1. made \in Nat
  BY DEF TypeOK
<1>2. \A n \in Names : /\ res[n].id <= made /\ prev[n].id <= made
                       /\ rid[n] <= made /\ pid[n] <= made
  BY DEF SInv, IdsOK
<1>3. 0 <= made
  BY <1>1
<1>4. QED
  BY <1>2, <1>3 DEF IdsOK, Kin

LEMMA LeaveShares ==
  ASSUME TypeOK, IInv, SInv, NEW st, st.action = state.action \/ st.action = "GONE",
         NEW rs \in [Names -> Resources], NEW tm \in Ids,
         NEW ps \in [Names -> Resources], NEW ptm \in Ids,
         Alike(rs, ps), Leave(st, rs, tm, ps, ptm)
  PROVE  SInv'
<1>1. /\ state' = st /\ res' = Loaded(rs, tm) /\ prev' = Loaded(ps, ptm)
      /\ phase' = "idle" /\ made' = made /\ dropped' = dropped \cup Held
      /\ rid' = Nothing /\ pid' = Nothing
  BY DEF Leave
<1>2. Kin(res', prev')
  BY <1>1, KinLoaded
<1>3. IdsOK'
  BY <1>1, <1>2, KinIds DEF Nothing
<1>4. PhaseOK'
  BY <1>1 DEF SInv, PhaseOK, Held, Deleting
<1>5. ASSUME dropped = {}, Held = {} PROVE Single(res, prev)
  BY <1>5, MemorySettles DEF SInv, SharedOK
<1>6. SharedOK'
  BY <1>1, <1>2, <1>5, KinSingle DEF SharedOK, Deleting
<1>7. QED
  BY <1>3, <1>4, <1>6 DEF SInv

LEMMA RollbackShares ==
  ASSUME TypeOK, IInv, SInv, phase \in {"clean", "update"},
         NEW rs \in [Names -> Resources], NEW ps \in [Names -> Resources],
         Alike(rs, ps), Rollback(rs, ps)
  PROVE  SInv'
<1>1. /\ state' = [action |-> "ROLLBACK", status |-> "IN_PROGRESS"]
      /\ res' = rs /\ prev' = Loaded(ps, pt) /\ phase' = "update"
      /\ UNCHANGED <<made, rid, pid, dropped>>
  BY DEF Rollback, histVars
<1>2. Kin(res', prev')
  BY <1>1, KinLoaded DEF TypeOK
<1>3. IdsOK'
  BY <1>1, <1>2, KinIds
<1>4. PhaseOK'
  BY <1>1 DEF SInv, PhaseOK, Deleting
<1>5. SharedOK'
  BY <1>1, <1>2, KinSingle DEF SInv, SharedOK, Deleting
<1>6. QED
  BY <1>3, <1>4, <1>5 DEF SInv

LEMMA UpdateShares ==
  ASSUME TypeOK, IInv, SInv, NEW w \in Templates, NEW u, Update(w, u)
  PROVE  SInv'
<1>1. /\ state' = [action |-> "UPDATE", status |-> "IN_PROGRESS"] /\ phase = "idle" /\ phase' = "clean"
      /\ state.action \notin {"DELETE", "GONE"}
      /\ pt' = (IF Backup THEN pt ELSE t) /\ res' = res /\ prev' = Loaded(prev, pt')
      /\ UNCHANGED <<made, rid, pid, dropped>>
  BY DEF Update, MayUpdate
<1>2. Kin(res', prev')
  <2>1. /\ res \in [Names -> Resources] /\ prev \in [Names -> Resources] /\ pt' \in Ids
    BY <1>1 DEF TypeOK
  <2>2. QED
    BY <1>1, <2>1, AlikeSelf, KinLoaded
<1>3. IdsOK'
  BY <1>1, <1>2, KinIds
<1>4. PhaseOK'
  BY <1>1 DEF SInv, PhaseOK, Deleting
<1>5. SharedOK'
  BY <1>1, <1>2, KinSingle DEF SInv, SharedOK, Deleting
<1>6. QED
  BY <1>3, <1>4, <1>5 DEF SInv

LEMMA DeleteShares == ASSUME TypeOK, IInv, SInv, Delete PROVE SInv'
<1>1. /\ state' = [action |-> "DELETE", status |-> "IN_PROGRESS"]
      /\ phase = "idle" /\ phase' = IF Backup THEN "unback" ELSE "delete"
      /\ UNCHANGED <<res, prev, made, dropped>>
  BY DEF Delete, MayDelete
<1>2. \A n \in Names :
        /\ prev[n].id # 0 => Backup
        /\ \/ rid'[n] = res[n].id /\ pid'[n] = prev[n].id
           \/ rid'[n] = prev[n].id /\ pid'[n] = res[n].id /\ prev[n].id # 0
  BY DEF Delete, Exchanged, Backup, IInv, RowsOK
<1>3. IdsOK'
  BY <1>1, <1>2, KinIds DEF Kin
<1>4. PhaseOK'
  BY <1>1 DEF SInv, PhaseOK, Deleting
<1>5. SharedOK'
  <2>1. ASSUME dropped = {} PROVE SingleIds(rid, pid)'
    <3>1. Single(res, prev)
      BY <1>1, <2>1 DEF SInv, SharedOK, Deleting
    <3>2. QED
      BY <1>2, <3>1 DEF Single, SingleIds
  <2>2. ASSUME NEW n \in Names PROVE MemoryOf(n)'
    BY <1>1, <1>2 DEF MemoryOf
  <2>3. QED
    BY <1>1, <2>1, <2>2 DEF SharedOK, Deleting
<1>6. QED
  BY <1>3, <1>4, <1>5 DEF SInv

\* A phase that follows another keeps the rows.
LEMMA MiddleShares ==
  ASSUME TypeOK, IInv, SInv, CleanEnds \/ UpdateEnds \/ UnbackEnds
  PROVE  SInv'
<1>1. CASE CleanEnds \/ UpdateEnds
  <2>1. /\ phase \in {"clean", "update"} /\ phase' \in {"update", "purge"}
        /\ UNCHANGED <<state, res, prev, made, rid, pid, dropped>>
    BY <1>1 DEF CleanEnds, UpdateEnds, stackVars, histVars
  <2>2. QED
    BY <2>1 DEF SInv, PhaseOK, IdsOK, SharedOK, Deleting
<1>2. CASE UnbackEnds
  <2>1. /\ phase = "unback" /\ phase' = "delete"
        /\ \A n \in Names : prev'[n] = Blank(0)
        /\ UNCHANGED <<state, res, made, rid, pid, dropped>>
    BY <1>2 DEF UnbackEnds, histVars
  <2>2. \A n \in Names : prev'[n].id = 0
    BY <2>1, BlankFields
  <2>3. IdsOK'
    BY <2>1, <2>2, KinIds DEF Kin
  <2>4. PhaseOK'
    BY <2>1 DEF SInv, PhaseOK, Deleting
  <2>5. SharedOK'
    BY <2>1, <2>2 DEF SInv, SharedOK, MemoryOf, SingleIds, Deleting
  <2>6. QED
    BY <2>3, <2>4, <2>5 DEF SInv
<1>3. QED
  BY <1>1, <1>2

\* A crash between two commits leaves n's resource in one row or in neither.
LEMMA TornShares ==
  ASSUME TypeOK, IInv, SInv, NEW n \in Names, CrashReplacing(n) \/ CrashExchanging(n)
  PROVE  SInv'
<1>1. /\ phase = "update" /\ made \in Nat
      /\ \E rs, ps \in [Names -> Resources], tm, ptm \in Ids :
           /\ Leave(state, rs, tm, ps, ptm)
           /\ \A m \in Names \ {n} : rs[m] = res[m] /\ ps[m] = prev[m]
           /\ \/ rs[n].id = res[n].id /\ ps[n].id = prev[n].id
              \/ rs[n].id = prev[n].id /\ ps[n].id = res[n].id
              \/ rs[n].id = 0 /\ ps[n].id = res[n].id
  BY TornLeaves DEF TypeOK
<1>2. PICK rs \in [Names -> Resources], ps \in [Names -> Resources], tm \in Ids, ptm \in Ids :
        /\ Leave(state, rs, tm, ps, ptm)
        /\ \A m \in Names \ {n} : rs[m] = res[m] /\ ps[m] = prev[m]
        /\ \/ rs[n].id = res[n].id /\ ps[n].id = prev[n].id
           \/ rs[n].id = prev[n].id /\ ps[n].id = res[n].id
           \/ rs[n].id = 0 /\ ps[n].id = res[n].id
  BY <1>1
<1>3. /\ state' = state /\ res' = Loaded(rs, tm) /\ prev' = Loaded(ps, ptm)
      /\ phase' = "idle" /\ made' = made /\ dropped' = dropped /\ ~Deleting
      /\ rid' = Nothing /\ pid' = Nothing
  BY <1>1, <1>2 DEF Leave, Held, Deleting
<1>4. \A m \in Names : res'[m].id \in {rs[m].id, 0} /\ prev'[m].id \in {ps[m].id, 0}
  BY <1>2, <1>3, LoadedOK
<1>5. PhaseOK'
  BY <1>3 DEF SInv, PhaseOK, Deleting
<1>6. IdsOK'
  <2>1. /\ 0 <= made
        /\ \A m \in Names : res[m].id <= made /\ prev[m].id <= made
    BY <1>1 DEF SInv, IdsOK
  <2>2. \A m \in Names : /\ res'[m].id \in {res[m].id, prev[m].id, 0}
                         /\ prev'[m].id \in {res[m].id, prev[m].id, 0}
    BY <1>2, <1>4
  <2>3. QED
    BY <1>3, <2>1, <2>2 DEF IdsOK, Nothing
<1>7. ASSUME Single(res, prev) PROVE Single(rs, ps)
  BY <1>2, <1>7 DEF Single
<1>8. ASSUME Single(res, prev) PROVE Single(res', prev')
  BY <1>4, <1>7, <1>8 DEF Single
<1>9. SharedOK'
  BY <1>3, <1>8 DEF SInv, SharedOK, Deleting
<1>10. QED
  BY <1>5, <1>6, <1>9 DEF SInv

\* The actions that leave an operation.
LEMMA LeavesShare ==
  ASSUME TypeOK, IInv, SInv,
         CreateEnds \/ (UpdateFails /\ ~(state.action = "UPDATE" /\ undo)) \/ PurgeEnds
           \/ UpdateDies \/ DeleteEnds \/ DeleteFails \/ Timeout \/ Kill \/ Crashes
  PROVE  SInv'
<1>1. /\ res \in [Names -> Resources] /\ prev \in [Names -> Resources]
      /\ t \in Ids /\ pt \in Ids /\ want \in Ids /\ Nothing \in Ids
      /\ Alike(res, prev)
  BY AlikeSelf DEF TypeOK, Nothing, Ids
<1>2. /\ Cut(res, OnRes) \in [Names -> Resources]
      /\ Cut(prev, OnPrev) \in [Names -> Resources]
      /\ Alike(Cut(res, OnRes), Cut(prev, OnPrev)) /\ Alike(res, Cut(prev, OnPrev))
  BY <1>1, CutOK, AlikeCut
<1>3. \A s : End(s).action = state.action
  BY StateParts
<1>4. CASE CreateEnds
  BY <1>1, <1>3, <1>4, LeaveShares DEF CreateEnds
<1>5. CASE UpdateFails /\ ~(state.action = "UPDATE" /\ undo)
  BY <1>1, <1>3, <1>5, LeaveShares DEF UpdateFails
<1>6. CASE PurgeEnds
  <2>1. CASE AllDone
    BY <1>1, <1>3, <1>6, <2>1, LeaveShares DEF PurgeEnds
  <2>2. CASE ~AllDone
    BY <1>1, <1>3, <1>6, <2>2, LeaveShares DEF PurgeEnds
  <2>3. QED
    BY <2>1, <2>2
<1>7. CASE DeleteEnds
  BY <1>1, <1>7, LeaveShares DEF DeleteEnds
<1>8. CASE DeleteFails
  BY <1>1, <1>3, <1>8, LeaveShares DEF DeleteFails
<1>9. CASE Timeout
  <2>1. CASE phase = "purge"
    BY <1>1, <1>2, <1>3, <1>9, <2>1, LeaveShares DEF Timeout
  <2>2. CASE phase # "purge"
    BY <1>1, <1>2, <1>3, <1>9, <2>2, LeaveShares DEF Timeout
  <2>3. QED
    BY <2>1, <2>2
<1>10. CASE UpdateDies \/ Kill \/ Crash
  BY <1>1, <1>2, <1>10, LeaveShares DEF UpdateDies, Kill, Crash
<1>11. CASE \E n \in Names : CrashReplacing(n) \/ CrashExchanging(n)
  BY <1>11, TornShares
<1>12. QED
  BY <1>4, <1>5, <1>6, <1>7, <1>8, <1>9, <1>10, <1>11 DEF Crashes

LEMMA PhaseShares ==
  ASSUME TypeOK, IInv, SInv,
         PhaseEnds \/ Request \/ Timeout \/ CancelUpdate \/ Kill \/ Crashes
  PROVE  SInv'
<1>1. CASE CreateEnds \/ (UpdateFails /\ ~(state.action = "UPDATE" /\ undo)) \/ PurgeEnds
           \/ UpdateDies \/ DeleteEnds \/ DeleteFails \/ Timeout \/ Kill \/ Crashes
  BY <1>1, LeavesShare
<1>2. CASE UpdateFails /\ state.action = "UPDATE" /\ undo
  BY <1>2, AlikeSelf, RollbackShares DEF UpdateFails, TypeOK
<1>3. CASE CancelUpdate
  <2>1. /\ Cut(res, OnRes) \in [Names -> Resources]
        /\ Cut(prev, OnPrev) \in [Names -> Resources]
    BY CutOK DEF TypeOK
  <2>2. QED
    BY <1>3, <2>1, AlikeCut, RollbackShares DEF CancelUpdate
<1>4. CASE RejectUpdate \/ DeleteDies
  <2>1. /\ state'.action = "DELETE" \/ (state'.action = "UPDATE" /\ state.action \notin {"DELETE", "GONE"})
        /\ phase = "idle" /\ UNCHANGED <<res, prev, made, phase, rid, pid, dropped>>
    BY <1>4 DEF RejectUpdate, DeleteDies, MayUpdate, MayDelete
  <2>2. QED
    BY <2>1 DEF SInv, PhaseOK, IdsOK, SharedOK, Deleting
<1>5. QED
  BY <1>1, <1>2, <1>3, <1>4, UpdateShares, DeleteShares, MiddleShares DEF PhaseEnds, Request

LEMMA SInvInit == Init => SInv
<1>1. SUFFICES ASSUME Init PROVE SInv
  OBVIOUS
<1>2. \A n \in Names : res[n].id = 0 /\ prev[n].id = 0
  BY <1>1, BlankFields DEF Init
<1>3. QED
  BY <1>1, <1>2 DEF Init, SInv, PhaseOK, IdsOK, SharedOK, Single, Deleting, Nothing

LEMMA SInvNext == TypeOK /\ IInv /\ SInv /\ AirOK /\ [Next]_vars => SInv'
<1> SUFFICES ASSUME TypeOK, IInv, SInv, AirOK, [Next]_vars PROVE SInv'
  OBVIOUS
<1>1. CASE Work \/ Fails
  <2>1. CASE \E n \in Names : Steps(n)
    BY <2>1, TaskShares
  <2>2. QED
    BY <1>1, <2>1, PhaseShares DEF Work, Fails, Steps
<1>2. CASE UNCHANGED vars
  <2>1. UNCHANGED <<state, res, prev, made, phase, rid, pid, dropped>>
    BY <1>2 DEF vars, stackVars, opVars, histVars
  <2>2. QED
    BY <2>1 DEF SInv, PhaseOK, IdsOK, SharedOK, Single, SingleIds, MemoryOf, Deleting
<1>3. QED
  BY <1>1, <1>2, PhaseShares DEF Next

\* Only the call of the service leaves a task between two yields.
LEMMA TaskYields ==
  ASSUME TypeOK, NEW n \in Names, Steps(n), ~HandleCreate(n)
  PROVE  AtYield'
<1>1. Frame(n)
  BY NewTaskFrame, OldTaskFrame DEF Steps
<1>2. CASE NewTask(n) \/ FailNew(n)
  <2>1. Alone(n)
    <3>1. AtYield => Alone(n)
      BY DEF AtYield, Alone
    <3>2. QED
      BY <3>1 DEF Steps
  <2>2. new'[n] # "called"
    <3>1. CASE Create(n) \/ ResourceIdSet(n) \/ CheckCreate(n) \/ UpToDate(n) \/ RefuseUpdate(n)
      BY <3>1 DEF TypeOK, Create, ResourceIdSet, CheckCreate, UpToDate, RefuseUpdate
    <3>2. CASE UpdateInPlace(n) \/ HandleUpdate(n) \/ Exchange(n) \/ ExchangeDies(n)
      BY <3>2 DEF TypeOK, UpdateInPlace, HandleUpdate, Exchange, ExchangeDies
    <3>3. CASE ClearFirst(n) \/ EndClearNew(n) \/ Replace(n)
      BY <3>3 DEF TypeOK, ClearFirst, EndClearNew, Replace
    <3>4. CASE CutNew(n) \/ FailNew(n)
      BY <3>4 DEF TypeOK, CutNew, FailNew, StopNew
    <3>5. QED
      BY <1>2, <3>1, <3>2, <3>3, <3>4 DEF NewTask
  <2>3. QED
    BY <1>1, <2>1, <2>2 DEF AtYield, Alone, Frame
<1>3. CASE AtYield /\ (OldTask(n) \/ FailOld(n))
  <2>1. UNCHANGED new
    <3>1. CASE ClearOld(n) \/ EndClearOld(n) \/ KeepOld(n) \/ RemoveOld(n)
      BY <3>1 DEF ClearOld, EndClearOld, KeepOld, RemoveOld
    <3>2. CASE EndRemove(n) \/ ForgetOld(n) \/ CutOld(n) \/ FailOld(n)
      BY <3>2 DEF EndRemove, ForgetOld, CutOld, FailOld, StopOld
    <3>3. QED
      BY <1>3, <3>1, <3>2 DEF OldTask
  <2>2. QED
    BY <1>3, <2>1 DEF AtYield
<1>4. QED
  BY <1>2, <1>3 DEF Steps

LEMMA PhaseYields ==
  ASSUME TypeOK, IInv, IInv',
         PhaseEnds \/ Request \/ Timeout \/ CancelUpdate \/ Kill \/ Crashes
  PROVE  AtYield'
<1>1. CASE phase' \notin {"create", "update"}
  BY <1>1 DEF IInv, NewOK, AtYield
<1>2. CASE CleanEnds \/ CancelUpdate \/ (UpdateFails /\ state.action = "UPDATE" /\ undo)
  <2>1. \A n \in Names : new'[n] \in {"wait", "done"}
    BY <1>2 DEF CleanEnds, CancelUpdate, UpdateFails, Rollback, Present
  <2>2. QED
    BY <2>1 DEF AtYield
<1>3. CASE PhaseEnds
  <2>1. CASE CreateEnds \/ UpdateDies \/ UpdateEnds \/ PurgeEnds
    BY <1>1, <2>1 DEF CreateEnds, UpdateDies, UpdateEnds, PurgeEnds, Leave
  <2>2. CASE UnbackEnds \/ DeleteEnds \/ DeleteFails
    BY <1>1, <2>2 DEF UnbackEnds, DeleteEnds, DeleteFails, Leave
  <2>3. CASE UpdateFails /\ ~(state.action = "UPDATE" /\ undo)
    BY <1>1, <2>3 DEF UpdateFails, Leave
  <2>4. QED
    BY <1>2, <1>3, <2>1, <2>2, <2>3 DEF PhaseEnds
<1>4. CASE Request
  BY <1>1, <1>4 DEF Request, Update, RejectUpdate, Delete, DeleteDies, MayUpdate, MayDelete
<1>5. CASE Timeout \/ Kill \/ Crashes
  <2>1. CASE Timeout \/ Kill \/ Crash
    BY <1>1, <2>1 DEF Timeout, Kill, Crash, Leave
  <2>2. CASE \E n \in Names : CrashReplacing(n) \/ CrashExchanging(n)
    <3>1. phase' = "idle"
      BY <2>2, TornLeaves DEF Leave
    <3>2. QED
      BY <1>1, <3>1
  <2>3. QED
    BY <1>5, <2>1, <2>2 DEF Crashes
<1>6. QED
  BY <1>2, <1>3, <1>4, <1>5

LEMMA AirInit == Init => AirOK
  BY DEF Init, AirOK, AtYield

LEMMA AirNext == TypeOK /\ IInv /\ SInv /\ AirOK /\ [Next]_vars => AirOK'
<1> SUFFICES ASSUME TypeOK, IInv, SInv, AirOK, [Next]_vars PROVE AirOK'
  OBVIOUS
<1>1. CASE \E n \in Names : Steps(n)
  <2>1. PICK n \in Names : Steps(n)
    BY <1>1
  <2>2. CASE HandleCreate(n)
    <3>1. /\ new[n] = "creating" /\ made \in Nat /\ made' = made + 1
          /\ cloud' = cloud \cup {made'} /\ UNCHANGED <<res, prev>>
          /\ new' = [new EXCEPT ![n] = "called"]
      BY <2>2 DEF TypeOK, HandleCreate
    <3>2. \A m \in Names : res[m].id # made + 1 /\ prev[m].id # made + 1
      BY <3>1, FieldTypes DEF SInv, IdsOK
    <3>3. Alone(n)
      BY <2>1 DEF Steps, AtYield, Alone
    <3>4. \A m \in Names : new'[m] = "called" => m = n
      BY <3>1, <3>3 DEF TypeOK, Alone
    <3>5. QED
      BY <3>1, <3>2, <3>4 DEF AirOK
  <2>3. CASE ~HandleCreate(n)
    BY <2>1, <2>3, TaskYields DEF AirOK
  <2>4. QED
    BY <2>2, <2>3
<1>2. CASE PhaseEnds \/ Request \/ Timeout \/ CancelUpdate \/ Kill \/ Crashes
  BY <1>2, InvNext, PhaseYields DEF AirOK, Next, Work
<1>3. CASE UNCHANGED vars
  <2>1. UNCHANGED <<res, prev, cloud, made, new>>
    BY <1>3 DEF vars
  <2>2. QED
    BY <2>1 DEF AirOK, AtYield
<1>4. QED
  BY <1>1, <1>2, <1>3 DEF Next, Work, Fails, Steps

\* Whatever fails, is killed or crashes, no two rows stand for one physical
\* resource: deleting what one row has never takes another's.
THEOREM NoneIsShared == Spec => []NoneShared
<1>1. SInv => NoneShared
  BY DEF SInv, SharedOK, NoneShared, Deleting
<1>2. TypeOK /\ IInv /\ SInv /\ AirOK /\ [Next]_vars => (TypeOK /\ IInv /\ SInv /\ AirOK)'
  BY TypeNext, InvNext, SInvNext, AirNext
<1>3. QED
  BY <1>1, <1>2, TypeInit, InvInit, SInvInit, AirInit, PTL DEF Spec

-----------------------------------------------------------------------------
(* An update or a rollback that ends COMPLETE brings each resource to its  *)
(* template.  What it relies on is said name by name.                      *)

\* r stands for a physical resource that is as definition d says.
Is(r, d) == r.status = "COMPLETE" /\ r.saved /\ r.id \in cloud /\ r.real = d

\* An operation whose end the properties are about, and an update that can
\* be undone.
Trusted == \/ state.action = "UPDATE" /\ found # "odd"
           \/ state.action = "ROLLBACK" /\ found = "whole"
Whole   == state.action = "UPDATE" /\ found = "whole"

\* The tasks of the two stacks have each their own places.
PlacesOK(n) == new[n] # "removing" /\ old[n] \notin {"updating", "creating", "called", "checking"}

\* Until a task has updated it in place, a resource has the definition of
\* the stored template.
DefOK(n) == phase \in {"idle", "clean"} => res[n].def = t[n]

\* An update has nothing of n in the backup stack before n is replaced.
FreshOK(n) ==
    phase = "update" /\ state.action = "UPDATE" => 
        (new[n] \in {"wait", "updating", "clearing", "cleared"} => ~prev[n].saved)

\* The stack's own resource is as it should be or FAILED, and what the backup
\* stack offers in exchange is what is wanted.
Sound(n)     == t[n] # 0 => Is(res[n], res[n].def) \/ res[n].status = "FAILED"
Offers(n, d) == prev[n].saved /\ prev[n].status = "COMPLETE" => Is(prev[n], d)

TowardsOK(n) == Trusted =>
    /\ phase = "clean" => Sound(n)
    /\ phase = "update" /\ want[n] # 0 =>
        /\ new[n] = "wait" => Sound(n)
        /\ new[n] \in {"wait", "updating"} => Offers(n, want[n])
        /\ new[n] = "updating" => res[n].saved /\ res[n].id \in cloud
        /\ new[n] \in {"creating", "called", "checking"} => res[n].saved /\ res[n].def = want[n]
        /\ new[n] = "checking" => res[n].id \in cloud
        /\ new[n] = "done" => Is(res[n], want[n])
    /\ phase = "purge" /\ want[n] # 0 => Is(res[n], want[n])

\* What a rollback would find: a resource that is as it says or FAILED, once
\* the tasks at work on it are cut, and the original, if the backup has it.
UndoOK(n) == Whole =>
    /\ phase = "clean" => /\ t[n] = orig[n] /\ Gone(prev[n])
                          /\ t[n] # 0 => Is(res[n], t[n])
    /\ phase = "update" =>
        /\ new[n] \notin {"clearing", "cleared"}
        /\ new[n] \in {"wait", "updating"} =>
             t[n] = orig[n] /\ res[n].def = orig[n] /\ Gone(prev[n])
        /\ new[n] = "wait" /\ t[n] # 0 => Is(res[n], t[n])
        /\ new[n] = "updating" => res[n].saved /\ res[n].id \in cloud /\ res[n].real = orig[n]
        /\ new[n] = "done" /\ want[n] # 0 => res[n].def = want[n]
        /\ Sound(n) \/ {new[n], old[n]} \cap OnRes # {}
        /\ Offers(n, orig[n])

NameOK(n) == PlacesOK(n) /\ DefOK(n) /\ FreshOK(n) /\ TowardsOK(n) /\ UndoOK(n)

\* Nobody undoes what has ended.
Settled == phase = "idle" /\ Trusted /\ state.status = "COMPLETE" => Aligned

AInv == Settled /\ \A n \in Names : NameOK(n)

\* The steps of a task that change fields one by one.
LEMMA DoneFields ==
  ASSUME NEW r \in Resources, NEW q, q = [r EXCEPT !.status = "COMPLETE", !.real = r.def]
  PROVE  /\ q.status = "COMPLETE" /\ q.real = r.def /\ q.def = r.def
         /\ q.id = r.id /\ q.saved = r.saved
  BY DEF Resources

LEMMA MadeFields ==
  ASSUME NEW r \in Resources, NEW i
  PROVE  /\ [r EXCEPT !.id = i].id = i /\ [r EXCEPT !.id = i].saved = r.saved
         /\ [r EXCEPT !.id = i].def = r.def
  BY DEF Resources

LEMMA NoneInCloud == ASSUME TypeOK PROVE 0 \notin cloud
  BY DEF TypeOK

\* A task destroys at most what the rows of n stand for.
LEMMA TaskCloud ==
  ASSUME TypeOK, NEW n \in Names,
         NewTask(n) \/ OldTask(n) \/ FailNew(n) \/ FailOld(n)
  PROVE  cloud \ {res[n].id, prev[n].id} \subseteq cloud'
<1>1. CASE \/ Create(n) \/ HandleCreate(n) \/ ResourceIdSet(n) \/ CheckCreate(n)
           \/ UpToDate(n) \/ RefuseUpdate(n) \/ ExchangeDies(n)
  BY <1>1 DEF Create, HandleCreate, ResourceIdSet, CheckCreate, UpToDate, RefuseUpdate, ExchangeDies
<1>2. CASE UpdateInPlace(n) \/ HandleUpdate(n) \/ Exchange(n) \/ ClearFirst(n) \/ Replace(n)
  BY <1>2 DEF UpdateInPlace, HandleUpdate, Exchange, ClearFirst, Replace
<1>3. CASE ClearOld(n) \/ KeepOld(n) \/ RemoveOld(n) \/ ForgetOld(n)
  BY <1>3 DEF ClearOld, KeepOld, RemoveOld, ForgetOld
<1>4. CASE EndClearNew(n) \/ EndClearOld(n) \/ EndRemove(n)
  BY <1>4 DEF EndClearNew, EndClearOld, EndRemove
<1>5. CASE CutNew(n) \/ CutOld(n) \/ FailNew(n) \/ FailOld(n)
  BY <1>5 DEF CutNew, CutOld, FailNew, FailOld, StopNew, StopOld
<1>6. QED
  BY <1>1, <1>2, <1>3, <1>4, <1>5 DEF NewTask, OldTask

LEMMA SingleNow ==
  ASSUME SInv, phase \in {"clean", "update", "purge"}
  PROVE  Single(res, prev)
  BY DEF SInv, PhaseOK, SharedOK, Deleting

\* What a task does to n is nothing to the other names.
LEMMA OthersOK ==
  ASSUME TypeOK, SInv, NEW n \in Names, Frame(n),
         cloud \ {res[n].id, prev[n].id} \subseteq cloud',
         NEW m \in Names \ {n}, NameOK(m)
  PROVE  NameOK(m)'
<1>1. /\ UNCHANGED <<state, found, orig, phase, want>>
      /\ res'[m] = res[m] /\ prev'[m] = prev[m] /\ new'[m] = new[m] /\ old'[m] = old[m]
      /\ t'[m] = t[m]
  BY DEF Frame
<1>2. CASE phase \in {"clean", "update", "purge"}
  <2>1. Single(res, prev) /\ 0 \notin cloud
    BY <1>2, SingleNow, NoneInCloud
  <2>2. /\ res[m].id \in cloud => res'[m].id \in cloud'
        /\ prev[m].id \in cloud => prev'[m].id \in cloud'
    BY <1>1, <2>1 DEF Single
  <2>3. PlacesOK(m)' /\ DefOK(m)' /\ FreshOK(m)'
    BY <1>1 DEF NameOK, PlacesOK, DefOK, FreshOK
  <2>4. TowardsOK(m)'
    BY <1>1, <2>2 DEF NameOK, TowardsOK, Trusted, Sound, Offers, Is
  <2>5. UndoOK(m)'
    BY <1>1, <2>2 DEF NameOK, UndoOK, Whole, Sound, Offers, Is, Gone
  <2>6. QED
    BY <2>3, <2>4, <2>5 DEF NameOK
<1>3. CASE phase \notin {"clean", "update", "purge"}
  BY <1>1, <1>3 DEF NameOK, PlacesOK, DefOK, FreshOK, TowardsOK, UndoOK
<1>4. QED
  BY <1>2, <1>3

\* What n needs beside NameOK while its tasks are at work.
At(n) == TypeOK /\ IInv /\ SInv /\ NameOK(n)

LEMMA CreateAligns == ASSUME NEW n \in Names, At(n), Create(n) PROVE NameOK(n)'
<1>1. Frame(n)
  BY NewTaskFrame DEF At, NewTask
<1>2. phase = "create" /\ new'[n] = "creating" /\ old'[n] = old[n]
  BY DEF At, TypeOK, Create
<1>3. QED
  BY <1>1, <1>2 DEF At, NameOK, PlacesOK, DefOK, FreshOK, TowardsOK, UndoOK, Frame

LEMMA HandleCreateAligns == ASSUME NEW n \in Names, At(n), HandleCreate(n) PROVE NameOK(n)'
<1>1. Frame(n)
  BY NewTaskFrame DEF At, NewTask
<1>2. /\ new[n] = "creating" /\ new'[n] = "called" /\ old'[n] = old[n]
      /\ UNCHANGED <<res, prev, t>> /\ cloud \subseteq cloud'
  BY DEF At, TypeOK, HandleCreate, stackVars
<1>3. phase \in {"create", "update"}
  BY <1>2 DEF At, IInv, NewOK
<1>4. PlacesOK(n)' /\ DefOK(n)' /\ FreshOK(n)'
  BY <1>1, <1>2, <1>3 DEF At, NameOK, PlacesOK, DefOK, FreshOK, Frame
<1>5. TowardsOK(n)'
  BY <1>1, <1>2, <1>3 DEF At, NameOK, TowardsOK, Trusted, Frame
<1>6. UndoOK(n)'
  BY <1>1, <1>2, <1>3 DEF At, NameOK, UndoOK, Whole, Offers, Is, OnRes, Frame
<1>7. QED
  BY <1>4, <1>5, <1>6 DEF NameOK

LEMMA ResourceIdSetAligns ==
  ASSUME AirOK, NEW n \in Names, At(n), ResourceIdSet(n)
  PROVE  NameOK(n)'
<1>1. Frame(n)
  BY NewTaskFrame DEF At, NewTask
<1>2. /\ new[n] = "called" /\ new'[n] = "checking" /\ old'[n] = old[n]
      /\ res'[n] = [res[n] EXCEPT !.id = made]
      /\ prev'[n] = prev[n] /\ t'[n] = t[n] /\ cloud' = cloud
  BY DEF At, TypeOK, ResourceIdSet, stackVars
<1>3. res'[n].id = made /\ res'[n].saved = res[n].saved /\ res'[n].def = res[n].def
  BY <1>2, FieldTypes, MadeFields DEF At
<1>4. made \in cloud' /\ phase \in {"create", "update"}
  BY <1>2 DEF At, IInv, NewOK, AirOK, AtYield
<1>5. PlacesOK(n)' /\ DefOK(n)' /\ FreshOK(n)'
  BY <1>1, <1>2, <1>4 DEF At, NameOK, PlacesOK, DefOK, FreshOK, Frame
<1>6. TowardsOK(n)'
  BY <1>1, <1>2, <1>3, <1>4 DEF At, NameOK, TowardsOK, Trusted, Frame
<1>7. UndoOK(n)'
  BY <1>1, <1>2, <1>3, <1>4 DEF At, NameOK, UndoOK, Whole, Offers, Is, OnRes, Frame
<1>8. QED
  BY <1>5, <1>6, <1>7 DEF NameOK

LEMMA CheckCreateAligns == ASSUME NEW n \in Names, At(n), CheckCreate(n) PROVE NameOK(n)'
<1>1. Frame(n)
  BY NewTaskFrame DEF At, NewTask
<1>2. /\ new[n] = "checking" /\ new'[n] = "done" /\ old'[n] = old[n]
      /\ res'[n] = [res[n] EXCEPT !.status = "COMPLETE", !.real = res[n].def]
      /\ prev'[n] = prev[n] /\ t'[n] = t[n] /\ cloud' = cloud
  BY DEF At, TypeOK, CheckCreate, stackVars
<1>3. /\ res'[n].status = "COMPLETE" /\ res'[n].real = res[n].def /\ res'[n].def = res[n].def
      /\ res'[n].id = res[n].id /\ res'[n].saved = res[n].saved
  <2>1. res[n] \in Resources
    BY FieldTypes DEF At
  <2>2. QED
    BY <1>2, <2>1, DoneFields
<1>4. phase \in {"create", "update"} /\ (phase = "update" => want[n] # 0)
  BY <1>2 DEF At, IInv, NewOK
<1>5. PlacesOK(n)' /\ DefOK(n)' /\ FreshOK(n)'
  BY <1>1, <1>2, <1>4 DEF At, NameOK, PlacesOK, DefOK, FreshOK, Frame
<1>6. TowardsOK(n)'
  BY <1>1, <1>2, <1>3, <1>4 DEF At, NameOK, TowardsOK, Trusted, Is, Frame
<1>7. UndoOK(n)'
  BY <1>1, <1>2, <1>3, <1>4
  DEF At, NameOK, UndoOK, TowardsOK, Trusted, Whole, Sound, Offers, Is, Frame
<1>8. QED
  BY <1>5, <1>6, <1>7 DEF NameOK

LEMMA UpToDateAligns == ASSUME NEW n \in Names, At(n), UpToDate(n) PROVE NameOK(n)'
<1>1. Frame(n)
  BY NewTaskFrame DEF At, NewTask
<1>2. /\ phase = "update" /\ new[n] = "wait" /\ new'[n] = "done" /\ old'[n] = old[n]
      /\ t[n] # 0 /\ res[n].status # "FAILED" /\ res[n].def = want[n]
      /\ res'[n] = res[n] /\ prev'[n] = prev[n] /\ t'[n] = t[n] /\ cloud' = cloud
  BY DEF At, TypeOK, UpToDate, StartsNew, stackVars
<1>3. want[n] # 0
  BY <1>2 DEF At, IInv, NewOK
<1>4. PlacesOK(n)' /\ DefOK(n)' /\ FreshOK(n)'
  BY <1>1, <1>2 DEF At, NameOK, PlacesOK, DefOK, FreshOK, Frame
<1>5. TowardsOK(n)'
  BY <1>1, <1>2, <1>3 DEF At, NameOK, TowardsOK, Trusted, Sound, Is, Frame
<1>6. UndoOK(n)'
  BY <1>1, <1>2, <1>3
  DEF At, NameOK, UndoOK, TowardsOK, Trusted, Whole, Sound, Offers, Is, Frame
<1>7. QED
  BY <1>4, <1>5, <1>6 DEF NameOK

LEMMA RefuseUpdateAligns == ASSUME NEW n \in Names, At(n), RefuseUpdate(n) PROVE NameOK(n)'
<1>1. Frame(n)
  BY NewTaskFrame DEF At, NewTask
<1>2. /\ phase = "update" /\ new[n] = "wait" /\ new'[n] = "failed" /\ old'[n] = old[n]
      /\ res'[n] = res[n] /\ prev'[n] = prev[n] /\ t'[n] = t[n] /\ cloud' = cloud
  BY DEF At, TypeOK, RefuseUpdate, StartsNew, stackVars
<1>3. PlacesOK(n)' /\ DefOK(n)' /\ FreshOK(n)' /\ TowardsOK(n)'
  BY <1>1, <1>2 DEF At, NameOK, PlacesOK, DefOK, FreshOK, TowardsOK, Frame
<1>4. UndoOK(n)'
  BY <1>1, <1>2
  DEF At, NameOK, UndoOK, TowardsOK, Trusted, Whole, Sound, Offers, Is, Frame
<1>5. QED
  BY <1>3, <1>4 DEF NameOK

LEMMA UpdateInPlaceAligns == ASSUME NEW n \in Names, At(n), UpdateInPlace(n) PROVE NameOK(n)'
<1>1. Frame(n)
  BY NewTaskFrame DEF At, NewTask
<1>2. /\ phase = "update" /\ new[n] = "wait" /\ new'[n] = "updating" /\ old'[n] = old[n]
      /\ t[n] # 0 /\ res[n].status # "FAILED"
      /\ res'[n] = Began(res[n], "UPDATE")
      /\ prev'[n] = prev[n] /\ t'[n] = t[n] /\ cloud' = cloud
  BY DEF At, TypeOK, UpdateInPlace, StartsNew, stackVars
<1>3. /\ res'[n].real = res[n].real /\ res'[n].def = res[n].def
      /\ res'[n].id = res[n].id /\ res'[n].saved = res[n].saved
  <2>1. res[n] \in Resources
    BY FieldTypes DEF At
  <2>2. QED
    BY <1>2, <2>1, BeganFields
<1>4. want[n] # 0
  BY <1>2 DEF At, IInv, NewOK
<1>5. PlacesOK(n)' /\ DefOK(n)' /\ FreshOK(n)'
  BY <1>1, <1>2 DEF At, NameOK, PlacesOK, DefOK, FreshOK, Frame
<1>6. TowardsOK(n)'
  BY <1>1, <1>2, <1>3, <1>4 DEF At, NameOK, TowardsOK, Trusted, Sound, Offers, Is, Frame
<1>7. UndoOK(n)'
  BY <1>1, <1>2, <1>3, <1>4
  DEF At, NameOK, UndoOK, Whole, Offers, Is, OnRes, Gone, Frame
<1>8. QED
  BY <1>5, <1>6, <1>7 DEF NameOK

LEMMA HandleUpdateAligns == ASSUME NEW n \in Names, At(n), HandleUpdate(n) PROVE NameOK(n)'
<1>1. Frame(n)
  BY NewTaskFrame DEF At, NewTask
<1>2. /\ new[n] = "updating" /\ new'[n] = "done" /\ old'[n] = old[n]
      /\ res'[n] = [res[n] EXCEPT !.status = "COMPLETE", !.def = want[n], !.real = want[n]]
      /\ prev'[n] = prev[n] /\ t'[n] = t[n] /\ cloud' = cloud
  BY DEF At, TypeOK, HandleUpdate, stackVars
<1>3. /\ res'[n].status = "COMPLETE" /\ res'[n].real = want[n] /\ res'[n].def = want[n]
      /\ res'[n].id = res[n].id /\ res'[n].saved = res[n].saved
  <2>1. res[n] \in Resources
    BY FieldTypes DEF At
  <2>2. QED
    BY <1>2, <2>1 DEF Resources
<1>4. phase = "update" /\ want[n] # 0
  BY <1>2 DEF At, IInv, NewOK
<1>5. PlacesOK(n)' /\ DefOK(n)' /\ FreshOK(n)'
  BY <1>1, <1>2, <1>4 DEF At, NameOK, PlacesOK, DefOK, FreshOK, Frame
<1>6. TowardsOK(n)'
  BY <1>1, <1>2, <1>3, <1>4 DEF At, NameOK, TowardsOK, Trusted, Is, Frame
<1>7. UndoOK(n)'
  BY <1>1, <1>2, <1>3, <1>4 DEF At, NameOK, UndoOK, Whole, Sound, Offers, Is, Frame
<1>8. QED
  BY <1>5, <1>6, <1>7 DEF NameOK

LEMMA ExchangeAligns == ASSUME NEW n \in Names, At(n), Exchange(n) PROVE NameOK(n)'
<1>1. Frame(n)
  BY NewTaskFrame DEF At, NewTask
<1>2. /\ phase = "update" /\ new[n] \in {"wait", "updating"} /\ new'[n] = "done" /\ old'[n] = old[n]
      /\ prev[n].saved /\ prev[n].status = "COMPLETE"
      /\ res'[n] = prev[n] /\ cloud' = cloud
  BY DEF At, TypeOK, Exchange, Exchanges, NeedsNew, StartsNew
<1>3. want[n] # 0 /\ state.action # "UPDATE"
  BY <1>2 DEF At, IInv, NewOK, NameOK, FreshOK
<1>4. PlacesOK(n)' /\ DefOK(n)' /\ FreshOK(n)' /\ UndoOK(n)'
  BY <1>1, <1>2, <1>3 DEF At, NameOK, PlacesOK, DefOK, FreshOK, UndoOK, Whole, Frame
<1>5. TowardsOK(n)'
  BY <1>1, <1>2, <1>3 DEF At, NameOK, TowardsOK, Trusted, Offers, Is, Frame
<1>6. QED
  BY <1>4, <1>5 DEF NameOK

\* It takes a resource that only the backup stack has, and before a rollback
\* of a stack that was whole there is none.
LEMMA ExchangeDiesAligns ==
  ASSUME NEW n \in Names, At(n), ExchangeDies(n)
  PROVE  NameOK(n)'
<1>1. Frame(n)
  BY NewTaskFrame DEF At, NewTask
<1>2. /\ phase = "update" /\ new[n] \in {"wait", "updating"} /\ new'[n] = "died"
      /\ old'[n] = old[n] /\ ~Gone(prev[n])
  BY DEF At, TypeOK, ExchangeDies, NeedsNew, StartsNew
<1>3. PlacesOK(n)' /\ DefOK(n)' /\ FreshOK(n)'
  BY <1>1, <1>2 DEF At, NameOK, PlacesOK, DefOK, FreshOK, Frame
<1>4. TowardsOK(n)'
  BY <1>1, <1>2 DEF At, NameOK, TowardsOK, Trusted, Frame
<1>5. UndoOK(n)'
  BY <1>1, <1>2 DEF At, NameOK, UndoOK, Whole, Frame
<1>6. QED
  BY <1>3, <1>4, <1>5 DEF NameOK

LEMMA ClearFirstAligns == ASSUME NEW n \in Names, At(n), ClearFirst(n) PROVE NameOK(n)'
<1>1. Frame(n)
  BY NewTaskFrame DEF At, NewTask
<1>2. /\ phase = "update" /\ new[n] \in {"wait", "updating"} /\ new'[n] = "clearing" /\ old'[n] = old[n]
      /\ ~Gone(prev[n]) /\ prev'[n] = Removing(prev[n], prev[n].id)
  BY DEF At, TypeOK, ClearFirst, NeedsNew, StartsNew
<1>3. prev'[n].saved = prev[n].saved
  BY <1>2, FieldTypes, BeganFields DEF At
<1>4. PlacesOK(n)' /\ DefOK(n)' /\ FreshOK(n)' /\ TowardsOK(n)'
  BY <1>1, <1>2, <1>3 DEF At, NameOK, PlacesOK, DefOK, FreshOK, TowardsOK, Trusted, Frame
<1>5. UndoOK(n)'
  BY <1>1, <1>2 DEF At, NameOK, UndoOK, Whole, Frame
<1>6. QED
  BY <1>4, <1>5 DEF NameOK

LEMMA EndClearNewAligns == ASSUME NEW n \in Names, At(n), EndClearNew(n) PROVE NameOK(n)'
<1>1. Frame(n)
  BY NewTaskFrame DEF At, NewTask
<1>2. /\ new[n] = "clearing" /\ new'[n] = "cleared" /\ old'[n] = old[n]
      /\ prev'[n] = Blank(pt[n])
  BY DEF At, TypeOK, EndClearNew
<1>3. phase \in {"create", "update"} /\ ~prev'[n].saved
  BY <1>2, BlankFields DEF At, IInv, NewOK
<1>4. PlacesOK(n)' /\ DefOK(n)' /\ FreshOK(n)' /\ TowardsOK(n)'
  BY <1>1, <1>2, <1>3 DEF At, NameOK, PlacesOK, DefOK, FreshOK, TowardsOK, Trusted, Frame
<1>5. UndoOK(n)'
  BY <1>1, <1>2, <1>3 DEF At, NameOK, UndoOK, Whole, Frame
<1>6. QED
  BY <1>4, <1>5 DEF NameOK

LEMMA ReplaceAligns == ASSUME NEW n \in Names, At(n), Replace(n) PROVE NameOK(n)'
<1>1. Frame(n)
  BY NewTaskFrame DEF At, NewTask
<1>2. /\ phase = "update" /\ new[n] \in {"wait", "updating", "cleared"}
      /\ new'[n] = "creating" /\ old'[n] = old[n]
      /\ res'[n] = Started(Blank(want[n])) /\ cloud' = cloud
      /\ t[n] # 0 => prev'[n] = Backed(res[n])
      /\ t[n] = 0 => prev'[n] = prev[n]
      /\ new[n] = "wait" => t[n] = 0 \/ res[n].status = "FAILED"
  BY DEF At, TypeOK, Replace, Replaces, NeedsNew, StartsNew
<1>3. res'[n].saved /\ res'[n].def = want[n]
  BY <1>2, FieldTypes, BlankType, BlankFields, RowFields DEF At
<1>4. t[n] # 0 => /\ prev'[n].saved = res[n].saved /\ prev'[n].id = res[n].id
                  /\ prev'[n].status = "COMPLETE" /\ prev'[n].real = res[n].real
  BY <1>2, FieldTypes, RowFields DEF At
<1>5. PlacesOK(n)' /\ DefOK(n)' /\ FreshOK(n)' /\ TowardsOK(n)'
  BY <1>1, <1>2, <1>3 DEF At, NameOK, PlacesOK, DefOK, FreshOK, TowardsOK, Trusted, Frame
<1>6. ASSUME Whole PROVE Offers(n, orig[n])'
  <2>1. CASE t[n] = 0
    BY <1>1, <1>2, <1>6, <2>1 DEF At, NameOK, UndoOK, Offers, Is, Frame
  <2>2. CASE t[n] # 0
    <3>1. new[n] = "updating"
      BY <1>2, <1>6, <2>2 DEF At, NameOK, UndoOK, Is
    <3>2. QED
      BY <1>1, <1>2, <1>4, <1>6, <2>2, <3>1 DEF At, NameOK, UndoOK, Offers, Is, Frame
  <2>3. QED
    BY <2>1, <2>2
<1>7. UndoOK(n)'
  BY <1>1, <1>2, <1>6 DEF At, NameOK, UndoOK, Whole, OnRes, Frame
<1>8. QED
  BY <1>5, <1>7 DEF NameOK

\* A task of the new stack that stops leaves what it worked on FAILED.
LEMMA StopNewAligns ==
  ASSUME NEW n \in Names, At(n), NEW how \in {"failed", "cut"},
         NewTask(n) \/ FailNew(n), StopNew(n, how)
  PROVE  NameOK(n)'
<1>1. Frame(n)
  BY NewTaskFrame DEF At
<1>2. /\ new[n] \in Running /\ new'[n] = how /\ old'[n] = old[n]
      /\ t'[n] = t[n] /\ cloud' = cloud
      /\ IF new[n] \in OnRes THEN res'[n] = Failed(res[n]) ELSE res'[n] = res[n]
      /\ IF new[n] \in OnPrev THEN prev'[n] = Failed(prev[n]) ELSE prev'[n] = prev[n]
  BY DEF At, TypeOK, StopNew, stackVars
<1>3. phase \in {"create", "update"}
  BY <1>2 DEF At, IInv, NewOK, Running
<1>4. new[n] \in OnRes => res'[n].status = "FAILED"
  BY <1>2, FieldTypes, RowFields DEF At
<1>5. PlacesOK(n)' /\ DefOK(n)' /\ FreshOK(n)' /\ TowardsOK(n)'
  BY <1>1, <1>2, <1>3 DEF At, NameOK, PlacesOK, DefOK, FreshOK, TowardsOK, Trusted, Frame
<1>6. UndoOK(n)'
  BY <1>1, <1>2, <1>3, <1>4
  DEF At, NameOK, UndoOK, Whole, Sound, Offers, Is, OnRes, OnPrev, Running, Frame
<1>7. QED
  BY <1>5, <1>6 DEF NameOK

\* The tasks of the existing stack.
LEMMA ClearOldAligns == ASSUME NEW n \in Names, At(n), ClearOld(n) PROVE NameOK(n)'
<1>1. Frame(n)
  BY OldTaskFrame DEF At, OldTask
<1>2. /\ new[n] = "done" /\ new'[n] = new[n] /\ old'[n] = "clearing" /\ old[n] = "wait"
      /\ ~Gone(prev[n]) /\ res'[n] = res[n] /\ t'[n] = t[n] /\ cloud' = cloud
      /\ \E i : prev'[n] = Removing(prev[n], i)
  BY DEF At, TypeOK, ClearOld, StartsOld, stackVars
<1>3. prev'[n].status = "IN_PROGRESS"
  BY <1>2, FieldTypes, BeganFields DEF At
<1>4. PlacesOK(n)' /\ DefOK(n)' /\ FreshOK(n)'
  BY <1>1, <1>2 DEF At, NameOK, PlacesOK, DefOK, FreshOK, Frame
<1>5. TowardsOK(n)'
  BY <1>1, <1>2 DEF At, NameOK, TowardsOK, Trusted, Sound, Is, Frame
<1>6. UndoOK(n)'
  BY <1>1, <1>2, <1>3 DEF At, NameOK, UndoOK, Whole, Sound, Offers, Is, OnRes, Frame
<1>7. QED
  BY <1>4, <1>5, <1>6 DEF NameOK

LEMMA EndClearOldAligns == ASSUME NEW n \in Names, At(n), EndClearOld(n) PROVE NameOK(n)'
<1>1. Frame(n)
  BY OldTaskFrame DEF At, OldTask
<1>2. /\ old[n] = "clearing" /\ new'[n] = new[n] /\ old'[n] \in {"cleared", "done"}
      /\ prev'[n] = Blank(pt[n]) /\ res'[n] = res[n] /\ t'[n] = t[n]
      /\ cloud' = cloud \ {prev[n].id}
  BY DEF At, TypeOK, EndClearOld, stackVars
<1>3. new[n] = "done" /\ ~prev'[n].saved /\ Gone(prev'[n])
  BY <1>2, BlankFields DEF At, IInv, OldOK, Gone
<1>4. ASSUME phase \in {"clean", "update", "purge"}, res[n].id \in cloud PROVE res[n].id \in cloud'
  BY <1>2, <1>4, SingleNow, NoneInCloud DEF At, Single
<1>5. PlacesOK(n)' /\ DefOK(n)' /\ FreshOK(n)'
  BY <1>1, <1>2, <1>3 DEF At, NameOK, PlacesOK, DefOK, FreshOK, Frame
<1>6. TowardsOK(n)'
  BY <1>1, <1>2, <1>3, <1>4 DEF At, NameOK, TowardsOK, Trusted, Sound, Is, Frame
<1>7. UndoOK(n)'
  BY <1>1, <1>2, <1>3, <1>4
  DEF At, NameOK, UndoOK, Whole, Sound, Offers, Is, OnRes, Gone, Frame
<1>8. QED
  BY <1>5, <1>6, <1>7 DEF NameOK

LEMMA KeepOldAligns == ASSUME NEW n \in Names, At(n), KeepOld(n) PROVE NameOK(n)'
<1>1. Frame(n)
  BY OldTaskFrame DEF At, OldTask
<1>2. /\ phase = "update" /\ old[n] \in {"wait", "cleared"} /\ new'[n] = new[n] /\ old'[n] = "done"
      /\ prev'[n] = prev[n] /\ res'[n] = res[n] /\ t'[n] = t[n] /\ cloud' = cloud
  BY DEF At, TypeOK, KeepOld, OldCleared, StartsOld, stackVars
<1>3. PlacesOK(n)' /\ DefOK(n)' /\ FreshOK(n)'
  BY <1>1, <1>2 DEF At, NameOK, PlacesOK, DefOK, FreshOK, Frame
<1>4. TowardsOK(n)' /\ UndoOK(n)'
  BY <1>1, <1>2
  DEF At, NameOK, TowardsOK, UndoOK, Trusted, Whole, Sound, Offers, Is, OnRes, Gone, Frame
<1>5. QED
  BY <1>3, <1>4 DEF NameOK

LEMMA RemoveOldAligns == ASSUME NEW n \in Names, At(n), RemoveOld(n) PROVE NameOK(n)'
<1>1. Frame(n)
  BY OldTaskFrame DEF At, OldTask
<1>2. /\ old[n] \in {"wait", "cleared"} /\ (old[n] = "wait" => new[n] = "done")
      /\ \/ phase = "update" /\ want[n] = 0
         \/ phase = "delete"
      /\ prev'[n] = prev[n] /\ cloud' = cloud
      /\ new'[n] = new[n] /\ old'[n] = "removing"
  BY DEF At, TypeOK, RemoveOld, OldCleared, StartsOld
<1>3. new[n] = "done"
  BY <1>2 DEF At, IInv, OldOK
<1>4. PlacesOK(n)' /\ DefOK(n)' /\ FreshOK(n)' /\ TowardsOK(n)'
  BY <1>1, <1>2, <1>3 DEF At, NameOK, PlacesOK, DefOK, FreshOK, TowardsOK, Trusted, Frame
<1>5. UndoOK(n)'
  BY <1>1, <1>2, <1>3 DEF At, NameOK, UndoOK, Whole, Offers, Is, OnRes, Frame
<1>6. QED
  BY <1>4, <1>5 DEF NameOK

\* What is removed or forgotten is no longer in the template.
LEMMA EndRemoveAligns ==
  ASSUME NEW n \in Names, At(n), EndRemove(n) \/ ForgetOld(n)
  PROVE  NameOK(n)'
<1>1. Frame(n)
  BY OldTaskFrame DEF At, OldTask
<1>2. /\ phase \in {"update", "delete"} /\ new[n] = "done" /\ new'[n] = new[n] /\ old'[n] = "done"
      /\ phase = "update" => want[n] = 0 /\ t'[n] = 0
      /\ prev'[n] = prev[n]
  <2>1. CASE EndRemove(n)
    BY <2>1 DEF At, TypeOK, Ids, EndRemove, IInv, OldOK
  <2>2. CASE ForgetOld(n)
    BY <2>2 DEF At, TypeOK, Ids, ForgetOld, OldCleared, StartsOld, IInv, OldOK
  <2>3. QED
    BY <2>1, <2>2
<1>3. phase = "update" /\ prev[n].id \in cloud => prev[n].id \in cloud'
  <2>1. CASE EndRemove(n)
    BY <2>1, SingleNow, NoneInCloud DEF At, EndRemove, Single
  <2>2. CASE ForgetOld(n)
    BY <2>2 DEF ForgetOld
  <2>3. QED
    BY <2>1, <2>2
<1>4. PlacesOK(n)' /\ DefOK(n)' /\ FreshOK(n)' /\ TowardsOK(n)'
  BY <1>1, <1>2 DEF At, NameOK, PlacesOK, DefOK, FreshOK, TowardsOK, Trusted, Frame
<1>5. UndoOK(n)'
  BY <1>1, <1>2, <1>3 DEF At, NameOK, UndoOK, Whole, Sound, Offers, Is, Frame
<1>6. QED
  BY <1>4, <1>5 DEF NameOK

LEMMA StopOldAligns ==
  ASSUME NEW n \in Names, At(n), NEW how \in {"failed", "cut"},
         OldTask(n) \/ FailOld(n), StopOld(n, how)
  PROVE  NameOK(n)'
<1>1. Frame(n)
  BY OldTaskFrame DEF At
<1>2. /\ old[n] \in Running /\ old'[n] = how /\ new'[n] = new[n]
      /\ t'[n] = t[n] /\ cloud' = cloud
      /\ IF old[n] \in OnRes THEN res'[n] = Failed(res[n]) ELSE res'[n] = res[n]
      /\ IF old[n] \in OnPrev THEN prev'[n] = Failed(prev[n]) ELSE prev'[n] = prev[n]
  BY DEF At, TypeOK, StopOld, stackVars
<1>3. old[n] \in {"clearing", "removing"} /\ new[n] = "done"
  BY <1>2 DEF At, NameOK, PlacesOK, IInv, OldOK, Running
<1>4. CASE old[n] = "clearing"
  <2>1. /\ res'[n] = res[n] /\ prev'[n].status = "FAILED" /\ Gone(prev'[n]) = Gone(prev[n])
        /\ phase \in {"clean", "update", "purge", "unback"}
    BY <1>2, <1>4, FieldTypes, RowFields, FailedOK DEF At, OnRes, OnPrev, IInv, OldOK
  <2>2. PlacesOK(n)' /\ DefOK(n)' /\ FreshOK(n)'
    BY <1>1, <1>2, <1>3, <2>1 DEF At, NameOK, PlacesOK, DefOK, FreshOK, Frame
  <2>3. TowardsOK(n)'
    BY <1>1, <1>2, <1>3, <2>1 DEF At, NameOK, TowardsOK, Trusted, Sound, Is, Frame
  <2>4. UndoOK(n)'
    BY <1>1, <1>2, <1>3, <1>4, <2>1
    DEF At, NameOK, UndoOK, Whole, Sound, Offers, Is, OnRes, Frame
  <2>5. QED
    BY <2>2, <2>3, <2>4 DEF NameOK
<1>5. CASE old[n] = "removing"
  <2>1. /\ res'[n].status = "FAILED" /\ prev'[n] = prev[n]
        /\ (phase = "update" /\ want[n] = 0) \/ phase = "delete"
    BY <1>2, <1>5, FieldTypes, RowFields DEF At, OnRes, OnPrev, IInv, OldOK
  <2>2. PlacesOK(n)' /\ DefOK(n)' /\ FreshOK(n)' /\ TowardsOK(n)'
    BY <1>1, <1>2, <1>3, <2>1 DEF At, NameOK, PlacesOK, DefOK, FreshOK, TowardsOK, Trusted, Frame
  <2>3. UndoOK(n)'
    BY <1>1, <1>2, <1>3, <2>1 DEF At, NameOK, UndoOK, Whole, Sound, Offers, Is, Frame
  <2>4. QED
    BY <2>2, <2>3 DEF NameOK
<1>6. QED
  BY <1>3, <1>4, <1>5

\* Without an operation no task does anything.
LEMMA TasksWork ==
  ASSUME IInv, NEW n \in Names, PlacesOK(n), Steps(n)
  PROVE  phase # "idle"
<1>1. phase = "idle" => new[n] = "done" /\ old[n] \notin Running /\ old[n] # "cleared"
  BY DEF IInv, NewOK, OldOK, PlacesOK, Running
<1>2. CASE NewTask(n) \/ FailNew(n)
  BY <1>1, <1>2 DEF NewTask, FailNew, CutNew, StopNew, Running, Create, HandleCreate,
     ResourceIdSet, CheckCreate, UpToDate, RefuseUpdate, UpdateInPlace, HandleUpdate, Exchange,
     Exchanges, ExchangeDies, ClearFirst, EndClearNew, Replace, Replaces, NeedsNew
<1>3. CASE OldTask(n) \/ FailOld(n)
  BY <1>1, <1>3 DEF OldTask, FailOld, CutOld, StopOld, Running, ClearOld, EndClearOld, KeepOld,
     RemoveOld, EndRemove, ForgetOld, OldCleared
<1>4. QED
  BY <1>2, <1>3 DEF Steps

LEMMA TaskAligns ==
  ASSUME TypeOK, IInv, SInv, AirOK, AInv, NEW n \in Names, Steps(n)
  PROVE  AInv'
<1>1. Frame(n) /\ cloud \ {res[n].id, prev[n].id} \subseteq cloud'
  BY NewTaskFrame, OldTaskFrame, TaskCloud DEF Steps
<1>2. At(n)
  BY DEF At, AInv
<1>3. NameOK(n)'
  <2>1. CASE FailNew(n) \/ CutNew(n)
    BY <1>2, <2>1, StopNewAligns DEF FailNew, CutNew, NewTask
  <2>2. CASE FailOld(n) \/ CutOld(n)
    BY <1>2, <2>2, StopOldAligns DEF FailOld, CutOld, OldTask
  <2>3. CASE NewTask(n)
    BY <1>2, <2>1, <2>3, CreateAligns, HandleCreateAligns, ResourceIdSetAligns, CheckCreateAligns,
       UpToDateAligns, RefuseUpdateAligns, UpdateInPlaceAligns, HandleUpdateAligns,
       ExchangeAligns, ExchangeDiesAligns, ClearFirstAligns, EndClearNewAligns, ReplaceAligns
    DEF NewTask
  <2>4. CASE OldTask(n)
    BY <1>2, <2>2, <2>4, ClearOldAligns, EndClearOldAligns, KeepOldAligns, RemoveOldAligns,
       EndRemoveAligns DEF OldTask
  <2>5. QED
    BY <2>1, <2>2, <2>3, <2>4 DEF Steps
<1>4. phase # "idle"
  BY <1>2, TasksWork DEF At, NameOK
<1>5. \A m \in Names : NameOK(m)'
  BY <1>1, <1>3, OthersOK DEF AInv
<1>6. Settled'
  BY <1>1, <1>4 DEF Settled, Frame
<1>7. QED
  BY <1>5, <1>6 DEF AInv

LEMMA LoadedFields ==
  ASSUME NEW rs \in [Names -> Resources], NEW tm \in Ids, NEW n \in Names, rs[n].saved
  PROVE  /\ Loaded(rs, tm)[n].status = rs[n].status /\ Loaded(rs, tm)[n].real = rs[n].real
         /\ Loaded(rs, tm)[n].id = rs[n].id
  BY DEF Loaded, Resources

\* Who leaves an operation COMPLETE that the properties are about leaves it
\* from the purge, with the resources as they are.
LEMMA LeaveAligns ==
  ASSUME TypeOK, AInv, NEW st, NEW rs \in [Names -> Resources], NEW tm \in Ids,
         NEW ps, NEW ptm, Leave(st, rs, tm, ps, ptm),
         \/ st.status # "COMPLETE" \/ st.action \notin {"UPDATE", "ROLLBACK"}
         \/ phase = "purge" /\ rs = res /\ tm = want /\ st.action = state.action
  PROVE  AInv'
<1>1. /\ state' = st /\ t' = tm /\ res' = Loaded(rs, tm) /\ phase' = "idle"
      /\ \A n \in Names : new'[n] = "done" /\ old'[n] = "done"
      /\ cloud' = cloud /\ found' = found
  BY DEF Leave
<1>2. ASSUME NEW n \in Names PROVE NameOK(n)'
  <2>1. res'[n].def = t'[n]
    BY <1>1, LoadedOK
  <2>2. QED
    BY <1>1, <2>1 DEF NameOK, PlacesOK, DefOK, FreshOK, TowardsOK, UndoOK
<1>3. ASSUME Trusted', state'.status = "COMPLETE", NEW n \in Names, t'[n] # 0
      PROVE  Standing(res[n])'
  <2>1. phase = "purge" /\ rs = res /\ tm = want /\ Trusted
    BY <1>1, <1>3 DEF Trusted
  <2>2. Is(res[n], want[n])
    BY <1>1, <1>3, <2>1 DEF AInv, NameOK, TowardsOK
  <2>3. res'[n].def = tm[n] /\ res'[n].saved = rs[n].saved
    BY <1>1, LoadedOK
  <2>4. res'[n].status = res[n].status /\ res'[n].real = res[n].real /\ res'[n].id = res[n].id
    BY <1>1, <2>1, <2>2, LoadedFields DEF Is
  <2>5. QED
    BY <1>1, <2>1, <2>2, <2>3, <2>4 DEF Is, Standing
<1>4. Settled'
  BY <1>3 DEF Settled, Aligned
<1>5. QED
  BY <1>2, <1>4 DEF AInv

LEMMA LeavesAlign ==
  ASSUME TypeOK, SInv, AInv,
         CreateEnds \/ (UpdateFails /\ ~(state.action = "UPDATE" /\ undo)) \/ PurgeEnds
           \/ UpdateDies \/ DeleteEnds \/ DeleteFails \/ Timeout \/ Kill \/ Crashes
  PROVE  AInv'
<1>1. /\ res \in [Names -> Resources] /\ Cut(res, OnRes) \in [Names -> Resources]
      /\ t \in Ids /\ want \in Ids /\ Nothing \in Ids
  BY CutOK DEF TypeOK, Nothing, Ids
<1>2. \A s : End(s).action = state.action /\ End(s).status = s
  BY StateParts
<1>3. CASE CreateEnds
  <2>1. state.action = "CREATE"
    BY <1>3 DEF CreateEnds, SInv, PhaseOK
  <2>2. QED
    BY <1>1, <1>2, <1>3, <2>1, LeaveAligns DEF CreateEnds
<1>4. CASE UpdateFails /\ ~(state.action = "UPDATE" /\ undo)
  BY <1>1, <1>2, <1>4, LeaveAligns DEF UpdateFails
<1>5. CASE PurgeEnds
  BY <1>1, <1>2, <1>5, LeaveAligns DEF PurgeEnds
<1>6. CASE DeleteEnds
  BY <1>1, <1>6, LeaveAligns DEF DeleteEnds
<1>7. CASE DeleteFails
  BY <1>1, <1>2, <1>7, LeaveAligns DEF DeleteFails
<1>8. CASE Timeout
  <2>1. CASE phase = "purge"
    BY <1>1, <1>2, <1>8, <2>1, LeaveAligns DEF Timeout
  <2>2. CASE phase # "purge"
    BY <1>1, <1>2, <1>8, <2>2, LeaveAligns DEF Timeout
  <2>3. QED
    BY <2>1, <2>2
<1>9. CASE UpdateDies \/ Kill \/ Crash
  <2>1. state.status # "COMPLETE"
    BY <1>9 DEF UpdateDies, Kill, Crash, SInv, PhaseOK
  <2>2. QED
    BY <1>1, <1>9, <2>1, LeaveAligns DEF UpdateDies, Kill, Crash
<1>10. CASE \E n \in Names : CrashReplacing(n) \/ CrashExchanging(n)
  <2>1. phase = "update" /\ \E rs, ps \in [Names -> Resources], tm, ptm \in Ids :
                              Leave(state, rs, tm, ps, ptm)
    BY <1>10, TornLeaves
  <2>2. state.status # "COMPLETE"
    BY <2>1 DEF SInv, PhaseOK
  <2>3. QED
    BY <2>1, <2>2, LeaveAligns
<1>11. QED
  BY <1>3, <1>4, <1>5, <1>6, <1>7, <1>8, <1>9, <1>10 DEF Crashes

\* The rows a rollback starts from: the resources of the stack are as they
\* say or FAILED, and the backup stack offers what the stack had.
LEMMA RollbackAims ==
  ASSUME TypeOK, AInv, state.action = "UPDATE",
         NEW rs, NEW ps \in [Names -> Resources], Rollback(rs, ps),
         \A n \in Names : Whole =>
           /\ t[n] # 0 => Is(rs[n], rs[n].def) \/ rs[n].status = "FAILED"
           /\ ps[n].saved /\ ps[n].status = "COMPLETE" => Is(ps[n], orig[n])
  PROVE  AInv'
<1>1. /\ state' = [action |-> "ROLLBACK", status |-> "IN_PROGRESS"]
      /\ want' = orig /\ phase' = "update" /\ res' = rs /\ prev' = Loaded(ps, pt)
      /\ UNCHANGED <<t, cloud, found>>
      /\ \A n \in Names : /\ new'[n] = IF orig[n] = 0 THEN "done" ELSE "wait"
                          /\ old'[n] \in {"done", "wait"}
  BY DEF Rollback, Present, histVars
<1>2. pt \in Ids
  BY DEF TypeOK
<1>3. ASSUME NEW n \in Names PROVE NameOK(n)'
  <2>1. PlacesOK(n)' /\ DefOK(n)' /\ FreshOK(n)' /\ UndoOK(n)'
    BY <1>1 DEF PlacesOK, DefOK, FreshOK, UndoOK, Whole
  <2>2. ASSUME Trusted' PROVE Sound(n)' /\ Offers(n, want[n])'
    <3>1. Whole
      BY <1>1, <2>2 DEF Trusted, Whole
    <3>2. Sound(n)'
      BY <1>1, <3>1 DEF Sound, Is
    <3>3. prev'[n].saved = ps[n].saved
      BY <1>1, <1>2, LoadedOK
    <3>4. ps[n].saved => /\ prev'[n].status = ps[n].status /\ prev'[n].real = ps[n].real
                         /\ prev'[n].id = ps[n].id
      BY <1>1, <1>2, LoadedFields
    <3>5. want'[n] = orig[n] /\ cloud' = cloud
      BY <1>1
    <3>6. ps[n].saved /\ ps[n].status = "COMPLETE" => Is(ps[n], orig[n])
      BY <3>1
    <3>7. Offers(n, want[n])'
      BY <3>3, <3>4, <3>5, <3>6 DEF Offers, Is
    <3>8. QED
      BY <3>2, <3>7
  <2>3. TowardsOK(n)'
    BY <1>1, <2>2 DEF TowardsOK
  <2>4. QED
    BY <2>1, <2>3 DEF NameOK
<1>4. QED
  BY <1>1, <1>3 DEF AInv, Settled

LEMMA RollbacksAim ==
  ASSUME TypeOK, IInv, AInv,
         (UpdateFails /\ state.action = "UPDATE" /\ undo) \/ CancelUpdate
  PROVE  AInv'
<1>1. phase \in {"clean", "update"} /\ state.action = "UPDATE"
  BY DEF UpdateFails, CancelUpdate
<1>2. ASSUME NEW n \in Names, Whole
      PROVE  /\ Sound(n) \/ {new[n], old[n]} \cap OnRes # {}
             /\ Offers(n, orig[n])
  <2>1. CASE phase = "clean"
    <3>1. ~prev[n].saved /\ res[n].def = t[n] /\ (t[n] # 0 => Is(res[n], t[n]))
      BY <1>2, <2>1 DEF AInv, NameOK, UndoOK, DefOK, IInv, RowsOK
    <3>2. QED
      BY <3>1 DEF Sound, Offers
  <2>2. CASE phase = "update"
    BY <1>2, <2>2 DEF AInv, NameOK, UndoOK
  <2>3. QED
    BY <1>1, <2>1, <2>2
<1>3. /\ res \in [Names -> Resources] /\ prev \in [Names -> Resources]
      /\ Cut(prev, OnPrev) \in [Names -> Resources]
  BY CutOK DEF TypeOK
<1>4. CASE UpdateFails /\ state.action = "UPDATE" /\ undo
  <2>1. \A n \in Names : {new[n], old[n]} \cap OnRes = {}
    BY <1>4 DEF UpdateFails, Stopped, Running, OnRes
  <2>2. Rollback(res, prev)
    BY <1>4 DEF UpdateFails
  <2>3. QED
    BY <1>1, <1>2, <1>3, <2>1, <2>2, RollbackAims DEF Sound, Offers
<1>5. CASE CancelUpdate
  <2>1. Rollback(Cut(res, OnRes), Cut(prev, OnPrev))
    BY <1>5 DEF CancelUpdate
  <2>2. ASSUME NEW n \in Names, Whole
        PROVE  /\ t[n] # 0 => \/ Is(Cut(res, OnRes)[n], Cut(res, OnRes)[n].def)
                              \/ Cut(res, OnRes)[n].status = "FAILED"
               /\ Cut(prev, OnPrev)[n].saved /\ Cut(prev, OnPrev)[n].status = "COMPLETE"
                    => Is(Cut(prev, OnPrev)[n], orig[n])
    <3>1. IF {new[n], old[n]} \cap OnRes # {} THEN Cut(res, OnRes)[n] = Failed(res[n])
                                              ELSE Cut(res, OnRes)[n] = res[n]
      BY DEF Cut
    <3>2. IF {new[n], old[n]} \cap OnPrev # {} THEN Cut(prev, OnPrev)[n] = Failed(prev[n])
                                               ELSE Cut(prev, OnPrev)[n] = prev[n]
      BY DEF Cut
    <3>3. Failed(res[n]).status = "FAILED" /\ Failed(prev[n]).status = "FAILED"
      BY FieldTypes, RowFields
    <3>4. QED
      BY <1>2, <2>2, <3>1, <3>2, <3>3 DEF Sound, Offers
  <2>3. QED
    BY <1>1, <1>3, <2>1, <2>2, RollbackAims
<1>6. QED
  BY <1>4, <1>5

\* What an update finds.
LEMMA UpdateStarts ==
  ASSUME TypeOK, IInv, AInv, NEW w, NEW u, Update(w, u)
  PROVE  AInv'
<1>1. /\ state' = [action |-> "UPDATE", status |-> "IN_PROGRESS"]
      /\ phase = "idle" /\ phase' = "clean" /\ orig' = t /\ UNCHANGED <<t, res, cloud, new>>
      /\ pt' = (IF Backup THEN pt ELSE t) /\ prev' = Loaded(prev, pt')
      /\ old' = Removals(prev)
  BY DEF Update, MayUpdate
<1>2. ASSUME NEW n \in Names, t[n] # 0, found' # "odd"
      PROVE  Standing(res[n]) \/ (found' # "whole" /\ res[n].status = "FAILED")
  BY <1>2 DEF Update
<1>3. found' = "whole" => \A n \in Names : Gone(prev[n])
  BY DEF Update
<1>4. ASSUME NEW n \in Names PROVE NameOK(n)'
  <2>1. res[n].def = t[n]
    BY <1>1 DEF AInv, NameOK, DefOK
  <2>2. PlacesOK(n)' /\ DefOK(n)' /\ FreshOK(n)'
    BY <1>1, <2>1 DEF AInv, NameOK, PlacesOK, DefOK, FreshOK, Removals
  <2>3. TowardsOK(n)'
    BY <1>1, <1>2 DEF TowardsOK, Trusted, Sound, Is, Standing
  <2>4. Gone(prev[n]) => Gone(prev'[n])
    <3>1. prev \in [Names -> Resources] /\ pt' \in Ids
      BY <1>1 DEF TypeOK
    <3>2. Gone(prev[n]) => ~prev[n].saved
      BY DEF IInv, RowsOK
    <3>3. QED
      BY <1>1, <3>1, <3>2, LoadedOK
  <2>5. UndoOK(n)'
    BY <1>1, <1>2, <1>3, <2>1, <2>4 DEF UndoOK, Whole, Is, Standing, Gone
  <2>6. QED
    BY <2>2, <2>3, <2>5 DEF NameOK
<1>5. QED
  BY <1>1, <1>4 DEF AInv, Settled

LEMMA CleanEndsAligns == ASSUME TypeOK, IInv, SInv, AInv, CleanEnds PROVE AInv'
<1>1. /\ phase = "clean" /\ phase' = "update" /\ state.action = "UPDATE"
      /\ UNCHANGED <<state, t, res, prev, cloud, want, orig, found>>
  BY DEF CleanEnds, SInv, PhaseOK, stackVars, histVars
<1>2. ASSUME NEW n \in Names PROVE NameOK(n)'
  <2>1. /\ new'[n] = IF want[n] = 0 THEN "done" ELSE "wait"
        /\ old'[n] \in {"done", "wait"} /\ old[n] = "done"
    BY DEF CleanEnds, Present, AllDone
  <2>2. ~prev[n].saved /\ res[n].def = t[n]
    BY <1>1, <2>1 DEF IInv, OldOK, AInv, NameOK, DefOK
  <2>3. PlacesOK(n)' /\ DefOK(n)' /\ FreshOK(n)'
    BY <1>1, <2>1, <2>2 DEF PlacesOK, DefOK, FreshOK
  <2>4. TowardsOK(n)'
    BY <1>1, <2>1, <2>2 DEF AInv, NameOK, TowardsOK, Trusted, Sound, Offers, Is
  <2>5. UndoOK(n)'
    BY <1>1, <2>1, <2>2 DEF AInv, NameOK, UndoOK, Whole, Sound, Offers, Is, Gone
  <2>6. QED
    BY <2>3, <2>4, <2>5 DEF NameOK
<1>3. QED
  BY <1>1, <1>2 DEF AInv, Settled

LEMMA UpdateEndsAligns == ASSUME TypeOK, AInv, UpdateEnds PROVE AInv'
<1>1. /\ phase = "update" /\ phase' = "purge"
      /\ UNCHANGED <<state, res, cloud, want, found, new>>
  BY DEF UpdateEnds, stackVars, histVars
<1>2. ASSUME NEW n \in Names PROVE NameOK(n)'
  <2>1. new[n] = "done" /\ old'[n] \in {"done", "wait"}
    BY DEF UpdateEnds, Removals, AllDone
  <2>2. PlacesOK(n)' /\ DefOK(n)' /\ FreshOK(n)' /\ UndoOK(n)'
    BY <1>1, <2>1 DEF PlacesOK, DefOK, FreshOK, UndoOK
  <2>3. TowardsOK(n)'
    BY <1>1, <2>1 DEF AInv, NameOK, TowardsOK, Trusted, Is
  <2>4. QED
    BY <2>2, <2>3 DEF NameOK
<1>3. QED
  BY <1>1, <1>2 DEF AInv, Settled

\* A delete is not what the properties are about, nor is an update refused.
LEMMA OthersAlign ==
  ASSUME AInv, RejectUpdate \/ Delete \/ DeleteDies \/ UnbackEnds
  PROVE  AInv'
<1>1. CASE RejectUpdate \/ DeleteDies
  <2>1. /\ phase = "idle" /\ UNCHANGED <<t, res, phase, new, old>> /\ ~Trusted'
    BY <1>1 DEF RejectUpdate, DeleteDies, MayUpdate, MayDelete, Trusted
  <2>2. QED
    BY <2>1 DEF AInv, Settled, NameOK, PlacesOK, DefOK, FreshOK, TowardsOK, UndoOK
<1>2. CASE Delete \/ UnbackEnds
  <2>1. /\ phase' \in {"unback", "delete"} /\ new' = new
        /\ \A n \in Names : old'[n] \in {"done", "wait"}
    BY <1>2 DEF Delete, UnbackEnds, Removals
  <2>2. QED
    BY <2>1 DEF AInv, Settled, NameOK, PlacesOK, DefOK, FreshOK, TowardsOK, UndoOK
<1>3. QED
  BY <1>1, <1>2

LEMMA AInvInit == Init => AInv
<1>1. SUFFICES ASSUME Init PROVE AInv
  OBVIOUS
<1>2. phase = "create" /\ \A n \in Names : new[n] \in {"wait", "done"} /\ old[n] = "done"
  BY <1>1 DEF Init
<1>3. QED
  BY <1>2 DEF AInv, Settled, NameOK, PlacesOK, DefOK, FreshOK, TowardsOK, UndoOK

LEMMA AInvNext == TypeOK /\ IInv /\ SInv /\ AirOK /\ AInv /\ [Next]_vars => AInv'
<1> SUFFICES ASSUME TypeOK, IInv, SInv, AirOK, AInv, [Next]_vars PROVE AInv'
  OBVIOUS
<1>1. CASE \E n \in Names : Steps(n)
  BY <1>1, TaskAligns
<1>2. CASE PhaseEnds
  <2>1. CASE UpdateFails /\ state.action = "UPDATE" /\ undo
    BY <2>1, RollbacksAim
  <2>2. QED
    BY <1>2, <2>1, LeavesAlign, CleanEndsAligns, UpdateEndsAligns, OthersAlign DEF PhaseEnds
<1>3. CASE Request
  BY <1>3, UpdateStarts, OthersAlign DEF Request
<1>4. CASE Timeout \/ CancelUpdate \/ Kill \/ Crashes
  BY <1>4, LeavesAlign, RollbacksAim
<1>5. CASE UNCHANGED vars
  <2>1. UNCHANGED <<state, t, res, prev, cloud, phase, want, orig, new, old, found>>
    BY <1>5 DEF vars, stackVars, opVars, histVars
  <2>2. \A n \in Names : NameOK(n)'
    BY <2>1 DEF AInv, NameOK, PlacesOK, DefOK, FreshOK, TowardsOK, UndoOK, Trusted, Whole,
                Sound, Offers, Is, Gone
  <2>3. Settled'
    BY <2>1 DEF AInv, Settled, Trusted, Aligned, Standing
  <2>4. QED
    BY <2>2, <2>3 DEF AInv
<1>6. QED
  BY <1>1, <1>2, <1>3, <1>4, <1>5 DEF Next, Work, Fails, Steps

RowsInv == TypeOK /\ IInv /\ SInv /\ AirOK /\ AInv

LEMMA AlignInvariant == Spec => []RowsInv
<1>1. Init => RowsInv
  BY TypeInit, InvInit, SInvInit, AirInit, AInvInit DEF RowsInv
<1>2. RowsInv /\ [Next]_vars => RowsInv'
  BY TypeNext, InvNext, SInvNext, AirNext, AInvNext DEF RowsInv
<1>3. QED
  BY <1>1, <1>2, PTL DEF Spec

\* An update that ends COMPLETE has brought every resource to its template,
\* whatever failed, was exchanged, cancelled or crashed before it, if it
\* found each one either FAILED or as its template said.
THEOREM UpdatesAlign == Spec => []UpdateAligns
<1>1. RowsInv => UpdateAligns
  BY DEF RowsInv, AInv, Settled, Trusted, UpdateAligns
<1>2. QED
  BY <1>1, AlignInvariant, PTL

\* A rollback that ends COMPLETE leaves every resource as the template says
\* that the stack had before, if the update it undoes found the stack whole.
THEOREM RollbacksAlign == Spec => []RollbackAligns
<1>1. RowsInv => RollbackAligns
  BY DEF RowsInv, AInv, Settled, Trusted, RollbackAligns
<1>2. QED
  BY <1>1, AlignInvariant, PTL

-----------------------------------------------------------------------------
(* Nobody waits for nobody.                                                *)

\* A task is cancelled only in a group in which one has failed.
CutsFail == (\E n \in Names : "cut" \in {new[n], old[n]}) => Failing

\* What the tasks that have not started will find: a row of the backup stack,
\* or nothing there, and something to remove.
Rowed(r) == Gone(r) \/ r.saved

QueueOK(n) ==
    /\ phase = "create" => old[n] = "done"
    /\ new[n] \in {"clearing", "cleared"} => phase = "update"
    /\ phase = "clean" => Rowed(prev[n])
    /\ phase = "update" /\ new[n] \in {"wait", "updating"} => Rowed(prev[n])
    /\ old[n] = "wait" /\ phase \in {"clean", "purge", "unback"} => ~Gone(prev[n])
    /\ old[n] = "wait" /\ phase = "delete" => ~Gone(res[n])

QInv == CutsFail /\ \A n \in Names : QueueOK(n)

LEMMA NewTaskStatus ==
  ASSUME TypeOK, IInv, NEW n \in Names, NewTask(n) \/ FailNew(n)
  PROVE  /\ UNCHANGED old
         /\ new[n] \in Running \cup {"wait", "cleared"}
         /\ new'[n] # "wait" /\ (new'[n] = "cut" => Failing)
         /\ new'[n] \in {"clearing", "cleared"} => phase = "update" \/ new[n] = "clearing"
         /\ new'[n] = "updating" => new[n] = "wait" /\ UNCHANGED prev
         /\ new'[n] = "died" => ExchangeDies(n)
<1> USE DEF TypeOK, Running
<1>1. CASE Create(n) \/ HandleCreate(n) \/ ResourceIdSet(n) \/ CheckCreate(n)
  BY <1>1 DEF Create, HandleCreate, ResourceIdSet, CheckCreate, StartsNew
<1>2. CASE UpToDate(n) \/ RefuseUpdate(n) \/ UpdateInPlace(n) \/ HandleUpdate(n)
  BY <1>2 DEF UpToDate, RefuseUpdate, UpdateInPlace, HandleUpdate, StartsNew
<1>3. CASE Exchange(n) \/ ExchangeDies(n) \/ ClearFirst(n) \/ EndClearNew(n) \/ Replace(n)
  BY <1>3 DEF Exchange, Exchanges, ExchangeDies, ClearFirst, EndClearNew, Replace, Replaces,
              NeedsNew, StartsNew
<1>4. CASE CutNew(n) \/ FailNew(n)
  BY <1>4 DEF CutNew, FailNew, StopNew
<1>5. QED
  BY <1>1, <1>2, <1>3, <1>4 DEF NewTask

LEMMA OldTaskStatus ==
  ASSUME TypeOK, IInv, NEW n \in Names, PlacesOK(n), OldTask(n) \/ FailOld(n)
  PROVE  /\ UNCHANGED new
         /\ old[n] \in Running \cup {"wait", "cleared"} /\ new[n] = "done"
         /\ old'[n] # "wait" /\ (old'[n] = "cut" => Failing)
<1> USE DEF TypeOK, Running, PlacesOK, IInv, OldOK
<1>1. CASE ClearOld(n) \/ EndClearOld(n)
  BY <1>1 DEF ClearOld, EndClearOld, StartsOld
<1>2. CASE KeepOld(n) \/ RemoveOld(n) \/ EndRemove(n) \/ ForgetOld(n)
  BY <1>2 DEF KeepOld, RemoveOld, EndRemove, ForgetOld, OldCleared, StartsOld
<1>3. CASE CutOld(n) \/ FailOld(n)
  BY <1>3 DEF CutOld, FailOld, StopOld
<1>4. QED
  BY <1>1, <1>2, <1>3 DEF OldTask

\* What a task of the existing stack leaves in the backup stack when nothing
\* is updated yet.
LEMMA CleanRowed ==
  ASSUME TypeOK, NEW n \in Names, phase = "clean", Rowed(prev[n]), OldTask(n) \/ FailOld(n)
  PROVE  Rowed(prev'[n])
<1>1. prev[n] \in Resources /\ prev \in [Names -> Resources] /\ pt[n] \in Nat
  BY DEF TypeOK, Ids
<1>2. CASE ClearOld(n)
  <2>1. prev[n].id \in Nat
    BY <1>1 DEF Resources
  <2>2. prev' = [prev EXCEPT ![n] = Removing(prev[n], prev[n].id)] /\ ~Gone(prev[n])
    BY <1>2 DEF ClearOld
  <2>3. prev'[n] = Removing(prev[n], prev[n].id)
    BY <1>1, <2>2
  <2>4. QED
    BY <1>1, <2>1, <2>2, <2>3, RemovingOK DEF Rowed
<1>3. CASE EndClearOld(n)
  <2>1. prev'[n] = Blank(pt[n])
    BY <1>1, <1>3 DEF EndClearOld
  <2>2. QED
    BY <1>1, <2>1, BlankOK DEF Rowed
<1>4. CASE CutOld(n) \/ FailOld(n)
  <2>1. prev' = prev \/ prev' = [prev EXCEPT ![n] = Failed(prev[n])]
    BY <1>4 DEF CutOld, FailOld, StopOld
  <2>2. prev'[n] = prev[n] \/ prev'[n] = Failed(prev[n])
    BY <1>1, <2>1
  <2>3. QED
    BY <1>1, <2>2, FailedOK DEF Rowed
<1>5. CASE KeepOld(n) \/ RemoveOld(n) \/ ForgetOld(n) \/ EndRemove(n)
  <2>1. UNCHANGED prev
    BY <1>5 DEF KeepOld, RemoveOld, ForgetOld, EndRemove
  <2>2. QED
    BY <2>1
<1>6. QED
  BY <1>2, <1>3, <1>4, <1>5 DEF OldTask

LEMMA TaskQueues ==
  ASSUME TypeOK, IInv, AInv, QInv, NEW n \in Names, Steps(n)
  PROVE  QInv'
<1> USE DEF Steps
<1>1. Frame(n) /\ PlacesOK(n) /\ QueueOK(n)
  BY NewTaskFrame, OldTaskFrame DEF AInv, NameOK, QInv
<1>2. ASSUME NEW m \in Names \ {n} PROVE QueueOK(m)'
  BY <1>1, <1>2 DEF QInv, QueueOK, Frame, Rowed, Gone
<1>3. CASE NewTask(n) \/ FailNew(n)
  <2>1. /\ UNCHANGED <<old, phase>>
        /\ new[n] \in Running \cup {"wait", "cleared"}
        /\ new'[n] # "wait" /\ (new'[n] = "cut" => Failing)
        /\ new'[n] \in {"clearing", "cleared"} => phase = "update" \/ new[n] = "clearing"
        /\ new'[n] = "updating" => new[n] = "wait" /\ UNCHANGED prev
    BY <1>1, <1>3, NewTaskStatus DEF Frame
  <2>2. phase \in {"create", "update"}
    BY <2>1 DEF IInv, NewOK, Running
  <2>3. QueueOK(n)'
    BY <1>1, <2>1, <2>2 DEF QueueOK, Rowed, Gone
  <2>4. Failing => Failing'
    BY <1>1, <2>1 DEF Failing, Frame, Running
  <2>5. CutsFail'
    BY <1>1, <2>1, <2>4 DEF CutsFail, QInv, Frame
  <2>6. QED
    BY <1>2, <2>3, <2>5 DEF QInv
<1>4. CASE OldTask(n) \/ FailOld(n)
  <2>1. /\ UNCHANGED <<new, phase>>
        /\ old[n] \in Running \cup {"wait", "cleared"} /\ new[n] = "done"
        /\ old'[n] # "wait" /\ (old'[n] = "cut" => Failing)
    BY <1>1, <1>4, OldTaskStatus DEF Frame
  <2>2. phase = "clean" => Rowed(prev'[n])
    BY <1>1, <1>4, CleanRowed DEF QueueOK
  <2>3. QueueOK(n)'
    BY <1>1, <2>1, <2>2 DEF QueueOK, Rowed, Gone, Running
  <2>4. Failing => Failing'
    BY <1>1, <2>1 DEF Failing, Frame, Running
  <2>5. CutsFail'
    BY <1>1, <2>1, <2>4 DEF CutsFail, QInv, Frame
  <2>6. QED
    BY <1>2, <2>3, <2>5 DEF QInv
<1>5. QED
  BY <1>3, <1>4

LEMMA LeaveQueues ==
  ASSUME NEW st, NEW rs, NEW tm, NEW ps, NEW ptm, Leave(st, rs, tm, ps, ptm)
  PROVE  QInv'
<1>1. phase' = "idle" /\ \A n \in Names : new'[n] = "done" /\ old'[n] = "done"
  BY DEF Leave
<1>2. QED
  BY <1>1 DEF QInv, CutsFail, QueueOK

LEMMA RollbackQueues ==
  ASSUME TypeOK, NEW rs, NEW ps \in [Names -> Resources], Rollback(rs, ps)
  PROVE  QInv'
<1>1. /\ phase' = "update" /\ prev' = Loaded(ps, pt) /\ pt \in Ids
      /\ \A n \in Names : new'[n] \in {"done", "wait"} /\ old'[n] \in {"done", "wait"}
  BY DEF Rollback, Present, TypeOK
<1>2. \A n \in Names : Rowed(prev'[n])
  BY <1>1, LoadedOK DEF Rowed
<1>3. QED
  BY <1>1, <1>2 DEF QInv, CutsFail, QueueOK

LEMMA UpdateQueues ==
  ASSUME TypeOK, IInv, NEW w \in Templates, NEW u, Update(w, u)
  PROVE  QInv'
<1>1. /\ phase = "idle" /\ phase' = "clean" /\ UNCHANGED new
      /\ prev' = Loaded(prev, pt') /\ pt' \in Ids /\ prev \in [Names -> Resources]
      /\ old' = Removals(prev)
  BY DEF Update, MayUpdate, TypeOK
<1>2. ASSUME NEW n \in Names
      PROVE  /\ new'[n] = "done" /\ old'[n] = IF Gone(prev[n]) THEN "done" ELSE "wait"
             /\ Rowed(prev'[n]) /\ (~Gone(prev[n]) => ~Gone(prev'[n]))
  <2>1. new[n] = "done" /\ (~Gone(prev[n]) => prev[n].saved)
    BY <1>1 DEF IInv, NewOK, RowsOK
  <2>2. QED
    BY <1>1, <2>1, LoadedOK DEF Removals, Rowed
<1>3. QED
  BY <1>1, <1>2 DEF QInv, CutsFail, QueueOK, Gone

LEMMA DeleteQueues == ASSUME IInv, Delete PROVE QInv'
<1>1. /\ phase = "idle" /\ UNCHANGED <<new, res, prev>>
      /\ \/ phase' = "unback" /\ old' = Removals(prev)
         \/ phase' = "delete" /\ old' = Removals(res)
  BY DEF Delete, MayDelete
<1>2. \A n \in Names : new'[n] = "done"
  BY <1>1 DEF IInv, NewOK
<1>3. QED
  BY <1>1, <1>2 DEF QInv, CutsFail, QueueOK, Removals, Gone

LEMMA MiddleQueues ==
  ASSUME IInv, QInv, CleanEnds \/ UpdateEnds \/ UnbackEnds
  PROVE  QInv'
<1>1. CASE CleanEnds
  <2>1. /\ phase = "clean" /\ phase' = "update" /\ UNCHANGED prev
        /\ \A n \in Names : new'[n] \in {"done", "wait"} /\ old'[n] \in {"done", "wait"}
    BY <1>1 DEF CleanEnds, Present
  <2>2. QED
    BY <2>1 DEF QInv, CutsFail, QueueOK, Rowed, Gone
<1>2. CASE UpdateEnds
  <2>1. /\ phase' = "purge" /\ UNCHANGED prev /\ old' = Removals(prev)
        /\ \A n \in Names : new'[n] = "done"
    BY <1>2 DEF UpdateEnds, AllDone
  <2>2. QED
    BY <2>1 DEF QInv, CutsFail, QueueOK, Removals, Gone
<1>3. CASE UnbackEnds
  <2>1. /\ phase' = "delete" /\ UNCHANGED res /\ old' = Removals(res)
        /\ \A n \in Names : new'[n] = "done"
    BY <1>3 DEF UnbackEnds, AllDone
  <2>2. QED
    BY <2>1 DEF QInv, CutsFail, QueueOK, Removals, Gone
<1>4. QED
  BY <1>1, <1>2, <1>3

LEMMA QInvInit == Init => QInv
<1>1. SUFFICES ASSUME Init PROVE QInv
  OBVIOUS
<1>2. phase = "create" /\ \A n \in Names : new[n] \in {"wait", "done"} /\ old[n] = "done"
  BY <1>1 DEF Init
<1>3. QED
  BY <1>2 DEF QInv, CutsFail, QueueOK

LEMMA QInvNext == TypeOK /\ IInv /\ AInv /\ QInv /\ [Next]_vars => QInv'
<1> SUFFICES ASSUME TypeOK, IInv, AInv, QInv, [Next]_vars PROVE QInv'
  OBVIOUS
<1>1. CASE \E n \in Names : Steps(n)
  BY <1>1, TaskQueues
<1>2. prev \in [Names -> Resources] /\ Cut(prev, OnPrev) \in [Names -> Resources]
  BY CutOK DEF TypeOK
<1>3. CASE PhaseEnds
  <2>1. CASE CreateEnds \/ UpdateFails \/ UpdateDies
    BY <1>2, <2>1, LeaveQueues, RollbackQueues DEF CreateEnds, UpdateFails, UpdateDies
  <2>2. CASE PurgeEnds \/ DeleteEnds \/ DeleteFails
    BY <2>2, LeaveQueues DEF PurgeEnds, DeleteEnds, DeleteFails
  <2>3. QED
    BY <1>3, <2>1, <2>2, MiddleQueues DEF PhaseEnds
<1>4. CASE RejectUpdate \/ DeleteDies
  <2>1. phase = "idle" /\ UNCHANGED <<phase, new, old>>
    BY <1>4 DEF RejectUpdate, DeleteDies, MayUpdate, MayDelete
  <2>2. QED
    BY <2>1 DEF QInv, CutsFail, Failing, QueueOK
<1>5. CASE Request
  BY <1>4, <1>5, UpdateQueues, DeleteQueues DEF Request
<1>6. CASE Timeout \/ Kill \/ Crashes
  <2>1. CASE Timeout \/ Kill \/ Crash
    BY <2>1, LeaveQueues DEF Timeout, Kill, Crash
  <2>2. CASE \E n \in Names : CrashReplacing(n) \/ CrashExchanging(n)
    BY <2>2, TornLeaves, LeaveQueues
  <2>3. QED
    BY <1>6, <2>1, <2>2 DEF Crashes
<1>7. CASE CancelUpdate
  BY <1>2, <1>7, RollbackQueues DEF CancelUpdate
<1>8. CASE UNCHANGED vars
  <2>1. UNCHANGED <<res, prev, phase, new, old>>
    BY <1>8 DEF vars, opVars
  <2>2. QED
    BY <2>1 DEF QInv, CutsFail, Failing, QueueOK, Rowed, Gone
<1>9. QED
  BY <1>1, <1>3, <1>5, <1>6, <1>7, <1>8 DEF Next, Work, Fails, Steps

\* What lets a task of n go on: the guards of the actions of NewTask(n) and of
\* OldTask(n).
NewMoves(n) ==
    \/ new[n] \in {"creating", "called", "checking", "updating", "clearing"}
    \/ phase = "update" /\ new[n] = "cleared"
    \/ phase = "create" /\ StartsNew(n)
    \/ /\ phase = "update" /\ StartsNew(n)
       /\ \/ t[n] # 0 /\ res[n].status # "FAILED"
          \/ Gone(prev[n]) \/ prev[n].status # "COMPLETE"
          \/ ~res[n].saved \/ prev[n].saved
OldMoves(n) ==
    \/ old[n] \in {"clearing", "removing"}
    \/ phase = "update" /\ (old[n] = "cleared" \/ StartsOld(n))
    \/ phase \in {"clean", "purge", "unback"} /\ StartsOld(n) /\ ~Gone(prev[n])
    \/ phase = "delete" /\ StartsOld(n) /\ ~Gone(res[n])

NobodyStuck ==
    phase # "idle" =>
        AllDone \/ Stopped
          \/ \E n \in Names : (Alone(n) /\ NewMoves(n)) \/ (AtYield /\ OldMoves(n))

\* The dependencies of a stack are iterated in the order toposort() gives
\* them, which raises CircularDependencyException unless there is one.
Sorted == \E last \in Nat : \E rank \in [Names -> 0 .. last] :
             \A n \in Names : \A m \in Requires[n] : rank[m] < rank[n]

\* Every set of natural numbers that is not empty has a least element.
LEMMA LeastElement ==
  ASSUME NEW S \in SUBSET Nat, S # {}
  PROVE  \E x \in S : \A y \in S : x <= y
<1> DEFINE R == {p \in Nat \X Nat : p[1] < p[2]}
<1>1. IsWellFoundedOn(R, Nat)
  BY NatLessThanWellFounded, Zenon DEF OpToRel
<1>2. \A x \in Nat, y \in Nat : y < x => <<y, x>> \in R
  OBVIOUS
<1>3. PICK x \in S : \A y \in S : ~ (<<y, x>> \in R)
  <2>1. S \subseteq Nat
    OBVIOUS
  <2> HIDE DEF R
  <2>2. QED
    BY <1>1, <2>1, WFMin, Zenon
<1> HIDE DEF R
<1>4. ASSUME NEW y \in S PROVE x <= y
  <2>1. x \in Nat /\ y \in Nat
    OBVIOUS
  <2>2. ~(y < x)
    BY <1>2, <1>3, <2>1
  <2>3. QED
    BY <2>1, <2>2
<1>5. QED
  BY <1>4

\* Of some names one comes first, and one last.
LEMMA FirstAndLast ==
  ASSUME NEW last \in Nat, NEW rank \in [Names -> 0 .. last],
         NEW S \in SUBSET Names, S # {}
  PROVE  /\ \E n \in S : \A m \in S : rank[n] <= rank[m]
         /\ \E n \in S : \A m \in S : rank[m] <= rank[n]
<1>1. \A n \in S : rank[n] \in Nat /\ rank[n] <= last
  OBVIOUS
<1>2. \E n \in S : \A m \in S : rank[n] <= rank[m]
  <2> DEFINE ups == {rank[n] : n \in S}
  <2>1. ups \in SUBSET Nat /\ ups # {}
    BY <1>1
  <2>2. PICK r \in ups : \A s \in ups : r <= s
    <3> HIDE DEF ups
    <3>1. QED
      BY <2>1, LeastElement
  <2>3. QED
    BY <2>2
<1>3. \E n \in S : \A m \in S : rank[m] <= rank[n]
  <2> DEFINE downs == {last - rank[n] : n \in S}
  <2>1. downs \in SUBSET Nat /\ downs # {}
    BY <1>1
  <2>2. PICK r \in downs : \A s \in downs : r <= s
    <3> HIDE DEF downs
    <3>1. QED
      BY <2>1, LeastElement
  <2>3. PICK n \in S : r = last - rank[n]
    BY <2>2
  <2>4. \A m \in S : last - rank[n] <= last - rank[m]
    BY <2>2, <2>3
  <2>5. ASSUME NEW m \in S PROVE rank[m] <= rank[n]
    <3>1. last - rank[n] <= last - rank[m]
      BY <2>4
    <3>2. rank[m] \in Nat /\ rank[n] \in Nat
      BY <1>1
    <3>3. QED
      BY <3>1, <3>2
  <2>6. QED
    BY <2>5
<1>4. QED
  BY <1>2, <1>3

\* A task of the new stack, or of the existing one, that may start goes on.
LEMMA StartsMove ==
  ASSUME TypeOK, IInv, QInv, NEW n \in Names, phase # "idle"
  PROVE  /\ StartsNew(n) => NewMoves(n)
         /\ StartsOld(n) => OldMoves(n)
<1>1. QueueOK(n)
  BY DEF QInv
<1>2. ASSUME StartsNew(n) PROVE NewMoves(n)
  <2>1. new[n] = "wait" /\ phase \in {"create", "update"}
    BY <1>2 DEF StartsNew, IInv, NewOK
  <2>2. ASSUME phase = "update", ~Gone(prev[n]) PROVE prev[n].saved
    BY <1>1, <2>1, <2>2 DEF QueueOK, Rowed
  <2>3. QED
    BY <1>2, <2>1, <2>2 DEF NewMoves
<1>3. ASSUME StartsOld(n) PROVE OldMoves(n)
  <2>1. old[n] = "wait" /\ phase \in Phases
    BY <1>3 DEF StartsOld, TypeOK
  <2>2. QED
    BY <1>1, <1>3, <2>1 DEF QueueOK, OldMoves, Phases
<1>4. QED
  BY <1>2, <1>3

LEMMA SomeTaskMoves ==
  ASSUME Sorted, TypeOK, IInv, AInv, QInv, phase # "idle", AtYield
  PROVE  AllDone \/ Stopped \/ \E n \in Names : NewMoves(n) \/ OldMoves(n)
<1> SUFFICES ASSUME ~AllDone, ~Stopped, \A n \in Names : ~NewMoves(n) /\ ~OldMoves(n)
             PROVE  FALSE
  OBVIOUS
<1>1. \A n \in Names : {new[n], old[n]} \cap (Running \cup {"cleared"}) = {}
  <2>1. ASSUME NEW n \in Names
        PROVE  new[n] \notin Running \cup {"cleared"} /\ old[n] \notin Running \cup {"cleared"}
    <3>1. PlacesOK(n) /\ QueueOK(n)
      BY DEF AInv, NameOK, QInv
    <3>2. old[n] = "cleared" => phase = "update"
      BY DEF IInv, OldOK
    <3>3. QED
      BY <3>1, <3>2 DEF PlacesOK, QueueOK, NewMoves, OldMoves, Running
  <2>2. QED
    BY <2>1
<1>2. ~Failing
  BY <1>1 DEF Stopped
<1>3. \A n \in Names : new[n] \in {"wait", "done"} /\ old[n] \in {"wait", "done"}
  <2>1. ASSUME NEW n \in Names
        PROVE  new[n] \in {"wait", "done"} /\ old[n] \in {"wait", "done"}
    <3>1. new[n] \notin {"failed", "died", "cut"} /\ old[n] \notin {"failed", "died", "cut"}
      BY <1>2 DEF Failing, QInv, CutsFail
    <3>2. QED
      BY <1>1, <3>1 DEF TypeOK, Ended
  <2>2. QED
    BY <2>1
<1>4. PICK last \in Nat : \E rank \in [Names -> 0 .. last] :
         \A n \in Names : \A m \in Requires[n] : rank[m] < rank[n]
  BY DEF Sorted
<1>5. PICK rank \in [Names -> 0 .. last] :
         \A n \in Names : \A m \in Requires[n] : rank[m] < rank[n]
  BY <1>4
<1>6. \A n \in Names : rank[n] \in Nat /\ Requires[n] \subseteq Names
  BY <1>5, RequiresAssumption
<1>7. \A n \in Names : ~StartsNew(n) /\ ~StartsOld(n)
  BY StartsMove
<1>8. \A n \in Names : new[n] = "done"
  <2> DEFINE S == {n \in Names : new[n] = "wait"}
  <2>1. SUFFICES ASSUME S # {} PROVE FALSE
    BY <1>3
  <2>2. PICK n \in S : \A m \in S : rank[n] <= rank[m]
    <3>1. S \in SUBSET Names
      OBVIOUS
    <3> HIDE DEF S
    <3>2. QED
      BY <1>5, <2>1, <3>1, FirstAndLast
  <2>3. ASSUME NEW m \in Requires[n] PROVE new[m] = "done"
    <3>1. n \in Names /\ m \in Names /\ rank[m] < rank[n] /\ rank[m] \in Nat /\ rank[n] \in Nat
      BY <1>5, <1>6
    <3>2. m \notin S
      BY <2>2, <3>1
    <3>3. QED
      BY <1>3, <3>1, <3>2
  <2>4. StartsNew(n)
    BY <1>2, <2>3 DEF StartsNew
  <2>5. QED
    BY <1>7, <2>4
<1>9. \A n \in Names : old[n] = "done"
  <2> DEFINE S == {n \in Names : old[n] = "wait"}
  <2>1. SUFFICES ASSUME S # {} PROVE FALSE
    BY <1>3
  <2>2. PICK n \in S : \A m \in S : rank[m] <= rank[n]
    <3>1. S \in SUBSET Names
      OBVIOUS
    <3> HIDE DEF S
    <3>2. QED
      BY <1>5, <2>1, <3>1, FirstAndLast
  <2>3. ASSUME NEW m \in Names, n \in Requires[m] PROVE old[m] = "done"
    <3>1. n \in Names /\ rank[n] < rank[m] /\ rank[m] \in Nat /\ rank[n] \in Nat
      BY <1>5, <1>6, <2>3
    <3>2. m \notin S
      BY <2>2, <3>1
    <3>3. QED
      BY <1>3, <3>2
  <2>4. StartsOld(n)
    BY <1>2, <1>8, <2>3 DEF StartsOld
  <2>5. QED
    BY <1>7, <2>4
<1>10. QED
  BY <1>8, <1>9 DEF AllDone

\* A task between its call and its row is alone, and goes on to the row.
LEMMA CalledMoves ==
  ASSUME AirOK, ~AtYield
  PROVE  \E n \in Names : Alone(n) /\ NewMoves(n)
  BY DEF AirOK, AtYield, Alone, NewMoves

\* No operation gets stuck: whatever has failed, been cut or replaced, either
\* its tasks are all over, or some task can take a step, if the dependencies
\* have an order.  No task waits for one that will not come.
THEOREM NoneIsStuck ==
  ASSUME Sorted
  PROVE  Spec => []NobodyStuck
<1>1. RowsInv /\ QInv => NobodyStuck
  <2>1. AtYield => \A n \in Names : Alone(n)
    BY DEF AtYield, Alone
  <2>2. QED
    BY <2>1, SomeTaskMoves, CalledMoves DEF RowsInv, NobodyStuck
<1>2. QInv /\ RowsInv /\ [Next]_vars => QInv'
  BY QInvNext DEF RowsInv
<1>3. QED
  BY <1>1, <1>2, QInvInit, AlignInvariant, PTL DEF Spec

-----------------------------------------------------------------------------
(* Why a stack on which nobody works can be IN_PROGRESS.                   *)

\* Only a rollback meets a resource that only the backup stack has.
DiedOK == \A n \in Names : new[n] = "died" =>
    phase = "update" /\ state.action = "ROLLBACK" /\ prev[n].saved /\ ~res[n].saved

LEMMA DiedInit == Init => DiedOK
  BY DEF Init, DiedOK

LEMMA TaskDies ==
  ASSUME RowsInv, QInv, DiedOK, NEW n \in Names, Steps(n)
  PROVE  DiedOK'
<1> USE DEF Steps, RowsInv
<1>1. Frame(n) /\ NameOK(n) /\ QueueOK(n)
  BY NewTaskFrame, OldTaskFrame DEF AInv, QInv
<1>2. ASSUME NEW m \in Names \ {n}, new'[m] = "died"
      PROVE  phase' = "update" /\ state'.action = "ROLLBACK" /\ prev'[m].saved /\ ~res'[m].saved
  BY <1>1, <1>2 DEF DiedOK, Frame
<1>3. ASSUME new'[n] = "died"
      PROVE  phase' = "update" /\ state'.action = "ROLLBACK" /\ prev'[n].saved /\ ~res'[n].saved
  <2>1. CASE NewTask(n) \/ FailNew(n)
    <3>1. ExchangeDies(n)
      BY <1>3, <2>1, NewTaskStatus
    <3>2. /\ phase = "update" /\ new[n] \in {"wait", "updating"} /\ ~Gone(prev[n]) /\ ~res[n].saved
          /\ UNCHANGED <<res, prev>>
      BY <3>1 DEF ExchangeDies, NeedsNew, StartsNew
    <3>3. prev[n].saved
      BY <1>1, <3>2 DEF QueueOK, Rowed
    <3>4. state.action = "ROLLBACK"
      BY <1>1, <3>2, <3>3 DEF NameOK, FreshOK, SInv, PhaseOK
    <3>5. QED
      BY <1>1, <3>2, <3>3, <3>4 DEF Frame
  <2>2. CASE OldTask(n) \/ FailOld(n)
    BY <1>1, <1>3, <2>2, OldTaskStatus DEF NameOK
  <2>3. QED
    BY <2>1, <2>2
<1>4. QED
  BY <1>2, <1>3 DEF DiedOK

LEMMA PhaseDies ==
  ASSUME RowsInv, RowsInv', PhaseEnds \/ Request \/ Timeout \/ CancelUpdate \/ Kill \/ Crashes
  PROVE  DiedOK'
<1>1. CASE phase' \notin {"create", "update"}
  BY <1>1 DEF RowsInv, IInv, NewOK, DiedOK
<1>2. CASE CleanEnds \/ CancelUpdate \/ (UpdateFails /\ state.action = "UPDATE" /\ undo)
  <2>1. \A n \in Names : new'[n] \in {"wait", "done"}
    BY <1>2 DEF CleanEnds, CancelUpdate, UpdateFails, Rollback, Present
  <2>2. QED
    BY <2>1 DEF DiedOK
<1>3. CASE PhaseEnds
  <2>1. CASE CreateEnds \/ UpdateDies \/ UpdateEnds \/ PurgeEnds
    BY <1>1, <2>1 DEF CreateEnds, UpdateDies, UpdateEnds, PurgeEnds, Leave
  <2>2. CASE UnbackEnds \/ DeleteEnds \/ DeleteFails
    BY <1>1, <2>2 DEF UnbackEnds, DeleteEnds, DeleteFails, Leave
  <2>3. CASE UpdateFails /\ ~(state.action = "UPDATE" /\ undo)
    BY <1>1, <2>3 DEF UpdateFails, Leave
  <2>4. QED
    BY <1>2, <1>3, <2>1, <2>2, <2>3 DEF PhaseEnds
<1>4. CASE Request
  BY <1>1, <1>4 DEF Request, Update, RejectUpdate, Delete, DeleteDies, MayUpdate, MayDelete
<1>5. CASE Timeout \/ Kill \/ Crashes
  <2>1. CASE Timeout \/ Kill \/ Crash
    BY <1>1, <2>1 DEF Timeout, Kill, Crash, Leave
  <2>2. CASE \E n \in Names : CrashReplacing(n) \/ CrashExchanging(n)
    <3>1. phase' = "idle"
      BY <2>2, TornLeaves DEF RowsInv, Leave
    <3>2. QED
      BY <1>1, <3>1
  <2>3. QED
    BY <1>5, <2>1, <2>2 DEF Crashes
<1>6. QED
  BY <1>2, <1>3, <1>4, <1>5

LEMMA DiedNext == RowsInv /\ RowsInv' /\ QInv /\ DiedOK /\ [Next]_vars => DiedOK'
<1> SUFFICES ASSUME RowsInv, RowsInv', QInv, DiedOK, [Next]_vars PROVE DiedOK'
  OBVIOUS
<1>1. CASE \E n \in Names : Steps(n)
  BY <1>1, TaskDies
<1>2. CASE PhaseEnds \/ Request \/ Timeout \/ CancelUpdate \/ Kill \/ Crashes
  BY <1>2, PhaseDies
<1>3. CASE UNCHANGED vars
  <2>1. UNCHANGED <<state, res, prev, phase, new>>
    BY <1>3 DEF vars, stackVars, opVars
  <2>2. QED
    BY <2>1 DEF DiedOK
<1>4. QED
  BY <1>1, <1>2, <1>3 DEF Next, Work, Fails, Steps

LEMMA LeaveState ==
  ASSUME TypeOK, NEW s \in {"COMPLETE", "FAILED"},
         NEW rs, NEW tm, NEW ps, NEW ptm, Leave(End(s), rs, tm, ps, ptm)
  PROVE  state'.status # "IN_PROGRESS"
  BY DEF TypeOK, Leave, End

\* A rollback that dies leaves the row of the backup stack that it met.
LEMMA DiesExplained ==
  ASSUME RowsInv, DiedOK, UpdateDies
  PROVE  state'.action = "ROLLBACK" /\ \E n \in Names : prev'[n].saved /\ ~res'[n].saved
<1>1. PICK n \in Names : new[n] = "died"
  BY DEF UpdateDies
<1>2. /\ state' = state /\ res' = Loaded(res, t) /\ prev' = Loaded(prev, pt)
      /\ res \in [Names -> Resources] /\ prev \in [Names -> Resources] /\ t \in Ids /\ pt \in Ids
  BY DEF UpdateDies, Leave, RowsInv, TypeOK
<1>3. res'[n].saved = res[n].saved /\ prev'[n].saved = prev[n].saved
  BY <1>2, LoadedOK
<1>4. QED
  BY <1>1, <1>2, <1>3 DEF DiedOK

\* A stack is left IN_PROGRESS only by an interruption, by the delete that
\* meets a name of the backup stack it does not know, or by the rollback that
\* meets a row of the backup stack where the stack has none.
THEOREM InProgressIsExplained == Spec => []NobodyWorks
<1>1. Init => NobodyWorks
  BY DEF Init, NobodyWorks
<1>2. RowsInv /\ DiedOK /\ NobodyWorks /\ [Next]_vars => NobodyWorks'
  <2> SUFFICES ASSUME RowsInv, DiedOK, NobodyWorks, [Next]_vars, phase' = "idle",
                      state'.status = "IN_PROGRESS", ~interrupted'
               PROVE  \/ state'.action = "DELETE" /\ Unmatched'
                      \/ /\ state'.action = "ROLLBACK"
                         /\ \E n \in Names : prev'[n].saved /\ ~res'[n].saved
    BY DEF NobodyWorks
  <2> USE DEF RowsInv
  <2>1. CASE \E n \in Names : Steps(n)
    <3>1. PICK n \in Names : Steps(n)
      BY <2>1
    <3>2. Frame(n) /\ phase # "idle"
      BY <3>1, NewTaskFrame, OldTaskFrame, TasksWork DEF Steps, AInv, NameOK
    <3>3. QED
      BY <3>2 DEF Frame
  <2>2. CASE PhaseEnds
    <3>1. CASE CreateEnds \/ DeleteFails
      BY <3>1, LeaveState DEF CreateEnds, DeleteFails
    <3>2. CASE UpdateFails \/ PurgeEnds
      BY <3>2, LeaveState DEF UpdateFails, PurgeEnds, Rollback
    <3>3. CASE CleanEnds \/ UpdateEnds \/ UnbackEnds
      BY <3>3 DEF CleanEnds, UpdateEnds, UnbackEnds
    <3>4. CASE DeleteEnds
      BY <3>4 DEF DeleteEnds, Leave
    <3>5. CASE UpdateDies
      BY <3>5, DiesExplained
    <3>6. QED
      BY <2>2, <3>1, <3>2, <3>3, <3>4, <3>5 DEF PhaseEnds
  <2>3. CASE Request
    <3>1. CASE (\E w \in Templates, u \in BOOLEAN : Update(w, u)) \/ Delete
      BY <3>1 DEF Update, Delete
    <3>2. CASE RejectUpdate \/ DeleteDies
      BY <3>2 DEF RejectUpdate, DeleteDies, Unmatched
    <3>3. QED
      BY <2>3, <3>1, <3>2 DEF Request
  <2>4. CASE Timeout
    BY <2>4, LeaveState DEF Timeout
  <2>5. CASE CancelUpdate \/ Kill \/ Crash
    BY <2>5 DEF CancelUpdate, Rollback, Kill, Crash
  <2>6. CASE \E n \in Names : CrashReplacing(n) \/ CrashExchanging(n)
    BY <2>6, TornLeaves
  <2>7. CASE UNCHANGED vars
    <3>1. UNCHANGED <<state, phase, interrupted, t, pt, res, prev>>
      BY <2>7 DEF vars, stackVars, opVars, histVars
    <3>2. QED
      BY <3>1 DEF NobodyWorks, Unmatched
  <2>8. QED
    BY <2>1, <2>2, <2>3, <2>4, <2>5, <2>6, <2>7 DEF Next, Work, Fails, Steps, Crashes
<1>3. RowsInv /\ QInv /\ [Next]_vars => QInv'
  BY QInvNext DEF RowsInv
<1>4. QED
  BY <1>1, <1>2, <1>3, QInvInit, DiedInit, DiedNext, AlignInvariant, PTL DEF Spec
=============================================================================
