-------------------------- MODULE StackLockProofs --------------------------
(* Proofs about StackLock, for any engines, requests and operations. *)
EXTENDS StackLock, TLAPS

USE EngineAssumption, OpsAssumption, BoolAssumption

(* An open handler is between its arrival and its end. *)
Open(r) == pc[r] \in Steps \ (Ended \cup {"new"})

-----------------------------------------------------------------------------
(* Every step of StackLock keeps the types of its variables, under every   *)
(* choice of engines, requests and operations.                             *)
THEOREM TypeCorrect == Spec => []TypeOK
<1>1. Init => TypeOK
  BY DEF Init, TypeOK, Steps, Ended, Active, Working
<1>2. TypeOK /\ [Next]_vars => TypeOK'
  <2> SUFFICES ASSUME TypeOK, [Next]_vars PROVE TypeOK'
    OBVIOUS
  <2> USE DEF TypeOK, Steps, Ended, Active, Working, reqVars
  <2>1. ASSUME NEW r \in Reqs, NEW e \in Engines, Arrive(r, e) PROVE TypeOK'
    BY <2>1 DEF Arrive
  <2>2. ASSUME NEW e \in Engines, Crash(e) PROVE TypeOK'
    BY <2>2 DEF Crash
  <2>3. ASSUME NEW r \in Reqs, Handler(r) PROVE TypeOK'
    <3> USE DEF Goto, StartWorker, CreateRow, RowTaken
    <3>1. CASE Load(r)  BY <3>1 DEF Load
    <3>2. CASE TryDelete(r)  BY <3>2 DEF TryDelete
    <3>3. CASE TryCancel(r)  BY <3>3 DEF TryCancel
    <3>4. CASE StopOwn(r)  BY <3>4 DEF StopOwn, StopThreads, ThreadsAt
    <3>5. CASE Join(r) \/ Reload(r) \/ StopAnswered(r) \/ StopTimeout(r)
      BY <3>5 DEF Join, Reload, StopAnswered, StopTimeout
    <3>6. CASE DeletePing(r) \/ Ping(r)  BY <3>6 DEF DeletePing, Ping
    <3>7. CASE Acquire(r)  BY <3>7 DEF Acquire
    <3>8. CASE Steal(r)
      <4>1. CASE lock' = home[r] /\ StartWorker(r) /\ UNCHANGED retry
        BY <3>8, <4>1 DEF Steal
      <4>2. CASE /\ retry' = [retry EXCEPT ![r] = FALSE]
                 /\ Goto(r, "create") /\ UNCHANGED <<lock, worker>>
        BY <3>8, <4>2 DEF Steal
      <4>3. CASE Goto(r, "undo") /\ UNCHANGED <<lock, worker, retry>>
        BY <3>8, <4>3 DEF Steal
      <4> QED  BY <3>8, <4>1, <4>2, <4>3 DEF Steal
    <3>9. CASE Undo(r)  BY <3>9 DEF Undo, ReleaseRow
    <3> QED  BY <2>3, <3>1, <3>2, <3>3, <3>4, <3>5, <3>6, <3>7, <3>8, <3>9
             DEF Handler
  <2>4. ASSUME NEW r \in Reqs, Listener(r) PROVE TypeOK'
    BY <2>4 DEF Listener, ServeStop, AnswerStop, StopThreads, ThreadsAt
  <2>5. ASSUME NEW r \in Reqs, Thread(r) PROVE TypeOK'
    BY <2>5 DEF Thread, Begin, Finish, Release, ReleaseRow
  <2>6. CASE UNCHANGED vars \/ Terminated
    BY <2>6 DEF vars, Terminated
  <2> QED  BY <2>1, <2>2, <2>3, <2>4, <2>5, <2>6 DEF Next
<1> QED  BY <1>1, <1>2, PTL DEF Spec
-----------------------------------------------------------------------------
(* An open handler, and a thread at work, are on an engine that is up; a   *)
(* handler ends when it starts its thread.                                 *)
OnLiveEngine ==
    \A r \in Reqs : /\ Open(r) \/ worker[r] \in Active => home[r] \in up
                    /\ worker[r] # "none" => pc[r] \in Ended

LEMMA LiveInit == Init => OnLiveEngine
BY DEF Init, OnLiveEngine, Open, Steps, Ended, Active, Working

LEMMA LiveStep == TypeOK /\ OnLiveEngine /\ [Next]_vars => OnLiveEngine'
<1> SUFFICES ASSUME TypeOK, OnLiveEngine, [Next]_vars PROVE OnLiveEngine'
  OBVIOUS
<1> USE DEF TypeOK, OnLiveEngine, Open, Steps, Ended, Active, Working, reqVars
<1>1. ASSUME NEW r \in Reqs, NEW e \in Engines, Arrive(r, e)
      PROVE OnLiveEngine'
  BY <1>1 DEF Arrive
<1>2. ASSUME NEW e \in Engines, Crash(e) PROVE OnLiveEngine'
  BY <1>2 DEF Crash
<1>3. ASSUME NEW r \in Reqs, Handler(r) PROVE OnLiveEngine'
  <2> USE DEF Goto, StartWorker, CreateRow, RowTaken
  <2>1. CASE Load(r)  BY <2>1 DEF Load
  <2>2. CASE TryDelete(r)  BY <2>2 DEF TryDelete
  <2>3. CASE TryCancel(r)  BY <2>3 DEF TryCancel
  <2>4. CASE StopOwn(r)  BY <2>4 DEF StopOwn, StopThreads, ThreadsAt
  <2>5. CASE Join(r) \/ Reload(r) \/ StopAnswered(r) \/ StopTimeout(r)
    BY <2>5 DEF Join, Reload, StopAnswered, StopTimeout
  <2>6. CASE DeletePing(r) \/ Ping(r)  BY <2>6 DEF DeletePing, Ping
  <2>7. CASE Acquire(r)  BY <2>7 DEF Acquire
  <2>8. CASE Steal(r)
    <3>1. pc[r] = "steal" /\ UNCHANGED <<up, home>>
      BY <2>8 DEF Steal
    <3>2. \A x \in Reqs \ {r} : pc'[x] = pc[x] /\ worker'[x] = worker[x]
      BY <2>8 DEF Steal
    <3>3. worker[r] = "none" /\ home[r] \in up
      BY <3>1
    <3>4. worker'[r] = "none" \/ pc'[r] \in Ended
      BY <2>8, <3>3 DEF Steal
    <3> QED  BY <3>1, <3>2, <3>3, <3>4
  <2>9. CASE Undo(r)  BY <2>9 DEF Undo
  <2> QED  BY <1>3, <2>1, <2>2, <2>3, <2>4, <2>5, <2>6, <2>7, <2>8, <2>9
           DEF Handler
<1>4. ASSUME NEW r \in Reqs, Listener(r) PROVE OnLiveEngine'
  BY <1>4 DEF Listener, ServeStop, AnswerStop, StopThreads, ThreadsAt
<1>5. ASSUME NEW r \in Reqs, Thread(r) PROVE OnLiveEngine'
  BY <1>5 DEF Thread, Begin, Finish, Release
<1>6. CASE UNCHANGED vars \/ Terminated
  BY <1>6 DEF vars, Terminated
<1> QED  BY <1>1, <1>2, <1>3, <1>4, <1>5, <1>6 DEF Next

-----------------------------------------------------------------------------
(* Nothing but stack_cancel_update takes the lock without a thread that    *)
(* will release it.                                                        *)
LEMMA OrphanStep ==
    ASSUME "cancel" \notin Ops, TypeOK, OnLiveEngine, NoOrphanLock, [Next]_vars
    PROVE  NoOrphanLock'
<1> USE DEF TypeOK, OnLiveEngine, NoOrphanLock, Open, Steps, Ended, Active,
            Working, reqVars
<1>1. ASSUME NEW r \in Reqs, NEW e \in Engines, Arrive(r, e)
      PROVE NoOrphanLock'
  BY <1>1 DEF Arrive
<1>2. ASSUME NEW e \in Engines, Crash(e) PROVE NoOrphanLock'
  BY <1>2 DEF Crash
<1>3. ASSUME NEW r \in Reqs, Handler(r) PROVE NoOrphanLock'
  <2> USE DEF Goto, StartWorker, CreateRow, RowTaken
  <2>1. CASE Load(r)  BY <2>1 DEF Load
  <2>2. CASE TryDelete(r)  BY <2>2 DEF TryDelete
  <2>3. CASE TryCancel(r)  BY <2>3, "cancel" \notin Ops DEF TryCancel
  <2>4. CASE StopOwn(r)  BY <2>4 DEF StopOwn, StopThreads, ThreadsAt
  <2>5. CASE Join(r) \/ Reload(r) \/ StopAnswered(r) \/ StopTimeout(r)
    BY <2>5 DEF Join, Reload, StopAnswered, StopTimeout
  <2>6. CASE DeletePing(r) \/ Ping(r)  BY <2>6 DEF DeletePing, Ping
  <2>7. CASE Acquire(r)  BY <2>7 DEF Acquire
  <2>8. CASE Steal(r)
    <3>1. UNCHANGED <<up, home>>  BY <2>8 DEF Steal
    <3>2. CASE lock' = home[r] /\ StartWorker(r)
      BY <3>1, <3>2
    <3>3. CASE UNCHANGED <<lock, worker>>
      BY <3>1, <3>3
    <3> QED  BY <2>8, <3>2, <3>3 DEF Steal
  <2>9. CASE Undo(r)  BY <2>9 DEF Undo, ReleaseRow
  <2> QED  BY <1>3, <2>1, <2>2, <2>3, <2>4, <2>5, <2>6, <2>7, <2>8, <2>9
           DEF Handler
<1>4. ASSUME NEW r \in Reqs, Listener(r) PROVE NoOrphanLock'
  BY <1>4 DEF Listener, ServeStop, AnswerStop, StopThreads, ThreadsAt
<1>5. ASSUME NEW r \in Reqs, Thread(r) PROVE NoOrphanLock'
  <2>1. CASE Begin(r) \/ Finish(r)
    BY <2>1 DEF Begin, Finish
  <2>2. CASE Release(r)
    BY <2>2 DEF Release, ReleaseRow
  <2> QED  BY <1>5, <2>1, <2>2 DEF Thread
<1>6. CASE UNCHANGED vars \/ Terminated
  BY <1>6 DEF vars, Terminated
<1> QED  BY <1>1, <1>2, <1>3, <1>4, <1>5, <1>6 DEF Next

(* Without stack_cancel_update, a lock a live engine has is always released *)
(* by a thread of it: for any engines, requests, interleavings, crashes,    *)
(* late liveness answers and clashing requests.                             *)
THEOREM LockNeverOrphaned ==
    ASSUME "cancel" \notin Ops
    PROVE  Spec => []NoOrphanLock
<1>1. Init => NoOrphanLock
  BY DEF Init, NoOrphanLock
<1>2. TypeOK /\ OnLiveEngine /\ NoOrphanLock /\ [Next]_vars => NoOrphanLock'
  BY OrphanStep
<1> QED
  BY <1>1, <1>2, TypeCorrect, LiveInit, LiveStep, PTL DEF Spec
-----------------------------------------------------------------------------
(* Under serial callers and prompt liveness answers the lock excludes: an  *)
(* open handler is alone on its engine, and a handler about to steal has   *)
(* seen a dead owner.                                                      *)
Alone ==
    \A r \in Reqs : Open(r) =>
        \A s \in Reqs \ {r} : home[s] = home[r]
                               => ~Open(s) /\ worker[s] \notin Active

SeenDead ==
    \A r \in Reqs : /\ pc[r] \in {"ping", "steal"} => seen[r] # NoEngine
                    /\ pc[r] = "steal" => seen[r] \notin up

SerialInv == Alone /\ SeenDead /\ MutualExclusion

LEMMA SerialInit == Init => SerialInv
BY DEF Init, SerialInv, Alone, SeenDead, MutualExclusion, Open, Steps, Ended,
       Active, Working

LEMMA AloneStep ==
    ASSUME Exclusive, TypeOK, OnLiveEngine, Alone, [Next]_vars
    PROVE  Alone'
<1> USE DEF TypeOK, OnLiveEngine, Alone, Open, Steps, Ended, Active, Working,
            reqVars
<1>1. ASSUME NEW r \in Reqs, NEW e \in Engines, Arrive(r, e) PROVE Alone'
  BY <1>1 DEF Arrive, Idle
<1>2. ASSUME NEW e \in Engines, Crash(e) PROVE Alone'
  BY <1>2 DEF Crash
<1>3. ASSUME NEW r \in Reqs, Handler(r) PROVE Alone'
  <2>1. Open(r) /\ UNCHANGED home
    BY <1>3 DEF Handler, Load, TryDelete, TryCancel, StopOwn, Join, Reload,
                DeletePing, StopAnswered, StopTimeout, Acquire, Ping, Steal,
                Undo
  <2>2. \A s \in Reqs \ {r} : pc'[s] = pc[s]
    BY <1>3 DEF Handler, Load, TryDelete, TryCancel, StopOwn, Join, Reload,
                DeletePing, StopAnswered, StopTimeout, Acquire, Ping, Steal,
                Undo, Goto, StartWorker
  <2>3. \A s \in Reqs \ {r} : worker[s] \notin Active => worker'[s] \notin Active
    BY <1>3 DEF Handler, Load, TryDelete, TryCancel, StopOwn, Join, Reload,
                DeletePing, StopAnswered, StopTimeout, Acquire, Ping, Steal,
                Undo, Goto, StartWorker, StopThreads, ThreadsAt
  <2> QED  BY <2>1, <2>2, <2>3
<1>4. ASSUME NEW r \in Reqs, Listener(r) PROVE Alone'
  BY <1>4 DEF Listener, ServeStop, AnswerStop, StopThreads, ThreadsAt
<1>5. ASSUME NEW r \in Reqs, Thread(r) PROVE Alone'
  BY <1>5 DEF Thread, Begin, Finish, Release
<1>6. CASE UNCHANGED vars \/ Terminated
  BY <1>6 DEF vars, Terminated
<1> QED  BY <1>1, <1>2, <1>3, <1>4, <1>5, <1>6 DEF Next

LEMMA SeenDeadStep ==
    ASSUME ~LateReplies, TypeOK, SeenDead, [Next]_vars
    PROVE  SeenDead'
<1> USE DEF TypeOK, SeenDead, reqVars
<1>1. ASSUME NEW r \in Reqs, NEW e \in Engines, Arrive(r, e) PROVE SeenDead'
  BY <1>1 DEF Arrive
<1>2. ASSUME NEW e \in Engines, Crash(e) PROVE SeenDead'
  BY <1>2 DEF Crash
<1>3. ASSUME NEW r \in Reqs, Handler(r) PROVE SeenDead'
  <2> USE DEF Goto, StartWorker
  <2>1. CASE Acquire(r) \/ TryDelete(r) \/ TryCancel(r)
    BY <2>1 DEF Acquire, TryDelete, TryCancel, RowTaken
  <2>2. CASE Ping(r)  BY <2>2 DEF Ping, SeenAnswers, SeenSilent
  <2>3. CASE Steal(r)  BY <2>3 DEF Steal
  <2>4. CASE Load(r) \/ StopOwn(r) \/ Join(r) \/ Reload(r) \/ DeletePing(r)
             \/ StopAnswered(r) \/ StopTimeout(r) \/ Undo(r)
    BY <2>4 DEF Load, StopOwn, Join, Reload, DeletePing, StopAnswered,
                StopTimeout, Undo
  <2> QED  BY <1>3, <2>1, <2>2, <2>3, <2>4 DEF Handler
<1>4. ASSUME NEW r \in Reqs, Listener(r) \/ Thread(r) PROVE SeenDead'
  BY <1>4 DEF Listener, ServeStop, AnswerStop, Thread, Begin, Finish, Release
<1>5. CASE UNCHANGED vars \/ Terminated
  BY <1>5 DEF vars, Terminated
<1> QED  BY <1>1, <1>2, <1>3, <1>4, <1>5 DEF Next

(* A thread starts when no other is at work.                               *)
LEMMA StartsAlone ==
    ASSUME TypeOK, OnLiveEngine, MutualExclusion, NEW r \in Reqs, Open(r),
           lock \notin up, lock' = home[r], StartWorker(r), UNCHANGED home
    PROVE  MutualExclusion'
<1>1. \A w \in Reqs : worker[w] \notin Active
  BY DEF MutualExclusion, OnLiveEngine
<1> QED
  BY <1>1 DEF StartWorker, Goto, MutualExclusion, Active, Working, TypeOK

LEMMA MutexStep ==
    ASSUME TypeOK, OnLiveEngine, SerialInv, [Next]_vars
    PROVE  MutualExclusion'
<1> USE DEF TypeOK, SerialInv, reqVars
<1>1. ASSUME NEW r \in Reqs, NEW e \in Engines, Arrive(r, e)
      PROVE MutualExclusion'
  BY <1>1 DEF Arrive, MutualExclusion, OnLiveEngine, Active, Working, Ended
<1>2. ASSUME NEW e \in Engines, Crash(e) PROVE MutualExclusion'
  BY <1>2 DEF Crash, MutualExclusion, Active, Working
<1>3. ASSUME NEW r \in Reqs, Handler(r) PROVE MutualExclusion'
  <2>1. CASE CreateRow(r) /\ StartWorker(r) /\ Open(r) /\ UNCHANGED home
    BY <2>1, StartsAlone DEF CreateRow
  <2>2. CASE UNCHANGED <<lock, worker, home>>
    BY <2>2 DEF MutualExclusion
  <2>3. CASE Acquire(r) \/ TryDelete(r)
    BY <2>1, <2>2, <2>3 DEF Acquire, TryDelete, RowTaken, Open, Steps, Ended
  <2>4. CASE Load(r) \/ Join(r) \/ Reload(r) \/ DeletePing(r) \/ Ping(r)
             \/ StopAnswered(r) \/ StopTimeout(r)
    BY <2>2, <2>4 DEF Load, Join, Reload, DeletePing, Ping, StopAnswered,
                      StopTimeout
  <2>5. CASE StopOwn(r)
    BY <2>5 DEF StopOwn, StopThreads, ThreadsAt, MutualExclusion, Active,
                Working
  <2>6. CASE Steal(r)
    <3>1. Open(r) /\ UNCHANGED home /\ seen[r] \notin up
      BY <2>6 DEF Steal, Open, Steps, Ended, SeenDead
    <3>2. CASE StealHits(r) /\ lock' = home[r] /\ StartWorker(r)
      BY <3>1, <3>2, StartsAlone DEF StealHits
    <3>3. CASE UNCHANGED <<lock, worker>>
      BY <2>2, <3>1, <3>3
    <3> QED  BY <2>6, <3>2, <3>3 DEF Steal
  <2>7. CASE Undo(r)
    <3>1. Open(r) /\ worker[r] = "none" /\ home[r] \in up
      BY <2>7 DEF Undo, Open, Steps, Ended, OnLiveEngine
    <3>2. \A w \in Reqs : worker[w] \in Active => lock # home[r]
      BY <3>1 DEF MutualExclusion, Alone, Active, Working
    <3> QED  BY <2>7, <3>2 DEF Undo, ReleaseRow, MutualExclusion
  <2>8. CASE TryCancel(r)
    <3>1. CASE CreateRow(r)
      BY <2>8, <3>1 DEF TryCancel, CreateRow, MutualExclusion, OnLiveEngine
    <3>2. CASE UNCHANGED lock
      BY <2>2, <2>8, <3>2 DEF TryCancel
    <3> QED  BY <2>8, <3>1, <3>2 DEF TryCancel, RowTaken
  <2> QED  BY <1>3, <2>3, <2>4, <2>5, <2>6, <2>7, <2>8 DEF Handler
<1>4. ASSUME NEW r \in Reqs, Listener(r) PROVE MutualExclusion'
  BY <1>4 DEF Listener, ServeStop, AnswerStop, StopThreads, ThreadsAt,
              MutualExclusion, Active, Working
<1>5. ASSUME NEW r \in Reqs, Thread(r) PROVE MutualExclusion'
  BY <1>5 DEF Thread, Begin, Finish, Release, ReleaseRow, MutualExclusion,
              Active, Working
<1>6. CASE UNCHANGED vars \/ Terminated
  BY <1>6 DEF vars, Terminated, MutualExclusion
<1> QED  BY <1>1, <1>2, <1>3, <1>4, <1>5, <1>6 DEF Next

LEMMA SerialInvariant ==
    ASSUME Exclusive, ~LateReplies
    PROVE  Spec => [](TypeOK /\ OnLiveEngine /\ SerialInv)
<1>1. TypeOK /\ OnLiveEngine /\ SerialInv /\ [Next]_vars
        => SerialInv'
  BY AloneStep, SeenDeadStep, MutexStep DEF SerialInv
<1> QED
  BY <1>1, SerialInit, LiveInit, LiveStep, TypeCorrect,
     PTL DEF Spec

(* With callers that address a stack at one engine serially, and liveness  *)
(* answers in time, at most one thread works on a stack, and its engine    *)
(* has the lock: whatever engines crash and whoever steals from them.      *)
THEOREM LockExcludes ==
    ASSUME Exclusive, ~LateReplies
    PROVE  Spec => []MutualExclusion
BY SerialInvariant, PTL DEF SerialInv

-----------------------------------------------------------------------------
(* With liveness answers in time the lock of a live engine is never stolen, *)
(* however the callers clash.                                              *)
THEOREM NeverStolenAlive == ASSUME ~LateReplies PROVE Spec => StealsFromDeadOnly
<1>1. Init => SeenDead
  BY DEF Init, SeenDead
<1>2. TypeOK /\ SeenDead /\ [Next]_vars => SeenDead'
  BY SeenDeadStep
<1>3. TypeOK /\ SeenDead /\ [Next]_vars
        => [(lock \in up /\ lock' # lock) => lock' = NoEngine]_vars
  <2> SUFFICES ASSUME TypeOK, SeenDead, Next, lock \in up, lock' # lock
               PROVE  lock' = NoEngine
    BY DEF vars
  <2>1. lock # NoEngine
    BY DEF TypeOK
  <2>2. ASSUME NEW r \in Reqs, Handler(r) PROVE lock' = NoEngine
    BY <2>1, <2>2
       DEF Handler, Load, TryDelete, TryCancel, StopOwn, Join, Reload,
           DeletePing, StopAnswered, StopTimeout, Acquire, Ping, Steal, Undo,
           CreateRow, RowTaken, StealHits, ReleaseRow, SeenDead
  <2>3. ASSUME NEW r \in Reqs, Listener(r) \/ Thread(r) PROVE lock' = NoEngine
    BY <2>3 DEF Listener, ServeStop, AnswerStop, Thread, Begin, Finish,
                Release, ReleaseRow
  <2> QED  BY <2>2, <2>3 DEF Next, Arrive, Crash, Terminated, vars
<1> QED
  BY <1>1, <1>2, <1>3, TypeCorrect, PTL DEF Spec, StealsFromDeadOnly

-----------------------------------------------------------------------------
(* The refinement of StackSerial.                                          *)
Busy == {<<w, op[w]>> : w \in {x \in Reqs : worker[x] \in Active}}

LEMMA BusyOne ==
    ASSUME MutualExclusion, NEW w \in Reqs, worker[w] \in Active
    PROVE  Busy = {<<w, op[w]>>}
BY DEF Busy, MutualExclusion

LEMMA BusyNone ==
    ASSUME MutualExclusion, TypeOK, OnLiveEngine, lock \notin up
    PROVE  Busy = {}
BY DEF Busy, MutualExclusion, OnLiveEngine, TypeOK

LEMMA BusySame ==
    ASSUME UNCHANGED op,
           \A x \in Reqs : worker'[x] \in Active <=> worker[x] \in Active
    PROVE  Busy' = Busy
BY DEF Busy

LEMMA StartMaps ==
    ASSUME MutualExclusion, TypeOK, OnLiveEngine, lock \notin up, MutualExclusion',
           NEW r \in Reqs, StartWorker(r), UNCHANGED <<op, row>>,
           NEW o \in Ops, o = op[r]
    PROVE  Serial!Start(r, o)
<1>1. worker'[r] \in Active
  BY DEF StartWorker, TypeOK, Active, Working
<1>2. Busy' = {<<r, o>>}
  BY <1>1 DEF Busy, MutualExclusion
<1> QED
  BY <1>2, BusyNone DEF Serial!Start, Busy

LEMMA WriteMaps ==
    ASSUME MutualExclusion, TypeOK, NEW w \in Reqs, Begin(w) \/ Finish(w),
           NEW o \in Ops, o = op[w]
    PROVE  Serial!Write(w, o) \/ UNCHANGED <<Busy, row>>
<1>1. Busy = {<<w, o>>}
  BY BusyOne DEF Begin, Finish, Active, Working
<1>2. UNCHANGED Busy
  <2>1. \A x \in Reqs : worker'[x] \in Active <=> worker[x] \in Active
    BY DEF Begin, Finish, Active, Working, TypeOK
  <2> QED  BY <2>1, BusySame DEF Begin, Finish, reqVars
<1>3. \/ row = "GONE" /\ UNCHANGED row
      \/ row # "GONE" /\ row' \in Serial!Outcomes(o) \cup
                                   {Serial!InProgress(o)}
  BY DEF Begin, Finish, Serial!Outcomes, Serial!InProgress
<1> QED  BY <1>1, <1>2, <1>3 DEF Serial!Write, Busy

LEMMA SerialStep ==
    ASSUME TypeOK, OnLiveEngine, SerialInv, MutualExclusion', [Next]_vars
    PROVE  [Serial!Next]_<<Busy, row>>
<1> USE DEF SerialInv
<1>1. ASSUME NEW r \in Reqs, StartWorker(r), lock \notin up,
             UNCHANGED <<op, row>>
      PROVE Serial!Next
  <2>1. PICK o \in Ops : o = op[r]
    BY DEF TypeOK
  <2>2. Serial!Start(r, o)
    BY <1>1, <2>1, StartMaps
  <2> QED  BY <2>2 DEF Serial!Next
<1>2. ASSUME UNCHANGED <<op, row>>,
             \A x \in Reqs : worker'[x] \in Active <=> worker[x] \in Active
      PROVE UNCHANGED <<Busy, row>>
  BY <1>2, BusySame
<1>3. ASSUME UNCHANGED <<op, row>>,
             \A x \in Reqs : worker'[x] \in Active => worker[x] \in Active
      PROVE Serial!End \/ UNCHANGED <<Busy, row>>
  <2>1. CASE \A x \in Reqs : worker[x] \notin Active
    BY <1>2, <1>3, <2>1
  <2>2. CASE \E w \in Reqs : worker[w] \in Active
    <3>1. PICK w \in Reqs : worker[w] \in Active
      BY <2>2
    <3>2. Busy # {}
      BY <3>1 DEF Busy
    <3>3. CASE worker'[w] \in Active
      BY <1>2, <1>3, <3>1, <3>3 DEF MutualExclusion
    <3>4. CASE worker'[w] \notin Active
      <4>1. Busy' = {}
        BY <1>3, <3>1, <3>4 DEF MutualExclusion, Busy
      <4> QED  BY <1>3, <3>2, <4>1 DEF Serial!End, Busy
    <3> QED  BY <3>3, <3>4
  <2> QED  BY <2>1, <2>2
<1>4. ASSUME NEW r \in Reqs, Handler(r)
      PROVE Serial!Next \/ UNCHANGED <<Busy, row>>
  <2>1. CASE Acquire(r) \/ TryDelete(r)
    <3>1. UNCHANGED <<op, row>>
      BY <2>1 DEF Acquire, TryDelete
    <3>2. CASE CreateRow(r) /\ StartWorker(r)
      BY <1>1, <3>1, <3>2 DEF CreateRow, TypeOK
    <3>3. CASE UNCHANGED worker
      BY <1>2, <3>1, <3>3
    <3> QED  BY <2>1, <3>2, <3>3 DEF Acquire, TryDelete
  <2>2. CASE Steal(r)
    <3>1. UNCHANGED <<op, row>> /\ seen[r] \notin up
      BY <2>2 DEF Steal, SeenDead
    <3>2. CASE StealHits(r) /\ StartWorker(r)
      BY <1>1, <3>1, <3>2 DEF StealHits
    <3>3. CASE UNCHANGED worker
      BY <1>2, <3>1, <3>3
    <3> QED  BY <2>2, <3>2, <3>3 DEF Steal
  <2>3. CASE StopOwn(r)
    <3>1. UNCHANGED <<op, row>>
      BY <2>3 DEF StopOwn, reqVars
    <3>2. \A x \in Reqs : worker'[x] \in Active <=> worker[x] \in Active
      BY <2>3 DEF StopOwn, StopThreads, ThreadsAt, Active, Working
    <3> QED  BY <1>2, <3>1, <3>2
  <2>4. CASE Load(r) \/ TryCancel(r) \/ Join(r) \/ Reload(r) \/ DeletePing(r)
             \/ StopAnswered(r) \/ StopTimeout(r) \/ Ping(r) \/ Undo(r)
    <3>1. UNCHANGED <<op, row, worker>>
      BY <2>4 DEF Load, TryCancel, Join, Reload, DeletePing, StopAnswered,
                  StopTimeout, Ping, Undo, reqVars
    <3> QED  BY <1>2, <3>1
  <2> QED  BY <1>4, <2>1, <2>2, <2>3, <2>4 DEF Handler
<1>5. ASSUME NEW r \in Reqs, Listener(r)
      PROVE UNCHANGED <<Busy, row>>
  <2>1. UNCHANGED <<op, row>>
    BY <1>5 DEF Listener, ServeStop, AnswerStop, reqVars
  <2>2. \A x \in Reqs : worker'[x] \in Active <=> worker[x] \in Active
    BY <1>5 DEF Listener, ServeStop, AnswerStop, StopThreads, ThreadsAt,
                Active, Working
  <2> QED  BY <1>2, <2>1, <2>2
<1>6. ASSUME NEW r \in Reqs, Thread(r)
      PROVE Serial!Next \/ UNCHANGED <<Busy, row>>
  <2>1. CASE Begin(r) \/ Finish(r)
    <3>1. PICK o \in Ops : o = op[r]
      BY DEF TypeOK
    <3>2. Serial!Write(r, o) \/ UNCHANGED <<Busy, row>>
      BY <2>1, <3>1, WriteMaps
    <3> QED  BY <3>2 DEF Serial!Next
  <2>2. CASE Release(r)
    <3>1. UNCHANGED <<op, row>>
      BY <2>2 DEF Release, reqVars
    <3>2. \A x \in Reqs : worker'[x] \in Active => worker[x] \in Active
      BY <2>2 DEF Release, TypeOK, Active, Working
    <3> QED  BY <1>3, <3>1, <3>2 DEF Serial!Next
  <2> QED  BY <1>6, <2>1, <2>2 DEF Thread
<1>7. ASSUME NEW e \in Engines, Crash(e)
      PROVE Serial!Next \/ UNCHANGED <<Busy, row>>
  <2>1. UNCHANGED <<op, row>>
    BY <1>7 DEF Crash, reqVars
  <2>2. \A x \in Reqs : worker'[x] \in Active => worker[x] \in Active
    BY <1>7 DEF Crash, Active, Working
  <2> QED  BY <1>3, <2>1, <2>2 DEF Serial!Next
<1>8. CASE (\E r \in Reqs, e \in Engines : Arrive(r, e)) \/ Terminated
           \/ UNCHANGED vars
  <2>1. UNCHANGED <<op, row, worker>>
    BY <1>8 DEF Arrive, Terminated, vars
  <2> QED  BY <1>2, <2>1
<1> QED  BY <1>4, <1>5, <1>6, <1>7, <1>8 DEF Next

(* Under the same two assumptions the stack lock implements StackSerial:   *)
(* the operations of a stack run one at a time, and only the one that runs *)
(* writes the stack row.                                                   *)
THEOREM LockSerialises ==
    ASSUME Exclusive, ~LateReplies
    PROVE  Spec => SerialSpec
<1>1. Init => Serial!Init
  BY DEF Init, Serial!Init, Active, Working
<1>2. TypeOK /\ OnLiveEngine /\ SerialInv /\ SerialInv'
        /\ [Next]_vars => [Serial!Next]_<<Busy, row>>
  <2> SUFFICES ASSUME TypeOK, OnLiveEngine, SerialInv, SerialInv',
                      [Next]_vars
               PROVE  [Serial!Next]_<<Busy, row>>
    OBVIOUS
  <2>1. MutualExclusion'
    BY DEF SerialInv
  <2> QED  BY <2>1, SerialStep
<1> QED
  BY <1>1, <1>2, SerialInvariant, PTL DEF Spec, SerialSpec, Serial!Spec, Busy
=============================================================================
