------------------------- MODULE RouterQueueProofs -------------------------
(* Proofs about RouterQueue, for any routers, workers and bound.           *)
EXTENDS RouterQueue, TLAPS

-----------------------------------------------------------------------------
(* Sequences.                                                              *)

LEMMA TailFacts ==
    ASSUME NEW S, NEW s \in Seq(S), s # <<>>
    PROVE  /\ Len(s) \in Nat \ {0} /\ Head(s) = s[1] /\ Head(s) \in S
           /\ Tail(s) \in Seq(S) /\ Len(Tail(s)) = Len(s) - 1
           /\ \A i \in 1..Len(Tail(s)) : Tail(s)[i] = s[i + 1] /\ i + 1 \in 1..Len(s)
           /\ \A i \in 1..Len(s) : i = 1 \/ i - 1 \in 1..Len(Tail(s))
OBVIOUS

LEMMA AppendFacts ==
    ASSUME NEW S, NEW s \in Seq(S), NEW e \in S
    PROVE  /\ Append(s, e) \in Seq(S) /\ Len(Append(s, e)) = Len(s) + 1
           /\ Len(s) \in Nat
           /\ Append(s, e)[Len(s) + 1] = e
           /\ \A i \in 1..Len(s) : Append(s, e)[i] = s[i]
OBVIOUS

LEMMA OneFacts ==
    ASSUME NEW S, NEW e \in S
    PROVE  <<e>> \in Seq(S) /\ Len(<<e>>) = 1 /\ <<e>>[1] = e
OBVIOUS

LEMMA NoneFacts == ASSUME NEW S PROVE <<>> \in Seq(S) /\ Len(<<>>) = 0
OBVIOUS

-----------------------------------------------------------------------------
(* Types.                                                                  *)

LEMMA Constants == /\ NoData \in Data /\ NoUpdate \in Updates /\ NoSync \in Syncs
                   /\ \A d \in Data : Target(d) \in Data
<1>1. NoData \in Data
  BY DEF NoData, Data
<1>2. (CHOOSE r \in Routers : TRUE) \in Routers
  BY RoutersAssumption
<1>3. NoUpdate \in Updates
  BY <1>1, <1>2 DEF NoUpdate, Updates
<1> QED  BY <1>1, <1>3 DEF NoSync, Syncs, Target

LEMMA Fields ==
    ASSUME NEW u \in Updates
    PROVE  /\ u.id \in Routers /\ u.prio \in {0, 1} /\ u.ts \in Nat
           /\ u.action \in {"update", "delete"} /\ u.router \in Data
BY DEF Updates

LEMMA Restamped ==
    ASSUME NEW u \in Updates, NEW t \in Nat
    PROVE  /\ [u EXCEPT !.ts = t] \in Updates
           /\ [u EXCEPT !.ts = t].ts = t
           /\ [u EXCEPT !.ts = t].id = u.id
           /\ [u EXCEPT !.ts = t].action = u.action
BY DEF Updates

LEMMA Refilled ==
    ASSUME NEW u \in Updates, NEW d \in Data
    PROVE  /\ [u EXCEPT !.router = d] \in Updates
           /\ [u EXCEPT !.router = d].router = d
           /\ [u EXCEPT !.router = d].id = u.id
           /\ [u EXCEPT !.router = d].ts = u.ts
           /\ [u EXCEPT !.router = d].prio = u.prio
           /\ [u EXCEPT !.router = d].action = u.action
BY DEF Updates

LEMMA SyncAsked ==
    ASSUME NEW s \in Syncs, NEW t \in Nat, NEW p \in SUBSET Routers
    PROVE  /\ [s EXCEPT !.at = "asked", !.ts = t, !.prev = p] \in Syncs
           /\ [s EXCEPT !.at = "asked", !.ts = t, !.prev = p].at = "asked"
           /\ [s EXCEPT !.at = "asked", !.ts = t, !.prev = p].ts = t
BY DEF Syncs

LEMMA SyncAnswered ==
    ASSUME NEW s \in Syncs, NEW d \in [Routers -> Data]
    PROVE  /\ [s EXCEPT !.at = "answered", !.routers = d] \in Syncs
           /\ [s EXCEPT !.at = "answered", !.routers = d].at = "answered"
           /\ [s EXCEPT !.at = "answered", !.routers = d].ts = s.ts
           /\ [s EXCEPT !.at = "answered", !.routers = d].routers = d
BY DEF Syncs

LEMMA TypeStep == ASSUME TypeOK, [Next]_vars PROVE TypeOK'
<1>1. ASSUME NEW r \in Routers, NEW kind \in {"here", "foreign", "gone"}, Change(r, kind)
      PROVE  TypeOK'
  <2>1. db' \in [Routers -> Data] /\ now' \in Nat
    BY <1>1 DEF TypeOK, Change, Tick, Data
  <2>2. notes' \subseteq Notes
    BY <1>1 DEF TypeOK, Change, Notes
  <2> QED  BY <1>1, <2>1, <2>2 DEF TypeOK, Change, agentVars
<1>2. ASSUME NEW n \in notes, Deliver(n) PROVE TypeOK'
  <2>1. [id |-> n.id, prio |-> 0, ts |-> now + 1,
         action |-> n.action, router |-> NoData] \in Updates
    BY Constants DEF TypeOK, Notes, Updates
  <2> QED  BY <1>2, <2>1 DEF TypeOK, Deliver, Tick
<1>3. ASSUME NEW w \in Workers, NEW u \in queue, Take(w, u) PROVE TypeOK'
  <2>0. u \in Updates /\ u.id \in Routers /\ own[u.id] \in Seq(Updates)
    BY DEF TypeOK, Updates
  <2>1. CASE Become(w, u)
    BY <1>3, <2>0, <2>1, OneFacts DEF TypeOK, Take, Become
  <2>2. CASE HandOver(u)
    <3>1. Append(own[u.id], u) \in Seq(Updates)
      BY <2>0, AppendFacts
    <3> QED  BY <1>3, <2>0, <2>2, <3>1 DEF TypeOK, Take, HandOver
  <2> QED  BY <1>3, <2>1, <2>2 DEF Take
<1>4. ASSUME NEW w \in Workers, Work(w) PROVE TypeOK'
  <2> DEFINE r == cur[w].id
  <2>1. r \in Routers /\ own[r] \in Seq(Updates) /\ cur[w] \in Updates
        /\ cur[w].router \in Data /\ cur[w].ts \in Nat
    BY DEF TypeOK, Updates
  <2>2. CASE Skip(w)
    <3>1. Tail(own[r]) \in Seq(Updates)
      BY <2>1, <2>2, TailFacts DEF Skip
    <3> QED  BY <2>1, <2>2, <3>1 DEF TypeOK, Skip
  <2>3. CASE Begin(w)
    <3> DEFINE u == Head(own[r])
    <3>1. Tail(own[r]) \in Seq(Updates) /\ u \in Updates
      BY <2>1, <2>3, TailFacts DEF Begin
    <3>2. own' \in [Routers -> Seq(Updates)]
      BY <2>1, <2>3, <3>1 DEF TypeOK, Begin
    <3>3. /\ now' \in Nat
          /\ at' \in [Workers -> {"idle", "next", "fetch", "apply", "remove"}]
          /\ cur' \in [Workers -> Updates]
      <4>0. now + 1 \in Nat
        BY DEF TypeOK
      <4>1. [u EXCEPT !.ts = now + 1] \in Updates
        BY <3>1, <4>0, Restamped
      <4>2. CASE Fetched(w, u)
        BY <4>1, <4>2 DEF TypeOK, Fetched, Tick
      <4>3. CASE Carried(w, u)
        BY <3>1, <4>3 DEF TypeOK, Carried
      <4> QED  BY <2>3, <4>2, <4>3 DEF Begin
    <3> QED  BY <2>3, <3>2, <3>3 DEF TypeOK, Begin
  <2>4. CASE Leave(w)
    BY <2>1, <2>4, Constants DEF TypeOK, Leave
  <2>5. CASE Answer(w)
    <3>1. [cur[w] EXCEPT !.router = db[r]] \in Updates
      BY <2>1, Refilled DEF TypeOK
    <3> QED  BY <2>5, <3>1 DEF TypeOK, Answer
  <2>6. CASE FetchFails(w) \/ Add(w)
    BY <2>1, <2>6 DEF TypeOK, FetchFails, Add
  <2>7. CASE Apply(w)
    <3>1. conf' \in [Routers -> Data] /\ known' \in SUBSET Routers
      BY <2>1, <2>7, Constants DEF TypeOK, Apply, Configured
    <3>2. stamp' \in [Routers -> Nat]
      BY <2>1, <2>7 DEF TypeOK, Apply, Stamped
    <3> QED  BY <2>7, <3>1, <3>2 DEF TypeOK, Apply
  <2>8. CASE Remove(w)
    BY <2>1, <2>8, Constants DEF TypeOK, Remove
  <2>9. CASE Raise(w)
    BY <2>1, <2>9, Constants, NoneFacts DEF TypeOK, Raise
  <2> QED  BY <1>4, <2>2, <2>3, <2>4, <2>5, <2>6, <2>7, <2>8, <2>9 DEF Work
<1>5. CASE SyncStart
  <2>1. now + 1 \in Nat /\ known \in SUBSET Routers /\ sync \in Syncs
    BY DEF TypeOK
  <2>2. sync' \in Syncs /\ now' \in Nat
    BY <1>5, <2>1, SyncAsked DEF SyncStart, Tick
  <2> QED  BY <1>5, <2>2 DEF TypeOK, SyncStart
<1>6. CASE SyncAnswer
  BY <1>6, SyncAnswered DEF TypeOK, SyncAnswer
<1>7. CASE SyncEnd
  <2>1. \A r \in Routers : FromSync(r) \in Updates
    BY DEF FromSync, Updates, TypeOK, Syncs
  <2> QED  BY <1>7, <2>1, Constants DEF TypeOK, SyncEnd
<1>8. CASE SyncFails \/ AskSync
  BY <1>8, Constants DEF TypeOK, SyncFails, AskSync
<1>9. CASE Restart
  BY <1>9, Constants, NoneFacts DEF TypeOK, Restart
<1>10. CASE UNCHANGED vars
  BY <1>10 DEF TypeOK, vars, agentVars
<1> QED  BY <1>1, <1>2, <1>3, <1>4, <1>5, <1>6, <1>7, <1>8, <1>9, <1>10
         DEF Next, Agent, Server

(* Every step keeps the types.                                             *)
THEOREM TypeCorrect == Spec => []TypeOK
<1>1. Init => TypeOK
  BY Constants, NoneFacts DEF Init, TypeOK, Data
<1>2. TypeOK /\ [Next]_vars => TypeOK'
  BY TypeStep
<1> QED  BY <1>1, <1>2, PTL DEF Spec

-----------------------------------------------------------------------------
(* The queues of the masters, and what each worker is at.                  *)

Struct ==
    /\ Exclusive
    /\ NoDeadMaster
    /\ \A r \in Routers : \A i \in 1..Len(own[r]) : own[r][i].id = r

LEMMA StructStep == ASSUME TypeOK, Struct, [Next]_vars PROVE Struct'
<1> USE DEF Struct, Exclusive, NoDeadMaster
<1>1. ASSUME UNCHANGED <<masters, own, at, cur>> PROVE Struct'
  BY <1>1
<1>2. ASSUME NEW w \in Workers, NEW u \in queue, Take(w, u) PROVE Struct'
  <2>0. u \in Updates /\ u.id \in Routers /\ own[u.id] \in Seq(Updates)
    BY Fields DEF TypeOK
  <2>1. CASE Become(w, u)
    <3>1. masters' = [masters EXCEPT ![u.id] = w] /\ at' = [at EXCEPT ![w] = "next"]
          /\ cur' = [cur EXCEPT ![w] = u] /\ own' = [own EXCEPT ![u.id] = <<u>>]
          /\ masters[u.id] = NoWorker /\ at[w] = "idle"
      BY <1>2, <2>1 DEF Become, Take
    <3>2. Exclusive'
      BY <2>0, <3>1, WorkersAssumption DEF TypeOK
    <3>3. NoDeadMaster'
      BY <2>0, <3>1, WorkersAssumption DEF TypeOK
    <3>4. ASSUME NEW r \in Routers, NEW i \in 1..Len(own'[r]) PROVE own'[r][i].id = r
      BY <2>0, <3>1, <3>4, OneFacts DEF TypeOK
    <3> QED  BY <3>2, <3>3, <3>4
  <2>2. CASE HandOver(u)
    <3>1. UNCHANGED <<masters, at, cur>> /\ own' = [own EXCEPT ![u.id] = Append(@, u)]
          /\ masters[u.id] # NoWorker
      BY <2>2 DEF HandOver
    <3>2. ASSUME NEW r \in Routers, NEW i \in 1..Len(own'[r]) PROVE own'[r][i].id = r
      <4>1. CASE r = u.id
        <5>1. own'[r] = Append(own[r], u) /\ own[r] \in Seq(Updates)
          BY <2>0, <3>1, <4>1 DEF TypeOK
        <5>2. i \in 1..Len(own[r]) \/ i = Len(own[r]) + 1
          BY <2>0, <5>1, <3>2, AppendFacts
        <5> QED  BY <2>0, <4>1, <5>1, <5>2, AppendFacts
      <4>2. CASE r # u.id
        BY <2>0, <3>1, <4>2 DEF TypeOK
      <4> QED  BY <4>1, <4>2
    <3>3. Exclusive' /\ NoDeadMaster'
      BY <2>0, <3>1 DEF TypeOK
    <3> QED  BY <3>2, <3>3
  <2> QED  BY <1>2, <2>1, <2>2 DEF Take
<1>3. ASSUME NEW w \in Workers, Work(w) PROVE Struct'
  <2> DEFINE r == cur[w].id
  <2>0. r \in Routers /\ own[r] \in Seq(Updates) /\ cur[w] \in Updates
    BY Fields DEF TypeOK
  <2>1. ASSUME own[r] # <<>>, own' = [own EXCEPT ![r] = Tail(@)], UNCHANGED masters,
               at[w] # "idle", cur'[w].id = r, at'[w] # "idle",
               \A v \in Workers \ {w} : at'[v] = at[v] /\ cur'[v] = cur[v]
        PROVE  Struct'
    <3>1. ASSUME NEW q \in Routers, NEW i \in 1..Len(own'[q]) PROVE own'[q][i].id = q
      <4>1. CASE q = r
        <5>1. own'[q] = Tail(own[q]) /\ own[q] \in Seq(Updates) /\ own[q] # <<>>
          BY <2>0, <2>1, <4>1 DEF TypeOK
        <5> QED  BY <5>1, <3>1, TailFacts
      <4>2. CASE q # r
        BY <2>0, <2>1, <4>2 DEF TypeOK
      <4> QED  BY <4>1, <4>2
    <3>2. masters[r] = w
      BY <2>1
    <3>3. Exclusive'
      BY <2>1, <3>2, <2>0
    <3>4. ASSUME NEW q \in Routers \ {r}
          PROVE  /\ masters'[q] = masters[q] /\ own'[q] = own[q]
                 /\ masters[q] # NoWorker =>
                      /\ at'[masters[q]] = at[masters[q]]
                      /\ cur'[masters[q]] = cur[masters[q]]
      BY <2>0, <2>1, <3>2 DEF TypeOK
    <3>5. NoDeadMaster'
      BY <2>0, <2>1, <3>2, <3>4, WorkersAssumption
    <3> QED  BY <3>1, <3>3, <3>5
  <2>2. CASE Skip(w)
    BY <2>0, <2>1, <2>2 DEF Skip
  <2>3. CASE Begin(w)
    <3> DEFINE u == Head(own[r])
    <3>1. u \in Updates /\ u.id = r
      BY <2>0, <2>3, TailFacts DEF Begin
    <3>2. now + 1 \in Nat
      BY DEF TypeOK
    <3>3. CASE Fetched(w, u)
      <4>1. [u EXCEPT !.ts = now + 1].id = r
        BY <3>1, <3>2, Restamped
      <4>2. /\ cur' = [cur EXCEPT ![w] = [u EXCEPT !.ts = now + 1]]
            /\ at' = [at EXCEPT ![w] = "fetch"] /\ at[w] = "next"
            /\ own[r] # <<>> /\ own' = [own EXCEPT ![r] = Tail(@)] /\ UNCHANGED masters
        BY <2>3, <3>3 DEF Begin, Fetched
      <4>3. /\ cur'[w].id = r /\ at'[w] # "idle"
            /\ \A v \in Workers \ {w} : at'[v] = at[v] /\ cur'[v] = cur[v]
        BY <4>1, <4>2 DEF TypeOK
      <4> HIDE DEF r, u
      <4> QED  BY <2>1, <4>2, <4>3
    <3>4. CASE Carried(w, u)
      <4>1. /\ cur' = [cur EXCEPT ![w] = u]
            /\ at' = [at EXCEPT ![w] = IF u.action = "delete" THEN "remove" ELSE "apply"]
            /\ at[w] = "next" /\ own[r] # <<>> /\ own' = [own EXCEPT ![r] = Tail(@)]
            /\ UNCHANGED masters
        BY <2>3, <3>4 DEF Begin, Carried
      <4>2. /\ cur'[w].id = r /\ at'[w] # "idle"
            /\ \A v \in Workers \ {w} : at'[v] = at[v] /\ cur'[v] = cur[v]
        BY <3>1, <4>1 DEF TypeOK
      <4> HIDE DEF r, u
      <4> QED  BY <2>1, <4>1, <4>2
    <3> QED  BY <2>3, <3>3, <3>4 DEF Begin
  <2>4. CASE Leave(w) \/ Raise(w)
    <3>1. masters' = [masters EXCEPT ![r] = NoWorker] /\ at' = [at EXCEPT ![w] = "idle"]
          /\ cur' = [cur EXCEPT ![w] = NoUpdate] /\ at[w] # "idle"
          /\ own'[r] = <<>> /\ \A q \in Routers \ {r} : own'[q] = own[q]
      BY <2>0, <2>4 DEF Leave, Raise, TypeOK
    <3>2. masters[r] = w
      BY <3>1
    <3>3. Exclusive'
      BY <2>0, <3>1, <3>2 DEF TypeOK
    <3>4. NoDeadMaster'
      BY <2>0, <3>1, <3>2, WorkersAssumption DEF TypeOK
    <3>5. \A q \in Routers : \A i \in 1..Len(own'[q]) : own'[q][i].id = q
      BY <3>1, NoneFacts
    <3> QED  BY <3>3, <3>4, <3>5
  <2>5. CASE Answer(w)
    <3>1. cur'[w].id = r /\ at'[w] # "idle"
      BY <2>0, <2>5, Refilled DEF Answer, TypeOK
    <3>2. \A v \in Workers \ {w} : at'[v] = at[v] /\ cur'[v] = cur[v]
      BY <2>5 DEF Answer, TypeOK
    <3> QED  BY <2>0, <2>5, <3>1, <3>2, WorkersAssumption DEF Answer, TypeOK
  <2>6. CASE FetchFails(w) \/ Add(w) \/ Apply(w) \/ Remove(w)
    <3>1. UNCHANGED <<masters, own, cur>> /\ at[w] # "idle" /\ at'[w] # "idle"
          /\ \A v \in Workers \ {w} : at'[v] = at[v]
      BY <2>6 DEF FetchFails, Add, Apply, Remove, TypeOK
    <3> QED  BY <3>1, WorkersAssumption DEF TypeOK
  <2> QED  BY <1>3, <2>2, <2>3, <2>4, <2>5, <2>6 DEF Work
<1>4. CASE Restart
  BY <1>4, NoneFacts DEF Restart
<1>5. ASSUME NEW r \in Routers, NEW kind \in {"here", "foreign", "gone"}, Change(r, kind)
      PROVE  Struct'
  BY <1>1, <1>5 DEF Change, agentVars
<1>6. ASSUME NEW n \in notes, Deliver(n) PROVE Struct'
  BY <1>1, <1>6 DEF Deliver
<1>7. CASE SyncStart \/ SyncAnswer \/ SyncEnd \/ SyncFails \/ AskSync \/ UNCHANGED vars
  BY <1>1, <1>7 DEF SyncStart, SyncAnswer, SyncEnd, SyncFails, AskSync, vars, agentVars
<1> QED  BY <1>2, <1>3, <1>4, <1>5, <1>6, <1>7 DEF Next, Agent, Server

LEMMA StructAlways == Spec => [](TypeOK /\ Struct)
<1>1. Init => Struct
  BY NoneFacts DEF Init, Struct, Exclusive, NoDeadMaster
<1>2. TypeOK /\ Struct /\ [Next]_vars => Struct'
  BY StructStep
<1> QED  BY <1>1, <1>2, TypeCorrect, PTL DEF Spec

(* Whatever fails, a router is processed by one worker at a time ...       *)
THEOREM OneWorker == Spec => []Exclusive
BY StructAlways, PTL DEF Struct

(* ... and its processing is never barred by a master that has gone.       *)
THEOREM MastersWork == Spec => []NoDeadMaster
BY StructAlways, PTL DEF Struct

-----------------------------------------------------------------------------
(* What the times say.                                                     *)

\* An update whose time is not before the last change of its router carries
\* the router as it is, and one of a full synchronisation that deletes the
\* router is right to do so.
Sound(u) ==
    db[u.id].since <= u.ts =>
        /\ u.action = "update" /\ u.router.kind # "gone" => u.router = db[u.id]
        /\ u.action = "delete" /\ u.prio = 1 => db[u.id].kind = "gone"

\* The same of an update a worker is at.
SoundAt(w) ==
    LET u == cur[w] IN
    /\ u.ts <= now
    /\ at[w] \in {"fetch", "apply", "remove"} => IsFresh(u)
    /\ at[w] \in {"fetch", "apply"} => u.action = "update"
    /\ at[w] = "apply" /\ db[u.id].since <= u.ts => u.router = db[u.id]
    /\ at[w] = "remove" /\ db[u.id].since <= u.ts /\ db[u.id].kind # "gone"
         => u.action = "delete" /\ u.prio = 0

Queued(u) ==
    /\ u.ts <= now
    /\ u.prio = 0 => u.router.kind = "gone"
    /\ Sound(u)

Times ==
    /\ \A r \in Routers : db[r].since \in 1..now /\ stamp[r] <= now
    /\ \A u \in queue : Queued(u)
    /\ \A r \in Routers : \A i \in 1..Len(own[r]) : Queued(own[r][i])
    /\ \A w \in Workers : SoundAt(w)
    /\ sync.ts <= now
    /\ sync.at = "answered" =>
         \A r \in Routers : db[r].since <= sync.ts => sync.routers[r] = db[r]

\* Time goes on, and only the server changes the database.
LEMMA ClockStep ==
    ASSUME TypeOK, [Next]_vars
    PROVE  /\ now' \in {now, now + 1}
           /\ \/ db' = db
              \/ \E r \in Routers : \E kind \in {"here", "foreign", "gone"} : Change(r, kind)
<1>1. ASSUME NEW r \in Routers, NEW kind \in {"here", "foreign", "gone"}, Change(r, kind)
      PROVE  now' = now + 1
  BY <1>1 DEF Change, Tick
<1>2. ASSUME NEW n \in notes, Deliver(n) PROVE now' = now + 1 /\ db' = db
  BY <1>2 DEF Deliver, Tick
<1>3. ASSUME NEW w \in Workers, NEW u \in queue, Take(w, u) PROVE now' = now /\ db' = db
  BY <1>3 DEF Take
<1>4. ASSUME NEW w \in Workers, Work(w) PROVE now' \in {now, now + 1} /\ db' = db
  BY <1>4 DEF Work, Skip, Begin, Fetched, Carried, Tick, Leave, Answer, FetchFails, Add,
              Apply, Remove, Raise
<1>5. CASE SyncStart \/ SyncAnswer \/ SyncEnd \/ SyncFails \/ AskSync \/ Restart
           \/ UNCHANGED vars
  BY <1>5 DEF SyncStart, SyncAnswer, SyncEnd, SyncFails, AskSync, Restart, Tick, vars
<1> QED  BY <1>1, <1>2, <1>3, <1>4, <1>5 DEF Next, Agent, Server

\* A change concerns one router, and is younger than all that has a time.
LEMMA ChangeFacts ==
    ASSUME TypeOK, NEW r \in Routers, NEW kind \in {"here", "foreign", "gone"},
           Change(r, kind)
    PROVE  /\ now' = now + 1 /\ UNCHANGED agentVars
           /\ db'[r].since = now + 1 /\ db'[r].kind = kind
           /\ \A q \in Routers \ {r} : db'[q] = db[q]
BY DEF Change, Tick, TypeOK

LEMMA QueuedStep ==
    ASSUME TypeOK, [Next]_vars, NEW u \in Updates, Queued(u) PROVE Queued(u)'
<1>1. u.ts \in Nat /\ u.id \in Routers /\ now \in Nat
  BY Fields DEF TypeOK
<1>2. u.ts <= now'
  BY <1>1, ClockStep DEF Queued
<1>3. Sound(u)'
  <2>1. CASE db' = db
    BY <2>1 DEF Queued, Sound
  <2>2. ASSUME NEW r \in Routers, NEW kind \in {"here", "foreign", "gone"}, Change(r, kind)
        PROVE  Sound(u)'
    BY <1>1, <2>2, ChangeFacts DEF Queued, Sound
  <2> QED  BY <2>1, <2>2, ClockStep
<1> QED  BY <1>2, <1>3 DEF Queued

\* What is in the queues comes from them, from a notification or from a
\* synchronisation.
LEMMA QueueStep ==
    ASSUME TypeOK, [Next]_vars, NEW u \in queue'
    PROVE  \/ u \in queue
           \/ \E n \in notes : /\ Deliver(n)
                               /\ u = [id |-> n.id, prio |-> 0, ts |-> now + 1,
                                       action |-> n.action, router |-> NoData]
           \/ SyncEnd /\ \E r \in Routers : u = FromSync(r)
<1>1. ASSUME NEW n \in notes, Deliver(n)
      PROVE  u \in queue \/ u = [id |-> n.id, prio |-> 0, ts |-> now + 1,
                                 action |-> n.action, router |-> NoData]
  BY <1>1 DEF Deliver
<1>2. ASSUME NEW w \in Workers, NEW v \in queue, Take(w, v) PROVE u \in queue
  BY <1>2 DEF Take
<1>3. ASSUME NEW w \in Workers, Work(w) PROVE u \in queue
  BY <1>3 DEF Work, Skip, Begin, Leave, Answer, FetchFails, Add, Apply, Remove, Raise
<1>4. CASE SyncEnd
  BY <1>4 DEF SyncEnd
<1>5. CASE SyncStart \/ SyncAnswer \/ SyncFails \/ AskSync \/ Restart \/ UNCHANGED vars
  BY <1>5 DEF SyncStart, SyncAnswer, SyncFails, AskSync, Restart, vars, agentVars
<1>6. ASSUME NEW r \in Routers, NEW kind \in {"here", "foreign", "gone"}, Change(r, kind)
      PROVE  u \in queue
  BY <1>6 DEF Change, agentVars
<1> QED  BY <1>1, <1>2, <1>3, <1>4, <1>5, <1>6 DEF Next, Agent, Server

LEMMA OwnStep ==
    ASSUME TypeOK, [Next]_vars, NEW r \in Routers, NEW i \in 1..Len(own'[r])
    PROVE  \/ own'[r][i] \in queue
           \/ \E j \in 1..Len(own[r]) : own'[r][i] = own[r][j]
<1>0. own[r] \in Seq(Updates)
  BY DEF TypeOK
<1>1. CASE own'[r] = own[r]
  BY <1>1
<1>2. CASE own'[r] = <<>>
  BY <1>2, NoneFacts
<1>3. CASE own[r] # <<>> /\ own'[r] = Tail(own[r])
  BY <1>0, <1>3, TailFacts
<1>4. ASSUME NEW u \in queue, own'[r] = <<u>> \/ own'[r] = Append(own[r], u)
      PROVE  \/ own'[r][i] \in queue
             \/ \E j \in 1..Len(own[r]) : own'[r][i] = own[r][j]
  <2>1. u \in Updates
    BY DEF TypeOK
  <2>2. CASE own'[r] = <<u>>
    BY <2>1, <2>2, OneFacts
  <2>3. CASE own'[r] = Append(own[r], u)
    <3>1. i \in 1..Len(own[r]) \/ i = Len(own[r]) + 1
      BY <1>0, <2>1, <2>3, AppendFacts
    <3> QED  BY <1>0, <2>1, <2>3, <3>1, AppendFacts
  <2> QED  BY <1>4, <2>2, <2>3
<1>5. ASSUME NEW w \in Workers, NEW u \in queue, Take(w, u)
      PROVE  own'[r] = own[r] \/ own'[r] = <<u>> \/ own'[r] = Append(own[r], u)
  BY <1>5 DEF Take, Become, HandOver, TypeOK
<1>6. ASSUME NEW w \in Workers, Work(w)
      PROVE  own'[r] = own[r] \/ own'[r] = <<>> \/ (own[r] # <<>> /\ own'[r] = Tail(own[r]))
  BY <1>6 DEF Work, Skip, Begin, Leave, Answer, FetchFails, Add, Apply, Remove, Raise, TypeOK
<1>7. CASE SyncStart \/ SyncAnswer \/ SyncEnd \/ SyncFails \/ AskSync \/ UNCHANGED vars
  BY <1>1, <1>7 DEF SyncStart, SyncAnswer, SyncEnd, SyncFails, AskSync, vars, agentVars
<1>8. CASE Restart
  BY <1>2, <1>8 DEF Restart
<1>9. ASSUME NEW q \in Routers, NEW kind \in {"here", "foreign", "gone"}, Change(q, kind)
      PROVE  own' = own
  BY <1>9 DEF Change, agentVars
<1>10. ASSUME NEW n \in notes, Deliver(n) PROVE own' = own
  BY <1>10 DEF Deliver
<1> QED  BY <1>1, <1>2, <1>3, <1>4, <1>5, <1>6, <1>7, <1>8, <1>9, <1>10
         DEF Next, Agent, Server

LEMMA UndisturbedStep ==
    ASSUME TypeOK, Times, [Next]_vars, NEW w \in Workers,
           at'[w] = at[w], cur'[w] = cur[w],
           at[w] \in {"idle", "next"} \/ stamp'[cur[w].id] = stamp[cur[w].id]
    PROVE  SoundAt(w)'
<1>1. cur[w] \in Updates /\ now \in Nat
  BY DEF TypeOK
<1>2. cur[w].ts \in Nat /\ cur[w].id \in Routers
  BY <1>1, Fields
<1>3. SoundAt(w)
  BY DEF Times
<1>4. cur[w].ts <= now'
  BY <1>1, <1>2, <1>3, ClockStep DEF SoundAt
<1>5. CASE db' = db
  BY <1>3, <1>4, <1>5 DEF SoundAt, IsFresh
<1>6. ASSUME NEW r \in Routers, NEW kind \in {"here", "foreign", "gone"}, Change(r, kind)
      PROVE  SoundAt(w)'
  <2>1. now' = now + 1 /\ db'[r].since = now + 1 /\ \A q \in Routers \ {r} : db'[q] = db[q]
    BY <1>6, ChangeFacts
  <2>2. CASE cur[w].id = r
    BY <1>1, <1>2, <1>3, <1>4, <2>1, <2>2 DEF SoundAt, IsFresh
  <2>3. CASE cur[w].id # r
    BY <1>2, <1>3, <1>4, <2>1, <2>3 DEF SoundAt, IsFresh
  <2> QED  BY <2>2, <2>3
<1> QED  BY <1>5, <1>6, ClockStep

LEMMA WorkSound ==
    ASSUME TypeOK, Struct, Times, NEW w \in Workers, Work(w) PROVE SoundAt(w)'
<1> DEFINE r == cur[w].id
<1>0. /\ r \in Routers /\ own[r] \in Seq(Updates) /\ cur[w] \in Updates
      /\ now \in Nat /\ cur[w].ts \in Nat /\ SoundAt(w) /\ [Next]_vars
  BY Fields DEF TypeOK, Times, Next, Agent
<1>1. CASE Skip(w)
  BY <1>0, <1>1, UndisturbedStep DEF Skip
<1>2. CASE Begin(w)
  <2> DEFINE u == Head(own[r])
  <2>1. u \in Updates /\ u.id = r /\ Queued(u) /\ IsFresh(u)
    <3>1. own[r] # <<>> /\ IsFresh(u)
      BY <1>2 DEF Begin
    <3>2. Len(own[r]) \in Nat \ {0} /\ u = own[r][1] /\ u \in Updates
      BY <1>0, <3>1, TailFacts
    <3>3. 1 \in 1..Len(own[r])
      BY <3>2
    <3> QED  BY <1>0, <3>1, <3>2, <3>3 DEF Times, Struct
  <2>2. u.ts \in Nat /\ u.prio \in {0, 1} /\ u.action \in {"update", "delete"}
        /\ stamp[r] \in Nat
    BY <1>0, <2>1, Fields DEF TypeOK
  <2>3. CASE Fetched(w, u)
    <3> DEFINE v == [u EXCEPT !.ts = now + 1]
    <3>0. now + 1 \in Nat
      BY <1>0
    <3>1. v.ts = now + 1 /\ v.id = r /\ v.action = "update"
      BY <2>1, <2>2, <2>3, <3>0, Restamped DEF Fetched
    <3>2. cur'[w] = v /\ at'[w] = "fetch" /\ now' = now + 1 /\ stamp' = stamp
      BY <1>0, <1>2, <2>3 DEF Begin, Fetched, Tick, TypeOK
    <3>3. stamp[r] <= now
      BY <1>0 DEF Times
    <3> HIDE DEF v
    <3> QED  BY <1>0, <2>2, <3>1, <3>2, <3>3 DEF SoundAt, IsFresh
  <2>4. CASE Carried(w, u)
    <3>1. /\ cur'[w] = u /\ now' = now /\ stamp' = stamp /\ db' = db
          /\ at'[w] = IF u.action = "delete" THEN "remove" ELSE "apply"
          /\ u.action = "delete" \/ u.router.kind # "gone"
      BY <1>0, <1>2, <2>4 DEF Begin, Carried, TypeOK
    <3>2. CASE u.action = "delete"
      BY <2>1, <2>2, <3>1, <3>2 DEF SoundAt, Queued, Sound, IsFresh
    <3>3. CASE u.action = "update"
      BY <2>1, <2>2, <3>1, <3>3 DEF SoundAt, Queued, Sound, IsFresh
    <3> QED  BY <2>2, <3>2, <3>3
  <2> QED  BY <1>2, <2>3, <2>4 DEF Begin
<1>3. CASE Leave(w) \/ Raise(w)
  <2>1. at'[w] = "idle" /\ cur'[w] = NoUpdate /\ now' = now
    BY <1>0, <1>3 DEF Leave, Raise, TypeOK
  <2> QED  BY <1>0, <2>1 DEF SoundAt, NoUpdate
<1>4. CASE Answer(w)
  <2> DEFINE v == [cur[w] EXCEPT !.router = db[r]]
  <2>1. db[r] \in Data
    BY <1>0 DEF TypeOK
  <2>2. v.router = db[r] /\ v.id = r /\ v.ts = cur[w].ts /\ v.action = cur[w].action
    BY <1>0, <2>1, Refilled
  <2>3. /\ cur'[w] = v /\ now' = now /\ stamp' = stamp /\ db' = db
        /\ at'[w] = IF db[r].kind = "gone" THEN "remove" ELSE "apply"
        /\ at[w] = "fetch"
    BY <1>0, <1>4 DEF Answer, TypeOK
  <2> QED  BY <1>0, <2>2, <2>3 DEF SoundAt, IsFresh
<1>5. CASE FetchFails(w) \/ Apply(w) \/ Remove(w)
  <2>1. at'[w] = "next" /\ cur'[w] = cur[w] /\ now' = now
    BY <1>0, <1>5 DEF FetchFails, Apply, Remove, TypeOK
  <2> QED  BY <1>0, <2>1 DEF SoundAt
<1>6. CASE Add(w)
  BY <1>0, <1>6, UndisturbedStep DEF Add
<1> QED  BY <1>1, <1>2, <1>3, <1>4, <1>5, <1>6 DEF Work

LEMMA SoundAtStep ==
    ASSUME TypeOK, Struct, Times, [Next]_vars, NEW w \in Workers PROVE SoundAt(w)'
<1>0. cur[w] \in Updates /\ cur[w].id \in Routers /\ now \in Nat
  BY Fields DEF TypeOK
<1>1. ASSUME NEW v \in Workers, NEW u \in queue, Take(v, u) PROVE SoundAt(w)'
  <2>1. CASE Become(v, u) /\ v = w
    <3>1. at'[w] = "next" /\ cur'[w] = u /\ now' = now
      BY <1>1, <2>1 DEF Take, Become, TypeOK
    <3> QED  BY <3>1 DEF SoundAt, Times, Queued
  <2>2. CASE HandOver(u) \/ v # w
    BY <1>1, <2>2, UndisturbedStep DEF Take, Become, HandOver, TypeOK
  <2> QED  BY <1>1, <2>1, <2>2 DEF Take
<1>2. ASSUME NEW v \in Workers, Work(v) PROVE SoundAt(w)'
  <2>1. CASE v = w
    BY <1>2, <2>1, WorkSound
  <2>2. CASE v # w
    <3>1. at'[w] = at[w] /\ cur'[w] = cur[w]
      BY <1>2, <2>2 DEF Work, Skip, Begin, Fetched, Carried, Leave, Answer, FetchFails,
                       Add, Apply, Remove, Raise, TypeOK
    <3>2. at[w] = "idle" \/ stamp'[cur[w].id] = stamp[cur[w].id]
      <4>1. CASE Apply(v)
        <5>1. stamp' = [stamp EXCEPT ![cur[v].id] = IF @ < cur[v].ts THEN cur[v].ts ELSE @]
              /\ at[v] # "idle"
          BY <4>1 DEF Apply, Stamped
        <5>2. at[w] = "idle" \/ cur[w].id # cur[v].id
          BY <2>2, <5>1 DEF Struct, Exclusive
        <5> QED  BY <1>0, <5>1, <5>2 DEF TypeOK
      <4>2. CASE ~Apply(v)
        BY <1>2, <4>2 DEF Work, Skip, Begin, Leave, Answer, FetchFails, Add, Remove, Raise
      <4> QED  BY <4>1, <4>2
    <3> QED  BY <3>1, <3>2, UndisturbedStep
  <2> QED  BY <2>1, <2>2
<1>3. CASE Restart
  <2>1. at'[w] = "idle" /\ cur'[w] = NoUpdate /\ now' = now
    BY <1>3 DEF Restart
  <2> QED  BY <1>0, <2>1 DEF SoundAt, NoUpdate
<1>4. CASE SyncStart \/ SyncAnswer \/ SyncEnd \/ SyncFails \/ AskSync \/ UNCHANGED vars
  BY <1>4, UndisturbedStep
     DEF SyncStart, SyncAnswer, SyncEnd, SyncFails, AskSync, vars, agentVars
<1>5. ASSUME NEW r \in Routers, NEW kind \in {"here", "foreign", "gone"}, Change(r, kind)
      PROVE  SoundAt(w)'
  BY <1>5, UndisturbedStep DEF Change, agentVars
<1>6. ASSUME NEW n \in notes, Deliver(n) PROVE SoundAt(w)'
  BY <1>6, UndisturbedStep DEF Deliver
<1> QED  BY <1>1, <1>2, <1>3, <1>4, <1>5, <1>6 DEF Next, Agent, Server

LEMMA NewQueued ==
    ASSUME TypeOK, Times, [Next]_vars, NEW u \in queue' PROVE Queued(u)'
<1>1. CASE u \in queue
  <2>1. u \in Updates /\ Queued(u)
    BY <1>1 DEF TypeOK, Times
  <2> QED  BY <2>1, QueuedStep
<1>2. ASSUME NEW n \in notes, Deliver(n),
             u = [id |-> n.id, prio |-> 0, ts |-> now + 1,
                  action |-> n.action, router |-> NoData]
      PROVE  Queued(u)'
  BY <1>2 DEF Deliver, Tick, Queued, Sound, NoData, TypeOK
<1>3. ASSUME SyncEnd, NEW r \in Routers, u = FromSync(r) PROVE Queued(u)'
  <2>1. /\ u.id = r /\ u.prio = 1 /\ u.ts = sync.ts /\ u.router = sync.routers[r]
        /\ u.action = IF sync.routers[r].kind = "gone" THEN "delete" ELSE "update"
    BY <1>3 DEF FromSync
  <2>2. now' = now /\ db' = db /\ sync.at = "answered"
    BY <1>3 DEF SyncEnd
  <2> QED  BY <2>1, <2>2 DEF Queued, Sound, Times
<1> QED  BY <1>1, <1>2, <1>3, QueueStep

\* The recorded times are those of updates that have been processed.
LEMMA StampStep ==
    ASSUME TypeOK, Times, [Next]_vars, NEW r \in Routers
    PROVE  stamp'[r] <= now'
<1>0. now \in Nat /\ stamp[r] \in Nat /\ stamp[r] <= now /\ now' \in {now, now + 1}
  BY ClockStep DEF TypeOK, Times
<1>1. ASSUME NEW w \in Workers, Apply(w) PROVE stamp'[r] <= now'
  BY <1>0, <1>1 DEF Apply, Stamped, Times, SoundAt, TypeOK
<1>2. CASE stamp' = stamp \/ stamp' = [q \in Routers |-> 0]
  BY <1>0, <1>2
<1>3. stamp' = stamp \/ stamp' = [q \in Routers |-> 0] \/ \E w \in Workers : Apply(w)
  BY DEF Next, Agent, Server, Change, Deliver, Take, Work, Skip, Begin, Leave, Answer,
         FetchFails, Add, Remove, Raise, SyncStart, SyncAnswer, SyncEnd, SyncFails, AskSync,
         Restart, vars, agentVars
<1> QED  BY <1>1, <1>2, <1>3

LEMMA SyncStep ==
    ASSUME TypeOK, Times, [Next]_vars
    PROVE  /\ sync'.ts <= now'
           /\ sync'.at = "answered" =>
                \A r \in Routers : db'[r].since <= sync'.ts => sync'.routers[r] = db'[r]
<1>0. now \in Nat /\ sync \in Syncs /\ sync.ts \in Nat /\ now' \in {now, now + 1}
      /\ sync.ts <= now
  BY ClockStep DEF TypeOK, Times, Syncs
<1> DEFINE P == /\ sync'.ts <= now'
                /\ sync'.at = "answered" =>
                     \A r \in Routers : db'[r].since <= sync'.ts
                                          => sync'.routers[r] = db'[r]
<1>1. CASE SyncStart
  <2>1. sync'.ts = now + 1 /\ sync'.at = "asked" /\ now' = now + 1
    <3>1. now + 1 \in Nat /\ known \in SUBSET Routers
      BY DEF TypeOK
    <3> DEFINE v == [sync EXCEPT !.at = "asked", !.ts = now + 1, !.prev = known]
    <3>2. v.ts = now + 1 /\ v.at = "asked"
      BY <1>0, <3>1 DEF Syncs
    <3>3. sync' = v /\ now' = now + 1
      BY <1>1 DEF SyncStart, Tick
    <3> HIDE DEF v
    <3> QED  BY <3>2, <3>3
  <2> QED  BY <1>0, <2>1
<1>2. CASE SyncAnswer
  <2>1. db \in [Routers -> Data]
    BY DEF TypeOK
  <2>2. sync' = [sync EXCEPT !.at = "answered", !.routers = db] /\ now' = now /\ db' = db
    BY <1>2 DEF SyncAnswer
  <2>3. sync'.ts = sync.ts /\ sync'.routers = db
    BY <1>0, <2>1, <2>2, SyncAnswered
  <2> QED  BY <1>0, <2>2, <2>3
<1>3. CASE sync' = NoSync
  BY <1>0, <1>3 DEF NoSync
<1>4. CASE sync' = sync /\ db' = db
  BY <1>0, <1>4 DEF Times
<1>5. ASSUME NEW r \in Routers, NEW kind \in {"here", "foreign", "gone"}, Change(r, kind)
      PROVE  P
  <2>1. sync' = sync /\ db'[r].since = now + 1 /\ \A q \in Routers \ {r} : db'[q] = db[q]
    BY <1>5, ChangeFacts DEF agentVars
  <2>2. ~(db'[r].since <= sync.ts)
    BY <1>0, <2>1
  <2>3. ASSUME sync'.at = "answered", NEW q \in Routers, db'[q].since <= sync'.ts
        PROVE  sync'.routers[q] = db'[q]
    BY <2>1, <2>2, <2>3 DEF Times
  <2> QED  BY <1>0, <2>1, <2>3
<1>6. \/ SyncStart \/ SyncAnswer \/ sync' = NoSync \/ (sync' = sync /\ db' = db)
      \/ \E r \in Routers : \E kind \in {"here", "foreign", "gone"} : Change(r, kind)
  BY DEF Next, Agent, Server, Deliver, Take, Work, Skip, Begin, Leave, Answer, FetchFails,
         Add, Apply, Remove, Raise, SyncEnd, SyncFails, AskSync, Restart, vars, agentVars
<1> QED  BY <1>1, <1>2, <1>3, <1>4, <1>5, <1>6

LEMMA TimesStep == ASSUME TypeOK, Struct, Times, [Next]_vars PROVE Times'
<1>1. ASSUME NEW r \in Routers PROVE db'[r].since \in 1..now' /\ stamp'[r] <= now'
  <2>1. db[r].since \in 1..now /\ now \in Nat
    BY DEF TypeOK, Times
  <2>2. ASSUME db' = db PROVE db'[r].since \in 1..now'
    BY <2>1, <2>2, ClockStep
  <2>3. ASSUME NEW q \in Routers, NEW kind \in {"here", "foreign", "gone"}, Change(q, kind)
        PROVE  db'[r].since \in 1..now'
    BY <2>1, <2>3, ChangeFacts
  <2>4. db'[r].since \in 1..now'
    BY <2>2, <2>3, ClockStep
  <2> QED  BY <2>4, StampStep
<1>2. \A u \in queue' : Queued(u)'
  BY NewQueued
<1>3. ASSUME NEW r \in Routers, NEW i \in 1..Len(own'[r]) PROVE Queued(own[r][i])'
  <2>1. PICK u \in Updates : u = own'[r][i] /\ Queued(u)
    <3>1. own'[r][i] \in queue \/ \E j \in 1..Len(own[r]) : own'[r][i] = own[r][j]
      BY OwnStep
    <3>2. \A j \in 1..Len(own[r]) : own[r][j] \in Updates
      BY DEF TypeOK
    <3> QED  BY <3>1, <3>2 DEF TypeOK, Times
  <2>2. Queued(u)'
    BY <2>1, QueuedStep
  <2> QED  BY <2>1, <2>2 DEF Queued, Sound
<1>4. \A w \in Workers : SoundAt(w)'
  BY SoundAtStep
<1> QED  BY <1>1, <1>2, <1>3, <1>4, SyncStep DEF Times

-----------------------------------------------------------------------------
(* The notifications of a router: the last one tells of its last change.   *)

Last(n) == n.since = db[n.id].since

NotesInv ==
    \A n \in notes :
        /\ n.since <= db[n.id].since
        /\ \E m \in notes : m.id = n.id /\ Last(m)
        /\ Last(n) /\ db[n.id].kind # "gone" => n.action = "update"

LastNote(r) == \E n \in notes : n.id = r /\ Last(n)

LEMMA ChangeNotes ==
    ASSUME TypeOK, Times, NotesInv, NEW r \in Routers,
           NEW kind \in {"here", "foreign", "gone"}, Change(r, kind)
    PROVE  NotesInv' /\ LastNote(r)' /\ \A q \in Routers \ {r} : LastNote(q) = LastNote(q)'
<1> DEFINE m == [id |-> r, since |-> now + 1,
                 action |-> IF kind = "gone" THEN "delete" ELSE "update"]
<1>1. /\ notes' = notes \cup {m} /\ db'[r].since = now + 1 /\ db'[r].kind = kind
      /\ \A q \in Routers \ {r} : db'[q] = db[q]
  BY ChangeFacts DEF Change
<1>2. m.id = r /\ m.since = now + 1 /\ (kind # "gone" => m.action = "update")
  OBVIOUS
<1> HIDE DEF m
<1>3. \A n \in notes : n.id \in Routers /\ n.since \in Nat
  BY DEF TypeOK, Notes
<1>4. \A n \in notes : n.id = r => n.since < now + 1
  <2> SUFFICES ASSUME NEW n \in notes, n.id = r PROVE n.since < now + 1
    OBVIOUS
  <2>1. n.since <= db[r].since /\ db[r].since \in 1..now /\ now \in Nat
    BY DEF NotesInv, Times, TypeOK
  <2> QED  BY <1>3, <2>1
<1>5. now + 1 \in Nat
  BY DEF TypeOK
<1>6. ASSUME NEW n \in notes'
      PROVE  /\ n.since <= db'[n.id].since
             /\ \E k \in notes' : k.id = n.id /\ k.since = db'[k.id].since
             /\ (n.since = db'[n.id].since /\ db'[n.id].kind # "gone")
                    => n.action = "update"
  <2>1. CASE n.id = r
    BY <1>1, <1>2, <1>3, <1>4, <1>5, <2>1
  <2>2. CASE n.id # r
    <3>1. n \in notes /\ db'[n.id] = db[n.id]
      BY <1>1, <1>2, <1>3, <2>2
    <3> QED  BY <1>1, <3>1 DEF NotesInv, Last
  <2> QED  BY <2>1, <2>2
<1>7. ASSUME NEW q \in Routers \ {r} PROVE LastNote(q) = LastNote(q)'
  BY <1>1, <1>2 DEF LastNote, Last
<1>8. LastNote(r)'
  BY <1>1, <1>2 DEF LastNote, Last
<1> QED  BY <1>6, <1>7, <1>8 DEF NotesInv, Last

\* A notification that is delivered is not the last of its router, or it asks
\* for an update if the router is listed.
LEMMA DeliverNotes ==
    ASSUME TypeOK, Times, NotesInv, NEW n \in notes, Deliver(n)
    PROVE  /\ NotesInv'
           /\ \A r \in Routers \ {n.id} : LastNote(r) = LastNote(r)'
           /\ db[n.id].kind # "gone" => LastNote(n.id)' \/ n.action = "update"
<1>1. notes' = notes \ {n} /\ db' = db /\ \A m \in notes : m.id = n.id => n.since <= m.since
  BY DEF Deliver
<1>2. \A m \in notes : m.id \in Routers /\ m.since \in Nat /\ db[m.id].since \in Nat
  BY DEF TypeOK, Notes, Data
<1>3. ASSUME NEW m \in notes' PROVE \E k \in notes' : k.id = m.id /\ k.since = db'[k.id].since
  <2>1. PICK k \in notes : k.id = m.id /\ Last(k)
    BY <1>1 DEF NotesInv
  <2>2. CASE k # n
    BY <1>1, <2>1, <2>2 DEF Last
  <2>3. CASE k = n
    <3>1. m.since <= db[m.id].since /\ n.since <= m.since /\ n.since = db[n.id].since
          /\ m.id = n.id
      BY <1>1, <2>1, <2>3 DEF NotesInv, Last
    <3> QED  BY <1>1, <1>2, <3>1
  <2> QED  BY <2>2, <2>3
<1>4. NotesInv'
  BY <1>1, <1>3 DEF NotesInv, Last
<1>5. ASSUME db[n.id].kind # "gone" PROVE LastNote(n.id)' \/ n.action = "update"
  BY <1>1, <1>5 DEF NotesInv, LastNote, Last
<1>6. \A r \in Routers \ {n.id} : LastNote(r) = LastNote(r)'
  BY <1>1 DEF LastNote, Last
<1> QED  BY <1>4, <1>5, <1>6

\* No other step has to do with them.
LEMMA OtherNotes ==
    ASSUME [Next]_vars
    PROVE  \/ notes' = notes /\ db' = db
           \/ \E r \in Routers : \E kind \in {"here", "foreign", "gone"} : Change(r, kind)
           \/ \E n \in notes : Deliver(n)
BY DEF Next, Agent, Server, Take, Work, Skip, Begin, Leave, Answer, FetchFails, Add, Apply,
       Remove, Raise, SyncStart, SyncAnswer, SyncEnd, SyncFails, AskSync, Restart, vars

LEMMA NotesStep == ASSUME TypeOK, Times, NotesInv, [Next]_vars PROVE NotesInv'
<1>1. ASSUME notes' = notes, db' = db PROVE NotesInv'
  BY <1>1 DEF NotesInv, Last
<1> QED  BY <1>1, ChangeNotes, DeliverNotes, OtherNotes

-----------------------------------------------------------------------------
(* A deletion that is younger than the last change of a listed router has  *)
(* a notification of that change behind it.                                *)

Asks(u, r, t) == u.id = r /\ u.action = "update" /\ u.ts > t
AskedInQueue(r, t) == \E u \in queue : Asks(u, r, t) /\ u.prio = 0
AskedInOwn(r, t, k) == \E j \in 1..Len(own[r]) :
                          j > k /\ Asks(own[r][j], r, t) /\ own[r][j].prio = 0

Dangerous(u) == /\ u.action = "delete" /\ u.prio = 0
                /\ db[u.id].kind # "gone" /\ db[u.id].since <= u.ts

Covered(r, t, k) == LastNote(r) \/ AskedInQueue(r, t) \/ AskedInOwn(r, t, k)

Behind ==
    /\ \A u \in queue : Dangerous(u) => LastNote(u.id) \/ AskedInQueue(u.id, u.ts)
    /\ \A r \in Routers : \A k \in 1..Len(own[r]) :
          Dangerous(own[r][k]) => Covered(r, own[r][k].ts, k)
    /\ \A w \in Workers :
          at[w] = "remove" /\ Dangerous(cur[w]) => Covered(cur[w].id, cur[w].ts, 0)

LEMMA BehindTake ==
    ASSUME TypeOK, Struct, Behind, NEW w \in Workers, NEW u \in queue, Take(w, u)
    PROVE  Behind'
<1>0. /\ u \in Updates /\ u.id \in Routers /\ u.ts \in Nat /\ own[u.id] \in Seq(Updates)
      /\ queue' = queue \ {u} /\ notes' = notes /\ db' = db /\ at[w] = "idle"
      /\ \A v \in queue : ~Before(v, u)
      /\ \A v \in queue : v.ts \in Nat /\ v.id \in Routers
  BY Fields DEF TypeOK, Take
<1>1. ASSUME NEW r \in Routers PROVE LastNote(r) => LastNote(r)'
  BY <1>0, <1>1 DEF LastNote, Last
\* The first update in the queue is not the asker behind another one.
<1>2. ASSUME NEW v \in queue, Dangerous(v), v # u
      PROVE  LastNote(v.id)' \/ AskedInQueue(v.id, v.ts)'
  <2>1. CASE LastNote(v.id)
    BY <1>0, <1>1, <2>1
  <2>2. CASE AskedInQueue(v.id, v.ts)
    <3>1. PICK y \in queue : Asks(y, v.id, v.ts) /\ y.prio = 0
      BY <2>2 DEF AskedInQueue
    <3>2. y # u
      BY <1>0, <1>2, <3>1 DEF Asks, Before, Dangerous
    <3> QED  BY <1>0, <3>1, <3>2 DEF AskedInQueue, Asks
  <2> QED  BY <1>2, <2>1, <2>2 DEF Behind
<1>3. Dangerous(u) => LastNote(u.id)' \/ AskedInQueue(u.id, u.ts)'
  <2>1. ASSUME AskedInQueue(u.id, u.ts) PROVE AskedInQueue(u.id, u.ts)'
    <3>1. PICK y \in queue : Asks(y, u.id, u.ts) /\ y.prio = 0
      BY <2>1 DEF AskedInQueue
    <3>2. y # u
      BY <1>0, <3>1 DEF Asks
    <3> QED  BY <1>0, <3>1, <3>2 DEF AskedInQueue, Asks
  <2> QED  BY <1>0, <1>1, <2>1 DEF Behind
\* For a router other than that of u nothing changes.
<1>4. ASSUME NEW r \in Routers \ {u.id}, own'[r] = own[r], NEW t, NEW k
      PROVE  Covered(r, t, k) => Covered(r, t, k)'
  <2>1. AskedInQueue(r, t) => AskedInQueue(r, t)'
    BY <1>0, <1>4 DEF AskedInQueue, Asks
  <2>2. AskedInOwn(r, t, k) => AskedInOwn(r, t, k)'
    BY <1>4 DEF AskedInOwn, Asks
  <2> QED  BY <1>1, <2>1, <2>2 DEF Covered
<1>5. CASE Become(w, u)
  <2>1. /\ masters[u.id] = NoWorker /\ own[u.id] = <<>> /\ own'[u.id] = <<u>>
        /\ at' = [at EXCEPT ![w] = "next"] /\ cur' = [cur EXCEPT ![w] = u]
        /\ \A r \in Routers \ {u.id} : own'[r] = own[r]
    BY <1>0, <1>5 DEF Become, TypeOK, Struct, NoDeadMaster
  <2>2. ASSUME NEW r \in Routers, NEW k \in 1..Len(own'[r]), Dangerous(own'[r][k])
        PROVE  Covered(r, own[r][k].ts, k)'
    <3>1. CASE r = u.id
      <4>1. own'[r][k] = u
        BY <1>0, <2>1, <2>2, <3>1, OneFacts
      <4> QED  BY <1>3, <2>2, <3>1, <4>1 DEF Covered, AskedInQueue, Asks
    <3>2. CASE r # u.id
      <4>1. own'[r] = own[r] /\ k \in 1..Len(own[r])
        BY <2>1, <2>2, <3>2
      <4>2. Covered(r, own[r][k].ts, k)
        BY <2>2, <4>1 DEF Behind
      <4>3. LastNote(r)' \/ AskedInQueue(r, own[r][k].ts)' \/ AskedInOwn(r, own[r][k].ts, k)'
        BY <1>0, <1>1, <3>2, <4>1, <4>2 DEF Covered, AskedInQueue, AskedInOwn, Asks
      <4> QED  BY <4>3 DEF Covered
    <3> QED  BY <3>1, <3>2
  <2>3. ASSUME NEW v \in Workers, at'[v] = "remove", Dangerous(cur'[v])
        PROVE  Covered(cur[v].id, cur[v].ts, 0)'
    <3>1. v # w /\ at[v] = "remove" /\ cur'[v] = cur[v]
      BY <2>1, <2>3 DEF TypeOK
    <3>2. cur[v].id \in Routers /\ masters[cur[v].id] = v /\ cur[v].id # u.id
      BY <2>1, <3>1, WorkersAssumption, Fields DEF Struct, Exclusive, TypeOK
    <3>3. PICK r \in Routers, t \in Nat : r = cur[v].id /\ t = cur[v].ts
      BY Fields DEF TypeOK
    <3>4. Covered(r, t, 0)
      BY <2>3, <3>1, <3>3 DEF Behind
    <3>5. Covered(r, t, 0)'
      BY <1>4, <2>1, <3>2, <3>3, <3>4
    <3> QED  BY <3>1, <3>3, <3>5 DEF Covered, AskedInQueue, AskedInOwn, Asks
  <2> QED  BY <1>0, <1>2, <2>2, <2>3 DEF Behind, Dangerous
<1>6. CASE HandOver(u)
  <2>1. /\ own' = [own EXCEPT ![u.id] = Append(@, u)] /\ UNCHANGED <<at, cur>>
        /\ own'[u.id] = Append(own[u.id], u)
        /\ \A r \in Routers \ {u.id} : own'[r] = own[r]
    BY <1>0, <1>6 DEF HandOver, TypeOK
  <2>2. /\ Len(own'[u.id]) = Len(own[u.id]) + 1 /\ Len(own[u.id]) \in Nat
        /\ own'[u.id][Len(own[u.id]) + 1] = u
        /\ \A j \in 1..Len(own[u.id]) : own'[u.id][j] = own[u.id][j]
    BY <1>0, <2>1, AppendFacts
  <2>3. ASSUME NEW r \in Routers, NEW t, NEW k \in 0..Len(own[r]), Covered(r, t, k)
        PROVE  LastNote(r)' \/ AskedInQueue(r, t)' \/ AskedInOwn(r, t, k)'
    <3>1. CASE LastNote(r)
      BY <1>1, <3>1
    <3>2. CASE AskedInQueue(r, t)
      <4>1. PICK y \in queue : Asks(y, r, t) /\ y.prio = 0
        BY <3>2 DEF AskedInQueue
      <4>2. CASE y = u
        <5>1. r = u.id
          BY <4>1, <4>2 DEF Asks
        <5>2. Len(own[r]) + 1 \in 1..Len(own'[r]) /\ Len(own[r]) + 1 > k
              /\ own'[r][Len(own[r]) + 1] = u
          BY <2>2, <5>1
        <5>3. AskedInOwn(r, t, k)'
          BY <4>1, <4>2, <5>2 DEF AskedInOwn, Asks
        <5> QED  BY <5>3
      <4>3. CASE y # u
        BY <1>0, <4>1, <4>3 DEF AskedInQueue, Asks
      <4> QED  BY <4>2, <4>3
    <3>3. CASE AskedInOwn(r, t, k)
      <4>1. PICK j \in 1..Len(own[r]) : j > k /\ Asks(own[r][j], r, t) /\ own[r][j].prio = 0
        BY <3>3 DEF AskedInOwn
      <4>2. j \in 1..Len(own'[r]) /\ own'[r][j] = own[r][j]
        BY <2>1, <2>2
      <4> QED  BY <4>1, <4>2 DEF AskedInOwn, Asks
    <3> QED  BY <2>3, <3>1, <3>2, <3>3 DEF Covered
  <2>4. ASSUME NEW r \in Routers, NEW k \in 1..Len(own'[r]), Dangerous(own'[r][k])
        PROVE  Covered(r, own[r][k].ts, k)'
    <3>1. CASE r = u.id /\ k = Len(own[u.id]) + 1
      BY <1>3, <2>2, <2>4, <3>1 DEF Covered, AskedInQueue, Asks
    <3>2. CASE ~(r = u.id /\ k = Len(own[u.id]) + 1)
      <4>1. k \in 1..Len(own[r]) /\ own'[r][k] = own[r][k]
        BY <2>1, <2>2, <3>2
      <4>2. Covered(r, own[r][k].ts, k) /\ k \in 0..Len(own[r])
        BY <2>4, <4>1 DEF Behind
      <4>3. LastNote(r)' \/ AskedInQueue(r, own[r][k].ts)' \/ AskedInOwn(r, own[r][k].ts, k)'
        <5> DEFINE t == own[r][k].ts
        <5> HIDE DEF t
        <5>1. Covered(r, t, k)
          BY <4>2 DEF t
        <5>2. own'[r][k].ts = t
          BY <4>1 DEF t
        <5> QED  BY <2>3, <4>2, <5>1, <5>2 DEF AskedInQueue, AskedInOwn, Asks
      <4> QED  BY <4>3 DEF Covered
    <3> QED  BY <3>1, <3>2
  <2>5. ASSUME NEW v \in Workers, at'[v] = "remove", Dangerous(cur'[v])
        PROVE  Covered(cur[v].id, cur[v].ts, 0)'
    <3>1. PICK r \in Routers, t \in Nat : r = cur[v].id /\ t = cur[v].ts
      BY Fields DEF TypeOK
    <3>2. Covered(r, t, 0) /\ 0 \in 0..Len(own[r])
      <4>1. cur'[v] = cur[v] /\ at[v] = "remove" /\ Dangerous(cur[v])
        BY <1>0, <2>1, <2>5 DEF Dangerous
      <4>2. Len(own[r]) \in Nat
        BY DEF TypeOK
      <4> QED  BY <3>1, <4>1, <4>2 DEF Behind
    <3>3. Covered(r, t, 0)'
      BY <2>3, <3>2 DEF Covered
    <3> QED  BY <2>1, <3>1, <3>3 DEF Covered, AskedInQueue, AskedInOwn, Asks
  <2> QED  BY <1>0, <1>2, <2>4, <2>5 DEF Behind, Dangerous
<1> QED  BY <1>5, <1>6 DEF Take

LEMMA CoveredSame ==
    ASSUME queue' = queue, notes' = notes, db' = db, NEW q, own'[q] = own[q],
           NEW t, NEW k, Covered(q, t, k)
    PROVE  Covered(q, t, k)'
BY DEF Covered, LastNote, Last, AskedInQueue, AskedInOwn, Asks

LEMMA CoveredShift ==
    ASSUME queue' = queue, notes' = notes, db' = db, NEW q, own[q] \in Seq(Updates),
           own[q] # <<>>, own'[q] = Tail(own[q]), NEW t, NEW k \in Nat, Covered(q, t, k + 1)
    PROVE  Covered(q, t, k)'
<1>1. CASE LastNote(q) \/ AskedInQueue(q, t)
  BY <1>1 DEF Covered, LastNote, Last, AskedInQueue, Asks
<1>2. CASE AskedInOwn(q, t, k + 1)
  <2>1. PICK j \in 1..Len(own[q]) : j > k + 1 /\ Asks(own[q][j], q, t) /\ own[q][j].prio = 0
    BY <1>2 DEF AskedInOwn
  <2>2. j - 1 \in 1..Len(own'[q]) /\ j - 1 > k /\ own'[q][j - 1] = own[q][j]
    <3>1. j \in Int /\ j # 1
      BY <2>1
    <3>2. j - 1 \in 1..Len(own'[q])
      BY <2>1, <3>1, TailFacts
    <3>3. own'[q][j - 1] = own[q][(j - 1) + 1]
      BY <3>2, TailFacts
    <3> QED  BY <2>1, <3>1, <3>2, <3>3
  <2> QED  BY <2>1, <2>2 DEF Covered, AskedInOwn, Asks
<1> QED  BY <1>1, <1>2 DEF Covered

LEMMA BehindWork ==
    ASSUME TypeOK, Struct, Behind, NEW w \in Workers, Work(w) PROVE Behind'
<1> DEFINE r == cur[w].id
<1>0. /\ queue' = queue /\ notes' = notes /\ db' = db /\ at[w] # "idle"
      /\ r \in Routers /\ own[r] \in Seq(Updates)
      /\ \A q \in Routers \ {r} : own'[q] = own[q]
      /\ \A v \in Workers \ {w} : at'[v] = at[v] /\ cur'[v] = cur[v]
  BY Fields DEF TypeOK, Work, Skip, Begin, Fetched, Carried, Leave, Answer, FetchFails, Add,
                Apply, Remove, Raise
<1>1. \/ own'[r] = own[r]
      \/ own'[r] = <<>>
      \/ own[r] # <<>> /\ own'[r] = Tail(own[r])
  BY <1>0 DEF TypeOK, Work, Skip, Begin, Leave, Answer, FetchFails, Add, Apply, Remove, Raise
<1>2. ASSUME NEW q \in Routers, NEW k \in 1..Len(own'[q]), Dangerous(own'[q][k])
      PROVE  Covered(q, own[q][k].ts, k)'
  <2>0. own[q] \in Seq(Updates)
    BY DEF TypeOK
  <2>1. PICK t : t = own'[q][k].ts
    OBVIOUS
  <2>2. CASE own'[q] = own[q]
    <3>1. Covered(q, t, k)
      BY <1>0, <1>2, <2>1, <2>2 DEF Behind, Dangerous
    <3>2. Covered(q, t, k)'
      BY <1>0, <2>2, <3>1, CoveredSame
    <3> QED  BY <2>1, <3>2 DEF Covered, AskedInQueue, AskedInOwn, Asks
  <2>3. CASE own[q] # <<>> /\ own'[q] = Tail(own[q])
    <3>1. k \in Nat /\ k + 1 \in 1..Len(own[q]) /\ own'[q][k] = own[q][k + 1]
      BY <1>2, <2>0, <2>3, TailFacts
    <3>2. Covered(q, t, k + 1)
      BY <1>0, <1>2, <2>1, <3>1 DEF Behind, Dangerous
    <3>3. Covered(q, t, k)'
      BY <1>0, <2>0, <2>3, <3>1, <3>2, CoveredShift
    <3> QED  BY <2>1, <3>3 DEF Covered, AskedInQueue, AskedInOwn, Asks
  <2>4. own'[q] # <<>>
    BY <1>2, NoneFacts
  <2> QED  BY <1>0, <1>1, <2>2, <2>3, <2>4
<1>3. ASSUME NEW v \in Workers, at'[v] = "remove", Dangerous(cur'[v])
      PROVE  Covered(cur[v].id, cur[v].ts, 0)'
  <2>1. PICK q, t : q = cur'[v].id /\ t = cur'[v].ts
    OBVIOUS
  <2>2. SUFFICES Covered(q, t, 0)'
    BY <2>1 DEF Covered, AskedInQueue, AskedInOwn, Asks
  <2>3. CASE at[v] = "remove" /\ cur'[v] = cur[v] /\ own'[q] = own[q]
    <3>1. Covered(q, t, 0)
      BY <1>0, <1>3, <2>1, <2>3 DEF Behind, Dangerous
    <3> QED  BY <1>0, <2>3, <3>1, CoveredSame
  <2>4. CASE v # w
    <3>1. at[v] = "remove" /\ cur'[v] = cur[v]
      BY <1>0, <1>3, <2>4
    <3>2. cur[v].id \in Routers /\ cur[v].id # r
      BY <1>0, <2>4, <3>1, Fields DEF Struct, Exclusive, TypeOK
    <3> QED  BY <1>0, <2>1, <2>3, <3>1, <3>2
  <2>5. CASE v = w /\ Add(w)
    BY <1>3, <2>1, <2>3, <2>5 DEF Add
  <2>6. CASE v = w /\ Begin(w)
    <3> DEFINE u == Head(own[r])
    <3>1. own[r] # <<>> /\ own'[r] = Tail(own[r]) /\ Carried(w, u)
      BY <1>0, <1>3, <2>6 DEF Begin, Fetched, TypeOK
    <3>2. cur'[w] = u
      BY <3>1 DEF Carried, TypeOK
    <3>3. u = own[r][1] /\ 1 \in 1..Len(own[r]) /\ u.id = r
      BY <1>0, <3>1, TailFacts DEF Struct
    <3>4. Covered(q, t, 1) /\ q = r
      <4>1. cur'[w] = own[r][1] /\ q = r /\ t = own[r][1].ts
        BY <2>1, <2>6, <3>2, <3>3
      <4>2. Dangerous(own[r][1])
        BY <1>3, <2>6, <4>1
      <4> QED  BY <1>0, <3>3, <4>1, <4>2 DEF Behind
    <3>5. Covered(q, t, 0 + 1)
      BY <3>4
    <3> QED  BY <1>0, <3>1, <3>4, <3>5, CoveredShift
  <2>7. CASE v = w /\ Answer(w)
    <3>1. cur'[w].id = r /\ db[r].kind = "gone"
      BY <1>3, <2>7, Refilled DEF Answer, TypeOK
    <3> QED  BY <1>0, <1>3, <2>7, <3>1 DEF Dangerous
  <2>8. CASE v = w /\ (Skip(w) \/ Leave(w) \/ FetchFails(w) \/ Apply(w) \/ Remove(w) \/ Raise(w))
    BY <1>3, <2>8 DEF Skip, Leave, FetchFails, Apply, Remove, Raise, TypeOK
  <2> QED  BY <2>4, <2>5, <2>6, <2>7, <2>8 DEF Work
<1>4. ASSUME NEW u \in queue', Dangerous(u)'
      PROVE  LastNote(u.id)' \/ AskedInQueue(u.id, u.ts)'
  BY <1>0, <1>4 DEF Behind, Dangerous, LastNote, Last, AskedInQueue, Asks
<1> QED  BY <1>0, <1>2, <1>3, <1>4 DEF Behind, Dangerous

LEMMA BehindChange ==
    ASSUME TypeOK, Struct, Times, NotesInv, Behind, NEW r \in Routers,
           NEW kind \in {"here", "foreign", "gone"}, Change(r, kind)
    PROVE  Behind'
<1>1. /\ db'[r].since = now + 1 /\ now \in Nat
      /\ \A q \in Routers \ {r} : db'[q] = db[q] /\ LastNote(q) = LastNote(q)'
      /\ queue' = queue /\ own' = own /\ at' = at /\ cur' = cur
  BY ChangeFacts, ChangeNotes DEF agentVars, TypeOK
<1>2. ASSUME NEW u \in Updates, Dangerous(u)', u.ts <= now
      PROVE  u.id # r /\ Dangerous(u)
  BY <1>1, <1>2, Fields DEF Dangerous
<1>3. ASSUME NEW q \in Routers \ {r}, NEW t, NEW k PROVE Covered(q, t, k) => Covered(q, t, k)'
  BY <1>1 DEF Covered, AskedInQueue, AskedInOwn, Asks
<1>4. ASSUME NEW u \in queue', Dangerous(u)'
      PROVE  LastNote(u.id)' \/ AskedInQueue(u.id, u.ts)'
  <2>1. u \in queue /\ u \in Updates /\ u.id \in Routers /\ u.ts <= now
    BY <1>1, Fields DEF TypeOK, Times, Queued
  <2>2. u.id # r /\ Dangerous(u)
    BY <1>2, <1>4, <2>1
  <2> QED  BY <1>1, <2>1, <2>2 DEF Behind, AskedInQueue, Asks
<1>5. ASSUME NEW q \in Routers, NEW k \in 1..Len(own'[q]), Dangerous(own[q][k])'
      PROVE  Covered(q, own[q][k].ts, k)'
  <2>1. PICK u \in Updates : u = own[q][k] /\ u.id = q /\ u.ts <= now
    BY <1>1, <1>5 DEF TypeOK, Struct, Times, Queued
  <2>2. PICK t : t = u.ts
    OBVIOUS
  <2>3. Dangerous(u)'
    BY <1>1, <1>5, <2>1 DEF Dangerous
  <2>4. q # r /\ Dangerous(u)
    BY <1>2, <2>1, <2>3
  <2>5. Covered(q, t, k)
    BY <1>1, <2>1, <2>2, <2>4 DEF Behind
  <2>6. Covered(q, t, k)'
    BY <1>3, <2>4, <2>5
  <2> QED  BY <1>1, <2>1, <2>2, <2>6 DEF Covered, AskedInQueue, AskedInOwn, Asks
<1>6. ASSUME NEW w \in Workers, at'[w] = "remove", Dangerous(cur[w])'
      PROVE  Covered(cur[w].id, cur[w].ts, 0)'
  <2>1. PICK u \in Updates : u = cur[w] /\ u.ts <= now
    BY DEF TypeOK, Times, SoundAt
  <2>2. PICK q \in Routers, t \in Nat : q = u.id /\ t = u.ts
    BY Fields
  <2>3. Dangerous(u)'
    BY <1>1, <1>6, <2>1 DEF Dangerous
  <2>4. q # r /\ Dangerous(u)
    BY <1>2, <2>1, <2>2, <2>3
  <2>5. Covered(q, t, 0)
    BY <1>1, <1>6, <2>1, <2>2, <2>4 DEF Behind
  <2>6. Covered(q, t, 0)'
    BY <1>3, <2>4, <2>5
  <2> QED  BY <1>1, <2>1, <2>2, <2>6 DEF Covered, AskedInQueue, AskedInOwn, Asks
<1> QED  BY <1>4, <1>5, <1>6 DEF Behind

LEMMA BehindDeliver ==
    ASSUME TypeOK, Struct, Times, NotesInv, Behind, NEW n \in notes, Deliver(n)
    PROVE  Behind'
<1> DEFINE d == [id |-> n.id, prio |-> 0, ts |-> now + 1,
                 action |-> n.action, router |-> NoData]
<1>0. d.id = n.id /\ d.prio = 0 /\ d.ts = now + 1 /\ d.action = n.action
  OBVIOUS
<1> HIDE DEF d
<1>1. /\ db' = db /\ now \in Nat /\ now' = now + 1
      /\ queue' = queue \cup {d} /\ own' = own /\ at' = at /\ cur' = cur
      /\ \A r \in Routers \ {n.id} : LastNote(r) = LastNote(r)'
      /\ db[n.id].kind # "gone" => LastNote(n.id)' \/ n.action = "update"
  BY DeliverNotes DEF Deliver, Tick, TypeOK, d
<1>2. ASSUME NEW q \in Routers, NEW t \in Nat, NEW k, Covered(q, t, k), t <= now,
             db[q].kind # "gone"
      PROVE  Covered(q, t, k)'
  <2>1. CASE LastNote(q)
    <3>1. LastNote(q)' \/ (q = n.id /\ n.action = "update")
      BY <1>1, <1>2, <2>1
    <3>2. CASE q = n.id /\ n.action = "update"
      <4>1. Asks(d, q, t)
        BY <1>0, <1>1, <1>2, <3>2 DEF Asks
      <4> QED  BY <1>0, <1>1, <4>1 DEF Covered, AskedInQueue, Asks
    <3> QED  BY <3>1, <3>2 DEF Covered
  <2>2. CASE AskedInQueue(q, t) \/ AskedInOwn(q, t, k)
    BY <1>1, <2>2 DEF Covered, AskedInQueue, AskedInOwn, Asks
  <2> QED  BY <1>2, <2>1, <2>2 DEF Covered
<1>3. ASSUME NEW u \in queue', Dangerous(u)'
      PROVE  LastNote(u.id)' \/ AskedInQueue(u.id, u.ts)'
  <2>1. CASE u = d
    BY <1>0, <1>1, <1>3, <2>1 DEF Dangerous
  <2>2. CASE u \in queue
    <3>1. u.id \in Routers /\ u.ts \in Nat /\ u.ts <= now /\ db[u.id].kind # "gone"
          /\ Dangerous(u)
      BY <1>1, <1>3, <2>2, Fields DEF TypeOK, Times, Queued, Dangerous
    <3>2. LastNote(u.id) \/ AskedInQueue(u.id, u.ts)
      BY <2>2, <3>1 DEF Behind
    <3>3. CASE AskedInQueue(u.id, u.ts)
      BY <1>1, <3>3 DEF AskedInQueue, Asks
    <3>4. CASE LastNote(u.id)
      <4>1. LastNote(u.id)' \/ (u.id = n.id /\ n.action = "update")
        BY <1>1, <3>1, <3>4
      <4>2. CASE u.id = n.id /\ n.action = "update"
        <5>1. Asks(d, u.id, u.ts)
          BY <1>0, <1>1, <3>1, <4>2 DEF Asks
        <5> QED  BY <1>0, <1>1, <5>1 DEF AskedInQueue, Asks
      <4> QED  BY <4>1, <4>2
    <3> QED  BY <3>2, <3>3, <3>4
  <2> QED  BY <1>1, <2>1, <2>2
<1>4. ASSUME NEW q \in Routers, NEW k \in 1..Len(own'[q]), Dangerous(own[q][k])'
      PROVE  Covered(q, own[q][k].ts, k)'
  <2>1. PICK u \in Updates : u = own[q][k] /\ u.id = q /\ u.ts <= now
    BY <1>1, <1>4 DEF TypeOK, Struct, Times, Queued
  <2>2. PICK t \in Nat : t = u.ts
    BY Fields
  <2>3. Covered(q, t, k) /\ db[q].kind # "gone"
    BY <1>1, <1>4, <2>1, <2>2 DEF Behind, Dangerous
  <2>4. Covered(q, t, k)'
    BY <1>2, <2>1, <2>2, <2>3
  <2> QED  BY <1>1, <2>1, <2>2, <2>4 DEF Covered, AskedInQueue, AskedInOwn, Asks
<1>5. ASSUME NEW w \in Workers, at'[w] = "remove", Dangerous(cur[w])'
      PROVE  Covered(cur[w].id, cur[w].ts, 0)'
  <2>1. PICK u \in Updates : u = cur[w] /\ u.ts <= now
    BY DEF TypeOK, Times, SoundAt
  <2>2. PICK q \in Routers, t \in Nat : q = u.id /\ t = u.ts
    BY Fields
  <2>3. Covered(q, t, 0) /\ db[q].kind # "gone"
    BY <1>1, <1>5, <2>1, <2>2 DEF Behind, Dangerous
  <2>4. Covered(q, t, 0)'
    BY <1>2, <2>1, <2>2, <2>3
  <2> QED  BY <1>1, <2>1, <2>2, <2>4 DEF Covered, AskedInQueue, AskedInOwn, Asks
<1> QED  BY <1>3, <1>4, <1>5 DEF Behind

LEMMA BehindStep ==
    ASSUME TypeOK, Struct, Times, NotesInv, Behind, [Next]_vars PROVE Behind'
<1>1. CASE SyncEnd
  <2>1. \A u \in queue' : u \in queue \/ u.prio = 1
    BY <1>1 DEF SyncEnd, FromSync
  <2>2. UNCHANGED <<db, notes, own, at, cur>> /\ queue \subseteq queue'
    BY <1>1 DEF SyncEnd
  <2>3. ASSUME NEW u \in queue', Dangerous(u)'
        PROVE  LastNote(u.id)' \/ AskedInQueue(u.id, u.ts)'
    BY <2>1, <2>2, <2>3 DEF Behind, Dangerous, LastNote, Last, AskedInQueue, Asks
  <2>4. ASSUME NEW q, NEW t, NEW k PROVE Covered(q, t, k) => Covered(q, t, k)'
    BY <2>2 DEF Covered, LastNote, Last, AskedInQueue, AskedInOwn, Asks
  <2>5. ASSUME NEW q \in Routers, NEW k \in 1..Len(own'[q]), Dangerous(own[q][k])'
        PROVE  Covered(q, own[q][k].ts, k)'
    <3>1. PICK t : t = own[q][k].ts
      OBVIOUS
    <3>2. Covered(q, t, k)'
      BY <2>2, <2>4, <2>5, <3>1 DEF Behind, Dangerous
    <3> QED  BY <2>2, <3>1, <3>2 DEF Covered, AskedInQueue, AskedInOwn, Asks
  <2>6. ASSUME NEW w \in Workers, at'[w] = "remove", Dangerous(cur[w])'
        PROVE  Covered(cur[w].id, cur[w].ts, 0)'
    <3>1. PICK q, t : q = cur[w].id /\ t = cur[w].ts
      OBVIOUS
    <3>2. Covered(q, t, 0)'
      BY <2>2, <2>4, <2>6, <3>1 DEF Behind, Dangerous
    <3> QED  BY <2>2, <3>1, <3>2 DEF Covered, AskedInQueue, AskedInOwn, Asks
  <2> QED  BY <2>3, <2>5, <2>6 DEF Behind
<1>2. CASE Restart
  BY <1>2, NoneFacts DEF Restart, Behind
<1>3. CASE SyncStart \/ SyncAnswer \/ SyncFails \/ AskSync \/ UNCHANGED vars
  <2>1. UNCHANGED <<db, notes, queue, own, at, cur>>
    BY <1>3 DEF SyncStart, SyncAnswer, SyncFails, AskSync, vars, agentVars
  <2> QED  BY <2>1, SMTT(20) DEF Behind, Dangerous, Covered, LastNote, Last, AskedInQueue,
                                 AskedInOwn, Asks
<1> QED  BY <1>1, <1>2, <1>3, BehindTake, BehindWork, BehindChange, BehindDeliver
         DEF Next, Agent, Server

-----------------------------------------------------------------------------
(* The last change of a listed router is on its way, or has been recorded; *)
(* what has been recorded is in the configuration or on its way again.     *)

UpdateInQueue(r, t) == \E u \in queue : Asks(u, r, t)
UpdateInOwn(r, t)   == \E j \in 1..Len(own[r]) : Asks(own[r][j], r, t)
AtWork(r, t)        == \E w \in Workers : /\ at[w] \in {"fetch", "apply"}
                                          /\ cur[w].id = r /\ cur[w].ts > t

OnItsWay(r, t) ==
    LastNote(r) \/ UpdateInQueue(r, t) \/ UpdateInOwn(r, t) \/ AtWork(r, t)

ToBeSynced(r) == \/ fullsync /\ sync.at = "idle"
                 \/ sync.at # "idle" /\ sync.ts >= db[r].since

Heard(r) ==
    Listed(r) => OnItsWay(r, db[r].since - 1) \/ ToBeSynced(r)
                 \/ stamp[r] >= db[r].since

Recorded(r) ==
    Listed(r) /\ stamp[r] >= db[r].since =>
        conf[r] = Target(db[r]) \/ OnItsWay(r, stamp[r])

Nothing == \A r \in Routers : Heard(r) /\ Recorded(r)

LEMMA WaySame ==
    ASSUME NEW r, NEW t, OnItsWay(r, t), LastNote(r) => LastNote(r)',
           queue \subseteq queue', own'[r] = own[r], at' = at, cur' = cur
    PROVE  OnItsWay(r, t)'
BY DEF OnItsWay, UpdateInQueue, UpdateInOwn, AtWork, Asks

LEMMA WayTake ==
    ASSUME TypeOK, Struct, NEW r \in Routers, NEW t, OnItsWay(r, t),
           NEW w \in Workers, NEW u \in queue, Take(w, u)
    PROVE  OnItsWay(r, t)'
<1>0. /\ u \in Updates /\ u.id \in Routers /\ own[u.id] \in Seq(Updates) /\ own[r] \in Seq(Updates)
      /\ queue' = queue \ {u} /\ notes' = notes /\ db' = db /\ at[w] = "idle"
  BY Fields DEF TypeOK, Take
<1>1. CASE LastNote(r)
  BY <1>0, <1>1 DEF OnItsWay, LastNote, Last
<1>2. ASSUME u.id = r, Asks(u, r, t) PROVE UpdateInOwn(r, t)'
  <2>1. CASE Become(w, u)
    <3>1. own'[r] = <<u>>
      BY <1>0, <1>2, <2>1 DEF Become, TypeOK
    <3>2. 1 \in 1..Len(own'[r]) /\ own'[r][1] = u
      BY <1>0, <3>1, OneFacts
    <3> QED  BY <1>2, <3>2 DEF UpdateInOwn, Asks
  <2>2. CASE HandOver(u)
    <3>1. own'[r] = Append(own[r], u)
      BY <1>0, <1>2, <2>2 DEF HandOver, TypeOK
    <3>2. Len(own[r]) + 1 \in 1..Len(own'[r]) /\ own'[r][Len(own[r]) + 1] = u
      BY <1>0, <3>1, AppendFacts
    <3> QED  BY <1>2, <3>2 DEF UpdateInOwn, Asks
  <2> QED  BY <2>1, <2>2 DEF Take
<1>3. CASE UpdateInQueue(r, t)
  <2>1. PICK y \in queue : Asks(y, r, t)
    BY <1>3 DEF UpdateInQueue
  <2>2. CASE y = u
    BY <1>2, <2>1, <2>2 DEF Asks, OnItsWay
  <2>3. CASE y # u
    BY <1>0, <2>1, <2>3 DEF OnItsWay, UpdateInQueue, Asks
  <2> QED  BY <2>2, <2>3
<1>4. CASE UpdateInOwn(r, t)
  <2>1. PICK j \in 1..Len(own[r]) : Asks(own[r][j], r, t)
    BY <1>4 DEF UpdateInOwn
  <2>2. CASE r = u.id /\ HandOver(u)
    <3>1. own'[r] = Append(own[r], u)
      BY <1>0, <2>2 DEF HandOver, TypeOK
    <3>2. j \in 1..Len(own'[r]) /\ own'[r][j] = own[r][j]
      BY <1>0, <3>1, AppendFacts
    <3> QED  BY <2>1, <3>2 DEF OnItsWay, UpdateInOwn, Asks
  <2>3. CASE r # u.id
    <3>1. own'[r] = own[r]
      BY <1>0, <2>3 DEF Take, Become, HandOver, TypeOK
    <3> QED  BY <2>1, <3>1 DEF OnItsWay, UpdateInOwn, Asks
  <2>4. CASE r = u.id /\ Become(w, u)
    <3>1. own[r] = <<>>
      BY <2>4 DEF Become, Struct, NoDeadMaster
    <3> QED  BY <2>1, <3>1, NoneFacts
  <2> QED  BY <2>2, <2>3, <2>4 DEF Take
<1>5. CASE AtWork(r, t)
  <2>1. PICK v \in Workers : at[v] \in {"fetch", "apply"} /\ cur[v].id = r /\ cur[v].ts > t
    BY <1>5 DEF AtWork
  <2>2. at'[v] = at[v] /\ cur'[v] = cur[v]
    BY <1>0, <2>1 DEF Take, Become, HandOver, TypeOK
  <2> QED  BY <2>1, <2>2 DEF OnItsWay, AtWork
<1> QED  BY <1>1, <1>3, <1>4, <1>5 DEF OnItsWay

\* A worker takes an update to its end, or drops one that is not fresh.
LEMMA WayWork ==
    ASSUME TypeOK, Times, Faults \subseteq {"restart"}, NEW r \in Routers, Listed(r),
           NEW t \in Nat, t <= now, OnItsWay(r, t), NEW w \in Workers, Work(w)
    PROVE  OnItsWay(r, t)' \/ stamp'[r] > t
<1>0. /\ queue' = queue /\ notes' = notes /\ db' = db /\ at[w] # "idle"
      /\ own[r] \in Seq(Updates) /\ now \in Nat
      /\ \A v \in Workers \ {w} : at'[v] = at[v] /\ cur'[v] = cur[v]
      /\ \A q \in Routers : stamp[q] \in Nat
      /\ cur[w] \in Updates /\ cur[w].ts \in Nat /\ cur[w].id \in Routers
  BY Fields DEF TypeOK, Work, Skip, Begin, Fetched, Carried, Leave, Answer, FetchFails, Add,
                Apply, Remove, Raise
<1>1. CASE LastNote(r) \/ UpdateInQueue(r, t)
  BY <1>0, <1>1 DEF OnItsWay, LastNote, Last, UpdateInQueue, Asks
<1>2. CASE UpdateInOwn(r, t)
  <2>1. PICK j \in 1..Len(own[r]) : Asks(own[r][j], r, t)
    BY <1>2 DEF UpdateInOwn
  <2>2. CASE own'[r] = own[r]
    BY <2>1, <2>2 DEF OnItsWay, UpdateInOwn, Asks
  <2>3. own[r] # <<>>
    BY <2>1, NoneFacts
  <2>4. CASE own'[r] = Tail(own[r]) /\ j # 1
    <3>1. j - 1 \in 1..Len(own'[r]) /\ own'[r][j - 1] = own[r][(j - 1) + 1]
      BY <1>0, <2>1, <2>3, <2>4, TailFacts
    <3>2. own'[r][j - 1] = own[r][j]
      BY <2>1, <3>1
    <3> QED  BY <2>1, <3>1, <3>2 DEF OnItsWay, UpdateInOwn, Asks
  <2> DEFINE u == Head(own[r])
  <2>5. u \in Updates /\ u = own[r][1] /\ u.ts \in Nat
    BY <1>0, <2>3, TailFacts, Fields
  <2>6. CASE cur[w].id = r /\ j = 1 /\ Skip(w)
    <3>1. ~IsFresh(u) /\ stamp' = stamp /\ Asks(u, r, t)
      BY <2>1, <2>5, <2>6 DEF Skip
    <3> QED  BY <1>0, <2>5, <3>1 DEF IsFresh, Asks
  <2>7. CASE cur[w].id = r /\ j = 1 /\ Begin(w)
    <3>1. u.action = "update" /\ u.id = r /\ u.ts > t
      BY <2>1, <2>5, <2>7 DEF Asks
    <3>2. CASE Fetched(w, u)
      <4> DEFINE v == [u EXCEPT !.ts = now + 1]
      <4>1. now + 1 \in Nat
        BY <1>0
      <4>2. v.ts = now + 1 /\ v.id = r
        BY <2>5, <3>1, <4>1, Restamped
      <4>3. cur'[w] = v /\ at'[w] = "fetch"
        BY <3>2 DEF Fetched, TypeOK
      <4> HIDE DEF v
      <4>4. cur'[w].ts > t
        BY <1>0, <4>2, <4>3
      <4> QED  BY <4>2, <4>3, <4>4 DEF OnItsWay, AtWork
    <3>3. CASE Carried(w, u)
      <4>1. cur'[w] = u /\ at'[w] = "apply"
        BY <3>1, <3>3 DEF Carried, TypeOK
      <4> QED  BY <3>1, <4>1 DEF OnItsWay, AtWork
    <3> QED  BY <2>7, <3>2, <3>3 DEF Begin
  <2>8. own'[r] = own[r] \/ (cur[w].id = r /\ own'[r] = Tail(own[r]) /\ (Skip(w) \/ Begin(w)))
    <3>1. CASE Skip(w) \/ Begin(w)
      <4>1. own' = [own EXCEPT ![cur[w].id] = Tail(@)]
        BY <3>1 DEF Skip, Begin
      <4>2. own \in [Routers -> Seq(Updates)]
        BY DEF TypeOK
      <4> QED  BY <1>0, <3>1, <4>1, <4>2
    <3>2. CASE Leave(w) \/ Answer(w) \/ FetchFails(w) \/ Add(w) \/ Apply(w) \/ Remove(w)
      BY <3>2 DEF Leave, Answer, FetchFails, Add, Apply, Remove
    <3>3. ~Raise(w)
      BY DEF Raise
    <3> QED  BY <3>1, <3>2, <3>3 DEF Work
  <2> QED  BY <2>2, <2>4, <2>6, <2>7, <2>8
<1>3. CASE AtWork(r, t)
  <2>1. PICK v \in Workers : at[v] \in {"fetch", "apply"} /\ cur[v].id = r /\ cur[v].ts > t
    BY <1>3 DEF AtWork
  <2>2. CASE at'[v] = at[v] /\ cur'[v] = cur[v]
    BY <2>1, <2>2 DEF OnItsWay, AtWork
  <2>3. CASE v = w /\ Answer(w)
    <3>1. cur'[w].id = r /\ cur'[w].ts = cur[w].ts /\ at'[w] = "apply"
      BY <1>0, <2>1, <2>3, Refilled DEF Answer, Listed, TypeOK
    <3> QED  BY <2>1, <2>3, <3>1 DEF OnItsWay, AtWork
  <2>4. CASE v = w /\ Apply(w)
    <3>1. stamp'[r] = IF stamp[r] < cur[w].ts THEN cur[w].ts ELSE stamp[r]
      BY <2>1, <2>4 DEF Apply, Stamped, TypeOK
    <3> QED  BY <1>0, <2>1, <2>4, <3>1
  <2>5. CASE v = w /\ Add(w)
    BY <2>2, <2>5 DEF Add
  <2>6. ~FetchFails(w) /\ ~Raise(w)
    BY DEF FetchFails, Raise
  <2>7. CASE v = w /\ (Skip(w) \/ Begin(w) \/ Leave(w) \/ Remove(w))
    BY <2>1, <2>7 DEF Skip, Begin, Leave, Remove
  <2> QED  BY <1>0, <2>2, <2>3, <2>4, <2>5, <2>6, <2>7 DEF Work
<1> QED  BY <1>1, <1>2, <1>3 DEF OnItsWay

LEMMA WayStep ==
    ASSUME TypeOK, Struct, Times, NotesInv, Faults \subseteq {"restart"}, [Next]_vars,
           ~Restart, NEW r \in Routers, Listed(r), NEW t \in Nat, t <= now, OnItsWay(r, t)
    PROVE  OnItsWay(r, t)' \/ stamp'[r] > t
<1>1. ASSUME NEW q \in Routers, NEW kind \in {"here", "foreign", "gone"}, Change(q, kind)
      PROVE  OnItsWay(r, t)'
  BY <1>1, ChangeNotes, WaySame DEF Change, agentVars
<1>2. ASSUME NEW n \in notes, Deliver(n) PROVE OnItsWay(r, t)'
  <2> DEFINE d == [id |-> n.id, prio |-> 0, ts |-> now + 1,
                   action |-> n.action, router |-> NoData]
  <2>0. d.id = n.id /\ d.ts = now + 1 /\ d.action = n.action
    OBVIOUS
  <2> HIDE DEF d
  <2>1. /\ queue' = queue \cup {d} /\ UNCHANGED <<own, at, cur>>
    BY <1>2 DEF Deliver, d
  <2>2. (LastNote(r) => LastNote(r)') \/ (r = n.id /\ n.action = "update")
    BY <1>2, DeliverNotes DEF Listed
  <2>3. CASE r = n.id /\ n.action = "update"
    <3>1. Asks(d, r, t)
      BY <2>0, <2>3 DEF Asks, TypeOK
    <3> QED  BY <2>1, <3>1 DEF OnItsWay, UpdateInQueue, Asks
  <2> QED  BY <2>1, <2>2, <2>3, WaySame
<1>3. CASE SyncStart \/ SyncAnswer \/ SyncEnd \/ SyncFails \/ AskSync \/ UNCHANGED vars
  <2>1. LastNote(r) => LastNote(r)'
    BY <1>3 DEF SyncStart, SyncAnswer, SyncEnd, SyncFails, AskSync, vars, LastNote, Last
  <2>2. queue \subseteq queue' /\ UNCHANGED <<own, at, cur>>
    BY <1>3 DEF SyncStart, SyncAnswer, SyncEnd, SyncFails, AskSync, vars, agentVars
  <2> QED  BY <2>1, <2>2, WaySame
<1> QED  BY <1>1, <1>2, <1>3, WayTake, WayWork DEF Next, Agent, Server

\* The recorded time of a router goes on, and only with the processing of it.
LEMMA StampGrows ==
    ASSUME TypeOK, [Next]_vars, ~Restart, NEW r \in Routers
    PROVE  /\ stamp'[r] >= stamp[r]
           /\ stamp'[r] = stamp[r] \/ \E w \in Workers : Apply(w) /\ cur[w].id = r
<1>0. stamp[r] \in Nat
  BY DEF TypeOK
<1>1. ASSUME NEW w \in Workers, Apply(w)
      PROVE  stamp'[r] >= stamp[r] /\ (stamp'[r] = stamp[r] \/ cur[w].id = r)
  <2>1. cur[w].ts \in Nat /\ cur[w].id \in Routers
    BY Fields DEF TypeOK
  <2> QED  BY <1>0, <1>1, <2>1 DEF Apply, Stamped, TypeOK
<1>2. stamp' = stamp \/ \E w \in Workers : Apply(w)
  BY DEF Next, Agent, Server, Change, Deliver, Take, Work, Skip, Begin, Leave, Answer,
         FetchFails, Add, Remove, Raise, SyncStart, SyncAnswer, SyncEnd, SyncFails, AskSync,
         vars, agentVars
<1> QED  BY <1>0, <1>1, <1>2

\* A synchronisation that is asked for takes place, and brings its updates.
LEMMA SyncBrings ==
    ASSUME TypeOK, Times, [Next]_vars, db' = db, NEW r \in Routers, Listed(r), ToBeSynced(r)
    PROVE  ToBeSynced(r)' \/ UpdateInQueue(r, db[r].since - 1)'
<1>0. now \in Nat /\ sync \in Syncs /\ db[r].since \in 1..now
  BY DEF TypeOK, Times
<1>1. CASE SyncStart
  <2> DEFINE v == [sync EXCEPT !.at = "asked", !.ts = now + 1, !.prev = known]
  <2>1. v.at = "asked" /\ v.ts = now + 1
    BY <1>0 DEF Syncs
  <2>2. sync' = v
    BY <1>1 DEF SyncStart
  <2> HIDE DEF v
  <2> QED  BY <1>0, <2>1, <2>2 DEF ToBeSynced
<1>2. CASE SyncAnswer
  <2>1. db \in [Routers -> Data] /\ sync.at = "asked"
        /\ sync' = [sync EXCEPT !.at = "answered", !.routers = db]
    BY <1>2 DEF TypeOK, SyncAnswer
  <2>2. sync'.at = "answered" /\ sync'.ts = sync.ts
    BY <1>0, <2>1, SyncAnswered
  <2> QED  BY <2>1, <2>2 DEF ToBeSynced
<1>3. CASE SyncEnd
  <2>1. sync.at = "answered" /\ sync.ts >= db[r].since /\ sync.ts \in Nat
    BY <1>0, <1>3 DEF SyncEnd, ToBeSynced, Syncs
  <2>2. sync.routers[r] = db[r] /\ db[r].kind # "gone"
    BY <1>0, <2>1 DEF Times, Listed
  <2>3. FromSync(r) \in queue'
    BY <1>3, <2>2 DEF SyncEnd
  <2>4. FromSync(r).id = r /\ FromSync(r).action = "update" /\ FromSync(r).ts = sync.ts
    BY <2>2 DEF FromSync
  <2>5. Asks(FromSync(r), r, db[r].since - 1)
    BY <1>0, <2>1, <2>4 DEF Asks
  <2>6. PICK u \in queue' : Asks(u, r, db[r].since - 1)
    BY <2>3, <2>5
  <2> QED  BY <2>6 DEF UpdateInQueue, Asks
<1>4. CASE SyncFails \/ AskSync \/ Restart
  BY <1>4 DEF SyncFails, AskSync, Restart, NoSync, ToBeSynced
<1>5. ASSUME fullsync => fullsync', sync' = sync PROVE ToBeSynced(r)'
  BY <1>5 DEF ToBeSynced
<1>6. \/ SyncStart \/ SyncAnswer \/ SyncEnd \/ SyncFails \/ AskSync \/ Restart
      \/ (fullsync => fullsync') /\ sync' = sync
  <2>1. ASSUME NEW w \in Workers, Work(w) PROVE (fullsync => fullsync') /\ sync' = sync
    BY <2>1 DEF Work, Skip, Begin, Leave, Answer, FetchFails, Add, Apply, Remove, Raise
  <2>2. ASSUME NEW w \in Workers, NEW u \in queue, Take(w, u)
        PROVE  (fullsync => fullsync') /\ sync' = sync
    BY <2>2 DEF Take
  <2>3. ASSUME NEW q \in Routers, NEW kind \in {"here", "foreign", "gone"}, Change(q, kind)
        PROVE  (fullsync => fullsync') /\ sync' = sync
    BY <2>3 DEF Change, agentVars
  <2>4. ASSUME NEW n \in notes, Deliver(n) PROVE (fullsync => fullsync') /\ sync' = sync
    BY <2>4 DEF Deliver
  <2>5. CASE UNCHANGED vars
    BY <2>5 DEF vars, agentVars
  <2> QED  BY <2>1, <2>2, <2>3, <2>4, <2>5 DEF Next, Agent, Server
<1> QED  BY <1>1, <1>2, <1>3, <1>4, <1>5, <1>6

LEMMA HeardStep ==
    ASSUME TypeOK, Struct, Times, NotesInv, Faults \subseteq {"restart"}, [Next]_vars,
           NEW r \in Routers, Heard(r)
    PROVE  Heard(r)'
<1>0. now \in Nat /\ db[r].since \in 1..now /\ stamp[r] \in Nat
  BY DEF TypeOK, Times
<1>1. CASE Restart
  BY <1>1 DEF Restart, NoSync, Heard, ToBeSynced
<1>2. ASSUME NEW kind \in {"here", "foreign", "gone"}, Change(r, kind) PROVE Heard(r)'
  BY <1>2, ChangeNotes DEF Heard, OnItsWay
<1>3. ASSUME db'[r] = db[r], ~Restart, Listed(r),
             ToBeSynced(r) => ToBeSynced(r)' \/ UpdateInQueue(r, db[r].since - 1)'
      PROVE  Heard(r)'
  <2>1. PICK t \in Nat : t = db[r].since - 1 /\ t <= now
    BY <1>0
  <2>2. stamp'[r] \in Nat /\ stamp'[r] >= stamp[r]
    BY <1>3, StampGrows, TypeStep DEF TypeOK
  <2>3. CASE OnItsWay(r, db[r].since - 1)
    <3>1. OnItsWay(r, t)' \/ stamp'[r] > t
      BY <1>3, <2>1, <2>3, WayStep
    <3>2. CASE stamp'[r] > t
      BY <1>0, <1>3, <2>1, <2>2, <3>2 DEF Heard
    <3>3. CASE OnItsWay(r, t)'
      BY <1>3, <2>1, <3>3 DEF Heard, OnItsWay, UpdateInQueue, UpdateInOwn, AtWork, Asks
    <3> QED  BY <3>1, <3>2, <3>3
  <2>4. CASE ToBeSynced(r)
    BY <1>3, <2>4 DEF Heard, OnItsWay, UpdateInQueue, Asks
  <2>5. CASE stamp[r] >= db[r].since
    BY <1>0, <1>3, <2>2, <2>5 DEF Heard
  <2> QED  BY <1>3, <2>3, <2>4, <2>5 DEF Heard
<1>4. ASSUME NEW q \in Routers, q # r, NEW kind \in {"here", "foreign", "gone"}, Change(q, kind),
             ~Restart, Listed(r)
      PROVE  Heard(r)'
  <2>1. db'[r] = db[r] /\ (ToBeSynced(r) => ToBeSynced(r)')
    BY <1>4, ChangeFacts DEF agentVars, ToBeSynced
  <2> QED  BY <1>3, <1>4, <2>1
<1>5. CASE db' = db /\ Listed(r) /\ ~Restart
  BY <1>3, <1>5, SyncBrings
<1>6. CASE db'[r] = db[r] /\ ~Listed(r)
  BY <1>6 DEF Heard, Listed
<1>7. ASSUME NEW q \in Routers, q # r, NEW kind \in {"here", "foreign", "gone"}, Change(q, kind)
      PROVE  db'[r] = db[r]
  BY <1>7, ChangeFacts
<1> QED  BY <1>1, <1>2, <1>4, <1>5, <1>6, <1>7, ClockStep

LEMMA RecordedStep ==
    ASSUME TypeOK, Struct, Times, NotesInv, Behind, Faults \subseteq {"restart"}, [Next]_vars,
           NEW r \in Routers, Recorded(r)
    PROVE  Recorded(r)'
<1>0. now \in Nat /\ db[r].since \in 1..now /\ stamp[r] \in Nat /\ stamp[r] <= now
  BY DEF TypeOK, Times
<1>1. CASE Restart
  <2>1. stamp'[r] = 0 /\ db' = db
    BY <1>1 DEF Restart
  <2> QED  BY <1>0, <2>1 DEF Recorded
<1>2. ASSUME NEW kind \in {"here", "foreign", "gone"}, Change(r, kind) PROVE Recorded(r)'
  BY <1>2, ChangeNotes DEF Recorded, OnItsWay
<1>3. ASSUME NEW w \in Workers, Apply(w), cur[w].id = r, Listed(r) PROVE Recorded(r)'
  <2>1. cur[w].ts \in Nat /\ IsFresh(cur[w]) /\ at[w] = "apply" /\ db' = db
        /\ (db[r].since <= cur[w].ts => cur[w].router = db[r])
    BY <1>3, Fields DEF Apply, TypeOK, Times, SoundAt
  <2>2. stamp'[r] = cur[w].ts
    BY <1>0, <1>3, <2>1 DEF Apply, Stamped, IsFresh, TypeOK
  <2>3. conf'[r] = Target(cur[w].router)
    BY <1>3 DEF Apply, Configured, TypeOK
  <2> QED  BY <1>0, <2>1, <2>2, <2>3 DEF Recorded, Target
<1>4. ASSUME NEW w \in Workers, Remove(w), cur[w].id = r, Listed(r), stamp[r] >= db[r].since
      PROVE  OnItsWay(r, stamp[r])
  <2>1. cur[w].ts \in Nat /\ stamp[r] < cur[w].ts
    BY <1>4, Fields DEF Remove, TypeOK, Times, SoundAt, IsFresh
  <2>2. Dangerous(cur[w])
    BY <1>0, <1>4, <2>1 DEF Remove, Times, SoundAt, Dangerous, Listed
  <2>3. Covered(r, cur[w].ts, 0)
    BY <1>4, <2>2 DEF Remove, Behind
  <2>4. \A u \in Updates : Asks(u, r, cur[w].ts) => Asks(u, r, stamp[r])
    BY <1>0, <2>1, Fields DEF Asks
  <2>5. queue \subseteq Updates /\ \A i \in 1..Len(own[r]) : own[r][i] \in Updates
    BY DEF TypeOK
  <2> QED  BY <2>3, <2>4, <2>5
           DEF Covered, AskedInQueue, AskedInOwn, OnItsWay, UpdateInQueue, UpdateInOwn
\* Any other step leaves the recorded time alone.
<1>5. ASSUME ~Restart, db'[r] = db[r], stamp'[r] = stamp[r], Listed(r)
      PROVE  Recorded(r)'
  <2> SUFFICES ASSUME stamp[r] >= db[r].since, conf'[r] # Target(db'[r])
               PROVE  OnItsWay(r, stamp[r])'
    BY <1>5 DEF Recorded
  <2>1. PICK t \in Nat : t = stamp[r] /\ t <= now
    BY <1>0
  <2>2. ASSUME OnItsWay(r, stamp[r]) PROVE OnItsWay(r, stamp[r])'
    <3>1. OnItsWay(r, t)' \/ stamp'[r] > t
      BY <1>5, <2>1, <2>2, WayStep
    <3>2. OnItsWay(r, t)'
      BY <1>0, <1>5, <2>1, <3>1
    <3> QED  BY <1>5, <2>1, <3>2 DEF OnItsWay, UpdateInQueue, UpdateInOwn, AtWork, Asks
  <2>3. CASE conf'[r] = conf[r]
    BY <1>5, <2>2, <2>3 DEF Recorded
  <2>4. ASSUME NEW w \in Workers, Apply(w), cur[w].id = r PROVE FALSE
    <3>1. cur[w].ts \in Nat /\ stamp[r] < cur[w].ts
      BY <2>4, Fields DEF Apply, TypeOK, Times, SoundAt, IsFresh
    <3> QED  BY <1>0, <1>5, <2>4, <3>1 DEF Apply, Stamped, TypeOK
  <2>5. ASSUME NEW w \in Workers, Remove(w), cur[w].id = r PROVE OnItsWay(r, stamp[r])'
    BY <1>4, <1>5, <2>2, <2>5
  <2>6. \/ conf'[r] = conf[r]
        \/ \E w \in Workers : (Apply(w) \/ Remove(w)) /\ cur[w].id = r
    <3>1. ASSUME NEW w \in Workers, Work(w)
          PROVE  conf'[r] = conf[r] \/ ((Apply(w) \/ Remove(w)) /\ cur[w].id = r)
      <4>1. cur[w].id \in Routers
        BY Fields DEF TypeOK
      <4> QED  BY <3>1, <4>1 DEF Work, Skip, Begin, Leave, Answer, FetchFails, Add, Apply,
                                 Configured, Remove, Raise, TypeOK
    <3>2. ASSUME NEW w \in Workers, NEW u \in queue, Take(w, u) PROVE conf'[r] = conf[r]
      BY <3>2 DEF Take
    <3>3. ASSUME NEW q \in Routers, NEW kind \in {"here", "foreign", "gone"}, Change(q, kind)
          PROVE  conf'[r] = conf[r]
      BY <3>3 DEF Change, agentVars
    <3>4. ASSUME NEW n \in notes, Deliver(n) PROVE conf'[r] = conf[r]
      BY <3>4 DEF Deliver
    <3>5. CASE SyncStart \/ SyncAnswer \/ SyncEnd \/ SyncFails \/ AskSync \/ UNCHANGED vars
      BY <3>5 DEF SyncStart, SyncAnswer, SyncEnd, SyncFails, AskSync, vars, agentVars
    <3> QED  BY <1>5, <3>1, <3>2, <3>3, <3>4, <3>5 DEF Next, Agent, Server
  <2> QED  BY <2>3, <2>4, <2>5, <2>6
<1>6. CASE db'[r] = db[r] /\ ~Listed(r)
  BY <1>6 DEF Recorded, Listed
<1>7. db'[r] = db[r] \/ \E kind \in {"here", "foreign", "gone"} : Change(r, kind)
  BY ClockStep, ChangeFacts
<1> QED  BY <1>1, <1>2, <1>3, <1>5, <1>6, <1>7, StampGrows

IInv == Struct /\ Times /\ NotesInv /\ Behind /\ Nothing

LEMMA IInvAlways ==
    ASSUME Faults \subseteq {"restart"} PROVE Spec => [](TypeOK /\ IInv)
<1>1. Init => IInv
  <2> SUFFICES ASSUME Init PROVE IInv
    OBVIOUS
  <2>1. Struct
    BY NoneFacts DEF Init, Struct, Exclusive, NoDeadMaster
  <2>0. /\ now = 1 /\ notes = {} /\ queue = {} /\ fullsync
        /\ sync.at = "idle" /\ sync.ts = 0
        /\ \A r \in Routers : db[r].since = 1 /\ stamp[r] = 0 /\ own[r] = <<>>
        /\ \A w \in Workers : at[w] = "idle" /\ cur[w].ts = 0
    BY DEF Init, NoUpdate, NoSync
  <2>2. Times
    BY <2>0, NoneFacts DEF Times, SoundAt
  <2>3. NotesInv /\ Behind
    <3>1. \A r \in Routers : Len(own[r]) = 0
      BY <2>0, NoneFacts
    <3>2. Behind
      BY <2>0, <3>1 DEF Behind
    <3> QED  BY <2>0, <3>2 DEF NotesInv
  <2>4. Nothing
    <3>1. ASSUME NEW r \in Routers PROVE ToBeSynced(r)
      BY <2>0 DEF ToBeSynced
    <3>2. ASSUME NEW r \in Routers PROVE ~(stamp[r] >= db[r].since)
      BY <2>0
    <3> QED  BY <3>1, <3>2 DEF Nothing, Heard, Recorded
  <2> QED  BY <2>1, <2>2, <2>3, <2>4 DEF IInv
<1>2. TypeOK /\ IInv /\ [Next]_vars => IInv'
  BY StructStep, TimesStep, NotesStep, BehindStep, HeardStep, RecordedStep DEF IInv, Nothing
<1> QED  BY <1>1, <1>2, TypeCorrect, PTL DEF Spec

(* A change the recorded time covers is in the configuration or comes      *)
(* again.                                                                  *)
THEOREM StampAlwaysCovers ==
    ASSUME Faults \subseteq {"restart"} PROVE Spec => []StampCovers
<1>1. TypeOK /\ IInv => StampCovers
  <2> SUFFICES ASSUME TypeOK, IInv, NEW r \in Routers, OnItsWay(r, stamp[r]) PROVE Coming(r)
    BY DEF IInv, Nothing, Recorded, StampCovers
  <2>1. CASE LastNote(r)
    BY <2>1 DEF LastNote, Coming
  <2>2. CASE UpdateInQueue(r, stamp[r])
    BY <2>2 DEF UpdateInQueue, Asks, Coming, IsFresh, TypeOK, Updates
  <2>3. CASE UpdateInOwn(r, stamp[r])
    BY <2>3 DEF UpdateInOwn, Asks, Coming, IsFresh, TypeOK, Updates
  <2>4. CASE AtWork(r, stamp[r])
    <3>1. PICK w \in Workers : at[w] \in {"fetch", "apply"} /\ cur[w].id = r /\ cur[w].ts > stamp[r]
      BY <2>4 DEF AtWork
    <3>2. masters[r] = w /\ cur[w].ts \in Nat /\ stamp[r] \in Nat
      BY <3>1, Fields DEF IInv, Struct, Exclusive, TypeOK
    <3> QED  BY <3>1, <3>2, WorkersAssumption DEF Coming, IsFresh
  <2> QED  BY <2>1, <2>2, <2>3, <2>4 DEF OnItsWay
<1> QED  BY <1>1, IInvAlways, PTL

(* No change of a listed router is lost.                                   *)
THEOREM NoChangeLost ==
    ASSUME Faults \subseteq {"restart"} PROVE Spec => []ListedCurrent
<1>1. TypeOK /\ IInv => ListedCurrent
  <2> SUFFICES ASSUME TypeOK, IInv, NEW r \in Routers, Quiet(r), Listed(r)
               PROVE  conf[r] = Target(db[r])
    BY DEF ListedCurrent
  <2>1. \A t : ~OnItsWay(r, t)
    <3>1. own[r] = <<>> /\ \A w \in Workers : at[w] # "idle" => cur[w].id # r
      BY WorkersAssumption DEF IInv, Struct, NoDeadMaster, Exclusive, Quiet
    <3> QED  BY <3>1, NoneFacts DEF OnItsWay, LastNote, UpdateInQueue, UpdateInOwn, AtWork,
                                    Asks, Quiet
  <2>2. ~ToBeSynced(r)
    BY DEF ToBeSynced, Quiet
  <2> QED  BY <2>1, <2>2 DEF IInv, Nothing, Heard, Recorded
<1> QED  BY <1>1, IInvAlways, PTL
=============================================================================
