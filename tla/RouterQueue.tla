---------------------------- MODULE RouterQueue ----------------------------
(***************************************************************************)
(* neutron/agent/l3_agent.py: how an L3 agent keeps the routers it hosts   *)
(* in line with the database of the server: RouterUpdate,                  *)
(* RouterProcessingQueue, ExclusiveRouterProcessor, the workers that run   *)
(* _process_router_update and the periodic full synchronisation.           *)
(*                                                                         *)
(* The workers are green threads: what a handler does between two calls    *)
(* that may yield is one step.  A call to the server is a step at its      *)
(* start, where the time is taken, and one where the server reads.         *)
(***************************************************************************)
EXTENDS Integers, Sequences

CONSTANTS
    Routers,    \* the ids of the routers
    Workers,    \* the green threads of _process_routers_loop
    NoWorker,   \* no worker
    Unhosted,   \* may routers be deleted, or move to another agent and back?
    Faults,     \* what may go wrong: a subset of FaultKinds
    MaxTime     \* bound: after this time the server and the operators rest

FaultKinds == {"fetch", "process", "restart"}

ASSUME RoutersAssumption  == Routers # {}
ASSUME WorkersAssumption  == NoWorker \notin Workers
ASSUME UnhostedAssumption == Unhosted \in BOOLEAN
ASSUME FaultsAssumption   == Faults \subseteq FaultKinds
ASSUME TimeAssumption     == MaxTime \in Nat

VARIABLES
    now,         \* the clock: it moves on whenever a time is taken
    db,          \* db[r]: the router in the database, and since when
    notes,       \* the notifications on their way to the agent
    queue,       \* RouterProcessingQueue._queue
    masters,     \* ExclusiveRouterProcessor._masters
    own,         \* own[r]: the _queue of the master of r
    stamp,       \* ExclusiveRouterProcessor._router_timestamps
    at, cur,     \* where each worker is, and the update it works on
    known,       \* the keys of router_info
    conf,        \* conf[r]: the data that router r is configured with
    fullsync,    \* must the agent synchronise?
    sync         \* the synchronisation under way

agentVars == <<queue, masters, own, stamp, at, cur, known, conf, fullsync, sync>>
vars == <<now, db, notes, agentVars>>

\* A router the server does not list for this agent is "gone"; a "foreign"
\* one is listed, but its gateway is on a network the agent does not serve.
Data   == [since : Nat, kind : {"here", "foreign", "gone"}]
NoData == [since |-> 0, kind |-> "gone"]
Target(d) == IF d.kind = "here" THEN d ELSE NoData

Updates == [id : Routers, prio : {0, 1}, ts : Nat,
            action : {"update", "delete"}, router : Data]
Notes   == [id : Routers, action : {"update", "delete"}, since : Nat]
Syncs   == [at : {"idle", "asked", "answered"}, ts : Nat, prev : SUBSET Routers,
            routers : [Routers -> Data]]
NoSync  == [at |-> "idle", ts |-> 0, prev |-> {},
            routers |-> [r \in Routers |-> NoData]]

TypeOK ==
    /\ now      \in Nat
    /\ db       \in [Routers -> Data]
    /\ notes    \in SUBSET Notes
    /\ queue    \in SUBSET Updates
    /\ masters  \in [Routers -> Workers \cup {NoWorker}]
    /\ own      \in [Routers -> Seq(Updates)]
    /\ stamp    \in [Routers -> Nat]
    /\ at       \in [Workers -> {"idle", "next", "fetch", "apply", "remove"}]
    /\ cur      \in [Workers -> Updates]
    /\ known    \in SUBSET Routers
    /\ conf     \in [Routers -> Data]
    /\ fullsync \in BOOLEAN
    /\ sync     \in Syncs

NoUpdate == [id |-> CHOOSE r \in Routers : TRUE, prio |-> 0, ts |-> 0,
             action |-> "update", router |-> NoData]

\* A fresh agent knows nothing.  The stamp 0 stands for datetime.min.
Init ==
    /\ now = 1
    /\ db \in [Routers -> [since : {1}, kind : {"here", "foreign", "gone"}]]
    /\ Unhosted \/ \A r \in Routers : db[r].kind # "gone"
    /\ notes = {}
    /\ queue = {}
    /\ masters = [r \in Routers |-> NoWorker]
    /\ own = [r \in Routers |-> <<>>]
    /\ stamp = [r \in Routers |-> 0]
    /\ at = [w \in Workers |-> "idle"]
    /\ cur = [w \in Workers |-> NoUpdate]
    /\ known = {}
    /\ conf = [r \in Routers |-> NoData]
    /\ fullsync = TRUE
    /\ sync = NoSync

Tick == now' = now + 1

-----------------------------------------------------------------------------
(* The server: a change is committed and the agent notified of it.  The    *)
(* notifications for a router reach the agent in the order they are sent.  *)

Change(r, kind) ==
    /\ now < MaxTime
    /\ kind = "gone" => Unhosted /\ db[r].kind # "gone"
    /\ Tick
    /\ db' = [db EXCEPT ![r] = [since |-> now + 1, kind |-> kind]]
    /\ notes' = notes \cup
         {[id |-> r, since |-> now + 1,
           action |-> IF kind = "gone" THEN "delete" ELSE "update"]}
    /\ UNCHANGED agentVars

\* router_deleted, router_removed_from_agent, routers_updated and
\* router_added_to_agent put an update into the queue.
Deliver(n) ==
    /\ \A m \in notes : m.id = n.id => n.since <= m.since
    /\ Tick
    /\ notes' = notes \ {n}
    /\ queue' = queue \cup {[id |-> n.id, prio |-> 0, ts |-> now + 1,
                             action |-> n.action, router |-> NoData]}
    /\ UNCHANGED <<db, masters, own, stamp, at, cur, known, conf, fullsync, sync>>

-----------------------------------------------------------------------------
(* The workers.                                                            *)

\* RouterUpdate.__lt__; where it compares ids either may come first.
Before(u, v) == u.prio < v.prio \/ (u.prio = v.prio /\ u.ts < v.ts)

\* each_update_to_next_router: the first update is queued with the master of
\* its router.  The worker is the master itself if there is none; otherwise
\* it is through.
Become_mutAlways(w, u) ==
    /\ masters' = [masters EXCEPT ![u.id] = w]
    /\ own' = [own EXCEPT ![u.id] = <<u>>]
    /\ at' = [at EXCEPT ![w] = "next"]
    /\ cur' = [cur EXCEPT ![w] = u]
Become(w, u) ==
    /\ masters[u.id] = NoWorker
    /\ masters' = [masters EXCEPT ![u.id] = w]
    /\ own' = [own EXCEPT ![u.id] = <<u>>]
    /\ at' = [at EXCEPT ![w] = "next"]
    /\ cur' = [cur EXCEPT ![w] = u]

HandOver_mutId(u) ==
    /\ masters[u.id] # NoWorker
    /\ own' = [own EXCEPT ![u.id] = Append(@, u.id)]
    /\ UNCHANGED <<masters, at, cur>>
HandOver_mutForget(u) ==
    /\ masters[u.id] # NoWorker
    /\ UNCHANGED <<masters, own, at, cur>>
HandOver(u) ==
    /\ masters[u.id] # NoWorker
    /\ own' = [own EXCEPT ![u.id] = Append(@, u)]
    /\ UNCHANGED <<masters, at, cur>>

Take(w, u) ==
    /\ at[w] = "idle"
    /\ \A v \in queue : ~Before(v, u)
    /\ queue' = queue \ {u}
    /\ Become(w, u) \/ HandOver(u)
    /\ UNCHANGED <<now, db, notes, stamp, known, conf, fullsync, sync>>

\* The loop of updates(): an update that is not fresh is thrown away ...
IsFresh_mutReversed(u) == u.ts < stamp[u.id]
IsFresh(u) == stamp[u.id] < u.ts

Skip(w) ==
    LET r == cur[w].id IN
    /\ at[w] = "next"
    /\ own[r] # <<>>
    /\ ~IsFresh(Head(own[r]))
    /\ own' = [own EXCEPT ![r] = Tail(@)]
    /\ UNCHANGED <<now, db, notes, queue, masters, stamp, at, cur, known, conf,
                   fullsync, sync>>

\* ... and a fresh one is processed: the data is fetched if it has none.
Fetched(w, u) ==
    /\ u.action # "delete" /\ u.router.kind = "gone"
    /\ Tick
    /\ cur' = [cur EXCEPT ![w] = [u EXCEPT !.ts = now + 1]]
    /\ at' = [at EXCEPT ![w] = "fetch"]

Carried(w, u) ==
    /\ u.action = "delete" \/ u.router.kind # "gone"
    /\ cur' = [cur EXCEPT ![w] = u]
    /\ at' = [at EXCEPT ![w] = IF u.action = "delete" THEN "remove" ELSE "apply"]
    /\ UNCHANGED now

Begin(w) ==
    LET r == cur[w].id
        u == Head(own[r])
    IN
    /\ at[w] = "next"
    /\ own[r] # <<>>
    /\ IsFresh(u)
    /\ own' = [own EXCEPT ![r] = Tail(@)]
    /\ Fetched(w, u) \/ Carried(w, u)
    /\ UNCHANGED <<db, notes, queue, masters, stamp, known, conf, fullsync, sync>>

\* __exit__, when the updates have stopped coming.
Leave(w) ==
    /\ at[w] = "next"
    /\ own[cur[w].id] = <<>>
    /\ masters' = [masters EXCEPT ![cur[w].id] = NoWorker]
    /\ at' = [at EXCEPT ![w] = "idle"]
    /\ cur' = [cur EXCEPT ![w] = NoUpdate]
    /\ UNCHANGED <<now, db, notes, queue, own, stamp, known, conf, fullsync, sync>>

\* The server answers get_routers.
Answer(w) ==
    LET r == cur[w].id IN
    /\ at[w] = "fetch"
    /\ cur' = [cur EXCEPT ![w].router = db[r]]
    /\ at' = [at EXCEPT ![w] = IF db[r].kind = "gone" THEN "remove" ELSE "apply"]
    /\ UNCHANGED <<now, db, notes, queue, masters, own, stamp, known, conf,
                   fullsync, sync>>

\* get_routers raises: the update is given up, all routers are to be fetched.
FetchFails(w) ==
    /\ "fetch" \in Faults
    /\ at[w] = "fetch"
    /\ fullsync' = TRUE
    /\ at' = [at EXCEPT ![w] = "next"]
    /\ UNCHANGED <<now, db, notes, queue, masters, own, stamp, cur, known, conf, sync>>

\* _process_routers enters a router it did not know, and yields.
Add(w) ==
    LET r == cur[w].id IN
    /\ at[w] = "apply"
    /\ cur[w].router.kind = "here" /\ r \notin known
    /\ known' = known \cup {r}
    /\ UNCHANGED <<now, db, notes, queue, masters, own, stamp, at, cur, conf,
                   fullsync, sync>>

\* It has configured the router, or removed it if it is not for this agent;
\* fetched_and_processed.  When process_router raises in its own thread, the
\* worker does not get to know.
Configured(w) ==
    LET r == cur[w].id
        d == cur[w].router
    IN
    /\ d.kind = "here" => r \in known
    /\ \/ /\ conf' = [conf EXCEPT ![r] = Target(d)]
          /\ known' = IF d.kind = "here" THEN known ELSE known \ {r}
       \/ "process" \in Faults /\ UNCHANGED <<conf, known>>

Stamped_mutNow(w) ==
    stamp' = [stamp EXCEPT ![cur[w].id] = now]
Stamped(w) ==
    stamp' = [stamp EXCEPT ![cur[w].id] = IF @ < cur[w].ts THEN cur[w].ts ELSE @]

Apply(w) ==
    /\ at[w] = "apply"
    /\ Configured(w)
    /\ Stamped(w)
    /\ at' = [at EXCEPT ![w] = "next"]
    /\ UNCHANGED <<now, db, notes, queue, masters, own, cur, fullsync, sync>>

\* _router_removed.  No time is recorded.
Remove(w) ==
    LET r == cur[w].id IN
    /\ at[w] = "remove"
    /\ conf' = [conf EXCEPT ![r] = NoData]
    /\ known' = known \ {r}
    /\ at' = [at EXCEPT ![w] = "next"]
    /\ UNCHANGED <<now, db, notes, queue, masters, own, stamp, cur, fullsync, sync>>

\* _router_added, _router_removed or _fetch_external_net_id raises: the worker
\* is over, and with its ExclusiveRouterProcessor go the updates queued there.
Raise_mutStaysMaster(w) ==
    LET r == cur[w].id IN
    /\ "process" \in Faults
    /\ at[w] \in {"apply", "remove"}
    /\ at' = [at EXCEPT ![w] = "idle"]
    /\ cur' = [cur EXCEPT ![w] = NoUpdate]
    /\ UNCHANGED <<now, db, notes, queue, masters, own, stamp, known, conf, fullsync, sync>>
Raise(w) ==
    LET r == cur[w].id IN
    /\ "process" \in Faults
    /\ at[w] \in {"apply", "remove"}
    /\ masters' = [masters EXCEPT ![r] = NoWorker]
    /\ own' = [own EXCEPT ![r] = <<>>]
    /\ at' = [at EXCEPT ![w] = "idle"]
    /\ cur' = [cur EXCEPT ![w] = NoUpdate]
    /\ UNCHANGED <<now, db, notes, queue, stamp, known, conf, fullsync, sync>>

Work(w) == \/ Skip(w) \/ Begin(w) \/ Leave(w) \/ Answer(w) \/ FetchFails(w)
           \/ Add(w) \/ Apply(w) \/ Remove(w) \/ Raise(w)

-----------------------------------------------------------------------------
(* The periodic task.                                                      *)

SyncStart ==
    /\ fullsync
    /\ sync.at = "idle"
    /\ Tick
    /\ sync' = [sync EXCEPT !.at = "asked", !.ts = now + 1, !.prev = known]
    /\ UNCHANGED <<db, notes, queue, masters, own, stamp, at, cur, known, conf, fullsync>>

SyncAnswer ==
    /\ sync.at = "asked"
    /\ sync' = [sync EXCEPT !.at = "answered", !.routers = db]
    /\ UNCHANGED <<now, db, notes, queue, masters, own, stamp, at, cur, known, conf,
                   fullsync>>

\* An update with its data for every router of the answer, and a deletion
\* for every router that was known before the call and is not in it.
FromSync(r) ==
    [id |-> r, prio |-> 1, ts |-> sync.ts, router |-> sync.routers[r],
     action |-> IF sync.routers[r].kind = "gone" THEN "delete" ELSE "update"]

SyncEnd ==
    /\ sync.at = "answered"
    /\ queue' = queue \cup {FromSync(r) : r \in {q \in Routers :
                                sync.routers[q].kind # "gone" \/ q \in sync.prev}}
    /\ fullsync' = FALSE
    /\ sync' = NoSync
    /\ UNCHANGED <<now, db, notes, masters, own, stamp, at, cur, known, conf>>

SyncFails ==
    /\ now < MaxTime
    /\ sync.at # "idle"
    /\ fullsync' = TRUE
    /\ sync' = NoSync
    /\ UNCHANGED <<now, db, notes, queue, masters, own, stamp, at, cur, known, conf>>

\* agent_updated, and a failure in _update_arp_entry.
AskSync ==
    /\ now < MaxTime
    /\ ~fullsync
    /\ fullsync' = TRUE
    /\ UNCHANGED <<now, db, notes, queue, masters, own, stamp, at, cur, known, conf, sync>>

\* The process dies, with all it remembers, and is started anew.
Restart ==
    /\ "restart" \in Faults
    /\ now < MaxTime
    /\ queue' = {}
    /\ masters' = [r \in Routers |-> NoWorker]
    /\ own' = [r \in Routers |-> <<>>]
    /\ stamp' = [r \in Routers |-> 0]
    /\ at' = [w \in Workers |-> "idle"]
    /\ cur' = [w \in Workers |-> NoUpdate]
    /\ known' = {}
    /\ conf' = [r \in Routers |-> NoData]
    /\ fullsync' = TRUE
    /\ sync' = NoSync
    /\ UNCHANGED <<now, db, notes>>

Agent == \/ \E w \in Workers : Work(w) \/ \E u \in queue : Take(w, u)
         \/ SyncStart \/ SyncEnd \/ SyncFails \/ AskSync \/ Restart

Server == \/ \E r \in Routers : \E kind \in {"here", "foreign", "gone"} : Change(r, kind)
          \/ \E n \in notes : Deliver(n)
          \/ SyncAnswer

Next == Agent \/ Server

Spec == Init /\ [][Next]_vars

\* The workers and the periodic task go on, and the server answers.
Fairness ==
    /\ \A w \in Workers : WF_vars(Work(w))
    /\ WF_vars(\E w \in Workers, u \in queue : Take(w, u))
    /\ WF_vars(\E n \in notes : Deliver(n))
    /\ WF_vars(SyncStart) /\ WF_vars(SyncAnswer) /\ WF_vars(SyncEnd)

FairSpec == Spec /\ Fairness

-----------------------------------------------------------------------------
(* Properties.                                                             *)

\* "The first instance to be created for a given router_id is granted
\* exclusive access to the router": whatever fails, two workers never process
\* one router, as a worker that is busy is the master of its router.
Exclusive ==
    \A w \in Workers : at[w] # "idle" => masters[cur[w].id] = w

\* A router does not keep a master that has gone, which would bar it from
\* every later update, nor a queue without a master, which nobody would read.
NoDeadMaster ==
    \A r \in Routers :
        IF masters[r] = NoWorker
        THEN own[r] = <<>>
        ELSE at[masters[r]] # "idle" /\ cur[masters[r]].id = r

\* "The timestamp that it keeps must be before when the data used to process
\* the router last was fetched": what has changed up to the recorded time is
\* in the configuration, or there is still an update to come that will be
\* found fresh.
Coming(r) ==
    \/ \E n \in notes : n.id = r
    \/ \E u \in queue : u.id = r /\ IsFresh(u)
    \/ \E i \in 1..Len(own[r]) : IsFresh(own[r][i])
    \/ masters[r] # NoWorker /\ at[masters[r]] \notin {"idle", "next"}
            /\ IsFresh(cur[masters[r]])

Listed(r) == db[r].kind # "gone"

StampCovers ==
    \A r \in Routers :
        Listed(r) /\ stamp[r] >= db[r].since => conf[r] = Target(db[r]) \/ Coming(r)

\* Nothing is under way for router r.
Quiet(r) ==
    /\ \A n \in notes : n.id # r
    /\ \A u \in queue : u.id # r
    /\ masters[r] = NoWorker
    /\ ~fullsync /\ sync.at = "idle"

\* No change of a router is lost, however its notification, the fetches of
\* the workers, the synchronisations and the restarts of the agent fall:
\* when nothing is under way for a router that the server lists, it is
\* configured as the database says.
ListedCurrent ==
    \A r \in Routers : Quiet(r) /\ Listed(r) => conf[r] = Target(db[r])

\* A router that the server does not list any more is not left configured.
GoneRemoved ==
    \A r \in Routers : Quiet(r) /\ ~Listed(r) => conf[r] = NoData

\* In the end every router the server lists is configured for good as the
\* database says.
Settles == \A r \in Routers :
              <>[](Listed(r) => conf[r] = Target(db[r]) /\ Quiet(r))
=============================================================================
