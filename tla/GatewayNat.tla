----------------------------- MODULE GatewayNat -----------------------------
(***************************************************************************)
(* The port mappings of a router's gateway (neutron/db/gcloud_nat_db.py)   *)
(* and the requests that give the gateway its address and take it away     *)
(* (neutron/db/l3_db.py), over the address allocation of AddressPools.     *)
(* neutron.conf has allow_gcloud_nat = True: a gateway port is created     *)
(* without an address, and the first mapping brings one.                   *)
(*                                                                         *)
(* A request reads rows without locking them, and writes in a transaction  *)
(* later: each read whose result is used later is a step of its own.       *)
(***************************************************************************)
EXTENDS AddressPools

CONSTANTS Routers,
          GwPorts,    \* gateway ports, a subset of Owners
          ExtPorts,   \* external port numbers
          Targets,    \* a port of an instance and an internal port number
          NatIds      \* rows of GcloudNat: the bound on their number

ASSUME GwPortsAssumption ==
    /\ GwPorts \subseteq Owners /\ GwPorts \cap Ports = {}
    /\ None \notin Routers

VARIABLES gw,        \* Router.gw_port_id
          rport,     \* RouterPort: the router of each gateway port, or None
          nats,      \* GcloudNat
          plus,      \* GcloudNatPlus: the address of each router, or 0
          req,       \* what each request has read
          tainted,   \* history: routers whose row in plus may be wrong
          doubled,   \* history: gateway ports given two addresses by a race
          robbed     \* history: ports an old view has cost their address

natVars == <<gw, rport, nats, plus, req, tainted, doubled, robbed>>
vars == <<poolVars, natVars>>

NoReq == [op |-> "none", router |-> None, gwport |-> None, ext |-> None,
          target |-> None, ip |-> 0, plus |-> 0, cut |-> FALSE, dup |-> FALSE]
NoNat == [router |-> None, gwport |-> None, ext |-> None, target |-> None,
          ip |-> 0, clean |-> TRUE]

Idle(q) == req[q] = NoReq /\ alloc[q] = NoAlloc
Exists(n) == nats[n].router # None

FirstIps_mutNone(g) == {0}

(* fixed_ips[0] of a gateway port, or 0 if it has no address.              *)
FirstIps(g) == IF AddressesOf(g) = {} THEN {0} ELSE AddressesOf(g)

(* Request q ends.  For the requests of cutSet an address they may have    *)
(* read is gone, for those of dupSet a row they did not count is there.    *)
Ended(q, cutSet, dupSet) ==
    [x \in Requests |->
        IF x = q \/ req[x].op = "none" THEN NoReq
        ELSE [req[x] EXCEPT !.cut = @ \/ x \in cutSet,
                            !.dup = @ \/ x \in dupSet]]
On(r) == {x \in Requests : req[x].router = r}

GTypeOK ==
    /\ TypeOK
    /\ gw \in [Routers -> GwPorts \cup {None}]
    /\ rport \in [GwPorts -> Routers \cup {None}]
    /\ nats \in [NatIds -> [router : Routers \cup {None},
                            gwport : GwPorts \cup {None},
                            ext : ExtPorts \cup {None},
                            target : Targets \cup {None},
                            ip : Addresses \cup {0}, clean : BOOLEAN]]
    /\ plus \in [Routers -> Addresses \cup {0}]
    /\ req \in [Requests -> [op : {"none", "counted", "looked", "planned",
                                   "gwip", "remove", "clear"},
                             router : Routers \cup {None},
                             gwport : GwPorts \cup {None},
                             ext : ExtPorts \cup {None},
                             target : Targets \cup {None},
                             ip : Addresses \cup {0},
                             plus : Addresses \cup {0},
                             cut : BOOLEAN, dup : BOOLEAN]]
    /\ tainted \subseteq Routers
    /\ doubled \subseteq GwPorts
    /\ robbed \subseteq Ports

GInit ==
    /\ Init
    /\ gw = [r \in Routers |-> None]
    /\ rport = [g \in GwPorts |-> None]
    /\ nats = [n \in NatIds |-> NoNat]
    /\ plus = [r \in Routers |-> 0]
    /\ req = [q \in Requests |-> NoReq]
    /\ tainted = {}
    /\ doubled = {}
    /\ robbed = {}

(***************************************************************************)
(* create_gcloud_nat                                                       *)
(***************************************************************************)
Rival_mutPortOnly(n, r, e, t) == nats[n].router = r /\ nats[n].ext = e

Rival(n, r, e, t) ==
    \/ nats[n].router = r /\ nats[n].ext = e
    \/ nats[n].target = t

NatCount(q, r, e, t) ==
    /\ Idle(q)
    /\ \A n \in NatIds : ~Rival(n, r, e, t)
    /\ req' = [req EXCEPT ![q] = [NoReq EXCEPT !.op = "counted", !.router = r,
                                               !.ext = e, !.target = t]]
    /\ UNCHANGED <<poolVars, gw, rport, nats, plus, tainted, doubled, robbed>>

(* The router is read with its gateway port and the addresses of it; the   *)
(* objects are not refreshed by the transaction that follows.              *)
NatLook(q) ==
    /\ req[q].op = "counted"
    /\ LET g == gw[req[q].router] IN
        /\ g # None
        /\ \E i \in FirstIps(g) :
            req' = [req EXCEPT ![q].op = "looked", ![q].gwport = g, ![q].ip = i,
                               ![q].cut = FALSE]
    /\ UNCHANGED <<poolVars, gw, rport, nats, plus, tainted, doubled, robbed>>

NatPlan(q) ==
    /\ req[q].op = "looked"
    /\ req' = [req EXCEPT ![q].op = "planned", ![q].plus = plus[req[q].router]]
    /\ UNCHANGED <<poolVars, gw, rport, nats, plus, tainted, doubled, robbed>>

(* The row of the mapping, with its foreign key on the gateway port.       *)
AddNat(q, i) ==
    LET r == req[q].router IN
    /\ rport[req[q].gwport] = r
    /\ \E n \in NatIds :
        /\ ~Exists(n)
        /\ nats' = [nats EXCEPT ![n] = [router |-> r, gwport |-> req[q].gwport,
                                        ext |-> req[q].ext,
                                        target |-> req[q].target, ip |-> i,
                                        clean |-> ~req[q].dup]]
    /\ req' = Ended(q, {}, On(r) \cup {x \in Requests :
                                        req[x].target = req[q].target})
    /\ tainted' = IF req[q].cut THEN tainted \cup {r} ELSE tainted
    /\ UNCHANGED <<gw, rport, robbed>>

(* The row of the router in plus, with its primary key.                    *)
AddPlus(q, i) ==
    /\ plus[req[q].router] = 0
    /\ plus' = [plus EXCEPT ![req[q].router] = i]

NatReuse(q) ==
    /\ req[q].op = "planned"
    /\ req[q].plus # 0
    /\ AddNat(q, req[q].plus)
    /\ UNCHANGED <<poolVars, plus, doubled>>

NatAdopt(q) ==
    /\ req[q].op = "planned"
    /\ req[q].plus = 0
    /\ req[q].ip # 0
    /\ AddPlus(q, req[q].ip)
    /\ AddNat(q, req[q].ip)
    /\ UNCHANGED <<poolVars, doubled>>

(* An address is stored for the gateway port the request has read.         *)
Doubled(q) == doubled \cup (IF req[q].dup THEN {req[q].gwport} ELSE {})

NatTake(q) ==
    /\ req[q].op = "planned"
    /\ req[q].plus = 0
    /\ req[q].ip = 0
    /\ \E a \in Addresses :
        /\ TakeFirst(q, req[q].gwport, a) \/ RebuildTake(q, a)
        /\ AddPlus(q, a)
        /\ AddNat(q, a)
    /\ doubled' = Doubled(q)
    /\ UNCHANGED ports

NatFindNone(q) ==
    /\ req[q].op = "planned"
    /\ req[q].plus = 0
    /\ req[q].ip = 0
    /\ FindNone(q, req[q].gwport)
    /\ UNCHANGED <<ports, natVars>>

(***************************************************************************)
(* update_gcloud_nat and delete_gcloud_nat                                 *)
(***************************************************************************)
(* The port numbers may be changed, and are not compared with the others.  *)
UpdateNat(n, e, t) ==
    /\ Exists(n)
    /\ nats' = [nats EXCEPT ![n].ext = e, ![n].target = t, ![n].clean = FALSE]
    /\ UNCHANGED <<poolVars, gw, rport, plus, req, tainted, doubled, robbed>>

(* The address stays, with the last mapping too.                           *)
DeleteNat(n) ==
    /\ Exists(n)
    /\ nats' = [nats EXCEPT ![n] = NoNat]
    /\ UNCHANGED <<poolVars, gw, rport, plus, req, tainted, doubled, robbed>>

(***************************************************************************)
(* create_router_gatewayip and remove_router_gatewayip                     *)
(***************************************************************************)
GwIpLook(q, r) ==
    /\ Idle(q)
    /\ gw[r] # None
    /\ AddressesOf(gw[r]) = {}
    /\ req' = [req EXCEPT ![q] = [NoReq EXCEPT !.op = "gwip", !.router = r,
                                               !.gwport = gw[r]]]
    /\ UNCHANGED <<poolVars, gw, rport, nats, plus, tainted, doubled, robbed>>

GwIpTake(q) ==
    /\ req[q].op = "gwip"
    /\ rport[req[q].gwport] = req[q].router
    /\ \E a \in Addresses :
        TakeFirst(q, req[q].gwport, a) \/ RebuildTake(q, a)
    /\ req' = Ended(q, {}, On(req[q].router))
    /\ doubled' = Doubled(q)
    /\ UNCHANGED <<ports, gw, rport, nats, plus, tainted, robbed>>

GwIpFindNone(q) ==
    /\ req[q].op = "gwip"
    /\ FindNone(q, req[q].gwport)
    /\ UNCHANGED <<ports, natVars>>

RemoveLook(q, r) ==
    /\ Idle(q)
    /\ gw[r] # None
    /\ \E i \in FirstIps(gw[r]) :
        req' = [req EXCEPT ![q] = [NoReq EXCEPT !.op = "remove", !.router = r,
                                                !.gwport = gw[r], !.ip = i]]
    /\ UNCHANGED <<poolVars, gw, rport, nats, plus, tainted, doubled, robbed>>

NatsWithout_mutKeeps(S) == nats
NatsWithout(S) == [n \in NatIds |-> IF n \in S THEN NoNat ELSE nats[n]]

PlusWithout_mutKeeps(r) == plus
PlusWithout(r) == [plus EXCEPT ![r] = 0]

(* Mappings, row of plus and address go; the address is deleted by its     *)
(* value, whoever owns it, and so is the one read with the router.         *)
RemoveGatewayIp(q) ==
    LET r == req[q].router
        freed == {plus[r], req[q].ip} \ {0}
        owners == {used[a] : a \in freed} \ {None, req[q].gwport}
        old == req[q].cut \/ r \in tainted
    IN
    /\ req[q].op = "remove"
    /\ freed \cap LockedByOthers(q) = {}
    /\ nats' = NatsWithout({n \in NatIds : nats[n].router = r})
    /\ plus' = PlusWithout(r)
    /\ used' = Released(freed)
    /\ req' = Ended(q, On(r) \cup {x \in Requests : req[x].ip \in freed
                                               \/ req[x].plus \in freed}, {})
    /\ tainted' = (tainted \ {r}) \cup
                  (IF old THEN {s \in Routers \ {r} : plus[s] \in freed} ELSE {})
    /\ robbed' = IF old THEN robbed \cup (owners \cap Ports) ELSE robbed
    /\ UNCHANGED <<pools, ranges, ports, alloc, raced, gw, rport, doubled>>

(***************************************************************************)
(* The gateway is set and cleared, the router deleted                      *)
(***************************************************************************)
SetGateway(r, g) ==
    /\ gw[r] = None
    /\ rport[g] = None
    /\ \A x \in Requests : req[x].gwport # g
    /\ gw' = [gw EXCEPT ![r] = g]
    /\ rport' = [rport EXCEPT ![g] = r]
    /\ UNCHANGED <<poolVars, nats, plus, req, tainted, doubled, robbed>>

(* The router gives up its port in a first transaction ...                 *)
ClearGateway(q, r) ==
    /\ Idle(q)
    /\ gw[r] # None
    /\ gw' = [gw EXCEPT ![r] = None]
    /\ req' = [Ended(q, On(r), {}) EXCEPT
                  ![q] = [NoReq EXCEPT !.op = "clear", !.router = r,
                                       !.gwport = gw[r]]]
    /\ tainted' = IF plus[r] = 0 THEN tainted ELSE tainted \cup {r}
    /\ UNCHANGED <<poolVars, rport, nats, plus, doubled, robbed>>

(* ... and the port is deleted in a second one, with its addresses and     *)
(* mappings (foreign keys), but not the row of the router in plus.         *)
ClearDeletes(q) ==
    LET g == req[q].gwport IN
    /\ req[q].op = "clear"
    /\ AddressesOf(g) \cap LockedByOthers(q) = {}
    /\ used' = Released(AddressesOf(g))
    /\ rport' = [rport EXCEPT ![g] = None]
    /\ nats' = NatsWithout({n \in NatIds : nats[n].gwport = g})
    /\ doubled' = doubled \ {g}
    /\ req' = Ended(q, On(req[q].router), {})
    /\ UNCHANGED <<pools, ranges, ports, alloc, raced, gw, plus, tainted, robbed>>

(* With its ports, mappings and row of plus; another router of the name    *)
(* comes for it.  What is under way for the old router can only fail.      *)
DeleteRouter(r) ==
    LET gone == {g \in GwPorts : rport[g] = r}
        freed == {a \in Addresses : used[a] \in gone}
    IN
    /\ gone # {} \/ plus[r] # 0
    /\ freed \cap UNION {Locked(x) : x \in Requests} = {}
    /\ used' = Released(freed)
    /\ gw' = [gw EXCEPT ![r] = None]
    /\ rport' = [g \in GwPorts |-> IF g \in gone THEN None ELSE rport[g]]
    /\ nats' = NatsWithout({n \in NatIds : nats[n].router = r})
    /\ plus' = PlusWithout(r)
    /\ req' = [x \in Requests |-> IF x \in On(r) THEN NoReq ELSE req[x]]
    /\ alloc' = [x \in Requests |-> IF x \in On(r) THEN NoAlloc ELSE alloc[x]]
    /\ tainted' = tainted \ {r}
    /\ doubled' = doubled \ gone
    /\ UNCHANGED <<pools, ranges, ports, raced, robbed>>

(* A request is refused, fails or loses a deadlock, and is rolled back; a  *)
(* cleared gateway port that was not deleted stays.                        *)
Fail(q) ==
    /\ ~Idle(q)
    /\ req' = [req EXCEPT ![q] = NoReq]
    /\ alloc' = [alloc EXCEPT ![q] = NoAlloc]
    /\ UNCHANGED <<pools, ranges, used, ports, raced, gw, rport, nats, plus,
                   tainted, doubled, robbed>>

(* No address is left for the request.                                     *)
Refuse(q) ==
    /\ Exhausted(q)
    /\ req' = [req EXCEPT ![q] = NoReq]
    /\ UNCHANGED <<gw, rport, nats, plus, tainted, doubled, robbed>>

PortStep(q) ==
    /\ req[q] = NoReq
    /\ \/ \E p \in Ports : CreatePort(q, p) /\ UNCHANGED natVars
       \/ \E p \in Ports : CreatePortWaits(q, p) /\ UNCHANGED natVars
       \/ CreatePortLate(q) /\ UNCHANGED natVars
       \/ \E ps \in PoolSets : UpdatePools(q, ps) /\ UNCHANGED natVars
       \/ \E p \in Ports :
            /\ DeletePort(q, p)
            /\ robbed' = robbed \ {p}
            /\ UNCHANGED <<gw, rport, nats, plus, req, tainted, doubled>>

Next ==
    \/ \E q \in Requests :
        \/ PortStep(q)
        \/ ReadAllocations(q) /\ UNCHANGED natVars
        \/ Refuse(q)
        \/ \E r \in Routers, e \in ExtPorts, t \in Targets : NatCount(q, r, e, t)
        \/ NatLook(q) \/ NatPlan(q)
        \/ NatReuse(q) \/ NatAdopt(q) \/ NatTake(q) \/ NatFindNone(q)
        \/ \E r \in Routers : \/ GwIpLook(q, r)
                              \/ RemoveLook(q, r)
                              \/ ClearGateway(q, r)
        \/ GwIpTake(q) \/ GwIpFindNone(q)
        \/ RemoveGatewayIp(q)
        \/ ClearDeletes(q)
        \/ Fail(q)
    \/ \E n \in NatIds : \/ DeleteNat(n)
                         \/ \E e \in ExtPorts, t \in Targets : UpdateNat(n, e, t)
    \/ \E r \in Routers : \/ DeleteRouter(r)
                          \/ \E g \in GwPorts : SetGateway(r, g)

Spec == GInit /\ [][Next]_vars

(***************************************************************************)
(* Properties                                                              *)
(***************************************************************************)
(* The external address of a mapping belongs to the gateway port it was    *)
(* made for, and is the one GcloudNatPlus has for the router - unless the  *)
(* gateway was cleared while that row stood, or the mapping was stored     *)
(* after a request that took the address away.                             *)
NatServed ==
    \A n \in NatIds : Exists(n) =>
        \/ nats[n].router \in tainted
        \/ /\ used[nats[n].ip] = nats[n].gwport
           /\ plus[nats[n].router] = nats[n].ip

(* Two mappings share neither the external port of a router nor a target,  *)
(* unless one was renumbered (update_gcloud_nat does not compare) or was   *)
(* counted before the other was stored.                                    *)
NoCollision ==
    \A n, m \in NatIds :
        /\ n # m
        /\ Exists(n) /\ Exists(m)
        /\ nats[n].clean /\ nats[m].clean
        => /\ nats[n].target # nats[m].target
           /\ nats[n].router = nats[m].router => nats[n].ext # nats[m].ext

(* A gateway port has at most one address - the agents are not told of a   *)
(* router port with two - unless two requests that both saw none gave it   *)
(* one each.                                                               *)
OneAddress ==
    \A g \in GwPorts \ doubled : \A a, b \in AddressesOf(g) : a = b

(* A port keeps its address as long as it exists: removing the gateway     *)
(* address of a router takes another port's address only on an old view,   *)
(* or after the gateway was cleared while the row of plus stood.           *)
PortKept == \A p \in ports \ robbed : AddressesOf(p) # {}
=============================================================================
