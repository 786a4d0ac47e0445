-------------------------- MODULE GatewayNatProofs --------------------------
(***************************************************************************)
(* The properties of the gateway requests, for any routers, gateway ports, *)
(* numbers of mappings and requests, over any subnet.                      *)
(*                                                                         *)
(* The inductive invariant is built in layers: Shape (types, what a        *)
(* request under way has read and for whom it allocates), RangeInv of      *)
(* AddressPoolsProofs, and the views of the requests that the mappings,    *)
(* the addresses and the counting rest on.                                 *)
(***************************************************************************)
EXTENDS GatewayNat, AddressPoolsProofs

Reqs == [op : {"none", "counted", "looked", "planned", "gwip", "remove", "clear"},
         router : Routers \cup {None}, gwport : GwPorts \cup {None},
         ext : ExtPorts \cup {None}, target : Targets \cup {None},
         ip : Addresses \cup {0}, plus : Addresses \cup {0},
         cut : BOOLEAN, dup : BOOLEAN]

Nats == [router : Routers \cup {None}, gwport : GwPorts \cup {None},
         ext : ExtPorts \cup {None}, target : Targets \cup {None},
         ip : Addresses \cup {0}, clean : BOOLEAN]

NatTypeOK ==
    /\ gw \in [Routers -> GwPorts \cup {None}]
    /\ rport \in [GwPorts -> Routers \cup {None}]
    /\ nats \in [NatIds -> Nats]
    /\ plus \in [Routers -> Addresses \cup {0}]
    /\ req \in [Requests -> Reqs]
    /\ tainted \subseteq Routers
    /\ doubled \subseteq GwPorts
    /\ robbed \subseteq Ports

HasPort(q) == req[q].op \in {"looked", "planned", "gwip", "remove", "clear"}

\* A request on a router; the port it has read is, or was, that router's.
ReqOK(q) ==
    /\ req[q].op = "none" => req[q] = NoReq
    /\ req[q].op # "none" => req[q].router # None
    /\ HasPort(q) <=> req[q].gwport # None
    /\ HasPort(q) => rport[req[q].gwport] \in {req[q].router, None}
    /\ req[q].op = "clear" => /\ rport[req[q].gwport] = req[q].router
                              /\ gw[req[q].router] # req[q].gwport

\* A port is cleared by one request.
ClearOnce ==
    \A q, x \in Requests : /\ req[q].op = "clear" /\ req[x].op = "clear"
                           /\ req[q].gwport = req[x].gwport
                           => q = x

GwInv == \A r \in Routers : gw[r] # None => rport[gw[r]] = r

\* For whom an allocation is under way.
OwnerOK(q) ==
    /\ alloc[q].phase = "none" => alloc[q] = NoAlloc
    /\ alloc[q].phase = "store" => alloc[q].addr \in Addresses
    /\ alloc[q].phase # "none" /\ req[q].op = "none" => alloc[q].owner \in Ports
    /\ alloc[q].phase # "none" /\ req[q].op # "none" =>
          /\ req[q].op \in {"planned", "gwip"}
          /\ alloc[q].owner = req[q].gwport
          /\ alloc[q].phase # "store"
          /\ req[q].op = "planned" => req[q].ip = 0 /\ req[q].plus = 0

ReqInv == (\A q \in Requests : ReqOK(q)) /\ ClearOnce
OwnerInv == \A q \in Requests : OwnerOK(q)

Shape == /\ PoolTypeOK /\ ports \subseteq Ports /\ NatTypeOK
         /\ ReqInv /\ GwInv /\ OwnerInv

LEMMA GTypeSplit == GTypeOK <=> PoolTypeOK /\ ports \subseteq Ports /\ NatTypeOK
  BY TypeSplit DEF GTypeOK, NatTypeOK, Reqs, Nats

-----------------------------------------------------------------------------
(* Records.                                                                *)

LEMMA NoReqOK ==
  /\ NoReq \in Reqs /\ NoReq.op = "none" /\ NoReq.router = None /\ NoReq.gwport = None
  /\ NoReq.ext = None /\ NoReq.target = None /\ NoReq.ip = 0 /\ NoReq.plus = 0
  /\ NoReq.cut = FALSE /\ NoReq.dup = FALSE
  BY DEF NoReq, Reqs

LEMMA NoNatOK == NoNat \in Nats /\ NoNat.router = None
  BY DEF NoNat, Nats

\* Fields of requests and mappings have their types.
LEMMA Fields ==
  ASSUME NatTypeOK
  PROVE  /\ \A q \in Requests :
              /\ req[q] \in Reqs
              /\ req[q].router \in Routers \cup {None}
              /\ req[q].gwport \in GwPorts \cup {None}
              /\ req[q].ext \in ExtPorts \cup {None}
              /\ req[q].target \in Targets \cup {None}
              /\ req[q].ip \in Addresses \cup {0}
              /\ req[q].plus \in Addresses \cup {0}
              /\ req[q].cut \in BOOLEAN /\ req[q].dup \in BOOLEAN
         /\ \A n \in NatIds :
              /\ nats[n] \in Nats
              /\ nats[n].router \in Routers \cup {None}
              /\ nats[n].gwport \in GwPorts \cup {None}
              /\ nats[n].ip \in Addresses \cup {0}
              /\ nats[n].clean \in BOOLEAN
<1>1. /\ \A q \in Requests : req[q] \in Reqs
      /\ \A n \in NatIds : nats[n] \in Nats
  BY DEF NatTypeOK
<1>2. QED
  BY <1>1 DEF Reqs, Nats

\* What request x has read is kept in e.
Kept(x, e, C, D) ==
    /\ req[x].op = "none" => e = NoReq
    /\ e.op = req[x].op /\ e.router = req[x].router
    /\ e.gwport = req[x].gwport /\ e.ext = req[x].ext
    /\ e.target = req[x].target /\ e.ip = req[x].ip /\ e.plus = req[x].plus
    /\ e.op # "none" /\ ~e.cut => ~req[x].cut /\ x \notin C
    /\ e.op # "none" /\ ~e.dup => ~req[x].dup /\ x \notin D

\* A request that ends leaves the others with what they have read.
LEMMA EndedOK ==
  ASSUME NatTypeOK, ReqInv, NEW q \in Requests, NEW C, NEW D
  PROVE  /\ Ended(q, C, D) \in [Requests -> Reqs]
         /\ Ended(q, C, D)[q] = NoReq
         /\ \A x \in Requests \ {q} : Kept(x, Ended(q, C, D)[x], C, D)
<1> DEFINE E == Ended(q, C, D)
<1>1. ASSUME NEW x \in Requests, x = q \/ req[x].op = "none"
      PROVE  E[x] = NoReq
  BY <1>1 DEF Ended
<1>2. ASSUME NEW x \in Requests, x # q, req[x].op # "none"
      PROVE  E[x] \in Reqs /\ Kept(x, E[x], C, D)
  <2>1. E[x] = [req[x] EXCEPT !.cut = @ \/ x \in C, !.dup = @ \/ x \in D]
    BY <1>2 DEF Ended
  <2> DEFINE u == req[x].cut \/ x \in C
             v == req[x].dup \/ x \in D
  <2>2. E[x] = [req[x] EXCEPT !.cut = u, !.dup = v]
    BY <2>1, Fields DEF Reqs
  <2>3. u \in BOOLEAN /\ v \in BOOLEAN
    OBVIOUS
  <2>4. (~u => ~req[x].cut /\ x \notin C) /\ (~v => ~req[x].dup /\ x \notin D)
    OBVIOUS
  <2> HIDE DEF u, v
  <2>5. /\ E[x] \in Reqs /\ E[x].op = req[x].op /\ E[x].router = req[x].router
        /\ E[x].gwport = req[x].gwport /\ E[x].ext = req[x].ext
        /\ E[x].target = req[x].target /\ E[x].ip = req[x].ip
        /\ E[x].plus = req[x].plus /\ E[x].cut = u /\ E[x].dup = v
    BY <2>2, <2>3, Fields DEF Reqs
  <2>6. QED
    BY <1>2, <2>4, <2>5, Zenon DEF Kept
<1>3. ASSUME NEW x \in Requests, x # q, req[x].op = "none"
      PROVE  Kept(x, E[x], C, D)
  <2>1. E[x] = NoReq /\ req[x] = NoReq
    BY <1>1, <1>3 DEF ReqInv, ReqOK
  <2>2. QED
    BY <2>1, NoReqOK DEF Kept
<1>4. \A x \in Requests : E[x] \in Reqs
  BY <1>1, <1>2, NoReqOK
<1>5. E \in [Requests -> Reqs]
  BY <1>4 DEF Ended
<1>6. QED
  BY <1>1, <1>2, <1>3, <1>5

\* Mappings are removed whole.
LEMMA NatsWithoutOK ==
  ASSUME NatTypeOK, NEW S
  PROVE  /\ NatsWithout(S) \in [NatIds -> Nats]
         /\ \A n \in NatIds : NatsWithout(S)[n] = IF n \in S THEN NoNat ELSE nats[n]
  BY NoNatOK DEF NatsWithout, NatTypeOK

-----------------------------------------------------------------------------
(* What the requests read and write.                                       *)

\* Only the record of q changes.
OnlyReq(q, c) == c \in Reqs /\ req' = [req EXCEPT ![q] = c]

LEMMA NatCountReads ==
  ASSUME NatTypeOK, NEW q \in Requests, NEW r \in Routers, NEW e \in ExtPorts,
         NEW t \in Targets, NatCount(q, r, e, t)
  PROVE  \E c : /\ OnlyReq(q, c) /\ c.op = "counted" /\ c.router = r
                /\ c.gwport = None /\ c.ext = e /\ c.target = t
<1> DEFINE c == [NoReq EXCEPT !.op = "counted", !.router = r, !.ext = e, !.target = t]
<1>1. /\ c \in Reqs /\ c.op = "counted" /\ c.router = r /\ c.gwport = None
      /\ c.ext = e /\ c.target = t
  BY DEF NoReq, Reqs
<1>2. req' = [req EXCEPT ![q] = c]
  BY DEF NatCount
<1> HIDE DEF c
<1>3. QED
  BY <1>1, <1>2 DEF OnlyReq

LEMMA NatLookReads ==
  ASSUME NatTypeOK, NEW q \in Requests, NatLook(q), req[q].router \in Routers
  PROVE  \E c : /\ OnlyReq(q, c) /\ c.op = "looked"
                /\ c.router = req[q].router /\ c.gwport = gw[req[q].router]
                /\ c.gwport # None /\ c.ext = req[q].ext /\ c.target = req[q].target
                /\ c.ip \in FirstIps(c.gwport) /\ c.dup = req[q].dup
<1> DEFINE g == gw[req[q].router]
<1>1. PICK i \in FirstIps(g) :
        req' = [req EXCEPT ![q].op = "looked", ![q].gwport = g, ![q].ip = i,
                           ![q].cut = FALSE]
  BY DEF NatLook
<1>2. g \in GwPorts /\ i \in Addresses \cup {0} /\ req[q] \in Reqs /\ g # None
  BY <1>1, Fields DEF NatTypeOK, FirstIps, AddressesOf, NatLook
<1> DEFINE c == [req[q] EXCEPT !.op = "looked", !.gwport = g, !.ip = i, !.cut = FALSE]
<1>3. req' = [req EXCEPT ![q] = c]
  BY <1>1 DEF NatTypeOK, Reqs
<1>4. /\ c \in Reqs /\ c.op = "looked" /\ c.router = req[q].router /\ c.gwport = g
      /\ c.ext = req[q].ext /\ c.target = req[q].target /\ c.ip = i
      /\ c.dup = req[q].dup
  BY <1>2 DEF Reqs
<1> HIDE DEF c
<1>5. QED
  BY <1>1, <1>2, <1>3, <1>4 DEF OnlyReq

LEMMA NatPlanReads ==
  ASSUME NatTypeOK, NEW q \in Requests, NatPlan(q), req[q].router \in Routers
  PROVE  \E c : /\ OnlyReq(q, c) /\ c.op = "planned"
                /\ c.router = req[q].router /\ c.gwport = req[q].gwport
                /\ c.ext = req[q].ext /\ c.target = req[q].target
                /\ c.ip = req[q].ip /\ c.plus = plus[req[q].router]
                /\ c.cut = req[q].cut /\ c.dup = req[q].dup
<1> DEFINE i == plus[req[q].router]
<1> DEFINE c == [req[q] EXCEPT !.op = "planned", !.plus = i]
<1>1. i \in Addresses \cup {0} /\ req[q] \in Reqs
  BY Fields DEF NatTypeOK
<1>2. req' = [req EXCEPT ![q] = c]
  BY DEF NatPlan, NatTypeOK, Reqs
<1>3. /\ c \in Reqs /\ c.op = "planned" /\ c.router = req[q].router
      /\ c.gwport = req[q].gwport /\ c.ext = req[q].ext /\ c.target = req[q].target
      /\ c.ip = req[q].ip /\ c.plus = i /\ c.cut = req[q].cut /\ c.dup = req[q].dup
  BY <1>1 DEF Reqs
<1> HIDE DEF c
<1>4. QED
  BY <1>2, <1>3 DEF OnlyReq

LEMMA GwIpLookReads ==
  ASSUME NatTypeOK, NEW q \in Requests, NEW r \in Routers, GwIpLook(q, r)
  PROVE  \E c : /\ OnlyReq(q, c) /\ c.op = "gwip" /\ c.router = r
                /\ c.gwport = gw[r] /\ c.gwport # None /\ c.ip = 0
<1> DEFINE c == [NoReq EXCEPT !.op = "gwip", !.router = r, !.gwport = gw[r]]
<1>1. c \in Reqs /\ c.op = "gwip" /\ c.router = r /\ c.gwport = gw[r] /\ c.ip = 0
  BY DEF NoReq, Reqs, NatTypeOK
<1>2. req' = [req EXCEPT ![q] = c] /\ gw[r] # None
  BY DEF GwIpLook
<1> HIDE DEF c
<1>3. QED
  BY <1>1, <1>2 DEF OnlyReq

LEMMA RemoveLookReads ==
  ASSUME NatTypeOK, NEW q \in Requests, NEW r \in Routers, RemoveLook(q, r)
  PROVE  \E c : /\ OnlyReq(q, c) /\ c.op = "remove" /\ c.router = r
                /\ c.gwport = gw[r] /\ c.gwport # None /\ c.ip \in FirstIps(gw[r])
<1>1. PICK i \in FirstIps(gw[r]) :
        req' = [req EXCEPT ![q] = [NoReq EXCEPT !.op = "remove", !.router = r,
                                                !.gwport = gw[r], !.ip = i]]
  BY DEF RemoveLook
<1> DEFINE c == [NoReq EXCEPT !.op = "remove", !.router = r, !.gwport = gw[r], !.ip = i]
<1>2. i \in Addresses \cup {0}
  BY DEF FirstIps, AddressesOf
<1>3. c \in Reqs /\ c.op = "remove" /\ c.router = r /\ c.gwport = gw[r] /\ c.ip = i
  BY <1>2 DEF NoReq, Reqs, NatTypeOK
<1>4. req' = [req EXCEPT ![q] = c] /\ gw[r] # None
  BY <1>1 DEF RemoveLook
<1> HIDE DEF c
<1>5. QED
  BY <1>3, <1>4 DEF OnlyReq

LEMMA ClearGatewayReads ==
  ASSUME NatTypeOK, ReqInv, NEW q \in Requests, NEW r \in Routers, ClearGateway(q, r)
  PROVE  \E c \in Reqs : /\ req' = [Ended(q, On(r), {}) EXCEPT ![q] = c]
                         /\ c.op = "clear" /\ c.router = r /\ c.gwport = gw[r]
                         /\ c.gwport # None
<1> DEFINE c == [NoReq EXCEPT !.op = "clear", !.router = r, !.gwport = gw[r]]
<1>1. c \in Reqs /\ c.op = "clear" /\ c.router = r /\ c.gwport = gw[r]
  BY DEF NoReq, Reqs, NatTypeOK
<1>2. req' = [Ended(q, On(r), {}) EXCEPT ![q] = c] /\ gw[r] # None
  BY DEF ClearGateway
<1> HIDE DEF c
<1>3. QED
  BY <1>1, <1>2

\* The mapping that is added, with what was read.
LEMMA AddNatWrites ==
  ASSUME NatTypeOK, NEW q \in Requests, NEW i \in Addresses, AddNat(q, i)
  PROVE  \E n \in NatIds, c \in Nats :
            /\ ~Exists(n) /\ nats' = [nats EXCEPT ![n] = c]
            /\ c.router = req[q].router /\ c.gwport = req[q].gwport
            /\ c.ext = req[q].ext /\ c.target = req[q].target /\ c.ip = i
            /\ c.clean = ~req[q].dup
<1>1. PICK n \in NatIds :
        /\ ~Exists(n)
        /\ nats' = [nats EXCEPT ![n] = [router |-> req[q].router,
                                        gwport |-> req[q].gwport,
                                        ext |-> req[q].ext,
                                        target |-> req[q].target, ip |-> i,
                                        clean |-> ~req[q].dup]]
  BY DEF AddNat
<1> DEFINE c == [router |-> req[q].router, gwport |-> req[q].gwport,
                 ext |-> req[q].ext, target |-> req[q].target, ip |-> i,
                 clean |-> ~req[q].dup]
<1>2. /\ c \in Nats /\ c.router = req[q].router /\ c.gwport = req[q].gwport
      /\ c.ext = req[q].ext /\ c.target = req[q].target /\ c.ip = i
      /\ c.clean = ~req[q].dup
  BY Fields DEF Nats
<1>3. nats' = [nats EXCEPT ![n] = c] /\ ~Exists(n)
  BY <1>1
<1> HIDE DEF c
<1>4. QED
  BY <1>2, <1>3

LEMMA UpdateNatWrites ==
  ASSUME NatTypeOK, NEW n \in NatIds, NEW e \in ExtPorts, NEW t \in Targets,
         UpdateNat(n, e, t)
  PROVE  \E c \in Nats : /\ nats' = [nats EXCEPT ![n] = c]
                         /\ c.router = nats[n].router /\ c.gwport = nats[n].gwport
                         /\ c.ip = nats[n].ip /\ c.clean = FALSE
<1> DEFINE c == [nats[n] EXCEPT !.ext = e, !.target = t, !.clean = FALSE]
<1>1. /\ c \in Nats /\ c.router = nats[n].router /\ c.gwport = nats[n].gwport
      /\ c.ip = nats[n].ip /\ c.clean = FALSE
  BY Fields DEF Nats
<1>2. nats' = [nats EXCEPT ![n] = c]
  BY DEF UpdateNat, NatTypeOK, Nats
<1> HIDE DEF c
<1>3. QED
  BY <1>1, <1>2

-----------------------------------------------------------------------------
(* The pools: types and ranges.                                            *)

PoolKept == /\ PoolTypeOK' /\ ports' \subseteq Ports
            /\ RangeInv => RangeInv'

LEMMA OwnerKnown ==
  ASSUME Shape, NEW q \in Requests, alloc[q].phase # "none"
  PROVE  /\ alloc[q].owner \in Owners
         /\ req[q] = NoReq => alloc[q].owner \in Ports
         /\ req[q].op # "none" => /\ alloc[q].owner = req[q].gwport
                                  /\ req[q].gwport \in GwPorts
  BY Fields, NoReqOK, PortsAssumption, GwPortsAssumption
     DEF Shape, OwnerInv, OwnerOK, ReqInv, ReqOK, HasPort

\* A request for a gateway port has read which one.
LEMMA PortKnown ==
  ASSUME Shape, NEW q \in Requests, HasPort(q)
  PROVE  /\ req[q].gwport \in GwPorts /\ req[q].gwport \in Owners
         /\ req[q].router \in Routers
         /\ rport[req[q].gwport] \in {req[q].router, None}
  BY Fields, GwPortsAssumption DEF Shape, ReqInv, ReqOK, HasPort

LEMMA TakenKeeps ==
  ASSUME PoolTypeOK, NEW q \in Requests, NEW o \in Owners, NEW a \in Addresses,
         Taken(q, o, a)
  PROVE  /\ used'[a] = o /\ \A b \in Addresses \ {a} : used'[b] = used[b]
         /\ \A b \in Addresses : used[b] # None => used'[b] = used[b]
  BY DEF Taken, PoolTypeOK

\* Addresses given back, and requests that end.
LEMMA ReleaseKeeps ==
  ASSUME PoolTypeOK, ports \subseteq Ports, NEW freed, used' = Released(freed),
         UNCHANGED <<pools, ranges, ports, raced>>,
         alloc' \in [Requests -> Allocs],
         \A x \in Requests : alloc'[x] = alloc[x] \/ alloc'[x] = NoAlloc
  PROVE  PoolKept
<1>1. /\ used' \in [Addresses -> Owners \cup {None}]
      /\ \A a \in Addresses : used'[a] \in {used[a], None}
  BY DEF Released, PoolTypeOK
<1>2. QED
  BY <1>1, ShrinkKeeps DEF PoolKept

LEMMA EndKeeps ==
  ASSUME PoolTypeOK, ports \subseteq Ports, NEW S, 
         UNCHANGED <<pools, ranges, used, ports, raced>>,
         alloc' = [x \in Requests |-> IF x \in S THEN NoAlloc ELSE alloc[x]]
  PROVE  PoolKept
<1>1. /\ alloc' \in [Requests -> Allocs]
      /\ \A x \in Requests : alloc'[x] = alloc[x] \/ alloc'[x] = NoAlloc
  BY NoAllocOK DEF PoolTypeOK
<1>2. /\ used' \in [Addresses -> Owners \cup {None}]
      /\ \A a \in Addresses : used'[a] \in {used[a], None}
  BY DEF PoolTypeOK
<1>3. QED
  BY <1>1, <1>2, ShrinkKeeps DEF PoolKept

LEMMA SameKeeps ==
  ASSUME PoolTypeOK, ports \subseteq Ports, UNCHANGED poolVars
  PROVE  PoolKept
  BY DEF PoolKept, PoolTypeOK, poolVars, RangeInv, ViewOK, Sound, Span, InUse

LEMMA PortStepPools ==
  ASSUME Shape, NEW q \in Requests, PortStep(q)
  PROVE  PoolKept
<1> USE DEF Shape
<1>1. ASSUME NEW p \in Ports, CreatePort(q, p) PROVE PoolKept
  <2>1. PICK a \in Addresses : TakeFirst(q, p, a) \/ SpecificTake(q, p, a)
    BY <1>1 DEF CreatePort
  <2>2. p \in Owners /\ ports' \subseteq Ports
    BY <1>1, PortsAssumption DEF CreatePort
  <2>3. Taken(q, p, a) /\ PoolTypeOK' /\ (RangeInv => RangeInv')
    BY <2>1, <2>2, TakeFirstKeeps, SpecificTakeKeeps
  <2>4. QED
    BY <2>2, <2>3 DEF PoolKept
<1>2. ASSUME NEW p \in Ports, CreatePortWaits(q, p) PROVE PoolKept
  <2>1. p \in Owners /\ UNCHANGED <<used, ports>>
    BY <1>2, PortsAssumption DEF CreatePortWaits, FindNone, SpecificLook
  <2>2. PoolTypeOK' /\ (RangeInv => RangeInv')
    BY <1>2, <2>1, FindNoneKeeps, SpecificLookKeeps DEF CreatePortWaits
  <2>3. QED
    BY <2>1, <2>2 DEF PoolKept
<1>3. ASSUME CreatePortLate(q) PROVE PoolKept
  <2> DEFINE o == alloc[q].owner
  <2>1. o \in Owners /\ ports' \subseteq Ports
    BY <1>3, PortsAssumption DEF CreatePortLate
  <2>2. CASE SpecificStore(q)
    <3>1. alloc[q].addr \in Addresses
      BY <2>2 DEF SpecificStore, OwnerInv, OwnerOK
    <3>2. Taken(q, o, alloc[q].addr) /\ PoolTypeOK' /\ (RangeInv => RangeInv')
      BY <2>1, <2>2, <3>1, SpecificStoreKeeps
    <3>3. QED
      BY <2>1, <3>1, <3>2 DEF PoolKept
  <2>3. ASSUME NEW a \in Addresses, RebuildTake(q, a) PROVE PoolKept
    <3>1. Taken(q, o, a) /\ PoolTypeOK' /\ (RangeInv => RangeInv')
      BY <2>1, <2>3, RebuildTakeKeeps
    <3>2. QED
      BY <2>1, <3>1 DEF PoolKept
  <2>4. QED
    BY <1>3, <2>2, <2>3 DEF CreatePortLate
<1>4. ASSUME NEW ps \in PoolSets, UpdatePools(q, ps) PROVE PoolKept
  <2>1. UNCHANGED <<used, ports>>
    BY <1>4 DEF UpdatePools
  <2>2. QED
    BY <1>4, <2>1, UpdatePoolsKeeps DEF PoolKept
<1>5. ASSUME NEW p \in Ports, DeletePort(q, p) PROVE PoolKept
  <2>1. /\ used' = Released(AddressesOf(p)) /\ ports' \subseteq Ports
        /\ UNCHANGED <<pools, ranges, alloc, raced>>
    BY <1>5 DEF DeletePort
  <2>2. /\ used' \in [Addresses -> Owners \cup {None}]
        /\ \A a \in Addresses : used'[a] \in {used[a], None}
    BY <2>1 DEF Released, PoolTypeOK
  <2>3. alloc' \in [Requests -> Allocs]
    BY <2>1 DEF PoolTypeOK
  <2>4. QED
    BY <2>1, <2>2, <2>3, ShrinkKeeps DEF PoolKept
<1>6. QED
  BY <1>1, <1>2, <1>3, <1>4, <1>5 DEF PortStep

\* A gateway port takes an address.
LEMMA GwTakes ==
  ASSUME Shape, NEW q \in Requests, HasPort(q), NEW a \in Addresses,
         TakeFirst(q, req[q].gwport, a) \/ RebuildTake(q, a), UNCHANGED ports
  PROVE  PoolKept /\ Taken(q, req[q].gwport, a)
<1> DEFINE g == req[q].gwport
<1>1. g \in Owners
  BY PortKnown
<1>2. CASE TakeFirst(q, g, a)
  BY <1>1, <1>2, TakeFirstKeeps DEF PoolKept, Shape
<1>3. CASE RebuildTake(q, a)
  <2>1. alloc[q].owner = g
    BY <1>3, OwnerKnown, NoReqOK DEF RebuildTake, HasPort
  <2>2. QED
    BY <1>1, <1>3, <2>1, RebuildTakeKeeps DEF PoolKept, Shape
<1>4. QED
  BY <1>2, <1>3

LEMMA GwFindsNone ==
  ASSUME Shape, NEW q \in Requests, HasPort(q), FindNone(q, req[q].gwport),
         UNCHANGED ports
  PROVE  PoolKept
<1>1. req[q].gwport \in Owners /\ UNCHANGED used
  BY PortKnown DEF FindNone
<1>2. QED
  BY <1>1, FindNoneKeeps DEF PoolKept, Shape

LEMMA PoolNext ==
  ASSUME Shape, Next
  PROVE  PoolKept
<1> USE DEF Shape
<1>1. ASSUME NEW q \in Requests, PortStep(q) PROVE PoolKept
  BY <1>1, PortStepPools
<1>2. ASSUME NEW q \in Requests, ReadAllocations(q) PROVE PoolKept
  <2>1. UNCHANGED <<used, ports>>
    BY <1>2 DEF ReadAllocations
  <2>2. QED
    BY <1>2, <2>1, ReadAllocationsKeeps DEF PoolKept
<1>3. ASSUME NEW q \in Requests, Refuse(q) \/ Fail(q) PROVE PoolKept
  <2>1. alloc' = [x \in Requests |-> IF x \in {q} THEN NoAlloc ELSE alloc[x]]
    BY <1>3 DEF Refuse, Exhausted, Fail, PoolTypeOK
  <2>2. UNCHANGED <<pools, ranges, used, ports, raced>>
    BY <1>3 DEF Refuse, Exhausted, Fail
  <2>3. QED
    BY <2>1, <2>2, EndKeeps
<1>4. ASSUME NEW q \in Requests, NatTake(q) PROVE PoolKept
  BY <1>4, GwTakes DEF NatTake, HasPort
<1>5. ASSUME NEW q \in Requests, GwIpTake(q) PROVE PoolKept
  BY <1>5, GwTakes DEF GwIpTake, HasPort
<1>6. ASSUME NEW q \in Requests, NatFindNone(q) \/ GwIpFindNone(q) PROVE PoolKept
  BY <1>6, GwFindsNone DEF NatFindNone, GwIpFindNone, HasPort
<1>7. ASSUME NEW q \in Requests, RemoveGatewayIp(q) \/ ClearDeletes(q) PROVE PoolKept
  <2>1. PICK freed : used' = Released(freed)
    BY <1>7 DEF RemoveGatewayIp, ClearDeletes
  <2>2. UNCHANGED <<pools, ranges, ports, alloc, raced>>
    BY <1>7 DEF RemoveGatewayIp, ClearDeletes
  <2>3. QED
    BY <2>1, <2>2, ReleaseKeeps DEF PoolTypeOK
<1>8. ASSUME NEW r \in Routers, DeleteRouter(r) PROVE PoolKept
  <2>1. PICK freed : used' = Released(freed)
    BY <1>8 DEF DeleteRouter
  <2>2. UNCHANGED <<pools, ranges, ports, raced>>
    BY <1>8 DEF DeleteRouter
  <2>3. /\ alloc' \in [Requests -> Allocs]
        /\ \A x \in Requests : alloc'[x] = alloc[x] \/ alloc'[x] = NoAlloc
    BY <1>8, NoAllocOK DEF DeleteRouter, PoolTypeOK
  <2>4. QED
    BY <2>1, <2>2, <2>3, ReleaseKeeps
<1>9. ASSUME UNCHANGED poolVars PROVE PoolKept
  BY <1>9, SameKeeps
<1>10. QED
  BY <1>1, <1>2, <1>3, <1>4, <1>5, <1>6, <1>7, <1>8, <1>9
     DEF Next, NatCount, NatLook, NatPlan, NatReuse, NatAdopt, GwIpLook, RemoveLook,
         ClearGateway, DeleteNat, UpdateNat, SetGateway

-----------------------------------------------------------------------------
(* Requests and gateways.                                                  *)

\* Requests on ports, and allocations that go on, touch no gateway.
NatQuiet ==
    /\ UNCHANGED <<gw, rport, nats, plus, req, tainted, doubled>>
    /\ robbed' \subseteq robbed
    /\ \A a \in Addresses : \/ used'[a] = used[a]
                            \/ used[a] \notin GwPorts /\ used'[a] \notin GwPorts

QuietStep(q) == \/ PortStep(q)
                \/ ReadAllocations(q) /\ UNCHANGED natVars
                \/ NatFindNone(q) \/ GwIpFindNone(q)

LEMMA QuietSteps ==
  ASSUME Shape, NEW q \in Requests, QuietStep(q)
  PROVE  NatQuiet
<1> USE DEF Shape
<1>1. ASSUME NEW o \in Ports, NEW a \in Addresses, Taken(q, o, a)
      PROVE  \A b \in Addresses : \/ used'[b] = used[b]
                                  \/ used[b] \notin GwPorts /\ used'[b] \notin GwPorts
  BY <1>1, TakenKeeps, PortsAssumption, GwPortsAssumption DEF Taken
<1>2. ASSUME NEW p \in Ports, CreatePort(q, p), UNCHANGED natVars PROVE NatQuiet
  <2>1. PICK a \in Addresses : TakeFirst(q, p, a) \/ SpecificTake(q, p, a)
    BY <1>2 DEF CreatePort
  <2>2. Taken(q, p, a)
    BY <2>1, PortsAssumption, TakeFirstKeeps, SpecificTakeKeeps
  <2>3. QED
    BY <1>1, <1>2, <2>2 DEF NatQuiet, natVars
<1>3. ASSUME CreatePortLate(q), UNCHANGED natVars PROVE NatQuiet
  <2>1. alloc[q].owner \in Ports /\ alloc[q].owner \in Owners
    BY <1>3, PortsAssumption DEF CreatePortLate
  <2>2. CASE SpecificStore(q)
    <3>1. alloc[q].addr \in Addresses
      BY <2>2 DEF SpecificStore, OwnerInv, OwnerOK
    <3>2. Taken(q, alloc[q].owner, alloc[q].addr)
      BY <2>1, <2>2, <3>1, SpecificStoreKeeps
    <3>3. QED
      BY <1>1, <1>3, <2>1, <3>1, <3>2 DEF NatQuiet, natVars
  <2>3. ASSUME NEW a \in Addresses, RebuildTake(q, a) PROVE NatQuiet
    <3>1. Taken(q, alloc[q].owner, a)
      BY <2>1, <2>3, RebuildTakeKeeps
    <3>2. QED
      BY <1>1, <1>3, <2>1, <3>1 DEF NatQuiet, natVars
  <2>4. QED
    BY <1>3, <2>2, <2>3 DEF CreatePortLate
<1>4. ASSUME NEW p \in Ports, DeletePort(q, p), robbed' = robbed \ {p},
             UNCHANGED <<gw, rport, nats, plus, req, tainted, doubled>>
      PROVE  NatQuiet
  <2>1. used' = Released(AddressesOf(p))
    BY <1>4 DEF DeletePort
  <2>2. QED
    BY <1>4, <2>1, GwPortsAssumption, PortsAssumption
       DEF NatQuiet, Released, AddressesOf, PoolTypeOK
<1>5. ASSUME UNCHANGED used, UNCHANGED natVars PROVE NatQuiet
  BY <1>5 DEF NatQuiet, natVars
<1>6. QED
  BY <1>2, <1>3, <1>4, <1>5
     DEF QuietStep, PortStep, ReadAllocations, NatFindNone, GwIpFindNone, FindNone,
         CreatePortWaits, SpecificLook, UpdatePools

\* Request x ends or goes on with what it has read.
SameReq(x) == /\ req[x].op = "none" => req'[x] = NoReq
              /\ req'[x].op = req[x].op /\ req'[x].router = req[x].router
              /\ req'[x].gwport = req[x].gwport

LEMMA SameReqOK ==
  ASSUME NatTypeOK, NEW x \in Requests, ReqOK(x), req'[x] = NoReq \/ SameReq(x),
         HasPort(x) /\ req'[x] # NoReq => 
            rport'[req[x].gwport] \in {req[x].router, None},
         req[x].op = "clear" /\ req'[x] # NoReq =>
            /\ rport'[req[x].gwport] = req[x].router
            /\ gw'[req[x].router] # req[x].gwport
  PROVE  ReqOK(x)'
<1>1. CASE req'[x] = NoReq
  BY <1>1, NoReqOK DEF ReqOK, HasPort
<1>2. CASE SameReq(x) /\ req'[x] # NoReq
  BY <1>2 DEF SameReq, ReqOK, HasPort
<1>3. QED
  BY <1>1, <1>2

\* Requests end, the gateways stay.
LEMMA SameReqs ==
  ASSUME NatTypeOK, ReqInv, UNCHANGED <<gw, rport>>,
         \A x \in Requests : req'[x] = NoReq \/ SameReq(x)
  PROVE  ReqInv'
<1>1. ASSUME NEW x \in Requests PROVE ReqOK(x)'
  BY SameReqOK DEF ReqInv, ReqOK
<1>2. ClearOnce'
  BY NoReqOK DEF ReqInv, ClearOnce, SameReq
<1>3. QED
  BY <1>1, <1>2 DEF ReqInv

LEMMA EndedSame ==
  ASSUME NatTypeOK, ReqInv, NEW q \in Requests, NEW C, NEW D, req' = Ended(q, C, D)
  PROVE  /\ req' \in [Requests -> Reqs]
         /\ \A x \in Requests : req'[x] = NoReq \/ SameReq(x)
  BY EndedOK DEF Kept, SameReq

\* A request reads the router and its gateway port.
LEMMA ReadsOK ==
  ASSUME NatTypeOK, ReqInv, NEW q \in Requests, NEW c, OnlyReq(q, c),
         UNCHANGED <<gw, rport>>, c.router \in Routers,
         c.op \in {"counted", "looked", "planned", "gwip", "remove"},
         c.op = "counted" <=> c.gwport = None,
         c.gwport # None => rport[c.gwport] \in {c.router, None}
  PROVE  req' \in [Requests -> Reqs] /\ ReqInv'
<1>1. /\ req' \in [Requests -> Reqs] /\ req'[q] = c
      /\ \A x \in Requests \ {q} : req'[x] = req[x]
  BY DEF OnlyReq, NatTypeOK
<1>2. ASSUME NEW x \in Requests, x # q PROVE ReqOK(x)'
  BY <1>1, <1>2 DEF ReqInv, ReqOK, HasPort
<1>3. ReqOK(q)'
  BY <1>1, GwPortsAssumption DEF ReqOK, HasPort
<1>4. ClearOnce'
  BY <1>1 DEF ReqInv, ClearOnce
<1>5. QED
  BY <1>1, <1>2, <1>3, <1>4 DEF ReqInv

GateOK == NatTypeOK /\ ReqInv /\ GwInv

\* The requests that read.
LEMMA ReadingGate ==
  ASSUME Shape, NEW q \in Requests,
         \/ \E r \in Routers, e \in ExtPorts, t \in Targets : NatCount(q, r, e, t)
         \/ NatLook(q) \/ NatPlan(q)
         \/ \E r \in Routers : GwIpLook(q, r) \/ RemoveLook(q, r)
  PROVE  GateOK'
<1> USE DEF Shape
<1>1. UNCHANGED <<gw, rport, nats, plus, tainted, doubled, robbed>>
  BY DEF NatCount, NatLook, NatPlan, GwIpLook, RemoveLook
<1>2. \A r \in Routers : gw[r] # None => rport[gw[r]] = r
  BY DEF GwInv
<1>3. req' \in [Requests -> Reqs] /\ ReqInv'
  <2>1. ASSUME NEW r \in Routers, NEW e \in ExtPorts, NEW t \in Targets, NatCount(q, r, e, t)
        PROVE  req' \in [Requests -> Reqs] /\ ReqInv'
    BY <1>1, <2>1, NatCountReads, ReadsOK
  <2>2. CASE NatLook(q)
    <3>1. req[q].router \in Routers
      BY <2>2, Fields DEF NatLook, ReqInv, ReqOK
    <3>2. PICK c : /\ OnlyReq(q, c) /\ c.op = "looked" /\ c.router = req[q].router
                   /\ c.gwport = gw[req[q].router] /\ c.gwport # None
      BY <2>2, <3>1, NatLookReads
    <3>3. QED
      BY <1>1, <1>2, <3>1, <3>2, ReadsOK
  <2>3. CASE NatPlan(q)
    <3>1. HasPort(q) /\ req[q].router \in Routers /\ req[q].gwport \in GwPorts
          /\ rport[req[q].gwport] \in {req[q].router, None}
      BY <2>3, PortKnown DEF NatPlan, HasPort
    <3>2. PICK c : /\ OnlyReq(q, c) /\ c.op = "planned" /\ c.router = req[q].router
                   /\ c.gwport = req[q].gwport
      BY <2>3, <3>1, NatPlanReads
    <3>3. QED
      BY <1>1, <3>1, <3>2, ReadsOK, GwPortsAssumption, PortsAssumption
  <2>4. ASSUME NEW r \in Routers, GwIpLook(q, r)
        PROVE  req' \in [Requests -> Reqs] /\ ReqInv'
    <3>1. PICK c : /\ OnlyReq(q, c) /\ c.op = "gwip" /\ c.router = r
                   /\ c.gwport = gw[r] /\ c.gwport # None
      BY <2>4, GwIpLookReads
    <3>2. QED
      BY <1>1, <1>2, <3>1, ReadsOK
  <2>5. ASSUME NEW r \in Routers, RemoveLook(q, r)
        PROVE  req' \in [Requests -> Reqs] /\ ReqInv'
    <3>1. PICK c : /\ OnlyReq(q, c) /\ c.op = "remove" /\ c.router = r
                   /\ c.gwport = gw[r] /\ c.gwport # None
      BY <2>5, RemoveLookReads
    <3>2. QED
      BY <1>1, <1>2, <3>1, ReadsOK
  <2>6. QED
    BY <2>1, <2>2, <2>3, <2>4, <2>5
<1>4. QED
  BY <1>1, <1>3 DEF GateOK, NatTypeOK, GwInv

\* The requests that write a mapping or an address of a gateway port.
LEMMA WritingGate ==
  ASSUME Shape, NEW q \in Requests,
         NatReuse(q) \/ NatAdopt(q) \/ NatTake(q) \/ GwIpTake(q) \/ RemoveGatewayIp(q)
  PROVE  GateOK'
<1> USE DEF Shape
<1>1. HasPort(q) /\ UNCHANGED <<gw, rport>>
  BY DEF NatReuse, NatAdopt, NatTake, GwIpTake, RemoveGatewayIp, HasPort, AddNat
<1>2. req[q].gwport \in GwPorts /\ req[q].router \in Routers
  BY <1>1, PortKnown
<1>3. \E C, D : req' = Ended(q, C, D)
  BY DEF NatReuse, NatAdopt, NatTake, GwIpTake, RemoveGatewayIp, AddNat
<1>4. req' \in [Requests -> Reqs] /\ ReqInv'
  BY <1>1, <1>3, EndedSame, SameReqs
<1>5. nats' \in [NatIds -> Nats] /\ plus' \in [Routers -> Addresses \cup {0}]
  <2>1. CASE GwIpTake(q)
    BY <2>1 DEF GwIpTake, NatTypeOK
  <2>2. CASE RemoveGatewayIp(q)
    BY <1>2, <2>2, NatsWithoutOK DEF RemoveGatewayIp, PlusWithout, NatTypeOK
  <2>3. CASE NatReuse(q) \/ NatAdopt(q) \/ NatTake(q)
    <3>1. PICK i \in Addresses : AddNat(q, i) /\ (AddPlus(q, i) \/ UNCHANGED plus)
      BY <2>3, Fields DEF NatReuse, NatAdopt, NatTake
    <3>2. QED
      BY <1>2, <3>1, AddNatWrites DEF AddPlus, NatTypeOK
  <2>4. QED
    BY <2>1, <2>2, <2>3
<1>6. tainted' \subseteq Routers /\ doubled' \subseteq GwPorts /\ robbed' \subseteq Ports
  BY <1>2 DEF NatReuse, NatAdopt, NatTake, GwIpTake, RemoveGatewayIp, AddNat, Doubled,
             NatTypeOK
<1>7. QED
  BY <1>1, <1>4, <1>5, <1>6 DEF GateOK, NatTypeOK, GwInv

LEMMA SetGatewayGate ==
  ASSUME Shape, NEW r \in Routers, NEW g \in GwPorts, SetGateway(r, g)
  PROVE  GateOK'
<1> USE DEF Shape
<1>1. /\ gw' = [gw EXCEPT ![r] = g] /\ rport' = [rport EXCEPT ![g] = r]
      /\ gw[r] = None /\ rport[g] = None
      /\ \A x \in Requests : req[x].gwport # g
      /\ UNCHANGED <<nats, plus, req, tainted, doubled, robbed>>
  BY DEF SetGateway
<1>2. NatTypeOK'
  BY <1>1 DEF NatTypeOK
<1>3. ASSUME NEW x \in Requests PROVE ReqOK(x)'
  <2>1. CASE HasPort(x)
    <3>1. req[x].gwport \in GwPorts /\ req[x].router \in Routers
      BY <2>1, PortKnown
    <3>2. rport'[req[x].gwport] = rport[req[x].gwport]
      BY <1>1, <3>1 DEF NatTypeOK
    <3>3. gw'[req[x].router] # req[x].gwport \/ gw'[req[x].router] = gw[req[x].router]
      BY <1>1, <3>1 DEF NatTypeOK
    <3>4. QED
      BY <1>1, <2>1, <3>2, <3>3 DEF ReqInv, ReqOK, HasPort
  <2>2. CASE ~HasPort(x)
    BY <1>1, <2>2 DEF ReqInv, ReqOK, HasPort
  <2>3. QED
    BY <2>1, <2>2
<1>4. ClearOnce'
  BY <1>1 DEF ReqInv, ClearOnce
<1>5. GwInv'
  <2> SUFFICES ASSUME NEW s \in Routers, gw'[s] # None PROVE rport'[gw'[s]] = s
    BY DEF GwInv
  <2>1. CASE s = r
    BY <1>1, <2>1 DEF NatTypeOK
  <2>2. CASE s # r
    <3>1. gw'[s] = gw[s] /\ gw[s] \in GwPorts /\ rport[gw[s]] = s
      BY <1>1, <2>2 DEF NatTypeOK, GwInv
    <3>2. gw[s] # g
      BY <1>1, <3>1, GwPortsAssumption
    <3>3. QED
      BY <1>1, <3>1, <3>2 DEF NatTypeOK
  <2>3. QED
    BY <2>1, <2>2
<1>6. QED
  BY <1>2, <1>3, <1>4, <1>5 DEF GateOK, ReqInv

LEMMA ClearGatewayGate ==
  ASSUME Shape, NEW q \in Requests, NEW r \in Routers, ClearGateway(q, r)
  PROVE  GateOK'
<1> USE DEF Shape
<1>1. /\ gw' = [gw EXCEPT ![r] = None] /\ gw[r] # None
      /\ tainted' \subseteq Routers
      /\ UNCHANGED <<rport, nats, plus, doubled, robbed>>
  BY DEF ClearGateway, NatTypeOK
<1>2. PICK c \in Reqs : /\ req' = [Ended(q, On(r), {}) EXCEPT ![q] = c]
                        /\ c.op = "clear" /\ c.router = r /\ c.gwport = gw[r]
  BY ClearGatewayReads
<1>3. /\ req' \in [Requests -> Reqs] /\ req'[q] = c
      /\ \A x \in Requests \ {q} : SameReq(x)
  BY <1>2, EndedOK DEF SameReq, Kept
<1>4. NatTypeOK'
  BY <1>1, <1>3 DEF NatTypeOK
<1>5. gw[r] \in GwPorts /\ rport[gw[r]] = r /\ gw'[r] = None
  BY <1>1 DEF NatTypeOK, GwInv
<1>6. ReqOK(q)'
  BY <1>1, <1>2, <1>3, <1>5, GwPortsAssumption, PortsAssumption DEF ReqOK, HasPort
<1>7. ASSUME NEW x \in Requests, x # q PROVE ReqOK(x)'
  <2>1. ReqOK(x) /\ SameReq(x)
    BY <1>3, <1>7 DEF ReqInv
  <2>2. req[x].op = "clear" => gw'[req[x].router] # req[x].gwport
    BY <1>1, <2>1, Fields, GwPortsAssumption DEF ReqOK, HasPort, NatTypeOK
  <2>3. QED
    BY <1>1, <2>1, <2>2, SameReqOK DEF ReqOK
<1>8. ClearOnce'
  <2> SUFFICES ASSUME NEW x \in Requests, x # q, req[x].op = "clear"
               PROVE  req[x].gwport # gw[r]
    BY <1>2, <1>3 DEF ClearOnce, SameReq, ReqInv
  <2>1. rport[req[x].gwport] = req[x].router /\ gw[req[x].router] # req[x].gwport
    BY DEF ReqInv, ReqOK
  <2>2. QED
    BY <1>5, <2>1
<1>9. GwInv'
  BY <1>1 DEF GwInv, NatTypeOK
<1>10. QED
  BY <1>4, <1>6, <1>7, <1>8, <1>9 DEF GateOK, ReqInv

LEMMA ClearDeletesGate ==
  ASSUME Shape, NEW q \in Requests, ClearDeletes(q)
  PROVE  GateOK'
<1> USE DEF Shape
<1> DEFINE g == req[q].gwport
<1>1. /\ req[q].op = "clear" /\ req' = Ended(q, On(req[q].router), {})
      /\ rport' = [rport EXCEPT ![g] = None]
      /\ nats' = NatsWithout({n \in NatIds : nats[n].gwport = g})
      /\ doubled' = doubled \ {g}
      /\ UNCHANGED <<gw, plus, tainted, robbed>>
  BY DEF ClearDeletes
<1>2. g \in GwPorts /\ rport[g] = req[q].router /\ gw[req[q].router] # g
      /\ req[q].router \in Routers
  BY <1>1, PortKnown DEF HasPort, ReqInv, ReqOK
<1>3. /\ req' \in [Requests -> Reqs] /\ req'[q] = NoReq
      /\ \A x \in Requests \ {q} : SameReq(x)
  BY <1>1, EndedOK DEF Kept, SameReq
<1>4. NatTypeOK'
  BY <1>1, <1>2, <1>3, NatsWithoutOK DEF NatTypeOK
<1>5. ASSUME NEW x \in Requests, x # q PROVE ReqOK(x)'
  <2>1. ReqOK(x) /\ SameReq(x)
    BY <1>3, <1>5 DEF ReqInv
  <2>2. HasPort(x) => rport'[req[x].gwport] \in {req[x].router, None}
    BY <1>1, <1>2, <2>1, PortKnown DEF NatTypeOK, ReqOK
  <2>3. req[x].op = "clear" => rport'[req[x].gwport] = req[x].router
    <3>1. req[x].op = "clear" => req[x].gwport # g /\ req[x].gwport \in GwPorts
      BY <1>1, <1>5, PortKnown DEF ReqInv, ClearOnce, HasPort
    <3>2. QED
      BY <1>1, <2>1, <3>1 DEF ReqOK, NatTypeOK
  <2>4. QED
    BY <1>1, <2>1, <2>2, <2>3, SameReqOK DEF ReqOK
<1>6. ReqOK(q)'
  BY <1>3, NoReqOK DEF ReqOK, HasPort
<1>7. ClearOnce'
  BY <1>3, NoReqOK DEF ClearOnce, SameReq, ReqInv
<1>8. GwInv'
  BY <1>1, <1>2 DEF GwInv, NatTypeOK
<1>9. QED
  BY <1>4, <1>5, <1>6, <1>7, <1>8 DEF GateOK, ReqInv

LEMMA DeleteRouterGate ==
  ASSUME Shape, NEW r \in Routers, DeleteRouter(r)
  PROVE  GateOK'
<1> USE DEF Shape
<1> DEFINE gone == {g \in GwPorts : rport[g] = r}
<1>1. /\ gw' = [gw EXCEPT ![r] = None]
      /\ rport' = [g \in GwPorts |-> IF g \in gone THEN None ELSE rport[g]]
      /\ nats' = NatsWithout({n \in NatIds : nats[n].router = r})
      /\ plus' = PlusWithout(r)
      /\ req' = [x \in Requests |-> IF x \in On(r) THEN NoReq ELSE req[x]]
      /\ tainted' = tainted \ {r} /\ doubled' = doubled \ gone /\ UNCHANGED robbed
  BY DEF DeleteRouter
<1>2. req' \in [Requests -> Reqs]
  BY <1>1, Fields, NoReqOK
<1>3. NatTypeOK'
  BY <1>1, <1>2, NatsWithoutOK DEF NatTypeOK, PlusWithout
<1>4. ASSUME NEW x \in Requests PROVE ReqOK(x)'
  <2>1. CASE req[x].router = r
    <3>1. req'[x] = NoReq
      BY <1>1, <2>1 DEF On
    <3>2. QED
      BY <3>1, NoReqOK DEF ReqOK, HasPort
  <2>2. CASE req[x].router # r
    <3>1. req'[x] = req[x]
      BY <1>1, <2>2 DEF On
    <3>2. HasPort(x) => rport'[req[x].gwport] = rport[req[x].gwport]
      BY <1>1, <2>2, PortKnown, GwPortsAssumption
    <3>3. HasPort(x) => gw'[req[x].router] = gw[req[x].router]
      BY <1>1, <2>2, PortKnown DEF NatTypeOK
    <3>4. QED
      BY <3>1, <3>2, <3>3 DEF ReqInv, ReqOK, HasPort
  <2>3. QED
    BY <2>1, <2>2
<1>5. ClearOnce'
  BY <1>1, NoReqOK DEF ReqInv, ClearOnce
<1>6. GwInv'
  BY <1>1 DEF GwInv, NatTypeOK
<1>7. QED
  BY <1>3, <1>4, <1>5, <1>6 DEF GateOK, ReqInv

LEMMA GateNext ==
  ASSUME Shape, Next
  PROVE  GateOK'
<1> USE DEF Shape
<1>1. ASSUME NEW q \in Requests, QuietStep(q) PROVE GateOK'
  <2>1. NatQuiet
    BY <1>1, QuietSteps
  <2>2. NatTypeOK' /\ GwInv'
    BY <2>1 DEF NatQuiet, NatTypeOK, GwInv
  <2>3. ReqInv'
    BY <2>1 DEF NatQuiet, ReqInv, ReqOK, HasPort, ClearOnce
  <2>4. QED
    BY <2>2, <2>3 DEF GateOK
<1>2. ASSUME NEW q \in Requests, Refuse(q) \/ Fail(q) PROVE GateOK'
  <2>1. /\ req' = [req EXCEPT ![q] = NoReq]
        /\ UNCHANGED <<gw, rport, nats, plus, tainted, doubled, robbed>>
    BY <1>2 DEF Refuse, Fail
  <2>2. /\ req' \in [Requests -> Reqs]
        /\ \A x \in Requests : req'[x] = NoReq \/ SameReq(x)
    BY <2>1, NoReqOK DEF SameReq, NatTypeOK, ReqInv, ReqOK
  <2>3. QED
    BY <2>1, <2>2, SameReqs DEF GateOK, NatTypeOK, GwInv
<1>3. ASSUME NEW n \in NatIds,
             DeleteNat(n) \/ \E e \in ExtPorts, t \in Targets : UpdateNat(n, e, t)
      PROVE  GateOK'
  <2>1. nats' \in [NatIds -> Nats]
    BY <1>3, UpdateNatWrites, NoNatOK DEF DeleteNat, NatTypeOK
  <2>2. UNCHANGED <<gw, rport, plus, req, tainted, doubled, robbed>>
    BY <1>3 DEF DeleteNat, UpdateNat
  <2>3. ReqInv'
    BY <2>2 DEF ReqInv, ReqOK, HasPort, ClearOnce
  <2>4. QED
    BY <2>1, <2>2, <2>3 DEF GateOK, NatTypeOK, GwInv
<1>4. QED
  BY <1>1, <1>2, <1>3, ReadingGate, WritingGate, SetGatewayGate, ClearGatewayGate,
     ClearDeletesGate, DeleteRouterGate
     DEF Next, QuietStep

-----------------------------------------------------------------------------
(* Allocations under way.                                                  *)

\* An allocation and the request it is for stay as they are.
SameAlloc(x) == /\ alloc[x].phase = "none" => alloc'[x] = alloc[x]
                /\ alloc'[x].phase = alloc[x].phase
                /\ alloc'[x].owner = alloc[x].owner
                /\ alloc'[x].addr = alloc[x].addr

SamePlan(x) == /\ req'[x].op = req[x].op /\ req'[x].gwport = req[x].gwport
               /\ req'[x].ip = req[x].ip /\ req'[x].plus = req[x].plus

LEMMA OwnerStays ==
  ASSUME NEW x, OwnerOK(x),
         \/ alloc'[x] = NoAlloc
         \/ SameAlloc(x) /\ (SamePlan(x) \/ alloc[x].phase = "none")
  PROVE  OwnerOK(x)'
  BY NoAllocOK DEF OwnerOK, SameAlloc, SamePlan

LEMMA CrossedSame ==
  ASSUME PoolTypeOK, NEW q \in Requests, alloc' = Crossed(q)
  PROVE  alloc'[q] = NoAlloc /\ \A x \in Requests \ {q} : SameAlloc(x)
  BY CrossedOK DEF PoolTypeOK, SameAlloc

LEMMA EndedPlans ==
  ASSUME NatTypeOK, ReqInv, NEW q \in Requests, NEW C, NEW D, req' = Ended(q, C, D)
  PROVE  \A x \in Requests \ {q} : SamePlan(x)
  BY EndedOK DEF Kept, SamePlan

\* Every way to commit an allocation.
LEMMA Commits ==
  ASSUME NEW q \in Requests,
         \/ \E o \in Owners, a \in Addresses : TakeFirst(q, o, a) \/ SpecificTake(q, o, a)
         \/ SpecificStore(q) \/ \E a \in Addresses : RebuildTake(q, a)
         \/ \E ps \in PoolSets : UpdatePools(q, ps)
  PROVE  alloc' = Crossed(q)
  BY DEF TakeFirst, SpecificTake, SpecificStore, RebuildTake, UpdatePools, Store

LEMMA FindNoneOwner ==
  ASSUME PoolTypeOK, NEW q \in Requests, NEW o, FindNone(q, o)
  PROVE  /\ alloc'[q].phase = "empty" /\ alloc'[q].owner = o
         /\ \A x \in Requests \ {q} : alloc'[x] = alloc[x]
<1> DEFINE c == [NoAlloc EXCEPT !.phase = "empty", !.owner = o]
<1>1. c.phase = "empty" /\ c.owner = o
  BY DEF NoAlloc
<1>2. alloc' = [alloc EXCEPT ![q] = c]
  BY DEF FindNone
<1> HIDE DEF c
<1>3. QED
  BY <1>1, <1>2 DEF PoolTypeOK

LEMMA PortStepOwners ==
  ASSUME Shape, NEW q \in Requests, PortStep(q)
  PROVE  OwnerInv'
<1> USE DEF Shape
<1>1. req[q] = NoReq /\ UNCHANGED req
  BY DEF PortStep, natVars
<1>2. CASE alloc' = Crossed(q)
  BY <1>1, <1>2, CrossedSame, OwnerStays DEF OwnerInv, SamePlan
<1>3. ASSUME NEW p \in Ports, FindNone(q, p) PROVE OwnerInv'
  <2>1. /\ alloc'[q].phase = "empty" /\ alloc'[q].owner = p
        /\ \A x \in Requests \ {q} : alloc'[x] = alloc[x]
    BY <1>3, FindNoneOwner
  <2>2. QED
    BY <1>1, <1>3, <2>1, NoReqOK, OwnerStays DEF OwnerInv, OwnerOK, SamePlan, SameAlloc
<1>4. ASSUME NEW p \in Ports, NEW a \in Addresses, SpecificLook(q, p, a) PROVE OwnerInv'
  <2> DEFINE c == [NoAlloc EXCEPT !.phase = "store", !.owner = p, !.addr = a]
  <2>1. c.phase = "store" /\ c.owner = p /\ c.addr = a
    BY DEF NoAlloc
  <2>2. alloc' = [alloc EXCEPT ![q] = c]
    BY <1>4 DEF SpecificLook
  <2> HIDE DEF c
  <2>3. alloc'[q] = c /\ \A x \in Requests \ {q} : alloc'[x] = alloc[x]
    BY <2>2 DEF PoolTypeOK
  <2>4. QED
    BY <1>1, <2>1, <2>3, NoReqOK, OwnerStays DEF OwnerInv, OwnerOK, SamePlan, SameAlloc
<1>5. CASE UNCHANGED alloc
  BY <1>1, <1>5, OwnerStays DEF OwnerInv, SamePlan, SameAlloc
<1>6. QED
  BY <1>2, <1>3, <1>4, <1>5, Commits, PortsAssumption
     DEF PortStep, CreatePort, CreatePortWaits, CreatePortLate, DeletePort

LEMMA OwnerNext ==
  ASSUME Shape, Next
  PROVE  OwnerInv'
<1> USE DEF Shape
<1> DEFINE Stays(x) == \/ alloc'[x] = NoAlloc
                       \/ SameAlloc(x) /\ (SamePlan(x) \/ alloc[x].phase = "none")
<1>1. ASSUME \A x \in Requests : Stays(x) PROVE OwnerInv'
  BY <1>1, OwnerStays DEF OwnerInv
<1>2. ASSUME NEW q \in Requests, ReadAllocations(q), UNCHANGED natVars PROVE OwnerInv'
  <2> DEFINE c == [alloc[q] EXCEPT !.phase = "rebuild", !.seen = InUse]
  <2>1. /\ c.phase = "rebuild" /\ c.owner = alloc[q].owner /\ alloc[q].phase = "empty"
    BY <1>2 DEF PoolTypeOK, Allocs, ReadAllocations
  <2>2. alloc' = [alloc EXCEPT ![q] = c]
    BY <1>2 DEF ReadAllocations, PoolTypeOK, Allocs
  <2> HIDE DEF c
  <2>3. alloc'[q] = c /\ \A x \in Requests \ {q} : alloc'[x] = alloc[x]
    BY <2>2 DEF PoolTypeOK
  <2>4. UNCHANGED req
    BY <1>2 DEF natVars
  <2>5. QED
    BY <2>1, <2>3, <2>4, OwnerStays DEF OwnerInv, OwnerOK, SamePlan, SameAlloc
<1>3. ASSUME NEW q \in Requests, Refuse(q) \/ Fail(q) PROVE OwnerInv'
  <2>1. \A x \in Requests : Stays(x)
    BY <1>3 DEF Refuse, Exhausted, Fail, SameAlloc, SamePlan, PoolTypeOK, NatTypeOK
  <2>2. QED
    BY <1>1, <2>1
<1>4. ASSUME NEW q \in Requests, NEW C, NEW D, req' = Ended(q, C, D),
             alloc' = Crossed(q) \/ (UNCHANGED alloc /\ alloc[q].phase = "none")
      PROVE  OwnerInv'
  <2>1. \A x \in Requests : Stays(x)
    BY <1>4, CrossedSame, EndedPlans DEF SameAlloc
  <2>2. QED
    BY <1>1, <2>1
<1>5. ASSUME NEW q \in Requests, NatTake(q) \/ GwIpTake(q) PROVE OwnerInv'
  <2>1. alloc' = Crossed(q)
    BY <1>5, Commits, PortKnown DEF NatTake, GwIpTake, HasPort
  <2>2. PICK C, D : req' = Ended(q, C, D)
    BY <1>5 DEF NatTake, GwIpTake, AddNat
  <2>3. QED
    BY <1>4, <2>1, <2>2
<1>6. ASSUME NEW q \in Requests,
             NatReuse(q) \/ NatAdopt(q) \/ RemoveGatewayIp(q) \/ ClearDeletes(q)
      PROVE  OwnerInv'
  <2>1. UNCHANGED alloc
    BY <1>6 DEF NatReuse, NatAdopt, RemoveGatewayIp, ClearDeletes, poolVars
  <2>2. PICK C, D : req' = Ended(q, C, D)
    BY <1>6 DEF NatReuse, NatAdopt, RemoveGatewayIp, ClearDeletes, AddNat
  <2>3. alloc[q].phase = "none"
    BY <1>6 DEF NatReuse, NatAdopt, RemoveGatewayIp, ClearDeletes, OwnerInv, OwnerOK
  <2>4. QED
    BY <1>4, <2>1, <2>2, <2>3
<1>7. ASSUME NEW q \in Requests, NatFindNone(q) \/ GwIpFindNone(q) PROVE OwnerInv'
  <2>1. /\ alloc'[q].phase = "empty" /\ alloc'[q].owner = req[q].gwport
        /\ \A x \in Requests \ {q} : alloc'[x] = alloc[x]
        /\ UNCHANGED req
    BY <1>7, FindNoneOwner DEF NatFindNone, GwIpFindNone, natVars
  <2>2. /\ req[q].op \in {"planned", "gwip"}
        /\ req[q].op = "planned" => req[q].ip = 0 /\ req[q].plus = 0
    BY <1>7 DEF NatFindNone, GwIpFindNone
  <2>3. QED
    BY <2>1, <2>2, OwnerStays DEF OwnerInv, OwnerOK, SamePlan, SameAlloc
<1>8. ASSUME NEW q \in Requests, UNCHANGED alloc, alloc[q].phase = "none",
             \A x \in Requests \ {q} : SamePlan(x)
      PROVE  OwnerInv'
  <2>1. \A x \in Requests : Stays(x)
    BY <1>8 DEF SameAlloc
  <2>2. QED
    BY <1>1, <2>1
<1>9. ASSUME NEW q \in Requests,
             \/ \E r \in Routers, e \in ExtPorts, t \in Targets : NatCount(q, r, e, t)
             \/ NatLook(q) \/ NatPlan(q)
             \/ \E r \in Routers : GwIpLook(q, r) \/ RemoveLook(q, r) \/ ClearGateway(q, r)
      PROVE  OwnerInv'
  <2>1. UNCHANGED alloc
    BY <1>9 DEF NatCount, NatLook, NatPlan, GwIpLook, RemoveLook, ClearGateway, poolVars
  <2>2. alloc[q].phase = "none"
    BY <1>9, NoAllocOK DEF NatCount, NatLook, NatPlan, GwIpLook, RemoveLook, ClearGateway,
           Idle, OwnerInv, OwnerOK
  <2>3. \A x \in Requests \ {q} : SamePlan(x)
    <3>1. ASSUME NEW r \in Routers, ClearGateway(q, r)
          PROVE  \A x \in Requests \ {q} : SamePlan(x)
      BY <3>1, ClearGatewayReads, EndedOK DEF Kept, SamePlan
    <3>2. QED
      BY <1>9, <3>1 DEF NatCount, NatLook, NatPlan, GwIpLook, RemoveLook, SamePlan, NatTypeOK
  <2>4. QED
    BY <1>8, <2>1, <2>2, <2>3
<1>10. ASSUME NEW r \in Routers, DeleteRouter(r) PROVE OwnerInv'
  <2>1. \A x \in Requests : Stays(x)
    BY <1>10 DEF DeleteRouter, SameAlloc, SamePlan
  <2>2. QED
    BY <1>1, <2>1
<1>11. ASSUME UNCHANGED <<alloc, req>> PROVE OwnerInv'
  <2>1. \A x \in Requests : Stays(x)
    BY <1>11 DEF SameAlloc, SamePlan
  <2>2. QED
    BY <1>1, <2>1
<1>12. QED
  BY <1>2, <1>3, <1>5, <1>6, <1>7, <1>9, <1>10, <1>11, PortStepOwners
     DEF Next, DeleteNat, UpdateNat, SetGateway, poolVars

LEMMA ShapeNext ==
  ASSUME Shape, [Next]_vars
  PROVE  Shape'
<1>1. CASE Next
  BY <1>1, PoolNext, GateNext, OwnerNext DEF Shape, PoolKept, GateOK
<1>2. CASE UNCHANGED vars
  BY <1>2 DEF vars, poolVars, natVars, Shape, PoolTypeOK, NatTypeOK, ReqInv, ReqOK,
             HasPort, ClearOnce, GwInv, OwnerInv, OwnerOK
<1>3. QED
  BY <1>1, <1>2

LEMMA ShapeInit == GInit => Shape
<1> SUFFICES ASSUME GInit PROVE Shape
  OBVIOUS
<1>1. pools \in PoolSets /\ ranges = Available(pools, {})
  BY DEF GInit, Init
<1>2. ranges \subseteq Pairs
  BY <1>1, AvailableSound
<1>3. PoolTypeOK /\ ports \subseteq Ports
  BY <1>1, <1>2, NoAllocOK DEF GInit, Init, PoolTypeOK
<1>4. NatTypeOK
  BY NoReqOK, NoNatOK DEF GInit, NatTypeOK
<1>5. ReqInv /\ GwInv
  BY NoReqOK DEF GInit, ReqInv, ReqOK, HasPort, ClearOnce, GwInv
<1>6. OwnerInv
  BY NoAllocOK DEF GInit, Init, OwnerInv, OwnerOK
<1>7. QED
  BY <1>3, <1>4, <1>5, <1>6 DEF Shape

\* Every field of every row has its type, whatever the requests do.
THEOREM TypeCorrect == Spec => []GTypeOK
<1>1. Spec => []Shape
  BY ShapeInit, ShapeNext, PTL DEF Spec
<1>2. Shape => GTypeOK
  BY GTypeSplit DEF Shape
<1>3. QED
  BY <1>1, <1>2, PTL

-----------------------------------------------------------------------------
(* Ranges and owners.                                                      *)

\* The ranges of the first step are sound, and no request has a view of them.
LEMMA RangesInit == GInit => RangeInv
<1> SUFFICES ASSUME GInit PROVE RangeInv
  OBVIOUS
<1>1. /\ pools \in PoolSets /\ ranges = Available(pools, {})
      /\ \A a \in Addresses : used[a] = None
      /\ \A q \in Requests : alloc[q] = NoAlloc
  BY DEF GInit, Init
<1>2. Sound(ranges, {}, pools) /\ InUse = {}
  BY <1>1, AvailableSound DEF InUse
<1>3. \A q \in Requests : ViewOK(q)
  BY <1>1, NoAllocOK DEF ViewOK
<1>4. QED
  BY <1>2, <1>3 DEF RangeInv

\* Until a request commits what it made of an old view, the ranges lie in
\* the pools, share no address and hold no address in use.
THEOREM RangesSound == Spec => []RangesFree
<1>1. Spec => [](Shape /\ RangeInv)
  <2>1. Shape /\ RangeInv /\ [Next]_vars => Shape' /\ RangeInv'
    <3> SUFFICES ASSUME Shape, RangeInv, [Next]_vars PROVE Shape' /\ RangeInv'
      OBVIOUS
    <3>1. CASE Next
      BY <3>1, PoolNext, ShapeNext DEF PoolKept
    <3>2. CASE UNCHANGED vars
      BY <3>2, ShapeNext, SameKeeps DEF vars, Shape, PoolKept
    <3>3. QED
      BY <3>1, <3>2
  <2>2. QED
    BY <2>1, ShapeInit, RangesInit, PTL DEF Spec
<1>2. Shape /\ RangeInv => RangesFree
  BY DEF RangeInv, RangesFree, Sound, Shape, PoolTypeOK
<1>3. QED
  BY <1>1, <1>2, PTL

-----------------------------------------------------------------------------
(* Refusals.                                                               *)

\* An allocation that commits takes an address and gives none back.
LEMMA TakesLocked ==
  ASSUME PoolTypeOK, LockInv, NEW q \in Requests, NEW o \in Owners, NEW a \in Addresses,
         Taken(q, o, a)
  PROVE  LockInv'
<1>1. \A b \in Addresses : used[b] # None => used'[b] # None
  BY TakenKeeps
<1>2. InUse \subseteq InUse' /\ alloc' = Crossed(q)
  BY <1>1 DEF InUse, Taken
<1>3. QED
  BY <1>2, CommitLocked

\* A request that found no range locks nothing yet.
LEMMA WaitsLocked ==
  ASSUME PoolTypeOK, LockInv, NEW q \in Requests, NEW o,
         FindNone(q, o) \/ \E a \in Addresses : SpecificLook(q, o, a)
  PROVE  LockInv'
<1>1. alloc'[q].phase # "rebuild" /\ UNCHANGED used
  BY DEF FindNone, SpecificLook, NoAlloc, PoolTypeOK
<1>2. \A x \in Requests \ {q} : alloc'[x] = alloc[x]
  BY DEF FindNone, SpecificLook, PoolTypeOK
<1>3. QED
  BY <1>1, <1>2, LocksKept DEF HoldsLock, InUse

LEMMA PortStepLocked ==
  ASSUME Shape, LockInv, NEW q \in Requests, PortStep(q)
  PROVE  LockInv'
<1> USE DEF Shape
<1>1. ASSUME NEW p \in Ports, CreatePort(q, p) PROVE LockInv'
  <2>1. PICK a \in Addresses : TakeFirst(q, p, a) \/ SpecificTake(q, p, a)
    BY <1>1 DEF CreatePort
  <2>2. p \in Owners
    BY PortsAssumption
  <2>3. QED
    BY <2>1, <2>2, TakeFirstKeeps, SpecificTakeKeeps, TakesLocked
<1>2. ASSUME NEW p \in Ports, CreatePortWaits(q, p) PROVE LockInv'
  BY <1>2, WaitsLocked DEF CreatePortWaits
<1>3. ASSUME CreatePortLate(q) PROVE LockInv'
  <2>1. alloc[q].owner \in Owners
    BY <1>3, PortsAssumption DEF CreatePortLate
  <2>2. CASE SpecificStore(q)
    <3>1. alloc[q].addr \in Addresses
      BY <2>2 DEF SpecificStore, OwnerInv, OwnerOK
    <3>2. QED
      BY <2>1, <2>2, <3>1, SpecificStoreKeeps, TakesLocked
  <2>3. ASSUME NEW a \in Addresses, RebuildTake(q, a) PROVE LockInv'
    BY <2>1, <2>3, RebuildTakeKeeps, TakesLocked
  <2>4. QED
    BY <1>3, <2>2, <2>3 DEF CreatePortLate
<1>4. ASSUME NEW ps \in PoolSets, UpdatePools(q, ps) PROVE LockInv'
  BY <1>4, CommitLocked DEF UpdatePools, InUse
<1>5. ASSUME NEW p \in Ports, DeletePort(q, p) PROVE LockInv'
  <2>1. /\ used' = Released(AddressesOf(p)) /\ UNCHANGED alloc
        /\ AddressesOf(p) \cap LockedByOthers(q) = {} /\ alloc[q].phase = "none"
    BY <1>5 DEF DeletePort
  <2>2. QED
    BY <2>1, ReleaseUnlocked DEF LockedByOthers, Locked
<1>6. QED
  BY <1>1, <1>2, <1>3, <1>4, <1>5 DEF PortStep

\* No step gives back an address that a rebuild has read.
LEMMA LockNext ==
  ASSUME Shape, LockInv, [Next]_vars
  PROVE  LockInv'
<1> USE DEF Shape
<1>1. ASSUME NEW q \in Requests, Refuse(q) \/ Fail(q) PROVE LockInv'
  <2>1. /\ UNCHANGED used
        /\ \A x \in Requests : alloc'[x] = alloc[x] \/ alloc'[x] = NoAlloc
    BY <1>1 DEF Refuse, Exhausted, Fail, PoolTypeOK
  <2>2. QED
    BY <2>1, LocksKept, NoAllocOK DEF HoldsLock, InUse
<1>2. ASSUME NEW q \in Requests, NatTake(q) \/ GwIpTake(q) PROVE LockInv'
  <2>1. PICK a \in Addresses : TakeFirst(q, req[q].gwport, a) \/ RebuildTake(q, a)
    BY <1>2 DEF NatTake, GwIpTake
  <2>2. HasPort(q) /\ UNCHANGED ports
    BY <1>2 DEF NatTake, GwIpTake, HasPort
  <2>3. QED
    BY <2>1, <2>2, GwTakes, PortKnown, TakesLocked
<1>3. ASSUME NEW q \in Requests, NatFindNone(q) \/ GwIpFindNone(q) PROVE LockInv'
  BY <1>3, WaitsLocked DEF NatFindNone, GwIpFindNone
<1>4. ASSUME NEW q \in Requests, RemoveGatewayIp(q) \/ ClearDeletes(q) PROVE LockInv'
  <2>1. PICK freed : used' = Released(freed) /\ freed \cap LockedByOthers(q) = {}
    BY <1>4 DEF RemoveGatewayIp, ClearDeletes
  <2>2. UNCHANGED alloc /\ alloc[q].phase = "none"
    BY <1>4 DEF RemoveGatewayIp, ClearDeletes, OwnerInv, OwnerOK
  <2>3. \A x \in Requests : freed \cap Locked(x) = {}
    BY <2>1, <2>2 DEF LockedByOthers, Locked
  <2>4. QED
    BY <2>1, <2>2, <2>3, ReleaseUnlocked
<1>5. ASSUME NEW r \in Routers, DeleteRouter(r) PROVE LockInv'
  <2>1. PICK freed : /\ used' = Released(freed)
                     /\ freed \cap UNION {Locked(x) : x \in Requests} = {}
    BY <1>5 DEF DeleteRouter
  <2>2. \A x \in Requests : alloc'[x] = alloc[x] \/ alloc'[x] = NoAlloc
    BY <1>5 DEF DeleteRouter
  <2>3. QED
    BY <2>1, <2>2, ReleaseUnlocked
<1>6. ASSUME UNCHANGED <<alloc, used>> PROVE LockInv'
  BY <1>6 DEF LockInv, Locked, InUse
<1>7. QED
  BY <1>1, <1>2, <1>3, <1>4, <1>5, <1>6, PortStepLocked, ReadLocked
     DEF Next, NatCount, NatLook, NatPlan, NatReuse, NatAdopt, GwIpLook, RemoveLook,
         ClearGateway, DeleteNat, UpdateNat, SetGateway, vars, poolVars

\* A request is told that there is no address only while every address of the
\* pools is in use: the ranges of a rebuild miss none that is free.
THEOREM RefusalsHonest == Spec => HonestRefusal
<1>1. GInit => LockInv
  BY NoAllocOK DEF GInit, Init, LockInv, Locked
<1>2. LockInv /\ Shape /\ [Next]_vars => LockInv'
  BY LockNext
<1>3. Shape /\ LockInv /\ [Next]_vars =>
        [\A q \in Requests : Exhausted(q) => \A p \in pools : Span(p) \subseteq InUse]_poolVars
  BY RefusedHonestly DEF Shape
<1>4. QED
  BY <1>1, <1>2, <1>3, ShapeInit, ShapeNext, PTL DEF Spec, HonestRefusal

-----------------------------------------------------------------------------
(* Views, addresses and mappings.                                          *)

Reads(q) == req[q].op \in {"looked", "planned", "gwip", "remove"}

\* What a request has read still stands, unless it was told otherwise.
ViewOf(q) ==
    Reads(q) /\ ~req[q].cut =>
        /\ gw[req[q].router] = req[q].gwport
        /\ req[q].ip # 0 => used[req[q].ip] = req[q].gwport
        /\ req[q].op = "planned" /\ req[q].plus # 0 => plus[req[q].router] = req[q].plus

\* The address of a router belongs to its gateway port ...
PlusOK(r) ==
    r \notin tainted /\ plus[r] # 0 => gw[r] # None /\ used[plus[r]] = gw[r]

\* ... and is the one of its mappings.
NatOK(n) ==
    Exists(n) /\ nats[n].router \notin tainted =>
        /\ plus[nats[n].router] # 0
        /\ nats[n].ip = plus[nats[n].router]
        /\ nats[n].gwport = gw[nats[n].router]

Served == /\ \A q \in Requests : ViewOf(q)
          /\ \A r \in Routers : PlusOK(r)
          /\ \A n \in NatIds : NatOK(n)

LEMMA ReadsPort ==
  ASSUME Shape, NEW q \in Requests, Reads(q)
  PROVE  /\ HasPort(q) /\ req[q].gwport \in GwPorts /\ req[q].router \in Routers
         /\ req[q].gwport # None
  BY PortKnown, GwPortsAssumption, PortsAssumption DEF Reads, HasPort

\* Two routers do not have the same gateway port.
LEMMA GatewayOfOne ==
  ASSUME Shape, NEW r \in Routers, NEW s \in Routers, gw[r] = gw[s], gw[r] # None
  PROVE  r = s
  BY DEF Shape, GwInv

LEMMA ViewStays ==
  ASSUME NEW x, ViewOf(x),
         \/ req'[x] = NoReq
         \/ /\ req'[x].op = req[x].op /\ req'[x].router = req[x].router
            /\ req'[x].gwport = req[x].gwport /\ req'[x].ip = req[x].ip
            /\ req'[x].plus = req[x].plus
            /\ req'[x].op # "none" /\ ~req'[x].cut =>
                 /\ ~req[x].cut
                 /\ Reads(x) => gw'[req[x].router] = gw[req[x].router]
                 /\ Reads(x) /\ req[x].ip # 0 => used'[req[x].ip] = used[req[x].ip]
                 /\ Reads(x) /\ req[x].op = "planned" /\ req[x].plus # 0
                    => plus'[req[x].router] = plus[req[x].router]
  PROVE  ViewOf(x)'
  BY NoReqOK DEF ViewOf, Reads

\* Requests that end, with what they tell the others.
LEMMA ViewsKept ==
  ASSUME Shape, Served, NEW q \in Requests, NEW C, NEW D, req' = Ended(q, C, D),
         \A x \in Requests \ (C \cup {q}) : Reads(x) /\ ~req[x].cut =>
            /\ gw'[req[x].router] = gw[req[x].router]
            /\ req[x].ip # 0 => used'[req[x].ip] = used[req[x].ip]
            /\ req[x].op = "planned" /\ req[x].plus # 0
               => plus'[req[x].router] = plus[req[x].router]
  PROVE  \A x \in Requests : ViewOf(x)'
<1> SUFFICES ASSUME NEW x \in Requests PROVE ViewOf(x)'
  OBVIOUS
<1>1. CASE x = q
  BY <1>1, EndedOK, ViewStays DEF Shape, Served
<1>2. CASE x # q
  <2>1. Kept(x, req'[x], C, D)
    BY <1>2, EndedOK DEF Shape
  <2>2. QED
    BY <1>2, <2>1, ViewStays DEF Kept, Served
<1>3. QED
  BY <1>1, <1>2

LEMMA QuietServed ==
  ASSUME Shape, Served, NEW q \in Requests, QuietStep(q)
  PROVE  Served'
<1>1. /\ UNCHANGED <<gw, plus, nats, req, tainted>>
      /\ \A a \in Addresses : used[a] \in GwPorts => used'[a] = used[a]
  BY QuietSteps DEF NatQuiet
<1>2. ASSUME NEW x \in Requests PROVE ViewOf(x)'
  <2>1. ViewOf(x) /\ req[x].ip \in Addresses \cup {0}
    BY Fields DEF Served, Shape
  <2>2. QED
    BY <1>1, <2>1, ReadsPort DEF ViewOf, Reads
<1>3. ASSUME NEW r \in Routers PROVE PlusOK(r)'
  BY <1>1 DEF Served, PlusOK, Shape, NatTypeOK
<1>4. ASSUME NEW n \in NatIds PROVE NatOK(n)'
  BY <1>1 DEF Served, NatOK, Exists
<1>5. QED
  BY <1>2, <1>3, <1>4 DEF Served

\* A request reads: the others keep their views.
LEMMA ReadsServed ==
  ASSUME Shape, Served, NEW q \in Requests, NEW c, OnlyReq(q, c),
         UNCHANGED <<used, gw, nats, plus, tainted>>,
         c.op # "counted" /\ ~c.cut =>
            /\ gw[c.router] = c.gwport
            /\ c.ip # 0 => used[c.ip] = c.gwport
            /\ c.op = "planned" /\ c.plus # 0 => plus[c.router] = c.plus
  PROVE  Served'
<1>1. req'[q] = c /\ \A x \in Requests \ {q} : req'[x] = req[x]
  BY DEF OnlyReq, Shape, NatTypeOK
<1>2. ASSUME NEW x \in Requests, x # q PROVE ViewOf(x)'
  BY <1>1, <1>2, ViewStays DEF Served
<1>3. ViewOf(q)'
  BY <1>1 DEF ViewOf, Reads
<1>4. (\A r \in Routers : PlusOK(r)') /\ \A n \in NatIds : NatOK(n)'
  BY DEF Served, PlusOK, NatOK, Exists
<1>5. QED
  BY <1>2, <1>3, <1>4 DEF Served

LEMMA ReadingServed ==
  ASSUME Shape, Served, NEW q \in Requests,
         \/ \E r \in Routers, e \in ExtPorts, t \in Targets : NatCount(q, r, e, t)
         \/ NatLook(q) \/ NatPlan(q)
         \/ \E r \in Routers : GwIpLook(q, r) \/ RemoveLook(q, r)
  PROVE  Served'
<1> USE DEF Shape
<1>1. UNCHANGED <<used, gw, nats, plus, tainted>>
  BY DEF NatCount, NatLook, NatPlan, GwIpLook, RemoveLook, poolVars
<1>2. ASSUME NEW r \in Routers, NEW e \in ExtPorts, NEW t \in Targets, NatCount(q, r, e, t)
      PROVE  Served'
  BY <1>1, <1>2, NatCountReads, ReadsServed
<1>3. ASSUME NEW g, NEW i \in FirstIps(g) PROVE i # 0 => used[i] = g
  BY DEF FirstIps, AddressesOf
<1>4. CASE NatLook(q)
  <2>1. req[q].router \in Routers
    BY <1>4, Fields DEF NatLook, ReqInv, ReqOK
  <2>2. PICK c : /\ OnlyReq(q, c) /\ c.op = "looked"
                 /\ c.router = req[q].router /\ c.gwport = gw[req[q].router]
                 /\ c.ip \in FirstIps(c.gwport)
    BY <1>4, <2>1, NatLookReads
  <2>3. QED
    BY <1>1, <1>3, <2>2, ReadsServed
<1>5. CASE NatPlan(q)
  <2>1. req[q].router \in Routers /\ Reads(q)
    BY <1>5, ReadsPort DEF NatPlan, Reads
  <2>2. PICK c : /\ OnlyReq(q, c) /\ c.op = "planned"
                 /\ c.router = req[q].router /\ c.gwport = req[q].gwport
                 /\ c.ip = req[q].ip /\ c.plus = plus[req[q].router]
                 /\ c.cut = req[q].cut
    BY <1>5, <2>1, NatPlanReads
  <2>3. ~c.cut => /\ gw[c.router] = c.gwport
                  /\ c.ip # 0 => used[c.ip] = c.gwport
    BY <2>1, <2>2 DEF Served, ViewOf
  <2>4. QED
    BY <1>1, <2>2, <2>3, ReadsServed
<1>6. ASSUME NEW r \in Routers, GwIpLook(q, r) PROVE Served'
  <2>1. PICK c : /\ OnlyReq(q, c) /\ c.op = "gwip" /\ c.router = r
                 /\ c.gwport = gw[r] /\ c.ip = 0
    BY <1>6, GwIpLookReads
  <2>2. QED
    BY <1>1, <2>1, ReadsServed
<1>7. ASSUME NEW r \in Routers, RemoveLook(q, r) PROVE Served'
  <2>1. PICK c : /\ OnlyReq(q, c) /\ c.op = "remove" /\ c.router = r
                 /\ c.gwport = gw[r] /\ c.ip \in FirstIps(gw[r])
    BY <1>7, RemoveLookReads
  <2>2. QED
    BY <1>1, <1>3, <2>1, ReadsServed
<1>8. QED
  BY <1>2, <1>4, <1>5, <1>6, <1>7

\* A mapping is added, and perhaps the address and the row of the router.
LEMMA MappingServed ==
  ASSUME Shape, Served, NEW q \in Requests, Reads(q), NEW i \in Addresses, AddNat(q, i),
         NEW r, r = req[q].router,
         \A a \in Addresses : used[a] # None => used'[a] = used[a],
         \A s \in Routers : s # r \/ plus[r] # 0 => plus'[s] = plus[s],
         ~req[q].cut => plus'[r] = i,
         ~req[q].cut /\ r \notin tainted => used'[i] = req[q].gwport
  PROVE  Served'
<1> USE DEF Shape
<1>1. r \in Routers /\ req[q].gwport \in GwPorts /\ req[q].gwport # None
  BY ReadsPort
<1>2. /\ \E C, D : req' = Ended(q, C, D)
      /\ tainted' = IF req[q].cut THEN tainted \cup {r} ELSE tainted
      /\ UNCHANGED gw
  BY DEF AddNat
<1>3. ~req[q].cut => gw[r] = req[q].gwport
  BY DEF Served, ViewOf
<1>4. \A x \in Requests : ViewOf(x)'
  <2>1. PICK C, D : req' = Ended(q, C, D)
    BY <1>2
  <2>2. ASSUME NEW x \in Requests, Reads(x), ~req[x].cut
        PROVE  /\ req[x].ip # 0 => used'[req[x].ip] = used[req[x].ip]
               /\ req[x].op = "planned" /\ req[x].plus # 0
                  => plus'[req[x].router] = plus[req[x].router]
    <3>1. ViewOf(x) /\ req[x].ip \in Addresses \cup {0}
      BY Fields DEF Served
    <3>2. req[x].gwport # None /\ req[x].router \in Routers
      BY <2>2, ReadsPort
    <3>3. QED
      BY <2>2, <3>1, <3>2 DEF ViewOf
  <2>3. QED
    BY <1>2, <2>1, <2>2, ViewsKept
<1>5. ASSUME NEW s \in Routers PROVE PlusOK(s)'
  <2>1. CASE s # r \/ plus[r] # 0
    <3>1. s \notin tainted' => s \notin tainted
      BY <1>2
    <3>2. plus'[s] = plus[s] /\ plus[s] \in Addresses \cup {0}
      BY <2>1 DEF NatTypeOK
    <3>3. QED
      BY <1>2, <3>1, <3>2 DEF Served, PlusOK
  <2>2. CASE s = r /\ plus[r] = 0
    BY <1>1, <1>2, <1>3, <2>2 DEF PlusOK
  <2>3. QED
    BY <2>1, <2>2
<1>6. ASSUME NEW m \in NatIds PROVE NatOK(m)'
  <2>1. PICK n \in NatIds, c \in Nats :
            /\ ~Exists(n) /\ nats' = [nats EXCEPT ![n] = c]
            /\ c.router = r /\ c.gwport = req[q].gwport /\ c.ip = i
    BY AddNatWrites
  <2>2. CASE m = n
    <3>1. nats'[m] = c
      BY <2>1, <2>2 DEF NatTypeOK
    <3>2. i # 0
      BY LastAssumption DEF Addresses
    <3>3. QED
      BY <1>2, <1>3, <2>1, <3>1, <3>2 DEF NatOK
  <2>3. CASE m # n
    <3>1. nats'[m] = nats[m]
      BY <2>1, <2>3 DEF NatTypeOK
    <3>2. Exists(m) => nats[m].router \in Routers
      BY Fields DEF Exists
    <3>3. nats[m].router \notin tainted' => nats[m].router \notin tainted
      BY <1>2
    <3>4. QED
      BY <1>2, <3>1, <3>2, <3>3 DEF Served, NatOK, Exists
  <2>4. QED
    BY <2>2, <2>3
<1>7. QED
  BY <1>4, <1>5, <1>6 DEF Served

LEMMA WritingServed ==
  ASSUME Shape, Served, NEW q \in Requests,
         NatReuse(q) \/ NatAdopt(q) \/ NatTake(q) \/ GwIpTake(q)
  PROVE  Served'
<1> USE DEF Shape
<1> DEFINE r == req[q].router
           g == req[q].gwport
<1>1. Reads(q) /\ HasPort(q) /\ r \in Routers /\ g \in GwPorts
  BY ReadsPort DEF Reads, NatReuse, NatAdopt, NatTake, GwIpTake
<1>2. ~req[q].cut => ViewOf(q)
  BY DEF Served
<1>3. CASE NatReuse(q)
  <2>1. /\ req[q].plus \in Addresses /\ AddNat(q, req[q].plus)
        /\ req[q].op = "planned" /\ req[q].plus # 0 /\ UNCHANGED <<used, plus>>
    BY <1>3, Fields DEF NatReuse, poolVars
  <2>2. ~req[q].cut => plus[r] = req[q].plus /\ gw[r] = g
    BY <1>1, <1>2, <2>1 DEF ViewOf
  <2>3. ~req[q].cut /\ r \notin tainted => used[req[q].plus] = g
    BY <1>1, <2>1, <2>2 DEF Served, PlusOK
  <2>4. QED
    BY <1>1, <2>1, <2>2, <2>3, MappingServed
<1>4. CASE NatAdopt(q)
  <2>1. /\ req[q].ip \in Addresses /\ AddNat(q, req[q].ip) /\ AddPlus(q, req[q].ip)
        /\ req[q].ip # 0 /\ UNCHANGED used
    BY <1>4, Fields DEF NatAdopt, poolVars
  <2>2. ~req[q].cut => used[req[q].ip] = g
    BY <1>1, <1>2, <2>1 DEF ViewOf
  <2>3. plus[r] = 0 /\ plus'[r] = req[q].ip /\ \A s \in Routers \ {r} : plus'[s] = plus[s]
    BY <1>1, <2>1 DEF AddPlus, NatTypeOK
  <2>4. QED
    BY <1>1, <2>1, <2>2, <2>3, MappingServed
<1>5. CASE NatTake(q)
  <2>1. PICK a \in Addresses : /\ TakeFirst(q, g, a) \/ RebuildTake(q, a)
                               /\ AddPlus(q, a) /\ AddNat(q, a)
    BY <1>5 DEF NatTake
  <2>2. Taken(q, g, a)
    BY <1>1, <1>5, <2>1, GwTakes DEF NatTake
  <2>3. used'[a] = g /\ \A b \in Addresses : used[b] # None => used'[b] = used[b]
    BY <1>1, <2>2, TakenKeeps, GwPortsAssumption
  <2>4. plus[r] = 0 /\ plus'[r] = a /\ \A s \in Routers \ {r} : plus'[s] = plus[s]
    BY <1>1, <2>1 DEF AddPlus, NatTypeOK
  <2>5. QED
    BY <1>1, <2>1, <2>3, <2>4, MappingServed
<1>6. CASE GwIpTake(q)
  <2>1. PICK a \in Addresses : TakeFirst(q, g, a) \/ RebuildTake(q, a)
    BY <1>6 DEF GwIpTake
  <2>2. UNCHANGED <<ports, gw, nats, plus, tainted>>
    BY <1>6 DEF GwIpTake
  <2>3. \A b \in Addresses : used[b] # None => used'[b] = used[b]
    BY <1>1, <2>1, <2>2, GwTakes, TakenKeeps, GwPortsAssumption
  <2>4. \A x \in Requests : ViewOf(x)'
    <3>1. PICK C, D : req' = Ended(q, C, D)
      BY <1>6 DEF GwIpTake
    <3>2. ASSUME NEW x \in Requests, Reads(x), ~req[x].cut, req[x].ip # 0
          PROVE  used'[req[x].ip] = used[req[x].ip]
      BY <2>3, <3>2, ReadsPort, Fields DEF Served, ViewOf
    <3>3. QED
      BY <2>2, <3>1, <3>2, ViewsKept
  <2>5. ASSUME NEW s \in Routers PROVE PlusOK(s)'
    BY <2>2, <2>3 DEF Served, PlusOK, NatTypeOK
  <2>6. ASSUME NEW n \in NatIds PROVE NatOK(n)'
    BY <2>2 DEF Served, NatOK, Exists
  <2>7. QED
    BY <2>4, <2>5, <2>6 DEF Served
<1>7. QED
  BY <1>3, <1>4, <1>5, <1>6

\* What is released with a valid view belongs to the router's gateway port.
LEMMA RemoveOwn ==
  ASSUME Shape, Served, NEW q \in Requests, req[q].op = "remove", ~req[q].cut,
         req[q].router \notin tainted,
         NEW a \in {plus[req[q].router], req[q].ip} \ {0}
  PROVE  /\ a \in Addresses /\ used[a] = gw[req[q].router]
         /\ gw[req[q].router] = req[q].gwport /\ req[q].gwport \in GwPorts
<1>1. Reads(q) /\ req[q].router \in Routers /\ req[q].gwport \in GwPorts
  BY ReadsPort DEF Reads
<1>2. ViewOf(q) /\ PlusOK(req[q].router)
  BY <1>1 DEF Served
<1>3. a \in Addresses
  BY <1>1, Fields DEF Shape, NatTypeOK
<1>4. QED
  BY <1>1, <1>2, <1>3 DEF ViewOf, PlusOK

LEMMA RemoveServed ==
  ASSUME Shape, Served, NEW q \in Requests, RemoveGatewayIp(q)
  PROVE  Served'
<1> USE DEF Shape
<1> DEFINE r == req[q].router
           freed == {plus[r], req[q].ip} \ {0}
           old == req[q].cut \/ r \in tainted
           C == On(r) \cup {x \in Requests : req[x].ip \in freed \/ req[x].plus \in freed}
<1>1. /\ req[q].op = "remove"
      /\ nats' = NatsWithout({n \in NatIds : nats[n].router = r})
      /\ plus' = PlusWithout(r) /\ used' = Released(freed) /\ req' = Ended(q, C, {})
      /\ tainted' = (tainted \ {r}) \cup
                    (IF old THEN {s \in Routers \ {r} : plus[s] \in freed} ELSE {})
      /\ UNCHANGED gw
  BY DEF RemoveGatewayIp
<1>2. r \in Routers
  BY <1>1, ReadsPort DEF Reads
<1>3. \A s \in Routers : plus'[s] = IF s = r THEN 0 ELSE plus[s]
  BY <1>1, <1>2 DEF PlusWithout, NatTypeOK
<1>4. \A a \in Addresses : a \notin freed => used'[a] = used[a]
  BY <1>1 DEF Released
<1>5. old => \A s \in Routers \ {r} : plus[s] \in freed => s \in tainted'
  BY <1>1
<1>6. ~old => \A a \in freed : used[a] = gw[r] /\ gw[r] # None
  BY <1>1, RemoveOwn, GwPortsAssumption, PortsAssumption
<1>7. \A s \in Routers \ {r} : s \in tainted => s \in tainted'
  BY <1>1
<1>8. \A x \in Requests : ViewOf(x)'
  <2>1. ASSUME NEW x \in Requests, x \notin C, Reads(x)
        PROVE  /\ req[x].router # r /\ req[x].router \in Routers
               /\ req[x].ip \notin freed /\ req[x].ip \in Addresses \cup {0}
    BY <2>1, ReadsPort, Fields DEF On
  <2> HIDE DEF C, freed, old
  <2>2. QED
    BY <1>1, <1>3, <1>4, <2>1, ViewsKept
<1> HIDE DEF freed, old, C
<1>9. ASSUME NEW s \in Routers PROVE PlusOK(s)'
  <2> SUFFICES ASSUME s \notin tainted', plus'[s] # 0
               PROVE  gw[s] # None /\ used'[plus[s]] = gw[s] /\ s # r
    BY <1>1, <1>3 DEF PlusOK
  <2>1. s # r /\ plus[s] # 0 /\ plus[s] \in Addresses
    BY <1>3 DEF NatTypeOK
  <2>2. gw[s] # None /\ used[plus[s]] = gw[s]
    BY <1>7, <2>1 DEF Served, PlusOK
  <2>3. plus[s] \notin freed
    <3>1. CASE old
      BY <1>5, <2>1, <3>1
    <3>2. CASE ~old
      BY <1>2, <1>6, <2>1, <2>2, <3>2, GatewayOfOne
    <3>3. QED
      BY <3>1, <3>2
  <2>4. QED
    BY <1>4, <2>1, <2>2, <2>3
<1>10. ASSUME NEW n \in NatIds PROVE NatOK(n)'
  <2>1. CASE nats[n].router = r
    <3>1. nats'[n] = NoNat
      BY <1>1, <2>1, NatsWithoutOK
    <3>2. QED
      BY <3>1, NoNatOK DEF NatOK, Exists
  <2>2. CASE nats[n].router # r
    <3>1. nats'[n] = nats[n]
      BY <1>1, <2>2, NatsWithoutOK
    <3>2. nats[n].router \in Routers \cup {None}
      BY Fields
    <3>3. UNCHANGED gw
      BY <1>1
    <3>4. NatOK(n)
      BY DEF Served
    <3>5. QED
      BY <1>3, <1>7, <2>2, <3>1, <3>2, <3>3, <3>4 DEF NatOK, Exists
  <2>3. QED
    BY <2>1, <2>2
<1>11. QED
  BY <1>8, <1>9, <1>10 DEF Served

LEMMA SetGatewayServed ==
  ASSUME Shape, Served, NEW r \in Routers, NEW g \in GwPorts, SetGateway(r, g)
  PROVE  Served'
<1> USE DEF Shape
<1>1. /\ gw[r] = None /\ UNCHANGED <<used, nats, plus, req, tainted>>
      /\ \A s \in Routers : gw[s] # None => gw'[s] = gw[s]
  BY DEF SetGateway, poolVars, NatTypeOK
<1>2. ASSUME NEW x \in Requests PROVE ViewOf(x)'
  <2>1. Reads(x) => req[x].gwport # None /\ req[x].router \in Routers
    BY ReadsPort
  <2>2. QED
    BY <1>1, <2>1 DEF Served, ViewOf, Reads
<1>3. ASSUME NEW s \in Routers PROVE PlusOK(s)'
  BY <1>1 DEF Served, PlusOK
<1>4. ASSUME NEW n \in NatIds PROVE NatOK(n)'
  <2>1. Exists(n) => nats[n].router \in Routers
    BY Fields DEF Exists
  <2>2. QED
    BY <1>1, <2>1 DEF Served, NatOK, PlusOK, Exists
<1>5. QED
  BY <1>2, <1>3, <1>4 DEF Served

LEMMA ClearGatewayServed ==
  ASSUME Shape, Served, NEW q \in Requests, NEW r \in Routers, ClearGateway(q, r)
  PROVE  Served'
<1> USE DEF Shape
<1>1. /\ gw' = [gw EXCEPT ![r] = None]
      /\ tainted' = IF plus[r] = 0 THEN tainted ELSE tainted \cup {r}
      /\ UNCHANGED <<used, nats, plus>>
  BY DEF ClearGateway, poolVars
<1>2. \A s \in Routers \ {r} : gw'[s] = gw[s]
  BY <1>1 DEF NatTypeOK
<1>3. ASSUME NEW x \in Requests PROVE ViewOf(x)'
  <2>1. PICK c \in Reqs : /\ req' = [Ended(q, On(r), {}) EXCEPT ![q] = c]
                          /\ c.op = "clear"
    BY ClearGatewayReads
  <2>2. CASE x = q
    <3>1. req'[q] = c
      BY <2>1, EndedOK
    <3>2. QED
      BY <2>1, <2>2, <3>1 DEF ViewOf, Reads
  <2>3. CASE x # q
    <3>1. Kept(x, req'[x], On(r), {})
      BY <2>1, <2>3, EndedOK
    <3>2. Reads(x) /\ x \notin On(r) => req[x].router \in Routers \ {r}
      BY ReadsPort DEF On
    <3>3. QED
      BY <1>1, <1>2, <3>1, <3>2, ViewStays DEF Kept, Served
  <2>4. QED
    BY <2>2, <2>3
<1>4. ASSUME NEW s \in Routers PROVE PlusOK(s)'
  BY <1>1, <1>2 DEF Served, PlusOK
<1>5. ASSUME NEW n \in NatIds PROVE NatOK(n)'
  <2>1. Exists(n) => nats[n].router \in Routers
    BY Fields DEF Exists
  <2>2. QED
    BY <1>1, <1>2, <2>1 DEF Served, NatOK, Exists
<1>6. QED
  BY <1>3, <1>4, <1>5 DEF Served

LEMMA ClearDeletesServed ==
  ASSUME Shape, Served, NEW q \in Requests, ClearDeletes(q)
  PROVE  Served'
<1> USE DEF Shape
<1> DEFINE g == req[q].gwport
<1>1. /\ req[q].op = "clear" /\ used' = Released(AddressesOf(g))
      /\ nats' = NatsWithout({n \in NatIds : nats[n].gwport = g})
      /\ req' = Ended(q, On(req[q].router), {})
      /\ UNCHANGED <<gw, plus, tainted>>
  BY DEF ClearDeletes
<1>2. g \in GwPorts /\ rport[g] = req[q].router /\ gw[req[q].router] # g
  BY <1>1, PortKnown DEF HasPort, ReqInv, ReqOK
<1>3. \A s \in Routers : gw[s] # g
  BY <1>2, GwPortsAssumption, PortsAssumption DEF GwInv
<1>4. \A a \in Addresses : used[a] # g => used'[a] = used[a]
  BY <1>1 DEF Released, AddressesOf
<1>5. \A x \in Requests : ViewOf(x)'
  <2>1. ASSUME NEW x \in Requests, Reads(x), ~req[x].cut, req[x].ip # 0
        PROVE  used'[req[x].ip] = used[req[x].ip]
    <3>1. req[x].ip \in Addresses /\ used[req[x].ip] = gw[req[x].router]
          /\ req[x].router \in Routers
      BY <2>1, ReadsPort, Fields DEF Served, ViewOf
    <3>2. QED
      BY <1>3, <1>4, <3>1
  <2>2. QED
    BY <1>1, <2>1, ViewsKept
<1>6. ASSUME NEW s \in Routers PROVE PlusOK(s)'
  BY <1>1, <1>3, <1>4 DEF Served, PlusOK, NatTypeOK
<1>7. ASSUME NEW n \in NatIds PROVE NatOK(n)'
  BY <1>1, NatsWithoutOK, NoNatOK DEF Served, NatOK, Exists
<1>8. QED
  BY <1>5, <1>6, <1>7 DEF Served

LEMMA DeleteRouterServed ==
  ASSUME Shape, Served, NEW r \in Routers, DeleteRouter(r)
  PROVE  Served'
<1> USE DEF Shape
<1> DEFINE gone == {g \in GwPorts : rport[g] = r}
           freed == {a \in Addresses : used[a] \in gone}
<1>1. /\ gw' = [gw EXCEPT ![r] = None] /\ used' = Released(freed)
      /\ nats' = NatsWithout({n \in NatIds : nats[n].router = r})
      /\ plus' = PlusWithout(r)
      /\ req' = [x \in Requests |-> IF x \in On(r) THEN NoReq ELSE req[x]]
      /\ tainted' = tainted \ {r}
  BY DEF DeleteRouter
<1>2. \A s \in Routers \ {r} : gw'[s] = gw[s] /\ plus'[s] = plus[s]
  BY <1>1 DEF NatTypeOK, PlusWithout
<1>3. plus'[r] = 0
  BY <1>1 DEF NatTypeOK, PlusWithout
<1>4. \A s \in Routers \ {r}, a \in Addresses :
        used[a] = gw[s] /\ gw[s] # None => used'[a] = used[a]
  BY <1>1 DEF GwInv, Released
<1>5. ASSUME NEW x \in Requests PROVE ViewOf(x)'
  <2>1. CASE req[x].router = r
    BY <1>1, <2>1, NoReqOK DEF On, ViewOf, Reads
  <2>2. CASE req[x].router # r
    <3>1. req'[x] = req[x]
      BY <1>1, <2>2 DEF On
    <3>2. Reads(x) => req[x].router \in Routers \ {r} /\ req[x].gwport # None
                      /\ req[x].ip \in Addresses \cup {0}
      BY <2>2, ReadsPort, Fields
    <3>3. QED
      BY <1>2, <1>4, <3>1, <3>2 DEF Served, ViewOf, Reads
  <2>3. QED
    BY <2>1, <2>2
<1>6. ASSUME NEW s \in Routers PROVE PlusOK(s)'
  <2>1. CASE s = r
    BY <1>3, <2>1 DEF PlusOK
  <2>2. CASE s # r
    <3>1. plus[s] \in Addresses \cup {0}
      BY DEF NatTypeOK
    <3>2. QED
      BY <1>1, <1>2, <1>4, <2>2, <3>1 DEF Served, PlusOK
  <2>3. QED
    BY <2>1, <2>2
<1>7. ASSUME NEW n \in NatIds PROVE NatOK(n)'
  <2>1. CASE nats[n].router = r
    <3>1. nats'[n] = NoNat
      BY <1>1, <2>1, NatsWithoutOK
    <3>2. QED
      BY <3>1, NoNatOK DEF NatOK, Exists
  <2>2. CASE nats[n].router # r
    <3>1. nats'[n] = nats[n] /\ nats[n].router \in Routers \cup {None}
      BY <1>1, <2>2, NatsWithoutOK, Fields
    <3>2. QED
      BY <1>1, <1>2, <2>2, <3>1 DEF Served, NatOK, Exists
  <2>3. QED
    BY <2>1, <2>2
<1>8. QED
  BY <1>5, <1>6, <1>7 DEF Served

LEMMA ServedNext ==
  ASSUME Shape, Served, [Next]_vars
  PROVE  Served'
<1> USE DEF Shape
<1>1. ASSUME NEW q \in Requests, Refuse(q) \/ Fail(q) PROVE Served'
  <2>1. /\ \A x \in Requests : req'[x] = NoReq \/ req'[x] = req[x]
        /\ UNCHANGED <<used, gw, nats, plus, tainted>>
    BY <1>1 DEF Refuse, Fail, Exhausted, NatTypeOK
  <2>2. ASSUME NEW x \in Requests PROVE ViewOf(x)'
    BY <2>1, ViewStays DEF Served
  <2>3. QED
    BY <2>1, <2>2 DEF Served, PlusOK, NatOK, Exists
<1>2. ASSUME NEW n \in NatIds,
             DeleteNat(n) \/ \E e \in ExtPorts, t \in Targets : UpdateNat(n, e, t)
      PROVE  Served'
  <2>1. UNCHANGED <<used, gw, plus, req, tainted>>
    BY <1>2 DEF DeleteNat, UpdateNat, poolVars
  <2>2. PICK c : /\ nats' = [nats EXCEPT ![n] = c]
                 /\ \/ c.router = None
                    \/ /\ c.router = nats[n].router /\ c.gwport = nats[n].gwport
                       /\ c.ip = nats[n].ip
    BY <1>2, UpdateNatWrites, NoNatOK DEF DeleteNat
  <2>3. ASSUME NEW m \in NatIds PROVE NatOK(m)'
    BY <2>1, <2>2 DEF Served, NatOK, Exists, NatTypeOK
  <2>4. QED
    BY <2>1, <2>3 DEF Served, ViewOf, Reads, PlusOK
<1>3. CASE UNCHANGED vars
  BY <1>3 DEF vars, poolVars, natVars, Served, ViewOf, Reads, PlusOK, NatOK, Exists
<1>4. QED
  BY <1>1, <1>2, <1>3, QuietServed, ReadingServed, WritingServed, RemoveServed,
     SetGatewayServed, ClearGatewayServed, ClearDeletesServed, DeleteRouterServed
     DEF Next, QuietStep

LEMMA ServedAlways == Spec => [](Shape /\ Served)
<1>1. GInit => Served
  BY NoReqOK, NoNatOK DEF GInit, Served, ViewOf, Reads, PlusOK, NatOK, Exists
<1>2. Shape /\ Served /\ [Next]_vars => Shape' /\ Served'
  BY ShapeNext, ServedNext
<1>3. QED
  BY <1>1, <1>2, ShapeInit, PTL DEF Spec

\* Traffic of a mapping goes to an address of the gateway port it was made
\* for, the one recorded for the router, whatever requests were under way.
THEOREM MappingsServed == Spec => []NatServed
<1>1. Shape /\ Served => NatServed
  <2> SUFFICES ASSUME Shape, Served, NEW n \in NatIds, Exists(n),
                      nats[n].router \notin tainted
               PROVE  used[nats[n].ip] = nats[n].gwport /\ plus[nats[n].router] = nats[n].ip
    BY DEF NatServed
  <2>1. nats[n].router \in Routers
    BY Fields DEF Exists, Shape
  <2>2. QED
    BY <2>1 DEF Served, NatOK, PlusOK
<1>2. QED
  BY <1>1, ServedAlways, PTL

-----------------------------------------------------------------------------
(* The addresses of other ports.                                           *)

\* Addresses of ports stay with them, and no port comes.
LEMMA PortsKeep ==
  ASSUME PortKept, ports' = ports, robbed \subseteq robbed',
         \A a \in Addresses : used[a] \in ports \ robbed' => used'[a] = used[a]
  PROVE  PortKept'
<1> SUFFICES ASSUME NEW p \in ports \ robbed' PROVE \E a \in Addresses : used'[a] = p
  BY DEF PortKept, AddressesOf
<1>1. PICK a \in Addresses : used[a] = p
  BY DEF PortKept, AddressesOf
<1>2. QED
  BY <1>1

\* A port comes with the address it takes.
LEMMA PortComes ==
  ASSUME Shape, PortKept, NEW q \in Requests, NEW p \in Ports, NEW a \in Addresses,
         Taken(q, p, a), ports' = ports \cup {p}, UNCHANGED robbed
  PROVE  PortKept'
<1>1. p \in Owners
  BY PortsAssumption
<1>2. used'[a] = p /\ \A b \in Addresses : used[b] # None => used'[b] = used[b]
  BY <1>1, TakenKeeps DEF Shape
<1> SUFFICES ASSUME NEW o \in ports' \ robbed PROVE \E b \in Addresses : used'[b] = o
  BY DEF PortKept, AddressesOf
<1>3. CASE o = p
  BY <1>2, <1>3
<1>4. CASE o # p
  <2>1. PICK b \in Addresses : used[b] = o
    BY <1>4 DEF PortKept, AddressesOf
  <2>2. o # None
    BY <1>4, PortsAssumption DEF Shape
  <2>3. QED
    BY <1>2, <2>1, <2>2
<1>5. QED
  BY <1>3, <1>4

LEMMA PortStepKept ==
  ASSUME Shape, PortKept, NEW q \in Requests, PortStep(q)
  PROVE  PortKept'
<1> USE DEF Shape
<1>1. ASSUME NEW p \in Ports, CreatePort(q, p), UNCHANGED natVars PROVE PortKept'
  <2>1. PICK a \in Addresses : TakeFirst(q, p, a) \/ SpecificTake(q, p, a)
    BY <1>1 DEF CreatePort
  <2>2. Taken(q, p, a)
    BY <2>1, PortsAssumption, TakeFirstKeeps, SpecificTakeKeeps
  <2>3. QED
    BY <1>1, <2>2, PortComes DEF CreatePort, natVars
<1>2. ASSUME CreatePortLate(q), UNCHANGED natVars PROVE PortKept'
  <2>1. /\ alloc[q].owner \in Ports /\ alloc[q].owner \in Owners
        /\ ports' = ports \cup {alloc[q].owner} /\ UNCHANGED robbed
    BY <1>2, PortsAssumption DEF CreatePortLate, natVars
  <2>2. CASE SpecificStore(q)
    <3>1. alloc[q].addr \in Addresses
      BY <2>2 DEF SpecificStore, OwnerInv, OwnerOK
    <3>2. QED
      BY <2>1, <2>2, <3>1, SpecificStoreKeeps, PortComes
  <2>3. ASSUME NEW a \in Addresses, RebuildTake(q, a) PROVE PortKept'
    BY <2>1, <2>3, RebuildTakeKeeps, PortComes
  <2>4. QED
    BY <1>2, <2>2, <2>3 DEF CreatePortLate
<1>3. ASSUME NEW p \in Ports, DeletePort(q, p), robbed' = robbed \ {p} PROVE PortKept'
  <2>1. used' = Released(AddressesOf(p)) /\ ports' = ports \ {p}
    BY <1>3 DEF DeletePort
  <2> SUFFICES ASSUME NEW o \in ports', o \notin robbed'
               PROVE  \E b \in Addresses : used'[b] = o
    BY DEF PortKept, AddressesOf
  <2>2. o \in ports \ robbed /\ o # p
    BY <1>3, <2>1
  <2>3. PICK b \in Addresses : used[b] = o
    BY <2>2 DEF PortKept, AddressesOf
  <2>4. QED
    BY <2>1, <2>2, <2>3 DEF Released, AddressesOf
<1>4. CASE UNCHANGED <<used, ports, robbed>>
  BY <1>4, PortsKeep
<1>5. QED
  BY <1>1, <1>2, <1>3, <1>4
     DEF PortStep, CreatePortWaits, FindNone, SpecificLook, UpdatePools, natVars

\* Removing a gateway address takes a port's address only on an old view.
LEMMA RemoveKept ==
  ASSUME Shape, Served, PortKept, NEW q \in Requests, RemoveGatewayIp(q)
  PROVE  PortKept'
<1> DEFINE r == req[q].router
           freed == {plus[r], req[q].ip} \ {0}
           owners == {used[a] : a \in freed} \ {None, req[q].gwport}
           old == req[q].cut \/ r \in tainted
<1>1. /\ req[q].op = "remove" /\ used' = Released(freed) /\ UNCHANGED ports
      /\ robbed' = IF old THEN robbed \cup (owners \cap Ports) ELSE robbed
  BY DEF RemoveGatewayIp
<1>2. req[q].gwport \in GwPorts
  BY <1>1, ReadsPort DEF Reads
<1>3. ASSUME NEW a \in Addresses, used[a] \in ports \ robbed'
      PROVE  used'[a] = used[a]
  <2>1. used[a] \in Ports /\ used[a] # None /\ used[a] \notin GwPorts
    BY <1>3, PortsAssumption, GwPortsAssumption DEF Shape
  <2>2. CASE old
    <3>1. a \notin freed
      BY <1>1, <1>2, <1>3, <2>1, <2>2
    <3>2. QED
      BY <1>1, <3>1 DEF Released
  <2>3. CASE ~old
    <3>1. a \notin freed
      BY <1>1, <1>2, <2>1, <2>3, RemoveOwn
    <3>2. QED
      BY <1>1, <3>1 DEF Released
  <2>4. QED
    BY <2>2, <2>3
<1>4. robbed \subseteq robbed'
  BY <1>1
<1>5. QED
  BY <1>1, <1>3, <1>4, PortsKeep

LEMMA KeptNext ==
  ASSUME Shape, Served, PortKept, [Next]_vars
  PROVE  PortKept'
<1> USE DEF Shape
<1>1. ASSUME NEW q \in Requests, NatTake(q) \/ GwIpTake(q) PROVE PortKept'
  <2>1. /\ HasPort(q) /\ UNCHANGED <<ports, robbed>>
        /\ \E a \in Addresses : TakeFirst(q, req[q].gwport, a) \/ RebuildTake(q, a)
    BY <1>1 DEF NatTake, GwIpTake, AddNat, HasPort
  <2>2. PICK a \in Addresses : Taken(q, req[q].gwport, a)
    BY <2>1, GwTakes
  <2>3. \A b \in Addresses : used[b] # None => used'[b] = used[b]
    BY <2>1, <2>2, PortKnown, TakenKeeps
  <2>4. QED
    BY <2>1, <2>3, PortsKeep, PortsAssumption
<1>2. ASSUME NEW q \in Requests, ClearDeletes(q) PROVE PortKept'
  <2>1. /\ req[q].gwport \in GwPorts /\ used' = Released(AddressesOf(req[q].gwport))
        /\ UNCHANGED <<ports, robbed>>
    BY <1>2, PortKnown DEF ClearDeletes, HasPort
  <2>2. QED
    BY <2>1, PortsKeep, GwPortsAssumption DEF Released, AddressesOf
<1>3. ASSUME NEW r \in Routers, DeleteRouter(r) PROVE PortKept'
  <2>1. /\ used' = Released({a \in Addresses : used[a] \in {g \in GwPorts : rport[g] = r}})
        /\ UNCHANGED <<ports, robbed>>
    BY <1>3 DEF DeleteRouter
  <2>2. QED
    BY <2>1, PortsKeep, GwPortsAssumption DEF Released
<1>4. CASE UNCHANGED <<used, ports, robbed>>
  BY <1>4, PortsKeep
<1>5. ASSUME NEW q \in Requests, Refuse(q) \/ Fail(q) PROVE PortKept'
  BY <1>4, <1>5 DEF Refuse, Exhausted, Fail
<1>6. ASSUME NEW q \in Requests,
             \/ ReadAllocations(q) /\ UNCHANGED natVars
             \/ NatFindNone(q) \/ GwIpFindNone(q)
      PROVE  PortKept'
  BY <1>4, <1>6 DEF ReadAllocations, NatFindNone, GwIpFindNone, FindNone, natVars
<1>7. ASSUME UNCHANGED <<poolVars, robbed>> PROVE PortKept'
  BY <1>4, <1>7 DEF poolVars
<1>8. ASSUME NEW q \in Requests,
             \/ \E r \in Routers, e \in ExtPorts, t \in Targets : NatCount(q, r, e, t)
             \/ NatLook(q) \/ NatPlan(q) \/ NatReuse(q) \/ NatAdopt(q)
             \/ \E r \in Routers : GwIpLook(q, r) \/ RemoveLook(q, r) \/ ClearGateway(q, r)
      PROVE  PortKept'
  BY <1>7, <1>8 DEF NatCount, NatLook, NatPlan, NatReuse, NatAdopt, AddNat, GwIpLook,
                    RemoveLook, ClearGateway
<1>9. CASE UNCHANGED vars
  BY <1>7, <1>9 DEF vars, natVars
<1>10. ASSUME NEW n \in NatIds,
              DeleteNat(n) \/ \E e \in ExtPorts, t \in Targets : UpdateNat(n, e, t)
       PROVE  PortKept'
  BY <1>7, <1>10 DEF DeleteNat, UpdateNat
<1>11. ASSUME NEW r \in Routers, NEW g \in GwPorts, SetGateway(r, g) PROVE PortKept'
  BY <1>7, <1>11 DEF SetGateway
<1>12. QED
  BY <1>1, <1>2, <1>3, <1>5, <1>6, <1>8, <1>9, <1>10, <1>11, PortStepKept, RemoveKept
     DEF Next

\* A port that exists has its address, but where an old view of a router's
\* gateway made a request give it back.
THEOREM AddressesKept == Spec => []PortKept
<1>1. GInit => PortKept
  BY DEF GInit, Init, PortKept
<1>2. PortKept /\ (Shape /\ Served) /\ [Next]_vars => PortKept'
  BY KeptNext
<1>3. QED
  BY <1>1, <1>2, ServedAlways, PTL DEF Spec

-----------------------------------------------------------------------------
(* Requests that go on, and requests that read.                            *)

Onward(x) ==
    \/ req'[x] = NoReq
    \/ /\ req'[x].op = req[x].op /\ req'[x].router = req[x].router
       /\ req'[x].gwport = req[x].gwport /\ req'[x].ext = req[x].ext
       /\ req'[x].target = req[x].target /\ req'[x].ip = req[x].ip
       /\ req'[x].op # "none" /\ ~req'[x].dup => ~req[x].dup

ReadStep(q) ==
    \/ \E r \in Routers, e \in ExtPorts, t \in Targets : NatCount(q, r, e, t)
    \/ NatLook(q) \/ NatPlan(q)
    \/ \E r \in Routers : GwIpLook(q, r) \/ RemoveLook(q, r)

LEMMA EndedOnward ==
  ASSUME Shape, NEW q \in Requests, NEW C, NEW D, req' = Ended(q, C, D)
  PROVE  \A x \in Requests : Onward(x)
  BY EndedOK DEF Kept, Onward, Shape

LEMMA OnwardNext ==
  ASSUME Shape, [Next]_vars, NEW x \in Requests
  PROVE  Onward(x) \/ ReadStep(x) \/ req'[x].op = "clear"
<1> USE DEF Shape
<1>1. CASE UNCHANGED req
  BY <1>1 DEF Onward
<1>2. ASSUME NEW q \in Requests, QuietStep(q) PROVE Onward(x)
  BY <1>2, <1>1, QuietSteps DEF NatQuiet, Onward
<1>3. ASSUME NEW q \in Requests, Refuse(q) \/ Fail(q) PROVE Onward(x)
  BY <1>3 DEF Refuse, Fail, Onward, NatTypeOK
<1>4. ASSUME NEW q \in Requests,
             NatReuse(q) \/ NatAdopt(q) \/ NatTake(q) \/ GwIpTake(q)
             \/ RemoveGatewayIp(q) \/ ClearDeletes(q)
      PROVE  Onward(x)
  <2>1. PICK C, D : req' = Ended(q, C, D)
    BY <1>4 DEF NatReuse, NatAdopt, NatTake, GwIpTake, RemoveGatewayIp, ClearDeletes, AddNat
  <2>2. QED
    BY <2>1, EndedOnward
<1>5. ASSUME NEW q \in Requests, NEW r \in Routers, ClearGateway(q, r)
      PROVE  Onward(x) \/ req'[x].op = "clear"
  BY <1>5, ClearGatewayReads, EndedOK DEF Kept, Onward
<1>6. ASSUME NEW q \in Requests, ReadStep(q)
      PROVE  Onward(x) \/ ReadStep(x)
  <2>1. CASE q = x
    BY <1>6, <2>1
  <2>2. CASE q # x
    <3>1. req'[x] = req[x]
      BY <1>6, <2>2 DEF ReadStep, NatCount, NatLook, NatPlan, GwIpLook, RemoveLook, NatTypeOK
    <3>2. QED
      BY <3>1 DEF Onward
  <2>3. QED
    BY <2>1, <2>2
<1>7. ASSUME NEW r \in Routers, DeleteRouter(r) PROVE Onward(x)
  BY <1>7 DEF DeleteRouter, Onward
<1>8. QED
  BY <1>1, <1>2, <1>3, <1>4, <1>5, <1>6, <1>7
     DEF Next, QuietStep, ReadStep, DeleteNat, UpdateNat, SetGateway, vars, natVars

-----------------------------------------------------------------------------
(* One address for a gateway port.                                         *)

SeesNone(q) == \/ req[q].op \in {"looked", "planned"} /\ req[q].ip = 0
               \/ req[q].op = "gwip"

\* A request that saw no address, and was told of no other, is right.
FreeOf(q) == SeesNone(q) /\ ~req[q].dup
             => \A a \in Addresses : used[a] # req[q].gwport

OneInv == OneAddress /\ \A q \in Requests : FreeOf(q)

LEMMA ReadFree ==
  ASSUME Shape, OneInv, NEW q \in Requests, ReadStep(q)
  PROVE  FreeOf(q)'
<1> USE DEF Shape
<1>1. UNCHANGED used
  BY DEF ReadStep, NatCount, NatLook, NatPlan, GwIpLook, RemoveLook, poolVars
<1>2. ASSUME NEW c, OnlyReq(q, c),
             (c.op \in {"looked", "planned"} /\ c.ip = 0) \/ c.op = "gwip" =>
               (~c.dup => \A a \in Addresses : used[a] # c.gwport)
      PROVE  FreeOf(q)'
  <2>1. req'[q] = c
    BY <1>2 DEF OnlyReq, NatTypeOK
  <2>2. QED
    BY <1>1, <1>2, <2>1 DEF FreeOf, SeesNone
<1>3. ASSUME NEW r \in Routers, NEW e \in ExtPorts, NEW t \in Targets, NatCount(q, r, e, t)
      PROVE  FreeOf(q)'
  <2>1. PICK c : OnlyReq(q, c) /\ c.op = "counted"
    BY <1>3, NatCountReads
  <2>2. QED
    BY <1>2, <2>1
<1>4. CASE NatLook(q)
  <2>1. req[q].router \in Routers
    BY <1>4, Fields DEF NatLook, ReqInv, ReqOK
  <2>2. PICK c : /\ OnlyReq(q, c) /\ c.op = "looked" /\ c.ip \in FirstIps(c.gwport)
    BY <1>4, <2>1, NatLookReads
  <2>3. c.ip = 0 => \A a \in Addresses : used[a] # c.gwport
    BY <2>2, LastAssumption DEF FirstIps, AddressesOf, Addresses
  <2>4. QED
    BY <1>2, <2>2, <2>3
<1>5. CASE NatPlan(q)
  <2>1. req[q].router \in Routers /\ req[q].op = "looked"
    BY <1>5, ReadsPort DEF NatPlan, Reads
  <2>2. PICK c : /\ OnlyReq(q, c) /\ c.op = "planned" /\ c.gwport = req[q].gwport
                 /\ c.ip = req[q].ip /\ c.dup = req[q].dup
    BY <1>5, <2>1, NatPlanReads
  <2>3. QED
    BY <1>2, <2>1, <2>2 DEF OneInv, FreeOf, SeesNone
<1>6. ASSUME NEW r \in Routers, GwIpLook(q, r) PROVE FreeOf(q)'
  <2>1. PICK c : OnlyReq(q, c) /\ c.op = "gwip" /\ c.gwport = gw[r]
    BY <1>6, GwIpLookReads
  <2>2. \A a \in Addresses : used[a] # gw[r]
    BY <1>6 DEF GwIpLook, AddressesOf
  <2>3. QED
    BY <1>2, <2>1, <2>2
<1>7. ASSUME NEW r \in Routers, RemoveLook(q, r) PROVE FreeOf(q)'
  <2>1. PICK c : OnlyReq(q, c) /\ c.op = "remove"
    BY <1>7, RemoveLookReads
  <2>2. QED
    BY <1>2, <2>1
<1>8. QED
  BY <1>3, <1>4, <1>5, <1>6, <1>7 DEF ReadStep

\* No gateway port takes an address.
LEMMA OneStays ==
  ASSUME Shape, OneInv, [Next]_vars,
         \A a \in Addresses : used'[a] \in GwPorts => used'[a] = used[a],
         \A g \in doubled \ doubled' : \A a \in Addresses : used'[a] # g
  PROVE  OneInv'
<1>1. OneAddress'
  <2> SUFFICES ASSUME NEW g \in GwPorts \ doubled', NEW a \in Addresses,
                      NEW b \in Addresses, used'[a] = g, used'[b] = g
               PROVE  a = b
    BY DEF OneAddress, AddressesOf
  <2>1. QED
    BY DEF OneInv, OneAddress, AddressesOf
<1>2. ASSUME NEW x \in Requests PROVE FreeOf(x)'
  <2>1. CASE Onward(x)
    <3>1. SeesNone(x)' => SeesNone(x)
      BY <2>1, NoReqOK DEF Onward, SeesNone
    <3>2. SeesNone(x) => req[x].gwport \in GwPorts
      BY ReadsPort DEF SeesNone, Reads
    <3>3. QED
      BY <2>1, <3>1, <3>2, NoReqOK DEF OneInv, FreeOf, Onward, SeesNone
  <2>2. CASE ReadStep(x)
    BY <2>2, ReadFree
  <2>3. CASE req'[x].op = "clear"
    BY <2>3 DEF FreeOf, SeesNone
  <2>4. QED
    BY <2>1, <2>2, <2>3, OnwardNext
<1>3. QED
  BY <1>1, <1>2 DEF OneInv

\* A gateway port takes one.
LEMMA OneTaken ==
  ASSUME Shape, OneInv, NEW q \in Requests, NatTake(q) \/ GwIpTake(q)
  PROVE  OneInv'
<1> USE DEF Shape
<1> DEFINE g == req[q].gwport
           r == req[q].router
<1>1. /\ HasPort(q) /\ SeesNone(q) /\ rport[g] = r /\ doubled' = Doubled(q)
      /\ UNCHANGED ports
      /\ \E a \in Addresses : TakeFirst(q, g, a) \/ RebuildTake(q, a)
  BY DEF NatTake, GwIpTake, AddNat, HasPort, SeesNone
<1>2. g \in GwPorts /\ g \in Owners /\ r \in Routers
  BY <1>1, PortKnown
<1>3. PICK a \in Addresses : Taken(q, g, a)
  BY <1>1, GwTakes
<1>4. used'[a] = g /\ \A b \in Addresses \ {a} : used'[b] = used[b]
  BY <1>2, <1>3, TakenKeeps
<1>5. OneAddress'
  <2> SUFFICES ASSUME NEW h \in GwPorts \ doubled', NEW b \in Addresses,
                      NEW c \in Addresses, used'[b] = h, used'[c] = h
               PROVE  b = c
    BY DEF OneAddress, AddressesOf
  <2>1. CASE h = g
    <3>1. ~req[q].dup
      BY <1>1, <2>1 DEF Doubled
    <3>2. \A d \in Addresses : used[d] # g
      BY <1>1, <3>1 DEF OneInv, FreeOf
    <3>3. QED
      BY <1>4, <2>1, <3>2
  <2>2. CASE h # g
    <3>1. h \notin doubled /\ used[b] = h /\ used[c] = h
      BY <1>1, <1>4, <2>2 DEF Doubled
    <3>2. QED
      BY <3>1 DEF OneInv, OneAddress, AddressesOf
  <2>3. QED
    BY <2>1, <2>2
<1>6. ASSUME NEW x \in Requests PROVE FreeOf(x)'
  <2>1. PICK D : On(r) \subseteq D /\ req' = Ended(q, {}, D)
    BY DEF NatTake, GwIpTake, AddNat
  <2>2. CASE x = q
    BY <2>1, <2>2, EndedOK, NoReqOK DEF FreeOf, SeesNone
  <2>3. CASE x # q
    <3>1. Kept(x, req'[x], {}, D)
      BY <2>1, <2>3, EndedOK
    <3>2. SUFFICES ASSUME SeesNone(x)', ~req'[x].dup
                   PROVE  \A b \in Addresses : used'[b] # req[x].gwport
      BY <3>1 DEF FreeOf, Kept
    <3>3. SeesNone(x) /\ ~req[x].dup /\ x \notin D
      BY <3>1, <3>2 DEF Kept, SeesNone
    <3>4. req[x].gwport # g
      BY <1>1, <1>2, <2>1, <3>3, ReadsPort, PortKnown, GwPortsAssumption
         DEF On, SeesNone, Reads
    <3>5. QED
      BY <1>4, <3>3, <3>4 DEF OneInv, FreeOf
  <2>4. QED
    BY <2>2, <2>3
<1>7. QED
  BY <1>5, <1>6 DEF OneInv

LEMMA OneNext ==
  ASSUME Shape, OneInv, [Next]_vars
  PROVE  OneInv'
<1> USE DEF Shape
<1>1. ASSUME UNCHANGED <<used, doubled>> PROVE OneInv'
  BY <1>1, OneStays
<1>2. ASSUME NEW q \in Requests, QuietStep(q) PROVE OneInv'
  <2>1. NatQuiet
    BY <1>2, QuietSteps
  <2>2. QED
    BY <2>1, OneStays DEF NatQuiet
<1>3. ASSUME NEW q \in Requests, RemoveGatewayIp(q) PROVE OneInv'
  <2>1. UNCHANGED doubled /\ \E freed : used' = Released(freed)
    BY <1>3 DEF RemoveGatewayIp
  <2>2. QED
    BY <2>1, OneStays, GwPortsAssumption, PortsAssumption DEF Released
<1>4. ASSUME NEW q \in Requests, ClearDeletes(q) PROVE OneInv'
  <2>1. /\ doubled' = doubled \ {req[q].gwport}
        /\ used' = Released(AddressesOf(req[q].gwport))
        /\ req[q].gwport \in GwPorts
    BY <1>4, PortKnown DEF ClearDeletes, HasPort
  <2>2. QED
    BY <2>1, OneStays, GwPortsAssumption, PortsAssumption DEF Released, AddressesOf
<1>5. ASSUME NEW r \in Routers, DeleteRouter(r) PROVE OneInv'
  <2> DEFINE gone == {g \in GwPorts : rport[g] = r}
  <2>1. /\ doubled' = doubled \ gone /\ gone \subseteq GwPorts
        /\ used' = Released({a \in Addresses : used[a] \in gone})
    BY <1>5 DEF DeleteRouter
  <2> HIDE DEF gone
  <2>2. QED
    BY <2>1, OneStays, GwPortsAssumption, PortsAssumption DEF Released
<1>6. ASSUME NEW q \in Requests, Refuse(q) \/ Fail(q) PROVE OneInv'
  BY <1>1, <1>6 DEF Refuse, Exhausted, Fail
<1>7. ASSUME UNCHANGED <<poolVars, doubled>> PROVE OneInv'
  BY <1>1, <1>7 DEF poolVars
<1>8. ASSUME NEW q \in Requests,
             \/ ReadStep(q) \/ NatReuse(q) \/ NatAdopt(q)
             \/ \E r \in Routers : ClearGateway(q, r)
      PROVE  OneInv'
  BY <1>7, <1>8 DEF ReadStep, NatCount, NatLook, NatPlan, NatReuse, NatAdopt, GwIpLook,
                    RemoveLook, ClearGateway
<1>9. CASE UNCHANGED vars
  BY <1>7, <1>9 DEF vars, natVars
<1>10. ASSUME NEW n \in NatIds,
              DeleteNat(n) \/ \E e \in ExtPorts, t \in Targets : UpdateNat(n, e, t)
       PROVE  OneInv'
  BY <1>7, <1>10 DEF DeleteNat, UpdateNat
<1>11. ASSUME NEW r \in Routers, NEW g \in GwPorts, SetGateway(r, g) PROVE OneInv'
  BY <1>7, <1>11 DEF SetGateway
<1>12. QED
  BY <1>2, <1>3, <1>4, <1>5, <1>6, <1>8, <1>9, <1>10, <1>11, OneTaken
     DEF Next, QuietStep, ReadStep

\* A gateway port has at most one address, but where two requests that both
\* saw none gave it one each.
THEOREM SingleAddress == Spec => []OneAddress
<1>1. GInit => OneInv
  BY NoReqOK, GwPortsAssumption, PortsAssumption
     DEF GInit, Init, OneInv, OneAddress, AddressesOf, FreeOf, SeesNone
<1>2. OneInv /\ (Shape /\ Served) /\ [Next]_vars => OneInv'
  BY OneNext
<1>3. OneInv => OneAddress
  BY DEF OneInv
<1>4. QED
  BY <1>1, <1>2, <1>3, ServedAlways, PTL DEF Spec

-----------------------------------------------------------------------------
(* Mappings that were counted.                                             *)

Counts(q) == req[q].op \in {"counted", "looked", "planned"}

\* A request that was told of no other mapping counted right.
CountOf(q, n) ==
    Counts(q) /\ ~req[q].dup /\ Exists(n) /\ nats[n].clean
        => ~Rival(n, req[q].router, req[q].ext, req[q].target)

CountInv == /\ NoCollision
            /\ \A q \in Requests, n \in NatIds : CountOf(q, n)

LEMMA ReadCount ==
  ASSUME Shape, CountInv, NEW q \in Requests, ReadStep(q), NEW n \in NatIds
  PROVE  CountOf(q, n)'
<1> USE DEF Shape
<1>1. UNCHANGED nats
  BY DEF ReadStep, NatCount, NatLook, NatPlan, GwIpLook, RemoveLook
<1>2. ASSUME NEW c, OnlyReq(q, c),
             c.op \in {"counted", "looked", "planned"} /\ ~c.dup
               /\ Exists(n) /\ nats[n].clean => ~Rival(n, c.router, c.ext, c.target)
      PROVE  CountOf(q, n)'
  <2>1. req'[q] = c
    BY <1>2 DEF OnlyReq, NatTypeOK
  <2>2. QED
    BY <1>1, <1>2, <2>1 DEF CountOf, Counts, Exists, Rival
<1>3. ASSUME NEW r \in Routers, NEW e \in ExtPorts, NEW t \in Targets, NatCount(q, r, e, t)
      PROVE  CountOf(q, n)'
  <2>1. PICK c : OnlyReq(q, c) /\ c.router = r /\ c.ext = e /\ c.target = t
    BY <1>3, NatCountReads
  <2>2. ~Rival(n, r, e, t)
    BY <1>3 DEF NatCount
  <2>3. QED
    BY <1>2, <2>1, <2>2
<1>4. CASE NatLook(q) \/ NatPlan(q)
  <2>1. req[q].router \in Routers /\ Counts(q)
    BY <1>4, Fields DEF NatLook, NatPlan, ReqInv, ReqOK, Counts
  <2>2. PICK c : /\ OnlyReq(q, c) /\ c.router = req[q].router /\ c.ext = req[q].ext
                 /\ c.target = req[q].target /\ c.dup = req[q].dup
    BY <1>4, <2>1, NatLookReads, NatPlanReads
  <2>3. QED
    BY <1>2, <2>1, <2>2 DEF CountInv, CountOf
<1>5. ASSUME NEW r \in Routers, GwIpLook(q, r) \/ RemoveLook(q, r) PROVE CountOf(q, n)'
  <2>1. PICK c : OnlyReq(q, c) /\ c.op \in {"gwip", "remove"}
    BY <1>5, GwIpLookReads, RemoveLookReads
  <2>2. QED
    BY <1>2, <2>1
<1>6. QED
  BY <1>3, <1>4, <1>5 DEF ReadStep

\* Mappings go, or are renumbered.
LEMMA CountStays ==
  ASSUME Shape, CountInv, [Next]_vars,
         \A n \in NatIds : \/ nats'[n] = nats[n] \/ nats'[n].router = None
                           \/ nats'[n].clean = FALSE
  PROVE  CountInv'
<1>1. NoCollision'
  BY DEF CountInv, NoCollision, Exists
<1>2. ASSUME NEW x \in Requests, NEW n \in NatIds PROVE CountOf(x, n)'
  <2>1. CASE Onward(x)
    BY <2>1, NoReqOK DEF CountInv, CountOf, Counts, Onward, Exists, Rival
  <2>2. CASE ReadStep(x)
    BY <2>2, ReadCount
  <2>3. CASE req'[x].op = "clear"
    BY <2>3 DEF CountOf, Counts
  <2>4. QED
    BY <2>1, <2>2, <2>3, OnwardNext
<1>3. QED
  BY <1>1, <1>2 DEF CountInv

\* A mapping comes: it was counted, and the others that count are told.
LEMMA CountAdds ==
  ASSUME Shape, CountInv, NEW q \in Requests, Reads(q), req[q].op = "planned",
         NEW i \in Addresses, AddNat(q, i)
  PROVE  CountInv'
<1> USE DEF Shape
<1> DEFINE r == req[q].router
           t == req[q].target
           D == On(r) \cup {x \in Requests : req[x].target = t}
<1>1. PICK n \in NatIds, c \in Nats :
          /\ ~Exists(n) /\ nats' = [nats EXCEPT ![n] = c]
          /\ c.router = r /\ c.ext = req[q].ext /\ c.target = t
          /\ c.clean = ~req[q].dup
  BY AddNatWrites
<1>2. nats'[n] = c /\ \A m \in NatIds \ {n} : nats'[m] = nats[m]
  BY <1>1 DEF NatTypeOK
<1>3. c.clean => \A m \in NatIds : Exists(m) /\ nats[m].clean
                                   => ~Rival(m, r, req[q].ext, t)
  BY <1>1 DEF CountInv, CountOf, Counts
<1>4. NoCollision'
  <2> SUFFICES ASSUME NEW m \in NatIds, NEW k \in NatIds, m # k,
                      Exists(m)', Exists(k)', nats'[m].clean, nats'[k].clean
               PROVE  /\ nats'[m].target # nats'[k].target
                      /\ nats'[m].router = nats'[k].router => nats'[m].ext # nats'[k].ext
    BY DEF NoCollision
  <2>1. CASE m # n /\ k # n
    BY <1>2, <2>1 DEF CountInv, NoCollision, Exists
  <2>2. CASE m = n
    BY <1>1, <1>2, <1>3, <2>2 DEF Exists, Rival
  <2>3. CASE k = n
    BY <1>1, <1>2, <1>3, <2>3 DEF Exists, Rival
  <2>4. QED
    BY <2>1, <2>2, <2>3
<1>5. ASSUME NEW x \in Requests, NEW m \in NatIds PROVE CountOf(x, m)'
  <2>1. req' = Ended(q, {}, D)
    BY DEF AddNat
  <2>2. CASE x = q
    BY <2>1, <2>2, EndedOK, NoReqOK DEF CountOf, Counts
  <2>3. CASE x # q
    <3>1. Kept(x, req'[x], {}, D)
      BY <2>1, <2>3, EndedOK
    <3>2. CASE m = n
      <4>1. x \notin D => req[x].router # r /\ req[x].target # t
        BY DEF On
      <4>2. QED
        BY <1>1, <1>2, <3>1, <3>2, <4>1 DEF CountOf, Counts, Kept, Rival
    <3>3. CASE m # n
      BY <1>2, <3>1, <3>3 DEF CountInv, CountOf, Counts, Kept, Rival, Exists
    <3>4. QED
      BY <3>2, <3>3
  <2>4. QED
    BY <2>2, <2>3
<1>6. QED
  BY <1>4, <1>5 DEF CountInv

LEMMA CountNext ==
  ASSUME Shape, CountInv, [Next]_vars
  PROVE  CountInv'
<1> USE DEF Shape
<1>1. CASE UNCHANGED nats
  BY <1>1, CountStays
<1>2. ASSUME NEW q \in Requests, QuietStep(q) PROVE CountInv'
  BY <1>1, <1>2, QuietSteps DEF NatQuiet
<1>3. ASSUME NEW q \in Requests, NatReuse(q) \/ NatAdopt(q) \/ NatTake(q) PROVE CountInv'
  <2>1. PICK i \in Addresses : AddNat(q, i)
    BY <1>3, Fields DEF NatReuse, NatAdopt, NatTake
  <2>2. QED
    BY <1>3, <2>1, CountAdds DEF NatReuse, NatAdopt, NatTake, Reads
<1>4. ASSUME NEW S, nats' = NatsWithout(S) PROVE CountInv'
  <2>1. \A n \in NatIds : nats'[n] = nats[n] \/ nats'[n] = NoNat
    BY <1>4, NatsWithoutOK
  <2>2. QED
    BY <2>1, NoNatOK, CountStays
<1>5. ASSUME NEW n \in NatIds,
             DeleteNat(n) \/ \E e \in ExtPorts, t \in Targets : UpdateNat(n, e, t)
      PROVE  CountInv'
  <2>1. PICK c : /\ nats' = [nats EXCEPT ![n] = c]
                 /\ c.router = None \/ c.clean = FALSE
    BY <1>5, UpdateNatWrites, NoNatOK DEF DeleteNat
  <2>2. QED
    BY <2>1, CountStays DEF NatTypeOK
<1>6. ASSUME NEW q \in Requests, RemoveGatewayIp(q) \/ ClearDeletes(q) PROVE CountInv'
  BY <1>4, <1>6 DEF RemoveGatewayIp, ClearDeletes
<1>7. ASSUME NEW r \in Routers, DeleteRouter(r) PROVE CountInv'
  BY <1>4, <1>7 DEF DeleteRouter
<1>8. QED
  BY <1>1, <1>2, <1>3, <1>5, <1>6, <1>7
     DEF Next, QuietStep, Refuse, NatCount, NatLook, NatPlan, GwIpLook, GwIpTake,
         RemoveLook, ClearGateway, Fail, SetGateway, vars, natVars

\* Two mappings are told apart by what arrives, but where one was renumbered
\* or counted before the other was there.
THEOREM MappingsDistinct == Spec => []NoCollision
<1>1. GInit => CountInv
  BY NoReqOK, NoNatOK DEF GInit, CountInv, NoCollision, CountOf, Counts, Exists
<1>2. CountInv /\ (Shape /\ Served) /\ [Next]_vars => CountInv'
  BY CountNext
<1>3. CountInv => NoCollision
  BY DEF CountInv
<1>4. QED
  BY <1>1, <1>2, <1>3, ServedAlways, PTL DEF Spec

-----------------------------------------------------------------------------
(* One request at a time.                                                  *)

\* Nothing was committed since a request read.
Current == /\ raced = FALSE /\ doubled = {}
           /\ \A x \in Requests : ~alloc[x].crossed /\ ~req[x].dup

\* The views of the allocations stay as they are.
PoolCurrent == /\ UNCHANGED raced
               /\ \A x \in Requests : ~alloc'[x].crossed

\* A commit leaves only other requests with an old view.
LEMMA CrossedAlone ==
  ASSUME NEW q \in Requests, \A x \in Requests : x = q
  PROVE  \A x \in Requests : ~Crossed(q)[x].crossed
  BY NoAllocOK DEF Crossed

LEMMA StoreAlone ==
  ASSUME Current, NEW q \in Requests, \A x \in Requests : x = q,
         NEW o, NEW a, NEW rows, Store(q, o, a, rows)
  PROVE  PoolCurrent
<1>1. alloc' = Crossed(q) /\ raced' = (raced \/ alloc[q].crossed)
  BY DEF Store
<1>2. QED
  BY <1>1, CrossedAlone DEF Current, PoolCurrent

\* A request that reads has a current view.
LEMMA LookAlone ==
  ASSUME PoolTypeOK, Current, NEW q \in Requests, \A x \in Requests : x = q,
         \/ ReadAllocations(q)
         \/ \E o \in Owners : FindNone(q, o)
         \/ \E o \in Owners, a \in Addresses : SpecificLook(q, o, a)
  PROVE  PoolCurrent
<1>1. CASE ReadAllocations(q)
  <2>1. UNCHANGED raced /\ alloc'[q].crossed = alloc[q].crossed
    BY <1>1 DEF ReadAllocations, PoolTypeOK, Allocs
  <2>2. QED
    BY <2>1 DEF Current, PoolCurrent
<1>2. ASSUME NEW o \in Owners, FindNone(q, o) PROVE PoolCurrent
  <2> DEFINE c == [NoAlloc EXCEPT !.phase = "empty", !.owner = o]
  <2>1. c.crossed = FALSE
    BY DEF NoAlloc
  <2>2. alloc' = [alloc EXCEPT ![q] = c] /\ UNCHANGED raced
    BY <1>2 DEF FindNone
  <2> HIDE DEF c
  <2>3. QED
    BY <2>1, <2>2 DEF PoolTypeOK, PoolCurrent
<1>3. ASSUME NEW o \in Owners, NEW a \in Addresses, SpecificLook(q, o, a)
      PROVE  PoolCurrent
  <2> DEFINE c == [NoAlloc EXCEPT !.phase = "store", !.owner = o, !.addr = a]
  <2>1. c.crossed = FALSE
    BY DEF NoAlloc
  <2>2. alloc' = [alloc EXCEPT ![q] = c] /\ UNCHANGED raced
    BY <1>3 DEF SpecificLook
  <2> HIDE DEF c
  <2>3. QED
    BY <2>1, <2>2 DEF PoolTypeOK, PoolCurrent
<1>4. QED
  BY <1>1, <1>2, <1>3

LEMMA PoolAlone ==
  ASSUME Shape, Current, [Next]_vars, \A x, y \in Requests : x = y
  PROVE  PoolCurrent
<1> USE DEF Shape
<1>1. ASSUME UNCHANGED <<alloc, raced>> PROVE PoolCurrent
  BY <1>1 DEF Current, PoolCurrent
<1>2. ASSUME NEW q \in Requests, PortStep(q) PROVE PoolCurrent
  <2>1. ASSUME NEW o \in Owners, NEW a \in Addresses,
               TakeFirst(q, o, a) \/ SpecificTake(q, o, a)
        PROVE  PoolCurrent
    <3>1. \E rows : Store(q, o, a, rows)
      BY <2>1 DEF TakeFirst, SpecificTake
    <3>2. QED
      BY <3>1, StoreAlone
  <2>2. ASSUME CreatePortLate(q) PROVE PoolCurrent
    <3>1. \E a, rows : Store(q, alloc[q].owner, a, rows)
      BY <2>2 DEF CreatePortLate, SpecificStore, RebuildTake
    <3>2. QED
      BY <3>1, StoreAlone
  <2>3. ASSUME NEW p \in Ports, CreatePort(q, p) \/ CreatePortWaits(q, p)
        PROVE  PoolCurrent
    <3>1. p \in Owners
      BY PortsAssumption
    <3>2. QED
      BY <2>1, <2>3, <3>1, LookAlone DEF CreatePort, CreatePortWaits
  <2>4. ASSUME NEW ps \in PoolSets, UpdatePools(q, ps) PROVE PoolCurrent
    BY <2>4, CrossedAlone DEF UpdatePools, PoolCurrent
  <2>5. ASSUME NEW p \in Ports, DeletePort(q, p) PROVE PoolCurrent
    BY <1>1, <2>5 DEF DeletePort
  <2>6. QED
    BY <1>2, <2>2, <2>3, <2>4, <2>5 DEF PortStep
<1>3. ASSUME NEW q \in Requests, NatTake(q) \/ GwIpTake(q) PROVE PoolCurrent
  <2>1. \E o, a, rows : Store(q, o, a, rows)
    BY <1>3 DEF NatTake, GwIpTake, TakeFirst, RebuildTake
  <2>2. QED
    BY <2>1, StoreAlone
<1>4. ASSUME NEW q \in Requests, NatFindNone(q) \/ GwIpFindNone(q) PROVE PoolCurrent
  <2>1. req[q].gwport \in Owners
    BY <1>4, PortKnown DEF NatFindNone, GwIpFindNone, HasPort
  <2>2. QED
    BY <1>4, <2>1, LookAlone DEF NatFindNone, GwIpFindNone
<1>5. ASSUME NEW q \in Requests, Refuse(q) \/ Fail(q) PROVE PoolCurrent
  BY <1>5, NoAllocOK DEF Refuse, Exhausted, Fail, PoolTypeOK, Current, PoolCurrent
<1>6. ASSUME NEW r \in Routers, DeleteRouter(r) PROVE PoolCurrent
  BY <1>6, NoAllocOK DEF DeleteRouter, Current, PoolCurrent
<1>7. QED
  BY <1>1, <1>2, <1>3, <1>4, <1>5, <1>6, LookAlone
     DEF Next, NatCount, NatLook, NatPlan, NatReuse, NatAdopt, GwIpLook, RemoveLook,
         ClearGateway, RemoveGatewayIp, ClearDeletes, DeleteNat, UpdateNat, SetGateway,
         vars, poolVars

\* A request that begins has not been told of anything.
LEMMA NewDup ==
  ASSUME NatTypeOK, NEW q \in Requests,
         \/ \E r \in Routers, e \in ExtPorts, t \in Targets : NatCount(q, r, e, t)
         \/ \E r \in Routers : GwIpLook(q, r) \/ RemoveLook(q, r)
  PROVE  \A x \in Requests : req'[x].dup => req[x].dup
<1>1. ASSUME NEW c, c.dup = FALSE, req' = [req EXCEPT ![q] = c]
      PROVE  \A x \in Requests : req'[x].dup => req[x].dup
  BY <1>1 DEF NatTypeOK
<1>2. ASSUME NEW r \in Routers, NEW e \in ExtPorts, NEW t \in Targets, NatCount(q, r, e, t)
      PROVE  \A x \in Requests : req'[x].dup => req[x].dup
  <2> DEFINE c == [NoReq EXCEPT !.op = "counted", !.router = r, !.ext = e, !.target = t]
  <2>1. c.dup = FALSE
    BY DEF NoReq
  <2>2. req' = [req EXCEPT ![q] = c]
    BY <1>2 DEF NatCount
  <2> HIDE DEF c
  <2>3. QED
    BY <1>1, <2>1, <2>2
<1>3. ASSUME NEW r \in Routers, GwIpLook(q, r)
      PROVE  \A x \in Requests : req'[x].dup => req[x].dup
  <2> DEFINE c == [NoReq EXCEPT !.op = "gwip", !.router = r, !.gwport = gw[r]]
  <2>1. c.dup = FALSE
    BY DEF NoReq
  <2>2. req' = [req EXCEPT ![q] = c]
    BY <1>3 DEF GwIpLook
  <2> HIDE DEF c
  <2>3. QED
    BY <1>1, <2>1, <2>2
<1>4. ASSUME NEW r \in Routers, RemoveLook(q, r)
      PROVE  \A x \in Requests : req'[x].dup => req[x].dup
  <2>1. PICK i \in FirstIps(gw[r]) :
          req' = [req EXCEPT ![q] = [NoReq EXCEPT !.op = "remove", !.router = r,
                                                  !.gwport = gw[r], !.ip = i]]
    BY <1>4 DEF RemoveLook
  <2> DEFINE c == [NoReq EXCEPT !.op = "remove", !.router = r, !.gwport = gw[r], !.ip = i]
  <2>2. c.dup = FALSE
    BY DEF NoReq
  <2>3. req' = [req EXCEPT ![q] = c]
    BY <2>1
  <2> HIDE DEF c
  <2>4. QED
    BY <1>1, <2>2, <2>3
<1>5. QED
  BY <1>2, <1>3, <1>4

\* A cleared gateway: the request that clears it goes on, the others are told.
LEMMA ClearDup ==
  ASSUME NatTypeOK, ReqInv, NEW q \in Requests, NEW r \in Routers, ClearGateway(q, r)
  PROVE  ~req'[q].dup
<1> DEFINE c == [NoReq EXCEPT !.op = "clear", !.router = r, !.gwport = gw[r]]
<1>1. c.dup = FALSE
  BY DEF NoReq
<1>2. req' = [Ended(q, On(r), {}) EXCEPT ![q] = c]
  BY DEF ClearGateway
<1> HIDE DEF c
<1>3. req'[q] = c
  BY <1>2, EndedOK
<1>4. QED
  BY <1>1, <1>3

\* Nobody is told of a row it did not see.
LEMMA ReqAlone ==
  ASSUME Shape, Current, [Next]_vars, \A x, y \in Requests : x = y
  PROVE  \A x \in Requests : ~req'[x].dup
<1> USE DEF Shape
<1>1. ASSUME NEW q \in Requests, NatLook(q) \/ NatPlan(q)
      PROVE  \A x \in Requests : req'[x].dup => req[x].dup
  <2>1. req[q].router \in Routers
    BY <1>1, Fields, ReadsPort DEF NatLook, NatPlan, ReqInv, ReqOK, Reads
  <2>2. PICK c : OnlyReq(q, c) /\ c.dup = req[q].dup
    BY <1>1, <2>1, NatLookReads, NatPlanReads
  <2>3. QED
    BY <2>2 DEF OnlyReq, NatTypeOK
<1>2. ASSUME NEW q \in Requests, ReadStep(q) PROVE \A x \in Requests : ~req'[x].dup
  BY <1>1, <1>2, NewDup DEF ReadStep, Current
<1>3. ASSUME NEW q \in Requests, NEW C, NEW D, req' = Ended(q, C, D)
      PROVE  \A x \in Requests : ~req'[x].dup
  BY <1>3, EndedOK, NoReqOK
<1>4. ASSUME NEW q \in Requests, NEW r \in Routers, ClearGateway(q, r)
      PROVE  \A x \in Requests : ~req'[x].dup
  BY <1>4, ClearDup
<1>5. ASSUME NEW q \in Requests,
             NatReuse(q) \/ NatAdopt(q) \/ NatTake(q) \/ GwIpTake(q)
             \/ RemoveGatewayIp(q) \/ ClearDeletes(q)
      PROVE  \A x \in Requests : ~req'[x].dup
  <2>1. PICK C, D : req' = Ended(q, C, D)
    BY <1>5 DEF NatReuse, NatAdopt, NatTake, GwIpTake, RemoveGatewayIp, ClearDeletes, AddNat
  <2>2. QED
    BY <1>3, <2>1
<1>6. ASSUME UNCHANGED req PROVE \A x \in Requests : ~req'[x].dup
  BY <1>6 DEF Current
<1>7. ASSUME NEW q \in Requests, QuietStep(q) PROVE \A x \in Requests : ~req'[x].dup
  BY <1>6, <1>7, QuietSteps DEF NatQuiet
<1>8. ASSUME NEW q \in Requests, Refuse(q) \/ Fail(q)
      PROVE  \A x \in Requests : ~req'[x].dup
  BY <1>8, NoReqOK DEF Refuse, Fail, NatTypeOK, Current
<1>9. ASSUME NEW r \in Routers, DeleteRouter(r) PROVE \A x \in Requests : ~req'[x].dup
  BY <1>9, NoReqOK DEF DeleteRouter, Current
<1>10. QED
  BY <1>2, <1>4, <1>5, <1>6, <1>7, <1>8, <1>9
     DEF Next, QuietStep, ReadStep, DeleteNat, UpdateNat, SetGateway, vars, natVars

LEMMA DoubledAlone ==
  ASSUME Current, [Next]_vars
  PROVE  doubled' = {}
<1>1. \A q \in Requests : Doubled(q) = {}
  BY DEF Current, Doubled
<1>2. CASE doubled' \subseteq doubled
  BY <1>2 DEF Current
<1>3. ASSUME NEW q \in Requests, NatTake(q) \/ GwIpTake(q) PROVE doubled' = {}
  BY <1>1, <1>3 DEF NatTake, GwIpTake
<1>4. ASSUME NEW q \in Requests, PortStep(q) PROVE UNCHANGED doubled
  BY <1>4 DEF PortStep, natVars
<1>5. QED
  BY <1>2, <1>3, <1>4
     DEF Next, NatCount, NatLook, NatPlan, NatReuse, NatAdopt, NatFindNone, GwIpLook,
         GwIpFindNone, RemoveLook, ClearGateway, RemoveGatewayIp, ClearDeletes,
         DeleteNat, UpdateNat, SetGateway, DeleteRouter, Refuse, Fail, vars, natVars

\* Where the API serves one request at a time the exceptions of RangesFree
\* and OneAddress never apply: the ranges are exact and no gateway port has
\* two addresses.  Only requests that overlap in time bring them about.
THEOREM AloneIsExact ==
  ASSUME \A x, y \in Requests : x = y
  PROVE  Spec => [](raced = FALSE /\ RangesFree /\ doubled = {} /\ OneAddress)
<1>1. GInit => Current
  BY NoAllocOK, NoReqOK DEF GInit, Init, Current
<1>2. Current /\ (Shape /\ Served) /\ [Next]_vars => Current'
  BY PoolAlone, ReqAlone, DoubledAlone DEF Current, PoolCurrent
<1>3. Current => raced = FALSE /\ doubled = {}
  BY DEF Current
<1>4. QED
  BY <1>1, <1>2, <1>3, ServedAlways, RangesSound, SingleAddress, PTL DEF Spec
=============================================================================
