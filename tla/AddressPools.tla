---------------------------- MODULE AddressPools ----------------------------
(***************************************************************************)
(* IP address allocation of neutron/db/db_base_plugin_v2.py on one subnet. *)
(*                                                                         *)
(* The tables are the state: the allocation pools, the availability        *)
(* ranges (addresses thought to be free) and the allocations.  A request   *)
(* that finds a range row locks it (with_lockmode('update')) and keeps the *)
(* lock until it commits, so its allocation is one step.  A request that   *)
(* finds no row has locked nothing: what it does next is a step of its     *)
(* own, and other requests may commit in between.  A failure of any kind   *)
(* rolls the transaction of its request back.                              *)
(***************************************************************************)
EXTENDS Naturals

CONSTANTS Last,       \* the addresses of the subnet are 1..Last
          Owners,     \* everything that can own an address
          Ports,      \* the ports of instances, created with an address
          Requests,   \* API requests in flight
          PoolSets,   \* the allocation pools a subnet may be given
          None

Addresses == 1..Last
Pairs == Addresses \X Addresses

ASSUME LastAssumption  == Last \in Nat
ASSUME PortsAssumption == Ports \subseteq Owners /\ None \notin Owners
ASSUME PoolsAssumption ==
    /\ PoolSets \subseteq SUBSET Pairs
    /\ \A ps \in PoolSets : \A p, o \in ps :
        p = o \/ (p[1]..p[2]) \cap (o[1]..o[2]) = {}

VARIABLES pools,    \* IPAllocationPool: pairs <<first_ip, last_ip>>
          ranges,   \* IPAvailabilityRange: pairs <<first_ip, last_ip>>
          used,     \* IPAllocation: the owner of each address, or None
          ports,    \* the ports that exist
          alloc,    \* how far the allocation of each request has come
          raced     \* history: a request stored or rebuilt from an old view

poolVars == <<pools, ranges, used, ports, alloc, raced>>

NoAlloc == [phase |-> "none", owner |-> None, addr |-> 0, seen |-> {},
            crossed |-> FALSE]

Span(pair) == pair[1]..pair[2]
InUse == {a \in Addresses : used[a] # None}

Available_mutAll(ps, taken) == ps

(* The maximal ranges of ps without the addresses of taken.                *)
Available(ps, taken) ==
    {g \in Pairs :
        /\ g[1] <= g[2]
        /\ Span(g) \cap taken = {}
        /\ \E p \in ps : /\ Span(g) \subseteq Span(p)
                         /\ g[1] = p[1] \/ g[1] - 1 \in taken
                         /\ g[2] = p[2] \/ g[2] + 1 \in taken}

Rest_mutKeepsEmpty(row, a) == {<<row[1], a - 1>>, <<a + 1, row[2]>>}

(* What is left of a row when address a is cut out of it.                  *)
Rest(row, a) == {g \in {<<row[1], a - 1>>, <<a + 1, row[2]>>} : g[1] <= g[2]}

(* The rows an address is cut out of; the rows that are left must be new,  *)
(* for the primary key is the pair.                                        *)
CutOut(rows, row, a) == (rows \ {row}) \cup Rest(row, a)
Fits(rows, row, a) == Rest(row, a) \cap (rows \ {row}) = {}

(* Rows of used locked by request q between its two queries.               *)
Locked(q) == IF alloc[q].phase = "rebuild" THEN alloc[q].seen ELSE {}
LockedByOthers_mutNone(q) == {}
LockedByOthers(q) == UNION {Locked(x) : x \in Requests \ {q}}

(* A commit of q: the allocations under way have now an old view.          *)
Crossed(q) ==
    [x \in Requests |->
        IF x = q THEN NoAlloc
        ELSE IF alloc[x].phase = "none" THEN alloc[x]
        ELSE [alloc[x] EXCEPT !.crossed = TRUE]]

TypeOK ==
    /\ pools \in PoolSets
    /\ ranges \subseteq Pairs
    /\ used \in [Addresses -> Owners \cup {None}]
    /\ ports \subseteq Ports
    /\ alloc \in [Requests ->
                    [phase : {"none", "empty", "rebuild", "store"},
                     owner : Owners \cup {None}, addr : Addresses \cup {0},
                     seen : SUBSET Addresses, crossed : BOOLEAN]]
    /\ raced \in BOOLEAN

Init ==
    /\ pools \in PoolSets
    /\ ranges = Available(pools, {})
    /\ used = [a \in Addresses |-> None]
    /\ ports = {}
    /\ alloc = [q \in Requests |-> NoAlloc]
    /\ raced = FALSE

(***************************************************************************)
(* The steps of an allocation                                              *)
(***************************************************************************)
(* The primary key of IPAllocation: an address in use is not stored again. *)
Store(q, o, a, rows) ==
    /\ used[a] = None
    /\ used' = [used EXCEPT ![a] = o]
    /\ ranges' = rows
    /\ alloc' = Crossed(q)
    /\ raced' = (raced \/ alloc[q].crossed)
    /\ UNCHANGED pools

TakeFirst(q, o, a) ==
    /\ alloc[q].phase = "none"
    /\ \E row \in ranges :
        /\ row[1] = a
        /\ Fits(ranges, row, a)
        /\ Store(q, o, a, CutOut(ranges, row, a))

FindNone(q, o) ==
    /\ alloc[q].phase = "none"
    /\ ranges = {}
    /\ alloc' = [alloc EXCEPT ![q] = [NoAlloc EXCEPT !.phase = "empty",
                                                     !.owner = o]]
    /\ UNCHANGED <<pools, ranges, used, raced>>

(* _rebuild_availability_ranges first reads and locks the allocations ...  *)
ReadAllocations(q) ==
    /\ alloc[q].phase = "empty"
    /\ InUse \cap LockedByOthers(q) = {}
    /\ alloc' = [alloc EXCEPT ![q].phase = "rebuild", ![q].seen = InUse]
    /\ UNCHANGED <<pools, ranges, used, ports, raced>>

Rebuilt(q) == Available(pools, alloc[q].seen)

(* ... then locks the pools, adds the ranges, and tries once more.         *)
RebuildTake(q, a) ==
    /\ alloc[q].phase = "rebuild"
    /\ Rebuilt(q) \cap ranges = {}
    /\ \E row \in ranges \cup Rebuilt(q) :
        /\ row[1] = a
        /\ Fits(ranges \cup Rebuilt(q), row, a)
        /\ Store(q, alloc[q].owner, a, CutOut(ranges \cup Rebuilt(q), row, a))

(* IpAddressGenerationFailure of the second try.                           *)
Exhausted(q) ==
    /\ alloc[q].phase = "rebuild"
    /\ ranges \cup Rebuilt(q) = {}
    /\ alloc' = [alloc EXCEPT ![q] = NoAlloc]
    /\ UNCHANGED <<pools, ranges, used, ports, raced>>

(* _allocate_specific_ip: the address is cut out of the range that has it. *)
SpecificTake(q, o, a) ==
    /\ alloc[q].phase = "none"
    /\ \E row \in ranges :
        /\ a \in Span(row)
        /\ Fits(ranges, row, a)
        /\ Store(q, o, a, CutOut(ranges, row, a))

(* No range has it: nothing is changed but the allocation.                 *)
SpecificLook(q, o, a) ==
    /\ alloc[q].phase = "none"
    /\ used[a] = None
    /\ \A row \in ranges : a \notin Span(row)
    /\ alloc' = [alloc EXCEPT ![q] = [NoAlloc EXCEPT !.phase = "store",
                                                     !.owner = o, !.addr = a]]
    /\ UNCHANGED <<pools, ranges, used, ports, raced>>

SpecificStore(q) ==
    /\ alloc[q].phase = "store"
    /\ Store(q, alloc[q].owner, alloc[q].addr, ranges)

(* Allocations are deleted; the ranges are not told.                       *)
Released(freed) == [a \in Addresses |-> IF a \in freed THEN None ELSE used[a]]
AddressesOf(o) == {a \in Addresses : used[a] = o}

(***************************************************************************)
(* Requests on ports and on the subnet                                     *)
(***************************************************************************)
NewPort(p) == p \notin ports /\ \A x \in Requests : alloc[x].owner # p

CreatePort(q, p) ==
    /\ NewPort(p)
    /\ \E a \in Addresses : TakeFirst(q, p, a) \/ SpecificTake(q, p, a)
    /\ ports' = ports \cup {p}

CreatePortWaits(q, p) ==
    /\ NewPort(p)
    /\ \/ FindNone(q, p) /\ UNCHANGED ports
       \/ \E a \in Addresses : SpecificLook(q, p, a)

CreatePortLate(q) ==
    /\ alloc[q].owner \in Ports
    /\ SpecificStore(q) \/ \E a \in Addresses : RebuildTake(q, a)
    /\ ports' = ports \cup {alloc[q].owner}

DeletePort(q, p) ==
    /\ alloc[q].phase = "none"
    /\ p \in ports
    /\ AddressesOf(p) \cap LockedByOthers(q) = {}
    /\ used' = Released(AddressesOf(p))
    /\ ports' = ports \ {p}
    /\ UNCHANGED <<pools, ranges, alloc, raced>>

(* update_subnet with new pools: the old ones go, and their ranges.        *)
UpdatePools(q, ps) ==
    /\ alloc[q].phase = "none"
    /\ InUse \cap LockedByOthers(q) = {}
    /\ pools' = ps
    /\ ranges' = Available(ps, InUse)
    /\ alloc' = Crossed(q)
    /\ UNCHANGED <<used, ports, raced>>

(***************************************************************************)
(* Properties                                                              *)
(***************************************************************************)
(* An availability range lies in a pool and holds no address in use, and   *)
(* no two ranges share an address - unless some request stored an address  *)
(* or rebuilt the ranges after another one had committed since it looked:  *)
(* such a request had found no range, and so had locked none.              *)
RangesFree ==
    raced \/ /\ \A g \in ranges : /\ g[1] <= g[2]
                                  /\ Span(g) \cap InUse = {}
                                  /\ \E p \in pools : Span(g) \subseteq Span(p)
             /\ \A g, h \in ranges : g = h \/ Span(g) \cap Span(h) = {}

(* A request is told that there are no addresses only while every address  *)
(* of the pools is in use: what it read before is locked.                  *)
HonestRefusal ==
    [][\A q \in Requests : Exhausted(q) =>
          \A p \in pools : Span(p) \subseteq InUse]_poolVars
=============================================================================
