------------------------- MODULE AddressPoolsProofs -------------------------
(***************************************************************************)
(* What the steps of AddressPools do to the ranges and the allocations,    *)
(* for any addresses, pools, owners and requests.                          *)
(***************************************************************************)
EXTENDS AddressPools, WellFoundedInduction, TLAPS

\* Rows that are not empty, hold nothing of taken, lie in a pool of ps and
\* share no address.
Sound(rows, taken, ps) ==
    /\ \A g \in rows : /\ g[1] <= g[2]
                       /\ Span(g) \cap taken = {}
                       /\ \E p \in ps : Span(g) \subseteq Span(p)
    /\ \A g, h \in rows : g = h \/ Span(g) \cap Span(h) = {}

\* What a request under way may rely on, as long as no other committed.
ViewOK(q) ==
    ~alloc[q].crossed =>
        /\ alloc[q].phase = "empty" => ranges = {}
        /\ alloc[q].phase = "rebuild" => ranges = {} /\ InUse \subseteq alloc[q].seen
        /\ alloc[q].phase = "store" => \A g \in ranges : alloc[q].addr \notin Span(g)

RangeInv ==
    ~raced => Sound(ranges, InUse, pools) /\ \A q \in Requests : ViewOK(q)

Allocs == [phase : {"none", "empty", "rebuild", "store"},
           owner : Owners \cup {None}, addr : Addresses \cup {0},
           seen : SUBSET Addresses, crossed : BOOLEAN]

-----------------------------------------------------------------------------
(* Rows.                                                                   *)

\* The ranges of a rebuild are sound, since the pools share no address.
LEMMA AvailableSound ==
  ASSUME NEW ps \in PoolSets, NEW taken \in SUBSET Addresses
  PROVE  /\ Available(ps, taken) \subseteq Pairs
         /\ Sound(Available(ps, taken), taken, ps)
<1> DEFINE rows == Available(ps, taken)
<1>1. \A g \in rows : /\ g \in Pairs /\ g[1] \in Nat /\ g[2] \in Nat /\ g[1] <= g[2]
                      /\ Span(g) \cap taken = {}
                      /\ \E p \in ps : /\ Span(g) \subseteq Span(p)
                                       /\ g[1] = p[1] \/ g[1] - 1 \in taken
                                       /\ g[2] = p[2] \/ g[2] + 1 \in taken
  BY LastAssumption DEF Available, Pairs, Addresses
<1>2. ASSUME NEW g \in rows, NEW h \in rows, NEW x \in Span(g) \cap Span(h)
      PROVE  g = h
  <2>1. PICK p \in ps : /\ Span(g) \subseteq Span(p)
                        /\ g[1] = p[1] \/ g[1] - 1 \in taken
                        /\ g[2] = p[2] \/ g[2] + 1 \in taken
    BY <1>1
  <2>2. PICK o \in ps : /\ Span(h) \subseteq Span(o)
                        /\ h[1] = o[1] \/ h[1] - 1 \in taken
                        /\ h[2] = o[2] \/ h[2] + 1 \in taken
    BY <1>1
  <2>3. p = o
    BY <1>2, <2>1, <2>2, PoolsAssumption DEF Span
  <2>4. /\ p[1] \in Nat /\ p[2] \in Nat
        /\ g[1] \in Nat /\ g[2] \in Nat /\ h[1] \in Nat /\ h[2] \in Nat
        /\ x \in Nat /\ g[1] <= x /\ x <= g[2] /\ h[1] <= x /\ x <= h[2]
        /\ g[1] <= g[2] /\ h[1] <= h[2]
    BY <1>1, <1>2, PoolsAssumption, LastAssumption DEF Span, Pairs, Addresses
  <2>5. p[1] <= g[1] /\ g[2] <= p[2] /\ p[1] <= h[1] /\ h[2] <= p[2]
    BY <2>1, <2>2, <2>3, <2>4 DEF Span
  <2>6. \A i \in Nat : /\ g[1] <= i /\ i <= g[2] => i \notin taken
                       /\ h[1] <= i /\ i <= h[2] => i \notin taken
    BY <1>1, <2>4 DEF Span
  <2>7. g[1] = h[1]
    <3>1. CASE g[1] < h[1]
      <4>1. h[1] - 1 \in Nat /\ g[1] <= h[1] - 1 /\ h[1] - 1 <= g[2]
        BY <2>4, <3>1
      <4>2. h[1] # p[1]
        BY <2>4, <2>5, <3>1
      <4>3. QED
        BY <2>2, <2>3, <2>6, <4>1, <4>2
    <3>2. CASE h[1] < g[1]
      <4>1. g[1] - 1 \in Nat /\ h[1] <= g[1] - 1 /\ g[1] - 1 <= h[2]
        BY <2>4, <3>2
      <4>2. g[1] # p[1]
        BY <2>4, <2>5, <3>2
      <4>3. QED
        BY <2>1, <2>6, <4>1, <4>2
    <3>3. QED
      BY <2>4, <3>1, <3>2
  <2>8. g[2] = h[2]
    <3>1. CASE g[2] < h[2]
      <4>1. g[2] + 1 \in Nat /\ h[1] <= g[2] + 1 /\ g[2] + 1 <= h[2]
        BY <2>4, <3>1
      <4>2. g[2] # p[2]
        BY <2>4, <2>5, <3>1
      <4>3. QED
        BY <2>1, <2>6, <4>1, <4>2
    <3>2. CASE h[2] < g[2]
      <4>1. h[2] + 1 \in Nat /\ g[1] <= h[2] + 1 /\ h[2] + 1 <= g[2]
        BY <2>4, <3>2
      <4>2. h[2] # p[2]
        BY <2>4, <2>5, <3>2
      <4>3. QED
        BY <2>2, <2>3, <2>6, <4>1, <4>2
    <3>3. QED
      BY <2>4, <3>1, <3>2
  <2>9. QED
    BY <1>1, <2>7, <2>8 DEF Pairs
<1>3. QED
  BY <1>1, <1>2 DEF Sound

\* Cutting an address out of a row leaves parts of rows, without it.
LEMMA CutOutParts ==
  ASSUME NEW rows \in SUBSET Pairs, NEW row \in rows,
         NEW a \in Addresses, a \in Span(row)
  PROVE  /\ CutOut(rows, row, a) \subseteq Pairs
         /\ \A g \in Rest(row, a) : /\ g[1] <= g[2]
                                    /\ Span(g) \subseteq Span(row)
                                    /\ a \notin Span(g)
         /\ \A g, h \in Rest(row, a) : g = h \/ Span(g) \cap Span(h) = {}
<1>1. /\ row[1] \in Nat /\ row[2] \in Nat /\ a \in Nat /\ row = <<row[1], row[2]>>
      /\ 1 <= row[1] /\ row[1] <= a /\ a <= row[2] /\ row[2] <= Last /\ Last \in Nat
  BY LastAssumption DEF Pairs, Addresses, Span
<1>2. ASSUME NEW g \in Rest(row, a)
      PROVE  \/ g = <<row[1], a - 1>> /\ row[1] <= a - 1
             \/ g = <<a + 1, row[2]>> /\ a + 1 <= row[2]
  BY <1>1 DEF Rest
<1>3. ASSUME NEW g \in Rest(row, a)
      PROVE  g \in Pairs /\ g[1] <= g[2] /\ Span(g) \subseteq Span(row) /\ a \notin Span(g)
  BY <1>1, <1>2 DEF Pairs, Addresses, Span
<1>4. ASSUME NEW g \in Rest(row, a), NEW h \in Rest(row, a), g # h
      PROVE  Span(g) \cap Span(h) = {}
  BY <1>1, <1>2, <1>4 DEF Span
<1>5. QED
  BY <1>3, <1>4 DEF CutOut

LEMMA CutOutSound ==
  ASSUME NEW rows \in SUBSET Pairs, NEW row \in rows,
         NEW a \in Addresses, a \in Span(row), NEW taken, NEW ps,
         Sound(rows, taken, ps)
  PROVE  Sound(CutOut(rows, row, a), taken \cup {a}, ps)
<1>1. ASSUME NEW g \in CutOut(rows, row, a)
      PROVE  /\ g[1] <= g[2] /\ Span(g) \cap (taken \cup {a}) = {}
             /\ \E p \in ps : Span(g) \subseteq Span(p)
  <2>1. CASE g \in rows \ {row}
    BY <2>1 DEF Sound
  <2>2. CASE g \in Rest(row, a)
    BY <2>2, CutOutParts DEF Sound
  <2>3. QED
    BY <2>1, <2>2 DEF CutOut
<1>2. ASSUME NEW g \in CutOut(rows, row, a), NEW h \in CutOut(rows, row, a), g # h
      PROVE  Span(g) \cap Span(h) = {}
  <2>1. CASE g \in rows \ {row} /\ h \in rows \ {row}
    BY <1>2, <2>1 DEF Sound
  <2>2. CASE g \in Rest(row, a) /\ h \in Rest(row, a)
    BY <1>2, <2>2, CutOutParts
  <2>3. CASE g \in rows \ {row} /\ h \in Rest(row, a)
    BY <2>3, CutOutParts DEF Sound
  <2>4. CASE h \in rows \ {row} /\ g \in Rest(row, a)
    BY <2>4, CutOutParts DEF Sound
  <2>5. QED
    BY <2>1, <2>2, <2>3, <2>4 DEF CutOut
<1>3. QED
  BY <1>1, <1>2 DEF Sound

LEMMA SoundFewer ==
  ASSUME NEW rows, NEW taken, NEW few, NEW ps, few \subseteq taken, Sound(rows, taken, ps)
  PROVE  Sound(rows, few, ps)
  BY DEF Sound

-----------------------------------------------------------------------------
(* Steps.                                                                  *)

PoolTypeOK ==
    /\ pools \in PoolSets
    /\ ranges \subseteq Pairs
    /\ used \in [Addresses -> Owners \cup {None}]
    /\ alloc \in [Requests -> Allocs]
    /\ raced \in BOOLEAN

LEMMA TypeSplit == TypeOK <=> PoolTypeOK /\ ports \subseteq Ports
  BY DEF TypeOK, PoolTypeOK, Allocs

LEMMA NoAllocOK == /\ NoAlloc \in Allocs /\ NoAlloc.phase = "none"
                   /\ NoAlloc.crossed = FALSE
  BY DEF NoAlloc, Allocs

\* A commit of q leaves the others where they are, with an old view.
LEMMA CrossedOK ==
  ASSUME NEW q \in Requests, alloc \in [Requests -> Allocs]
  PROVE  /\ Crossed(q) \in [Requests -> Allocs]
         /\ Crossed(q)[q] = NoAlloc
         /\ \A x \in Requests \ {q} :
              /\ alloc[x].phase = "none" => Crossed(q)[x] = alloc[x]
              /\ alloc[x].phase # "none" =>
                    /\ Crossed(q)[x].crossed = TRUE
                    /\ Crossed(q)[x].phase = alloc[x].phase
                    /\ Crossed(q)[x].owner = alloc[x].owner
                    /\ Crossed(q)[x].addr = alloc[x].addr
                    /\ Crossed(q)[x].seen = alloc[x].seen
<1>1. \A x \in Requests : alloc[x] \in Allocs
  OBVIOUS
<1>2. ASSUME NEW x \in Requests, x # q, alloc[x].phase # "none"
      PROVE  Crossed(q)[x] = [alloc[x] EXCEPT !.crossed = TRUE]
  BY <1>2 DEF Crossed
<1>3. ASSUME NEW c \in Allocs
      PROVE  LET d == [c EXCEPT !.crossed = TRUE] IN
             /\ d \in Allocs /\ d.crossed = TRUE /\ d.phase = c.phase
             /\ d.owner = c.owner /\ d.addr = c.addr /\ d.seen = c.seen
  BY DEF Allocs
<1>4. ASSUME NEW x \in Requests, x = q \/ alloc[x].phase = "none"
      PROVE  Crossed(q)[x] = IF x = q THEN NoAlloc ELSE alloc[x]
  BY <1>4 DEF Crossed
<1>5. \A x \in Requests : Crossed(q)[x] \in Allocs
  BY <1>1, <1>2, <1>3, <1>4, NoAllocOK
<1>6. Crossed(q) \in [Requests -> Allocs]
  BY <1>5 DEF Crossed
<1>7. QED
  BY <1>1, <1>2, <1>3, <1>4, <1>6

LEMMA StoreKeeps ==
  ASSUME PoolTypeOK, NEW q \in Requests, NEW o \in Owners, NEW a \in Addresses,
         NEW rows \in SUBSET Pairs, Store(q, o, a, rows)
  PROVE  /\ PoolTypeOK'
         /\ InUse' = InUse \cup {a}
         /\ (/\ RangeInv
             /\ ~raced /\ ~alloc[q].crossed => Sound(rows, InUse \cup {a}, pools))
            => RangeInv'
<1>1. /\ used' = [used EXCEPT ![a] = o] /\ ranges' = rows /\ pools' = pools
      /\ alloc' = Crossed(q) /\ used[a] = None
      /\ raced' = (raced \/ alloc[q].crossed)
  BY DEF Store
<1>2. alloc[q].crossed \in BOOLEAN
  BY DEF PoolTypeOK, Allocs
<1>3. PoolTypeOK'
  BY <1>1, <1>2, CrossedOK DEF PoolTypeOK
<1>4. InUse' = InUse \cup {a}
  BY <1>1, PortsAssumption DEF InUse, PoolTypeOK
<1>5. ASSUME RangeInv, ~raced /\ ~alloc[q].crossed => Sound(rows, InUse \cup {a}, pools),
             ~raced'
      PROVE  Sound(ranges, InUse, pools)' /\ \A x \in Requests : ViewOK(x)'
  <2>1. ~raced /\ ~alloc[q].crossed
    BY <1>1, <1>2, <1>5
  <2>2. Sound(ranges', InUse', pools')
    BY <1>1, <1>4, <1>5, <2>1
  <2>3. ASSUME NEW x \in Requests PROVE ViewOK(x)'
    <3>1. alloc'[x].phase = "none" \/ alloc'[x].crossed = TRUE
      BY <1>1, CrossedOK, NoAllocOK DEF PoolTypeOK
    <3>2. QED
      BY <3>1 DEF ViewOK
  <2>4. QED
    BY <2>2, <2>3 DEF Sound, Span
<1>6. QED
  BY <1>3, <1>4, <1>5 DEF RangeInv

\* Every way to take an address stores it for its owner.
Taken(q, o, a) ==
    /\ used[a] = None
    /\ used' = [used EXCEPT ![a] = o]
    /\ alloc' = Crossed(q)

LEMMA TakeFirstKeeps ==
  ASSUME PoolTypeOK, NEW q \in Requests, NEW o \in Owners, NEW a \in Addresses,
         TakeFirst(q, o, a)
  PROVE  Taken(q, o, a) /\ PoolTypeOK' /\ (RangeInv => RangeInv')
<1>1. PICK row \in ranges : /\ row[1] = a
                            /\ Store(q, o, a, CutOut(ranges, row, a))
  BY DEF TakeFirst
<1>2. CASE a \in Span(row)
  <2>1. CutOut(ranges, row, a) \in SUBSET Pairs
    BY <1>2, CutOutParts DEF PoolTypeOK
  <2>2. RangeInv /\ ~raced => Sound(CutOut(ranges, row, a), InUse \cup {a}, pools)
    BY <1>2, CutOutSound DEF RangeInv, PoolTypeOK
  <2>3. QED
    BY <1>1, <2>1, <2>2, StoreKeeps DEF Taken, Store
<1>3. CASE a \notin Span(row)
  <2>1. ~(row[1] <= row[2])
    BY <1>1, <1>3, LastAssumption DEF PoolTypeOK, Pairs, Addresses, Span
  <2>2. CutOut(ranges, row, a) \in SUBSET Pairs
    BY <1>1, <2>1, LastAssumption DEF CutOut, Rest, Pairs, Addresses, PoolTypeOK
  <2>3. RangeInv => raced
    BY <2>1 DEF RangeInv, Sound
  <2>4. QED
    BY <1>1, <2>2, <2>3, StoreKeeps DEF Taken, Store
<1>4. QED
  BY <1>2, <1>3

LEMMA RebuildTakeKeeps ==
  ASSUME PoolTypeOK, NEW q \in Requests, NEW a \in Addresses,
         alloc[q].owner \in Owners, RebuildTake(q, a)
  PROVE  Taken(q, alloc[q].owner, a) /\ PoolTypeOK' /\ (RangeInv => RangeInv')
<1> DEFINE rows == ranges \cup Rebuilt(q)
<1>1. PICK row \in rows : /\ row[1] = a
                          /\ Store(q, alloc[q].owner, a, CutOut(rows, row, a))
  BY DEF RebuildTake
<1>2. alloc[q].phase = "rebuild" /\ alloc[q].seen \subseteq Addresses
  BY DEF RebuildTake, PoolTypeOK, Allocs
<1>3. Rebuilt(q) \subseteq Pairs /\ Sound(Rebuilt(q), alloc[q].seen, pools)
  BY <1>2, AvailableSound DEF Rebuilt, PoolTypeOK
<1>4. rows \in SUBSET Pairs
  BY <1>3 DEF PoolTypeOK
<1>5. ASSUME RangeInv, ~raced, ~alloc[q].crossed
      PROVE  Sound(rows, InUse, pools)
  <2>1. ranges = {} /\ InUse \subseteq alloc[q].seen
    BY <1>2, <1>5 DEF RangeInv, ViewOK
  <2>2. QED
    BY <1>3, <2>1, SoundFewer
<1> HIDE DEF rows
<1>6. CASE a \in Span(row)
  <2>1. CutOut(rows, row, a) \in SUBSET Pairs
    BY <1>4, <1>6, CutOutParts
  <2>2. RangeInv /\ ~raced /\ ~alloc[q].crossed
        => Sound(CutOut(rows, row, a), InUse \cup {a}, pools)
    BY <1>4, <1>5, <1>6, CutOutSound
  <2>3. QED
    BY <1>1, <2>1, <2>2, StoreKeeps DEF Taken, Store
<1>7. CASE a \notin Span(row)
  <2>1. ~(row[1] <= row[2])
    BY <1>1, <1>4, <1>7, LastAssumption DEF Pairs, Addresses, Span
  <2>2. CutOut(rows, row, a) \in SUBSET Pairs
    BY <1>1, <1>4, <2>1, LastAssumption DEF CutOut, Rest, Pairs, Addresses
  <2>3. ~(RangeInv /\ ~raced /\ ~alloc[q].crossed)
    BY <1>5, <2>1 DEF Sound
  <2>4. QED
    BY <1>1, <2>2, <2>3, StoreKeeps DEF Taken, Store
<1>8. QED
  BY <1>6, <1>7

LEMMA SpecificTakeKeeps ==
  ASSUME PoolTypeOK, NEW q \in Requests, NEW o \in Owners, NEW a \in Addresses,
         SpecificTake(q, o, a)
  PROVE  Taken(q, o, a) /\ PoolTypeOK' /\ (RangeInv => RangeInv')
<1>1. PICK row \in ranges : /\ a \in Span(row)
                            /\ Store(q, o, a, CutOut(ranges, row, a))
  BY DEF SpecificTake
<1>2. CutOut(ranges, row, a) \in SUBSET Pairs
  BY <1>1, CutOutParts DEF PoolTypeOK
<1>3. RangeInv /\ ~raced => Sound(CutOut(ranges, row, a), InUse \cup {a}, pools)
  BY <1>1, CutOutSound DEF RangeInv, PoolTypeOK
<1>4. QED
  BY <1>1, <1>2, <1>3, StoreKeeps DEF Taken, Store

LEMMA SpecificStoreKeeps ==
  ASSUME PoolTypeOK, NEW q \in Requests, alloc[q].owner \in Owners,
         alloc[q].addr \in Addresses, SpecificStore(q)
  PROVE  /\ Taken(q, alloc[q].owner, alloc[q].addr)
         /\ PoolTypeOK' /\ (RangeInv => RangeInv')
<1> DEFINE a == alloc[q].addr
<1>1. Store(q, alloc[q].owner, a, ranges) /\ alloc[q].phase = "store"
  BY DEF SpecificStore
<1>2. RangeInv /\ ~raced /\ ~alloc[q].crossed => Sound(ranges, InUse \cup {a}, pools)
  BY <1>1 DEF RangeInv, ViewOK, Sound
<1>3. QED
  BY <1>1, <1>2, StoreKeeps DEF Taken, Store, PoolTypeOK

\* Allocations that are deleted and requests that end spoil no view.
LEMMA ShrinkKeeps ==
  ASSUME PoolTypeOK, UNCHANGED <<pools, ranges, raced>>,
         used' \in [Addresses -> Owners \cup {None}],
         \A a \in Addresses : used'[a] \in {used[a], None},
         alloc' \in [Requests -> Allocs],
         \A x \in Requests : alloc'[x] = alloc[x] \/ alloc'[x] = NoAlloc
  PROVE  PoolTypeOK' /\ (RangeInv => RangeInv')
<1>1. PoolTypeOK'
  BY DEF PoolTypeOK
<1>2. InUse' \subseteq InUse
  BY DEF InUse
<1>3. ASSUME RangeInv, ~raced'
      PROVE  Sound(ranges, InUse, pools)' /\ \A x \in Requests : ViewOK(x)'
  <2>1. Sound(ranges, InUse, pools)'
    BY <1>2, <1>3 DEF RangeInv, Sound, Span
  <2>2. ASSUME NEW x \in Requests PROVE ViewOK(x)'
    BY <1>2, <1>3, NoAllocOK DEF RangeInv, ViewOK, Span
  <2>3. QED
    BY <2>1, <2>2
<1>4. QED
  BY <1>1, <1>3 DEF RangeInv

LEMMA FindNoneKeeps ==
  ASSUME PoolTypeOK, NEW q \in Requests, NEW o \in Owners, FindNone(q, o)
  PROVE  PoolTypeOK' /\ (RangeInv => RangeInv')
<1> DEFINE c == [NoAlloc EXCEPT !.phase = "empty", !.owner = o]
<1>1. c \in Allocs /\ c.phase = "empty"
  BY DEF NoAlloc, Allocs
<1>2. ranges = {} /\ alloc' = [alloc EXCEPT ![q] = c]
      /\ UNCHANGED <<pools, ranges, used, raced>>
  BY DEF FindNone
<1> HIDE DEF c
<1>3. PoolTypeOK'
  BY <1>1, <1>2 DEF PoolTypeOK
<1>4. InUse' = InUse
  BY <1>2 DEF InUse
<1>5. RangeInv => RangeInv'
  BY <1>1, <1>2, <1>4 DEF RangeInv, ViewOK, Sound, Span, PoolTypeOK
<1>6. QED
  BY <1>3, <1>5

LEMMA ReadAllocationsKeeps ==
  ASSUME PoolTypeOK, NEW q \in Requests, ReadAllocations(q)
  PROVE  PoolTypeOK' /\ (RangeInv => RangeInv')
<1> DEFINE c == [alloc[q] EXCEPT !.phase = "rebuild", !.seen = InUse]
<1>1. /\ c \in Allocs /\ c.phase = "rebuild" /\ c.seen = InUse
      /\ c.crossed = alloc[q].crossed /\ alloc[q].phase = "empty"
  BY DEF PoolTypeOK, Allocs, ReadAllocations, InUse
<1>2. alloc' = [alloc EXCEPT ![q] = c] /\ UNCHANGED <<pools, ranges, used, raced>>
  BY DEF ReadAllocations, PoolTypeOK, Allocs
<1> HIDE DEF c
<1>3. PoolTypeOK'
  BY <1>1, <1>2 DEF PoolTypeOK
<1>4. InUse' = InUse
  BY <1>2 DEF InUse
<1>5. RangeInv => RangeInv'
  BY <1>1, <1>2, <1>4 DEF RangeInv, ViewOK, Sound, Span, PoolTypeOK
<1>6. QED
  BY <1>3, <1>5

LEMMA SpecificLookKeeps ==
  ASSUME PoolTypeOK, NEW q \in Requests, NEW o \in Owners, NEW a \in Addresses,
         SpecificLook(q, o, a)
  PROVE  PoolTypeOK' /\ (RangeInv => RangeInv')
<1> DEFINE c == [NoAlloc EXCEPT !.phase = "store", !.owner = o, !.addr = a]
<1>1. c \in Allocs /\ c.phase = "store" /\ c.addr = a
  BY DEF NoAlloc, Allocs
<1>2. alloc' = [alloc EXCEPT ![q] = c] /\ UNCHANGED <<pools, ranges, used, raced>>
      /\ \A g \in ranges : a \notin Span(g)
  BY DEF SpecificLook
<1> HIDE DEF c
<1>3. PoolTypeOK'
  BY <1>1, <1>2 DEF PoolTypeOK
<1>4. InUse' = InUse
  BY <1>2 DEF InUse
<1>5. RangeInv => RangeInv'
  BY <1>1, <1>2, <1>4 DEF RangeInv, ViewOK, Sound, Span, PoolTypeOK
<1>6. QED
  BY <1>3, <1>5

LEMMA UpdatePoolsKeeps ==
  ASSUME PoolTypeOK, NEW q \in Requests, NEW ps \in PoolSets, UpdatePools(q, ps)
  PROVE  PoolTypeOK' /\ (RangeInv => RangeInv')
<1>1. /\ pools' = ps /\ ranges' = Available(ps, InUse) /\ alloc' = Crossed(q)
      /\ UNCHANGED <<used, raced>>
  BY DEF UpdatePools
<1>2. InUse' = InUse /\ InUse \in SUBSET Addresses
  BY <1>1 DEF InUse
<1>3. ranges' \subseteq Pairs /\ Sound(ranges', InUse', pools')
  BY <1>1, <1>2, AvailableSound
<1>4. PoolTypeOK'
  BY <1>1, <1>3, CrossedOK DEF PoolTypeOK
<1>5. ASSUME NEW x \in Requests PROVE ViewOK(x)'
  <2>1. alloc'[x].phase = "none" \/ alloc'[x].crossed = TRUE
    BY <1>1, CrossedOK, NoAllocOK DEF PoolTypeOK
  <2>2. QED
    BY <2>1 DEF ViewOK
<1>6. RangeInv'
  BY <1>3, <1>5 DEF RangeInv, Sound, Span
<1>7. QED
  BY <1>4, <1>6

-----------------------------------------------------------------------------
(* A request that is refused.                                              *)

\* Every set of natural numbers that is not empty has a least element.
LEMMA LeastElement ==
  ASSUME NEW S \in SUBSET Nat, S # {}
  PROVE  \E x \in S : \A y \in S : x <= y
<1> DEFINE R == {p \in Nat \X Nat : p[1] < p[2]}
<1>1. IsWellFoundedOn(R, Nat)
  BY NatLessThanWellFounded, Zenon DEF OpToRel
<1>2. \A x \in Nat, y \in Nat : y < x => <<y, x>> \in R
  OBVIOUS
<1>3. PICK x \in S : \A y \in S : ~ (<<y, x>> \in R)
  <2>1. S \subseteq Nat
    OBVIOUS
  <2> HIDE DEF R
  <2>2. QED
    BY <1>1, <2>1, WFMin, Zenon
<1> HIDE DEF R
<1>4. ASSUME NEW y \in S PROVE x <= y
  <2>1. x \in Nat /\ y \in Nat
    OBVIOUS
  <2>2. ~(y < x)
    BY <1>2, <1>3, <2>1
  <2>3. QED
    BY <2>1, <2>2
<1>5. QED
  BY <1>4

\* The ranges of a rebuild miss no free address of the pools.
LEMMA AvailableWhole ==
  ASSUME NEW ps \in PoolSets, NEW taken \in SUBSET Addresses,
         NEW p \in ps, NEW a \in Span(p), a \notin taken
  PROVE  \E g \in Available(ps, taken) : a \in Span(g)
<1>1. /\ Last \in Nat /\ p[1] \in Addresses /\ p[2] \in Addresses
      /\ p[1] \in Nat /\ p[2] \in Nat /\ a \in Nat /\ p[1] <= a /\ a <= p[2]
  BY PoolsAssumption, LastAssumption DEF Span, Pairs, Addresses
<1> DEFINE below == {x \in p[1] .. a : \A i \in x .. a : i \notin taken}
           above == {y \in a .. p[2] : y = p[2] \/ y + 1 \in taken}
<1>2. PICK l \in below : \A x \in below : l <= x
  <2>1. a \in below
    BY <1>1
  <2>2. below \in SUBSET Nat
    BY <1>1
  <2> HIDE DEF below
  <2>3. QED
    BY <2>1, <2>2, LeastElement
<1>3. PICK u \in above : \A y \in above : u <= y
  <2>1. p[2] \in above
    BY <1>1
  <2>2. above \in SUBSET Nat
    BY <1>1
  <2> HIDE DEF above
  <2>3. QED
    BY <2>1, <2>2, LeastElement
<1>4. /\ l \in Nat /\ u \in Nat /\ p[1] <= l /\ l <= a /\ a <= u /\ u <= p[2]
      /\ l \in Addresses /\ u \in Addresses
  BY <1>1, <1>2, <1>3 DEF Addresses
<1>5. l = p[1] \/ l - 1 \in taken
  <2>1. SUFFICES ASSUME l # p[1], l - 1 \notin taken PROVE FALSE
    OBVIOUS
  <2>2. l - 1 \in p[1] .. a
    BY <1>1, <1>4, <2>1
  <2>3. ASSUME NEW i \in (l - 1) .. a PROVE i \notin taken
    <3>1. i = l - 1 \/ i \in l .. a
      BY <1>1, <1>4, <2>2
    <3>2. QED
      BY <1>2, <2>1, <3>1
  <2>4. l - 1 \in below
    BY <2>2, <2>3
  <2>5. QED
    BY <1>2, <1>4, <2>2, <2>4
<1>6. u = p[2] \/ u + 1 \in taken
  BY <1>3
<1>7. ASSUME NEW i \in l .. u PROVE i \notin taken
  <2>1. CASE i <= a
    BY <1>1, <1>2, <1>4, <2>1
  <2>2. CASE ~(i <= a)
    <3>1. i - 1 \in a .. p[2] /\ (i - 1) + 1 = i /\ i - 1 < u /\ i - 1 \in Nat
      BY <1>1, <1>4, <2>2
    <3>2. i - 1 \notin above
      BY <1>3, <1>4, <3>1
    <3>3. QED
      BY <3>1, <3>2
  <2>3. QED
    BY <2>1, <2>2
<1>8. <<l, u>> \in Pairs /\ <<l, u>>[1] = l /\ <<l, u>>[2] = u
  BY <1>4 DEF Pairs
<1>9. l <= u /\ Span(<<l, u>>) \cap taken = {} /\ Span(<<l, u>>) \subseteq Span(p)
  BY <1>1, <1>4, <1>7 DEF Span
<1>10. <<l, u>> \in Available(ps, taken)
  BY <1>5, <1>6, <1>8, <1>9 DEF Available
<1>11. QED
  BY <1>1, <1>4, <1>10 DEF Span

\* What a rebuild has read is locked, and nobody gives it back.
LockInv == \A q \in Requests : Locked(q) \subseteq InUse

LEMMA RefusedHonestly ==
  ASSUME PoolTypeOK, LockInv, NEW q \in Requests, Exhausted(q), NEW p \in pools
  PROVE  Span(p) \subseteq InUse
<1>1. /\ Available(pools, alloc[q].seen) = {} /\ alloc[q].seen \subseteq InUse
      /\ pools \in PoolSets /\ alloc[q].seen \in SUBSET Addresses
  BY DEF Exhausted, Rebuilt, LockInv, Locked, PoolTypeOK, Allocs
<1>2. ASSUME NEW a \in Span(p) PROVE a \in alloc[q].seen
  BY <1>1, AvailableWhole
<1>3. QED
  BY <1>1, <1>2

\* Steps of others leave the lock of x where it is.
HoldsLock(x) == \/ alloc'[x].phase # "rebuild"
                \/ alloc[x].phase = "rebuild" /\ alloc'[x].seen = alloc[x].seen

LEMMA LocksKept ==
  ASSUME LockInv, \A x \in Requests : HoldsLock(x),
         \A x \in Requests : \A a \in Locked(x) : a \in InUse => a \in InUse'
  PROVE  LockInv'
  BY DEF LockInv, Locked, HoldsLock

\* What a request may release is not locked by another, nor by itself.
LEMMA ReleaseUnlocked ==
  ASSUME PoolTypeOK, LockInv, NEW freed, used' = Released(freed),
         \A x \in Requests : freed \cap Locked(x) = {},
         \A x \in Requests : alloc'[x] = alloc[x] \/ alloc'[x] = NoAlloc
  PROVE  LockInv'
<1>1. \A x \in Requests : HoldsLock(x)
  BY NoAllocOK DEF HoldsLock
<1>2. \A x \in Requests : \A a \in Locked(x) : a \in InUse => a \in InUse'
  BY DEF Released, InUse
<1>3. QED
  BY <1>1, <1>2, LocksKept

LEMMA CommitLocked ==
  ASSUME PoolTypeOK, LockInv, NEW q \in Requests, alloc' = Crossed(q), InUse \subseteq InUse'
  PROVE  LockInv'
<1>1. \A x \in Requests : HoldsLock(x)
  BY CrossedOK, NoAllocOK DEF HoldsLock, PoolTypeOK
<1>2. QED
  BY <1>1, LocksKept

LEMMA ReadLocked ==
  ASSUME PoolTypeOK, LockInv, NEW q \in Requests, ReadAllocations(q)
  PROVE  LockInv'
<1>1. UNCHANGED used /\ InUse' = InUse
  BY DEF ReadAllocations, InUse
<1>2. ASSUME NEW x \in Requests PROVE Locked(x)' \subseteq InUse
  <2>1. CASE x = q
    BY <2>1 DEF ReadAllocations, PoolTypeOK, Allocs, Locked
  <2>2. CASE x # q
    <3>1. alloc'[x] = alloc[x]
      BY <2>2 DEF ReadAllocations, PoolTypeOK
    <3>2. QED
      BY <3>1 DEF LockInv, Locked
  <2>3. QED
    BY <2>1, <2>2
<1>3. QED
  BY <1>1, <1>2 DEF LockInv
=============================================================================
