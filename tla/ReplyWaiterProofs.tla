------------------------- MODULE ReplyWaiterProofs -------------------------
(* Proofs about ReplyWaiter, for any calls, timeouts and redeliveries.     *)
EXTENDS ReplyWaiter, TLAPS

-----------------------------------------------------------------------------
(* Sequences of messages.                                                  *)

Rep(c) == [id |-> c, kind |-> "reply"]
Fin(c) == [id |-> c, kind |-> "ending"]

\* Every ending of call c in s comes after a reply to it.
Led(s, c) == \A i \in 1..Len(s) :
                s[i] = Fin(c) => \E j \in 1..Len(s) : j < i /\ s[j] = Rep(c)

LEMMA AppendFacts ==
    ASSUME NEW S, NEW s \in Seq(S), NEW e \in S
    PROVE  /\ Append(s, e) \in Seq(S) /\ Append(s, e) # <<>>
           /\ Len(s) \in Nat /\ Len(Append(s, e)) = Len(s) + 1
           /\ Append(s, e)[Len(s) + 1] = e
           /\ \A i \in 1..Len(s) : Append(s, e)[i] = s[i]
OBVIOUS

LEMMA TailFacts ==
    ASSUME NEW S, NEW s \in Seq(S), s # <<>>
    PROVE  /\ Tail(s) \in Seq(S) /\ Head(s) \in S
           /\ Len(s) \in Nat \ {0} /\ Len(Tail(s)) = Len(s) - 1 /\ Head(s) = s[1]
           /\ \A i \in 1..Len(Tail(s)) : Tail(s)[i] = s[i + 1] /\ i + 1 \in 1..Len(s)
           /\ \A i \in 1..Len(s) : i # 1 => i - 1 \in 1..Len(Tail(s)) /\ Tail(s)[i - 1] = s[i]
OBVIOUS

LEMMA WithinAppend ==
    ASSUME NEW S, NEW s \in Seq(S), NEW e \in S, NEW m
    PROVE  Within(Append(s, e), m) <=> (Within(s, m) \/ e = m)
<1>1. ASSUME Within(s, m) \/ e = m PROVE Within(Append(s, e), m)
  <2>1. Len(s) + 1 \in 1..Len(Append(s, e)) /\ 1..Len(s) \subseteq 1..Len(Append(s, e))
    BY AppendFacts
  <2> QED  BY <1>1, <2>1, AppendFacts DEF Within
<1>2. ASSUME Within(Append(s, e), m) PROVE Within(s, m) \/ e = m
  <2>1. PICK i \in 1..Len(Append(s, e)) : Append(s, e)[i] = m
    BY <1>2 DEF Within
  <2>2. i \in 1..Len(s) \/ i = Len(s) + 1
    BY AppendFacts
  <2> QED  BY <2>1, <2>2, AppendFacts DEF Within
<1> QED  BY <1>1, <1>2

LEMMA WithinTail ==
    ASSUME NEW S, NEW s \in Seq(S), s # <<>>, NEW m
    PROVE  Within(s, m) <=> (Head(s) = m \/ Within(Tail(s), m))
<1>1. ASSUME Within(s, m) PROVE Head(s) = m \/ Within(Tail(s), m)
  <2>1. PICK i \in 1..Len(s) : s[i] = m
    BY <1>1 DEF Within
  <2> QED  BY <2>1, TailFacts DEF Within
<1>2. ASSUME Head(s) = m PROVE Within(s, m)
  <2>1. 1 \in 1..Len(s)
    BY TailFacts
  <2> QED  BY <1>2, <2>1, TailFacts DEF Within
<1>3. ASSUME Within(Tail(s), m) PROVE Within(s, m)
  <2>1. PICK i \in 1..Len(Tail(s)) : Tail(s)[i] = m
    BY <1>3 DEF Within
  <2> QED  BY <2>1, TailFacts DEF Within
<1> QED  BY <1>1, <1>2, <1>3

LEMMA LedAppend ==
    ASSUME NEW S, NEW s \in Seq(S), NEW e \in S, NEW c, Led(s, c),
           e = Fin(c) => Within(s, Rep(c))
    PROVE  Led(Append(s, e), c)
<1> SUFFICES ASSUME NEW i \in 1..Len(Append(s, e)), Append(s, e)[i] = Fin(c)
             PROVE  \E j \in 1..Len(Append(s, e)) : j < i /\ Append(s, e)[j] = Rep(c)
  BY DEF Led
<1>1. Len(s) \in Nat /\ Len(Append(s, e)) = Len(s) + 1
  BY AppendFacts
<1>2. PICK j \in 1..Len(s) : j < i /\ s[j] = Rep(c)
  <2>1. CASE i \in 1..Len(s)
    BY <2>1, AppendFacts DEF Led
  <2>2. CASE i = Len(s) + 1
    BY <1>1, <2>2, AppendFacts DEF Within
  <2> QED  BY <1>1, <2>1, <2>2
<1> QED  BY <1>1, <1>2, AppendFacts

LEMMA LedTail ==
    ASSUME NEW S, NEW s \in Seq(S), s # <<>>, NEW c, Led(s, c)
    PROVE  /\ Head(s) # Fin(c)
           /\ Head(s) # Rep(c) => Led(Tail(s), c)
<1>1. Head(s) # Fin(c)
  <2>1. 1 \in 1..Len(s) /\ \A j \in 1..Len(s) : ~(j < 1)
    BY TailFacts
  <2> QED  BY <2>1, TailFacts DEF Led
<1>2. ASSUME Head(s) # Rep(c), NEW i \in 1..Len(Tail(s)), Tail(s)[i] = Fin(c)
      PROVE  \E j \in 1..Len(Tail(s)) : j < i /\ Tail(s)[j] = Rep(c)
  <2>1. i + 1 \in 1..Len(s) /\ s[i + 1] = Fin(c)
    BY <1>2, TailFacts
  <2>2. PICK j \in 1..Len(s) : j < i + 1 /\ s[j] = Rep(c)
    BY <2>1 DEF Led
  <2>3. j # 1
    BY <1>2, <2>2, TailFacts
  <2>4. j - 1 \in 1..Len(Tail(s)) /\ Tail(s)[j - 1] = Rep(c)
    BY <2>2, <2>3, TailFacts
  <2>5. j - 1 < i
    BY <2>2, <2>4
  <2> QED  BY <2>4, <2>5
<1> QED  BY <1>1, <1>2 DEF Led

LEMMA LedNone == ASSUME NEW s, NEW c, ~Within(s, Fin(c)) PROVE Led(s, c)
BY DEF Within, Led

LEMMA NoneWithin == \A m : ~Within(<<>>, m)
BY DEF Within

-----------------------------------------------------------------------------
(* Types.                                                                  *)

LEMMA Made ==
    \A c \in Calls : Rep(c) \in Messages /\ Fin(c) \in Messages /\ WakeUp(c) \in Items
BY DEF Rep, Fin, WakeUp, Messages, Items

LEMMA MessageFacts ==
    ASSUME NEW m \in Messages
    PROVE  /\ m \in Items /\ m.id \in Calls /\ m.kind \in {"reply", "ending"}
           /\ m.kind = "reply" => m = Rep(m.id)
           /\ m.kind = "ending" => m = Fin(m.id)
BY DEF Messages, Items, Rep, Fin

LEMMA PutType ==
    ASSUME TypeOK, NEW i \in Calls, NEW item \in Items, Put(i, item)
    PROVE  queue' \in [Calls -> Seq(Items)]
<1>1. Append(queue[i], item) \in Seq(Items)
  BY AppendFacts DEF TypeOK
<1> QED  BY <1>1 DEF Put, TypeOK

LEMMA TookType ==
    ASSUME TypeOK, NEW c \in Calls, Took(c)
    PROVE  queue' \in [Calls -> Seq(Items)] /\ Head(queue[c]) \in Items
<1>1. Tail(queue[c]) \in Seq(Items) /\ Head(queue[c]) \in Items
  BY TailFacts DEF TypeOK, Took
<1> QED  BY <1>1 DEF Took, TypeOK

LEMMA ProcessedType ==
    ASSUME TypeOK, NEW c \in Calls, NEW m, m.id \in Calls, NEW p \in Places, NEW q \in Places,
           Processed(c, m, p, q)
    PROVE  /\ at' \in [Calls -> Places] /\ final' \in [Calls -> Calls \cup {NoCall}]
           /\ outcome' \in [Calls -> {"pending", "returned", "timeout", "failed"}]
<1>1. at' \in [Calls -> Places]
  BY DEF TypeOK, Processed, Goes
<1>2. final' \in [Calls -> Calls \cup {NoCall}]
  <2>1. [final EXCEPT ![c] = m.id] \in [Calls -> Calls \cup {NoCall}]
    BY DEF TypeOK
  <2> QED  BY <2>1 DEF TypeOK, Processed
<1>3. outcome' \in [Calls -> {"pending", "returned", "timeout", "failed"}]
  BY DEF TypeOK, Processed
<1> QED  BY <1>1, <1>2, <1>3

LEMMA GoesFacts ==
    ASSUME TypeOK, NEW c \in Calls, NEW p \in Places, Goes(c, p)
    PROVE  /\ at' \in [Calls -> Places]
           /\ at'[c] = p /\ \A d \in Calls : d # c => at'[d] = at[d]
BY DEF TypeOK, Goes

LEMMA TypeStep == ASSUME TypeOK, [Next]_vars PROVE TypeOK'
<1>0. ASSUME NEW c \in Calls, Send(c) PROVE TypeOK'
  <2>1. at' \in [Calls -> Places]
    BY <1>0, GoesFacts DEF Send, Places
  <2>2. waiters' \in SUBSET Calls
    BY <1>0 DEF TypeOK, Send
  <2>3. /\ outcome' \in [Calls -> {"pending", "returned", "timeout", "failed"}]
        /\ served' \in [Calls -> {"no", "asked", "replied", "done"}]
    BY <1>0 DEF TypeOK, Send
  <2> QED  BY <1>0, <2>1, <2>2, <2>3 DEF TypeOK, Send
<1>1. ASSUME NEW c \in Calls, Unlisten(c) PROVE TypeOK'
  <2>1. queue' \in [Calls -> Seq(Items)]
    <3>1. <<>> \in Seq(Items)
      OBVIOUS
    <3> QED  BY <1>1, <3>1 DEF TypeOK, Unlisten
  <2> QED  BY <1>1, <2>1 DEF TypeOK, Unlisten, Goes, Places
<1>2. ASSUME NEW c \in Calls, TryLock(c) PROVE TypeOK'
  BY <1>2 DEF TypeOK, TryLock, Goes, Places
<1>3. ASSUME NEW c \in Calls, CheckQueue(c) \/ PollQueue(c) PROVE TypeOK'
  <2>1. queue' \in [Calls -> Seq(Items)] /\ Head(queue[c]).id \in Calls
    BY <1>3, TookType DEF CheckQueue, PollQueue, Items
  <2>2. /\ at' \in [Calls -> Places] /\ final' \in [Calls -> Calls \cup {NoCall}]
        /\ outcome' \in [Calls -> {"pending", "returned", "timeout", "failed"}]
    BY <1>3, <2>1, ProcessedType DEF CheckQueue, PollQueue, Places
  <2> QED  BY <1>3, <2>1, <2>2 DEF TypeOK, CheckQueue, PollQueue
<1>4. ASSUME NEW c \in Calls, QueueEmpty(c) \/ PollTimeout(c) \/ ConsumeTimeout(c) \/ Release(c)
      PROVE  TypeOK'
  <2>1. at' \in [Calls -> Places]
    BY <1>4, GoesFacts DEF QueueEmpty, PollTimeout, ConsumeTimeout, Release, Places
  <2>2. outcome' \in [Calls -> {"pending", "returned", "timeout", "failed"}]
    BY <1>4 DEF TypeOK, QueueEmpty, PollTimeout, ConsumeTimeout, Release
  <2> QED  BY <1>4, <2>1, <2>2 DEF TypeOK, QueueEmpty, PollTimeout, ConsumeTimeout, Release
<1>5. ASSUME NEW c \in Calls, PollIncoming(c) PROVE TypeOK'
  <2>1. Tail(incoming) \in Seq(Messages) /\ Head(incoming) \in Messages
    BY <1>5, TailFacts DEF PollIncoming, TypeOK
  <2>2. Head(incoming) \in Items /\ Head(incoming).id \in Calls
    BY <2>1, MessageFacts
  <2>3. CASE Head(incoming).id = c
    BY <1>5, <2>1, <2>2, <2>3, ProcessedType DEF TypeOK, PollIncoming, Deliver, Places
  <2>4. CASE Head(incoming).id # c
    <3>1. queue' \in [Calls -> Seq(Items)] /\ UNCHANGED <<at, final, outcome>>
      BY <1>5, <2>2, <2>4, PutType DEF PollIncoming, Deliver
    <3> QED  BY <1>5, <2>1, <3>1 DEF TypeOK, PollIncoming
  <2> QED  BY <2>3, <2>4
<1>6. ASSUME NEW c \in Calls, Consume(c) PROVE TypeOK'
  <2>1. Head(wire) \in Messages /\ Tail(wire) \in Seq(Messages)
    BY <1>6, TailFacts DEF Consume, TypeOK
  <2>2. incoming' \in Seq(Messages) /\ wire' \in Seq(Messages)
    BY <1>6, <2>1, AppendFacts DEF Consume, TypeOK
  <2>3. again' \in 0..MaxAgain
    BY <1>6, AgainAssumption DEF Consume, TypeOK
  <2> QED  BY <1>6, <2>2, <2>3 DEF TypeOK, Consume
<1>7. ASSUME NEW c \in Calls, WakeAll(c) PROVE TypeOK'
  BY <1>7 DEF TypeOK, WakeAll, Goes, Places
<1>8. ASSUME NEW c \in Calls, NEW i \in Calls, WakeOne(c, i) PROVE TypeOK'
  <2>1. queue' \in [Calls -> Seq(Items)]
    BY <1>8, Made, PutType DEF WakeOne
  <2> QED  BY <1>8, <2>1 DEF TypeOK, WakeOne
<1>9. ASSUME NEW c \in Calls, Reply(c) \/ End(c) PROVE TypeOK'
  <2>1. Append(wire, Rep(c)) \in Seq(Messages) /\ Append(wire, Fin(c)) \in Seq(Messages)
    BY Made, AppendFacts DEF TypeOK
  <2>2. wire' \in Seq(Messages)
    BY <1>9, <2>1 DEF Reply, End, Rep, Fin
  <2> QED  BY <1>9, <2>2 DEF TypeOK, Reply, End, callVars
<1>10. CASE UNCHANGED vars
  BY <1>10 DEF TypeOK, vars, callVars
<1> QED  BY <1>0, <1>1, <1>2, <1>3, <1>4, <1>5, <1>6, <1>7, <1>8, <1>9, <1>10
         DEF Next, Caller, Server

(* Every step keeps the types.                                             *)
THEOREM TypeCorrect == Spec => []TypeOK
<1>1. Init => TypeOK
  BY AgainAssumption DEF Init, TypeOK, Places
<1>2. TypeOK /\ [Next]_vars => TypeOK'
  BY TypeStep
<1> QED  BY <1>1, <1>2, PTL DEF Spec

-----------------------------------------------------------------------------
(* Where a thread is says whether it has the lock, listens and has ended.  *)

Locked == \A c \in Calls : at[c] \in {"check", "poll", "release"} <=> lock = c

Registered == \A c \in Calls : c \in waiters <=> at[c] \notin {"start", "over"}

Pending == \A c \in Calls :
    outcome[c] = "pending" <=> at[c] \in {"start", "try", "check", "poll", "wait"}

Asked == \A c \in Calls : at[c] = "start" => served[c] = "no"

Struct == TypeOK /\ Locked /\ Registered /\ Pending /\ Asked

LEMMA StructStep == ASSUME Struct, [Next]_vars PROVE Struct'
<1> USE CallsAssumption
<1>0. TypeOK'
  BY TypeStep DEF Struct
<1>1. ASSUME NEW c \in Calls,
             \/ Send(c) \/ Unlisten(c) \/ TryLock(c) \/ QueueEmpty(c) \/ PollTimeout(c)
             \/ ConsumeTimeout(c) \/ Release(c) \/ WakeAll(c)
      PROVE  Locked' /\ Registered' /\ Pending' /\ Asked'
  <2>1. CASE Send(c)
    <3>0. /\ at[c] = "start" /\ at'[c] \in {"try", "unlisten"}
          /\ \A d \in Calls : d # c => at'[d] = at[d]
      BY <2>1, GoesFacts DEF Struct, Send, Places
    <3>1. Locked'
      BY <2>1, <3>0 DEF Struct, Locked, Send
    <3>2. Registered'
      BY <2>1, <3>0 DEF Struct, Registered, Send
    <3>3. Pending'
      <4>1. \/ Goes(c, "try") /\ UNCHANGED outcome
            \/ Goes(c, "unlisten") /\ outcome' = [outcome EXCEPT ![c] = "failed"]
        BY <2>1 DEF Send
      <4>2. \/ at'[c] = "try" /\ UNCHANGED outcome
            \/ at'[c] = "unlisten" /\ outcome' = [outcome EXCEPT ![c] = "failed"]
        BY <4>1, GoesFacts DEF Struct, Places
      <4> QED  BY <3>0, <4>2 DEF Struct, TypeOK, Pending
    <3>4. Asked'
      <4>1. \A d \in Calls : d # c => served'[d] = served[d]
        BY <2>1 DEF Struct, TypeOK, Send
      <4> QED  BY <3>0, <4>1 DEF Struct, Asked
    <3> QED  BY <3>1, <3>2, <3>3, <3>4
  <2>2. CASE Unlisten(c)
    <3>1. Locked'
      BY <2>2 DEF Struct, TypeOK, Locked, Unlisten, Goes
    <3>2. Registered'
      BY <2>2 DEF Struct, TypeOK, Registered, Unlisten, Goes
    <3>3. Pending'
      BY <2>2 DEF Struct, TypeOK, Pending, Unlisten, Goes
    <3>4. Asked'
      BY <2>2 DEF Struct, TypeOK, Asked, Unlisten, Goes
    <3> QED  BY <3>1, <3>2, <3>3, <3>4
  <2>3. CASE TryLock(c)
    <3>0. /\ at[c] = "try" /\ \A d \in Calls : d # c => at'[d] = at[d]
          /\ \/ lock = NoCall /\ lock' = c /\ at'[c] = "check"
             \/ lock # NoCall /\ lock' = lock /\ at'[c] = "wait"
      BY <2>3, GoesFacts DEF Struct, TryLock, Places
    <3>1. Locked'
      BY <3>0 DEF Struct, Locked
    <3>2. Registered' /\ Pending' /\ Asked'
      BY <2>3, <3>0 DEF Struct, Registered, Pending, Asked, TryLock
    <3> QED  BY <3>1, <3>2
  <2>4. CASE QueueEmpty(c)
    BY <2>4 DEF Struct, TypeOK, Locked, Registered, Pending, Asked, QueueEmpty, Goes
  <2>5. CASE PollTimeout(c)
    BY <2>5 DEF Struct, TypeOK, Locked, Registered, Pending, Asked, PollTimeout, Goes
  <2>6. CASE ConsumeTimeout(c)
    BY <2>6 DEF Struct, TypeOK, Locked, Registered, Pending, Asked, ConsumeTimeout, Goes
  <2>7. CASE Release(c)
    BY <2>7 DEF Struct, TypeOK, Locked, Registered, Pending, Asked, Release, Goes
  <2>8. CASE WakeAll(c)
    BY <2>8 DEF Struct, TypeOK, Locked, Registered, Pending, Asked, WakeAll, Goes
  <2> QED  BY <1>1, <2>1, <2>2, <2>3, <2>4, <2>5, <2>6, <2>7, <2>8
<1>2. ASSUME NEW c \in Calls, CheckQueue(c) \/ PollQueue(c)
      PROVE  Locked' /\ Registered' /\ Pending' /\ Asked'
  <2>1. CASE CheckQueue(c)
    BY <2>1 DEF Struct, TypeOK, Locked, Registered, Pending, Asked, CheckQueue, Processed, Goes
  <2>2. CASE PollQueue(c)
    BY <2>2 DEF Struct, TypeOK, Locked, Registered, Pending, Asked, PollQueue, Processed, Goes
  <2> QED  BY <1>2, <2>1, <2>2
<1>3. ASSUME NEW c \in Calls, PollIncoming(c)
      PROVE  Locked' /\ Registered' /\ Pending' /\ Asked'
  <2>1. CASE Head(incoming).id = c
    <3>1. Processed(c, Head(incoming), "poll", "release") /\ UNCHANGED <<lock, waiters, served>>
      BY <1>3, <2>1 DEF PollIncoming, Deliver
    <3>2. at[c] = "poll"
      BY <1>3 DEF PollIncoming
    <3> QED  BY <3>1, <3>2
             DEF Struct, TypeOK, Locked, Registered, Pending, Asked, Processed, Goes
  <2>2. CASE Head(incoming).id # c
    BY <1>3, <2>2 DEF Struct, Locked, Registered, Pending, Asked, PollIncoming, Deliver
  <2> QED  BY <2>1, <2>2
<1>4. ASSUME NEW c \in Calls, Consume(c) \/ \E i \in Calls : WakeOne(c, i)
      PROVE  Locked' /\ Registered' /\ Pending' /\ Asked'
  BY <1>4 DEF Struct, Locked, Registered, Pending, Asked, Consume, WakeOne
<1>5. ASSUME NEW c \in Calls, Server(c)
      PROVE  Locked' /\ Registered' /\ Pending' /\ Asked'
  <2>1. UNCHANGED <<at, lock, waiters, outcome>>
    BY <1>5 DEF Server, Reply, End, callVars
  <2>2. Asked'
    BY <1>5 DEF Struct, TypeOK, Asked, Server, Reply, End, callVars
  <2> QED  BY <2>1, <2>2 DEF Struct, Locked, Registered, Pending
<1>6. ASSUME UNCHANGED vars PROVE Locked' /\ Registered' /\ Pending' /\ Asked'
  <2>1. UNCHANGED <<at, lock, waiters, outcome, served>>
    BY <1>6 DEF vars, callVars
  <2> QED  BY <2>1 DEF Struct, Locked, Registered, Pending, Asked
<1> QED  BY <1>0, <1>1, <1>2, <1>3, <1>4, <1>5, <1>6 DEF Struct, Next, Caller

LEMMA StructInit == Init => Struct
BY AgainAssumption, CallsAssumption
   DEF Init, Struct, TypeOK, Locked, Registered, Pending, Asked, Places

-----------------------------------------------------------------------------
(* The lock and the wake-ups.                                              *)

LEMMA WakeUpStep == ASSUME Struct, NobodyForgotten, [Next]_vars PROVE NobodyForgotten'
<1> USE CallsAssumption
<1> SUFFICES ASSUME NEW c \in Calls, at'[c] = "wait", queue'[c] = <<>>, lock' = NoCall
             PROVE  \E d \in Calls :
                       at'[d] = "wake" \/ (at'[d] = "waking" /\ c \in toWake'[d])
  BY DEF NobodyForgotten
<1>1. ASSUME NEW d \in Calls, Release(d)
      PROVE  at'[d] = "wake"
  BY <1>1 DEF Struct, TypeOK, Release, Goes
<1>2. ASSUME NEW d \in Calls, TryLock(d) \/ ConsumeTimeout(d) \/ CheckQueue(d) \/ QueueEmpty(d)
                               \/ PollIncoming(d) \/ Consume(d)
      PROVE  FALSE
  <2>1. TryLock(d) => lock' # NoCall
    BY DEF TryLock
  <2>2. ~TryLock(d) => lock = d /\ UNCHANGED lock
    BY <1>2 DEF Struct, Locked, ConsumeTimeout, CheckQueue, QueueEmpty, PollIncoming, Consume
  <2> QED  BY <1>2, <2>1, <2>2
<1>3. ASSUME NEW d \in Calls, WakeAll(d)
      PROVE  \E e \in Calls :
                at'[e] = "wake" \/ (at'[e] = "waking" /\ c \in toWake'[e])
  <2>1. c # d /\ at[c] = "wait" /\ at'[d] = "waking" /\ toWake'[d] = waiters \ {d}
    BY <1>3 DEF Struct, TypeOK, WakeAll, Goes
  <2>2. c \in waiters
    BY <2>1 DEF Struct, Registered
  <2> QED  BY <2>1, <2>2
<1>4. ASSUME NEW d \in Calls, NEW i \in Calls, WakeOne(d, i)
      PROVE  \E e \in Calls :
                at'[e] = "wake" \/ (at'[e] = "waking" /\ c \in toWake'[e])
  <2>1. at[c] = "wait" /\ c \in waiters /\ UNCHANGED <<at, lock>>
    BY <1>4 DEF Struct, Registered, WakeOne
  <2>2. c # i
    <3>1. queue[i] \in Seq(Items) /\ WakeUp(i) \in Items
      BY Made DEF Struct, TypeOK
    <3>2. Append(queue[i], WakeUp(i)) # <<>>
      BY <3>1, AppendFacts
    <3> QED  BY <1>4, <2>1, <3>2 DEF Struct, TypeOK, WakeOne, Put
  <2>3. queue[c] = <<>>
    BY <1>4, <2>2 DEF Struct, TypeOK, WakeOne, Put
  <2>4. PICK e \in Calls : at[e] = "wake" \/ (at[e] = "waking" /\ c \in toWake[e])
    BY <2>1, <2>3 DEF NobodyForgotten
  <2>5. toWake'[e] = toWake[e] \/ toWake'[e] = toWake[e] \ {i}
    BY <1>4 DEF Struct, TypeOK, WakeOne
  <2> QED  BY <2>1, <2>2, <2>4, <2>5
<1>5. ASSUME at[c] = "wait" /\ queue[c] = <<>> /\ UNCHANGED <<lock, toWake>>,
             NEW d \in Calls, at[d] # "wake", at[d] = "waking" => toWake[d] = {},
             \A e \in Calls : e # d => at'[e] = at[e]
      PROVE  \E e \in Calls :
                at'[e] = "wake" \/ (at'[e] = "waking" /\ c \in toWake'[e])
  <2>1. PICK e \in Calls : at[e] = "wake" \/ (at[e] = "waking" /\ c \in toWake[e])
    BY <1>5 DEF NobodyForgotten
  <2>2. e # d
    BY <1>5, <2>1
  <2> QED  BY <1>5, <2>1, <2>2
<1>6. ASSUME NEW d \in Calls, Send(d) \/ Unlisten(d) \/ PollTimeout(d) \/ PollQueue(d)
      PROVE  \E e \in Calls :
                at'[e] = "wake" \/ (at'[e] = "waking" /\ c \in toWake'[e])
  <2>1. at'[d] # "wait" /\ at[d] # "wake" /\ \A e \in Calls : e # d => at'[e] = at[e]
    BY <1>6 DEF Struct, TypeOK, Send, Unlisten, PollTimeout, PollQueue, Processed, Goes
  <2>2. c # d /\ at[c] = "wait"
    BY <2>1
  <2>3. queue[c] = <<>>
    BY <1>6, <2>2 DEF Struct, TypeOK, Send, Unlisten, PollTimeout, PollQueue, Took
  <2>4. UNCHANGED <<lock, toWake>> /\ (at[d] = "waking" => toWake[d] = {})
    BY <1>6 DEF Send, Unlisten, PollTimeout, PollQueue
  <2> QED  BY <1>5, <2>1, <2>2, <2>3, <2>4
<1>7. ASSUME UNCHANGED <<at, lock, queue, toWake>>
      PROVE  \E e \in Calls :
                at'[e] = "wake" \/ (at'[e] = "waking" /\ c \in toWake'[e])
  BY <1>7 DEF NobodyForgotten
<1>8. CASE UNCHANGED vars
  BY <1>7, <1>8 DEF vars, callVars
<1>9. ASSUME NEW d \in Calls, Server(d) PROVE UNCHANGED <<at, lock, queue, toWake>>
  BY <1>9 DEF Server, Reply, End, callVars
<1> QED  BY <1>1, <1>2, <1>3, <1>4, <1>6, <1>7, <1>8, <1>9 DEF Next, Caller

(* No thread waits in vain for the lock: whoever has it is about to wake   *)
(* all others up, or has it still.                                         *)
THEOREM NobodyIsForgotten == Spec => []NobodyForgotten
<1>1. Init => Struct /\ NobodyForgotten
  BY StructInit DEF Init, NobodyForgotten
<1>2. Struct /\ NobodyForgotten /\ [Next]_vars => (Struct /\ NobodyForgotten)'
  BY StructStep, WakeUpStep
<1> QED  BY <1>1, <1>2, PTL DEF Spec

-----------------------------------------------------------------------------
(* The way of a message: from the wire to what has come in, from there to  *)
(* the queue of its call.                                                  *)

\* What call c finds first in its queue q, then in what has come in, then in
\* the wire, is a reply before it is an ending.
Sound(q, in, w, s, c) ==
    /\ Led(q, c)
    /\ Within(q, Rep(c)) \/ Led(in, c)
    /\ Within(q, Rep(c)) \/ Within(in, Rep(c)) \/ Led(w, c)
    /\ s = "replied" => Within(q, Rep(c)) \/ Within(in, Rep(c)) \/ Within(w, Rep(c))

LEMMA Kinds ==
    ASSUME NEW c, NEW i
    PROVE  /\ Rep(c) # Fin(i) /\ WakeUp(i) # Fin(c) /\ WakeUp(i) # Rep(c)
           /\ Rep(c).kind = "reply" /\ Fin(c).kind = "ending" /\ WakeUp(c).kind = "wake_up"
           /\ Rep(c).id = c /\ Fin(c).id = c /\ WakeUp(c).id = c
BY DEF Rep, Fin, WakeUp

LEMMA SoundTake ==
    ASSUME NEW q \in Seq(Items), NEW in, NEW w, NEW s, NEW c, q # <<>>, Sound(q, in, w, s, c)
    PROVE  /\ Head(q) # Fin(c)
           /\ Head(q) # Rep(c) => Sound(Tail(q), in, w, s, c)
<1>1. Head(q) # Fin(c) /\ (Head(q) # Rep(c) => Led(Tail(q), c))
  BY LedTail DEF Sound
<1>2. Head(q) # Rep(c) => (Within(q, Rep(c)) <=> Within(Tail(q), Rep(c)))
  BY WithinTail
<1> QED  BY <1>1, <1>2 DEF Sound

LEMMA SoundPut ==
    ASSUME NEW q \in Seq(Items), NEW e \in Items, NEW in, NEW w, NEW s, NEW c,
           Sound(q, in, w, s, c), e # Fin(c)
    PROVE  Sound(Append(q, e), in, w, s, c)
<1>1. Led(Append(q, e), c)
  BY LedAppend DEF Sound
<1>2. Within(q, Rep(c)) => Within(Append(q, e), Rep(c))
  BY WithinAppend
<1> QED  BY <1>1, <1>2 DEF Sound

LEMMA SoundPass ==
    ASSUME NEW q \in Seq(Items), NEW in \in Seq(Messages), NEW w, NEW s, NEW c, in # <<>>,
           Sound(q, in, w, s, c)
    PROVE  /\ Sound(Append(q, Head(in)), Tail(in), w, s, c)
           /\ Head(in) # Rep(c) /\ (Head(in) # Fin(c) \/ ~Within(q, Rep(c)))
                 => Head(in) # Fin(c) /\ Sound(q, Tail(in), w, s, c)
<1>0. Head(in) \in Messages /\ Head(in) \in Items
  BY TailFacts, MessageFacts
<1>1. /\ Within(q, Rep(c)) \/ Head(in) # Fin(c)
      /\ Within(q, Rep(c)) \/ Head(in) = Rep(c) \/ Led(Tail(in), c)
  BY LedTail DEF Sound
<1>2. /\ Within(in, Rep(c)) <=> Head(in) = Rep(c) \/ Within(Tail(in), Rep(c))
      /\ Within(Append(q, Head(in)), Rep(c)) <=> Within(q, Rep(c)) \/ Head(in) = Rep(c)
  <2>1. Within(in, Rep(c)) <=> (Head(in) = Rep(c) \/ Within(Tail(in), Rep(c)))
    BY WithinTail
  <2>2. Within(Append(q, Head(in)), Rep(c)) <=> (Within(q, Rep(c)) \/ Head(in) = Rep(c))
    BY <1>0, WithinAppend
  <2> QED  BY <2>1, <2>2
<1>3. Led(Append(q, Head(in)), c)
  BY <1>0, <1>1, LedAppend DEF Sound
<1> QED  BY <1>1, <1>2, <1>3 DEF Sound

LEMMA SoundArrive ==
    ASSUME NEW q, NEW in \in Seq(Messages), NEW w \in Seq(Messages), NEW s, NEW c, w # <<>>,
           Sound(q, in, w, s, c)
    PROVE  /\ Sound(q, Append(in, Head(w)), Tail(w), s, c)
           /\ Sound(q, Append(in, Head(w)), w, s, c)
<1>0. Head(w) \in Messages
  BY TailFacts
<1>1. Within(Append(in, Head(w)), Rep(c)) <=> (Within(in, Rep(c)) \/ Head(w) = Rep(c))
  BY <1>0, WithinAppend
<1>2. Within(w, Rep(c)) <=> (Head(w) = Rep(c) \/ Within(Tail(w), Rep(c)))
  BY WithinTail
<1>3. Within(q, Rep(c)) \/ Led(Append(in, Head(w)), c)
  <2>1. Within(q, Rep(c)) \/ Within(in, Rep(c)) \/ Head(w) # Fin(c)
    BY LedTail DEF Sound
  <2>2. ASSUME ~Within(q, Rep(c)) PROVE Led(Append(in, Head(w)), c)
    BY <1>0, <2>1, <2>2, LedAppend DEF Sound
  <2> QED  BY <2>2
<1>4. Within(q, Rep(c)) \/ Within(in, Rep(c)) \/ Head(w) = Rep(c) \/ Led(Tail(w), c)
  BY LedTail DEF Sound
<1> QED  BY <1>1, <1>2, <1>3, <1>4 DEF Sound

LEMMA SoundSent ==
    ASSUME NEW q, NEW in, NEW w \in Seq(Messages), NEW s, NEW t, NEW e \in Messages, NEW c,
           Sound(q, in, w, s, c), e = Fin(c) => s = "replied",
           t = "replied" => s = "replied" \/ e = Rep(c)
    PROVE  Sound(q, in, Append(w, e), t, c)
<1>1. Within(Append(w, e), Rep(c)) <=> (Within(w, Rep(c)) \/ e = Rep(c))
  BY WithinAppend
<1>2. Within(q, Rep(c)) \/ Within(in, Rep(c)) \/ Led(Append(w, e), c)
  <2>1. ASSUME ~Within(q, Rep(c)), ~Within(in, Rep(c)) PROVE Led(Append(w, e), c)
    BY <2>1, LedAppend DEF Sound
  <2> QED  BY <2>1
<1> QED  BY <1>1, <1>2 DEF Sound

-----------------------------------------------------------------------------
(* The queue of a call holds what is for it; the thread that polls has     *)
(* nothing but wake-ups in its own; an unasked server has sent nothing.    *)

Keyed == \A c \in Calls, m \in Items :
            Within(queue[c], m) => m.id = c /\ (at[c] = "poll" => m.kind = "wake_up")

Untold == \A m \in Messages :
             Within(wire, m) \/ Within(incoming, m) => served[m.id] # "no"

LEMMA UntoldStep == ASSUME Struct, Untold, [Next]_vars PROVE Untold'
<1> SUFFICES ASSUME NEW m \in Messages, Within(wire', m) \/ Within(incoming', m)
             PROVE  served'[m.id] # "no"
  BY DEF Untold
<1>0. m.id \in Calls
  BY MessageFacts
<1>1. ASSUME NEW d \in Calls, Server(d) PROVE served'[m.id] # "no"
  <2>1. wire' = Append(wire, Rep(d)) \/ wire' = Append(wire, Fin(d))
    BY <1>1 DEF Server, Reply, End, Rep, Fin
  <2>2. Rep(d) \in Messages /\ Rep(d).id = d /\ Fin(d) \in Messages /\ Fin(d).id = d
    BY Made DEF Rep, Fin
  <2>3. PICK e \in Messages : e.id = d /\ wire' = Append(wire, e)
    BY <2>1, <2>2
  <2>4. UNCHANGED incoming /\ served'[d] # "no" /\ \A i \in Calls : i # d => served'[i] = served[i]
    BY <1>1 DEF Struct, TypeOK, Server, Reply, End, callVars
  <2>5. Within(wire', m) => Within(wire, m) \/ m = e
    BY <2>3, WithinAppend DEF Struct, TypeOK
  <2> QED  BY <1>0, <2>3, <2>4, <2>5 DEF Untold
<1>2. ASSUME NEW d \in Calls, Consume(d) PROVE served'[m.id] # "no"
  <2>1. wire \in Seq(Messages) /\ incoming \in Seq(Messages) /\ wire # <<>>
    BY <1>2 DEF Consume, Struct, TypeOK
  <2>2. Head(wire) \in Messages
    BY <2>1, TailFacts
  <2>3. Within(wire', m) => Within(wire, m)
    BY <1>2, <2>1, WithinTail DEF Consume
  <2>4. Within(incoming', m) => Within(incoming, m) \/ Within(wire, m)
    <3>1. Within(Append(incoming, Head(wire)), m) <=> (Within(incoming, m) \/ Head(wire) = m)
      BY <2>1, <2>2, WithinAppend
    <3>2. Head(wire) = m => Within(wire, m)
      BY <2>1, WithinTail
    <3> QED  BY <1>2, <3>1, <3>2 DEF Consume
  <2> QED  BY <1>2, <2>3, <2>4 DEF Consume, Untold
<1>3. ASSUME NEW d \in Calls, PollIncoming(d) PROVE served'[m.id] # "no"
  <2>1. incoming \in Seq(Messages) /\ incoming # <<>> /\ incoming' = Tail(incoming)
    BY <1>3 DEF PollIncoming, Struct, TypeOK
  <2>2. Within(incoming', m) => Within(incoming, m)
    BY <2>1, WithinTail
  <2> QED  BY <1>3, <2>2 DEF PollIncoming, Untold
<1>4. ASSUME UNCHANGED <<wire, incoming>>,
             \A i \in Calls : served'[i] = served[i] \/ served'[i] # "no"
      PROVE  served'[m.id] # "no"
  BY <1>0, <1>4 DEF Untold
<1>5. ASSUME NEW d \in Calls, Send(d) PROVE served'[m.id] # "no"
  BY <1>4, <1>5 DEF Send, Struct, TypeOK
<1>6. ASSUME NEW d \in Calls,
             \/ Unlisten(d) \/ TryLock(d) \/ CheckQueue(d) \/ QueueEmpty(d) \/ PollQueue(d)
             \/ PollTimeout(d) \/ ConsumeTimeout(d) \/ Release(d) \/ WakeAll(d)
             \/ \E i \in Calls : WakeOne(d, i)
      PROVE  UNCHANGED <<wire, incoming, served>>
  BY <1>6 DEF Unlisten, TryLock, CheckQueue, QueueEmpty, PollQueue, PollTimeout, ConsumeTimeout,
              Release, WakeAll, WakeOne
<1>7. CASE UNCHANGED vars
  BY <1>4, <1>7 DEF vars, callVars
<1> QED  BY <1>1, <1>2, <1>3, <1>4, <1>5, <1>6, <1>7 DEF Next, Caller

LEMMA KeyedStep == ASSUME Struct, Keyed, [Next]_vars PROVE Keyed'
<1> SUFFICES ASSUME NEW c \in Calls, NEW m \in Items, Within(queue'[c], m)
             PROVE  m.id = c /\ (at'[c] = "poll" => m.kind = "wake_up")
  BY DEF Keyed
<1>1. ASSUME NEW d \in Calls, NEW i \in Calls, WakeOne(d, i)
      PROVE  m.id = c /\ (at'[c] = "poll" => m.kind = "wake_up")
  <2>1. queue[c] \in Seq(Items) /\ WakeUp(c) \in Items
    BY Made DEF Struct, TypeOK
  <2>2. queue'[c] = queue[c] \/ queue'[c] = Append(queue[c], WakeUp(c))
    BY <1>1 DEF WakeOne, Put, Struct, TypeOK
  <2>3. Within(Append(queue[c], WakeUp(c)), m) <=> (Within(queue[c], m) \/ WakeUp(c) = m)
    BY <2>1, WithinAppend
  <2>4. Within(queue[c], m) \/ m = WakeUp(c)
    BY <2>2, <2>3
  <2>5. WakeUp(c).id = c /\ WakeUp(c).kind = "wake_up"
    BY DEF WakeUp
  <2> QED  BY <1>1, <2>4, <2>5 DEF WakeOne, Keyed
<1>2. ASSUME NEW d \in Calls, PollIncoming(d)
      PROVE  m.id = c /\ (at'[c] = "poll" => m.kind = "wake_up")
  <2>0. Head(incoming) \in Items /\ queue[c] \in Seq(Items) /\ at[d] = "poll"
    BY <1>2, TailFacts, MessageFacts DEF PollIncoming, Struct, TypeOK
  <2>1. at'[c] = "poll" => at[c] = "poll" /\ c = d
    BY <1>2, <2>0 DEF PollIncoming, Deliver, Processed, Goes, Struct, TypeOK, Locked
  <2>2. queue'[c] = queue[c] \/ (/\ queue'[c] = Append(queue[c], Head(incoming))
                                 /\ Head(incoming).id = c /\ c # d)
    BY <1>2, <2>0 DEF PollIncoming, Deliver, Put, Struct, TypeOK
  <2>3. Within(Append(queue[c], Head(incoming)), m)
           <=> (Within(queue[c], m) \/ Head(incoming) = m)
    BY <2>0, WithinAppend
  <2>4. Within(queue[c], m) \/ (m = Head(incoming) /\ m.id = c /\ c # d)
    BY <2>2, <2>3
  <2> QED  BY <2>1, <2>4 DEF Keyed
<1>3. ASSUME NEW d \in Calls, CheckQueue(d) \/ PollQueue(d)
      PROVE  m.id = c /\ (at'[c] = "poll" => m.kind = "wake_up")
  <2>1. at'[c] = "poll" => at[c] = "poll"
    BY <1>3 DEF CheckQueue, PollQueue, Processed, Goes, Struct, TypeOK
  <2>2. queue'[c] = queue[c] \/ (queue[c] # <<>> /\ queue'[c] = Tail(queue[c]))
    BY <1>3 DEF CheckQueue, PollQueue, Took, Struct, TypeOK
  <2>3. queue[c] \in Seq(Items)
    BY DEF Struct, TypeOK
  <2>4. Within(queue[c], m)
    BY <2>2, <2>3, WithinTail
  <2> QED  BY <2>1, <2>4 DEF Keyed
<1>4. ASSUME NEW d \in Calls, Unlisten(d) \/ QueueEmpty(d)
      PROVE  m.id = c /\ (at'[c] = "poll" => m.kind = "wake_up")
  <2>1. c # d
    <3>1. queue'[d] = <<>>
      BY <1>4 DEF Unlisten, QueueEmpty, Struct, TypeOK
    <3> QED  BY <3>1, NoneWithin
  <2>2. at'[c] = at[c] /\ queue'[c] = queue[c]
    BY <1>4, <2>1 DEF Unlisten, QueueEmpty, Goes, Struct, TypeOK
  <2> QED  BY <2>2 DEF Keyed
<1>5. ASSUME UNCHANGED queue, at'[c] = "poll" => at[c] = "poll"
      PROVE  m.id = c /\ (at'[c] = "poll" => m.kind = "wake_up")
  BY <1>5 DEF Keyed
<1>6. ASSUME NEW d \in Calls,
             \/ Send(d) \/ TryLock(d) \/ PollTimeout(d) \/ ConsumeTimeout(d)
             \/ Release(d) \/ WakeAll(d)
      PROVE  UNCHANGED queue /\ (at'[c] = "poll" => at[c] = "poll")
  BY <1>6 DEF Send, TryLock, PollTimeout, ConsumeTimeout, Release, WakeAll, Goes, Struct, TypeOK
<1>7. ASSUME NEW d \in Calls, Consume(d) \/ Server(d) PROVE UNCHANGED <<at, queue>>
  BY <1>7 DEF Consume, Server, Reply, End, callVars
<1>8. CASE UNCHANGED vars
  BY <1>5, <1>8 DEF vars, callVars
<1> QED  BY <1>1, <1>2, <1>3, <1>4, <1>5, <1>6, <1>7, <1>8 DEF Next, Caller

-----------------------------------------------------------------------------
(* The reply comes before the ending.                                      *)

Ordered(c) == \/ final[c] = c
              \/ outcome[c] # "pending"
              \/ Sound(queue[c], incoming, wire, served[c], c)

InOrder == \A c \in Calls : Ordered(c)

OrderInv == Struct /\ Keyed /\ Untold /\ InOrder /\ ReturnsItsReply

LEMMA OrderStep == ASSUME OrderInv, [Next]_vars PROVE InOrder' /\ ReturnsItsReply'
<1> SUFFICES ASSUME NEW c \in Calls
             PROVE  Ordered(c)' /\ (outcome'[c] = "returned" => final'[c] = c)
  BY DEF InOrder, ReturnsItsReply
<1>T. Struct /\ TypeOK
  BY DEF OrderInv, Struct
<1>Q. queue[c] \in Seq(Items) /\ incoming \in Seq(Messages) /\ wire \in Seq(Messages)
  BY <1>T DEF TypeOK
<1>0. Ordered(c) /\ (outcome[c] = "returned" => final[c] = c)
  BY DEF OrderInv, InOrder, ReturnsItsReply
<1>1. ASSUME final'[c] = final[c],
             outcome'[c] = outcome[c] \/ outcome'[c] \in {"timeout", "failed"},
             outcome[c] = "pending" /\ Sound(queue[c], incoming, wire, served[c], c)
                => outcome'[c] # "pending" \/ Sound(queue'[c], incoming', wire', served'[c], c)
      PROVE  Ordered(c)' /\ (outcome'[c] = "returned" => final'[c] = c)
  BY <1>0, <1>1 DEF Ordered
<1>2. ASSUME NEW d \in Calls, Server(d)
      PROVE  Ordered(c)' /\ (outcome'[c] = "returned" => final'[c] = c)
  <2>1. UNCHANGED <<queue, incoming, final, outcome>>
    BY <1>2 DEF Server, Reply, End, callVars
  <2>2. ASSUME NEW e \in Messages, wire' = Append(wire, e), e = Fin(c) => served[c] = "replied",
               served'[c] = "replied" => served[c] = "replied" \/ e = Rep(c),
               Sound(queue[c], incoming, wire, served[c], c)
        PROVE  Sound(queue'[c], incoming', wire', served'[c], c)
    <3>1. Sound(queue[c], incoming, Append(wire, e), served'[c], c)
      BY <1>Q, <2>2, SoundSent
    <3> QED  BY <2>1, <2>2, <3>1
  <2>3. CASE Reply(d)
    <3>1. wire' = Append(wire, Rep(d)) /\ Rep(d) \in Messages /\ Rep(d) # Fin(c)
      BY <2>3, Made, Kinds DEF Reply, Rep
    <3>2. served'[c] = "replied" => served[c] = "replied" \/ Rep(d) = Rep(c)
      BY <1>T, <2>3 DEF Reply, TypeOK
    <3> QED  BY <1>1, <2>1, <2>2, <3>1, <3>2
  <2>4. CASE End(d)
    <3>1. wire' = Append(wire, Fin(d)) /\ Fin(d) \in Messages
      BY <2>4, Made DEF End, Fin
    <3>2. Fin(d) = Fin(c) => served[c] = "replied"
      BY <2>4 DEF End, Fin
    <3>3. served'[c] = "replied" => served[c] = "replied"
      BY <1>T, <2>4 DEF End, TypeOK
    <3> QED  BY <1>1, <2>1, <2>2, <3>1, <3>2, <3>3
  <2> QED  BY <1>2, <2>3, <2>4 DEF Server
<1>3. ASSUME NEW d \in Calls, Consume(d)
      PROVE  Ordered(c)' /\ (outcome'[c] = "returned" => final'[c] = c)
  <2>1. /\ UNCHANGED <<queue, final, outcome, served>> /\ wire # <<>>
        /\ incoming' = Append(incoming, Head(wire)) /\ wire' \in {wire, Tail(wire)}
    BY <1>3 DEF Consume
  <2>2. Sound(queue[c], incoming, wire, served[c], c)
           => Sound(queue'[c], incoming', wire', served'[c], c)
    BY <1>Q, <2>1, SoundArrive
  <2> QED  BY <1>1, <2>1, <2>2
<1>4. ASSUME NEW d \in Calls, NEW i \in Calls, WakeOne(d, i)
      PROVE  Ordered(c)' /\ (outcome'[c] = "returned" => final'[c] = c)
  <2>1. UNCHANGED <<incoming, wire, final, outcome, served>>
    BY <1>4 DEF WakeOne
  <2>2. queue'[c] = queue[c] \/ queue'[c] = Append(queue[c], WakeUp(c))
    BY <1>T, <1>4 DEF WakeOne, Put, TypeOK
  <2>3. WakeUp(c) \in Items /\ WakeUp(c) # Fin(c)
    BY Made, Kinds
  <2>4. Sound(queue[c], incoming, wire, served[c], c)
           => Sound(Append(queue[c], WakeUp(c)), incoming, wire, served[c], c)
    BY <1>Q, <2>3, SoundPut
  <2> QED  BY <1>1, <2>1, <2>2, <2>4
<1>5. ASSUME NEW d \in Calls, CheckQueue(d) \/ PollQueue(d)
      PROVE  Ordered(c)' /\ (outcome'[c] = "returned" => final'[c] = c)
  <2>1. UNCHANGED <<incoming, wire, served>>
    BY <1>5 DEF CheckQueue, PollQueue
  <2>2. CASE c # d
    <3>1. UNCHANGED <<queue[c], final[c], outcome[c]>>
      BY <1>T, <1>5, <2>2 DEF CheckQueue, PollQueue, Processed, Took, TypeOK
    <3> QED  BY <1>1, <2>1, <3>1
  <2>3. CASE c = d
    <3>1. queue[c] # <<>> /\ queue'[c] = Tail(queue[c])
      BY <1>T, <1>5, <2>3 DEF CheckQueue, PollQueue, Took, TypeOK
    <3>2. PICK h \in Items : h = Head(queue[c])
      BY <1>Q, <3>1, TailFacts
    <3>3. h.id = c
      <4>1. Within(queue[c], h)
        BY <1>Q, <3>1, <3>2, WithinTail
      <4> QED  BY <4>1 DEF OrderInv, Keyed
    <3>4. /\ h.kind = "reply" => final'[c] = c /\ outcome'[c] = outcome[c]
          /\ h.kind = "ending" => final'[c] = final[c] /\ outcome'[c] = "returned"
          /\ h.kind = "wake_up" => final'[c] = final[c] /\ outcome'[c] = outcome[c]
      BY <1>T, <1>5, <2>3, <3>2, <3>3 DEF CheckQueue, PollQueue, Processed, TypeOK
    <3>5. outcome[c] = "pending"
      BY <1>T, <1>5, <2>3 DEF CheckQueue, PollQueue, Struct, Pending
    <3>6. CASE h.kind = "reply"
      BY <3>4, <3>6 DEF Ordered
    <3>7. CASE h.kind = "ending"
      <4>1. h = Fin(c)
        BY <3>3, <3>7 DEF Items, Fin
      <4>2. final[c] = c
        BY <1>0, <1>Q, <3>1, <3>2, <3>5, <4>1, SoundTake DEF Ordered
      <4> QED  BY <3>4, <3>7, <4>2 DEF Ordered
    <3>8. CASE h.kind = "wake_up"
      <4>1. h # Rep(c)
        BY <3>8, Kinds
      <4>2. Sound(queue[c], incoming, wire, served[c], c)
               => Sound(Tail(queue[c]), incoming, wire, served[c], c)
        BY <1>Q, <3>1, <3>2, <4>1, SoundTake
      <4> QED  BY <1>1, <2>1, <3>1, <3>4, <3>8, <4>2
    <3> QED  BY <3>6, <3>7, <3>8 DEF Items
  <2> QED  BY <2>2, <2>3
<1>6. ASSUME NEW d \in Calls, PollIncoming(d)
      PROVE  Ordered(c)' /\ (outcome'[c] = "returned" => final'[c] = c)
  <2>1. UNCHANGED <<wire, served>> /\ incoming # <<>> /\ incoming' = Tail(incoming)
    BY <1>6 DEF PollIncoming
  <2>2. PICK h \in Messages : h = Head(incoming)
    BY <1>Q, <2>1, TailFacts
  <2>3. h \in Items /\ h.id \in Calls /\ h.kind \in {"reply", "ending"}
    BY <2>2, MessageFacts
  <2>4. CASE c = d /\ h.id = c
    <3>1. /\ h.kind = "reply" => final'[c] = c /\ outcome'[c] = outcome[c]
          /\ h.kind = "ending" => final'[c] = final[c] /\ outcome'[c] = "returned"
      BY <1>T, <1>6, <2>2, <2>4 DEF PollIncoming, Deliver, Processed, TypeOK
    <3>2. outcome[c] = "pending" /\ at[c] = "poll"
      BY <1>T, <1>6, <2>4 DEF PollIncoming, Struct, Pending
    <3>3. CASE h.kind = "reply"
      BY <3>1, <3>3 DEF Ordered
    <3>4. CASE h.kind = "ending"
      <4>1. h = Fin(c)
        BY <2>4, <3>4, MessageFacts
      <4>2. ~Within(queue[c], Rep(c))
        <5>1. Rep(c) \in Items /\ Rep(c).kind = "reply"
          BY Made, MessageFacts DEF Rep
        <5> QED  BY <3>2, <5>1 DEF OrderInv, Keyed
      <4>3. Sound(queue[c], incoming, wire, served[c], c) => FALSE
        <5>1. Fin(c) # Rep(c)
          BY DEF Rep, Fin
        <5> QED  BY <1>Q, <2>1, <2>2, <4>1, <4>2, <5>1, SoundPass
      <4> QED  BY <1>0, <3>1, <3>2, <3>4, <4>3 DEF Ordered
    <3> QED  BY <2>3, <3>3, <3>4
  <2>5. CASE c # d /\ h.id = c
    <3>1. UNCHANGED <<final, outcome>>
      BY <1>6, <2>2, <2>5 DEF PollIncoming, Deliver
    <3>2. CASE c \in waiters
      <4>1. queue'[c] = Append(queue[c], h)
        BY <1>T, <1>6, <2>2, <2>5, <3>2 DEF PollIncoming, Deliver, Put, TypeOK
      <4>2. Sound(queue[c], incoming, wire, served[c], c)
               => Sound(Append(queue[c], h), Tail(incoming), wire, served[c], c)
        BY <1>Q, <2>1, <2>2, SoundPass
      <4> QED  BY <1>1, <2>1, <3>1, <4>1, <4>2
    <3>3. CASE c \notin waiters
      <4>1. outcome[c] # "pending" \/ served[c] = "no"
        BY <1>T, <3>3 DEF Struct, Registered, Pending, Asked
      <4>2. Within(incoming, h)
        BY <1>Q, <2>1, <2>2, WithinTail
      <4>3. served[c] # "no"
        BY <2>5, <4>2 DEF OrderInv, Untold
      <4> QED  BY <1>1, <3>1, <4>1, <4>3
    <3> QED  BY <3>2, <3>3
  <2>6. CASE h.id # c
    <3>1. UNCHANGED <<final[c], outcome[c], queue[c]>>
      BY <1>T, <1>6, <2>2, <2>3, <2>6 DEF PollIncoming, Deliver, Processed, Put, TypeOK
    <3>2. h # Rep(c) /\ h # Fin(c)
      BY <2>6 DEF Rep, Fin
    <3>3. Sound(queue[c], incoming, wire, served[c], c)
             => Sound(queue[c], Tail(incoming), wire, served[c], c)
      BY <1>Q, <2>1, <2>2, <3>2, SoundPass
    <3> QED  BY <1>1, <2>1, <3>1, <3>3
  <2> QED  BY <2>4, <2>5, <2>6
<1>7. ASSUME NEW d \in Calls, Send(d) \/ Unlisten(d)
      PROVE  Ordered(c)' /\ (outcome'[c] = "returned" => final'[c] = c)
  <2>1. CASE Send(d)
    <3>1. /\ UNCHANGED <<queue, incoming, wire, final>>
          /\ outcome'[c] = outcome[c] \/ outcome'[c] = "failed"
          /\ served'[c] = served[c] \/ served'[c] = "asked"
      BY <1>T, <2>1 DEF Send, TypeOK
    <3>2. Sound(queue[c], incoming, wire, served[c], c)
             => Sound(queue[c], incoming, wire, served'[c], c)
      BY <3>1 DEF Sound
    <3> QED  BY <1>1, <3>1, <3>2
  <2>2. CASE Unlisten(d)
    <3>1. UNCHANGED <<incoming, wire, final, outcome, served>>
      BY <2>2 DEF Unlisten
    <3>2. outcome[c] # "pending" \/ queue'[c] = queue[c]
      BY <1>T, <2>2 DEF Unlisten, Struct, TypeOK, Pending
    <3> QED  BY <1>1, <3>1, <3>2
  <2> QED  BY <1>7, <2>1, <2>2
<1>8. ASSUME NEW d \in Calls,
             \/ TryLock(d) \/ QueueEmpty(d) \/ PollTimeout(d) \/ ConsumeTimeout(d)
             \/ Release(d) \/ WakeAll(d)
      PROVE  Ordered(c)' /\ (outcome'[c] = "returned" => final'[c] = c)
  <2>1. UNCHANGED <<queue, incoming, wire, final, served>>
    BY <1>8 DEF TryLock, QueueEmpty, PollTimeout, ConsumeTimeout, Release, WakeAll
  <2>2. outcome'[c] = outcome[c] \/ outcome'[c] = "timeout"
    BY <1>8, <1>T DEF TryLock, QueueEmpty, PollTimeout, ConsumeTimeout, Release, WakeAll, TypeOK
  <2> QED  BY <1>1, <2>1, <2>2
<1>9. CASE UNCHANGED vars
  BY <1>1, <1>9 DEF vars, callVars
<1> QED  BY <1>2, <1>3, <1>4, <1>5, <1>6, <1>7, <1>8, <1>9 DEF Next, Caller

LEMMA OrderInit == Init => OrderInv
<1> SUFFICES ASSUME Init PROVE OrderInv
  OBVIOUS
<1>1. ASSUME NEW c \in Calls
      PROVE  /\ queue[c] = <<>> /\ final[c] = NoCall /\ outcome[c] = "pending" /\ served[c] = "no"
             /\ incoming = <<>> /\ wire = <<>>
  BY DEF Init
<1>2. Keyed /\ Untold
  <2>1. incoming = <<>> /\ wire = <<>>
    BY DEF Init
  <2> QED  BY <1>1, <2>1, NoneWithin DEF Keyed, Untold
<1>3. InOrder
  <2> SUFFICES ASSUME NEW c \in Calls PROVE Sound(queue[c], incoming, wire, served[c], c)
    BY DEF InOrder, Ordered
  <2>1. Led(<<>>, c)
    BY NoneWithin, LedNone
  <2> QED  BY <1>1, <2>1 DEF Sound
<1>4. ReturnsItsReply
  BY <1>1 DEF ReturnsItsReply
<1> QED  BY <1>2, <1>3, <1>4, StructInit DEF OrderInv

(* A call that returns returns the reply to it: whichever thread reads the *)
(* reply and the ending, they come to the caller, and in this order.       *)
THEOREM EachGetsItsReply == Spec => []ReturnsItsReply
<1>1. OrderInv /\ [Next]_vars => OrderInv'
  BY StructStep, KeyedStep, UntoldStep, OrderStep DEF OrderInv
<1>2. OrderInv => ReturnsItsReply
  BY DEF OrderInv
<1> QED  BY OrderInit, <1>1, <1>2, PTL DEF Spec

-----------------------------------------------------------------------------
(* The ending on its way.                                                  *)

LEMMA KeptStep == ASSUME Struct, EndingKept, [Next]_vars PROVE EndingKept'
<1> SUFFICES ASSUME NEW c \in Calls, served'[c] = "done", outcome'[c] = "pending"
             PROVE  \/ Within(wire', Fin(c)) \/ Within(incoming', Fin(c))
                    \/ Within(queue'[c], Fin(c))
  BY DEF EndingKept, Fin
<1>T. Struct /\ TypeOK
  BY DEF Struct
<1>Q. queue[c] \in Seq(Items) /\ incoming \in Seq(Messages) /\ wire \in Seq(Messages)
  BY <1>T DEF TypeOK
<1>0. served[c] = "done" /\ outcome[c] = "pending" =>
         Within(wire, Fin(c)) \/ Within(incoming, Fin(c)) \/ Within(queue[c], Fin(c))
  BY DEF EndingKept, Fin
<1>1. ASSUME served'[c] = served[c], outcome[c] = "pending",
             Within(wire, Fin(c)) => Within(wire', Fin(c)) \/ Within(incoming', Fin(c)),
             Within(incoming, Fin(c)) => Within(incoming', Fin(c)) \/ Within(queue'[c], Fin(c)),
             Within(queue[c], Fin(c)) => Within(queue'[c], Fin(c))
      PROVE  \/ Within(wire', Fin(c)) \/ Within(incoming', Fin(c))
             \/ Within(queue'[c], Fin(c))
  BY <1>0, <1>1
<1>2. ASSUME NEW d \in Calls, Server(d)
      PROVE  \/ Within(wire', Fin(c)) \/ Within(incoming', Fin(c))
             \/ Within(queue'[c], Fin(c))
  <2>1. UNCHANGED <<queue, incoming, outcome>>
    BY <1>2 DEF Server, Reply, End, callVars
  <2>2. PICK e \in {Rep(d), Fin(d)} : wire' = Append(wire, e)
    BY <1>2 DEF Server, Reply, End, Rep, Fin
  <2>3. e \in Messages
    BY Made
  <2>4. Within(Append(wire, e), Fin(c)) <=> (Within(wire, Fin(c)) \/ e = Fin(c))
    BY <1>Q, <2>3, WithinAppend
  <2>5. served'[c] = served[c] \/ wire' = Append(wire, Fin(c))
    BY <1>2, <1>T DEF Server, Reply, End, TypeOK, Fin
  <2>6. Within(Append(wire, Fin(c)), Fin(c))
    BY <1>Q, Made, WithinAppend
  <2> QED  BY <1>1, <2>1, <2>2, <2>4, <2>5, <2>6
<1>3. ASSUME NEW d \in Calls, Consume(d)
      PROVE  \/ Within(wire', Fin(c)) \/ Within(incoming', Fin(c))
             \/ Within(queue'[c], Fin(c))
  <2>1. /\ UNCHANGED <<queue, outcome, served>> /\ wire # <<>>
        /\ incoming' = Append(incoming, Head(wire)) /\ wire' \in {wire, Tail(wire)}
    BY <1>3 DEF Consume
  <2>2. Head(wire) \in Messages
    BY <1>Q, <2>1, TailFacts
  <2>3. Within(incoming', Fin(c)) <=> (Within(incoming, Fin(c)) \/ Head(wire) = Fin(c))
    BY <1>Q, <2>1, <2>2, WithinAppend
  <2>4. Within(wire, Fin(c)) <=> (Head(wire) = Fin(c) \/ Within(Tail(wire), Fin(c)))
    BY <1>Q, <2>1, WithinTail
  <2> QED  BY <1>1, <2>1, <2>3, <2>4
<1>4. ASSUME NEW d \in Calls, NEW i \in Calls, WakeOne(d, i)
      PROVE  \/ Within(wire', Fin(c)) \/ Within(incoming', Fin(c))
             \/ Within(queue'[c], Fin(c))
  <2>1. UNCHANGED <<incoming, wire, outcome, served>>
    BY <1>4 DEF WakeOne
  <2>2. queue'[c] = queue[c] \/ queue'[c] = Append(queue[c], WakeUp(c))
    BY <1>T, <1>4 DEF WakeOne, Put, TypeOK
  <2>3. Within(queue[c], Fin(c)) => Within(Append(queue[c], WakeUp(c)), Fin(c))
    BY <1>Q, Made, WithinAppend
  <2> QED  BY <1>1, <2>1, <2>2, <2>3
<1>5. ASSUME NEW d \in Calls, CheckQueue(d) \/ PollQueue(d)
      PROVE  \/ Within(wire', Fin(c)) \/ Within(incoming', Fin(c))
             \/ Within(queue'[c], Fin(c))
  <2>1. UNCHANGED <<incoming, wire, served>> /\ outcome[c] = "pending"
    BY <1>5, <1>T DEF CheckQueue, PollQueue, Processed, TypeOK
  <2>2. CASE c # d
    <3>1. UNCHANGED queue[c]
      BY <1>T, <1>5, <2>2 DEF CheckQueue, PollQueue, Took, TypeOK
    <3> QED  BY <1>1, <2>1, <3>1
  <2>3. CASE c = d
    <3>1. queue[c] # <<>> /\ queue'[c] = Tail(queue[c])
      BY <1>T, <1>5, <2>3 DEF CheckQueue, PollQueue, Took, TypeOK
    <3>2. Head(queue[c]).kind # "ending"
      BY <1>T, <1>5, <2>3 DEF CheckQueue, PollQueue, Processed, TypeOK
    <3>3. Within(queue[c], Fin(c)) <=> (Head(queue[c]) = Fin(c) \/ Within(Tail(queue[c]), Fin(c)))
      BY <1>Q, <3>1, WithinTail
    <3>4. Head(queue[c]) # Fin(c)
      BY <3>2 DEF Fin
    <3> QED  BY <1>1, <2>1, <3>1, <3>3, <3>4
  <2> QED  BY <2>2, <2>3
<1>6. ASSUME NEW d \in Calls, PollIncoming(d)
      PROVE  \/ Within(wire', Fin(c)) \/ Within(incoming', Fin(c))
             \/ Within(queue'[c], Fin(c))
  <2>1. UNCHANGED <<wire, served>> /\ incoming # <<>> /\ incoming' = Tail(incoming)
    BY <1>6 DEF PollIncoming
  <2>2. PICK h \in Messages : h = Head(incoming)
    BY <1>Q, <2>1, TailFacts
  <2>3. h \in Items
    BY <2>2, MessageFacts
  <2>4. outcome[c] = "pending" /\ (queue'[c] = queue[c] \/ queue'[c] = Append(queue[c], h))
    BY <1>T, <1>6, <2>2, <2>3 DEF PollIncoming, Deliver, Processed, Put, TypeOK
  <2>5. Within(incoming, Fin(c)) <=> (h = Fin(c) \/ Within(incoming', Fin(c)))
    BY <1>Q, <2>1, <2>2, WithinTail
  <2>6. Within(Append(queue[c], h), Fin(c)) <=> (Within(queue[c], Fin(c)) \/ h = Fin(c))
    BY <1>Q, <2>3, WithinAppend
  <2>7. ASSUME h = Fin(c) PROVE queue'[c] = Append(queue[c], h)
    <3>1. h.id = c /\ h.kind = "ending"
      BY <2>7 DEF Fin
    <3>2. c # d
      BY <1>T, <1>6, <2>2, <3>1 DEF PollIncoming, Deliver, Processed, TypeOK
    <3>3. c \in waiters
      BY <1>T, <2>1, <2>4 DEF Struct, Registered, Pending, Asked
    <3> QED  BY <1>T, <1>6, <2>2, <3>1, <3>2, <3>3 DEF PollIncoming, Deliver, Put, TypeOK
  <2> QED  BY <1>1, <2>1, <2>4, <2>5, <2>6, <2>7
<1>7. ASSUME NEW d \in Calls, Send(d) \/ Unlisten(d)
      PROVE  \/ Within(wire', Fin(c)) \/ Within(incoming', Fin(c))
             \/ Within(queue'[c], Fin(c))
  <2>1. UNCHANGED <<incoming, wire>> /\ outcome[c] = "pending" /\ served'[c] = served[c]
    BY <1>7, <1>T DEF Send, Unlisten, TypeOK
  <2>2. queue'[c] = queue[c]
    BY <1>7, <1>T, <2>1 DEF Send, Unlisten, Struct, Pending, TypeOK
  <2> QED  BY <1>1, <2>1, <2>2
<1>8. ASSUME NEW d \in Calls,
             \/ TryLock(d) \/ QueueEmpty(d) \/ PollTimeout(d) \/ ConsumeTimeout(d)
             \/ Release(d) \/ WakeAll(d)
      PROVE  \/ Within(wire', Fin(c)) \/ Within(incoming', Fin(c))
             \/ Within(queue'[c], Fin(c))
  <2>1. UNCHANGED <<queue, incoming, wire, served>>
    BY <1>8 DEF TryLock, QueueEmpty, PollTimeout, ConsumeTimeout, Release, WakeAll
  <2>2. outcome[c] = "pending"
    BY <1>8, <1>T DEF TryLock, QueueEmpty, PollTimeout, ConsumeTimeout, Release, WakeAll, TypeOK
  <2> QED  BY <1>1, <2>1, <2>2
<1>9. CASE UNCHANGED vars
  BY <1>1, <1>9 DEF vars, callVars
<1> QED  BY <1>2, <1>3, <1>4, <1>5, <1>6, <1>7, <1>8, <1>9 DEF Next, Caller

(* The ending of a call stays on its way as long as the call waits for it. *)
THEOREM EndingIsKept == Spec => []EndingKept
<1>1. Init => Struct /\ EndingKept
  BY StructInit DEF Init, EndingKept
<1>2. Struct /\ EndingKept /\ [Next]_vars => (Struct /\ EndingKept)'
  BY StructStep, KeptStep
<1> QED  BY <1>1, <1>2, PTL DEF Spec
=============================================================================
