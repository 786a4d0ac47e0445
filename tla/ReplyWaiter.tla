---------------------------- MODULE ReplyWaiter ----------------------------
(***************************************************************************)
(* oslo.messaging, _drivers/amqpdriver.py: how the threads of a process    *)
(* that wait for the replies to their RPC calls share one connection       *)
(* (ReplyWaiter, ReplyWaiters, AMQPDriverBase._send), and how the servers  *)
(* reply (AMQPIncomingMessage.reply).                                      *)
(*                                                                         *)
(* Every call is made by a thread of its own and stands for its msg_id.    *)
(* The threads may be native: a step is what cannot be interrupted, which  *)
(* is one operation on the lock, on a queue or on the connection.          *)
(***************************************************************************)
EXTENDS Integers, Sequences

CONSTANTS
    Calls,     \* the calls, by msg_id
    NoCall,    \* none of them
    Timed,     \* the calls that have a timeout
    Silent,    \* bound: the calls whose servers are not there to reply
    MaxAgain   \* bound: how many messages are delivered again

ASSUME CallsAssumption == NoCall \notin Calls
ASSUME TimedAssumption == Timed \subseteq Calls
ASSUME SilentAssumption == Silent \subseteq Calls
ASSUME AgainAssumption == MaxAgain \in Nat

VARIABLES
    at,        \* at[c]: where the thread of call c is
    lock,      \* conn_lock: the call whose thread polls the connection
    waiters,   \* the keys of ReplyWaiters._queues
    queue,     \* queue[c]: its queue
    toWake,    \* toWake[c]: those it has still to wake up
    final,     \* final[c]: the call whose reply is in its final_reply
    outcome,   \* outcome[c]: how it has ended
    incoming,  \* ReplyWaiter.incoming
    wire,      \* the reply queue in the broker
    served,    \* served[c]: how far its server is
    again      \* how many messages have been delivered again

callVars == <<at, lock, waiters, queue, toWake, final, outcome, incoming>>
vars == <<callVars, wire, served, again>>

Messages == [id : Calls, kind : {"reply", "ending"}]
Items    == [id : Calls, kind : {"reply", "ending", "wake_up"}]
WakeUp(c) == [id |-> c, kind |-> "wake_up"]

Places == {"start", "try", "check", "poll", "release", "wake", "waking", "wait",
           "unlisten", "over"}

TypeOK ==
    /\ at       \in [Calls -> Places]
    /\ lock     \in Calls \cup {NoCall}
    /\ waiters  \in SUBSET Calls
    /\ queue    \in [Calls -> Seq(Items)]
    /\ toWake   \in [Calls -> SUBSET Calls]
    /\ final    \in [Calls -> Calls \cup {NoCall}]
    /\ outcome  \in [Calls -> {"pending", "returned", "timeout", "failed"}]
    /\ incoming \in Seq(Messages)
    /\ wire     \in Seq(Messages)
    /\ served   \in [Calls -> {"no", "asked", "replied", "done"}]
    /\ again    \in 0..MaxAgain

Init ==
    /\ at = [c \in Calls |-> "start"]
    /\ lock = NoCall
    /\ waiters = {}
    /\ queue = [c \in Calls |-> <<>>]
    /\ toWake = [c \in Calls |-> {}]
    /\ final = [c \in Calls |-> NoCall]
    /\ outcome = [c \in Calls |-> "pending"]
    /\ incoming = <<>>
    /\ wire = <<>>
    /\ served = [c \in Calls |-> "no"]
    /\ again = 0

Goes(c, place) == at' = [at EXCEPT ![c] = place]

-----------------------------------------------------------------------------
(* AMQPDriverBase._send: the queue of a call is there before the request   *)
(* is sent.                                                                *)

Send(c) ==
    /\ at[c] = "start"
    /\ waiters' = waiters \cup {c}
    /\ \/ /\ served' = [served EXCEPT ![c] = "asked"]
          /\ Goes(c, "try")
          /\ UNCHANGED outcome
       \/ /\ outcome' = [outcome EXCEPT ![c] = "failed"]
          /\ Goes(c, "unlisten")
          /\ UNCHANGED served
    /\ UNCHANGED <<lock, queue, toWake, final, incoming, wire, again>>

Unlisten(c) ==
    /\ at[c] = "unlisten" \/ (at[c] = "waking" /\ toWake[c] = {})
    /\ waiters' = waiters \ {c}
    /\ queue' = [queue EXCEPT ![c] = <<>>]
    /\ Goes(c, "over")
    /\ UNCHANGED <<lock, toWake, final, outcome, incoming, wire, served, again>>

-----------------------------------------------------------------------------
(* ReplyWaiter.wait: the thread that gets the lock polls the connection    *)
(* for all, the others wait at their queues.                               *)

TryLock_mutNoCheck(c) ==
    /\ at[c] = "try"
    /\ \/ lock = NoCall /\ lock' = c /\ Goes(c, "poll")
       \/ lock # NoCall /\ UNCHANGED lock /\ Goes(c, "wait")
    /\ UNCHANGED <<waiters, queue, toWake, final, outcome, incoming, wire, served, again>>
TryLock(c) ==
    /\ at[c] = "try"
    /\ \/ lock = NoCall /\ lock' = c /\ Goes(c, "check")
       \/ lock # NoCall /\ UNCHANGED lock /\ Goes(c, "wait")
    /\ UNCHANGED <<waiters, queue, toWake, final, outcome, incoming, wire, served, again>>

\* _process_reply: a reply is kept, the message after it ends the call.
Processed(c, m, goOn, ended) ==
    /\ final' = IF m.kind = "reply" THEN [final EXCEPT ![c] = m.id] ELSE final
    /\ Goes(c, IF m.kind = "ending" THEN ended ELSE goOn)
    /\ outcome' = IF m.kind = "ending" THEN [outcome EXCEPT ![c] = "returned"] ELSE outcome

Took(c) == queue[c] # <<>> /\ queue' = [queue EXCEPT ![c] = Tail(@)]

\* _check_queue, until the queue is empty.
CheckQueue(c) ==
    /\ at[c] = "check"
    /\ Took(c)
    /\ Processed(c, Head(queue[c]), "check", "release")
    /\ UNCHANGED <<lock, waiters, toWake, incoming, wire, served, again>>

QueueEmpty(c) ==
    /\ at[c] = "check"
    /\ queue[c] = <<>>
    /\ Goes(c, "poll")
    /\ UNCHANGED <<lock, waiters, queue, toWake, final, outcome, incoming, wire, served, again>>

\* _poll_queue: after a wake-up, or a reply, the lock is tried again.
PollQueue_mutSleepsOn(c) ==
    /\ at[c] = "wait"
    /\ Took(c)
    /\ Processed(c, Head(queue[c]), "wait", "unlisten")
    /\ UNCHANGED <<lock, waiters, toWake, incoming, wire, served, again>>
PollQueue(c) ==
    /\ at[c] = "wait"
    /\ Took(c)
    /\ Processed(c, Head(queue[c]), "try", "unlisten")
    /\ UNCHANGED <<lock, waiters, toWake, incoming, wire, served, again>>

PollTimeout(c) ==
    /\ c \in Timed
    /\ at[c] = "wait" /\ queue[c] = <<>>
    /\ outcome' = [outcome EXCEPT ![c] = "timeout"]
    /\ Goes(c, "unlisten")
    /\ UNCHANGED <<lock, waiters, queue, toWake, final, incoming, wire, served, again>>

\* ReplyWaiters.put: an item for a call that does not listen is dropped.
Put(i, item) ==
    queue' = IF i \in waiters THEN [queue EXCEPT ![i] = Append(@, item)] ELSE queue

\* _poll_connection: first what has come in, ...
Deliver_mutDrops(c, m) ==
    \/ /\ m.id = c
       /\ Processed(c, m, "poll", "release")
       /\ UNCHANGED queue
    \/ m.id # c /\ UNCHANGED <<at, final, outcome, queue>>
Deliver(c, m) ==
    \/ /\ m.id = c
       /\ Processed(c, m, "poll", "release")
       /\ UNCHANGED queue
    \/ m.id # c /\ Put(m.id, m) /\ UNCHANGED <<at, final, outcome>>

PollIncoming(c) ==
    /\ at[c] = "poll"
    /\ incoming # <<>>
    /\ incoming' = Tail(incoming)
    /\ Deliver(c, Head(incoming))
    /\ UNCHANGED <<lock, waiters, toWake, wire, served, again>>

\* ... then the connection.  A message comes again if the connection breaks
\* before the broker has the acknowledgement.
Consume(c) ==
    /\ at[c] = "poll"
    /\ incoming = <<>>
    /\ wire # <<>>
    /\ incoming' = Append(incoming, Head(wire))
    /\ \/ wire' = Tail(wire) /\ UNCHANGED again
       \/ again < MaxAgain /\ again' = again + 1 /\ UNCHANGED wire
    /\ UNCHANGED <<at, lock, waiters, queue, toWake, final, outcome, served>>

ConsumeTimeout(c) ==
    /\ c \in Timed
    /\ at[c] = "poll"
    /\ incoming = <<>>
    /\ outcome' = [outcome EXCEPT ![c] = "timeout"]
    /\ Goes(c, "release")
    /\ UNCHANGED <<lock, waiters, queue, toWake, final, incoming, wire, served, again>>

\* The "finally" of wait: the lock is released, then the others are woken up.
Release(c) ==
    /\ at[c] = "release"
    /\ lock' = NoCall
    /\ Goes(c, "wake")
    /\ UNCHANGED <<waiters, queue, toWake, final, outcome, incoming, wire, served, again>>

WakeAll_mutOnReplyOnly(c) ==
    /\ at[c] = "wake"
    /\ toWake' = [toWake EXCEPT ![c] = IF outcome[c] = "timeout" THEN {} ELSE waiters \ {c}]
    /\ Goes(c, "waking")
    /\ UNCHANGED <<lock, waiters, queue, final, outcome, incoming, wire, served, again>>
WakeAll(c) ==
    /\ at[c] = "wake"
    /\ toWake' = [toWake EXCEPT ![c] = waiters \ {c}]
    /\ Goes(c, "waking")
    /\ UNCHANGED <<lock, waiters, queue, final, outcome, incoming, wire, served, again>>

WakeOne(c, i) ==
    /\ at[c] = "waking"
    /\ i \in toWake[c]
    /\ toWake' = [toWake EXCEPT ![c] = @ \ {i}]
    /\ Put(i, WakeUp(i))
    /\ UNCHANGED <<at, lock, waiters, final, outcome, incoming, wire, served, again>>

-----------------------------------------------------------------------------
(* The server of a call: reply sends two messages.  As it may die before,  *)
(* or in between, nothing says that it must get there.                     *)

Reply_mutNoId(c) ==
    /\ c \notin Silent
    /\ served[c] = "asked"
    /\ wire' = Append(wire, [id |-> NoCall, kind |-> "reply"])
    /\ served' = [served EXCEPT ![c] = "replied"]
    /\ UNCHANGED <<callVars, again>>
Reply(c) ==
    /\ c \notin Silent
    /\ served[c] = "asked"
    /\ wire' = Append(wire, [id |-> c, kind |-> "reply"])
    /\ served' = [served EXCEPT ![c] = "replied"]
    /\ UNCHANGED <<callVars, again>>

End(c) ==
    /\ served[c] = "replied"
    /\ wire' = Append(wire, [id |-> c, kind |-> "ending"])
    /\ served' = [served EXCEPT ![c] = "done"]
    /\ UNCHANGED <<callVars, again>>

Caller(c) == \/ Send(c) \/ Unlisten(c) \/ TryLock(c) \/ CheckQueue(c)
             \/ QueueEmpty(c) \/ PollQueue(c) \/ PollTimeout(c) \/ PollIncoming(c)
             \/ Consume(c) \/ ConsumeTimeout(c) \/ Release(c) \/ WakeAll(c)
             \/ \E i \in Calls : WakeOne(c, i)

Server(c) == Reply(c) \/ End(c)

Next == \E c \in Calls : Caller(c) \/ Server(c)

Spec == Init /\ [][Next]_vars

\* The threads run.  Nothing is assumed of the servers.
Fairness == \A c \in Calls : WF_vars(Caller(c))

FairSpec == Spec /\ Fairness

-----------------------------------------------------------------------------
(* Properties.                                                             *)

\* A thread never waits in vain for a wake-up: as long as one is asleep at an
\* empty queue, another polls the connection, or is about to wake it up.
NobodyForgotten ==
    \A c \in Calls :
        at[c] = "wait" /\ queue[c] = <<>> =>
            \/ lock # NoCall
            \/ \E d \in Calls : at[d] = "wake" \/ (at[d] = "waking" /\ c \in toWake[d])

\* A call that returns has the reply to its own request, whoever received it:
\* the ending never overtakes the reply on the way through another thread.
ReturnsItsReply ==
    \A c \in Calls : outcome[c] = "returned" => final[c] = c

\* The ending of a call is not lost as long as the call waits for it.
Within(s, m) == \E i \in 1..Len(s) : s[i] = m

EndingKept ==
    \A c \in Calls : LET m == [id |-> c, kind |-> "ending"] IN
        served[c] = "done" /\ outcome[c] = "pending" =>
            Within(wire, m) \/ Within(incoming, m) \/ Within(queue[c], m)

\* A call whose server has replied in full, or that has a timeout, ends, even
\* if the thread that polls the connection gets no reply itself.
Ends == \A c \in Calls :
           (served[c] = "done" \/ (c \in Timed /\ at[c] = "try")) ~> at[c] = "over"
=============================================================================
