---------------------------- MODULE StackSerial ----------------------------
(***************************************************************************)
(* What the stack lock promises to the operations of a stack: they run one *)
(* at a time, and the stack row is written by the operation that runs, in  *)
(* the order in-progress, outcome.  An operation may be cut short anywhere *)
(* (its thread is killed, its engine dies): the row then stays as it was.  *)
(***************************************************************************)
CONSTANTS Threads, Ops

VARIABLES
    busy,   \* the operation that runs: {} or {<<thread, op>>}
    row     \* the stack row

Init == busy = {} /\ row = "READY"

Start(w, o) ==
    /\ busy = {}
    /\ busy' = {<<w, o>>}
    /\ UNCHANGED row

InProgress(o) == IF o = "delete" THEN "DELETING" ELSE "UPDATING"
Outcomes(o)   == IF o = "delete" THEN {"DELETING", "GONE"} ELSE {"READY"}

\* A deleted row is never written again.
Write(w, o) ==
    /\ busy = {<<w, o>>}
    /\ row # "GONE"
    /\ row' \in {InProgress(o)} \cup Outcomes(o)
    /\ UNCHANGED busy

End ==
    /\ busy # {}
    /\ busy' = {}
    /\ UNCHANGED row

Next ==
    \/ \E w \in Threads, o \in Ops : Start(w, o) \/ Write(w, o)
    \/ End

Spec == Init /\ [][Next]_<<busy, row>>
=============================================================================
