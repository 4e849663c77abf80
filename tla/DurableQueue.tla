----------------------------- MODULE DurableQueue -----------------------------
(***************************************************************************)
(* What a frontier queue promises to the scheduler: first in, first out,   *)
(* and a kill loses nothing that was queued.  After a kill the queue is at *)
(* an earlier place of what it was given: requests that were handed out    *)
(* since that place are handed out once more, in their order.              *)
(***************************************************************************)
EXTENDS Naturals, Sequences

CONSTANT Record

VARIABLES
  log,    \* the requests ever pushed, oldest first
  items,  \* the requests the queue still owes: the end of log
  given   \* the requests it has handed out, oldest first

vars == <<log, items, given>>

Init == log = <<>> /\ items = <<>> /\ given = <<>>

Push ==
  /\ \E r \in Record : log' = Append(log, r) /\ items' = Append(items, r)
  /\ UNCHANGED given

Pop ==
  /\ items # <<>>
  /\ items' = Tail(items)
  /\ given' = Append(given, Head(items))
  /\ UNCHANGED log

\* The request being pushed when the process dies may or may not be kept.
Kill ==
  /\ \E last \in {<<>>} \cup {<<r>> : r \in Record} : log' = log \o last
  /\ \E k \in 0 .. Len(log) - Len(items) : items' = SubSeq(log', k + 1, Len(log'))
  /\ UNCHANGED given

Next == Push \/ Pop \/ Kill

Spec == Init /\ [][Next]_vars
===============================================================================
