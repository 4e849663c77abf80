--------------------------------- MODULE Queues ---------------------------------
(***************************************************************************)
(* The two levels of the disk frontier for TLC, side by side: the files of *)
(* one queue, and the ring of the queues, each of which keeps the promise  *)
(* of DurableQueue that the first level is checked against.  One level     *)
(* moves, and the other stays as it began.  Slots and requests are         *)
(* interchangeable, and no property is a liveness property.                *)
(***************************************************************************)
EXTENDS DiskQueue, FrontierAlone, TLC

VARIABLE level

QueuesInit == Init /\ AloneInit /\ level \in {"queue", "ring"}

QueuesNext ==
  \/ level = "queue" /\ Next /\ UNCHANGED <<level, avars>>
  \/ level = "ring" /\ AloneNext /\ UNCHANGED <<level, vars>>

QueuesSpec == QueuesInit /\ [][QueuesNext]_<<level, vars, avars>>

Sym == Permutations(Slot) \cup Permutations(AnyRequest)

===============================================================================
