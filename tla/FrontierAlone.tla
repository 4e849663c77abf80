------------------------------ MODULE FrontierAlone ------------------------------
(***************************************************************************)
(* The frontier by itself, under whatever its callers may do: any order of *)
(* enqueue_request and next_request, downloads that begin and end as the   *)
(* downloader likes, checkpoints, kills, closes and restarts.              *)
(***************************************************************************)
EXTENDS Frontier

CONSTANTS
  AnyRequest,
  MaxOpens   \* bound: processes on this JOBDIR

ASSUME AloneAssumption == MaxOpens \in Nat

VARIABLE opens

avars == <<frontier, active, opens>>

InQueue(r) == \E s \in Live : \E i \in DOMAIN pqueues[s] : pqueues[s][i] = r
WasPopped(r) == \E s \in Slot : \E i \in DOMAIN popped[s] : popped[s][i] = r
IsActive(r) == \E s \in Slot : r \in active[s]

\* enqueue_request
EnqueueRequest(s, r) ==
  /\ isOpen
  /\ ~InQueue(r) /\ ~WasPopped(r) /\ ~IsActive(r)
  /\ ~OverQueues(s)
  /\ \E isNew \in BOOLEAN : ~OverCapacity(isNew)
  /\ Enqueue(s, r)
  /\ UNCHANGED <<active, opens>>

PopRequest == isOpen /\ NextRequest /\ UNCHANGED opens

DownloadStarts(s, r) ==
  /\ isOpen /\ ~InQueue(r) /\ ~IsActive(r)
  /\ Sent(s, r) /\ UNCHANGED <<frontier, opens>>

DownloadEnds(s, r) ==
  /\ isOpen /\ r \in active[s]
  /\ Left(s, r) /\ UNCHANGED <<frontier, opens>>

Checkpoint ==
  /\ isOpen
  /\ \E slots \in SUBSET Live : CheckpointSlice(slots)
  /\ UNCHANGED opens

End == isOpen /\ (Killed \/ Closed) /\ UNCHANGED opens

Restart ==
  /\ ~isOpen /\ opens < MaxOpens
  /\ Opened
  /\ opens' = opens + 1

AloneInit == FrontierInit /\ opens = 1

AloneNext ==
  \/ \E s \in Slot, r \in AnyRequest :
       EnqueueRequest(s, r) \/ DownloadStarts(s, r) \/ DownloadEnds(s, r)
  \/ PopRequest
  \/ Checkpoint
  \/ End
  \/ Restart

AloneSpec == AloneInit /\ [][AloneNext]_avars

\* The queues of live slots hold distinct requests; names are of the right kind.
AloneTypeOK ==
  /\ Live \subseteq Slot
  /\ \A i \in DOMAIN ring : ring[i] \in Slot
  /\ members \subseteq Slot /\ activeJson \subseteq Slot
  /\ size \in Nat /\ opens \in Nat /\ isOpen \in BOOLEAN
  /\ popped \in [Slot -> Seq(AnyRequest)]
  /\ active \in [Slot -> SUBSET AnyRequest]
  /\ \A s \in Live : pqueues[s] \in Seq(AnyRequest)
===============================================================================
