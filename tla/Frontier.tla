-------------------------------- MODULE Frontier --------------------------------
(***************************************************************************)
(* The disk frontier of one shard: crawler/pqueue.py (the ring of          *)
(* per-domain queues) and crawler/scheduler.py (its caps, the tracked      *)
(* size, the rebuild of active.json).  JOBDIR is set, as ops/run_hour.sh   *)
(* does, so no request goes to the memory queue.                           *)
(*                                                                         *)
(* One per-domain queue is what DurableQueue promises: first in, first     *)
(* out, and after a kill what was popped since the queue was last saved    *)
(* may come back.                                                          *)
(***************************************************************************)
EXTENDS Naturals, Sequences, FiniteSets, Functions

CONSTANTS
  Slot,       \* registered domains
  ScanLimit,  \* PQUEUE_SCAN_LIMIT
  QueueCap,   \* PQUEUE_MAX
  Cap,        \* FRONTIER_MAX_SIZE
  ExemptCap   \* Cap * FRONTIER_EXEMPT_SLACK

ASSUME FrontierAssumption ==
  /\ ScanLimit \in Nat \ {0}
  /\ QueueCap \in Nat /\ Cap \in Nat /\ ExemptCap \in Nat
  /\ Cap <= ExemptCap

VARIABLES
  pqueues,    \* the queue of each live slot
  popped,     \* popped[s]: what s has given since its queue was last saved
  ring,       \* _ring
  members,    \* _ring_members
  size,       \* _size
  activeJson, \* the slots active.json lists
  isOpen,     \* whether a process has the queues open
  active      \* active[s]: the requests in the downloader's slot

frontier == <<pqueues, popped, ring, members, size, activeJson, isOpen>>
fvars == <<frontier, active>>

Live == DOMAIN pqueues
NoneActive == [s \in Slot |-> {}]
NothingPopped == [s \in Slot |-> <<>>]
Omit(f, s) == Restrict(f, DOMAIN f \ {s})
With(f, s, v) == [t \in DOMAIN f \cup {s} |-> IF t = s THEN v ELSE f[t]]

\* len(self): the parent counts what every queue holds.
Places(pq) == UNION {{s} \X DOMAIN pq[s] : s \in DOMAIN pq}
Total(pq) == Cardinality(Places(pq))

-------------------------------------------------------------------------------
(* pqueue.py: which slot is next. *)

Idle(s) == active[s] = {}

LiveBefore(i) == Cardinality({j \in 1 .. i - 1 : ring[j] \in Live})

\* The entries _select_slot walks past: stale ones, which it forgets, and busy
\* ones, which it rotates to the back, until it has seen ScanLimit of those.
Passed ==
  {i \in DOMAIN ring :
     /\ LiveBefore(i) < ScanLimit
     /\ \A j \in 1 .. i : ring[j] \in Live => ~Idle(ring[j])}

Walked == Cardinality(Passed)
Busy ==   \* the live ones of them, in their order
  [k \in 1 .. LiveBefore(Walked + 1) |->
     ring[CHOOSE i \in 1 .. Walked : ring[i] \in Live /\ LiveBefore(i) = k - 1]]
Behind == SubSeq(ring, Walked + 1, Len(ring))

Hit == Behind # <<>> /\ Len(Busy) < ScanLimit

\* The first of the least active.
LeastBusy ==
  Busy[CHOOSE i \in DOMAIN Busy :
         /\ \A j \in DOMAIN Busy : Cardinality(active[Busy[i]]) <= Cardinality(active[Busy[j]])
         /\ \A j \in 1 .. i - 1 : Cardinality(active[Busy[i]]) < Cardinality(active[Busy[j]])]

Winner == IF Hit THEN Head(Behind) ELSE LeastBusy

\* Fault: the winner keeps its place.
NotRotated == Behind \o Busy

\* The winner goes behind everything else.
Rotated ==
  LET walked == Behind \o Busy IN
  IF walked # <<>> /\ Head(walked) = Winner
  THEN Append(Tail(walked), Winner) ELSE walked

Forgotten == {ring[i] : i \in {j \in 1 .. Walked : ring[j] \notin Live}}

-------------------------------------------------------------------------------
(* The scheduler's operations. *)

OverQueues(s) == Cardinality(Live) >= QueueCap /\ s \notin Live

\* Fault: the exemption has no ceiling of its own.
OverCapacityUnlessNew(isNew) == size >= Cap /\ ~isNew

OverCapacity(isNew) == size >= Cap /\ ~(isNew /\ size < ExemptCap)

\* Fault: a stale entry is not looked for, and a second one is made.
RingAddAlways(s) == ring' = Append(ring, s) /\ members' = members \cup {s}

RingAdd(s) ==
  IF s \in members THEN UNCHANGED <<ring, members>>
  ELSE ring' = Append(ring, s) /\ members' = members \cup {s}

\* enqueue_request once it has been let in (the caller says what becomes of active).
Enqueue(s, r) ==
  /\ pqueues' = With(pqueues, s, IF s \in Live THEN Append(pqueues[s], r) ELSE <<r>>)
  /\ RingAdd(s)
  /\ size' = size + 1
  /\ UNCHANGED <<popped, activeJson, isOpen>>

\* Fault: the size follows every call, whether it brought a request or not.
Taken == size - 1

\* next_request counts what it returns; an empty queue of a resumed slot
\* returns None.
Remaining == IF pqueues[Winner] = <<>> THEN size ELSE size - 1

\* next_request on a frontier with live slots.  The rebuild of a lost ring
\* (pqueue.py:135-144) is not here: RingComplete says it is never needed.
NextRequest ==
  /\ Live # {}
  /\ LET s == Winner
         q == pqueues[Winner]
     IN
     IF Len(q) <= 1   \* _drop_queue: its directory goes as well
     THEN /\ pqueues' = Omit(pqueues, s)
          /\ popped' = [popped EXCEPT ![s] = <<>>]
     ELSE /\ pqueues' = [pqueues EXCEPT ![s] = Tail(q)]
          /\ popped' = [popped EXCEPT ![s] = Append(@, Head(q))]
  /\ ring' = Rotated
  /\ members' = members \ Forgotten
  /\ size' = Remaining
  /\ UNCHANGED <<activeJson, isOpen, active>>

\* What NextRequest returns, at most one request.
Given == {r \in {pqueues[Winner][i] : i \in DOMAIN pqueues[Winner]} : r = Head(pqueues[Winner])}

Sent(s, r) == active' = [active EXCEPT ![s] = @ \cup {r}]
Left(s, r) == active' = [active EXCEPT ![s] = @ \ {r}]

\* One slice saves some of the queues; which, its cursor decides.
CheckpointSlice(slots) ==
  /\ popped' = [s \in Slot |-> IF s \in slots THEN <<>> ELSE popped[s]]
  /\ UNCHANGED <<pqueues, ring, members, size, activeJson, isOpen, active>>

Volatile ==
  /\ ring' = <<>> /\ members' = {} /\ size' = 0
  /\ active' = NoneActive
  /\ isOpen' = FALSE

\* The process is killed: only the files are left.
Killed == Volatile /\ UNCHANGED <<pqueues, popped, activeJson>>

\* close: the parent writes active.json and every queue its metadata.
Closed ==
  /\ Volatile
  /\ activeJson' = Live
  /\ popped' = NothingPopped
  /\ UNCHANGED pqueues

\* A queue that holds nothing has no file either.
OnDisk == {s \in Live : pqueues[s] # <<>>}

\* Fault: active.json is read as the last close left it.
ListedAtClose == activeJson

\* _rebuild_dqs_state: with nothing on disk it leaves active.json as it is.
Listed == IF OnDisk # {} THEN OnDisk ELSE activeJson

Replays(s) ==
  {SubSeq(popped[s], i, Len(popped[s])) \o pqueues[s] : i \in 1 .. Len(popped[s]) + 1}

\* Every order in which the directories may be listed.
Orders(S) ==
  {q \in [1 .. Cardinality(S) -> S] :
     \A s \in S : \E i \in DOMAIN q : q[i] = s /\ \A j \in DOMAIN q : q[j] = s => j = i}

\* open
Opened ==
  /\ \E q \in [OnDisk -> UNION {Replays(s) : s \in OnDisk}] :
       /\ \A s \in OnDisk : q[s] \in Replays(s)
       /\ pqueues' = [s \in Listed |-> IF s \in OnDisk THEN q[s] ELSE <<>>]
       /\ size' = Total(pqueues')
  /\ ring' \in Orders(Listed)
  /\ members' = Listed
  /\ activeJson' = Listed
  /\ popped' = NothingPopped
  /\ active' = NoneActive
  /\ isOpen' = TRUE

FrontierInit ==
  /\ pqueues = << >> /\ popped = NothingPopped
  /\ ring = <<>> /\ members = {} /\ size = 0
  /\ activeJson = {} /\ active = NoneActive
  /\ isOpen = TRUE

-------------------------------------------------------------------------------
(* Properties. *)

\* Every live slot is in the ring, once, and _ring_members is what the ring
\* holds: no queue is ever lost to pop (pqueue.py:135-144 is never needed), and
\* a slot that empties and refills does not get two turns.
RingComplete ==
  /\ \A i, j \in DOMAIN ring : ring[i] = ring[j] => i = j
  /\ members = {ring[i] : i \in DOMAIN ring}
  /\ isOpen => Live \subseteq members

\* _size is what has_pending_requests and the caps go by: it is the number of
\* requests the queues hold, through pops of empty queues and restarts.
SizeExact == isOpen => size = Total(pqueues)

Waiting(s) == s \in Live /\ Idle(s)
Ahead(s, t) == \E i, j \in DOMAIN ring : i < j /\ ring[i] = s /\ ring[j] = t

\* A domain with requests and nothing in flight keeps its place, and a domain
\* that is served goes behind it: nobody is served twice while another waits
\* (pqueue.py:92-94, "no slot is starved").
FairTurns ==
  [][isOpen /\ isOpen' =>
       \A s, t \in Live \cap DOMAIN pqueues' :
         s # t /\ Waiting(s) /\ Waiting(s)' /\ pqueues'[s] = pqueues[s] =>
           /\ Ahead(s, t) => Ahead(s, t)'
           /\ Len(pqueues'[t]) < Len(pqueues[t]) => Ahead(s, t)']_fvars

\* What enqueue_request lets in never takes the frontier past the cap of the
\* exempt, nor past its number of queues: scheduler.py:300-352.
FrontierBounded ==
  [][isOpen /\ isOpen' =>
       /\ size' > size => size' <= ExemptCap
       /\ Cardinality(DOMAIN pqueues') > Cardinality(Live) =>
            Cardinality(DOMAIN pqueues') <= QueueCap]_fvars
===============================================================================
