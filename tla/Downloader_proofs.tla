--------------------------- MODULE Downloader_proofs ---------------------------
(***************************************************************************)
(* Proofs about module Downloader, for every set of domains, every delay   *)
(* and every bound.                                                        *)
(*                                                                         *)
(* The argument is the one of downloader.py:44-56.  SlotShape says that a  *)
(* slot never holds more than one request between its pop and its          *)
(* completion: the timer set by the pop bars a second pop until the first  *)
(* coroutine has started.  Spacing says that whenever the next pop, or the *)
(* next write, is possible, the previous write is Delay in the past.       *)
(***************************************************************************)
EXTENDS Downloader, SequenceTheorems, TLAPS

Past(t) == t + Delay <= now

SlotShape(s) ==
  /\ s \in Slot
  /\ Delay <= s.delay
  /\ \/ s.ready = <<>>
     \/ s.ready = <<"timer">> /\ s.later # 0
     \/ /\ \E k \in Kind : s.ready \in {<<k>>, <<k, "timer">>}
        /\ s.later # 0
        /\ s.transferring = <<>>
  /\ \/ s.transferring = <<>>
     \/ \E r \in Transfer : s.transferring = <<r>>

\* No lost wakeup, for one slot.
Served(s) == s.queue # <<>> => s.later # 0 \/ s.transferring # <<>>

\* t is the time of an earlier request: it is Delay in the past while the
\* next one is popped, and before the last completion until then.
Apart(s, t) ==
  /\ Popped(s) # {} => Past(t)
  /\ Popped(s) = {} /\ s.transferring = <<>> => t <= s.lastseen \/ Past(t)

Spacing(d, t) ==
  /\ t <= now
  /\ d \notin live => Past(t)
  /\ d \in live => Apart(slot[d], t)

Unsent(s) == \E i \in DOMAIN s.transferring : ~s.transferring[i].sent

SlotInv(d) ==
  /\ lastComplete[d] <= now
  /\ d \in live => SlotShape(slot[d]) /\ Served(slot[d]) /\ slot[d].lastseen <= now

WireInv(d) ==
  writes[d] > 0 =>
    /\ Spacing(d, wire[d])
    /\ d \in live /\ Unsent(slot[d]) => Past(wire[d])

GuardInv(d) == lastOut[d] # 0 => Spacing(d, lastOut[d])

DomainInv(d) == SlotInv(d) /\ WireInv(d) /\ GuardInv(d)

IInv == \A d \in Domain : DomainInv(d)

Inv == TypeOK /\ IInv

USE DelayAssumption, CrawlDelayAssumption, PauseAssumption, BoundAssumption

-------------------------------------------------------------------------------
(* Slots. *)

\* A slot as built is in good shape, whatever its clock was seeded with.
LEMMA NewSlotShape ==
  ASSUME NEW t \in Nat
  PROVE  /\ NewSlot(t) \in Slot
         /\ SlotShape(NewSlot(t)) /\ Served(NewSlot(t))
         /\ Popped(NewSlot(t)) = {}
BY DEF NewSlot, Slot, SlotShape, Served, Popped, Kind, Transfer

\* A slot holds a popped request exactly when its first callback is not a timer.
LEMMA PoppedShape ==
  ASSUME NEW s, SlotShape(s)
  PROVE  /\ s.ready \in {<<>>, <<"timer">>} => Popped(s) = {}
         /\ s.ready \notin {<<>>, <<"timer">>} => Popped(s) = {1}
<1>1. CASE s.ready = <<>>
  BY <1>1 DEF Popped
<1>2. CASE s.ready = <<"timer">>
  BY <1>2 DEF Popped
<1>3. ASSUME NEW k \in Kind, s.ready = <<k>>
      PROVE  Popped(s) = {1} /\ s.ready \notin {<<>>, <<"timer">>}
  BY <1>3 DEF Popped, Kind
<1>4. ASSUME NEW k \in Kind, s.ready = <<k, "timer">>
      PROVE  Popped(s) = {1} /\ s.ready \notin {<<>>, <<"timer">>}
  <2>1. DOMAIN s.ready = {1, 2} /\ s.ready[1] = k /\ s.ready[2] = "timer"
    BY <1>4
  <2> QED
    BY <1>4, <2>1 DEF Popped, Kind
<1> QED
  BY <1>1, <1>2, <1>3, <1>4 DEF SlotShape

\* What _process_queue does to a slot in good shape.
LEMMA ProcessQueueShape ==
  ASSUME NEW s, SlotShape(s), NEW t \in Nat, s.lastseen <= t
  PROVE  LET p == ProcessQueue(s, t) IN
         /\ SlotShape(p) /\ Served(p)
         /\ p.transferring = s.transferring
         /\ p.delay = s.delay
         /\ p.lastseen <= t
         /\ s.lastseen <= p.lastseen
         /\ \/ Popped(p) = Popped(s)
            \/ Popped(s) = {} /\ s.transferring = <<>> /\ s.lastseen + s.delay <= t
<1> DEFINE p == ProcessQueue(s, t)
<1>1. CASE CanPop(s, t)
  <2>1. s.ready = <<>> /\ s.transferring = <<>>
    BY <1>1 DEF CanPop, SlotShape, FreeTransferSlots, Slot
  <2>2. p = [s EXCEPT !.queue = Tail(s.queue), !.lastseen = t, !.later = t + s.delay,
                      !.ready = <<Head(s.queue)>>]
    BY <1>1, <2>1 DEF ProcessQueue, CanPop, SlotShape, Slot
  <2>3. Head(s.queue) \in Kind /\ Tail(s.queue) \in Seq(Kind)
    BY <1>1 DEF CanPop, SlotShape, Slot
  <2>4. p = [queue |-> Tail(s.queue), lastseen |-> t, delay |-> s.delay,
             later |-> t + s.delay, ready |-> <<Head(s.queue)>>,
             transferring |-> s.transferring]
    BY <2>2 DEF SlotShape, Slot
  <2>5. SlotShape(p) /\ Served(p)
    <3>1. p \in Slot
      <4>1. <<Head(s.queue)>> \in Seq(Kind \cup {"timer"}) /\ t + s.delay \in Nat
        BY <2>3 DEF SlotShape, Slot
      <4> QED
        BY <2>3, <2>4, <4>1 DEF SlotShape, Slot
    <3>2. p.ready = <<Head(s.queue)>> /\ p.later # 0 /\ p.transferring = <<>>
          /\ Delay <= p.delay
      BY <2>1, <2>4 DEF SlotShape, Slot
    <3> QED
      BY <2>3, <3>1, <3>2 DEF SlotShape, Served
  <2>6. p.transferring = s.transferring /\ p.delay = s.delay /\ p.lastseen = t
    BY <2>2 DEF SlotShape, Slot
  <2>7. s.lastseen + s.delay <= t /\ t <= t
    BY <1>1 DEF CanPop, SlotShape, Slot
  <2>8. Popped(s) = {}
    BY <2>1 DEF Popped
  <2> QED
    BY <2>1, <2>5, <2>6, <2>7, <2>8
<1>2. CASE ~CanPop(s, t) /\ s.later = 0 /\ t < s.lastseen + s.delay
  <2>1. p = [queue |-> s.queue, lastseen |-> s.lastseen, delay |-> s.delay,
             later |-> s.lastseen + s.delay, ready |-> s.ready,
             transferring |-> s.transferring]
    BY <1>2 DEF ProcessQueue, SlotShape, Slot
  <2>2. s.lastseen + s.delay \in Nat \ {0}
    BY DEF SlotShape, Slot
  <2>3. p \in Slot
    BY <2>1, <2>2 DEF SlotShape, Slot
  <2>4. SlotShape(p) /\ Served(p)
    BY <2>1, <2>2, <2>3 DEF SlotShape, Served
  <2>5. Popped(p) = Popped(s)
    BY <2>1 DEF Popped
  <2>6. p.transferring = s.transferring /\ p.delay = s.delay /\ p.lastseen = s.lastseen
        /\ s.lastseen \in Nat
    BY <2>1 DEF SlotShape, Slot
  <2> QED
    BY <2>4, <2>5, <2>6
<1>3. CASE ~CanPop(s, t) /\ ~(s.later = 0 /\ t < s.lastseen + s.delay)
  <2>1. p = s
    BY <1>3 DEF ProcessQueue
  <2> QED
    BY <1>3, <2>1 DEF SlotShape, Served, Slot, CanPop, FreeTransferSlots
<1> QED
  BY <1>1, <1>2, <1>3

\* _process_queue keeps the next request apart from an earlier one.
LEMMA ApartPreserved ==
  ASSUME NEW s, SlotShape(s), now \in Nat, s.lastseen <= now,
         NEW t \in Nat, t <= now, Apart(s, t)
  PROVE  Apart(ProcessQueue(s, now), t)
<1> DEFINE p == ProcessQueue(s, now)
<1>1. /\ SlotShape(p)
      /\ p.transferring = s.transferring
      /\ s.lastseen <= p.lastseen
      /\ \/ Popped(p) = Popped(s)
         \/ Popped(s) = {} /\ s.transferring = <<>> /\ s.lastseen + s.delay <= now
  BY ProcessQueueShape
<1> HIDE DEF p
<1>2. s.lastseen \in Nat /\ s.delay \in Nat /\ Delay <= s.delay /\ p.lastseen \in Nat
  BY <1>1 DEF SlotShape, Slot
<1>3. ASSUME Popped(p) = Popped(s) PROVE Apart(p, t)
  BY <1>1, <1>2, <1>3 DEF Apart, Past
<1>4. ASSUME Popped(s) = {} /\ s.transferring = <<>> /\ s.lastseen + s.delay <= now
      PROVE  Apart(p, t)
  <2>1. Past(t)
    BY <1>2, <1>4 DEF Apart, Past
  <2> QED
    BY <2>1 DEF Apart
<1>5. Apart(p, t)
  BY <1>1, <1>3, <1>4
<1> QED
  BY <1>5 DEF p

\* A domain none of whose variables change, except that entries may be purged.
LEMMA Frame ==
  ASSUME Inv, NEW d \in Domain, now' = now,
         d \in live' <=> d \in live, slot'[d] = slot[d],
         lastComplete'[d] \in {0, lastComplete[d]}, lastOut'[d] \in {0, lastOut[d]},
         wire'[d] = wire[d], writes'[d] = writes[d]
  PROVE  DomainInv(d)'
<1> USE DEF Inv, TypeOK
<1>1. SlotInv(d)'
  BY DEF IInv, DomainInv, SlotInv, SlotShape, Served
<1>2. WireInv(d)'
  BY DEF IInv, DomainInv, WireInv, Spacing, Apart, Past, Unsent, Popped
<1>3. GuardInv(d)'
  BY DEF IInv, DomainInv, GuardInv, Spacing, Apart, Past, Popped
<1> QED
  BY <1>1, <1>2, <1>3 DEF DomainInv

\* A domain whose slot went through _process_queue.
LEMMA Processed ==
  ASSUME Inv, NEW d \in Domain, now' = now, d \in live',
         NEW q, SlotShape(q), q.lastseen <= now, slot'[d] = ProcessQueue(q, now),
         lastComplete'[d] \in Nat, lastComplete'[d] <= now,
         lastOut'[d] = lastOut[d], wire'[d] = wire[d], writes'[d] = writes[d],
         lastOut[d] # 0 => Apart(q, lastOut[d]),
         writes[d] > 0 => Apart(q, wire[d]) /\ (Unsent(q) => Past(wire[d]))
  PROVE  DomainInv(d)'
<1> DEFINE p == ProcessQueue(q, now)
<1> USE DEF Inv, TypeOK
<1>1. /\ SlotShape(p) /\ Served(p)
      /\ p.transferring = q.transferring
      /\ p.lastseen <= now
  BY ProcessQueueShape
<1>2. lastOut[d] # 0 => lastOut[d] <= now /\ Apart(p, lastOut[d])
  BY ApartPreserved DEF IInv, DomainInv, GuardInv, Spacing
<1>3. writes[d] > 0 => /\ wire[d] <= now /\ Apart(p, wire[d])
                       /\ Unsent(p) => Past(wire[d])
  BY <1>1, ApartPreserved DEF IInv, DomainInv, WireInv, Spacing, Unsent
<1>4. slot'[d] = p
  OBVIOUS
<1> HIDE DEF p
<1>5. SlotInv(d)'
  BY <1>1, <1>4 DEF SlotInv, SlotShape, Served
<1>6. GuardInv(d)'
  BY <1>2, <1>4 DEF GuardInv, Spacing, Apart, Past, Popped
<1>7. WireInv(d)'
  BY <1>3, <1>4 DEF WireInv, Spacing, Apart, Past, Popped, Unsent
<1> QED
  BY <1>5, <1>6, <1>7 DEF DomainInv

-------------------------------------------------------------------------------
(* One step of each action. *)

\* Raising the delay of a slot changes nothing else about it.
LEMMA WithDelayShape ==
  ASSUME NEW s, SlotShape(s), NEW delay \in Nat
  PROVE  LET w == WithDelay(s, delay) IN
         /\ SlotShape(w)
         /\ Served(s) => Served(w)
         /\ Popped(w) = Popped(s)
         /\ w.transferring = s.transferring
         /\ w.lastseen = s.lastseen
<1>1. CASE s.delay < delay
  <2> DEFINE w == [queue |-> s.queue, lastseen |-> s.lastseen, delay |-> delay,
                   later |-> s.later, ready |-> s.ready,
                   transferring |-> s.transferring]
  <2>1. WithDelay(s, delay) = w
    BY <1>1 DEF WithDelay, SlotShape, Slot
  <2>2. w \in Slot /\ Delay <= delay
    BY <1>1 DEF SlotShape, Slot
  <2> QED
    BY <2>1, <2>2 DEF SlotShape, Served, Popped
<1>2. CASE ~(s.delay < delay)
  BY <1>2 DEF WithDelay
<1> QED
  BY <1>1, <1>2

\* A request that reaches the downloader, its replayed Crawl-delay included,
\* preserves the invariant.
LEMMA EnqueueStep ==
  ASSUME Inv, NEW d \in Domain, NEW kind \in Kind, Enqueue(d, kind)
  PROVE  Inv'
<1> USE DEF Inv, TypeOK
<1> DEFINE s == Replayed(d, kind)
           q == [s EXCEPT !.queue = Append(s.queue, kind)]
<1>1. /\ SlotShape(s) /\ s.lastseen <= now
      /\ lastOut[d] # 0 => Apart(s, lastOut[d])
      /\ writes[d] > 0 => Apart(s, wire[d]) /\ (Unsent(s) => Past(wire[d]))
  <2>1. CASE d \in live
    <3>1. /\ SlotShape(slot[d]) /\ slot[d].lastseen <= now
          /\ lastOut[d] # 0 => Apart(slot[d], lastOut[d])
          /\ writes[d] > 0 => /\ Apart(slot[d], wire[d])
                              /\ Unsent(slot[d]) => Past(wire[d])
      BY <2>1 DEF IInv, DomainInv, SlotInv, WireInv, GuardInv, Spacing
    <3>2. s \in {slot[d], WithDelay(slot[d], pending[d])}
      BY <2>1 DEF Replayed, GetSlot
    <3>3. LET w == WithDelay(slot[d], pending[d]) IN
          /\ SlotShape(w) /\ Popped(w) = Popped(slot[d])
          /\ w.transferring = slot[d].transferring /\ w.lastseen = slot[d].lastseen
      BY <3>1, WithDelayShape
    <3> HIDE DEF s
    <3>4. /\ SlotShape(s) /\ Popped(s) = Popped(slot[d])
          /\ s.transferring = slot[d].transferring /\ s.lastseen = slot[d].lastseen
      BY <3>1, <3>2, <3>3
    <3> QED
      BY <3>1, <3>4 DEF Apart, Unsent
  <2>2. CASE d \notin live
    <3>1. s = NewSlot(lastComplete[d])
      BY <2>2 DEF Replayed, GetSlot
    <3>2. /\ SlotShape(s) /\ Popped(s) = {} /\ s.transferring = <<>>
          /\ s.lastseen = lastComplete[d]
      BY <3>1, NewSlotShape DEF NewSlot
    <3>3. /\ lastComplete[d] <= now
          /\ lastOut[d] # 0 => Past(lastOut[d])
          /\ writes[d] > 0 => Past(wire[d])
      BY <2>2 DEF IInv, DomainInv, SlotInv, WireInv, GuardInv, Spacing
    <3> QED
      BY <3>2, <3>3 DEF Apart
  <2> QED
    BY <2>1, <2>2
<1>2. /\ slot' = [slot EXCEPT ![d] = ProcessQueue(q, now)]
      /\ live' = live \cup {d}
      /\ UNCHANGED <<now, minGap, lastComplete, maxDelay, lastOut, pending, unparsed,
                     stamped, wire, writes, done, asked>>
  BY DEF Enqueue
<1>3. /\ SlotShape(q) /\ q.lastseen <= now
      /\ lastOut[d] # 0 => Apart(q, lastOut[d])
      /\ writes[d] > 0 => Apart(q, wire[d]) /\ (Unsent(q) => Past(wire[d]))
  <2>1. Append(s.queue, kind) \in Seq(Kind)
    BY <1>1 DEF SlotShape, Slot
  <2>2. q \in Slot
    BY <1>1, <2>1 DEF SlotShape, Slot
  <2>3. /\ q.lastseen = s.lastseen /\ q.delay = s.delay /\ q.later = s.later
        /\ q.ready = s.ready /\ q.transferring = s.transferring
    BY <1>1 DEF SlotShape, Slot
  <2> HIDE DEF q, s
  <2> QED
    BY <1>1, <2>2, <2>3 DEF SlotShape, Apart, Unsent, Popped
<1> HIDE DEF q
<1>4. ProcessQueue(q, now) \in Slot
  BY <1>3, ProcessQueueShape DEF SlotShape
<1>5. TypeOK'
  BY <1>2, <1>4
<1>6. DomainInv(d)'
  <2>1. slot'[d] = ProcessQueue(q, now)
    BY <1>2
  <2> QED
    BY <1>2, <1>3, <2>1, Processed DEF IInv, DomainInv, SlotInv
<1>7. ASSUME NEW e \in Domain, e # d PROVE DomainInv(e)'
  BY <1>2, <1>7, Frame
<1> QED
  BY <1>5, <1>6, <1>7 DEF IInv

\* A domain whose slot becomes q without going through _process_queue.
LEMMA Touched ==
  ASSUME Inv, NEW d \in Domain, now' = now, d \in live',
         NEW q, SlotShape(q), Served(q), q.lastseen <= now, slot'[d] = q,
         lastComplete'[d] = lastComplete[d],
         lastOut'[d] # 0 => lastOut'[d] <= now /\ Apart(q, lastOut'[d]),
         writes'[d] > 0 => /\ wire'[d] <= now /\ Apart(q, wire'[d])
                           /\ Unsent(q) => Past(wire'[d])
  PROVE  DomainInv(d)'
<1>1. SlotInv(d)'
  BY DEF Inv, IInv, DomainInv, SlotInv, SlotShape, Served
<1>2. GuardInv(d)'
  BY DEF GuardInv, Spacing, Apart, Past, Popped
<1>3. WireInv(d)'
  BY DEF WireInv, Spacing, Apart, Past, Popped, Unsent
<1> QED
  BY <1>1, <1>2, <1>3 DEF DomainInv

\* What remains of a pair of callbacks once the first has run.
LEMMA TailOfPair ==
  ASSUME NEW S, NEW x \in S, NEW y \in S
  PROVE  Tail(<<x, y>>) = <<y>>
<1>1. <<x, y>> \in Seq(S) /\ <<y>> \in Seq(S)
  OBVIOUS
<1>2. /\ Tail(<<x, y>>) \in Seq(S)
      /\ Len(Tail(<<x, y>>)) = 1
      /\ Tail(<<x, y>>)[1] = y
  OBVIOUS
<1> QED
  BY <1>1, <1>2, SeqEqual

\* A slot whose next callback is the coroutine of a popped request.
LEMMA HeadTask ==
  ASSUME Inv, NEW d \in Domain, HeadIsTask(d)
  PROVE  LET s == slot[d] IN
         /\ SlotShape(s) /\ s.lastseen <= now /\ s.later # 0 /\ s.transferring = <<>>
         /\ Popped(s) # {}
         /\ Head(s.ready) \in Kind
         /\ Tail(s.ready) \in {<<>>, <<"timer">>}
         /\ Tail(s.ready) \in Seq(Kind \cup {"timer"})
         /\ lastOut[d] # 0 => Past(lastOut[d])
         /\ writes[d] > 0 => Past(wire[d])
<1> DEFINE s == slot[d]
<1>1. /\ SlotShape(s) /\ s.lastseen <= now /\ d \in live
      /\ lastOut[d] # 0 => Apart(s, lastOut[d])
      /\ writes[d] > 0 => Apart(s, wire[d])
  BY DEF HeadIsTask, Inv, IInv, DomainInv, SlotInv, WireInv, GuardInv, Spacing
<1>2. s.ready # <<>> /\ Head(s.ready) \in Kind
  BY DEF HeadIsTask
<1> HIDE DEF s
<1>3. s.ready # <<"timer">>
  BY <1>2 DEF Kind
<1>4. PICK k \in Kind : s.ready \in {<<k>>, <<k, "timer">>}
  BY <1>1, <1>2, <1>3 DEF SlotShape
<1>5. s.later # 0 /\ s.transferring = <<>>
  BY <1>1, <1>2, <1>3 DEF SlotShape
<1>6. Popped(s) = {1}
  BY <1>1, <1>2, <1>3, PoppedShape
<1>7. Tail(s.ready) \in {<<>>, <<"timer">>}
  <2>1. CASE s.ready = <<k>>
    BY <2>1
  <2>2. CASE s.ready = <<k, "timer">>
    <3>1. k \in Kind \cup {"timer"} /\ "timer" \in Kind \cup {"timer"}
      OBVIOUS
    <3> QED
      BY <2>2, <3>1, TailOfPair
  <2> QED
    BY <1>4, <2>1, <2>2
<1>8. Tail(s.ready) \in Seq(Kind \cup {"timer"})
  BY <1>1, <1>2 DEF SlotShape, Slot
<1> QED
  BY <1>1, <1>2, <1>5, <1>6, <1>7, <1>8 DEF Apart, s

\* _download up to its await preserves the invariant: what it stamps and the last
\* write are both Delay in the past.
LEMMA DispatchStep ==
  ASSUME Inv, NEW d \in Domain, NEW full \in BOOLEAN, Dispatch(d, full)
  PROVE  Inv'
<1> USE DEF Inv, TypeOK
<1> DEFINE s == slot[d]
           r == [kind |-> Head(s.ready), sent |-> FALSE]
           q == [s EXCEPT !.ready = Tail(s.ready), !.transferring = <<r>>]
<1>1. /\ SlotShape(s) /\ s.lastseen <= now /\ s.later # 0 /\ s.transferring = <<>>
      /\ Head(s.ready) \in Kind
      /\ Tail(s.ready) \in {<<>>, <<"timer">>}
      /\ Tail(s.ready) \in Seq(Kind \cup {"timer"})
      /\ writes[d] > 0 => Past(wire[d])
  BY HeadTask DEF Dispatch
<1>2. /\ slot' = [slot EXCEPT ![d] = q]
      /\ d \in live
      /\ UNCHANGED <<now, minGap, live, lastComplete, maxDelay, pending, unparsed,
                     wire, writes, done, asked>>
      /\ stamped' = [stamped EXCEPT ![d] = now]
  <2>1. Append(s.transferring, r) = <<r>>
    BY <1>1
  <2> QED
    BY <1>1, <2>1 DEF Dispatch, HeadIsTask
<1>3. /\ lastOut' \in [Domain -> Nat]
      /\ lastOut'[d] \in {now, lastOut[d]}
      /\ \A e \in Domain : e # d => lastOut'[e] \in {0, lastOut[e]}
      /\ lastOut[d] # 0 => lastOut[d] <= now
  BY DEF Dispatch, Purge, IInv, DomainInv, GuardInv, Spacing
<1>4. /\ q \in Slot /\ q.ready = Tail(s.ready) /\ q.transferring = <<r>>
      /\ q.lastseen = s.lastseen /\ q.delay = s.delay /\ q.later = s.later
  <2>1. r \in Transfer
    BY <1>1 DEF Transfer
  <2>2. <<r>> \in Seq(Transfer)
    BY <2>1
  <2> QED
    BY <1>1, <2>2 DEF SlotShape, Slot
<1>5. r \in Transfer
  BY <1>1 DEF Transfer
<1> HIDE DEF q, r, s
<1>6. SlotShape(q) /\ Served(q) /\ q.lastseen <= now
  BY <1>1, <1>4, <1>5, <<r>> # <<>> DEF SlotShape, Served
<1>7. Popped(q) = {} /\ q.transferring # <<>>
  <2>1. Popped(q) = {}
    BY <1>1, <1>4, <1>6, PoppedShape
  <2> QED
    BY <2>1, <1>4
<1>8. TypeOK'
  BY <1>2, <1>3, <1>4
<1>9. DomainInv(d)'
  <2>1. slot'[d] = q /\ d \in live'
    BY <1>2
  <2>2. lastOut'[d] # 0 => lastOut'[d] <= now /\ Apart(q, lastOut'[d])
    BY <1>3, <1>7 DEF Apart
  <2>3. writes'[d] > 0 => /\ wire'[d] <= now /\ Apart(q, wire'[d])
                          /\ Unsent(q) => Past(wire'[d])
    BY <1>1, <1>2, <1>7 DEF Apart, Past
  <2> QED
    BY <1>2, <1>6, <2>1, <2>2, <2>3, Touched
<1>10. ASSUME NEW e \in Domain, e # d PROVE DomainInv(e)'
  BY <1>2, <1>3, <1>10, Frame
<1> QED
  BY <1>8, <1>9, <1>10 DEF IInv

\* A refusal by the guard preserves the invariant: the timer of the pop is still set.
LEMMA RefuseStep ==
  ASSUME Inv, NEW d \in Domain, Refuse(d)
  PROVE  Inv'
<1> USE DEF Inv, TypeOK
<1> DEFINE s == slot[d]
           q == [s EXCEPT !.ready = Tail(s.ready)]
<1>1. /\ SlotShape(s) /\ s.lastseen <= now /\ s.later # 0 /\ s.transferring = <<>>
      /\ Tail(s.ready) \in {<<>>, <<"timer">>}
      /\ Tail(s.ready) \in Seq(Kind \cup {"timer"})
      /\ lastOut[d] # 0 => Past(lastOut[d])
      /\ writes[d] > 0 => Past(wire[d])
  BY HeadTask DEF Refuse
<1>2. /\ slot' = [slot EXCEPT ![d] = q]
      /\ d \in live
      /\ UNCHANGED <<now, minGap, live, lastComplete, maxDelay, lastOut, pending,
                     unparsed, stamped, wire, writes, done, asked>>
  BY DEF Refuse, HeadIsTask
<1>3. /\ q \in Slot /\ q.ready = Tail(s.ready) /\ q.transferring = s.transferring
      /\ q.lastseen = s.lastseen /\ q.delay = s.delay /\ q.later = s.later
  BY <1>1 DEF SlotShape, Slot
<1> HIDE DEF q, s
<1>4. SlotShape(q) /\ Served(q) /\ q.lastseen <= now
  BY <1>1, <1>3 DEF SlotShape, Served
<1>5. TypeOK'
  BY <1>2, <1>3
<1>6. DomainInv(d)'
  <2>1. slot'[d] = q /\ d \in live'
    BY <1>2
  <2>2. lastOut'[d] # 0 => lastOut'[d] <= now /\ Apart(q, lastOut'[d])
    BY <1>1, <1>2 DEF Apart, Past
  <2>3. writes'[d] > 0 => /\ wire'[d] <= now /\ Apart(q, wire'[d])
                          /\ Unsent(q) => Past(wire'[d])
    BY <1>1, <1>2 DEF Apart, Past
  <2> QED
    BY <1>2, <1>4, <2>1, <2>2, <2>3, Touched
<1>7. ASSUME NEW e \in Domain, e # d PROVE DomainInv(e)'
  BY <1>2, <1>7, Frame
<1> QED
  BY <1>5, <1>6, <1>7 DEF IInv

\* A slot with a request in transferring.
LEMMA InTransfer ==
  ASSUME NEW s, SlotShape(s), NEW i \in DOMAIN s.transferring
  PROVE  /\ \E r \in Transfer : s.transferring = <<r>>
         /\ i = 1
         /\ s.transferring # <<>>
         /\ Popped(s) = {}
<1>1. s.transferring # <<>>
  BY DEF SlotShape
<1>2. PICK r \in Transfer : s.transferring = <<r>>
  BY <1>1 DEF SlotShape
<1>3. i = 1
  BY <1>2
<1>4. Popped(s) = {}
  BY <1>1, PoppedShape DEF SlotShape
<1> QED
  BY <1>1, <1>2, <1>3, <1>4

\* The write preserves the invariant: the request written is the only one in transfer.
LEMMA WriteToWireStep ==
  ASSUME Inv, NEW d \in Domain, WriteToWire(d)
  PROVE  Inv'
<1> USE DEF Inv, TypeOK
<1> DEFINE s == slot[d]
<1>1. PICK i \in DOMAIN s.transferring :
        /\ ~s.transferring[i].sent
        /\ slot' = [slot EXCEPT ![d].transferring[i].sent = TRUE]
  BY DEF WriteToWire
<1>2. /\ SlotShape(s) /\ Served(s) /\ s.lastseen <= now /\ d \in live
      /\ lastOut[d] # 0 => lastOut[d] <= now /\ Apart(s, lastOut[d])
  BY DEF WriteToWire, IInv, DomainInv, SlotInv, GuardInv, Spacing
<1>3. /\ UNCHANGED <<now, minGap, live, lastComplete, maxDelay, lastOut, pending,
                     unparsed, stamped, done, asked>>
      /\ wire' = [wire EXCEPT ![d] = now]
      /\ writes' = [writes EXCEPT ![d] = writes[d] + 1]
  BY DEF WriteToWire
<1>4. PICK r \in Transfer : s.transferring = <<r>>
  BY <1>1, <1>2, InTransfer
<1>5. i = 1 /\ s.transferring # <<>>
  BY <1>1, <1>2, InTransfer
<1> DEFINE r2 == [r EXCEPT !.sent = TRUE]
           q == [s EXCEPT !.transferring = <<r2>>]
<1>6. r2 \in Transfer /\ r2.sent = TRUE
  BY DEF Transfer
<1>7. slot' = [slot EXCEPT ![d] = q]
  <2>1. [s.transferring EXCEPT ![1].sent = TRUE] = <<r2>>
    <3> DEFINE x == [<<r>> EXCEPT ![1].sent = TRUE]
    <3>1. x \in Seq(Transfer) /\ <<r2>> \in Seq(Transfer)
      BY <1>6
    <3>2. Len(x) = 1 /\ x[1] = r2
      OBVIOUS
    <3> HIDE DEF x, r2
    <3>3. Len(<<r2>>) = 1 /\ <<r2>>[1] = r2 /\ \A j \in 1 .. 1 : j = 1
      OBVIOUS
    <3>4. x = <<r2>>
      BY <3>1, <3>2, <3>3, SeqEqual
    <3> USE DEF x
    <3> QED
      BY <1>4, <3>4
  <2> QED
    BY <1>1, <1>5, <2>1
<1>8. /\ q \in Slot /\ q.ready = s.ready /\ q.transferring = <<r2>>
      /\ q.lastseen = s.lastseen /\ q.delay = s.delay /\ q.later = s.later
      /\ q.queue = s.queue
  <2>1. <<r2>> \in Seq(Transfer)
    BY <1>6
  <2> HIDE DEF r2
  <2> QED
    BY <1>2, <2>1 DEF SlotShape, Slot
<1> HIDE DEF q, r2, s
<1>9. q.transferring # <<>> /\ s.transferring # <<>>
  BY <1>5, <1>8
<1>10. SlotShape(q) /\ Served(q) /\ q.lastseen <= now
  BY <1>2, <1>6, <1>8, <1>9 DEF SlotShape, Served
<1>11. Popped(q) = {} /\ ~Unsent(q)
  <2>1. Popped(q) = {}
    BY <1>9, <1>10, PoppedShape DEF SlotShape
  <2>2. ~Unsent(q)
    BY <1>6, <1>8 DEF Unsent
  <2> QED
    BY <2>1, <2>2
<1>12. TypeOK'
  BY <1>3, <1>7, <1>8
<1>13. DomainInv(d)'
  <2>1. slot'[d] = q /\ d \in live'
    BY <1>2, <1>3, <1>7
  <2>2. lastOut'[d] # 0 => lastOut'[d] <= now /\ Apart(q, lastOut'[d])
    BY <1>2, <1>3, <1>9, <1>11 DEF Apart
  <2>3. writes'[d] > 0 => /\ wire'[d] <= now /\ Apart(q, wire'[d])
                          /\ Unsent(q) => Past(wire'[d])
    BY <1>3, <1>9, <1>11 DEF Apart
  <2> QED
    BY <1>3, <1>10, <2>1, <2>2, <2>3, Touched
<1>14. ASSUME NEW e \in Domain, e # d PROVE DomainInv(e)'
  BY <1>3, <1>7, <1>14, Frame
<1> QED
  BY <1>12, <1>13, <1>14 DEF IInv

\* The finally block preserves the invariant: the new lastseen covers the write.
LEMMA CompleteStep ==
  ASSUME Inv, NEW d \in Domain, NEW full \in BOOLEAN, Complete(d, full)
  PROVE  Inv'
<1> USE DEF Inv, TypeOK
<1> DEFINE s == slot[d]
           idle == [s EXCEPT !.transferring = <<>>]
           q == [idle EXCEPT !.lastseen = now]
<1>1. PICK i \in DOMAIN s.transferring :
        /\ slot' = [slot EXCEPT ![d] = Settled(s, i)]
        /\ \E ok \in {FALSE, s.transferring[i].sent} :
             unparsed' = [unparsed EXCEPT ![d] =
               @ \/ (ok /\ s.transferring[i].kind = "robots")]
  BY DEF Complete
<1>2. /\ SlotShape(s) /\ s.lastseen <= now /\ d \in live
      /\ lastOut[d] # 0 => lastOut[d] <= now
      /\ writes[d] > 0 => wire[d] <= now
  BY DEF Complete, IInv, DomainInv, SlotInv, GuardInv, WireInv, Spacing
<1>3. /\ UNCHANGED <<now, minGap, live, lastOut, pending, stamped, wire, writes, asked>>
      /\ done' = [done EXCEPT ![d] = now]
      /\ maxDelay' \in {s.delay, maxDelay}
  BY DEF Complete
<1>4. /\ lastComplete' \in [Domain -> Nat]
      /\ lastComplete'[d] = now
      /\ \A e \in Domain : e # d => lastComplete'[e] \in {0, lastComplete[e]}
  BY DEF Complete, Purge
<1>5. PICK r \in Transfer : s.transferring = <<r>>
  BY <1>1, <1>2, InTransfer
<1>6. i = 1 /\ s.transferring # <<>> /\ Popped(s) = {}
  BY <1>1, <1>2, InTransfer
<1>7. slot' = [slot EXCEPT ![d] = ProcessQueue(q, now)]
  <2>1. SubSeq(s.transferring, 1, 0) \o SubSeq(s.transferring, 2, 1) = <<>>
    BY <1>5
  <2>2. Len(s.transferring) = 1
    BY <1>5
  <2>3. 1 - 1 = 0 /\ 1 + 1 = 2
    OBVIOUS
  <2>4. Without(s, 1) = idle
    BY <2>1, <2>2, <2>3, Zenon DEF Without
  <2> QED
    BY <1>1, <1>6, <2>4 DEF Settled
<1>8. /\ q \in Slot /\ q.ready = s.ready /\ q.transferring = <<>>
      /\ q.lastseen = now /\ q.delay = s.delay /\ q.later = s.later
  <2>1. /\ idle \in Slot /\ idle.ready = s.ready /\ idle.transferring = <<>>
        /\ idle.delay = s.delay /\ idle.later = s.later
    <3>1. <<>> \in Seq(Transfer)
      OBVIOUS
    <3> QED
      BY <1>2, <3>1 DEF SlotShape, Slot
  <2> HIDE DEF idle
  <2> QED
    BY <2>1 DEF Slot
<1> HIDE DEF q
<1>9. s.transferring # <<>>
  BY <1>6
<1>10. SlotShape(q) /\ q.lastseen <= now
  BY <1>2, <1>8, <1>9 DEF SlotShape
<1>11. Popped(q) = {} /\ ~Unsent(q)
  BY <1>6, <1>8 DEF Popped, Unsent
<1>12. TypeOK'
  <2>1. ProcessQueue(q, now) \in Slot
    BY <1>10, ProcessQueueShape DEF SlotShape
  <2>2. maxDelay' \in Nat
    BY <1>2, <1>3 DEF SlotShape, Slot
  <2>3. unparsed' \in [Domain -> BOOLEAN]
    BY <1>1
  <2> QED
    BY <1>3, <1>4, <1>7, <2>1, <2>2, <2>3
<1>13. DomainInv(d)'
  <2>1. slot'[d] = ProcessQueue(q, now) /\ d \in live'
    BY <1>2, <1>3, <1>7
  <2>2. lastOut[d] # 0 => Apart(q, lastOut[d])
    BY <1>2, <1>8, <1>11 DEF Apart
  <2>3. writes[d] > 0 => Apart(q, wire[d]) /\ (Unsent(q) => Past(wire[d]))
    BY <1>2, <1>8, <1>11 DEF Apart
  <2> QED
    BY <1>3, <1>4, <1>10, <2>1, <2>2, <2>3, Processed
<1>14. ASSUME NEW e \in Domain, e # d PROVE DomainInv(e)'
  <2>1. slot'[e] = slot[e]
    BY <1>7, <1>14
  <2> QED
    BY <1>3, <1>4, <1>14, <2>1, Frame
<1> QED
  BY <1>12, <1>13, <1>14 DEF IInv

\* A late timer preserves the invariant: its callback queues behind the coroutine's.
LEMMA ExpireStep ==
  ASSUME Inv, NEW d \in Domain, Expire(d)
  PROVE  Inv'
<1> USE DEF Inv, TypeOK
<1> DEFINE s == slot[d]
           q == [s EXCEPT !.ready = Append(s.ready, "timer")]
<1>1. /\ SlotShape(s) /\ Served(s) /\ s.lastseen <= now /\ d \in live
      /\ s.later # 0
      /\ lastOut[d] # 0 => lastOut[d] <= now /\ Apart(s, lastOut[d])
      /\ writes[d] > 0 => /\ wire[d] <= now /\ Apart(s, wire[d])
                          /\ Unsent(s) => Past(wire[d])
  BY DEF Expire, IInv, DomainInv, SlotInv, WireInv, GuardInv, Spacing
<1>2. /\ slot' = [slot EXCEPT ![d] = q]
      /\ UNCHANGED <<now, minGap, live, lastComplete, maxDelay, lastOut, pending,
                     unparsed, stamped, wire, writes, done, asked>>
      /\ \A i \in DOMAIN s.ready : s.ready[i] # "timer"
  BY DEF Expire
<1>3. /\ Append(s.ready, "timer") \in Seq(Kind \cup {"timer"})
      /\ q \in Slot /\ q.ready = Append(s.ready, "timer") /\ q.queue = s.queue
      /\ q.transferring = s.transferring
      /\ q.lastseen = s.lastseen /\ q.delay = s.delay /\ q.later = s.later
  <2>1. /\ s \in Slot /\ s.ready \in Seq(Kind \cup {"timer"})
        /\ "timer" \in Kind \cup {"timer"}
    BY <1>1 DEF SlotShape, Slot
  <2>2. Append(s.ready, "timer") \in Seq(Kind \cup {"timer"})
    BY <2>1
  <2> QED
    BY <2>1, <2>2 DEF Slot
<1> HIDE DEF q, s
<1>4. /\ SlotShape(q)
      /\ Popped(q) = Popped(s)
  <2>1. ASSUME s.ready = <<>>
        PROVE  SlotShape(q) /\ Popped(q) = Popped(s)
    <3>1. q.ready = <<"timer">>
      BY <1>3, <2>1
    <3>2. SlotShape(q)
      BY <1>1, <1>3, <3>1 DEF SlotShape
    <3> QED
      BY <1>1, <2>1, <3>1, <3>2, PoppedShape
  <2>2. ASSUME NEW k \in Kind, s.ready = <<k>>
        PROVE  SlotShape(q) /\ Popped(q) = Popped(s)
    <3>1. q.ready = <<k, "timer">>
      <4>1. <<k, "timer">> \in Seq(Kind \cup {"timer"})
            /\ <<k>> \in Seq(Kind \cup {"timer"})
        OBVIOUS
      <4> DEFINE x == Append(<<k>>, "timer")
      <4>2. x \in Seq(Kind \cup {"timer"})
        BY <4>1
      <4>3. Len(x) = 2 /\ x[1] = k /\ x[2] = "timer"
        BY <4>1
      <4>4. x = <<k, "timer">>
        <5> HIDE DEF x
        <5>1. /\ Len(<<k, "timer">>) = 2
              /\ <<k, "timer">>[1] = k /\ <<k, "timer">>[2] = "timer"
              /\ \A j \in 1 .. 2 : j = 1 \/ j = 2
          OBVIOUS
        <5> QED
          BY <4>1, <4>2, <4>3, <5>1, SeqEqual
      <4> QED
        BY <1>3, <2>2, <4>4
    <3>2. s.ready \notin {<<>>, <<"timer">>} /\ q.ready \notin {<<>>, <<"timer">>}
      <4>1. s.ready[1] = k /\ k # "timer" /\ Len(s.ready) = 1
        BY <2>2 DEF Kind
      <4>2. Len(q.ready) = 2 /\ q.ready[1] = k
        BY <3>1
      <4> QED
        BY <4>1, <4>2
    <3>3. s.transferring = <<>>
      BY <1>1, <3>2 DEF SlotShape
    <3>4. SlotShape(q)
      BY <1>1, <1>3, <3>1, <3>3 DEF SlotShape
    <3> QED
      BY <1>1, <3>2, <3>4, PoppedShape
  <2>3. s.ready # <<"timer">>
    BY <1>2 DEF s
  <2>4. ASSUME NEW k \in Kind PROVE s.ready # <<k, "timer">>
    <3>1. SUFFICES ASSUME s.ready = <<k, "timer">> PROVE FALSE
      OBVIOUS
    <3>2. 2 \in DOMAIN s.ready /\ s.ready[2] = "timer"
      BY <3>1
    <3> QED
      BY <1>2, <3>2 DEF s
  <2> QED
    BY <1>1, <2>1, <2>2, <2>3, <2>4 DEF SlotShape
<1>5. Served(q) /\ q.lastseen <= now
  BY <1>1, <1>3 DEF Served
<1>6. TypeOK'
  BY <1>2, <1>3
<1>7. DomainInv(d)'
  <2>1. slot'[d] = q /\ d \in live'
    BY <1>1, <1>2
  <2>2. lastOut'[d] # 0 => lastOut'[d] <= now /\ Apart(q, lastOut'[d])
    BY <1>1, <1>2, <1>3, <1>4 DEF Apart
  <2>3. writes'[d] > 0 => /\ wire'[d] <= now /\ Apart(q, wire'[d])
                          /\ Unsent(q) => Past(wire'[d])
    BY <1>1, <1>2, <1>3, <1>4 DEF Apart, Unsent
  <2> QED
    BY <1>2, <1>4, <1>5, <2>1, <2>2, <2>3, Touched
<1>8. ASSUME NEW e \in Domain, e # d PROVE DomainInv(e)'
  BY <1>2, <1>8, Frame
<1> QED
  BY <1>6, <1>7, <1>8 DEF IInv

\* _latercall preserves the invariant: it runs only after the coroutine has registered.
LEMMA LaterCallStep ==
  ASSUME Inv, NEW d \in Domain, LaterCall(d)
  PROVE  Inv'
<1> USE DEF Inv, TypeOK
<1> DEFINE s == slot[d]
           q == [s EXCEPT !.ready = Tail(s.ready), !.later = 0]
<1>1. /\ SlotShape(s) /\ Served(s) /\ s.lastseen <= now /\ d \in live
      /\ s.ready # <<>> /\ Head(s.ready) = "timer"
      /\ lastOut[d] # 0 => Apart(s, lastOut[d])
      /\ writes[d] > 0 => Apart(s, wire[d]) /\ (Unsent(s) => Past(wire[d]))
  BY DEF LaterCall, IInv, DomainInv, SlotInv, WireInv, GuardInv, Spacing
<1>2. /\ slot' = [slot EXCEPT ![d] = ProcessQueue(q, now)]
      /\ UNCHANGED <<now, minGap, live, lastComplete, maxDelay, lastOut, pending,
                     unparsed, stamped, wire, writes, done, asked>>
  BY DEF LaterCall
<1>3. s.ready = <<"timer">>
  <2>1. ASSUME NEW k \in Kind PROVE s.ready # <<k>> /\ s.ready # <<k, "timer">>
    <3>1. Head(<<k>>) = k /\ Head(<<k, "timer">>) = k /\ k # "timer"
      BY DEF Kind
    <3> QED
      BY <1>1, <3>1
  <2> HIDE DEF s
  <2> QED
    BY <1>1, <2>1 DEF SlotShape
<1>4. Tail(s.ready) = <<>>
  BY <1>3
<1>5. /\ q \in Slot /\ q.ready = <<>> /\ q.queue = s.queue
      /\ q.transferring = s.transferring
      /\ q.lastseen = s.lastseen /\ q.delay = s.delay
  <2>1. <<>> \in Seq(Kind \cup {"timer"})
    OBVIOUS
  <2> QED
    BY <1>1, <1>4, <2>1 DEF SlotShape, Slot
<1> HIDE DEF q, s
<1>6. SlotShape(q) /\ q.lastseen <= now
  BY <1>1, <1>5 DEF SlotShape
<1>7. Popped(q) = {} /\ Popped(s) = {}
  BY <1>1, <1>3, <1>5, <1>6, PoppedShape
<1>8. TypeOK'
  <2>1. ProcessQueue(q, now) \in Slot
    BY <1>6, ProcessQueueShape DEF SlotShape
  <2> QED
    BY <1>2, <2>1
<1>9. DomainInv(d)'
  <2>1. slot'[d] = ProcessQueue(q, now) /\ d \in live'
    BY <1>1, <1>2
  <2>2. lastOut[d] # 0 => Apart(q, lastOut[d])
    BY <1>1, <1>5, <1>7 DEF Apart
  <2>3. writes[d] > 0 => Apart(q, wire[d]) /\ (Unsent(q) => Past(wire[d]))
    BY <1>1, <1>5, <1>7 DEF Apart, Unsent
  <2>4. lastComplete[d] <= now
    BY DEF IInv, DomainInv, SlotInv
  <2> QED
    BY <1>2, <1>6, <2>1, <2>2, <2>3, <2>4, Processed
<1>10. ASSUME NEW e \in Domain, e # d PROVE DomainInv(e)'
  BY <1>2, <1>10, Frame
<1> QED
  BY <1>8, <1>9, <1>10 DEF IInv

\* The collector preserves the invariant: it drops slots whose requests are in the past.
LEMMA SlotGCStep ==
  ASSUME Inv, SlotGC
  PROVE  Inv'
<1> USE DEF Inv, TypeOK
<1>1. /\ live' = {d \in live : ~Idle(d)}
      /\ slot' = [d \in Domain |->
                    IF d \in live /\ Idle(d) THEN NewSlot(0) ELSE slot[d]]
      /\ UNCHANGED <<now, minGap, lastComplete, maxDelay, lastOut, pending, unparsed,
                     stamped, wire, writes, done, asked>>
  BY DEF SlotGC
<1>2. TypeOK'
  BY <1>1, NewSlotShape
<1>3. ASSUME NEW d \in Domain, ~(d \in live /\ Idle(d)) PROVE DomainInv(d)'
  BY <1>1, <1>3, Frame
<1>4. ASSUME NEW d \in Domain, d \in live, Idle(d) PROVE DomainInv(d)'
  <2>1. /\ Popped(slot[d]) = {} /\ slot[d].transferring = <<>>
        /\ slot[d].lastseen + slot[d].delay + GCAge < now
    BY <1>4 DEF Idle, Active
  <2>2. /\ SlotShape(slot[d])
        /\ lastOut[d] # 0 => lastOut[d] <= now /\ Apart(slot[d], lastOut[d])
        /\ writes[d] > 0 => wire[d] <= now /\ Apart(slot[d], wire[d])
    BY <1>4 DEF IInv, DomainInv, SlotInv, WireInv, GuardInv, Spacing
  <2>3. slot[d].lastseen \in Nat /\ slot[d].delay \in Nat /\ Delay <= slot[d].delay
    BY <2>2 DEF SlotShape, Slot
  <2>4. /\ lastOut[d] # 0 => lastOut[d] <= slot[d].lastseen \/ Past(lastOut[d])
        /\ writes[d] > 0 => wire[d] <= slot[d].lastseen \/ Past(wire[d])
    BY <2>1, <2>2 DEF Apart
  <2>5. ASSUME NEW t \in Nat, t <= slot[d].lastseen \/ Past(t)
        PROVE  Past(t)
    <3>1. now \in Nat /\ Delay \in Nat /\ GCAge \in Nat /\ Delay <= GCAge
      BY DelayAssumption, PauseAssumption, CrawlDelayAssumption
    <3> HIDE DEF Inv, TypeOK
    <3>2. CASE t <= slot[d].lastseen
      BY <2>1, <2>3, <3>1, <3>2 DEF Past
    <3> QED
      BY <2>5, <3>2
  <2>6. d \notin live' /\ lastOut[d] \in Nat /\ wire[d] \in Nat
    BY <1>1, <1>4
  <2>7. /\ lastOut[d] # 0 => Past(lastOut[d])
        /\ writes[d] > 0 => Past(wire[d])
    BY <2>4, <2>5, <2>6
  <2> QED
    BY <1>1, <2>2, <2>6, <2>7
       DEF IInv, DomainInv, SlotInv, WireInv, GuardInv, Spacing, Past
<1> QED
  BY <1>2, <1>3, <1>4 DEF IInv

\* A parsed Crawl-delay preserves the invariant: it only raises a slot's delay.
LEMMA RobotsParsedStep ==
  ASSUME Inv, NEW d \in Domain, NEW c \in CrawlDelays \cup {0}, RobotsParsed(d, c)
  PROVE  Inv'
<1> USE DEF Inv, TypeOK
<1> DEFINE capped == IF c < MaxCrawlDelay THEN c ELSE MaxCrawlDelay
           s == slot[d]
           q == WithDelay(s, capped)
<1>1. /\ c \in Nat /\ capped \in Nat
      /\ UNCHANGED <<now, minGap, live, lastComplete, maxDelay, lastOut, stamped,
                     wire, writes, done>>
      /\ unparsed' \in [Domain -> BOOLEAN]
      /\ slot' = slot \/ (d \in live /\ slot' = [slot EXCEPT ![d] = q])
  BY DEF RobotsParsed
<1>2. pending' \in [Domain -> Nat] /\ asked' \in [Domain -> Nat]
  <2>1. CASE c <= Delay
    BY <2>1 DEF RobotsParsed
  <2>2. CASE ~(c <= Delay)
    <3>1. /\ pending' = [pending EXCEPT ![d] = capped]
          /\ asked' = [asked EXCEPT ![d] = IF @ < capped THEN capped ELSE @]
      BY <2>2 DEF RobotsParsed
    <3> HIDE DEF capped
    <3> QED
      BY <1>1, <3>1
  <2> QED
    BY <2>1, <2>2
<1> HIDE DEF capped
<1>3. ASSUME slot' = slot PROVE Inv'
  <2>1. TypeOK'
    BY <1>1, <1>2, <1>3
  <2>2. ASSUME NEW e \in Domain PROVE DomainInv(e)'
    BY <1>1, <1>3, Frame
  <2> QED
    BY <2>1, <2>2 DEF IInv
<1>4. ASSUME d \in live, slot' = [slot EXCEPT ![d] = q] PROVE Inv'
  <2>1. /\ SlotShape(s) /\ Served(s) /\ s.lastseen <= now
        /\ lastOut[d] # 0 => lastOut[d] <= now /\ Apart(s, lastOut[d])
        /\ writes[d] > 0 => /\ wire[d] <= now /\ Apart(s, wire[d])
                            /\ Unsent(s) => Past(wire[d])
    BY <1>4 DEF IInv, DomainInv, SlotInv, WireInv, GuardInv, Spacing
  <2> HIDE DEF s
  <2>2. /\ SlotShape(q) /\ Served(q)
        /\ Popped(q) = Popped(s)
        /\ q.transferring = s.transferring
        /\ q.lastseen = s.lastseen
    BY <1>1, <2>1, WithDelayShape
  <2>3. slot'[d] = q
    BY <1>4
  <2> HIDE DEF q
  <2>4. TypeOK'
    BY <1>1, <1>2, <1>4, <2>2 DEF SlotShape
  <2>5. DomainInv(d)'
    <3>1. lastOut'[d] # 0 => lastOut'[d] <= now /\ Apart(q, lastOut'[d])
      BY <1>1, <2>1, <2>2 DEF Apart
    <3>2. writes'[d] > 0 => /\ wire'[d] <= now /\ Apart(q, wire'[d])
                            /\ Unsent(q) => Past(wire'[d])
      BY <1>1, <2>1, <2>2 DEF Apart, Unsent
    <3> QED
      BY <1>1, <1>4, <2>1, <2>2, <2>3, <3>1, <3>2, Touched
  <2>6. ASSUME NEW e \in Domain, e # d PROVE DomainInv(e)'
    BY <1>1, <1>4, <2>6, Frame
  <2> QED
    BY <2>4, <2>5, <2>6 DEF IInv
<1> QED
  BY <1>1, <1>3, <1>4

\* Time passes, by a Tick or over a Restart; a Restart also forgets all slots.
LEMMA Later ==
  ASSUME Inv, NEW d \in Domain, now' \in Nat, now < now', d \in live' <=> d \in live,
         slot'[d] = slot[d], lastComplete'[d] = lastComplete[d],
         lastOut'[d] = lastOut[d], wire'[d] = wire[d], writes'[d] = writes[d]
  PROVE  DomainInv(d)'
<1> USE DEF Inv, TypeOK
<1>1. ASSUME NEW t \in Nat, Past(t) PROVE Past(t)'
  BY <1>1 DEF Past
<1>2. SlotInv(d)'
  <2>1. lastComplete[d] <= now
    BY DEF IInv, DomainInv, SlotInv
  <2>2. d \in live => SlotShape(slot[d]) /\ Served(slot[d]) /\ slot[d].lastseen <= now
                      /\ slot[d].lastseen \in Nat
    BY DEF IInv, DomainInv, SlotInv, SlotShape, Slot
  <2>3. d \in live' => SlotShape(slot'[d]) /\ Served(slot'[d]) /\ slot'[d].lastseen <= now'
    BY <2>2
  <2> QED
    BY <2>1, <2>3 DEF SlotInv, SlotShape, Served
<1>3. GuardInv(d)'
  <2>1. CASE lastOut[d] = 0
    BY <2>1 DEF GuardInv
  <2>2. CASE lastOut[d] # 0
    <3>1. Spacing(d, lastOut[d])
      BY <2>2 DEF IInv, DomainInv, GuardInv
    <3> QED
      BY <1>1, <3>1 DEF GuardInv, Spacing, Apart, Popped
  <2> QED
    BY <2>1, <2>2
<1>4. WireInv(d)'
  <2>1. CASE ~(writes[d] > 0)
    BY <2>1 DEF WireInv
  <2>2. CASE writes[d] > 0
    <3>1. Spacing(d, wire[d]) /\ (d \in live /\ Unsent(slot[d]) => Past(wire[d]))
      BY <2>2 DEF IInv, DomainInv, WireInv
    <3> QED
      BY <1>1, <3>1 DEF WireInv, Spacing, Apart, Popped, Unsent
  <2> QED
    BY <2>1, <2>2
<1> QED
  BY <1>2, <1>3, <1>4 DEF DomainInv

\* The passing of time preserves the invariant.
LEMMA TickStep ==
  ASSUME Inv, Tick
  PROVE  Inv'
<1> USE DEF Inv, TypeOK
<1>1. /\ now' = now + 1
      /\ UNCHANGED <<minGap, procVars, stamped, wire, writes, done, asked>>
  BY DEF Tick
<1>2. TypeOK'
  BY <1>1 DEF procVars
<1>3. ASSUME NEW d \in Domain PROVE DomainInv(d)'
  BY <1>1, Later DEF procVars
<1> QED
  BY <1>2, <1>3 DEF IInv

\* A restart preserves the invariant: its pause is at least Delay.
LEMMA RestartStep ==
  ASSUME Inv, Restart
  PROVE  Inv'
<1> USE DEF Inv, TypeOK
<1>1. TypeOK'
  BY NewSlotShape DEF Restart
<1>2. ASSUME NEW d \in Domain PROVE DomainInv(d)'
  <2>1. writes[d] > 0 => wire[d] <= now
    BY DEF IInv, DomainInv, WireInv, Spacing
  <2>2. /\ now' = now + RestartPause /\ d \notin live' /\ lastOut'[d] = 0
        /\ lastComplete'[d] = 0 /\ wire'[d] = wire[d] /\ writes'[d] = writes[d]
    BY DEF Restart
  <2>3. Delay <= RestartPause
    OBVIOUS
  <2> QED
    BY <2>1, <2>2, <2>3
       DEF DomainInv, SlotInv, WireInv, GuardInv, Spacing, Past
<1> QED
  BY <1>1, <1>2 DEF IInv

\* A purge that another domain sets off preserves the invariant.
LEMMA PurgedByOthersStep ==
  ASSUME Inv, PurgedByOthers
  PROVE  Inv'
<1> USE DEF Inv, TypeOK
<1>1. /\ UNCHANGED <<now, minGap, live, slot, maxDelay, pending, unparsed,
                     stamped, wire, writes, done, asked>>
      /\ lastOut' \in [Domain -> Nat]
      /\ lastComplete' \in [Domain -> Nat]
      /\ \A d \in Domain : /\ lastOut'[d] \in {0, lastOut[d]}
                           /\ lastComplete'[d] \in {0, lastComplete[d]}
  BY DEF PurgedByOthers, Purge
<1>2. TypeOK'
  BY <1>1
<1>3. ASSUME NEW d \in Domain PROVE DomainInv(d)'
  BY <1>1, Frame
<1> QED
  BY <1>2, <1>3 DEF IInv

-------------------------------------------------------------------------------
(* The inductive invariant. *)

\* The first process starts in the invariant.
LEMMA InitInv == Init => Inv
<1> SUFFICES ASSUME Init PROVE Inv
  OBVIOUS
<1> USE DEF Init
<1>1. TypeOK
  BY NewSlotShape DEF TypeOK
<1>2. ASSUME NEW d \in Domain PROVE DomainInv(d)
  BY <1>1 DEF TypeOK, DomainInv, SlotInv, WireInv, GuardInv
<1> QED
  BY <1>1, <1>2 DEF Inv, IInv

\* Every step of the downloader preserves the invariant.
LEMMA StepInv == Inv /\ [Next]_vars => Inv'
<1> SUFFICES ASSUME Inv, [Next]_vars PROVE Inv'
  OBVIOUS
<1>1. CASE Tick
  BY <1>1, TickStep
<1>2. CASE Restart
  BY <1>2, RestartStep
<1>3. CASE SlotGC
  BY <1>3, SlotGCStep
<1>4. CASE PurgedByOthers
  BY <1>4, PurgedByOthersStep
<1>5. ASSUME NEW d \in Domain, NEW kind \in Kind, Enqueue(d, kind) PROVE Inv'
  BY <1>5, EnqueueStep
<1>6. ASSUME NEW d \in Domain, NEW full \in BOOLEAN, Dispatch(d, full) PROVE Inv'
  BY <1>6, DispatchStep
<1>7. ASSUME NEW d \in Domain, NEW full \in BOOLEAN, Complete(d, full) PROVE Inv'
  BY <1>7, CompleteStep
<1>8. ASSUME NEW d \in Domain, Refuse(d) PROVE Inv'
  BY <1>8, RefuseStep
<1>9. ASSUME NEW d \in Domain, WriteToWire(d) PROVE Inv'
  BY <1>9, WriteToWireStep
<1>10. ASSUME NEW d \in Domain, Expire(d) PROVE Inv'
  BY <1>10, ExpireStep
<1>11. ASSUME NEW d \in Domain, LaterCall(d) PROVE Inv'
  BY <1>11, LaterCallStep
<1>12. ASSUME NEW d \in Domain, NEW c \in CrawlDelays \cup {0}, RobotsParsed(d, c)
       PROVE  Inv'
  BY <1>12, RobotsParsedStep
<1>13. CASE UNCHANGED vars
  <2>1. TypeOK'
    BY <1>13 DEF vars, procVars, Inv, TypeOK
  <2>2. ASSUME NEW d \in Domain PROVE DomainInv(d)'
    BY <1>13, Frame DEF vars, procVars
  <2> QED
    BY <2>1, <2>2 DEF Inv, IInv
<1> QED
  BY <1>1, <1>2, <1>3, <1>4, <1>5, <1>6, <1>7, <1>8, <1>9, <1>10, <1>11, <1>12, <1>13
     DEF Next

\* The slot shape and the spacing of every domain hold in every state the
\* downloader reaches, whatever the callbacks' order and the clock.
THEOREM Invariance == Spec => []Inv
BY InitInv, StepInv, PTL DEF Spec

\* Every variable of the downloader keeps its type.
THEOREM TypeCorrect == Spec => []TypeOK
<1>1. Inv => TypeOK
  BY DEF Inv
<1> QED
  BY <1>1, Invariance, PTL

\* A domain has at most one request between its pop and its completion,
\* although a popped request holds no transfer slot until its coroutine runs.
THEOREM OneInFlightHolds == Spec => []OneInFlight
<1>1. ASSUME Inv PROVE OneInFlight
  <2> SUFFICES ASSUME NEW d \in live
               PROVE  /\ \A i, j \in Popped(slot[d]) : i = j
                      /\ Len(slot[d].transferring) <= 1
                      /\ Popped(slot[d]) = {} \/ slot[d].transferring = <<>>
    BY DEF OneInFlight
  <2>1. SlotShape(slot[d])
    BY <1>1 DEF Inv, TypeOK, IInv, DomainInv, SlotInv
  <2>2. Popped(slot[d]) \in {{}, {1}}
    BY <2>1, PoppedShape
  <2>3. Len(slot[d].transferring) <= 1
    <3>1. CASE slot[d].transferring = <<>>
      BY <3>1
    <3>2. ASSUME NEW r \in Transfer, slot[d].transferring = <<r>>
          PROVE  Len(slot[d].transferring) <= 1
      BY <3>2
    <3> QED
      BY <2>1, <3>1, <3>2 DEF SlotShape
  <2>4. Popped(slot[d]) = {} \/ slot[d].transferring = <<>>
    BY <2>1, PoppedShape DEF SlotShape
  <2> QED
    BY <2>2, <2>3, <2>4
<1> QED
  BY <1>1, Invariance, PTL

\* A slot with queued requests always has a timer or a completion to come.
THEOREM NoStrandedQueueHolds == Spec => []NoStrandedQueue
<1>1. Inv => NoStrandedQueue
  BY DEF Inv, TypeOK, IInv, DomainInv, SlotInv, NoStrandedQueue, Served
<1> QED
  BY <1>1, Invariance, PTL

\* The guard refuses nothing while its floor is within the spacing the slots
\* keep by themselves.
THEOREM GuardNeverRefusesHolds == Spec => []GuardNeverRefuses
<1>1. ASSUME Inv PROVE GuardNeverRefuses
  <2> SUFFICES ASSUME minGap <= Delay + Slack, NEW d \in Domain, HeadIsTask(d)
               PROVE  DispatchAllowed(d)
    BY DEF GuardNeverRefuses
  <2>1. lastOut[d] # 0 => Past(lastOut[d])
    BY <1>1, HeadTask
  <2>2. now \in Nat /\ lastOut[d] \in Nat /\ minGap \in Nat
    BY <1>1 DEF Inv, TypeOK
  <2> QED
    BY <2>1, <2>2 DEF DispatchAllowed, Past
<1> QED
  BY <1>1, Invariance, PTL

-------------------------------------------------------------------------------
(* The downloader implements the politeness contract. *)

\* A write comes at least Delay after the domain's previous one.
LEMMA WriteRespectsGap ==
  ASSUME Inv, NEW d \in Domain, WriteToWire(d)
  PROVE  PolitenessContract!Write(d)
<1>1. d \in live /\ Unsent(slot[d])
  BY DEF WriteToWire, Unsent
<1>2. writes[d] > 0 => Past(wire[d])
  BY <1>1 DEF Inv, IInv, DomainInv, WireInv
<1> QED
  BY <1>2 DEF WriteToWire, PolitenessContract!Write, Past, Inv, TypeOK

\* Every step of the downloader is a step of the contract or leaves it alone.
LEMMA StepImplements ==
  Inv /\ [Next]_vars => [PolitenessContract!Next]_(PolitenessContract!vars)
<1> SUFFICES ASSUME Inv, [Next]_vars
             PROVE  PolitenessContract!Next \/ UNCHANGED PolitenessContract!vars
  OBVIOUS
<1> USE DEF PolitenessContract!vars
<1>1. CASE Tick
  BY <1>1 DEF Tick, PolitenessContract!Next, PolitenessContract!Pass, Inv, TypeOK
<1>2. CASE Restart
  <2>1. RestartPause \in Nat /\ RestartPause > 0
    OBVIOUS
  <2> QED
    BY <1>2, <2>1 DEF Restart, PolitenessContract!Next, PolitenessContract!Pass, Inv, TypeOK
<1>3. ASSUME NEW d \in Domain, WriteToWire(d) PROVE PolitenessContract!Next
  BY <1>3, WriteRespectsGap DEF PolitenessContract!Next
<1>4. CASE SlotGC \/ PurgedByOthers \/ UNCHANGED vars
  BY <1>4 DEF SlotGC, PurgedByOthers, vars
<1>5. ASSUME NEW d \in Domain,
             \/ \E kind \in Kind : Enqueue(d, kind)
             \/ \E full \in BOOLEAN : Dispatch(d, full) \/ Complete(d, full)
             \/ Refuse(d) \/ Expire(d) \/ LaterCall(d)
             \/ \E c \in CrawlDelays \cup {0} : RobotsParsed(d, c)
      PROVE  UNCHANGED PolitenessContract!vars
  BY <1>5 DEF Enqueue, Dispatch, Complete, Refuse, Expire, LaterCall, RobotsParsed
<1> QED
  BY <1>1, <1>2, <1>3, <1>4, <1>5 DEF Next

\* Two requests reach the servers of one domain at least Delay apart, for
\* every interleaving of callbacks, collections, purges and restarts.
THEOREM Polite == Spec => ImplementsPoliteness
<1>1. Init => PolitenessContract!Init
  BY DEF Init, PolitenessContract!Init
<1> QED
  BY <1>1, StepImplements, Invariance, PTL
     DEF Spec, ImplementsPoliteness, PolitenessContract!Spec

-------------------------------------------------------------------------------
(* The floor of the guard. *)

\* _last_out remembers the last request it let through, or has forgotten one
\* that is old enough; a restart forgets all of them, after a long pause.
Stamps ==
  \A d \in Domain :
    stamped[d] # 0 => lastOut[d] = stamped[d] \/ stamped[d] + minGap <= now

\* Nothing is stamped before the first dispatch.
LEMMA InitStamps == Init => Stamps
BY DEF Init, Stamps

\* The guard's dict remembers each stamp for as long as it can refuse a request.
LEMMA StepStamps == Inv /\ Stamps /\ [Next]_vars => Stamps'
<1> SUFFICES ASSUME Inv, Stamps, [Next]_vars, NEW e \in Domain, stamped'[e] # 0
             PROVE  lastOut'[e] = stamped'[e] \/ stamped'[e] + minGap' <= now'
  BY DEF Stamps
<1> USE DEF Inv, TypeOK, Stamps
<1>0. minGap \in Nat
  OBVIOUS
<1>1. CASE Tick
  BY <1>1, <1>0 DEF Tick, procVars
<1>2. CASE Restart
  <2>1. /\ now' = now + RestartPause /\ stamped'[e] = stamped[e] /\ minGap' = minGap
        /\ minGap <= RestartPause
    BY <1>2 DEF Restart
  <2>2. stamped[e] <= now
    <3>1. lastOut[e] # 0 => lastOut[e] <= now
      BY DEF IInv, DomainInv, GuardInv, Spacing
    <3> QED
      BY <1>0, <2>1, <3>1
  <2> QED
    BY <1>0, <2>1, <2>2
<1>3. CASE SlotGC
  BY <1>3 DEF SlotGC
<1>4. CASE PurgedByOthers
  BY <1>4, <1>0 DEF PurgedByOthers, Purge
<1>5. ASSUME NEW d \in Domain, NEW full \in BOOLEAN, Dispatch(d, full)
      PROVE  lastOut'[e] = stamped'[e] \/ stamped'[e] + minGap' <= now'
  <2>1. CASE minGap = 0
    <3>1. stamped'[e] \in {now, stamped[e]} /\ lastOut'[e] = lastOut[e]
          /\ now' = now /\ minGap' = minGap
      BY <1>5, <2>1 DEF Dispatch
    <3> QED
      BY <2>1, <3>1
  <2>2. CASE minGap # 0
    BY <1>0, <1>5, <2>2 DEF Dispatch, Purge
  <2> QED
    BY <2>1, <2>2
<1>6. ASSUME NEW d \in Domain,
             \/ \E kind \in Kind : Enqueue(d, kind)
             \/ \E full \in BOOLEAN : Complete(d, full)
             \/ Refuse(d) \/ WriteToWire(d) \/ Expire(d) \/ LaterCall(d)
             \/ \E c \in CrawlDelays \cup {0} : RobotsParsed(d, c)
      PROVE  UNCHANGED <<now, minGap, lastOut, stamped>>
  BY <1>6 DEF Enqueue, Complete, Refuse, WriteToWire, Expire, LaterCall, RobotsParsed
<1>7. CASE UNCHANGED vars
  BY <1>7 DEF vars, procVars
<1> QED
  BY <1>1, <1>2, <1>3, <1>4, <1>5, <1>6, <1>7 DEF Next

\* _process_queue and the replayed delay leave transferring alone.
LEMMA TransferringKept ==
  ASSUME NEW s \in Slot, NEW t, NEW delay
  PROVE  /\ ProcessQueue(s, t).transferring = s.transferring
         /\ WithDelay(s, delay).transferring = s.transferring
BY DEF ProcessQueue, WithDelay, Slot

\* Only _download puts a request into transferring.
LEMMA OnlyDispatchAdds ==
  ASSUME Inv, [Next]_vars, NEW d \in Domain,
         Len(slot'[d].transferring) > Len(slot[d].transferring)
  PROVE  \E full \in BOOLEAN : Dispatch(d, full)
<1> USE DEF Inv, TypeOK
<1>0. Len(slot[d].transferring) \in Nat
  <2>1. slot[d].transferring \in Seq(Transfer)
    BY DEF Slot
  <2> QED
    BY <2>1, LenProperties
<1>1. ASSUME slot'[d].transferring \in {<<>>, slot[d].transferring} PROVE FALSE
  BY <1>0, <1>1
<1>2. ASSUME slot'[d] = slot[d] PROVE FALSE
  BY <1>1, <1>2
<1>3. ~(UNCHANGED vars \/ Tick \/ PurgedByOthers)
  BY <1>2 DEF vars, procVars, Tick, PurgedByOthers
<1>4. ~(Restart \/ SlotGC)
  <2>1. NewSlot(0).transferring = <<>>
    BY DEF NewSlot
  <2>2. ASSUME Restart \/ SlotGC PROVE slot'[d] \in {NewSlot(0), slot[d]}
    BY <2>2 DEF Restart, SlotGC
  <2> QED
    BY <1>1, <1>2, <2>1, <2>2
<1>5. ASSUME NEW e \in Domain, NEW kind \in Kind, Enqueue(e, kind) PROVE FALSE
  <2> DEFINE s == Replayed(e, kind)
             q == [s EXCEPT !.queue = Append(s.queue, kind)]
  <2>1. slot' = [slot EXCEPT ![e] = ProcessQueue(q, now)]
    BY <1>5 DEF Enqueue
  <2>2. s \in Slot /\ s.transferring \in {<<>>, slot[e].transferring}
    <3>1. CASE e \in live
      <4>1. SlotShape(slot[e])
        BY <3>1 DEF IInv, DomainInv, SlotInv
      <4>2. WithDelay(slot[e], pending[e]) \in Slot
        BY <4>1, WithDelayShape DEF SlotShape
      <4> QED
        BY <3>1, <4>2, TransferringKept DEF Replayed, GetSlot
    <3>2. CASE e \notin live
      <4>1. s = NewSlot(lastComplete[e])
        BY <3>2 DEF Replayed, GetSlot
      <4> QED
        BY <4>1, NewSlotShape DEF NewSlot
    <3> QED
      BY <3>1, <3>2
  <2> HIDE DEF s
  <2>3. q \in Slot /\ q.transferring = s.transferring
    <3>1. s.queue \in Seq(Kind) /\ kind \in Kind
      BY <2>2 DEF Slot
    <3>2. Append(s.queue, kind) \in Seq(Kind)
      BY <3>1
    <3> QED
      BY <2>2, <3>2 DEF Slot
  <2> HIDE DEF q
  <2>4. ProcessQueue(q, now).transferring \in {<<>>, slot[e].transferring}
    BY <2>2, <2>3, TransferringKept
  <2> QED
    BY <1>1, <1>2, <2>1, <2>4
<1>6. ASSUME NEW e \in Domain, NEW full \in BOOLEAN, Complete(e, full) PROVE FALSE
  <2>1. PICK i \in DOMAIN slot[e].transferring :
          slot' = [slot EXCEPT ![e] = Settled(slot[e], i)]
    BY <1>6 DEF Complete
  <2>2. SlotShape(slot[e])
    BY <1>6 DEF Complete, IInv, DomainInv, SlotInv
  <2>3. i = 1 /\ \E r \in Transfer : slot[e].transferring = <<r>>
    BY <2>1, <2>2, InTransfer
  <2> DEFINE w == Without(slot[e], i)
             q == [w EXCEPT !.lastseen = now]
  <2>4. w.transferring = <<>> /\ w \in Slot
    <3>1. PICK r \in Transfer : slot[e].transferring = <<r>>
      BY <2>3
    <3>2. SubSeq(<<r>>, 1, 0) \o SubSeq(<<r>>, 2, 1) = <<>> /\ Len(<<r>>) = 1
      OBVIOUS
    <3>3. 1 - 1 = 0 /\ 1 + 1 = 2
      OBVIOUS
    <3>4. w = [slot[e] EXCEPT !.transferring = <<>>]
      BY <2>3, <3>1, <3>2, <3>3, Zenon DEF Without
    <3>5. <<>> \in Seq(Transfer)
      OBVIOUS
    <3> QED
      BY <2>2, <3>4, <3>5 DEF SlotShape, Slot
  <2> HIDE DEF w
  <2>5. q \in Slot /\ q.transferring = <<>>
    BY <2>4 DEF Slot
  <2>6. ProcessQueue(q, now).transferring = <<>>
    BY <2>5, TransferringKept
  <2>7. Settled(slot[e], i) = ProcessQueue(q, now)
    BY DEF Settled, w
  <2> QED
    BY <1>1, <1>2, <2>1, <2>6, <2>7
<1>7. ASSUME NEW e \in Domain, Refuse(e) \/ Expire(e) PROVE FALSE
  <2>1. \E x : slot' = [slot EXCEPT ![e].ready = x]
    BY <1>7 DEF Refuse, Expire
  <2>2. slot'[e].transferring = slot[e].transferring
    BY <2>1 DEF Slot
  <2>3. d # e => slot'[d] = slot[d]
    BY <2>1
  <2> QED
    BY <1>1, <1>2, <2>2, <2>3
<1>8. ASSUME NEW e \in Domain, WriteToWire(e) PROVE FALSE
  <2>1. PICK i \in DOMAIN slot[e].transferring :
          slot' = [slot EXCEPT ![e].transferring[i].sent = TRUE]
    BY <1>8 DEF WriteToWire
  <2>2. slot[e].transferring \in Seq(Transfer)
    BY DEF Slot
  <2> DEFINE tr == [slot[e].transferring EXCEPT ![i].sent = TRUE]
  <2>3. Len(tr) = Len(slot[e].transferring)
    BY <2>2
  <2>4. slot'[e].transferring = tr
    BY <2>1 DEF Slot
  <2> HIDE DEF tr
  <2>5. d # e => slot'[d] = slot[d]
    BY <2>1
  <2> QED
    BY <1>0, <1>2, <2>3, <2>4, <2>5
<1>9. ASSUME NEW e \in Domain, LaterCall(e) PROVE FALSE
  <2> DEFINE q == [slot[e] EXCEPT !.ready = Tail(slot[e].ready), !.later = 0]
  <2>1. slot' = [slot EXCEPT ![e] = ProcessQueue(q, now)]
    BY <1>9 DEF LaterCall
  <2>2. q \in Slot /\ q.transferring = slot[e].transferring
    <3>1. /\ slot[e].ready \in Seq(Kind \cup {"timer"}) /\ slot[e].ready # <<>>
          /\ Tail(slot[e].ready) \in Seq(Kind \cup {"timer"})
      <4>1. slot[e].ready \in Seq(Kind \cup {"timer"}) /\ slot[e].ready # <<>>
        BY <1>9 DEF LaterCall, Slot
      <4> DEFINE r == slot[e].ready
      <4>2. r \in Seq(Kind \cup {"timer"}) /\ r # <<>>
        BY <4>1
      <4> HIDE DEF r
      <4>3. Tail(r) \in Seq(Kind \cup {"timer"})
        BY <4>2, HeadTailProperties
      <4> QED
        BY <4>1, <4>3 DEF r
    <3>2. slot[e] \in Slot
      OBVIOUS
    <3> HIDE DEF Inv, TypeOK
    <3> QED
      BY <3>1, <3>2 DEF Slot
  <2> HIDE DEF q
  <2> QED
    BY <1>1, <1>2, <2>1, <2>2, TransferringKept
<1>10. ASSUME NEW e \in Domain, NEW c \in CrawlDelays \cup {0}, RobotsParsed(e, c)
       PROVE  FALSE
  <2>1. PICK delay : slot' = slot \/ slot' = [slot EXCEPT ![e] = WithDelay(slot[e], delay)]
    BY <1>10 DEF RobotsParsed
  <2>2. slot[e] \in Slot
    OBVIOUS
  <2>3. WithDelay(slot[e], delay).transferring = slot[e].transferring
    BY <2>2, TransferringKept
  <2>4. slot' = slot \/ d # e \/ slot'[d] = WithDelay(slot[e], delay)
    BY <2>1
  <2>5. d # e => slot'[d] = slot[d]
    BY <2>1
  <2> QED
    BY <1>1, <1>2, <2>3, <2>4, <2>5
<1>11. ASSUME NEW e \in Domain, NEW full \in BOOLEAN, Dispatch(e, full), e # d PROVE FALSE
  BY <1>2, <1>11 DEF Dispatch
<1> QED
  BY <1>3, <1>4, <1>5, <1>6, <1>7, <1>8, <1>9, <1>10, <1>11 DEF Next

\* The guard lets two requests of a domain through no nearer than its floor,
\* even when the spacing of the slots fails, and across purges and restarts.
THEOREM GuardFloorHolds == Spec => GuardFloor
<1>1. ASSUME Inv, Stamps, [Next]_vars, NEW d \in Domain,
             Len(slot'[d].transferring) > Len(slot[d].transferring), stamped[d] # 0
      PROVE  now + Slack >= stamped[d] + minGap
  <2>1. DispatchAllowed(d)
    BY <1>1, OnlyDispatchAdds DEF Dispatch
  <2>2. now \in Nat /\ minGap \in Nat /\ stamped[d] \in Nat
    BY <1>1 DEF Inv, TypeOK
  <2> QED
    BY <1>1, <2>1, <2>2 DEF DispatchAllowed, Stamps
<1>2. Inv /\ Stamps /\ [Next]_vars =>
        [\A d \in Domain :
           Len(slot'[d].transferring) > Len(slot[d].transferring) /\ stamped[d] # 0
             => now + Slack >= stamped[d] + minGap]_vars
  BY <1>1
<1> QED
  BY <1>2, InitStamps, StepStamps, Invariance, PTL DEF Spec, GuardFloor

-------------------------------------------------------------------------------
(* The Crawl-delay. *)

AnyPage(s) == \E i \in DOMAIN s.queue : s.queue[i] = "page"

\* A slot in which a page waits has the delay its robots.txt asked for, and a
\* slot is collected only when the longest such delay is over.
DelayKept(d) ==
  /\ pending[d] <= MaxCrawlDelay
  /\ done[d] <= now /\ lastComplete[d] <= done[d]
  /\ done[d] = 0 => pending[d] = 0 /\ ~unparsed[d]
  /\ d \notin live => done[d] = 0 \/ done[d] + MaxCrawlDelay <= now
  /\ d \in live => /\ done[d] <= slot[d].lastseen
                   /\ AnyPage(slot[d]) => pending[d] <= slot[d].delay

Delays == now # 0 /\ \A d \in Domain : DelayKept(d)

\* The step pops no page of the domain before its Crawl-delay is over.
PopDue(d) == PagePop(d) /\ done'[d] # 0 => now >= done'[d] + pending[d]

\* A sequence with one entry more.
LEMMA Appended ==
  ASSUME NEW S, NEW q \in Seq(S), NEW x \in S, NEW p, p = Append(q, x)
  PROVE  /\ DOMAIN p = 1 .. Len(q) + 1 /\ Len(q) \in Nat
         /\ p[Len(q) + 1] = x
         /\ \A j \in 1 .. Len(q) : p[j] = q[j]
         /\ DOMAIN q = 1 .. Len(q)
BY AppendProperties, LenProperties

\* The page that _process_queue pops was queued, and the slot's delay is over.
LEMMA PagePopped ==
  ASSUME NEW s, SlotShape(s), NEW t \in Nat, s.lastseen <= t
  PROVE  LET p == ProcessQueue(s, t) IN
         /\ AnyPage(p) => AnyPage(s)
         /\ Popped(p) # {} => Popped(s) # {} \/ s.lastseen + s.delay <= t
         /\ Popped(s) = {} /\ (\E i \in Popped(p) : p.ready[i] = "page") => AnyPage(s)
<1> DEFINE p == ProcessQueue(s, t)
<1>1. CASE CanPop(s, t)
  <2>1. s.ready = <<>>
    BY <1>1 DEF CanPop, SlotShape
  <2>2. s.queue \in Seq(Kind) /\ s.queue # <<>>
    BY <1>1 DEF CanPop, SlotShape, Slot
  <2>3. p.queue = Tail(s.queue) /\ p.ready = <<Head(s.queue)>>
    BY <1>1, <2>1 DEF ProcessQueue, SlotShape, Slot
  <2>4. s.lastseen + s.delay <= t
    BY <1>1 DEF CanPop, SlotShape, Slot
  <2> HIDE DEF p
  <2>5. AnyPage(p) => AnyPage(s)
    <3>1. SUFFICES ASSUME NEW i \in DOMAIN Tail(s.queue), Tail(s.queue)[i] = "page"
                   PROVE  \E j \in DOMAIN s.queue : s.queue[j] = "page"
      BY <2>3 DEF AnyPage
    <3>2. i + 1 \in DOMAIN s.queue /\ Tail(s.queue)[i] = s.queue[i + 1]
      BY <2>2
    <3> QED
      BY <3>1, <3>2
  <2>6. ASSUME NEW i \in Popped(p), p.ready[i] = "page" PROVE AnyPage(s)
    <3>1. i = 1 /\ p.ready[1] = Head(s.queue)
      BY <2>3, <2>6 DEF Popped
    <3>2. 1 \in DOMAIN s.queue /\ Head(s.queue) = s.queue[1]
      BY <2>2
    <3> QED
      BY <2>6, <3>1, <3>2 DEF AnyPage
  <2> QED
    BY <2>4, <2>5, <2>6 DEF p
<1>2. CASE ~CanPop(s, t)
  <2>1. p.queue = s.queue /\ p.ready = s.ready
    BY <1>2 DEF ProcessQueue, SlotShape, Slot
  <2> QED
    BY <2>1 DEF AnyPage, Popped
<1> QED
  BY <1>1, <1>2

\* A request that finds its slot free and due leaves the queue at once.
LEMMA PoppedAtOnce ==
  ASSUME NEW s, SlotShape(s), NEW t \in Nat, NEW kind \in Kind,
         s.queue = <<kind>>, s.later = 0, s.transferring = <<>>,
         s.lastseen + s.delay <= t
  PROVE  LET p == ProcessQueue(s, t) IN ~AnyPage(p) /\ p.lastseen = t
<1>1. CanPop(s, t)
  BY DEF CanPop, FreeTransferSlots, SlotShape, Slot
<1>2. Tail(s.queue) = <<>>
  OBVIOUS
<1> DEFINE p == ProcessQueue(s, t)
<1>3. p.queue = Tail(s.queue) /\ p.lastseen = t
  BY <1>1 DEF ProcessQueue, SlotShape, Slot
<1> HIDE DEF p
<1>4. ~AnyPage(p)
  BY <1>2, <1>3 DEF AnyPage
<1> QED
  BY <1>3, <1>4 DEF p

\* Steps that move neither the queue nor the clock of a domain's slot, and
\* pop nothing.
LEMMA DelayFrame ==
  ASSUME Inv, Delays, NEW d \in Domain, now' = now, d \in live' <=> d \in live,
         d \in live => /\ slot'[d].queue = slot[d].queue
                       /\ slot'[d].lastseen = slot[d].lastseen
                       /\ slot'[d].delay = slot[d].delay
                       /\ Popped(slot[d]) = {} => Popped(slot'[d]) = {},
         lastComplete'[d] \in {0, lastComplete[d]},
         done'[d] = done[d], pending'[d] = pending[d], unparsed'[d] = unparsed[d]
  PROVE  DelayKept(d)' /\ PopDue(d)
<1>1. DelayKept(d) /\ done[d] \in Nat
  BY DEF Delays, Inv, TypeOK
<1>2. DelayKept(d)'
  BY <1>1 DEF DelayKept, AnyPage
<1>3. ~PagePop(d)
  BY DEF PagePop, GetSlot
<1> QED
  BY <1>2, <1>3 DEF PopDue

\* Steps after which the slot is the outcome of _process_queue on q.
LEMMA DelayProcessed ==
  ASSUME Inv, Delays, NEW d \in Domain, now' = now, d \in live',
         NEW q, SlotShape(q), q.lastseen <= now, slot'[d] = ProcessQueue(q, now),
         Popped(GetSlot(d)) = {} => Popped(q) = {},
         pending'[d] = pending[d], lastComplete'[d] <= done'[d],
         done'[d] \in Nat, done'[d] <= q.lastseen,
         done'[d] = 0 => pending[d] = 0 /\ ~unparsed'[d],
         AnyPage(q) => pending[d] <= q.delay
  PROVE  DelayKept(d)' /\ PopDue(d)
<1> DEFINE p == ProcessQueue(q, now)
<1>1. now \in Nat /\ pending[d] \in Nat /\ pending[d] <= MaxCrawlDelay
  BY DEF Inv, TypeOK, Delays, DelayKept
<1>2. /\ SlotShape(p) /\ p.delay = q.delay /\ p.lastseen <= now
      /\ q.lastseen <= p.lastseen
      /\ AnyPage(p) => AnyPage(q)
      /\ Popped(p) # {} => Popped(q) # {} \/ q.lastseen + q.delay <= now
      /\ Popped(q) = {} /\ (\E i \in Popped(p) : p.ready[i] = "page") => AnyPage(q)
  BY <1>1, ProcessQueueShape, PagePopped
<1>3. q.lastseen \in Nat /\ q.delay \in Nat /\ p.lastseen \in Nat
  BY <1>2 DEF SlotShape, Slot
<1>4. slot'[d] = p
  OBVIOUS
<1> HIDE DEF p
<1>5. DelayKept(d)'
  <2>1. done'[d] <= p.lastseen /\ done'[d] <= now
    BY <1>1, <1>2, <1>3
  <2>2. AnyPage(p) => pending[d] <= p.delay
    BY <1>2
  <2> QED
    BY <1>1, <1>4, <2>1, <2>2 DEF DelayKept, AnyPage
<1>6. PopDue(d)
  <2> SUFFICES ASSUME PagePop(d) PROVE now >= done'[d] + pending[d]
    BY DEF PopDue
  <2>1. Popped(q) = {} /\ \E i \in Popped(p) : p.ready[i] = "page"
    BY <1>4 DEF PagePop, Popped
  <2>2. pending[d] <= q.delay /\ q.lastseen + q.delay <= now
    BY <1>2, <2>1
  <2> QED
    BY <1>1, <1>3, <2>2
<1> QED
  BY <1>5, <1>6
\* A request that reaches the downloader keeps the Crawl-delay: on a live slot
\* it is replayed for a page, and a rebuilt slot pops it at once.
LEMMA EnqueueDelay ==
  ASSUME Inv, Delays, NEW d \in Domain, NEW kind \in Kind, Enqueue(d, kind)
  PROVE  DelayKept(d)' /\ PopDue(d)
<1> USE DEF Inv, TypeOK
<1> DEFINE s == Replayed(d, kind)
           q == [s EXCEPT !.queue = Append(s.queue, kind)]
<1>1. /\ slot' = [slot EXCEPT ![d] = ProcessQueue(q, now)]
      /\ live' = live \cup {d}
      /\ UNCHANGED <<now, lastComplete, pending, unparsed, done>>
  BY DEF Enqueue
<1>2. DelayKept(d) /\ lastComplete[d] <= now
  BY DEF Delays, IInv, DomainInv, SlotInv
<1>3. slot'[d] = ProcessQueue(q, now) /\ d \in live'
  BY <1>1
<1>4. CASE d \in live
  <2>1. SlotShape(slot[d]) /\ slot[d].lastseen <= now
    BY <1>4 DEF IInv, DomainInv, SlotInv
  <2>2. /\ SlotShape(s) /\ Popped(s) = Popped(slot[d])
        /\ s.lastseen = slot[d].lastseen /\ s.queue = slot[d].queue
        /\ s.delay = slot[d].delay \/ s.delay = pending[d]
        /\ slot[d].delay <= s.delay
        /\ kind = "page" => pending[d] <= s.delay
    <3>1. slot[d].delay \in Nat
      BY <2>1 DEF SlotShape, Slot
    <3>2. LET w == WithDelay(slot[d], pending[d]) IN
          /\ SlotShape(w) /\ Popped(w) = Popped(slot[d]) /\ w.lastseen = slot[d].lastseen
      BY <2>1, WithDelayShape
    <3>3. LET w == WithDelay(slot[d], pending[d]) IN
          /\ w.queue = slot[d].queue
          /\ w.delay = slot[d].delay \/ w.delay = pending[d]
          /\ slot[d].delay <= w.delay /\ pending[d] <= w.delay
      <4>1. slot[d] \in Slot /\ pending[d] \in Nat
        BY <2>1 DEF SlotShape
      <4>2. CASE slot[d].delay < pending[d]
        <5>1. WithDelay(slot[d], pending[d]) = [slot[d] EXCEPT !.delay = pending[d]]
          BY <4>2 DEF WithDelay
        <5>2. LET w == [slot[d] EXCEPT !.delay = pending[d]] IN
              w.queue = slot[d].queue /\ w.delay = pending[d]
          BY <4>1 DEF Slot
        <5>3. slot[d].delay <= pending[d]
          BY <3>1, <4>1, <4>2
        <5> HIDE DEF Inv, TypeOK
        <5> QED
          BY <4>1, <5>1, <5>2, <5>3
      <4>3. CASE ~(slot[d].delay < pending[d])
        <5>1. WithDelay(slot[d], pending[d]) = slot[d]
          BY <4>3 DEF WithDelay
        <5> HIDE DEF Inv, TypeOK
        <5> QED
          BY <3>1, <4>1, <4>3, <5>1
      <4> QED
        BY <4>2, <4>3
    <3> QED
      BY <1>4, <2>1, <3>1, <3>2, <3>3 DEF Replayed, GetSlot
  <2> HIDE DEF s
  <2>3. /\ SlotShape(q) /\ q.lastseen = s.lastseen /\ q.delay = s.delay
        /\ Popped(q) = Popped(s) /\ q.queue = Append(s.queue, kind)
    <3>1. s.queue \in Seq(Kind) /\ Append(s.queue, kind) \in Seq(Kind)
      BY <2>2 DEF SlotShape, Slot
    <3>2. q \in Slot /\ q.queue = Append(s.queue, kind)
      BY <2>2, <3>1 DEF SlotShape, Slot
    <3>3. /\ q.lastseen = s.lastseen /\ q.delay = s.delay /\ q.later = s.later
          /\ q.ready = s.ready /\ q.transferring = s.transferring
      BY <2>2 DEF SlotShape, Slot
    <3> HIDE DEF q
    <3> QED
      BY <2>2, <3>2, <3>3 DEF SlotShape, Popped
  <2> HIDE DEF q
  <2>4. AnyPage(q) => kind = "page" \/ AnyPage(slot[d])
    <3>1. SUFFICES ASSUME NEW i \in DOMAIN q.queue, q.queue[i] = "page", kind # "page"
                   PROVE  AnyPage(slot[d])
      BY DEF AnyPage
    <3>2. s.queue \in Seq(Kind)
      BY <2>2 DEF SlotShape, Slot
    <3>3. i \in DOMAIN s.queue /\ s.queue[i] = "page"
      <4>1. /\ DOMAIN q.queue = 1 .. Len(s.queue) + 1 /\ Len(s.queue) \in Nat
            /\ q.queue[Len(s.queue) + 1] = kind
            /\ \A j \in 1 .. Len(s.queue) : q.queue[j] = s.queue[j]
            /\ DOMAIN s.queue = 1 .. Len(s.queue)
        <5>1. q.queue = Append(s.queue, kind)
          BY <2>3
        <5> QED
          BY <3>2, <5>1, Appended
      <4>2. i # Len(s.queue) + 1
        BY <3>1, <4>1
      <4>3. i \in 1 .. Len(s.queue)
        BY <3>1, <4>1, <4>2
      <4> QED
        BY <3>1, <4>1, <4>3
    <3> QED
      BY <2>2, <3>3 DEF AnyPage
  <2>5. AnyPage(q) => pending[d] <= q.delay
    <3>1. slot[d].delay \in Nat /\ s.delay \in Nat
      BY <2>1, <2>2 DEF SlotShape, Slot
    <3>2. AnyPage(slot[d]) => pending[d] <= slot[d].delay
      BY <1>2, <1>4 DEF DelayKept
    <3> QED
      BY <2>2, <2>3, <2>4, <3>1, <3>2
  <2>6. Popped(GetSlot(d)) = {} => Popped(q) = {}
    BY <1>4, <2>2, <2>3 DEF GetSlot
  <2>7. /\ lastComplete'[d] <= done'[d] /\ done'[d] <= q.lastseen /\ done'[d] \in Nat
        /\ done'[d] = 0 => pending[d] = 0 /\ ~unparsed'[d]
    BY <1>1, <1>2, <1>4, <2>2, <2>3 DEF DelayKept
  <2> QED
    BY <1>1, <1>3, <2>1, <2>2, <2>3, <2>5, <2>6, <2>7, DelayProcessed
<1>5. CASE d \notin live
  <2>1. s = NewSlot(lastComplete[d])
    BY <1>5 DEF Replayed, GetSlot
  <2>2. /\ SlotShape(q) /\ q.lastseen = lastComplete[d] /\ q.delay = Delay
        /\ q.queue = <<kind>> /\ q.later = 0 /\ q.transferring = <<>> /\ Popped(q) = {}
    <3>1. s = [queue |-> <<>>, lastseen |-> lastComplete[d], delay |-> Delay,
               later |-> 0, ready |-> <<>>, transferring |-> <<>>]
      BY <2>1 DEF NewSlot
    <3> HIDE DEF s
    <3>2. Append(<<>>, kind) = <<kind>> /\ <<kind>> \in Seq(Kind)
      OBVIOUS
    <3>3. /\ q.ready = <<>> /\ q.lastseen = lastComplete[d] /\ q.delay = Delay
          /\ q.queue = <<kind>> /\ q.later = 0 /\ q.transferring = <<>> /\ q \in Slot
      <4>1. lastComplete[d] \in Nat /\ Delay \in Nat /\ s.queue = <<>>
        BY <3>1
      <4>2. s \in Slot
        BY <3>1, <4>1 DEF Slot
      <4>3. q.queue = <<kind>>
        BY <3>2, <4>1, <4>2 DEF Slot
      <4> HIDE DEF Inv, TypeOK
      <4> QED
        BY <3>1, <3>2, <4>1, <4>2, <4>3 DEF Slot
    <3> HIDE DEF q
    <3> QED
      BY <3>3 DEF SlotShape, Popped
  <2> HIDE DEF q, s
  <2>3. CASE done[d] = 0
    <3>1. pending[d] = 0 /\ ~unparsed[d] /\ lastComplete[d] <= 0
      BY <1>2, <2>3 DEF DelayKept
    <3>2. AnyPage(q) => pending[d] <= q.delay
      BY <2>2, <3>1
    <3>3. /\ lastComplete'[d] <= done'[d] /\ done'[d] \in Nat /\ done'[d] <= q.lastseen
          /\ done'[d] = 0 => pending[d] = 0 /\ ~unparsed'[d]
      BY <1>1, <2>2, <2>3, <3>1
    <3>4. pending'[d] = pending[d] /\ now' = now /\ q.lastseen <= now
      BY <1>1, <1>2, <2>2
    <3> QED
      BY <1>3, <2>2, <3>2, <3>3, <3>4, DelayProcessed
  <2>4. CASE done[d] # 0
    <3>1. done[d] + MaxCrawlDelay <= now /\ pending[d] <= MaxCrawlDelay
          /\ lastComplete[d] <= done[d] /\ done[d] <= now
      BY <1>2, <1>5, <2>4 DEF DelayKept
    <3>2. lastComplete[d] + Delay <= now
      BY <3>1
    <3>3. ~AnyPage(slot'[d]) /\ slot'[d].lastseen = now
      <4>1. q.lastseen + q.delay <= now /\ q.lastseen <= now /\ now \in Nat
        BY <1>2, <2>2, <3>2
      <4>2. ~AnyPage(ProcessQueue(q, now)) /\ ProcessQueue(q, now).lastseen = now
        BY <2>2, <4>1, PoppedAtOnce
      <4> QED
        BY <1>3, <4>2
    <3>4. DelayKept(d)'
      BY <1>1, <1>3, <2>4, <3>1, <3>3 DEF DelayKept, AnyPage
    <3>5. PopDue(d)
      BY <1>1, <3>1 DEF PopDue
    <3> QED
      BY <3>4, <3>5
  <2> QED
    BY <2>3, <2>4
<1> QED
  BY <1>4, <1>5

\* A completion keeps the Crawl-delay: the delay counts from it.
LEMMA CompleteDelay ==
  ASSUME Inv, Delays, NEW d \in Domain, NEW full \in BOOLEAN, Complete(d, full)
  PROVE  DelayKept(d)' /\ PopDue(d)
<1> USE DEF Inv, TypeOK
<1> DEFINE s == slot[d]
           q == [s EXCEPT !.transferring = <<>>, !.lastseen = now]
<1>1. PICK i \in DOMAIN s.transferring : slot' = [slot EXCEPT ![d] = Settled(s, i)]
  BY DEF Complete
<1>2. SlotShape(s) /\ s.lastseen <= now /\ d \in live
  BY DEF Complete, IInv, DomainInv, SlotInv
<1>3. /\ UNCHANGED <<now, live, pending>>
      /\ done' = [done EXCEPT ![d] = now]
      /\ lastComplete'[d] = now
  BY DEF Complete, Purge
<1>4. PICK r \in Transfer : s.transferring = <<r>>
  BY <1>1, <1>2, InTransfer
<1>5. i = 1 /\ s.transferring # <<>> /\ Popped(s) = {}
  BY <1>1, <1>2, InTransfer
<1>6. slot'[d] = ProcessQueue(q, now)
  <2>1. SubSeq(s.transferring, 1, 0) \o SubSeq(s.transferring, 2, 1) = <<>>
    BY <1>4
  <2>2. Len(s.transferring) = 1
    BY <1>4
  <2>3. 1 - 1 = 0 /\ 1 + 1 = 2
    OBVIOUS
  <2>4. Without(s, 1) = [s EXCEPT !.transferring = <<>>]
    BY <2>1, <2>2, <2>3, Zenon DEF Without
  <2>5. slot'[d] = ProcessQueue([[s EXCEPT !.transferring = <<>>] EXCEPT !.lastseen = now], now)
    BY <1>1, <1>5, <2>4 DEF Settled
  <2>6. [[s EXCEPT !.transferring = <<>>] EXCEPT !.lastseen = now] = q
    BY <1>2 DEF SlotShape, Slot
  <2> QED
    BY <2>5, <2>6
<1>7. /\ SlotShape(q) /\ q.lastseen = now /\ q.queue = s.queue /\ q.delay = s.delay
      /\ Popped(q) = {}
  <2>1. <<>> \in Seq(Transfer)
    OBVIOUS
  <2>2. /\ q \in Slot /\ q.ready = s.ready /\ q.transferring = <<>> /\ q.later = s.later
        /\ q.lastseen = now /\ q.queue = s.queue /\ q.delay = s.delay
    BY <1>2, <2>1 DEF SlotShape, Slot
  <2> HIDE DEF q
  <2> QED
    BY <1>2, <1>5, <2>2 DEF SlotShape, Popped
<1> HIDE DEF q, s
<1>8. DelayKept(d) /\ now # 0
  BY DEF Delays
<1>9. AnyPage(q) => pending[d] <= q.delay
  BY <1>2, <1>7, <1>8 DEF DelayKept, AnyPage, s
<1>10. done'[d] = now /\ d \in live'
  BY <1>2, <1>3
<1> QED
  BY <1>3, <1>6, <1>7, <1>8, <1>9, <1>10, DelayProcessed

\* The timer keeps the Crawl-delay: the slot's delay is at least that of its pages.
LEMMA LaterCallDelay ==
  ASSUME Inv, Delays, NEW d \in Domain, LaterCall(d)
  PROVE  DelayKept(d)' /\ PopDue(d)
<1> USE DEF Inv, TypeOK
<1> DEFINE s == slot[d]
           q == [s EXCEPT !.ready = Tail(s.ready), !.later = 0]
<1>1. /\ SlotShape(s) /\ s.lastseen <= now /\ d \in live
      /\ s.ready # <<>> /\ Head(s.ready) = "timer"
  BY DEF LaterCall, IInv, DomainInv, SlotInv
<1>2. /\ slot'[d] = ProcessQueue(q, now)
      /\ UNCHANGED <<now, live, lastComplete, pending, unparsed, done>>
  BY DEF LaterCall
<1>3. Tail(s.ready) = <<>>
  <2>1. ASSUME NEW k \in Kind PROVE s.ready # <<k>> /\ s.ready # <<k, "timer">>
    <3>1. Head(<<k>>) = k /\ Head(<<k, "timer">>) = k /\ k # "timer"
      BY DEF Kind
    <3> QED
      BY <1>1, <3>1
  <2> HIDE DEF s
  <2>2. s.ready = <<"timer">>
    BY <1>1, <2>1 DEF SlotShape
  <2> QED
    BY <2>2
<1>4. /\ SlotShape(q) /\ q.lastseen = s.lastseen /\ q.queue = s.queue
      /\ q.delay = s.delay /\ Popped(q) = {}
  <2>1. <<>> \in Seq(Kind \cup {"timer"})
    OBVIOUS
  <2>2. /\ q \in Slot /\ q.ready = <<>> /\ q.transferring = s.transferring
        /\ q.lastseen = s.lastseen /\ q.queue = s.queue /\ q.delay = s.delay
    BY <1>1, <1>3, <2>1 DEF SlotShape, Slot
  <2> HIDE DEF q, s
  <2> QED
    BY <1>1, <2>2 DEF SlotShape, Popped
<1> HIDE DEF q, s
<1>5. DelayKept(d)
  BY DEF Delays
<1>6. AnyPage(q) => pending[d] <= q.delay
  BY <1>1, <1>4, <1>5 DEF DelayKept, AnyPage, s
<1>7. done[d] \in Nat /\ lastComplete[d] <= done[d] /\ done[d] <= q.lastseen
      /\ (done[d] = 0 => pending[d] = 0 /\ ~unparsed[d])
  BY <1>1, <1>4, <1>5 DEF DelayKept, s
<1> QED
  BY <1>1, <1>2, <1>4, <1>6, <1>7, DelayProcessed
\* A parsed Crawl-delay is kept: it raises the delay of the slot its pages are in.
LEMMA RobotsParsedDelay ==
  ASSUME Inv, Delays, NEW d \in Domain, NEW c \in CrawlDelays \cup {0}, RobotsParsed(d, c)
  PROVE  DelayKept(d)' /\ PopDue(d)
<1> USE DEF Inv, TypeOK
<1> DEFINE capped == IF c < MaxCrawlDelay THEN c ELSE MaxCrawlDelay
<1>1. /\ UNCHANGED <<now, live, lastComplete, done>>
      /\ unparsed[d] /\ ~unparsed'[d]
  BY DEF RobotsParsed
<1>2. DelayKept(d)
  BY DEF Delays
<1>3. CASE c <= Delay
  <2>1. slot' = slot /\ pending' = pending
    BY <1>3 DEF RobotsParsed
  <2>2. DelayKept(d)'
    BY <1>1, <1>2, <2>1 DEF DelayKept, AnyPage
  <2>3. ~PagePop(d)
    BY <1>1, <2>1 DEF PagePop, GetSlot
  <2> QED
    BY <2>2, <2>3 DEF PopDue
<1>4. CASE ~(c <= Delay)
  <2>1. /\ pending' = [pending EXCEPT ![d] = capped]
        /\ slot' = IF d \in live THEN [slot EXCEPT ![d] = WithDelay(slot[d], capped)]
                   ELSE slot
    BY <1>4 DEF RobotsParsed
  <2>2. capped \in Nat /\ capped <= MaxCrawlDelay
    OBVIOUS
  <2> HIDE DEF capped
  <2>3. pending'[d] = capped
    BY <2>1
  <2>4. done[d] # 0
    BY <1>1, <1>2 DEF DelayKept
  <2>5. CASE d \notin live
    <3>1. DelayKept(d)'
      BY <1>1, <1>2, <2>2, <2>3, <2>4, <2>5 DEF DelayKept
    <3>2. ~PagePop(d)
      BY <1>1, <2>5 DEF PagePop
    <3> QED
      BY <3>1, <3>2 DEF PopDue
  <2>6. CASE d \in live
    <3> DEFINE w == WithDelay(slot[d], capped)
    <3>1. SlotShape(slot[d]) /\ slot'[d] = w
      BY <2>1, <2>6 DEF IInv, DomainInv, SlotInv
    <3>2. Popped(w) = Popped(slot[d]) /\ w.lastseen = slot[d].lastseen
      BY <2>2, <3>1, WithDelayShape
    <3>3. capped <= w.delay
      <4>1. slot[d] \in Slot /\ slot[d].delay \in Nat
        BY <3>1 DEF SlotShape, Slot
      <4>2. CASE slot[d].delay < capped
        <5>1. w = [slot[d] EXCEPT !.delay = capped]
          BY <4>2 DEF WithDelay
        <5>2. w.delay = capped
          BY <4>1, <5>1 DEF Slot
        <5> QED
          BY <2>2, <5>2
      <4>3. CASE ~(slot[d].delay < capped)
        <5>1. w = slot[d]
          BY <4>3 DEF WithDelay
        <5> QED
          BY <2>2, <4>1, <4>3, <5>1
      <4> QED
        BY <4>2, <4>3
    <3> HIDE DEF w
    <3>4. DelayKept(d)'
      BY <1>1, <1>2, <2>2, <2>3, <2>4, <2>6, <3>1, <3>2, <3>3 DEF DelayKept, AnyPage
    <3>5. ~PagePop(d)
      <4>1. GetSlot(d) = slot[d]
        BY <2>6 DEF GetSlot
      <4>2. Popped(slot'[d]) = Popped(GetSlot(d))
        BY <3>1, <3>2, <4>1
      <4> QED
        BY <4>2 DEF PagePop
    <3> QED
      BY <3>4, <3>5 DEF PopDue
  <2> QED
    BY <2>5, <2>6
<1> QED
  BY <1>3, <1>4

\* The first bytes of a request, a guard's verdict and an expired timer move
\* neither queue nor clock, and pop nothing.
LEMMA CallbackDelay ==
  ASSUME Inv, Delays, NEW d \in Domain,
         \/ \E full \in BOOLEAN : Dispatch(d, full)
         \/ Refuse(d) \/ WriteToWire(d) \/ Expire(d)
  PROVE  DelayKept(d)' /\ PopDue(d)
<1> USE DEF Inv, TypeOK
<1>1. /\ d \in live
      /\ UNCHANGED <<now, live, lastComplete, done, pending, unparsed>>
  BY DEF Dispatch, Refuse, WriteToWire, Expire, HeadIsTask
<1>2. slot[d] \in Slot
  OBVIOUS
<1>3. /\ slot'[d].queue = slot[d].queue
      /\ slot'[d].lastseen = slot[d].lastseen
      /\ slot'[d].delay = slot[d].delay
  <2>1. CASE \E full \in BOOLEAN : Dispatch(d, full)
    BY <1>2, <2>1 DEF Dispatch, Slot
  <2>2. CASE Refuse(d)
    BY <1>2, <2>2 DEF Refuse, Slot
  <2>3. CASE WriteToWire(d)
    BY <1>2, <2>3 DEF WriteToWire, Slot
  <2>4. CASE Expire(d)
    BY <1>2, <2>4 DEF Expire, Slot
  <2> QED
    BY <2>1, <2>2, <2>3, <2>4
<1>4. Popped(slot[d]) = {} => Popped(slot'[d]) = {}
  <2>1. CASE \E full \in BOOLEAN : Dispatch(d, full)
    BY <2>1, HeadTask DEF Dispatch
  <2>2. CASE Refuse(d)
    BY <2>2, HeadTask DEF Refuse
  <2>3. CASE WriteToWire(d)
    <3>1. slot'[d].ready = slot[d].ready
      BY <1>2, <2>3 DEF WriteToWire, Slot
    <3> QED
      BY <3>1 DEF Popped
  <2>4. CASE Expire(d)
    <3>1. slot'[d].ready = Append(slot[d].ready, "timer")
      BY <1>2, <2>4 DEF Expire, Slot
    <3>2. slot[d].ready \in Seq(Kind \cup {"timer"})
      BY <1>2 DEF Slot
    <3>3. ASSUME NEW i \in Popped(slot'[d]) PROVE i \in Popped(slot[d])
      <4> DEFINE old == slot[d].ready
                 new == slot'[d].ready
      <4>1. /\ DOMAIN new = 1 .. Len(old) + 1 /\ Len(old) \in Nat
            /\ new[Len(old) + 1] = "timer"
            /\ \A j \in 1 .. Len(old) : new[j] = old[j]
            /\ DOMAIN old = 1 .. Len(old)
        <5>1. "timer" \in Kind \cup {"timer"} /\ new = Append(old, "timer")
          BY <3>1
        <5> QED
          BY <3>2, <5>1, Appended
      <4>2. i \in DOMAIN new /\ new[i] # "timer"
        BY DEF Popped
      <4> HIDE DEF new, old
      <4>3. i \in DOMAIN old /\ old[i] # "timer"
        BY <4>1, <4>2
      <4> QED
        BY <4>3 DEF Popped, old
    <3> QED
      BY <3>3
  <2> QED
    BY <2>1, <2>2, <2>3, <2>4
<1>5. lastComplete'[d] = lastComplete[d] /\ done'[d] = done[d]
      /\ pending'[d] = pending[d] /\ unparsed'[d] = unparsed[d]
  BY <1>1
<1> QED
  BY <1>1, <1>3, <1>4, <1>5, DelayFrame

\* The collector keeps the Crawl-delay: a slot it drops has been idle for
\* longer than any that is honoured.
LEMMA SlotGCDelay ==
  ASSUME Inv, Delays, NEW d \in Domain, SlotGC
  PROVE  DelayKept(d)' /\ PopDue(d)
<1> USE DEF Inv, TypeOK
<1>1. /\ live' = {e \in live : ~Idle(e)}
      /\ slot'[d] = IF d \in live /\ Idle(d) THEN NewSlot(0) ELSE slot[d]
      /\ UNCHANGED <<now, lastComplete, done, pending, unparsed>>
  BY DEF SlotGC
<1>2. CASE d \in live /\ Idle(d)
  <2>1. DelayKept(d) /\ SlotShape(slot[d])
    BY <1>2 DEF Delays, IInv, DomainInv, SlotInv
  <2>2. slot[d].lastseen + slot[d].delay + GCAge < now
        /\ slot[d].lastseen \in Nat /\ slot[d].delay \in Nat
    BY <1>2, <2>1 DEF Idle, SlotShape, Slot
  <2>3. done[d] \in Nat /\ done[d] <= slot[d].lastseen /\ now \in Nat
    BY <1>2, <2>1 DEF DelayKept
  <2>4. done[d] + MaxCrawlDelay <= now
    <3>1. GCAge \in Nat /\ MaxCrawlDelay \in Nat /\ MaxCrawlDelay <= GCAge
      OBVIOUS
    <3> HIDE DEF Inv, TypeOK
    <3> QED
      BY <2>2, <2>3, <3>1
  <2>5. d \notin live'
    BY <1>1, <1>2
  <2> QED
    BY <1>1, <2>1, <2>4, <2>5 DEF DelayKept, PopDue, PagePop
<1>3. CASE ~(d \in live /\ Idle(d))
  <2>1. slot'[d] = slot[d] /\ (d \in live' <=> d \in live)
    BY <1>1, <1>3
  <2>2. now' = now /\ lastComplete'[d] = lastComplete[d] /\ done'[d] = done[d]
        /\ pending'[d] = pending[d] /\ unparsed'[d] = unparsed[d]
    BY <1>1
  <2> QED
    BY <2>1, <2>2, DelayFrame
<1> QED
  BY <1>2, <1>3

\* Time that passes, and a restart, which forgets every completion.
LEMMA LaterDelay ==
  ASSUME Inv, Delays, NEW d \in Domain, Tick \/ Restart
  PROVE  DelayKept(d)' /\ PopDue(d)
<1> USE DEF Inv, TypeOK
<1>1. now \in Nat /\ now # 0 /\ DelayKept(d) /\ done[d] \in Nat
  BY DEF Delays
<1>2. CASE Tick
  <2>1. now' = now + 1 /\ UNCHANGED <<live, slot, lastComplete, pending, unparsed, done>>
    BY <1>2 DEF Tick, procVars
  <2>2. DelayKept(d)'
    BY <1>1, <2>1 DEF DelayKept, AnyPage
  <2>3. ~PagePop(d)
    BY <2>1 DEF PagePop, GetSlot
  <2> QED
    BY <2>2, <2>3 DEF PopDue
<1>3. CASE Restart
  <2>1. /\ now' = now + RestartPause /\ d \notin live'
        /\ pending'[d] = 0 /\ done'[d] = 0 /\ lastComplete'[d] = 0 /\ ~unparsed'[d]
    BY <1>3 DEF Restart
  <2>2. now' \in Nat
    BY <1>1, <2>1
  <2>3. 0 <= MaxCrawlDelay
    OBVIOUS
  <2> QED
    BY <2>1, <2>2, <2>3 DEF DelayKept, PopDue, PagePop
<1> QED
  BY <1>2, <1>3

\* Nothing has been parsed, and nothing completed, when the process starts.
LEMMA InitDelays == Init => Delays
BY DEF Init, Delays, DelayKept

\* Every step keeps the Crawl-delay of every domain.
LEMMA StepDelays ==
  ASSUME Inv, Delays, [Next]_vars, NEW d \in Domain
  PROVE  DelayKept(d)' /\ PopDue(d)
<1> USE DEF Inv, TypeOK
<1>1. CASE Tick \/ Restart
  BY <1>1, LaterDelay
<1>2. CASE SlotGC
  BY <1>2, SlotGCDelay
<1>3. CASE PurgedByOthers \/ UNCHANGED vars
  <2>1. /\ UNCHANGED <<now, live, slot, done, pending, unparsed>>
        /\ lastComplete'[d] \in {0, lastComplete[d]}
    BY <1>3 DEF PurgedByOthers, Purge, vars, procVars
  <2> QED
    BY <2>1, DelayFrame
<1>4. ASSUME NEW e \in Domain,
             \/ \E kind \in Kind : Enqueue(e, kind)
             \/ \E full \in BOOLEAN : Dispatch(e, full) \/ Complete(e, full)
             \/ Refuse(e)
             \/ WriteToWire(e)
             \/ Expire(e)
             \/ LaterCall(e)
             \/ \E c \in CrawlDelays \cup {0} : RobotsParsed(e, c)
      PROVE  DelayKept(d)' /\ PopDue(d)
  <2>1. now' = now
    BY <1>4 DEF Enqueue, Dispatch, Complete, Refuse, WriteToWire, Expire, LaterCall,
                RobotsParsed
  <2>2. CASE d = e
    BY <1>4, <2>1, <2>2, EnqueueDelay, CompleteDelay, LaterCallDelay, RobotsParsedDelay,
       CallbackDelay
  <2>3. CASE d # e
    <3>1. /\ slot'[d] = slot[d] /\ (d \in live' <=> d \in live)
          /\ done'[d] = done[d] /\ pending'[d] = pending[d] /\ unparsed'[d] = unparsed[d]
          /\ lastComplete'[d] \in {0, lastComplete[d]}
      <4>1. CASE \E kind \in Kind : Enqueue(e, kind)
        BY <2>3, <4>1 DEF Enqueue
      <4>2. CASE \E full \in BOOLEAN : Dispatch(e, full) \/ Complete(e, full)
        BY <2>3, <4>2 DEF Dispatch, Complete, Purge
      <4>3. CASE Refuse(e) \/ WriteToWire(e) \/ Expire(e) \/ LaterCall(e)
        BY <2>3, <4>3 DEF Refuse, WriteToWire, Expire, LaterCall
      <4>4. CASE \E c \in CrawlDelays \cup {0} : RobotsParsed(e, c)
        BY <2>3, <4>4 DEF RobotsParsed
      <4> QED
        BY <1>4, <4>1, <4>2, <4>3, <4>4
    <3> QED
      BY <2>1, <3>1, DelayFrame
  <2> QED
    BY <2>2, <2>3
<1> QED
  BY <1>1, <1>2, <1>3, <1>4 DEF Next

\* A page is popped no sooner after the domain's previous completion than the
\* Crawl-delay in _pending_delays: the pop waits for the slot's own delay, and a
\* slot rebuilt with the default one is due already.
THEOREM CrawlDelayHolds == Spec => CrawlDelayAfterRebuild
<1>1. Inv /\ Delays /\ [Next]_vars => Delays'
  <2> SUFFICES ASSUME Inv, Delays, [Next]_vars PROVE Delays'
    OBVIOUS
  <2>1. \A d \in Domain : DelayKept(d)'
    BY StepDelays
  <2>2. now' # 0
    <3>1. now' \in {now, now + 1, now + RestartPause}
      BY DEF Next, Tick, Restart, SlotGC, PurgedByOthers, Enqueue, Dispatch, Complete,
             Refuse, WriteToWire, Expire, LaterCall, RobotsParsed, vars, procVars
    <3> QED
      BY <3>1 DEF Delays, Inv, TypeOK
  <2> QED
    BY <2>1, <2>2 DEF Delays
<1>2. Inv /\ Delays /\ [Next]_vars =>
        [\A d \in Domain : PagePop(d) /\ done'[d] # 0 => now >= done'[d] + pending[d]]_vars
  BY StepDelays DEF PopDue
<1> QED
  BY <1>1, <1>2, InitDelays, Invariance, PTL DEF Spec, CrawlDelayAfterRebuild
===============================================================================
