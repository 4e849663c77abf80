------------------------------ MODULE Checkpoint ------------------------------
(***************************************************************************)
(* The two savers of a crawl: crawler/scheduler.py saves the metadata of   *)
(* the frontier's queues, a slice per tick, behind a cursor over a list    *)
(* that changes between ticks; crawler/dupefilter.py saves the whole Bloom *)
(* filter on a timer of its own that starts later.  Both run on the one    *)
(* event loop.  What a kill costs is what the savers have left unsaved.    *)
(*                                                                         *)
(* Timers count down; whatever is at zero runs before time goes on.        *)
(***************************************************************************)
EXTENDS Integers, FiniteSetsExt, SequencesExt

CONSTANTS
  Queue,          \* the queues of the frontier, one per domain and priority
  Slices,         \* CHECKPOINT_SLICES
  Period,         \* a tick of the scheduler: CHECKPOINT_INTERVAL / Slices
  Offset,         \* BLOOM_CHECKPOINT_OFFSET
  Failures,       \* whether save_info may raise
  MaxDelay        \* bound: what a queue is delayed between two saves, in ticks

ASSUME CheckpointAssumption ==
  /\ Slices \in Nat \ {0} /\ Period \in Nat \ {0} /\ Offset \in Nat
  /\ Failures \in BOOLEAN /\ MaxDelay \in Nat

\* CHECKPOINT_INTERVAL
Interval == Slices * Period

VARIABLES
  queues,     \* _iter_savable: the live queues in the order of the dicts
  cursor,     \* _checkpoint_cursor
  sliceIn,    \* until the next _checkpoint_slice
  bloomIn,    \* until the next save of the filter
  \* history
  age,        \* ticks since each queue was opened or saved
  delays,     \* what opened and dropped queues and failed ticks may have cost it since
  quiet       \* ticks since the list changed or a tick failed, up to Slices

timers == <<sliceIn, bloomIn>>
savingVars == <<queues, cursor, age, delays, quiet, timers>>

Savable == Range(queues)

-------------------------------------------------------------------------------

\* Every queue but those just saved may come later, by some ticks.
Delayed(by, saved) ==
  /\ \A q \in Savable : delays[q] + by <= MaxDelay
  /\ delays' = [q \in Queue |-> IF q \in Savable \ saved THEN delays[q] + by ELSE 0]

\* A queue opens: a new domain's is the last, another priority of a domain
\* comes after those it has, wherever they are.  Those behind it move up by one.
OpenQueue(q) ==
  /\ q \notin Savable
  /\ \E i \in 1 .. Len(queues) + 1 : queues' = InsertAt(queues, i, q)
  /\ age' = [age EXCEPT ![q] = 0]
  /\ Delayed(1, {})
  /\ quiet' = 0
  /\ UNCHANGED <<cursor, timers>>

\* A queue is empty and dropped.  Those behind it move down by one, and the
\* cursor may now be past one of them, which waits for the next pass.
DropQueue(q) ==
  /\ \E i \in DOMAIN queues : queues[i] = q /\ queues' = RemoveAt(queues, i)
  /\ age' = [age EXCEPT ![q] = 0]
  /\ Delayed(Slices - 1, {q})
  /\ quiet' = 0
  /\ UNCHANGED <<cursor, timers>>

\* Fault: the quotient is rounded down.
PerTickDown(total) == Max({1, total \div Slices})

PerTick(total) == Max({1, (total + Slices - 1) \div Slices})

\* The queues of a slice of n from the cursor on.
Slice(n) ==
  LET start == cursor % Len(queues)
  IN {queues[((start + i) % Len(queues)) + 1] : i \in 0 .. n - 1}

Aged(saved) == [q \in Queue |-> IF q \in Savable \ saved THEN age[q] + 1 ELSE 0]

\* _checkpoint_slice.
SaveSlice ==
  /\ sliceIn = 0
  /\ sliceIn' = Period
  /\ LET total == Len(queues)
         n     == Min({PerTick(total), total})
     IN IF total = 0 THEN UNCHANGED <<cursor, age, delays>>
        ELSE /\ cursor' = ((cursor % total) + n) % total
             /\ age' = Aged(Slice(n))
             /\ delays' = [q \in Queue |-> IF q \in Slice(n) THEN 0 ELSE delays[q]]
  /\ quiet' = Min({quiet + 1, Slices})
  /\ UNCHANGED <<queues, bloomIn>>

\* The same, when a save_info raises: what came before it in the slice is
\* saved, the cursor stays.
SaveSliceFails ==
  /\ Failures /\ sliceIn = 0 /\ queues # <<>>
  /\ sliceIn' = Period
  /\ \E n \in 0 .. Min({PerTick(Len(queues)), Len(queues)}) - 1 :
       age' = Aged(Slice(n)) /\ Delayed(1, Slice(n))
  /\ quiet' = 0
  /\ UNCHANGED <<queues, cursor, bloomIn>>

\* DupeFilter.checkpoint.
BloomCheckpoint ==
  /\ bloomIn = 0
  /\ bloomIn' = Interval
  /\ UNCHANGED <<queues, cursor, age, delays, quiet, sliceIn>>

\* open schedules _start_loop after the offset, and the loop begins with a wait.
FirstBloom == Offset + Interval

Tick ==
  /\ sliceIn > 0 /\ bloomIn > 0
  /\ sliceIn' = sliceIn - 1
  /\ bloomIn' = bloomIn - 1
  /\ UNCHANGED <<queues, cursor, age, delays, quiet>>

SavingInit ==
  /\ queues = <<>> /\ cursor = 0
  /\ sliceIn = Period /\ bloomIn = FirstBloom
  /\ age = [q \in Queue |-> 0] /\ delays = [q \in Queue |-> 0]
  /\ quiet = 0

SavingNext ==
  \/ \E q \in Queue : OpenQueue(q) \/ DropQueue(q)
  \/ SaveSlice \/ SaveSliceFails \/ BloomCheckpoint \/ Tick

SavingSpec == SavingInit /\ [][SavingNext]_savingVars

-------------------------------------------------------------------------------
(* Properties. *)

SavingTypeOK ==
  /\ IsInjective(queues) /\ Savable \subseteq Queue
  /\ cursor \in Nat
  /\ sliceIn \in 0 .. Period /\ bloomIn \in 0 .. FirstBloom
  /\ age \in [Queue -> Nat] /\ delays \in [Queue -> Nat]
  /\ quiet \in 0 .. Slices

\* Wherever opened, dropped and failing queues have left the cursor, Slices
\* undisturbed ticks save every queue there is (scheduler.py:242-245, and
\* tests/test_scheduler.py:434 from a cursor at zero).
SweepComplete == quiet = Slices => \A q \in Savable : age[q] < Slices

\* In a pass that is disturbed, a queue is a tick late for each queue opened and
\* each failed tick since it was last saved, and a pass for each queue dropped:
\* "a queue missed on one pass is picked up on the next" (scheduler.py:258-262).
LateByDisturbances == \A q \in Savable : age[q] < Slices + delays[q]

\* The two savers never run in the same tick, where "their stalls add": with the
\* offset "both then repeat on the same period and stay apart"
\* (dupefilter.py:105-108), "for the whole run" (config.toml:558-560).
SaversApart == ~ (sliceIn = 0 /\ bloomIn = 0)

===============================================================================
