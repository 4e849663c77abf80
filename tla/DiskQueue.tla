------------------------------- MODULE DiskQueue -------------------------------
(***************************************************************************)
(* crawler/squeue.py: one per-domain queue of the frontier, on disk.       *)
(* RecoverableFifoDiskQueue overrides how queuelib's FifoDiskQueue opens,  *)
(* saves and closes; push, pop and the file layout are queuelib's.         *)
(*                                                                         *)
(* A chunk file is the sequence of the whole records in it: the byte       *)
(* offset of the tail is the count of the records before it.  A SIGKILL    *)
(* loses what is in memory and keeps what was written.                     *)
(***************************************************************************)
EXTENDS Naturals, Sequences, FiniteSets, FiniteSetsExt, Functions

CONSTANTS
  ChunkSize,   \* records per chunk file
  EarlyKill,   \* may the process die before its first checkpoint?
  MaxRecord,   \* bound: requests ever pushed
  MaxGiven     \* bound: requests ever handed out

ASSUME SizeAssumption ==
  /\ ChunkSize \in Nat \ {0}
  /\ EarlyKill \in BOOLEAN
  /\ MaxRecord \in Nat /\ MaxGiven \in Nat

VARIABLES
  up,        \* the process has the queue open
  mem,       \* FifoDiskQueue.info, meaningful while up
  info,      \* the info.json file
  chunk,     \* the chunk files: a function from their numbers
  fragment,  \* the last chunk file ends with a partial record
  pushed,    \* history: how many records have been pushed
  given      \* history: the records handed out

vars == <<up, mem, info, chunk, fragment, pushed, given>>

Record == 1 .. MaxRecord
Missing == [file |-> "missing"]
Torn == [file |-> "torn"]
Fresh == [size |-> 0, tail |-> [num |-> 0, cnt |-> 0], head |-> [num |-> 0, pos |-> 0]]
Saved(m, clean) == [file |-> "json", m |-> m, clean |-> clean]

-------------------------------------------------------------------------------
(* Opening a queue. *)

Before(tail, head) ==
  tail.num < head.num \/ (tail.num = head.num /\ tail.cnt < head.pos)

\* A full last chunk means that the head is at the start of the next one.
HeadAfter(last) ==
  IF Len(chunk[last]) >= ChunkSize THEN [num |-> last + 1, pos |-> 0]
  ELSE [num |-> last, pos |-> Len(chunk[last])]

\* Where records are: the chunk's number and the place in it, from 1.
RecordPlaces == UNION {{n} \X DOMAIN chunk[n] : n \in DOMAIN chunk}

\* The place p comes after the first cnt records of chunk num.
After(p, num, cnt) == p[1] > num \/ (p[1] = num /\ p[2] > cnt)

\* Fault: the scan of the tail's chunk starts at its first record.
CountedFromStart(t) == Cardinality({p \in RecordPlaces : After(p, t.num, 0)})

\* How many whole records the scan finds after the tail.
Counted(t) == Cardinality({p \in RecordPlaces : After(p, t.num, t.cnt)})

\* _recover: everything from the recorded tail to the end of the last chunk.
Recover(tail) ==
  IF DOMAIN chunk = {} THEN Fresh
  ELSE LET t == IF tail.num \in DOMAIN chunk THEN tail
                ELSE [num |-> Min(DOMAIN chunk), cnt |-> 0]
       IN  [size |-> Counted(t), tail |-> t, head |-> HeadAfter(Max(DOMAIN chunk))]

\* Fault: as in queuelib, the file is the only source.
LoadInfoAsSaved == IF info.file = "missing" THEN Fresh ELSE info.m

\* _loadinfo; a missing file gives queuelib's defaults.
LoadInfo ==
  CASE info.file = "missing" -> Recover(Fresh.tail)
    [] info.file = "json" -> IF info.clean THEN info.m ELSE Recover(info.m.tail)

\* The chunks once __init__ has opened the head chunk with "ab+".
WithHead(m) == [n \in DOMAIN chunk \cup {m.head.num} |->
                  IF n \in DOMAIN chunk THEN chunk[n] ELSE <<>>]

\* The tail chunk is opened with "rb", which raises if there is none.
Open ==
  /\ ~up
  /\ info.file # "torn"
  /\ LoadInfo.tail.num \in DOMAIN WithHead(LoadInfo)
  /\ up' = TRUE
  /\ mem' = LoadInfo
  /\ chunk' = WithHead(LoadInfo)
  /\ fragment' = (fragment /\ info.file = "json" /\ info.clean)
  /\ UNCHANGED <<info, pushed, given>>

-------------------------------------------------------------------------------
(* Pushing and popping. *)

Written == [chunk EXCEPT ![mem.head.num] = Append(@, pushed + 1)]

Push ==
  /\ up
  /\ pushed < MaxRecord
  /\ pushed' = pushed + 1
  /\ LET full == mem.head.pos + 1 = ChunkSize
         next == mem.head.num + 1
     IN  /\ chunk' = IF full
                     THEN [n \in DOMAIN chunk \cup {next} |->
                             IF n \in DOMAIN chunk THEN Written[n] ELSE <<>>]
                     ELSE Written
         /\ mem' = [mem EXCEPT
              !.size = @ + 1,
              !.head = IF full THEN [num |-> next, pos |-> 0]
                       ELSE [num |-> @.num, pos |-> @.pos + 1]]
  /\ UNCHANGED <<up, info, fragment, given>>

\* A drained chunk is deleted.  pop returns None at the head, or at the end of
\* the tail chunk's file.
Pop ==
  /\ up
  /\ Len(given) < MaxGiven
  /\ Before(mem.tail, mem.head)
  /\ mem.tail.cnt < Len(chunk[mem.tail.num])
  /\ given' = Append(given, chunk[mem.tail.num][mem.tail.cnt + 1])
  /\ LET drained == mem.tail.cnt + 1 = ChunkSize
     IN  /\ chunk' = IF drained THEN Restrict(chunk, DOMAIN chunk \ {mem.tail.num})
                     ELSE chunk
         /\ mem' = [mem EXCEPT
              !.size = @ - 1,
              !.tail = IF drained THEN [num |-> @.num + 1, cnt |-> 0]
                       ELSE [num |-> @.num, cnt |-> @.cnt + 1]]
  /\ UNCHANGED <<up, info, fragment, pushed>>

-------------------------------------------------------------------------------
(* Saving, closing and dying. *)

\* save_info, called by the scheduler's checkpoint.
SaveInfo ==
  /\ up
  /\ info' = Saved(mem, FALSE)
  /\ UNCHANGED <<up, mem, chunk, fragment, pushed, given>>

\* close: an empty queue deletes its files, the directory included.
Close ==
  /\ up
  /\ up' = FALSE
  /\ IF mem.size = 0
     THEN info' = Missing /\ chunk' = <<>> /\ fragment' = FALSE
     ELSE info' = Saved(mem, TRUE) /\ UNCHANGED <<chunk, fragment>>
  /\ mem' = Fresh
  /\ UNCHANGED <<pushed, given>>

Die == up /\ up' = FALSE /\ mem' = Fresh

\* The clean flag of the previous close stays on disk until a checkpoint.
MayDie == EarlyKill \/ info.file = "missing" \/ (info.file = "json" /\ ~info.clean)

Kill == Die /\ MayDie /\ UNCHANGED <<info, chunk, fragment, pushed, given>>

\* push was writing: the record is there as a whole, or in part.
KillDuringPush ==
  /\ Die
  /\ MayDie
  /\ pushed < MaxRecord
  /\ \E torn \in BOOLEAN :
       /\ fragment' = torn
       /\ chunk' = IF torn THEN chunk ELSE Written
       /\ pushed' = IF torn THEN pushed ELSE pushed + 1
  /\ UNCHANGED <<info, given>>

\* _saveinfo had opened info.json with "w" and not written it yet.
KillDuringSave ==
  /\ Die
  /\ info' = Torn
  /\ UNCHANGED <<chunk, fragment, pushed, given>>

Init ==
  /\ up = FALSE /\ mem = Fresh
  /\ info = Missing /\ chunk = <<>> /\ fragment = FALSE
  /\ pushed = 0 /\ given = <<>>

Next ==
  \/ Open
  \/ Push
  \/ Pop
  \/ SaveInfo
  \/ Close
  \/ Kill
  \/ KillDuringPush
  \/ KillDuringSave

Spec == Init /\ [][Next]_vars

-------------------------------------------------------------------------------
(* Properties. *)

\* Where the records between a tail and a head are.
Owed(m) == {p \in RecordPlaces : After(p, m.tail.num, m.tail.cnt)
                           /\ ~After(p, m.head.num, m.head.pos)}

\* These records, in the order of their places.
Between(m) ==
  LET owed == Owed(m)
  IN  [k \in 1 .. Cardinality(owed) |->
         LET p == CHOOSE p \in owed :
                    Cardinality({q \in owed : ~After(q, p[1], p[2])}) = k
         IN  chunk[p[1]][p[2]]]

\* What the queue would hand out: now, or once it is opened again.  A torn
\* info.json keeps the files for a repair by hand, which scans all of them.
Items ==
  IF up THEN Between(mem)
  ELSE IF info.file = "torn" THEN Between(Recover(Fresh.tail)) ELSE Between(LoadInfo)

TypeOK ==
  /\ up \in BOOLEAN
  /\ fragment \in BOOLEAN
  /\ \A n \in DOMAIN chunk : chunk[n] \in Seq(Record) /\ Len(chunk[n]) <= ChunkSize
  /\ mem.size \in 0 .. MaxRecord
  /\ mem.tail.cnt < ChunkSize /\ mem.head.pos < ChunkSize

\* A kill loses nothing that was queued, and hands requests out in order:
\* squeue.py:61, "rebuilds its own metadata after an unclean kill".
Promise == INSTANCE DurableQueue WITH
  log <- [i \in 1 .. pushed |-> i], items <- Items
ImplementsDurableQueue == Promise!Spec

\* The size that decides whether close() deletes the files counts the records
\* that are still to be handed out.
QueueSizeExact == up => mem.size = Cardinality(Owed(mem))

\* A queue left by a killed process can be opened again (squeue.py:1, "A disk
\* queue that survives a kill").  Not so after a kill inside _saveinfo.
CanReopen == ~up => info.file # "torn"
===============================================================================
