-------------------------------- MODULE Handoff --------------------------------
(***************************************************************************)
(* crawler/handoff.py: the inbox of one shard.  Every other shard appends  *)
(* lines to numbered segment files of its own; the owner polls them on a   *)
(* timer, remembers an offset per segment and deletes what it is through   *)
(* with.  Sender and owner are processes of their own and share nothing    *)
(* but the directory; either may be killed and started again.              *)
(*                                                                         *)
(* All lines have one length: sizes and offsets count lines.               *)
(***************************************************************************)
EXTENDS Integers, Sequences, FiniteSetsExt, SequencesExt

CONSTANTS
  Sender,         \* the shards that write to this inbox, numbered
  SegmentLines,   \* segment_bytes
  ReadLines,      \* read_bytes
  Limit,          \* the most lines one poll returns
  MaxSent,        \* bound: lines sent
  MaxKills,       \* bound: kills of the receiver
  MaxFailures,    \* bound: offsets.json not written
  MaxRestarts     \* bound: kills of senders

ASSUME HandoffAssumption ==
  /\ Sender \subseteq Nat
  /\ SegmentLines \in Nat \ {0} /\ ReadLines \in Nat \ {0} /\ Limit \in Nat \ {0}
  /\ {MaxSent, MaxKills, MaxFailures, MaxRestarts} \subseteq Nat

VARIABLES
  segment,    \* the segment files: name -> whole lines
  fragment,   \* the files that end with a line still being written
  seq,        \* _seq of each sender, -1 for none
  offsets,    \* _offsets in memory: name -> lines consumed
  saved,      \* offsets.json
  polling,    \* poll() is running
  todo,       \* the names its loop has yet to visit
  newest,     \* the newest segment of each sender in its listing
  out,        \* how many lines it has collected
  dirty,
  \* history
  sent,       \* how many lines have been sent
  taken,      \* how often each line has been read
  kills, restarts,
  failures,   \* saves of the offsets that failed
  cut         \* a poll has stopped at Limit inside a segment

senderVars == <<seq, sent, restarts>>
pollVars == <<polling, todo, newest, out, dirty>>
vars == <<segment, fragment, offsets, saved, taken, kills, failures, cut, senderVars, pollVars>>

Line == 1 .. MaxSent
Sends(s) == {f \in DOMAIN segment : f[1] = s}
At(file) == IF file \in DOMAIN offsets THEN offsets[file] ELSE 0

-------------------------------------------------------------------------------
(* Sending. *)

\* A number above every segment of this sender that is still in the directory.
NextSeq(s) == IF Sends(s) = {} THEN 0 ELSE Max({f[2] : f \in Sends(s)}) + 1

\* _writer: the segment the next line goes to.
WriterSeq(s) ==
  IF seq[s] = -1 THEN NextSeq(s)
  ELSE IF Len(segment[<<s, seq[s]>>]) >= SegmentLines THEN seq[s] + 1 ELSE seq[s]

\* send writes the line, part of which a reader may see ...
StartLine(s) ==
  /\ sent + Cardinality(fragment) < MaxSent \/ fragment = {}
  /\ <<s, seq[s]>> \notin fragment
  /\ LET file == <<s, WriterSeq(s)>> IN
     /\ seq' = [seq EXCEPT ![s] = file[2]]
     /\ segment' = [f \in DOMAIN segment \cup {file} |->
                      IF f \in DOMAIN segment THEN segment[f] ELSE <<>>]
     /\ fragment' = fragment \cup {file}
  /\ UNCHANGED <<offsets, saved, taken, kills, failures, cut, sent, restarts, pollVars>>

\* ... before it is complete.
FinishLine(s) ==
  LET file == <<s, seq[s]>> IN
  /\ file \in fragment /\ sent < MaxSent
  /\ sent' = sent + 1
  /\ segment' = [segment EXCEPT ![file] = Append(@, sent + 1)]
  /\ fragment' = fragment \ {file}
  /\ UNCHANGED <<offsets, saved, taken, kills, failures, cut, seq, restarts, pollVars>>

\* The sender is killed; its successor numbers its segments anew.
SenderRestart(s) ==
  /\ restarts < MaxRestarts
  /\ seq[s] # -1
  /\ restarts' = restarts + 1
  /\ seq' = [seq EXCEPT ![s] = -1]
  /\ UNCHANGED <<segment, fragment, offsets, saved, taken, kills, failures, cut, sent, pollVars>>

-------------------------------------------------------------------------------
(* Receiving: poll(), one step per segment. *)

Earlier(f, g) == f[1] < g[1] \/ (f[1] = g[1] /\ f[2] < g[2])

\* The segments in that order: there is one such sequence.
Listings ==
  {q \in [1 .. Cardinality(DOMAIN segment) -> DOMAIN segment] :
     /\ ToSet(q) = DOMAIN segment
     /\ \A i, j \in DOMAIN q : i < j => Earlier(q[i], q[j])}

\* The listing, from which each sender's newest segment is taken.
PollStart ==
  /\ ~polling
  /\ polling' = TRUE
  /\ todo' \in Listings
  /\ newest' = {f \in DOMAIN segment : \A g \in Sends(f[1]) : g[2] <= f[2]}
  /\ out' = 0
  /\ dirty' = FALSE
  /\ UNCHANGED <<segment, fragment, offsets, saved, taken, kills, failures, cut, senderVars>>

\* How many whole lines of the file have not been consumed.
Unread(file) == Len(segment[file]) - At(file)

\* Fault: a chunk of read_bytes is taken for the rest of the file.
OneChunk(file) == TRUE

\* Not truncated: the chunk is the rest of the file, and shorter than read_bytes.
WholeRest(file) == Unread(file) < ReadLines

\* Fault: a segment is deleted only when something was read from it.
DeletableIfRead(file) == WholeRest(file) /\ file \notin newest /\ Unread(file) > 0

\* at_end, and the sender has moved on.
Deletable(file) == WholeRest(file) /\ file \notin newest

\* Fault: the offset is dropped with every visit.
OffsetsForgotten(file, consumed, deleted) == Restrict(offsets, DOMAIN offsets \ {file})

\* Fault: the offset moves past the lines the limit has left.
OffsetsPastLimit(file, consumed, deleted) ==
  IF deleted THEN Restrict(offsets, DOMAIN offsets \ {file})
  ELSE [f \in DOMAIN offsets \cup {file} |->
          IF f = file THEN At(file) + Min({Unread(file), ReadLines}) ELSE offsets[f]]

\* _offsets after a segment has been visited.
OffsetsAfter(file, consumed, deleted) ==
  IF deleted THEN Restrict(offsets, DOMAIN offsets \ {file})
  ELSE IF consumed = 0 THEN offsets
  ELSE [f \in DOMAIN offsets \cup {file} |->
          IF f = file THEN At(file) + consumed ELSE offsets[f]]

\* Fault: a chunk with more behind it is left for the next poll, unread.
ConsumedIfWhole(file, chunk) == IF WholeRest(file) THEN Min({chunk, Limit - out}) ELSE 0

\* How much of the chunk the line loop gets through.
Consumed(file, chunk) == Min({chunk, Limit - out})

\* One turn of the loop.  The line loop may stop at the limit; whether the
\* segment is deleted does not depend on that.
PollSegment ==
  /\ polling
  /\ todo # <<>>
  /\ out < Limit
  /\ LET file == Head(todo)
         chunk == Min({Unread(file), ReadLines})
         consumed == Consumed(file, chunk)
         deleted == Deletable(file)
     IN  /\ out' = out + consumed
         /\ cut' = (cut \/ consumed < chunk)
         /\ taken' = [l \in Line |->
              IF \E i \in DOMAIN segment[file] :
                   i > At(file) /\ i <= At(file) + consumed /\ segment[file][i] = l
              THEN taken[l] + 1 ELSE taken[l]]
         /\ offsets' = OffsetsAfter(file, consumed, deleted)
         /\ segment' = IF deleted THEN Restrict(segment, DOMAIN segment \ {file})
                       ELSE segment
         /\ fragment' = IF deleted THEN fragment \ {file} ELSE fragment
         /\ dirty' = (dirty \/ consumed > 0 \/ deleted)
  /\ todo' = Tail(todo)
  /\ UNCHANGED <<saved, kills, failures, polling, newest, senderVars>>

\* The lines are returned once the offsets have been saved: they are replaced
\* atomically ...
PollEnd ==
  /\ polling
  /\ todo = <<>> \/ out >= Limit
  /\ saved' = IF dirty THEN offsets ELSE saved
  /\ polling' = FALSE
  /\ todo' = <<>>
  /\ newest' = {}
  /\ out' = 0
  /\ dirty' = FALSE
  /\ UNCHANGED <<segment, fragment, offsets, taken, kills, failures, cut, senderVars>>

\* ... or the write fails, and the old file stays.
PollEndUnsaved ==
  /\ polling
  /\ todo = <<>> \/ out >= Limit
  /\ dirty
  /\ failures < MaxFailures
  /\ failures' = failures + 1
  /\ polling' = FALSE
  /\ todo' = <<>>
  /\ newest' = {}
  /\ out' = 0
  /\ dirty' = FALSE
  /\ UNCHANGED <<segment, fragment, offsets, saved, taken, kills, cut, senderVars>>

\* The receiver is closed and started again: close() saves the offsets, which
\* only a save that failed leaves to do, and the successor loads them.
ReceiverClose ==
  /\ ~ polling
  /\ saved # offsets
  /\ saved' = offsets
  /\ UNCHANGED <<segment, fragment, offsets, taken, kills, failures, cut, senderVars, pollVars>>

\* The receiver is killed, inside a poll or not; its successor loads the
\* file.
ReceiverKill ==
  /\ kills < MaxKills
  /\ kills' = kills + 1
  /\ offsets' = saved
  /\ polling' = FALSE
  /\ todo' = <<>>
  /\ newest' = {}
  /\ out' = 0
  /\ dirty' = FALSE
  /\ UNCHANGED <<segment, fragment, saved, taken, failures, cut, senderVars>>

Init ==
  /\ segment = <<>> /\ fragment = {} /\ seq = [s \in Sender |-> -1]
  /\ offsets = <<>> /\ saved = <<>>
  /\ polling = FALSE /\ todo = <<>> /\ newest = {} /\ out = 0 /\ dirty = FALSE
  /\ sent = 0 /\ taken = [l \in Line |-> 0]
  /\ kills = 0 /\ failures = 0 /\ restarts = 0 /\ cut = FALSE

Poll == PollStart \/ PollSegment \/ PollEnd \/ PollEndUnsaved

Next ==
  \/ \E s \in Sender : StartLine(s) \/ FinishLine(s) \/ SenderRestart(s)
  \/ PollStart
  \/ PollSegment
  \/ PollEnd
  \/ PollEndUnsaved
  \/ ReceiverClose
  \/ ReceiverKill

\* The looping call keeps calling poll(), and a poll is one callback.
Spec == Init /\ [][Next]_vars /\ WF_vars(Poll)

-------------------------------------------------------------------------------
(* Properties. *)

TypeOK ==
  /\ \A f \in DOMAIN segment : f \in Sender \X Nat /\ segment[f] \in Seq(Line)
  /\ fragment \subseteq DOMAIN segment
  /\ \A f \in DOMAIN offsets \cap DOMAIN segment : offsets[f] \in 0 .. Len(segment[f])
  /\ newest \subseteq Sender \X Nat
  /\ out \in 0 .. Limit

Ahead == UNION {{segment[f][i] : i \in At(f) + 1 .. Len(segment[f])} : f \in DOMAIN segment}

\* Every line written is read before its segment is deleted: handoff.py:34-36,
\* "A segment that has been read to the end ... is deleted".
NothingLost == \A l \in 1 .. sent : taken[l] > 0 \/ l \in Ahead

\* A segment whose sender has moved on is deleted in the end, so the inbox
\* does not grow with the run: handoff.py:33-37.
OldSegmentsGo ==
  \A s \in Sender, n \in 0 .. (MaxSent \div SegmentLines) + MaxRestarts - 1 :
    (<<s, n>> \in DOMAIN segment /\ \E g \in Sends(s) : g[2] > n)
      ~> <<s, n>> \notin DOMAIN segment
===============================================================================
