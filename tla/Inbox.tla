--------------------------------- MODULE Inbox ---------------------------------
(***************************************************************************)
(* _drain_handoff of crawler/spiders/broad.py over the inbox of module     *)
(* Handoff: a poll's lines come back as one list, after the offsets were   *)
(* saved, and are injected one after another.  The poll and the loop are   *)
(* one callback of the receiver; senders write and a kill comes anywhere   *)
(* in it.  What injecting does to a URL is module Shard's Inject.          *)
(***************************************************************************)
EXTENDS Handoff

VARIABLES
  collected,  \* out: the lines of the running poll
  urls,       \* what it returned and the loop has yet to inject
  \* history
  injected,   \* how often each line has been injected
  discarded,  \* lines deleted with their segment, unread
  killed,     \* lines the receiver had in hand when it was killed
  waiting     \* the segments that had unread lines when the poll listed them

drainVars == <<collected, urls, injected, discarded, killed, waiting>>
ivars == <<vars, drainVars>>

\* The lines a poll takes from the segment at the head of its list.
Taken ==
  LET file == Head(todo) IN SubSeq(segment[file], At(file) + 1, At(file) + (out' - out))

\* The loop's callback comes again only when this one has returned.
DrainStart ==
  /\ urls = <<>>
  /\ PollStart
  /\ waiting' = {f \in DOMAIN segment : Unread(f) > 0}
  /\ UNCHANGED <<collected, urls, injected, discarded, killed>>

DrainSegment ==
  /\ PollSegment
  /\ collected' = collected \o Taken
  /\ discarded' = discarded \cup
       {l \in 1 .. sent : /\ \E f \in DOMAIN segment \ DOMAIN segment' : l \in ToSet(segment[f])
                          /\ taken'[l] = 0}
  /\ waiting' = IF Taken # <<>> THEN waiting \ {Head(todo)} ELSE waiting
  /\ UNCHANGED <<urls, injected, killed>>

\* poll returns.
DrainPolled ==
  /\ PollEnd \/ PollEndUnsaved
  /\ urls' = collected
  /\ collected' = <<>>
  /\ waiting' = {}
  /\ UNCHANGED <<injected, discarded, killed>>

\* Fault: the loop stops at a URL that raises.
Rest == <<>>

Others == Tail(urls)

\* One turn of the loop; a URL that raises is counted, and the loop goes on.
InjectHandoff ==
  /\ urls # <<>>
  /\ injected' = [injected EXCEPT ![Head(urls)] = @ + 1]
  /\ urls' = Others
  /\ UNCHANGED <<vars, collected, discarded, killed, waiting>>

DrainKilled ==
  /\ ReceiverKill
  /\ killed' = killed \cup ToSet(collected \o urls)
  /\ collected' = <<>>
  /\ urls' = <<>>
  /\ waiting' = {}
  /\ UNCHANGED <<injected, discarded>>

DrainClosed ==
  /\ urls = <<>>
  /\ ReceiverClose
  /\ UNCHANGED drainVars

InboxInit ==
  /\ Init
  /\ collected = <<>> /\ urls = <<>> /\ waiting = {}
  /\ injected = [l \in Line |-> 0] /\ discarded = {} /\ killed = {}

Drain == DrainStart \/ DrainSegment \/ DrainPolled \/ InjectHandoff

InboxNext ==
  \/ \E s \in Sender : StartLine(s) /\ UNCHANGED drainVars
  \/ \E s \in Sender : FinishLine(s) /\ UNCHANGED drainVars
  \/ \E s \in Sender : SenderRestart(s) /\ UNCHANGED drainVars
  \/ DrainStart
  \/ DrainSegment
  \/ DrainPolled
  \/ InjectHandoff
  \/ DrainClosed
  \/ DrainKilled

\* The looping call goes on: an exception of poll or of one URL does not end
\* it.
InboxSpec == InboxInit /\ [][InboxNext]_ivars /\ WF_ivars(Drain)

-------------------------------------------------------------------------------
(* Properties. *)

InboxTypeOK ==
  /\ TypeOK
  /\ collected \in Seq(Line) /\ Len(collected) = out
  /\ urls \in Seq(Line) /\ Len(urls) <= Limit
  /\ waiting \subseteq Sender \X Nat

Lost ==
  {l \in 1 .. sent : /\ injected[l] = 0
                     /\ l \notin Ahead \cup ToSet(collected) \cup ToSet(urls)}

\* A kill of the receiver costs no URL but those it has in hand, which are one
\* poll's at most, wherever in the callback it comes, and a segment is deleted
\* with unread lines only if a poll has stopped in one at its limit.  Nothing else
\* costs any: no restart of a sender, failed save, or URL that raises
\* (handoff.py:33-47, 120-121, 135-136, broad.py:208-232).
LossBounded ==
  /\ Lost \subseteq discarded \cup killed
  /\ Cardinality(killed) <= kills * Limit
  /\ discarded # {} => cut

\* A URL is injected a second time only when a poll's offsets could not be
\* saved and the receiver was killed after that: handoff.py:45-47 and 120-121.
TwiceOnlyUnsaved == \A l \in Line : injected[l] <= 1 + Min({failures, kills})

\* A busy sender keeps another one waiting only by filling whole polls: one
\* that returns less than the limit has taken lines from every segment that
\* had some when it was listed.
PassedOverOnlyAtLimit ==
  [][DrainPolled => out >= Limit \/ waiting \cap DOMAIN segment = {}]_ivars

\* Every URL that is sent is injected, or lost as LossBounded allows.
Delivered == \A l \in Line : (sent >= l) ~> (injected[l] > 0 \/ l \in Lost)
===============================================================================
