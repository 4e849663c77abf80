---------------------------------- MODULE Shard ----------------------------------
(***************************************************************************)
(* One shard's life of a URL: crawler/spiders/broad.py (limits, admission, *)
(* the queued counter), crawler/dupefilter.py, crawler/middlewares/        *)
(* redirect.py and crawler/extensions/shutdown.py, over the frontier, with *)
(* kills and restarts.                                                     *)
(*                                                                         *)
(* Timing of downloads is in module Downloader, robots.txt in Robots and   *)
(* the files between shards in Handoff; each appears here as the choices   *)
(* it leaves open.                                                         *)
(***************************************************************************)
EXTENDS Frontier, SequencesExt

CONSTANTS
  Url,         \* pairs <<slot, page>>
  OwnedIn,     \* the slots shard_of gives to this shard, in each of its lives
  Seed,        \* the URLs of the seeds file
  MaxCrawled,  \* max_crawled_per_domain
  MaxQueued,   \* max_queued_per_domain
  Concurrent,  \* CONCURRENT_REQUESTS
  MaxLives     \* bound: processes on this JOBDIR; the last one neither saves nor ends

ASSUME ShardAssumption ==
  /\ Url \subseteq Slot \X Nat
  /\ OwnedIn \in Seq(SUBSET Slot) /\ Len(OwnedIn) >= MaxLives
  /\ Seed \subseteq Url
  /\ {MaxCrawled, MaxQueued, Concurrent, MaxLives} \subseteq Nat \ {0}

VARIABLES
  phase,       \* "running", "closing", "closed", "killed"
  life,        \* how many processes there have been
  seen,        \* the Bloom filter
  savedSeen,   \* requests.bloom
  seedsLeft,   \* what start() has not yielded yet
  seenDomains,
  queuedPer,   \* queued_per_domain
  crawledPer,  \* crawled_per_domain, as far as MaxCrawled
  asking,      \* requests in the robots.txt middleware
  asked,       \* slots this process has fetched the robots.txt of
  \* history
  started,     \* requests this process has taken from the frontier
  gone,        \* URLs that met their end since they were last queued: fetched, failed,
               \* refused, dropped, lost in flight
  unreleased   \* requests of a slot that ended in this process with no signal

svars == <<phase, life, seen, savedSeen, seedsLeft, seenDomains, queuedPer,
           crawledPer, asking, asked, started, gone, unreleased>>
vars == <<frontier, active, svars>>

SlotOf(u) == u[1]
Zero == [s \in Slot |-> 0]

\* shard_of, with the number of shards this process was started with.
Owned == OwnedIn[life]

InFlight == asking \cup UNION {active[s] : s \in Slot}
Up == phase \in {"running", "closing"}

process == <<phase, life, savedSeen, seedsLeft, started>>

-------------------------------------------------------------------------------
(* Admission. *)

\* _release_queued
Released(queued, s) == [queued EXCEPT ![s] = IF @ > 0 THEN @ - 1 ELSE 0]

\* Fault: request_dropped is not connected.
DroppedSilently(queued, s) == queued

\* The request_dropped signal.
Dropped(queued, s) == Released(queued, s)

\* Scheduler.enqueue_request asks request_seen.
Filtered(u, dontFilter) == ~dontFilter /\ u \in seen

\* engine.crawl: the scheduler takes the request, or request_dropped is sent.
\* queued and ended are queued_per_domain and gone as the caller leaves them.
Crawl(u, isNew, dontFilter, queued, ended) ==
  LET s == SlotOf(u)
      full == OverQueues(s) \/ OverCapacity(isNew)
  IN
  IF full \/ Filtered(u, dontFilter)
  THEN /\ queuedPer' = Dropped(queued, s)
       /\ seen' = IF dontFilter THEN seen \cup {u} ELSE seen
       /\ gone' = IF full THEN ended \cup {u} ELSE ended
       /\ UNCHANGED frontier
  ELSE /\ Enqueue(s, [url |-> u, life |-> life, new |-> isNew])
       /\ queuedPer' = queued
       /\ seen' = seen \cup {u}
       /\ gone' = ended \ {u}

\* The per-domain limits of _maybe_follow and _inject_handoff.
Wanted(s) == crawledPer[s] < MaxCrawled /\ queuedPer[s] < MaxQueued

\* _admit, and the engine.crawl of its result.
Admit(u) ==
  LET s == SlotOf(u) IN
  /\ u \notin seen
  /\ seenDomains' = seenDomains \cup {s}
  /\ Crawl(u, s \notin seenDomains, TRUE, [queuedPer EXCEPT ![s] = @ + 1], gone)

\* Fault: whatever arrives is taken for ours.
OwnAll(u) == TRUE

Own(u) == SlotOf(u) \in Owned

\* _maybe_follow, on a link of a page parsed in this process.
Follow(u) ==
  /\ Up
  /\ \E s \in Slot : crawledPer[s] > 0
  /\ Wanted(SlotOf(u))
  /\ Own(u)   \* else handoff.send, which is not of this module
  /\ Admit(u)
  /\ UNCHANGED <<process, active, crawledPer, asking, asked, unreleased>>

\* _inject_handoff
Inject(u) ==
  /\ Up
  /\ Own(u)
  /\ Wanted(SlotOf(u))
  /\ Admit(u)
  /\ UNCHANGED <<process, active, crawledPer, asking, asked, unreleased>>

\* _seed_requests
SeedRequest(u) ==
  /\ phase = "running"
  /\ u \in seedsLeft
  /\ seedsLeft' = seedsLeft \ {u}
  /\ IF Own(u)
     THEN /\ seenDomains' = seenDomains \cup {SlotOf(u)}
          /\ Crawl(u, FALSE, FALSE, queuedPer, gone)
     ELSE UNCHANGED <<frontier, seen, seenDomains, queuedPer, gone>>
  /\ UNCHANGED <<active, phase, life, savedSeen, crawledPer, asking, asked,
                 started, unreleased>>

-------------------------------------------------------------------------------
(* From the frontier to the network and back. *)

\* The engine takes the next request, unless it has enough in hand.
Take ==
  /\ phase = "running"
  /\ Cardinality(InFlight) < Concurrent
  /\ NextRequest
  /\ asking' = asking \cup Given
  /\ started' = started \cup Given
  /\ UNCHANGED <<phase, life, seen, savedSeen, seedsLeft, seenDomains, queuedPer,
                 crawledPer, asked, gone, unreleased>>

\* request_left_downloader is sent for a robots.txt too, once it is fetched
\* for a request that waits for it.
RobotsLeft(r) ==
  LET s == SlotOf(r.url) IN
  /\ r \in asking
  /\ asked' = asked \cup {s}
  /\ queuedPer' = Released(queuedPer, s)
  /\ UNCHANGED <<frontier, process, active, seen, seenDomains, crawledPer, asking,
                 gone, unreleased>>

Allowed(r) ==
  /\ r \in asking
  /\ SlotOf(r.url) \in asked
  /\ asking' = asking \ {r}
  /\ Sent(SlotOf(r.url), r)
  /\ UNCHANGED <<frontier, process, seen, seenDomains, queuedPer, crawledPer, asked,
                 gone, unreleased>>

\* process_request_2 raises IgnoreRequest: the request never was in the
\* downloader, and no signal says that it left.
Forbidden(r) ==
  LET s == SlotOf(r.url) IN
  /\ r \in asking
  /\ s \in asked
  /\ asking' = asking \ {r}
  /\ gone' = gone \cup {r.url}
  /\ unreleased' = [unreleased EXCEPT ![s] = @ + 1]
  /\ UNCHANGED <<frontier, process, active, seen, seenDomains, queuedPer, crawledPer, asked>>

\* parse, up to its links
Parsed(s, r) ==
  /\ r \in active[s]
  /\ Left(s, r)
  /\ queuedPer' = Released(queuedPer, s)
  /\ crawledPer' = [crawledPer EXCEPT ![s] = IF @ < MaxCrawled THEN @ + 1 ELSE @]
  /\ gone' = gone \cup {r.url}
  /\ UNCHANGED <<frontier, process, seen, seenDomains, asking, asked, unreleased>>

Failed(s, r) ==
  /\ r \in active[s]
  /\ Left(s, r)
  /\ queuedPer' = Released(queuedPer, s)
  /\ gone' = gone \cup {r.url}
  /\ UNCHANGED <<frontier, process, seen, seenDomains, crawledPer, asking, asked, unreleased>>

\* Fault: the target keeps the source's dont_filter.
DontFilterInherited == TRUE

RedirectDontFilter == FALSE

\* _build_redirect_request.  The target keeps the source's meta, new_domain
\* included.
Redirected(s, r, target) ==
  /\ r \in active[s]
  /\ Left(s, r)
  /\ IF Own(target)
     THEN Crawl(target, r.new, RedirectDontFilter, Released(queuedPer, s), gone \cup {r.url})
     ELSE /\ queuedPer' = Released(queuedPer, s)
          /\ gone' = gone \cup {r.url}
          /\ UNCHANGED <<frontier, seen>>
  /\ UNCHANGED <<process, seenDomains, crawledPer, asking, asked, unreleased>>

-------------------------------------------------------------------------------
(* Saving, stopping, dying, starting again. *)

CheckpointFrontier ==
  /\ Up /\ life < MaxLives
  /\ \E s \in Live : popped[s] # <<>> /\ CheckpointSlice({s})
  /\ UNCHANGED svars

CheckpointBloom ==
  /\ Up /\ life < MaxLives
  /\ savedSeen' = seen
  /\ UNCHANGED <<fvars, phase, life, seen, seedsLeft, seenDomains, queuedPer,
                 crawledPer, asking, asked, started, gone, unreleased>>

\* TimedShutdown._stop cancels what is parked, at most one request of a slot
\* being on the wire, and asks the engine to close.
Stop ==
  /\ phase = "running" /\ life < MaxLives
  /\ phase' = "closing"
  /\ \E wire \in SUBSET UNION {active[s] : s \in Slot} :
       /\ \A s \in Slot : Cardinality(active[s] \cap wire) <= 1
       /\ active' = [s \in Slot |-> active[s] \cap wire]
       /\ gone' = gone \cup {r.url : r \in UNION {active[s] \ wire : s \in Slot}}
       /\ unreleased' = [s \in Slot |-> unreleased[s] + Cardinality(active[s] \ wire)]
  /\ UNCHANGED <<frontier, life, seen, savedSeen, seedsLeft, seenDomains, queuedPer,
                 crawledPer, asking, asked, started>>

\* Fault: closing waits for the frontier as well.
NothingLeft == asking = {} /\ active = NoneActive /\ size = 0

\* _Slot.close fires when no request is in progress.
NothingInProgress == asking = {} /\ active = NoneActive

\* The scheduler and the filter are closed.
Close ==
  /\ phase = "closing"
  /\ NothingInProgress
  /\ phase' = "closed"
  /\ Closed
  /\ savedSeen' = seen
  /\ UNCHANGED <<life, seen, seedsLeft, seenDomains, queuedPer, crawledPer, asking, asked,
                 started, gone, unreleased>>

Kill ==
  /\ Up /\ life < MaxLives
  /\ phase' = "killed"
  /\ Killed
  /\ gone' = gone \cup {r.url : r \in InFlight}
  /\ asking' = {}
  /\ UNCHANGED <<life, seen, savedSeen, seedsLeft, seenDomains, queuedPer, crawledPer, asked,
                 started, unreleased>>

\* A process starts with the files of the last one.
Start ==
  /\ phase \in {"closed", "killed"}
  /\ life' = life + 1
  /\ phase' = "running"
  /\ Opened
  /\ seen' = savedSeen
  /\ seedsLeft' = Seed
  /\ seenDomains' = {} /\ asked' = {} /\ started' = {}
  /\ queuedPer' = Zero /\ crawledPer' = Zero /\ unreleased' = Zero
  /\ UNCHANGED <<savedSeen, asking, gone>>

Init ==
  /\ FrontierInit
  /\ phase = "running" /\ life = 1
  /\ seen = {} /\ savedSeen = {} /\ seedsLeft = Seed
  /\ seenDomains = {} /\ queuedPer = Zero /\ crawledPer = Zero
  /\ asking = {} /\ asked = {}
  /\ started = {} /\ gone = {} /\ unreleased = Zero

\* A download ends, if only by its timeout, and the middleware decides.
Progress ==
  \/ \E r \in asking : RobotsLeft(r) \/ Allowed(r) \/ Forbidden(r)
  \/ \E s \in Slot : \E r \in active[s] : Parsed(s, r) \/ Failed(s, r)
  \/ Close

Next ==
  \/ \E u \in Url : Follow(u) \/ Inject(u) \/ SeedRequest(u)
  \/ Take
  \/ Progress
  \/ \E s \in Slot, target \in Url : \E r \in active[s] : Redirected(s, r, target)
  \/ CheckpointFrontier \/ CheckpointBloom
  \/ Stop \/ Kill \/ Start

Spec == Init /\ [][Next]_vars /\ WF_vars(Progress)

-------------------------------------------------------------------------------
(* Properties. *)

Queued == UNION {ToSet(pqueues[s]) : s \in Live}
Held == Queued \cup InFlight
HeldOf(s) == {r \in Held : SlotOf(r.url) = s}

TypeOK ==
  /\ phase \in {"running", "closing", "closed", "killed"}
  /\ life \in 1 .. MaxLives
  /\ Live \subseteq Slot /\ ToSet(ring) \subseteq Slot /\ members \subseteq Slot
  /\ seen \subseteq Url /\ savedSeen \subseteq Url /\ gone \subseteq Url
  /\ \A s \in Slot : queuedPer[s] \in 0 .. MaxQueued /\ crawledPer[s] \in Nat

\* Whatever the filter remembers is queued, in flight, or has met its end: no
\* order of checkpoints, kills and restarts makes a URL both seen and lost.
NothingForgotten ==
  phase = "running" => \A u \in seen : u \in gone \/ \E r \in Held : r.url = u

\* Requests for a URL that the same process has let in.
Same(q, r) == q.url = r.url /\ q.life = r.life

\* A process lets a URL in once, as a seed, a link, a URL from the inbox or the
\* target of a redirect, and what it has let in is queued once and taken from
\* the frontier once, by that process and by each one that finds it on disk.
NeverTwice ==
  Up => \A r \in Held \cup started :
          Cardinality({p \in Places(pqueues) : Same(pqueues[p[1]][p[2]], r)})
            + Cardinality({q \in started : Same(q, r)}) <= 1

\* Only this shard's domains reach its frontier and its downloader, by any way
\* in: broad.py:241-246, redirect.py:16-20.
OwnDomainsOnly ==
  Live \subseteq Owned /\ \A s \in Slot \ Owned : active[s] = {}

\* queued_per_domain counts no more than the requests it has let in that are
\* still held, and those that ended where no signal is sent.
QueuedAccounted ==
  Up => \A s \in Slot :
          queuedPer[s] <= Cardinality({r \in HeldOf(s) : r.life = life}) + unreleased[s]

\* broad.py:149-153: "every request that leaves it has to release its slot",
\* or a busy domain "is silenced for good".  Not so after a refusal by robots.txt.
SilencedOnlyWhileHeld ==
  Up => \A s \in Slot : queuedPer[s] >= MaxQueued => HeldOf(s) # {}

\* shutdown.py: the close comes, whatever the frontier still holds.
ShutdownEnds == phase = "closing" ~> phase # "closing"
===============================================================================
