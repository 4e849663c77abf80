------------------------------ MODULE Downloader ------------------------------
(***************************************************************************)
(* crawler/downloader.py (DomainSlotDownloader), crawler/dispatch.py (the  *)
(* guard) and the Crawl-delay half of crawler/middlewares/robots.py, on    *)
(* the part of Scrapy's Downloader they override: the download slot, its   *)
(* queue and its timer, and the collector that drops idle slots.           *)
(*                                                                         *)
(* The event loop runs callbacks in the order they were scheduled.  Only   *)
(* the callbacks of one domain touch that domain's slot, so the loop's     *)
(* ready queue appears here as its projection on each domain, slot.ready.  *)
(* Time passes at any moment, so every callback may run arbitrarily late.  *)
(***************************************************************************)
EXTENDS Naturals, Sequences

CONSTANTS
  Domain,           \* registered domains: the keys slot_key() returns
  Delay,            \* DOWNLOAD_DELAY, the floor of every slot's delay
  MinGaps,          \* the values required_min_gap may be configured to
  Slack,            \* the guard's tolerance (0.05 s)
  CrawlDelays,      \* the Crawl-delay values robots.txt files ask for
  MaxCrawlDelay,    \* the ceiling on a Crawl-delay
  GCAge,            \* Scrapy collects a slot idle for longer than this
  RestartPause,     \* what the supervisor waits before it relaunches
  StartTime,        \* the monotonic clock when the first process starts
  MaxQueue,         \* bound: requests queued in one slot
  MaxTime           \* bound: the clock stops here

ASSUME DelayAssumption ==
  /\ Delay \in Nat \ {0}
  /\ MinGaps \subseteq Nat
  /\ Slack \in Nat
ASSUME CrawlDelayAssumption ==
  /\ CrawlDelays \subseteq Nat
  /\ MaxCrawlDelay \in Nat
  /\ Delay <= MaxCrawlDelay
ASSUME PauseAssumption ==
  /\ GCAge \in Nat /\ MaxCrawlDelay <= GCAge
  /\ RestartPause \in Nat /\ MaxCrawlDelay <= RestartPause
  /\ \A gap \in MinGaps : gap <= RestartPause
  /\ StartTime \in Nat \ {0}
ASSUME BoundAssumption ==
  /\ MaxQueue \in Nat /\ MaxTime \in Nat

VARIABLES
  now,           \* time.monotonic()
  minGap,        \* dispatch._min_gap, set once by configure()
  live,          \* the keys of Downloader.slots
  slot,          \* slot[d], meaningful while d \in live
  lastComplete,  \* DomainSlotDownloader._last_complete, 0 for no entry
  maxDelay,      \* DomainSlotDownloader._max_delay
  lastOut,       \* dispatch._last_out, 0 for no entry
  pending,       \* robots _pending_delays, 0 for no entry
  unparsed,      \* a robots.txt body has arrived and is not parsed yet
  \* history, outside the process
  stamped,       \* when the guard last let a request of the domain through
  wire,          \* when the last request was written to the domain
  writes,        \* how many requests have been written to it
  done,          \* when its last request completed, in this process
  asked          \* the largest capped Crawl-delay parsed in this process

procVars == <<live, slot, lastComplete, maxDelay, lastOut, pending, unparsed>>
vars == <<now, minGap, procVars, stamped, wire, writes, done, asked>>

Kind == {"page", "robots"}
Transfer == [kind : Kind, sent : BOOLEAN]
Slot == [queue : Seq(Kind), lastseen : Nat, delay : Nat, later : Nat,
         ready : Seq(Kind \cup {"timer"}), transferring : Seq(Transfer)]

TypeOK ==
  /\ now \in Nat
  /\ minGap \in MinGaps
  /\ live \subseteq Domain
  /\ slot \in [Domain -> Slot]
  /\ lastComplete \in [Domain -> Nat]
  /\ maxDelay \in Nat
  /\ lastOut \in [Domain -> Nat]
  /\ pending \in [Domain -> Nat]
  /\ unparsed \in [Domain -> BOOLEAN]
  /\ stamped \in [Domain -> Nat]
  /\ wire \in [Domain -> Nat]
  /\ writes \in [Domain -> Nat]
  /\ done \in [Domain -> Nat]
  /\ asked \in [Domain -> Nat]

-------------------------------------------------------------------------------
(* Slots. *)

\* Fault: the seed is taken one delay too early.
EarlySlot(lastseen) ==
  [queue |-> <<>>, lastseen |-> lastseen - Delay, delay |-> Delay, later |-> 0,
   ready |-> <<>>, transferring |-> <<>>]

\* A slot as Scrapy builds it, its clock seeded by the override of _get_slot.
\* later = 0 says that no latercall is set.
NewSlot(lastseen) ==
  [queue |-> <<>>, lastseen |-> lastseen, delay |-> Delay, later |-> 0,
   ready |-> <<>>, transferring |-> <<>>]

GetSlot(d) == IF d \in live THEN slot[d] ELSE NewSlot(lastComplete[d])

\* Where ready holds the coroutine of a popped request.
Popped(s) == {i \in DOMAIN s.ready : s.ready[i] # "timer"}

\* slot.active: requests between _enqueue_request and the end of _download.
Active(s) == s.queue # <<>> \/ Popped(s) # {} \/ s.transferring # <<>>

\* slot.free_transfer_slots() with CONCURRENT_REQUESTS_PER_DOMAIN = 1.
\* A popped request counts only once its coroutine has started.
FreeTransferSlots(s) == 1 - Len(s.transferring)

\* Fault: the concurrency limit of the domain is not consulted.
CanPopWhileBusy(s, t) ==
  s.later = 0 /\ t >= s.lastseen + s.delay /\ s.queue # <<>>

CanPop(s, t) ==
  /\ s.later = 0
  /\ t >= s.lastseen + s.delay
  /\ s.queue # <<>>
  /\ FreeTransferSlots(s) > 0

\* Downloader._process_queue.  The pop schedules the coroutine and, because
\* the delay is positive, the nested call sets the timer at once.
ProcessQueue(s, t) ==
  IF CanPop(s, t)
  THEN [s EXCEPT !.queue = Tail(s.queue), !.lastseen = t, !.later = t + s.delay,
                 !.ready = Append(s.ready, Head(s.queue))]
  ELSE IF s.later = 0 /\ t < s.lastseen + s.delay
       THEN [s EXCEPT !.later = s.lastseen + s.delay]
       ELSE s

\* Fault: the purge clears the whole history.
PurgeAll(dict, full, gap) == [d \in Domain |-> IF full THEN 0 ELSE dict[d]]

\* _last_complete and _last_out are shared by every domain of the crawl, the
\* ones outside Domain included: whether an insertion finds the dict above its
\* threshold (full) depends on their traffic.  A purge drops the entries that
\* are at least gap old.
Purge(dict, full, gap) ==
  [d \in Domain |-> IF full /\ dict[d] + gap <= now THEN 0 ELSE dict[d]]

-------------------------------------------------------------------------------
(* The clock. *)

Tick ==
  /\ now < MaxTime
  /\ now' = now + 1
  /\ UNCHANGED <<minGap, procVars, stamped, wire, writes, done, asked>>

-------------------------------------------------------------------------------
(* Requests reach the downloader. *)

\* PoliteRobotsTxtMiddleware._apply_delay
WithDelay(s, delay) == IF s.delay < delay THEN [s EXCEPT !.delay = delay] ELSE s

\* Fault: a Crawl-delay learned earlier is never replayed.
NotReplayed(d, kind) == GetSlot(d)

\* process_request_2 replays the domain's Crawl-delay on an existing slot,
\* for pages only; robots.txt itself is fetched with dont_obey_robotstxt.
Replayed(d, kind) ==
  IF kind = "page" /\ d \in live THEN WithDelay(slot[d], pending[d]) ELSE GetSlot(d)

\* Downloader.fetch: the middlewares, then _enqueue_request.
Enqueue(d, kind) ==
  /\ Len(GetSlot(d).queue) < MaxQueue
  /\ LET s == Replayed(d, kind) IN
     slot' = [slot EXCEPT ![d] =
                ProcessQueue([s EXCEPT !.queue = Append(s.queue, kind)], now)]
  /\ live' = live \cup {d}
  /\ UNCHANGED <<now, minGap, lastComplete, maxDelay, lastOut, pending, unparsed,
                 stamped, wire, writes, done, asked>>

-------------------------------------------------------------------------------
(* The download coroutine. *)

\* Fault: a gap of exactly the floor is refused.
StrictlyAbove(d) == lastOut[d] = 0 \/ now + Slack > lastOut[d] + minGap

\* The guard of record_dispatch.
DispatchAllowed(d) == lastOut[d] = 0 \/ now + Slack >= lastOut[d] + minGap

HeadIsTask(d) ==
  d \in live /\ slot[d].ready # <<>> /\ Head(slot[d].ready) \in Kind

\* _download up to its first await: record_dispatch, then transferring.add.
Dispatch(d, full) ==
  /\ HeadIsTask(d)
  /\ DispatchAllowed(d)
  /\ lastOut' = IF minGap = 0 THEN lastOut
                ELSE [Purge(lastOut, full, minGap) EXCEPT ![d] = now]
  /\ slot' = [slot EXCEPT
       ![d].ready = Tail(slot[d].ready),
       ![d].transferring =
         Append(slot[d].transferring, [kind |-> Head(slot[d].ready), sent |-> FALSE])]
  /\ stamped' = [stamped EXCEPT ![d] = now]
  /\ UNCHANGED <<now, minGap, live, lastComplete, maxDelay, pending, unparsed,
                 wire, writes, done, asked>>

\* record_dispatch raises: nothing after it in _download runs.
Refuse(d) ==
  /\ HeadIsTask(d)
  /\ ~DispatchAllowed(d)
  /\ slot' = [slot EXCEPT ![d].ready = Tail(slot[d].ready)]
  /\ UNCHANGED <<now, minGap, live, lastComplete, maxDelay, lastOut, pending, unparsed,
                 stamped, wire, writes, done, asked>>

\* The download handler writes the request to a socket.
WriteToWire(d) ==
  /\ d \in live
  /\ \E i \in DOMAIN slot[d].transferring :
       /\ ~slot[d].transferring[i].sent
       /\ slot' = [slot EXCEPT ![d].transferring[i].sent = TRUE]
  /\ wire' = [wire EXCEPT ![d] = now]
  /\ writes' = [writes EXCEPT ![d] = @ + 1]
  /\ UNCHANGED <<now, minGap, live, lastComplete, maxDelay, lastOut, pending, unparsed,
                 stamped, done, asked>>

Without(s, i) ==
  [s EXCEPT !.transferring = SubSeq(s.transferring, 1, i - 1) \o
                             SubSeq(s.transferring, i + 1, Len(s.transferring))]

\* Fault: the delay counts from the pop, as in Scrapy.
SettledFromPop(s, i) == ProcessQueue(Without(s, i), now)

\* Fault: the completion does not look at the queue.
SettledSilently(s, i) == [Without(s, i) EXCEPT !.lastseen = now]

\* The completion moves lastseen before _process_queue reads it.
Settled(s, i) == ProcessQueue([Without(s, i) EXCEPT !.lastseen = now], now)

\* The finally block of _download, after a response or a failure (which may
\* precede the write: DNS, connect).
Complete(d, full) ==
  /\ d \in live
  /\ \E i \in DOMAIN slot[d].transferring :
       /\ slot' = [slot EXCEPT ![d] = Settled(slot[d], i)]
       /\ \E ok \in {FALSE, slot[d].transferring[i].sent} :
            unparsed' = [unparsed EXCEPT ![d] =
              @ \/ (ok /\ slot[d].transferring[i].kind = "robots")]
  /\ lastComplete' =
       [Purge(lastComplete, full, maxDelay) EXCEPT ![d] = now]
  /\ maxDelay' = IF slot[d].delay > maxDelay THEN slot[d].delay ELSE maxDelay
  /\ done' = [done EXCEPT ![d] = now]
  /\ UNCHANGED <<now, minGap, live, lastOut, pending, stamped, wire, writes, asked>>

\* The same two insertions for a domain outside Domain, when they purge.
PurgedByOthers ==
  /\ \/ lastOut' = Purge(lastOut, minGap # 0, minGap) /\ UNCHANGED lastComplete
     \/ lastComplete' = Purge(lastComplete, TRUE, maxDelay) /\ UNCHANGED lastOut
  /\ UNCHANGED <<now, minGap, live, slot, maxDelay, pending, unparsed,
                 stamped, wire, writes, done, asked>>

-------------------------------------------------------------------------------
(* Timers. *)

\* The loop moves an expired latercall to its ready queue ...
Expire(d) ==
  /\ d \in live
  /\ slot[d].later # 0 /\ slot[d].later <= now
  /\ \A i \in DOMAIN slot[d].ready : slot[d].ready[i] # "timer"
  /\ slot' = [slot EXCEPT ![d].ready = Append(slot[d].ready, "timer")]
  /\ UNCHANGED <<now, minGap, live, lastComplete, maxDelay, lastOut, pending, unparsed,
                 stamped, wire, writes, done, asked>>

\* ... and runs it: Downloader._latercall.
LaterCall(d) ==
  /\ d \in live
  /\ slot[d].ready # <<>> /\ Head(slot[d].ready) = "timer"
  /\ slot' = [slot EXCEPT ![d] =
       ProcessQueue([slot[d] EXCEPT !.ready = Tail(slot[d].ready), !.later = 0], now)]
  /\ UNCHANGED <<now, minGap, live, lastComplete, maxDelay, lastOut, pending, unparsed,
                 stamped, wire, writes, done, asked>>

Idle(d) ==
  ~Active(slot[d]) /\ slot[d].lastseen + slot[d].delay + GCAge < now

\* Downloader._slot_gc; Slot.close cancels the timer.
SlotGC ==
  /\ \E d \in live : Idle(d)
  /\ live' = {d \in live : ~Idle(d)}
  /\ slot' = [d \in Domain |->
                IF d \in live /\ Idle(d) THEN NewSlot(0) ELSE slot[d]]
  /\ UNCHANGED <<now, minGap, lastComplete, maxDelay, lastOut, pending, unparsed,
                 stamped, wire, writes, done, asked>>

-------------------------------------------------------------------------------
(* Crawl-delay, and the end of a process. *)

\* _on_robots_parsed.  c = 0 stands for a file without a Crawl-delay.
RobotsParsed(d, c) ==
  /\ unparsed[d]
  /\ unparsed' = [unparsed EXCEPT ![d] = FALSE]
  /\ IF c <= Delay
     THEN UNCHANGED <<slot, pending, asked>>
     ELSE LET capped == IF c < MaxCrawlDelay THEN c ELSE MaxCrawlDelay IN
          /\ pending' = [pending EXCEPT ![d] = capped]
          /\ slot' = IF d \in live
                     THEN [slot EXCEPT ![d] = WithDelay(slot[d], capped)]
                     ELSE slot
          /\ asked' = [asked EXCEPT ![d] = IF @ < capped THEN capped ELSE @]
  /\ UNCHANGED <<now, minGap, live, lastComplete, maxDelay, lastOut, stamped, wire, writes, done>>

\* The process dies at any moment; the supervisor pauses and relaunches it.
Restart ==
  /\ now + RestartPause <= MaxTime
  /\ now' = now + RestartPause
  /\ live' = {}
  /\ slot' = [d \in Domain |-> NewSlot(0)]
  /\ lastComplete' = [d \in Domain |-> 0]
  /\ maxDelay' = Delay
  /\ lastOut' = [d \in Domain |-> 0]
  /\ pending' = [d \in Domain |-> 0]
  /\ unparsed' = [d \in Domain |-> FALSE]
  /\ done' = [d \in Domain |-> 0]
  /\ asked' = [d \in Domain |-> 0]
  /\ UNCHANGED <<minGap, stamped, wire, writes>>

Init ==
  /\ now = StartTime
  /\ minGap \in MinGaps
  /\ live = {}
  /\ slot = [d \in Domain |-> NewSlot(0)]
  /\ lastComplete = [d \in Domain |-> 0]
  /\ maxDelay = Delay
  /\ lastOut = [d \in Domain |-> 0]
  /\ pending = [d \in Domain |-> 0]
  /\ unparsed = [d \in Domain |-> FALSE]
  /\ stamped = [d \in Domain |-> 0]
  /\ wire = [d \in Domain |-> 0]
  /\ writes = [d \in Domain |-> 0]
  /\ done = [d \in Domain |-> 0]
  /\ asked = [d \in Domain |-> 0]

Next ==
  \/ Tick
  \/ Restart
  \/ SlotGC
  \/ PurgedByOthers
  \/ \E d \in Domain :
       \/ \E kind \in Kind : Enqueue(d, kind)
       \/ \E full \in BOOLEAN : Dispatch(d, full) \/ Complete(d, full)
       \/ Refuse(d)
       \/ WriteToWire(d)
       \/ Expire(d)
       \/ LaterCall(d)
       \/ \E c \in CrawlDelays \cup {0} : RobotsParsed(d, c)

Spec == Init /\ [][Next]_vars

-------------------------------------------------------------------------------
(* Properties. *)

\* Two requests reach one domain at least Delay apart, across late callbacks,
\* slot collection, purged histories and restarts: downloader.py:44-52.
PolitenessContract == INSTANCE Politeness WITH Gap <- Delay
ImplementsPoliteness == PolitenessContract!Spec

\* A domain has at most one request between the pop and its completion: the
\* timer the pop sets must hold the queue until the coroutine has registered
\* itself in transferring, because a popped request holds no transfer slot.
OneInFlight ==
  \A d \in live :
    /\ \A i, j \in Popped(slot[d]) : i = j
    /\ Len(slot[d].transferring) <= 1
    /\ Popped(slot[d]) = {} \/ slot[d].transferring = <<>>

\* While the configured floor is within the spacing (5.0 s against 5.1 s), the
\* guard never refuses: no request is dropped unannounced by record_dispatch.
GuardNeverRefuses ==
  minGap <= Delay + Slack => \A d \in Domain : HeadIsTask(d) => DispatchAllowed(d)

\* Whatever the spacing does, the guard lets two requests of a domain through
\* no nearer than the floor, purged histories included: dispatch.py:237-243.
GuardFloor ==
  [][\A d \in Domain :
       Len(slot'[d].transferring) > Len(slot[d].transferring) /\ stamped[d] # 0
         => now + Slack >= stamped[d] + minGap]_vars

\* No lost wakeup: a slot with queued requests has a timer pending, or a
\* request whose completion will call _process_queue again.
NoStrandedQueue ==
  \A d \in live :
    slot[d].queue # <<>> => slot[d].later # 0 \/ slot[d].transferring # <<>>

PagePop(d) ==
  /\ d \in live'
  /\ Popped(GetSlot(d)) = {}
  /\ \E i \in Popped(slot'[d]) : slot'[d].ready[i] = "page"

\* A page is popped no sooner after the domain's previous completion than the
\* Crawl-delay in _pending_delays, even on a slot the collector dropped and
\* rebuilt with the default delay: robots.py:253-259, README.md:52-57.
CrawlDelayAfterRebuild ==
  [][\A d \in Domain : PagePop(d) /\ done'[d] # 0
                         => now >= done'[d] + pending[d]]_vars

\* "A value inside the cap is applied to slot.delay and so gets the same
\* completion-anchored guarantee the 5.0s rule has" (config.toml:72-73): this
\* for every Crawl-delay that a host of the domain has asked for.  Not so for two
\* hosts that ask for different ones.
EveryCrawlDelayHonoured ==
  [][\A d \in Domain : PagePop(d) /\ done'[d] # 0
                         => now >= done'[d] + asked[d]]_vars
===============================================================================
