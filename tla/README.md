# A verification of ntu-sa-crawler

The repository is a polite broad web crawler built on Scrapy: several processes
("shards"), each crawling its own set of registered domains with at most one
request per domain and 5 seconds, for 48 hours, through kills and restarts.
This directory holds TLA+ modules of its concurrent parts, the TLC
configurations that check them, and TLAPS proofs of what the parts promise for
every value of their constants.

Scrapy, queuelib and Twisted are not in the repository. What the crawler
overrides or calls of them is modelled from that use and marked `external` in
`PROJECT.json`.

## The system

| Component | State | Operations | What is hard | What makes it correct |
|---|---|---|---|---|
| `crawler/downloader.py`, with Scrapy's slots | per domain: queue, `lastseen`, `delay`, `latercall`, `transferring`; `_last_complete` | enqueue, pop, `_download` up to its await and after it, timer, collector | callbacks run late and in any order; the collector drops a slot with its clock | two writes to a domain at least the delay apart; no queue without a wakeup |
| `crawler/dispatch.py` | `_last_out`, `_min_gap` | `record_dispatch` | the dict is purged while it is in use | the guard alone keeps the floor, and never has to refuse |
| `crawler/middlewares/robots.py` | three `LocalCache`s, `_inflight` | `robot_parser`, `_parse_robots`, `_robots_error`, `process_request_2`, `_on_robots_parsed` | eviction, awaits, shared fetches, failures with backoff | only allowed pages pass; one fetch per host; every waiter is woken; a failure expires |
| `crawler/squeue.py`, with queuelib | `info.json`, chunk files, head, tail, size | open and recover, push, pop, save, close | kills between and inside writes | nothing queued is lost, order is kept |
| `crawler/pqueue.py` | the ring, its members, the queues | push, pop with a bounded scan | stale entries, revived entries, every domain busy | every queue has exactly one entry; no waiting domain is overtaken |
| `crawler/scheduler.py` | `_size`, the caps, `active.json` | enqueue, next, checkpoint, open, close | size tracked apart from the queues; caps with an exemption; metadata saved in slices | the size is exact, the caps hold, a kill forgets no queue |
| `crawler/spiders/broad.py` | `queued_per_domain`, `crawled_per_domain`, `seen_domains` | `_maybe_follow`, `_inject_handoff`, `_seed_requests`, `parse`, `_release_queued` | counters released by signals of other components | counts are given back; only own domains are admitted |
| `crawler/dupefilter.py` | the Bloom filter, `requests.bloom` | `request_seen`, `url_seen`, save, load | saved by another timer than the frontier | what it remembers is never lost elsewhere |
| `crawler/middlewares/redirect.py` | none | `_build_redirect_request` | attributes inherited by the target | the target is filtered again and its owner checked |
| `crawler/extensions/shutdown.py` | none | `_stop` | the close waits for what is in progress | the close comes |
| `crawler/handoff.py` | segment files, `_seq`, offsets | `send`, `poll` | two processes share a directory, both may be killed | no line lost, replay only after a kill, finished segments go |
| `ops/run_hour.sh` | per shard: restart count, fast crashes, the snapshot it reads; the script's phase | run, decide, pause, relaunch; sample, stop, reap | which exits count as a crash; loops decide alone while the script stops the run | politeness across processes; a frontier is moved aside only when it is broken; the run ends, and only for a reason |
| `crawler/extensions/runstats.py` | `stats-N.json` | snapshot | it may fail, and is read by another process | a stale snapshot never restarts a finished shard |
| `crawler/logwriter.py` | gzip members, `_since_flush` | write, flush, close, `read_lines` | kills inside members, headers found by chance | what is on disk is read, whole and in order |
| `ops/verify_politeness.py` | `by_domain`, `skipped` | `load_events`, `main` | several files, clocks that step | exit 0 means that the run was polite |
| `seeds/build_seeds.py`, `seeds/probe.py` | the picked candidates, the semaphore | `select`, `run` | rounding, answers in any order, redirects | the best of each TLD, as many as asked; rank decides |

How they interact: a link found by `parse` passes `_maybe_follow`, then is
either appended to another shard's inbox or admitted (Bloom filter, queued
count) and pushed to the frontier. The engine takes requests from the
frontier; each passes the robots.txt middleware, which may fetch robots.txt on
the same domain slot, waits in the downloader's slot for the domain's timer,
passes the guard and is written. `request_left_downloader` and
`request_dropped` give the queued count back. Timers save the Bloom filter and
the queues' metadata. Everything in one process runs on one event loop;
processes share only the inbox directories.

Not modelled: `filters.py`, `extract.py` (pure string functions: a URL is a
member of a set and what a page links to a free choice), the figures
`runstats.py` samples and `logformatter.py` (output), `config.py` (values, which
are constants here), `verify_robots.py`, `verify_no_refetch.py`, `build_pages.py`
and the report programs (they add up or print what the logs
say, in one pass and with no state but sums), the parsing of the Tranco list.
Of the modelled components: `peek` of the frontier, false positives of the
Bloom filter, copying logs and sampling in `run_hour.sh`, I/O errors of the
handoff other than those of its offsets.

## Modules

| Module | Models | Correspondence |
|---|---|---|
| `Politeness` | the contract: writes to a domain at least `Gap` apart | abstract |
| `Downloader` | downloader, guard, Crawl-delay, the pause of the supervisor | `slot[d]` is Scrapy's `Slot`; `slot[d].ready` holds the callbacks of the domain that the loop has yet to run (`"timer"` is `_latercall`, a kind is the coroutine of a popped request). `Dispatch` is `_download` up to its first await, `Complete` its `finally` block with `_record_completion` and `_process_queue` |
| `Downloader_proofs` | theorems about `Downloader` | |
| `DurableQueue` | the promise of one frontier queue: first in, first out, and a kill takes it back to an earlier place of its `log` | abstract |
| `DiskQueue` | `squeue.py` over queuelib's files | `mem` is `info` in memory, `info` the file, `chunk[n]` the records of file `q<n>`; records are numbered as they are pushed, and a record's place is its chunk and its index |
| `DiskQueue_proofs` | `DiskQueue` implements `DurableQueue`; the tracked size; types | |
| `Handoff` | the inbox of one shard | `segment[<<s, n>>]` is `from-s.n.log`; `poll` is `PollStart`, one `PollSegment` per segment and `PollEnd`, because senders and kills come between |
| `Inbox` | `_drain_handoff` over `Handoff` | extends `Handoff`: each `Drain...` action is one of its actions with what the spider does beside it; `urls` is what `poll` returned and the loop has yet to inject |
| `Inbox_proofs` | theorems about `Inbox`, and so about `Handoff` | |
| `Robots` | the robots.txt cache | `task[r]` is where the coroutine of a request is; caches are sequences, oldest entry first |
| `Robots_proofs` | theorems about `Robots` | |
| `Frontier` | the ring and the capped scheduler | `pqueues`, `ring`, `members`, `size` are the attributes of these names; `popped[s]` is what a queue has handed out since it was last saved, which is exactly what a kill may bring back (`DiskQueue` shows it for one queue) |
| `FrontierAlone` | the frontier under any caller | |
| `Queues` | `DiskQueue` and `FrontierAlone`, which share no state, for one run | `level` says which of the two the behaviour is of; the other stays in its initial state |
| `Frontier_proofs` | what each operation of `Frontier` does to the ring, the queues, the size and what may come back, which `Shard_proofs` uses too; theorems about `FrontierAlone` | |
| `Shard`, `ShardMC` | a URL's life in one shard, composed on `Frontier` | `_maybe_follow`, `_inject_handoff`, `_seed_requests`, `parse`, redirects, robots.txt decisions, both checkpoints, shutdown, kill, restart |
| `Shard_proofs` | theorems about `Shard` | |
| `Checkpoint` | the cursor of the frontier's checkpoint and the timer of the filter's | `queues` is the list `_iter_savable` would yield, `cursor` the attribute; `sliceIn` and `bloomIn` are the two looping calls. `age[q]` counts the ticks a queue has not been saved for, `delays[q]` what opened and dropped queues and failed ticks account for of it |
| `Domains` | the per-domain caches with eviction | `crawledPer` and `seenDomains` are the `LocalCache`s, oldest entry first; `held[d]` counts the requests of a domain from their creation to their end, `carrying[d]` those with `new_domain`. A request is parsed (`Downloaded`), ends without (`Ended`: dropped, failed), is refused by robots.txt without a signal (`Refused`), or goes on as the request of a redirect's target (`Redirected`); `RobotsLeft` is the signal of a robots.txt fetch |
| `Supervisor` | `run_hour.sh`, with crawls seen from outside | `loop[<<k, i>>]` is `run_shard i` of the k-th script, `stats[i]` the reason in `stats-i.json`; `Exit` and `Crash` are the two branches after `rc=$?`, each up to its `sleep` or `return` |
| `Supervisor_proofs` | theorems about `Supervisor` | |
| `LogFile` | `logwriter.py` | `disk` is the file in cells: headers, halves of lines, trailers; `ReadLines` is `read_lines` |
| `Verify` | `verify_politeness.py` over logs of any crawl | `LoadRow` is one turn of `load_events`, `Judge` the rest of `main` |
| `SeedSelect` | `select` of `build_seeds.py` | `TakeQuota` and `TopUp` are one turn of its two loops |
| `SeedProbe` | `probe.py` | a task waits, holds the semaphore, has answered |
| `Parts`, `PartsMC` | the six modules above it that share no state (`Checkpoint`, `Domains`, `LogFile`, `Verify`, `SeedSelect`, `SeedProbe`), for one run and one proof module | `part` says which of them the behaviour is of; the variables of the others are `NA`. Each property is that of the part that runs |
| `Parts_proofs` | theorems about the six, one inductive invariant each | |

How they fit: `Shard` extends `Frontier` and `Inbox` extends `Handoff`. What
`Shard` abstracts is the subject of a module of its own: its free choice of
the queue that is saved is `Checkpoint`, its caches that never evict are
`Domains`, the URLs that arrive for it are `Inbox`, its kills and restarts are
`Supervisor`'s, of which `Downloader` has only the pause. `Verify` assumes
nothing that `Downloader` proves: it is the judge of both.

Each fault that a mutant installs is an operator next to the one it replaces,
with a comment that begins with "Fault:". No specification uses one.

Conventions: a kill is an action that empties what is in memory and keeps the
files. History variables are listed as such and no guard reads them, but for
bounds. `full` in `Dispatch` and `Complete` says that a shared dict has
reached its threshold, which depends on domains outside the model and so is
free.

## What is checked

| Run | Question | Result |
|---|---|---|
| `Downloader` | Is the spacing kept, the queue served and the guard silent, across late callbacks, collections, purges, Crawl-delays, restarts? | holds |
| `Queues` | Does the queue of a domain recover exactly, wherever a kill falls? Is the ring of all of them complete and fair, the size exact, the frontier bounded? | holds, the first from the first checkpoint on |
| `DiskQueueEarlyKill` | ... and before the first checkpoint? | refuted |
| `Inbox` | Does a URL that was sent arrive, at most once, and are finished segments collected, through rotations, limits, kills and restarts of either side and offsets that were not saved? | holds, but for one poll's URLs per kill and the lines that `HandoffLimit` shows |
| `HandoffLimit` | Is a segment deleted only when it has been read to the end (`handoff.py:33`)? | refuted |
| `Robots` | Do only allowed pages pass, are fetches shared, do failures back off and expire, is everybody woken? | holds |
| `RobotsForgotten` | Does a failure expire when its stamp was evicted? | refuted |
| `Shard` | Is nothing both remembered and lost, nothing downloaded more often in a process than it was on its frontier at the start or admitted since, only own domains admitted, the count accounted for, the shutdown finite? | holds |
| `Supervisor` | Does only a crash loop end a shard, only a broken frontier go, a finished shard stay finished, is a working shard left alone, does the run end? | holds |
| `SupervisorPausedStart` | Does a script refuse to start beside another (`run_hour.sh:105`)? | refuted |
| `Parts` | Does the saver reach every queue, and in a pass that is disturbed no later than the disturbances account for (`SavesSpread`)? What are page limit, exemption and domain total worth with caches that evict (`PagesBounded`, `EvictionCostsOne`)? Is the log read as far as it is on disk (`LogsSurvive`)? Do the exit codes of the check mean what they say (`VerdictTrue`)? Are the seeds the best there are (`BestSelected`, `BestKept`)? | holds, as bounded there |
| `SaversMeet` | Do the two savers stay apart for the whole run (`dupefilter.py:105`, `config.toml:558`), with the numbers of `config.toml`? | refuted |

Each module states its type invariant. A theorem proves it in `Downloader`,
`Supervisor`, `Robots`, `FrontierAlone`, `Shard`, `Inbox` and `DiskQueue`; only the
run `Downloader` checks it too.

### What the refuted runs show

- `DiskQueueEarlyKill`: `close()` writes `"clean": true` and nothing removes it
  at the next open. A kill before the queue's first `save_info` leaves the flag
  with metadata that no longer describes the chunks, and the next open skips
  the scan.
- `HandoffLimit`: the line loop stops at `limit` without setting `truncated`,
  and the deletion at `handoff.py:275` looks only at `at_end`.
- `RobotsForgotten`: `_parsers` and `_failed_at` evict independently, and a
  `None` parser without a stamp takes the branch that returns `None`.
- `SupervisorPausedStart`: the supervisor is killed, its loop is in its pause,
  `pgrep` finds no crawl, a second script starts, the loop wakes.
- `SaversMeet`: the frontier is saved in a slice every 900 / 20 = 45 s. The
  filter's loop starts after 450 s and waits an interval before its first save:
  at 1350 s, the thirtieth tick of 45 s, and then every twentieth, both savers
  run. Half an interval kept them apart while the frontier was saved at once;
  in slices, an offset does so only if it is no multiple of the slice's period.

### Other places where text and code differ

No run is spent on these. The models contain the behaviour, and the properties
above are stated so that they say what the code does instead; three of the
claims are kept as definitions that a configuration can name.

- Crawl-delay: `_pending_delays` keeps one value per registered domain and the
  host parsed last overwrites it, while `slot.delay` only grows. Two hosts of a
  domain ask for 3 and then 2; the slot has 3 until the collector drops it, and
  the rebuilt slot is given 2 (`config.toml:72`;
  `EveryCrawlDelayHonoured` in `Downloader`).
- Disk queue: `save_info` rewrites `info.json` in place; a kill inside leaves a
  file that cannot be read (`squeue.py:1`; `CanReopen` in `DiskQueue`).
- Queued count: a page refused in `process_request_2` was never in the
  downloader and was not dropped by the scheduler, so neither signal releases
  its count (`broad.py:149`; `SilencedOnlyWhileHeld` in `Shard`).
  `QueuedAccounted` counts these requests (`unreleased`).
- Resharding: `_inject_handoff`, `_maybe_follow`, seeds and redirects ask
  `shard_of`; `CappedScheduler.open` does not. A frontier saved with two shards
  and resumed with three holds domains of other processes (`broad.py:237`).
- Domain caches: `LocalCache` evicts by insertion and makes room even for a key
  it holds, so the domain crawled longest loses its count first
  (`config.toml:541`); the second admission of an evicted domain adds one to the
  total (`broad.py:126`). `PagesBounded` and `EvictionCostsOne` are what is left.
- Redirects: the target keeps the meta of its source, `new_domain` too, so one
  exemption "worth a single request" (`broad.py:116`) takes the source and each
  of its targets in turn past a full frontier, three requests with
  `redirect_max_times = 2`. `EvictionCostsOne` says that no two of them are on
  their way at once. The target takes no place in `queued_per_domain` and gives one back when
  it leaves the downloader, as a robots.txt does; so more than
  `max_queued_per_domain` requests of a domain may be on their way (`uncounted` in
  `PagesBounded`). A domain that only redirects led to is crawled and neither
  in `seen_domains` nor in the total (`broad.py:126`).
- Robots.txt: the coroutines that wait for a fetch await one `Deferred`
  (`robots.py:162`), and each await consumes its result. A waiter that is handed
  `None` is refused although the rules were read (`robots.py:200`, "wake every
  waiter").
- Filter: its loop is started after the offset and then waits an interval before
  its first save, so a kill in the first 1350 s loses more than an interval
  (`config.toml:326`).
- Pause: a script ends, another is started with `RESUME=1`; its crawls begin at
  once (`config.toml:243`).
- Fast crashes: a crash, a close for memory, a crash and a crash are the "three
  consecutive" of `run_hour.sh:311`. `AsideTakesThree` is what holds.
- Stop: a crawl closing on SIGTERM dies with another exit code; its loop, which
  got no signal, pauses 60 s and starts another within the 600 s of grace, to be
  killed at its end (`run_hour.sh:456`).
- Logs: a member cut by a kill is followed by another. The decoder reads across
  the boundary and fails with the block it was given; if earlier blocks had
  yielded lines, the member is not decoded again (`logwriter.py:109`). The second
  decoding of a damaged member stops at bytes that look like a header, and the
  rest is taken for a member that cannot be read (`logwriter.py:163`). Hence the
  two premises of `DamagedRecoveredInBlock`. `zcat` in `report_metrics.py:53`
  reads no member behind a cut one, `read_lines` does: the distinct URLs are not
  those of the total.
- Politeness check: a warning, and a verdict over two clocks, where
  `verify_politeness.py:93` promises none; monotonic stamps of two boots in one
  log are compared as if they were of one. `VerdictTrue` excludes both.
- Seeds: quotas of one or more, rounded up, may fill the list before the last
  TLD has a slot (`build_seeds.py:146`); `allow_redirects=True` asks a domain
  twice (`probe.py:14`).
- `dispatch.py:106-108` says that the offline check reads the wall clock; it
  reads the monotonic column now. The docstring of `verify_no_refetch.py`
  describes a path by redirects that `redirect.py` has closed.
  `verify_robots.py` exits 0 when no robots.txt could be fetched.
  `config.toml:531` says the backoff reaches its cap "after 5 consecutive
  failures"; with 300 s doubling to 14400 s (`robots.py:119`) it is the seventh
  that waits 14400 s.

### Bounds and why they are enough

- `Downloader`: one domain. Two domains touch each other only through the
  clock and the purges, and both are free actions here (`PurgedByOthers`,
  `full`); the proofs cover any set of domains. `MaxTime` 7 with `Delay` 1 and
  `RestartPause` 2 leaves room for a pop, a late coroutine, a completion, a
  collection, a rebuilt slot and a restart. `MinGaps` holds a floor within the
  delay and one above it, so that the guard both passes and refuses.
- `Queues`, the files: 5 records over chunks of 3, so that pushes, pops and kills cross a
  chunk boundary and a saved tail can lie inside a chunk behind places that were
  popped since: with chunks of 2 a tail inside a chunk has one place behind it
  at most, and which of them comes back is never in question. Five records
  handed out include some that a kill has brought back. The theorems hold for
  every chunk size and number of records.
- `Inbox`: two senders, three lines, segments of 3 lines read in chunks of 2 with
  a limit of 2, so that a segment is longer than a chunk and a chunk fills a
  poll: polls stop inside a segment and between segments. One kill of the
  receiver, one failed save, one kill and restart of a sender, in any order. The
  bound on lines cuts the last line a sender may begin. `HandoffLimit` needs one
  sender and no kill.
- `Robots`: two hosts over caches of one entry, so that both caches evict, and not
  always the same host; three requests, so that two wait for the fetch of a
  third and are handed different values; `TtlMax` reached by the second
  failure. `RobotsForgotten` needs four hosts over three entries.
- `Queues`, the ring: four slots, three requests, `ScanLimit` 2, so that the scan stops
  at its limit, meets stale and busy entries and falls back to the least busy;
  a cap of 1 (2 for exempt requests) and 3 queues, so that each refuses; three
  processes, so that a resumed frontier is killed again. Slots and requests
  are interchangeable; no property of this run is a liveness property, so the
  symmetry is sound.
- `Shard`: two own domains, one foreign, four URLs, one of them a seed; two
  processes on the JOBDIR; one request in hand at a time. With two in hand the
  properties were found to hold as far as the search went, but the run does
  not end in minutes. The caps are crossed in both directions. The last process
  is not saved, stopped or killed: what would follow needs one more.
- `Domains`: three domains over caches of two, so that both evict and a domain
  comes back, one of them a seed; five requests, so that a domain can be evicted,
  readmitted and crawled again, or redirected to by another; each domain gives a
  place back for one robots.txt. The two that are no seeds are interchangeable.
- `Checkpoint`: four queues and three slices of one and of two queues (with a list that grows
  from three to four the size of a slice changes); `MaxDelay` 3 allows three openings or
  failures, or a drop and one of them, between two saves of a queue. `SaversMeet` has
  `config.toml`'s numbers in seconds.
- `Supervisor`: two shards, of which one is `Steady`, that is, never crashes or
  closes for memory: what happens to it happens because of the other.
  `Duration` 7 with rounds from 0 to 7 long, a fast crash below 1 and a long round
  from 2; `MaxRestarts` 5 leaves room for three fast crashes with a close between
  them. Two scripts only in `SupervisorPausedStart`.
- `LogFile`: six lines, a flush at every other one, up to three members; a kill may
  come at any cell. A `Block` of 8 cells is above the length of a short member
  and below that of a long one. The fourth line looks like a header.
- `Verify`: three dispatches of one domain over two files, one step of the wall
  clock by more than `Limit - Tolerance` may hide. Domains are judged apart.
- `SeedSelect`: every pool of up to three candidates in each of four TLDs and
  every count up to seven, a share of 35 percent as in the code.
- `SeedProbe`: four lines of three domains, two permits.

`CHECK_DEADLOCK FALSE` stands where the system may stop: the bounds on time,
lines or processes are used up, or a torn `info.json` keeps the queue closed.

### Fairness and why the code justifies it

- `Inbox`: weak fairness of `_drain_handoff`, whose looping call (`broad.py:186`)
  goes on because the function catches what `poll` and one URL raise
  (`broad.py:208-232`). Senders need none: `OldSegmentsGo` speaks of segments
  whose sender has moved on, `Delivered` of lines that were sent.
- `Supervisor`: weak fairness of `Progress`: sleeps end, timers fire, the
  sampler and the wait after SIGTERM see their deadlines. A crawl that has begun
  to close is through within `Drain` of its deadline, by the download timeout;
  one whose `_stop` raised is not assumed to end at all.
- `Robots`: a fetch ends, if only by `DOWNLOAD_TIMEOUT`, which is a failure
  (`Fail`); the loop runs ready coroutines (`Store`, `Resume`). A fetch is not
  assumed ever to succeed.
- `Shard`: weak fairness of `Progress`, that is, of the end of what is in
  progress and of the close that follows. Nothing is assumed of new work,
  checkpoints or restarts.
- `Downloader`, `Queues` and `Parts` state safety only; `NoStrandedQueue`
  is the safety half of "a queued request is sent".

### Assumptions of the models

- `Robots`: of the coroutines that await the `Deferred` of a fetch, one at least is
  handed the value it was fired with, and the others that or `None`, since each
  adapter between Twisted and asyncio consumes the result. Which ones is left open.
- `Handoff`, `Inbox`: lines have one length, and none is longer than
  `read_bytes`. Of the I/O errors, which `send` and `poll` log and survive, only
  the failed save of the offsets is modelled.
- `Shard`: the Bloom filter has no false positives; `seen_domains` and
  `crawled_per_domain` do not evict (`Domains`).
- `Domains`: all domains are the shard's own, and how often a request is redirected is
  left open. At most `Backlog` responses of a domain wait for `parse`, which is
  where the page limit is read late. A robots.txt request may be of any
  domain and come at any time while some request is on its way, since it may be redirected and is
  fetched again after a failure or an eviction; the bound counts those that
  gave a place back.
- `Checkpoint`: both timers start with the crawl, and a save takes no time of
  the model. A queue that opens may come anywhere in the list, which allows for more than the two levels of
  dicts that `_iter_savable` walks.
- `Supervisor`: a crawl whose shutdown timer raised is not closed by another
  extension later; a crawl that closes on a signal writes "shutdown". A closing
  crawl whose last snapshot failed leaves an earlier reason or none, and with
  none the loop ends, work left or not (`run_hour.sh:269`).
- `LogFile`: a kill does not cut inside a header or trailer; the decoder loses
  what it had of the block in which it fails, as `zlib` raises without output.
- `Verify`: integers for seconds, `Tolerance` below `Limit`; the true time is a
  history column that the program does not read.
- `DiskQueue`: a kill inside queuelib's deletion of an empty queue is not
  modelled.
- `Downloader`: `_pending_delays` does not evict.

## What is proved

All theorems are about the specifications that the runs check, for every value
of the constants that the named assumptions (`ASSUME` in the module) allow. Each
proof module has an inductive invariant, a lemma for each action, and theorems
that follow. What a theorem assumes beyond the module's assumptions is in its
statement, and said here.

### Downloader

`Downloader_proofs` proves, for any set of domains, any delay, floor, slack,
cap and bound that satisfy the named assumptions of `Downloader`:

| Theorem | States |
|---|---|
| `Invariance`, `TypeCorrect` | `Spec => []Inv`, `Spec => []TypeOK` |
| `OneInFlightHolds` | one request of a domain between pop and completion |
| `NoStrandedQueueHolds` | a queue always has a wakeup coming |
| `GuardNeverRefusesHolds` | with the floor within the delay, the guard is silent |
| `Polite` | `Downloader` implements `Politeness` |
| `GuardFloorHolds` | the guard alone keeps its floor, whatever the spacing does |
| `CrawlDelayHolds` | a slot that was dropped and built again keeps the Crawl-delay |

The assumptions are those of the configuration: a positive delay, a cap on
Crawl-delays no less than the delay, a collector's age and a restart pause no
less than that cap (`config.toml:75-79`, `245-255`), and a floor no greater
than the pause.

The argument is the one `downloader.py:44-56` makes in prose, with what it
leaves out. `OneInFlight` is not inductive: a popped request is in no
collection until its coroutine starts, and what bars a second pop in that
window is the timer the pop has set. `SlotShape` therefore describes the ready
callbacks of a slot: none, a timer, a coroutine, or a coroutine followed by a
timer, and in the last two cases nothing is in transfer and `later` is set; a
timer that expires early queues behind the coroutine. `Spacing(d, t)` says of
the last write (and of the guard's last stamp) that it is `Delay` in the past
whenever the next pop or write could happen, that a live idle slot has a
`lastseen` no earlier than it, and that a slot which is gone was dropped only
once it was in the past. `DomainInv` joins the two per domain, each action
touches one domain, and `Frame` carries the others over. `Polite` needs the
invariant for the one step that writes; `GuardFloorHolds` strengthens it by
`Stamps`, which says that the dict remembers each stamp as long as it can
refuse, purged or not. `CrawlDelayHolds` strengthens it by `Delays`: a live slot
on which pages wait has a delay no less than the pending Crawl-delay, and a slot
that was dropped was dropped `MaxCrawlDelay` after the domain's last completion,
because the collector's age is no less; so the rebuilt slot, whatever its delay,
is due.

### Supervisor

| Theorem | States |
|---|---|
| `CrashLoopOnly` | a loop gives up only after short rounds have used up its restarts |
| `HealthyKept` | before the deadline nothing but its own end stops a loop that can go on |
| `FinishedStays` | with one script, only a crash or a close for memory is followed by another crawl |
| `AsideTakesThreeCrashes` | with one script, a frontier is moved aside only after three fast crashes |
| `TypeCorrect` | types, bounds of the counters |

`Counters` relates a loop's restarts to the short rounds it has had (all but the
first followed one). `Timely` bounds the age of a crawl while its script samples: a
running one is no older than `Duration`, a closing one than `Duration + Drain`;
`HealthyKept` needs it because the script's deadline lies `Grace` beyond and
`Drain < Grace`. `OwnDump` says that no reason of an earlier round can be read while
a loop lives, `OwnCount` that the directory has seen the crashes its loop counts.
The last two need the shard's files to be the loop's own, hence the hypothesis
`Script = {1}` of two theorems: `SupervisorPausedStart` shows a second script that
starts beside the first, and the two would write one `stats-i.json`.

### Robots.txt

| Theorem | States |
|---|---|
| `OneFetch` | a host has one fetch at a time |
| `OnlyAllowed` | a page goes out only if the last fetch of its host's robots.txt succeeded and allows it |
| `BackoffKept` | a host that failed n times in a row is left alone for the wait of n failures, unless evicted |
| `FailureHeld` | a failure refuses pages no longer than its wait, unless evicted |
| `TypeCorrect` | types, bounds of the caches |

`Flight` ties `_inflight` to the coroutines that fetch. `Truth` says that what a
cache holds is what the last fetch brought, and what a woken coroutine holds that or `None`; its third part,
`WokenFirst`, is what makes it inductive: while a coroutine has been woken and has
yet to run, no other of that host is between fetch and parse, so its answer
cannot be overtaken. `Held` ties both caches and the history of failures of a host
that was never evicted.

### Frontier

| Theorem | States |
|---|---|
| `RingIsComplete` | each live slot has one place in the ring |
| `SizeIsExact` | `_size` is the number of queued requests |
| `Bounded` | the frontier passes neither the cap of exempt requests nor its number of queues |
| `Fair` | a waiting domain with nothing in flight keeps its place; a served one goes behind it |
| `TypeCorrect` | types |

The invariant is `Kept` (types and finiteness), `RingComplete` and `Counted`. Sizes of queues are added up by a fold of the
community modules; the lemmas about it go by the finite-set theorems of the
library. `Fair` follows a slot through the turns of the pop's scan, which may
drop stale entries and move busy ones behind.

### Shard

| Theorem | States |
|---|---|
| `Remembered` | what the Bloom filter remembers is queued, in flight or has ended |
| `LetInOnce` | a process admits a URL once, and downloads it no more often than it was on the frontier at the start or admitted since |
| `Accounted` | `queued_per_domain` is what was let in and has not ended, or ended without a signal |
| `OwnedOnce` | what is held is of a slot the shard owned in some process |
| `OwnOnly` | with the same shards in each process, only own domains are held |
| `TypeCorrect` | types, `max_queued_per_domain` |

A slot's `File` is what it has handed out since it was saved, followed by what is
queued: what a kill may bring back. `Once` says that no file holds a URL twice,
that what was started is not queued, and that whatever this process let in is in
its filter, which is what the next admission asks. `Memory` speaks of the saved
filter as well as of the one in use, so that a kill, which goes back to the saved
one, keeps it. `OwnOnly` has a hypothesis, that `OwnedIn` is constant: the frontier does
not ask who owns what it resumes (see Resharding above), and `OwnedOnce` is what
holds without it.

### Inbox

| Theorem | States |
|---|---|
| `LossIsBounded` | a line that was sent is injected or can be, but for one poll's lines per kill and those of segments deleted after a poll stopped at its limit |
| `SecondTimeNeedsBoth` | a line is injected again only after a failed save and a kill |
| `NonePassedOver` | a poll that returns less than its limit has taken from every segment that had lines |
| `TypeCorrect` | types, offsets within their segments, polls within their limit |

`Names` is what the rest depends on: of each sender's names in use anywhere (files,
offsets in memory and on disk), the highest is in the directory. `poll` never
deletes a sender's newest segment and a restarted sender numbers from the
directory (`handoff.py:148`), so no name is given twice and no new segment meets an
old offset. `Apart` says that a line is in one segment, in one place, `Offsets` that
the saved offset is behind the one in memory, `Reads` where a line is that was read,
`Again` how often it can have been injected, by where it is. The count of
`LossBounded` is taken over the lines of each segment as `poll` moves on.

### Disk queue

| Theorem | States |
|---|---|
| `KeepsPromise` | `DiskQueue` implements `DurableQueue` |
| `SizeIsExact` | the tracked size is the number of records still to be handed out |
| `TypeCorrect` | types |

All three assume `~EarlyKill`, that is, no kill between the open that follows a
clean close and the first checkpoint after it; `DiskQueueEarlyKill` shows why. `Owes(a)` says that the
queue owes the records after the first `a`: the chunk files from `lo` to `hi` are
there, all full but the last, the number of a record is that of its place plus an
offset that pushes and pops keep, and the saved tail is never ahead of the queue.
Push, save and close keep `a`, a pop takes it to `a + 1`, a kill to some `b <= a`:
the three steps of `DurableQueue`. A kill inside a write of `info.json` leaves nothing
readable, and the chunk files still hold everything that is owed. Counted
places become sizes by a bijection with an interval.

### Parts

The six parts share no variable, so each has an invariant of its own, which holds
while that part runs.

| Theorem | Part | States |
|---|---|---|
| `SavesAreSpread` | `Checkpoint` | wherever the cursor was left, an undisturbed pass saves every queue; in a disturbed one a queue is late by a tick for each queue opened and each tick failed, and a pass for each queue dropped |
| `PagesAreBounded` | `Domains` | the page limit of a domain is passed by what is on its way, once per eviction of the count, and by what took no place or gave one back for a robots.txt |
| `EvictionsCostOne` | `Domains` | an evicted domain is exempt once more per eviction, redirects carry no more exemptions than were granted, and the total is off by the evictions only |
| `SelectedBest` | `SeedSelect` | the best of each TLD, each once, as many as asked for or all there are |
| `KeptAreBest` | `SeedProbe` | the first candidates that answered well, in the order of the file |
| `VerdictIsTrue` | `Verify` | the exit code tells whether two dispatches were too close; 0 only if every row was compared |
| `LogsAreKept` | `LogFile` | a kill loses less than a buffer; the reader returns written lines only, in order, each once, and all those it can |

They hold for any number of queues and slices, domains and cache entries, TLDs,
candidates and permits, logs, rows and keys, lines, members and block sizes; the
sets of domains, TLDs and logs are finite, and `NA`, the missing column, is no
integer.

- `Checkpoint`: `Swept` says that a queue which lies within k slices behind the cursor,
  round the end of the list (`Behind`), was saved in the last k quiet ticks; with as
  many as make a pass, the slices cover the list. For passes that are disturbed,
  `Reached` bounds the distance of the cursor from a place, round the end of the list, by
  the slices that come before the queue there is late. A slice takes its size from
  the distance and one tick from what is left; an opened queue adds at most two to
  the distance (the place moves on and the list is longer), and a tick more is a
  slice more. With slices of one that is not enough for a place
  behind the cursor, and the last part of `Reached` says what is: such a place has waited
  less than its distance from the cursor, and the list is still no longer than there are
  slices. A dropped queue may move the cursor anywhere, and a pass more is
  enough from anywhere (`ReachedFresh`).
- `Domains`: `Within` adds up, for one domain, what was crawled, what waits to be
  parsed, what is on its way and what its evictions are worth. A place may be
  given back for a request that took none, and then more are held than
  `queued_per_domain` counts; `uncounted` bounds by how many. `SeenInv` ties the total to the entries of the cache
  and the evictions, by a sum over the domains, and `Carried` the requests with
  `new_domain` to the exemptions granted.
- `SeedSelect`: `Best(p, m)` says that the picks `p` are the first `m[t]` of each TLD.
  Each stage of the two loops has its `m`: what the round has given so far
  (`QuotaDepth`), then how far the second loop has gone behind it (`TopUpDepth`).
- `SeedProbe`, `Verify`: both sort. The model gives an element its place by counting
  those before it; that this lists a finite set in order (`ArrangedIs`) follows from a
  bijection with an interval, and minimum and maximum (`LeastIs`, `GreatestIs`) with it.
- `Verify`: there is a function `g` from the rows filed to the places of the stamps
  that is one to one (`Files`), so no stamp is lost, made up or counted twice while
  the logs are loaded in any interleaving of rows. A gap that is too small between
  neighbours of the sorted stamps is then two rows, and two rows too close
  are, or have between them, such neighbours.
- `LogFile`: `Chained` describes what the file and the buffer hold, one behind the other:
  a second half follows its first, a line or a trailer follows a header or a whole line, numbers
  grow. A kill cuts the buffer off, and what is left of a chained file is
  chained. `Closed` says where the lines of a closed member are. For the reader,
  `Reading(f, w, at)` is an invariant of its loop: what has been yielded has smaller
  numbers than all that follows a header ahead, and every line is out of every member
  passed that can be decoded to its end (`Whole`). The reader is a recursive function
  over the members; that it is defined at all, and that the invariant holds of its
  value for every file, goes by the least number of members without, since an
  induction rule cannot be instantiated here.

### What is only model-checked

- Liveness: it rests on fairness and ENABLED, which the prover does not reach.
  `Delivered` and `OldSegmentsGo` of `Inbox`, `EveryRequestDecided` of `Robots`,
  `ShutdownEnds` of `Shard`, `RunEnds` of `Supervisor`.
- The five refuted claims, which are false.

Every safety invariant and action property that a passing run checks is stated by
a theorem.

## Plan

Done, in the order of their weight: the downloader with its contract and
proofs; the disk queue with its promise; the handoff; the robots.txt cache; the
frontier; the shard composed on the frontier; the supervisor; the checkpoint;
the spider's loop over the inbox; the caches with eviction and the changed
number of shards; the logs with their readers; the offline check of politeness;
the seed tools.

To come:

1. The eviction of `_pending_delays` in `Downloader`.
2. Starvation between senders over a run without bounds: `PassedOverOnlyAtLimit`
   says what one poll does.

## Running

```
tlc -config Downloader.cfg Downloader
tlc -config Queues.cfg Queues
tlc -config Shard.cfg ShardMC
tlc -config Parts.cfg PartsMC
tlc -config HandoffLimit.cfg Handoff
tlapm Downloader_proofs.tla
tlapm Supervisor_proofs.tla
tlapm Robots_proofs.tla
tlapm Frontier_proofs.tla
tlapm Shard_proofs.tla
tlapm Inbox_proofs.tla
tlapm DiskQueue_proofs.tla
tlapm Parts_proofs.tla
```

The other configurations name their module, up to a suffix. Every run ends
within three minutes with two workers, each proof module within fifteen.
