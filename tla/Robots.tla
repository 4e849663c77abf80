--------------------------------- MODULE Robots ---------------------------------
(***************************************************************************)
(* crawler/middlewares/robots.py: the robots.txt cache, its failures and   *)
(* the fetches that several requests share.  (The Crawl-delay half of the  *)
(* same class is in module Downloader.)                                    *)
(*                                                                         *)
(* Every request runs robot_parser as a coroutine, then process_request_2. *)
(* A parser stands for its answer on the page in question; what a host     *)
(* answers may change from one fetch to the next.                          *)
(***************************************************************************)
EXTENDS Naturals, Sequences, SequencesExt

CONSTANTS
  Host,
  Request,     \* coroutines; one that has been decided may ask again
  CacheSize,   \* limit of the three LocalCaches
  Ttl,         \* ROBOTS_FAILURE_TTL
  TtlMax,      \* ROBOTS_FAILURE_TTL_MAX
  MaxTime,     \* bound: the clock stops here
  MaxFetches   \* bound: robots.txt fetches started

ASSUME RobotsAssumption ==
  /\ CacheSize \in Nat \ {0}
  /\ Ttl \in Nat /\ TtlMax \in Nat /\ Ttl <= TtlMax
  /\ MaxTime \in Nat /\ MaxFetches \in Nat

VARIABLES
  now,
  parsers,    \* _parsers: a LocalCache, oldest entry first
  failedAt,   \* _failed_at: likewise
  inflight,   \* the keys of _inflight
  task,       \* task[r]: where the coroutine of r is
  fetches,    \* how many fetches have been started
  \* history
  latest,     \* latest[h]: what the last fetch of h brought, "none" for a failure
  fails,      \* fails[h]: consecutive failed fetches
  failTime,   \* failTime[h]: when the last of them failed
  evicted,    \* hosts an entry of which has been evicted since their last success
  answer      \* the last decision: request, whether it passed, how it was reached

vars == <<now, parsers, failedAt, inflight, task, fetches,
          latest, fails, failTime, evicted, answer>>

Rules == {"allows", "forbids"}
Idle == [at |-> "idle"]
NoAnswer == [how |-> "none"]

-------------------------------------------------------------------------------
(* scrapy.utils.datatypes.LocalCache, an OrderedDict that evicts first. *)

Has(cache, h) == \E i \in DOMAIN cache : cache[i].host = h
Get(cache, h) == CHOOSE e \in ToSet(cache) : e.host = h
Without(cache, h) ==
  IF Has(cache, h) THEN RemoveAt(cache, CHOOSE i \in DOMAIN cache : cache[i].host = h)
  ELSE cache

\* A full cache evicts before it looks whether the key is there already.
Spared(cache) ==
  IF Len(cache) < CacheSize THEN cache
  ELSE SubSeq(cache, Len(cache) - CacheSize + 2, Len(cache))

\* Setting a key that is there keeps its place.
Put(cache, e) ==
  LET kept == Spared(cache) IN
  IF Has(kept, e.host)
  THEN [i \in DOMAIN kept |-> IF kept[i].host = e.host THEN e ELSE kept[i]]
  ELSE Append(kept, e)

Hosts(cache) == {cache[i].host : i \in DOMAIN cache}
Evicts(cache, h) == Hosts(cache) \ (Hosts(Spared(cache)) \cup {h})

-------------------------------------------------------------------------------
(* Asking. *)

\* _ttl_for
TtlFor(failures) ==
  IF failures <= 1 THEN Ttl
  ELSE LET shift == IF failures - 1 < 32 THEN failures - 1 ELSE 32
           ttl == Ttl * 2^shift
       IN  IF ttl < TtlMax THEN ttl ELSE TtlMax

\* Fault: the wait is over one tick late.
ExpiredLate(h) ==
  Has(failedAt, h) /\ now > Get(failedAt, h).stamp + TtlFor(Get(failedAt, h).failures)

\* A failure without an entry in _failed_at does not expire.
Expired(h) ==
  Has(failedAt, h) /\ now >= Get(failedAt, h).stamp + TtlFor(Get(failedAt, h).failures)

\* Fault: as in Scrapy, no rules means no restriction.
PassesUnread(parser) == parser # "forbids"

\* process_request_2, strict: None is refused.
Passes(parser) == parser = "allows"

Answered(r, h, parser, how) ==
  answer' = [how |-> how, host |-> h, pass |-> Passes(parser)]

\* The cache has an answer, good or bad.
AnswerFromCache(r, h) ==
  /\ task[r] = Idle
  /\ Has(parsers, h)
  /\ Get(parsers, h).parser = "none" => ~Expired(h)
  /\ Answered(r, h, Get(parsers, h).parser, "cache")
  /\ UNCHANGED <<now, parsers, failedAt, inflight, task, fetches, latest, fails, failTime, evicted>>

Misses(h) == Has(parsers, h) => Get(parsers, h).parser = "none" /\ Expired(h)

\* Fault: a fetch in flight is not looked for.
JoinsNever(h) == FALSE

Joins(h) == h \in inflight

\* No answer: join the fetch in flight, or start one.
Ask(r, h) ==
  /\ task[r] = Idle
  /\ Misses(h)
  /\ parsers' = Without(parsers, h)
  /\ IF Joins(h)
     THEN /\ task' = [task EXCEPT ![r] = [at |-> "waiting", host |-> h]]
          /\ UNCHANGED <<inflight, fetches>>
     ELSE /\ fetches < MaxFetches
          /\ fetches' = fetches + 1
          /\ task' = [task EXCEPT ![r] = [at |-> "fetching", host |-> h]]
          /\ inflight' = inflight \cup {h}
  /\ answer' = NoAnswer
  /\ UNCHANGED <<now, failedAt, latest, fails, failTime, evicted>>

-------------------------------------------------------------------------------
(* Fetching.  The loop runs every coroutine that is ready before it looks at *)
(* the network again.                                                        *)

NoneReady == \A r \in Request : task[r].at # "woken"

\* The body is there; _parse_robots awaits the robots_parsed signal.
Fetched(r) ==
  /\ task[r].at = "fetching"
  /\ NoneReady
  /\ \E v \in Rules :
       task' = [task EXCEPT ![r] = [at |-> "parsing", host |-> task[r].host, parser |-> v]]
  /\ answer' = NoAnswer
  /\ UNCHANGED <<now, parsers, failedAt, inflight, fetches, latest, fails, failTime, evicted>>

Waiters(r) == {q \in Request : task[q].at = "waiting" /\ task[q].host = task[r].host}

\* Fault: a failure wakes nobody.
WokenOnSuccess(r, v) ==
  {[q \in Request |->
      IF q = r THEN Idle
      ELSE IF q \in Waiters(r) /\ v # "none"
           THEN [at |-> "woken", host |-> task[q].host, parser |-> v]
           ELSE task[q]]}

\* The Deferred fires, with the value v, and r goes on.  The waiters await one
\* and the same Deferred, and each await consumes its result: v is handed to one
\* of them at least, and None to the others.
Woken(r, v) ==
  {[q \in Request |->
      IF q = r THEN Idle
      ELSE IF q \in Waiters(r)
           THEN [at |-> "woken", host |-> task[q].host,
                 parser |-> IF q \in handed THEN v ELSE "none"]
           ELSE task[q]] :
   handed \in {some \in SUBSET Waiters(r) : some = {} => Waiters(r) = {}}}

\* The rest of _parse_robots, the finally block, and process_request_2.
Store(r) ==
  LET h == task[r].host
      v == task[r].parser
  IN
  /\ task[r].at = "parsing"
  /\ parsers' = Put(parsers, [host |-> h, parser |-> v])
  /\ failedAt' = Without(failedAt, h)
  /\ task' \in Woken(r, v)
  /\ inflight' = inflight \ {h}
  /\ Answered(r, h, v, "fetch")
  /\ latest' = [latest EXCEPT ![h] = v]
  /\ fails' = [fails EXCEPT ![h] = 0]
  /\ evicted' = (evicted \cup Evicts(parsers, h)) \ {h}
  /\ UNCHANGED <<now, fetches, failTime>>

\* Fault: each failure is counted as the first.
CountsOne(h) == 1

Failures(h) == IF Has(failedAt, h) THEN Get(failedAt, h).failures + 1 ELSE 1

\* _robots_error: the download failed, or what it brought could not be parsed.
Fail(r) ==
  LET h == task[r].host IN
  /\ task[r].at \in {"fetching", "parsing"}
  /\ NoneReady
  /\ parsers' = Put(parsers, [host |-> h, parser |-> "none"])
  /\ failedAt' = Put(failedAt, [host |-> h, stamp |-> now, failures |-> Failures(h)])
  /\ task' \in Woken(r, "none")
  /\ inflight' = inflight \ {h}
  /\ Answered(r, h, "none", "fetch")
  /\ latest' = [latest EXCEPT ![h] = "none"]
  /\ fails' = [fails EXCEPT ![h] = @ + 1]
  /\ failTime' = [failTime EXCEPT ![h] = now]
  /\ evicted' = evicted \cup Evicts(parsers, h) \cup Evicts(failedAt, h)
  /\ UNCHANGED <<now, fetches>>

\* A waiter goes on, with what it was handed.
Resume(r) ==
  /\ task[r].at = "woken"
  /\ task' = [task EXCEPT ![r] = Idle]
  /\ Answered(r, task[r].host, task[r].parser, "fetch")
  /\ UNCHANGED <<now, parsers, failedAt, inflight, fetches, latest, fails, failTime, evicted>>

Tick ==
  /\ now < MaxTime
  /\ now' = now + 1
  /\ answer' = NoAnswer
  /\ UNCHANGED <<parsers, failedAt, inflight, task, fetches, latest, fails, failTime, evicted>>

Init ==
  /\ now = 0
  /\ parsers = <<>> /\ failedAt = <<>> /\ inflight = {}
  /\ task = [r \in Request |-> Idle]
  /\ fetches = 0
  /\ latest = [h \in Host |-> "none"]
  /\ fails = [h \in Host |-> 0]
  /\ failTime = [h \in Host |-> 0]
  /\ evicted = {}
  /\ answer = NoAnswer

Next ==
  \/ Tick
  \/ \E r \in Request :
       \/ \E h \in Host : AnswerFromCache(r, h) \/ Ask(r, h)
       \/ Fetched(r)
       \/ Store(r)
       \/ Fail(r)
       \/ Resume(r)

\* A download ends within its timeout, and the loop runs what is ready.
Fairness ==
  \A r \in Request :
    WF_vars(Fail(r)) /\ WF_vars(Store(r)) /\ WF_vars(Resume(r))

Spec == Init /\ [][Next]_vars /\ Fairness

-------------------------------------------------------------------------------
(* Properties. *)

TypeOK ==
  /\ now \in 0 .. MaxTime
  /\ Len(parsers) <= CacheSize /\ Len(failedAt) <= CacheSize
  /\ \A i, j \in DOMAIN parsers : parsers[i].host = parsers[j].host => i = j
  /\ \A i, j \in DOMAIN failedAt : failedAt[i].host = failedAt[j].host => i = j
  /\ \A r \in Request : task[r].at \in {"idle", "waiting", "fetching", "parsing", "woken"}

\* A page goes out only when the last fetch of its host's robots.txt succeeded
\* and allows it, whichever request made that fetch: robots.py:277-288.
OnlyAllowedPages ==
  answer.how # "none" /\ answer.pass => latest[answer.host] = "allows"

\* Requests of one host share one fetch: robots.py:129-134.
OneFetchPerHost ==
  \A q, r \in Request :
    task[q].at \in {"fetching", "parsing"} /\ task[r].at \in {"fetching", "parsing"}
      /\ task[q].host = task[r].host => q = r

StartsFetch(r) == task[r] = Idle /\ task'[r].at = "fetching"

\* A host that has failed n times in a row is left alone for TtlFor(n), unless
\* a cache had to evict it: robots.py:76-81.
BackoffGrows ==
  [][\A r \in Request : StartsFetch(r) =>
       LET h == task'[r].host IN
       h \in evicted \/ fails[h] = 0 \/ now >= failTime[h] + TtlFor(fails[h])]_vars

RefusedFromCache == answer'.how = "cache" /\ ~answer'.pass

\* A cached failure refuses pages no longer than its wait, unless evicted.
FailureHeldInTime ==
  [][RefusedFromCache /\ latest[answer'.host] = "none" =>
       \/ answer'.host \in evicted
       \/ now < failTime[answer'.host] + TtlFor(fails[answer'.host])]_vars

\* The same with evictions: robots.py:88-90, "Losing an entry only means the
\* failure is treated as fresh", which is refused for at most TtlMax.
FailureExpires ==
  [][RefusedFromCache /\ latest[answer'.host] = "none" =>
       now < failTime[answer'.host] + TtlMax]_vars

\* Every request is decided: the fetch it waits for, its own or another's,
\* wakes it whether it succeeds or fails.
EveryRequestDecided ==
  \A r \in Request : task[r].at # "idle" ~> task[r].at = "idle"
===============================================================================
