-------------------------------- MODULE Domains --------------------------------
(***************************************************************************)
(* The per-domain bookkeeping of crawler/spiders/broad.py: pages crawled   *)
(* and domains seen are kept in caches of a fixed size that drop their     *)
(* oldest entry, whatever is still going on in that domain.  Module Shard  *)
(* has the rest of admission, with caches that never drop anything.        *)
(*                                                                         *)
(* All domains are this shard's own.  How often one request may be         *)
(* redirected (REDIRECT_MAX_TIMES) is left open.                           *)
(***************************************************************************)
EXTENDS Integers, Sequences, FiniteSetsExt, SequencesExt

CONSTANTS
  Domain,
  CacheLimit,   \* seen_domains_max
  MaxCrawled,   \* max_crawled_per_domain
  MaxQueued,    \* max_queued_per_domain
  Backlog,      \* responses that may wait for parse
  Seed,         \* the domains of the seeds file
  MaxRequests,  \* bound: requests that enter the frontier
  MaxUncounted  \* bound: robots.txt files a domain gives a place back for

ASSUME DomainsAssumption ==
  /\ {CacheLimit, MaxCrawled, MaxQueued, Backlog} \subseteq Nat \ {0}
  /\ MaxRequests \in Nat /\ MaxUncounted \in Nat
  /\ IsFiniteSet(Domain) /\ Seed \subseteq Domain

VARIABLES
  crawledPer,   \* crawled_per_domain: <<domain, pages>>, oldest first
  seenDomains,  \* seen_domains, likewise
  seenTotal,    \* domains_seen_total
  queuedPer,    \* queued_per_domain
  held,         \* requests of a domain on their way to the frontier, in it or in flight
  carrying,     \* those of them with meta new_domain, which a full frontier takes
  parsing,      \* responses that wait for parse
  seedsLeft,
  \* history
  requests,     \* how many requests there have been
  pages,        \* pages parsed
  uncounted,    \* requests that took no place, and places given back for a robots.txt
  admitted,     \* domains that a seed, a link or the inbox has brought
  exempt,       \* how often a domain was found new, which gave a request new_domain
  forgotten,    \* how often the page count of a domain was dropped
  unseen        \* how often the domain was dropped from seen_domains

countingVars ==
  <<crawledPer, seenDomains, seenTotal, queuedPer, held, carrying, parsing, seedsLeft,
    requests, pages, uncounted, admitted, exempt, forgotten, unseen>>
caches == <<crawledPer, seenDomains, seenTotal, seedsLeft, admitted, exempt, forgotten, unseen>>

Zero == [d \in Domain |-> 0]
Plus(f, d) == [f EXCEPT ![d] = @ + 1]
Less(f, d) == [f EXCEPT ![d] = @ - 1]
Sum(f) == Cardinality(UNION {{d} \X (1 .. f[d]) : d \in Domain})

-------------------------------------------------------------------------------
(* LocalCache. *)

Keys(cache) == {cache[i][1] : i \in DOMAIN cache}

Get(cache, d) ==
  IF d \in Keys(cache) THEN cache[CHOOSE i \in DOMAIN cache : cache[i][1] = d][2] ELSE 0

\* __setitem__ makes room first, for a key it holds as well; a key that is left
\* keeps its place.
Room(cache) == IF Len(cache) >= CacheLimit THEN Tail(cache) ELSE cache

Put(cache, d, n) ==
  IF d \in Keys(Room(cache))
  THEN [i \in DOMAIN Room(cache) |->
          IF Room(cache)[i][1] = d THEN <<d, n>> ELSE Room(cache)[i]]
  ELSE Append(Room(cache), <<d, n>>)

\* The domains that a change of the cache drops, counted in f.
DroppedIn(f, cache, after) ==
  [d \in Domain |-> f[d] + (IF d \in Keys(cache) \ Keys(after) THEN 1 ELSE 0)]

-------------------------------------------------------------------------------
(* Admission. *)

\* Fault: no limit on the pages of a domain.
WantedQueued(d) == queuedPer[d] < MaxQueued

\* The per-domain limits of _maybe_follow and _inject_handoff.
Wanted(d) == Get(crawledPer, d) < MaxCrawled /\ queuedPer[d] < MaxQueued

\* Fault: the domain's exemption is decided by its page count.
NewByPages(d) == d \notin Keys(crawledPer)

\* _admit: is_new_domain
IsNewDomain(d) == d \notin Keys(seenDomains)

\* Fault: the number of domains in the cache.
CacheSize(d) == Len(seenDomains)

\* domains_seen_total, as d is admitted.
Counted(d) == IF d \in Keys(seenDomains) THEN seenTotal ELSE seenTotal + 1

\* A request of d comes, with new_domain or without.
Enters(d, isNew) ==
  /\ requests < MaxRequests
  /\ requests' = requests + 1
  /\ held' = Plus(held, d)
  /\ carrying' = IF isNew THEN Plus(carrying, d) ELSE carrying

\* _admit, of a URL the filter has not seen; the request is on its way.
Admit(d) ==
  /\ Wanted(d)
  /\ Enters(d, IsNewDomain(d))
  /\ seenDomains' = IF IsNewDomain(d) THEN Put(seenDomains, d, 1) ELSE seenDomains
  /\ unseen' = DroppedIn(unseen, seenDomains, seenDomains')
  /\ seenTotal' = Counted(d)
  /\ admitted' = admitted \cup {d}
  /\ exempt' = IF IsNewDomain(d) THEN Plus(exempt, d) ELSE exempt
  /\ queuedPer' = Plus(queuedPer, d)
  /\ UNCHANGED <<crawledPer, parsing, seedsLeft, pages, uncounted, forgotten>>

\* _seed_requests: a seed is written to seen_domains in any case, and counted
\* neither as queued nor as the first of its domain.
SeedRequest(d) ==
  /\ d \in seedsLeft
  /\ seedsLeft' = seedsLeft \ {d}
  /\ Enters(d, FALSE)
  /\ uncounted' = Plus(uncounted, d)
  /\ seenDomains' = Put(seenDomains, d, 1)
  /\ unseen' = DroppedIn(unseen, seenDomains, seenDomains')
  /\ seenTotal' = Counted(d)
  /\ admitted' = admitted \cup {d}
  /\ UNCHANGED <<crawledPer, queuedPer, parsing, pages, exempt, forgotten>>

-------------------------------------------------------------------------------
(* What becomes of a request. *)

\* _release_queued
Released(d) == [queuedPer EXCEPT ![d] = IF @ > 0 THEN @ - 1 ELSE 0]

\* request_left_downloader is sent for a robots.txt as well, which a request of
\* its host waits for, or one of a host whose robots.txt redirects there.  With
\* no place taken it changes nothing.
RobotsLeft(d) ==
  /\ \E e \in Domain : held[e] > 0
  /\ queuedPer[d] > 0 /\ uncounted[d] < MaxUncounted
  /\ queuedPer' = Released(d)
  /\ uncounted' = Plus(uncounted, d)
  /\ UNCHANGED <<caches, held, carrying, parsing, requests, pages>>

\* A request of d, with new_domain or without, is no longer held.
Leaves(d, isNew) ==
  /\ IF isNew THEN carrying[d] > 0 ELSE held[d] > carrying[d]
  /\ held' = Less(held, d)
  /\ carrying' = IF isNew THEN Less(carrying, d) ELSE carrying

\* The response is in, and is parsed later.
Downloaded(d, isNew) ==
  /\ Leaves(d, isNew)
  /\ parsing[d] < Backlog
  /\ parsing' = Plus(parsing, d)
  /\ queuedPer' = Released(d)
  /\ UNCHANGED <<caches, requests, pages, uncounted>>

\* The scheduler drops the request, the download fails, or what it brought is
\* not for parse: an error page, a redirect to another shard.
Ended(d, isNew) ==
  /\ Leaves(d, isNew)
  /\ queuedPer' = Released(d)
  /\ UNCHANGED <<caches, parsing, requests, pages, uncounted>>

\* robots.txt forbids it, or could not be read: no signal is sent, and the place
\* is not given back.
Refused(d, isNew) ==
  /\ Leaves(d, isNew)
  /\ UNCHANGED <<caches, queuedPer, parsing, requests, pages, uncounted>>

\* _build_redirect_request: the target goes to the frontier with the meta of its
\* source, past _admit and the limits.
Redirected(d, isNew, target) ==
  /\ IF isNew THEN carrying[d] > 0 ELSE held[d] > carrying[d]
  /\ requests < MaxRequests
  /\ requests' = requests + 1
  /\ held' = Plus(Less(held, d), target)
  /\ carrying' = IF isNew THEN Plus(Less(carrying, d), target) ELSE carrying
  /\ queuedPer' = Released(d)
  /\ uncounted' = Plus(uncounted, target)
  /\ UNCHANGED <<caches, parsing, pages>>

\* parse, up to its links.
Parse(d) ==
  /\ parsing[d] > 0
  /\ parsing' = Less(parsing, d)
  /\ crawledPer' = Put(crawledPer, d, Get(crawledPer, d) + 1)
  /\ forgotten' = DroppedIn(forgotten, crawledPer, crawledPer')
  /\ pages' = Plus(pages, d)
  /\ UNCHANGED <<seenDomains, seenTotal, queuedPer, held, carrying, seedsLeft, requests,
                 uncounted, admitted, exempt, unseen>>

CountingInit ==
  /\ crawledPer = <<>> /\ seenDomains = <<>> /\ seenTotal = 0
  /\ queuedPer = Zero /\ held = Zero /\ carrying = Zero /\ parsing = Zero
  /\ seedsLeft = Seed
  /\ requests = 0 /\ pages = Zero /\ uncounted = Zero /\ admitted = {}
  /\ exempt = Zero /\ forgotten = Zero /\ unseen = Zero

CountingNext ==
  \E d \in Domain :
    \/ Admit(d)
    \/ SeedRequest(d)
    \/ RobotsLeft(d)
    \/ \E isNew \in BOOLEAN :
         \/ Downloaded(d, isNew)
         \/ Ended(d, isNew)
         \/ Refused(d, isNew)
         \/ \E target \in Domain : Redirected(d, isNew, target)
    \/ Parse(d)

-------------------------------------------------------------------------------
(* Properties. *)

CountingTypeOK ==
  /\ Keys(crawledPer) \subseteq Domain /\ Len(crawledPer) <= CacheLimit
  /\ Keys(seenDomains) \subseteq Domain /\ Len(seenDomains) <= CacheLimit
  /\ \A d \in Domain : queuedPer[d] \in 0 .. MaxQueued /\ carrying[d] \in 0 .. held[d]
  /\ seenTotal \in Nat

\* A domain gets past its page limit by what was queued or unparsed when the
\* limit was reached, and once more with every eviction of its count; each
\* request that took no place (a seed, the target of a redirect) and each place
\* given back for a robots.txt adds one.
PagesWithinLimits ==
  \A d \in Domain :
    pages[d] <= (1 + forgotten[d]) * (MaxCrawled - 1 + MaxQueued + Backlog) + uncounted[d]

\* An eviction from seen_domains "re-grants one new_domain exemption"
\* (broad.py:115-116), to one request at a time: redirects hand it on, and never
\* have two requests with it for one that was granted.
ExemptOncePerEviction ==
  /\ \A d \in Domain : exempt[d] <= 1 + unseen[d]
  /\ Sum(carrying) <= Sum(exempt)

\* domains_seen_total, which is "the domain total" once the cache evicts
\* (broad.py:126-127), misses no domain but those that only a redirect led to,
\* and counts one again only after an eviction.
TotalWithinEvictions == seenTotal - Cardinality(admitted) \in 0 .. Sum(unseen)

===============================================================================
