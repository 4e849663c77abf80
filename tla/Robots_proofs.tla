------------------------------ MODULE Robots_proofs ------------------------------
(***************************************************************************)
(* Proofs about module Robots, for every set of hosts and of requests, and *)
(* every size of the caches and wait.                                      *)
(*                                                                         *)
(* Flight is the life of a fetch: what is being fetched is in _inflight,   *)
(* once.  Truth says that every verdict that is kept or on its way is that *)
(* of the last fetch of its host: a waiter that has been woken with one is *)
(* run before another fetch of that host can bring the next.  Held says    *)
(* that for a host of which no entry was evicted the two caches remember   *)
(* its failures as they happened.                                          *)
(***************************************************************************)
EXTENDS Robots, SequenceTheorems, TLAPS

Verdict == Rules \cup {"none"}
ParserEntry == [host : Host, parser : Verdict]
FailureEntry == [host : Host, stamp : Nat, failures : Nat]

Task ==
  {Idle} \cup [at : {"waiting", "fetching"}, host : Host]
         \cup [at : {"parsing"}, host : Host, parser : Rules]
         \cup [at : {"woken"}, host : Host, parser : Verdict]

\* A LocalCache of entries in S: bounded, and one entry to a host.
Cache(c, S) ==
  /\ c \in Seq(S)
  /\ Len(c) <= CacheSize
  /\ \A i, j \in DOMAIN c : c[i].host = c[j].host => i = j

Types ==
  /\ now \in 0 .. MaxTime
  /\ Cache(parsers, ParserEntry) /\ Cache(failedAt, FailureEntry)
  /\ task \in [Request -> Task]
  /\ latest \in [Host -> Verdict]
  /\ fails \in [Host -> Nat] /\ failTime \in [Host -> Nat]

Busy(r) == task[r].at \in {"fetching", "parsing"}

Flight ==
  /\ \A r \in Request : Busy(r) => task[r].host \in inflight
  /\ OneFetchPerHost

KnownTrue == \A e \in ToSet(parsers) : e.parser = latest[e.host]
WokenTrue ==
  \A r \in Request :
    task[r].at = "woken" => task[r].parser \in {latest[task[r].host], "none"}
WokenFirst ==
  \A q, r \in Request :
    task[q].at = "woken" /\ task[r].at = "parsing" => task[q].host # task[r].host

Truth == KnownTrue /\ WokenTrue /\ WokenFirst

Inv == Types /\ Flight /\ Truth

\* The entry of a failure is the last one, and there while the failure lasts.
HeldAsIs ==
  \A e \in ToSet(failedAt) :
    e.host \notin evicted =>
      fails[e.host] > 0 /\ e.stamp = failTime[e.host] /\ e.failures = fails[e.host]
HeldThere ==
  \A h \in Host \ evicted :
    fails[h] > 0 => h \in Hosts(failedAt) /\ (h \in Hosts(parsers) \/ h \in inflight)
NoneIsFailed ==
  \A h \in Host : h \in Hosts(parsers) /\ latest[h] = "none" => fails[h] > 0

Held == HeldAsIs /\ HeldThere /\ NoneIsFailed

\* What RobotsAssumption says of the numbers.
LEMMA Settings ==
  /\ CacheSize \in Nat /\ CacheSize >= 1
  /\ Ttl \in Nat /\ TtlMax \in Nat /\ MaxTime \in Nat /\ MaxFetches \in Nat
BY RobotsAssumption

USE Settings

-------------------------------------------------------------------------------
(* The caches. *)

\* A key that is there is the host of an entry.
LEMMA HasHost ==
  ASSUME NEW c, NEW h
  PROVE  /\ Has(c, h) <=> h \in Hosts(c)
         /\ h \in Hosts(c) <=> \E e \in ToSet(c) : e.host = h
BY DEF Has, Hosts, ToSet

\* What is got is the entry of that key.
LEMMA GetEntry ==
  ASSUME NEW c, NEW h, Has(c, h)
  PROVE  Get(c, h) \in ToSet(c) /\ Get(c, h).host = h
<1>1. \E e \in ToSet(c) : e.host = h
  BY HasHost
<1> QED
  BY <1>1 DEF Get

\* Making room drops the oldest entry of a full cache.
LEMMA SparedCache ==
  ASSUME NEW S, NEW c, Cache(c, S)
  PROVE  /\ Cache(Spared(c), S) /\ Len(Spared(c)) < CacheSize
         /\ ToSet(Spared(c)) \subseteq ToSet(c)
<1>0. Len(c) \in Nat /\ Len(c) <= CacheSize
  BY LenProperties DEF Cache
<1>1. DOMAIN c = 1 .. Len(c) /\ c \in Seq(S)
  BY LenProperties DEF Cache
<1>2. CASE Len(c) < CacheSize
  BY <1>0, <1>1, <1>2 DEF Spared, Cache
<1>3. CASE ~ (Len(c) < CacheSize)
  <2>1. Len(c) = CacheSize /\ Len(c) >= 1
    BY <1>0, <1>3
  <2>2. Spared(c) = SubSeq(c, 2, Len(c))
    BY <1>3, <2>1 DEF Spared
  <2>3. \A i \in 2 .. Len(c) : c[i] \in S
    BY <1>1, ElementOfSeq
  <2>4. /\ Spared(c) \in Seq(S)
        /\ Len(Spared(c)) = IF 2 <= Len(c) THEN Len(c) - 2 + 1 ELSE 0
        /\ \A i \in 1 .. Len(c) - 2 + 1 : Spared(c)[i] = c[2 + i - 1]
    BY <1>0, <2>2, <2>3, SubSeqProperties
  <2>5. DOMAIN Spared(c) = 1 .. Len(c) - 1 /\ Len(Spared(c)) = Len(c) - 1
    BY <2>1, <2>4, LenProperties
  <2>6. ASSUME NEW i \in DOMAIN Spared(c)
        PROVE  i + 1 \in DOMAIN c /\ Spared(c)[i] = c[i + 1]
    <3>1. i \in 1 .. Len(c) - 2 + 1 /\ 2 + i - 1 = i + 1 /\ i + 1 \in 1 .. Len(c)
      BY <1>0, <2>5
    <3> QED
      BY <1>1, <2>4, <3>1
  <2>7. ASSUME NEW i \in DOMAIN Spared(c), NEW j \in DOMAIN Spared(c),
               Spared(c)[i].host = Spared(c)[j].host
        PROVE  i = j
    <3>1. i + 1 = j + 1
      BY <2>6, <2>7 DEF Cache
    <3> QED
      BY <2>5, <3>1
  <2>8. Cache(Spared(c), S) /\ Len(Spared(c)) < CacheSize
    BY <2>1, <2>4, <2>5, <2>7 DEF Cache
  <2> QED
    BY <2>6, <2>8 DEF ToSet
<1> QED
  BY <1>2, <1>3

\* After a key is set its entry is the new one, and the others were there.
LEMMA PutCache ==
  ASSUME NEW S, NEW c, Cache(c, S), NEW e \in S
  PROVE  /\ Cache(Put(c, e), S)
         /\ ToSet(Put(c, e)) \subseteq {e} \cup {f \in ToSet(c) : f.host # e.host}
         /\ Hosts(Put(c, e)) = Hosts(Spared(c)) \cup {e.host}
<1> DEFINE kept == Spared(c)
           put == Put(c, e)
<1>1. /\ Cache(kept, S) /\ Len(kept) < CacheSize
      /\ ToSet(kept) \subseteq ToSet(c)
  BY SparedCache
<1>2. kept \in Seq(S) /\ DOMAIN kept = 1 .. Len(kept)
  BY <1>1, LenProperties DEF Cache
<1>3. Len(kept) \in Nat
  BY <1>1, LenProperties DEF Cache
<1>4. CASE Has(kept, e.host)
  <2>1. put = [i \in DOMAIN kept |-> IF kept[i].host = e.host THEN e ELSE kept[i]]
    BY <1>4 DEF Put
  <2> HIDE DEF kept, put
  <2>2. put \in [1 .. Len(kept) -> S]
    BY <1>2, <2>1, ElementOfSeq
  <2>3. put \in Seq(S) /\ Len(put) = Len(kept) /\ DOMAIN put = DOMAIN kept
    BY <1>2, <1>3, <2>2
  <2>4. \A i \in DOMAIN put : put[i].host = kept[i].host
    BY <2>1, <2>3
  <2>5. Cache(put, S)
    BY <1>1, <1>3, <2>3, <2>4 DEF Cache
  <2>6. Hosts(put) = Hosts(kept)
    BY <2>3, <2>4 DEF Hosts
  <2>7. e.host \in Hosts(kept)
    BY <1>4, HasHost
  <2>8. ToSet(put) \subseteq {e} \cup {f \in ToSet(kept) : f.host # e.host}
    BY <2>1, <2>3 DEF ToSet
  <2> QED
    BY <1>1, <2>5, <2>6, <2>7, <2>8 DEF put, kept
<1>5. CASE ~ Has(kept, e.host)
  <2>1. put = Append(kept, e)
    BY <1>5 DEF Put
  <2> HIDE DEF kept, put
  <2>2. /\ put \in Seq(S) /\ Len(put) = Len(kept) + 1
        /\ \A i \in 1 .. Len(kept) : put[i] = kept[i]
        /\ put[Len(kept) + 1] = e
    BY <1>2, <2>1, AppendProperties
  <2>3. DOMAIN put = 1 .. Len(kept) + 1
    BY <2>2, LenProperties
  <2>4. \A i \in DOMAIN put : (i \in DOMAIN kept /\ put[i] = kept[i]) \/ (i = Len(kept) + 1 /\ put[i] = e)
    BY <1>2, <1>3, <2>2, <2>3
  <2>5. \A i \in DOMAIN kept : kept[i].host # e.host
    BY <1>5 DEF Has
  <2>6. Cache(put, S)
    <3>1. Len(put) <= CacheSize
      BY <1>1, <1>3, <2>2
    <3>2. \A i, j \in DOMAIN kept : kept[i].host = kept[j].host => i = j
      BY <1>1 DEF Cache
    <3>3. \A i, j \in DOMAIN put : put[i].host = put[j].host => i = j
      BY <2>4, <2>5, <3>2
    <3> QED
      BY <2>2, <3>1, <3>3 DEF Cache
  <2>7. DOMAIN kept \subseteq DOMAIN put /\ Len(kept) + 1 \in DOMAIN put
    BY <1>2, <1>3, <2>3
  <2>8. Hosts(put) = Hosts(kept) \cup {e.host}
    BY <1>2, <2>2, <2>4, <2>7 DEF Hosts
  <2>9. ToSet(put) \subseteq {e} \cup {f \in ToSet(kept) : f.host # e.host}
    BY <2>4, <2>5 DEF ToSet
  <2> QED
    BY <1>1, <2>6, <2>8, <2>9 DEF put, kept
<1> QED
  BY <1>4, <1>5

\* After a key is popped it is not there, and the others are.
LEMMA WithoutCache ==
  ASSUME NEW S, NEW c, Cache(c, S), NEW h
  PROVE  /\ Cache(Without(c, h), S)
         /\ ToSet(Without(c, h)) \subseteq ToSet(c)
         /\ Hosts(Without(c, h)) = Hosts(c) \ {h}
<1>1. CASE ~ Has(c, h)
  BY <1>1, HasHost DEF Without
<1>2. CASE Has(c, h)
  <2> DEFINE k == CHOOSE i \in DOMAIN c : c[i].host = h
             left == SubSeq(c, 1, k - 1)
             right == SubSeq(c, k + 1, Len(c))
             w == Without(c, h)
  <2>1. k \in DOMAIN c /\ c[k].host = h
    BY <1>2 DEF Has
  <2>2. c \in Seq(S) /\ DOMAIN c = 1 .. Len(c)
    BY LenProperties DEF Cache
  <2>3. Len(c) \in Nat /\ Len(c) <= CacheSize
    BY LenProperties DEF Cache
  <2>4. w = left \o right
    BY <1>2 DEF Without, RemoveAt
  <2> HIDE DEF k, w
  <2>5. k \in 1 .. Len(c)
    BY <2>1, <2>2
  <2>6. /\ left \in Seq(S) /\ Len(left) = k - 1
        /\ \A i \in 1 .. k - 1 : left[i] = c[i]
    <3>1. \A i \in 1 .. k - 1 : c[i] \in S
      BY <2>2, <2>3, <2>5, ElementOfSeq
    <3>2. /\ left \in Seq(S)
          /\ Len(left) = IF 1 <= k - 1 THEN k - 1 - 1 + 1 ELSE 0
          /\ \A i \in 1 .. k - 1 - 1 + 1 : left[i] = c[1 + i - 1]
      BY <2>3, <2>5, <3>1, SubSeqProperties
    <3> HIDE DEF left
    <3> QED
      BY <2>3, <2>5, <3>2
  <2>7. /\ right \in Seq(S) /\ Len(right) = Len(c) - k
        /\ \A i \in 1 .. Len(c) - k : right[i] = c[k + i]
    <3>1. \A i \in k + 1 .. Len(c) : c[i] \in S
      BY <2>2, <2>3, <2>5, ElementOfSeq
    <3>2. /\ right \in Seq(S)
          /\ Len(right) = IF k + 1 <= Len(c) THEN Len(c) - (k + 1) + 1 ELSE 0
          /\ \A i \in 1 .. Len(c) - (k + 1) + 1 : right[i] = c[k + 1 + i - 1]
      BY <2>3, <2>5, <3>1, SubSeqProperties
    <3> HIDE DEF right
    <3> QED
      BY <2>3, <2>5, <3>2
  <2> HIDE DEF left, right
  <2>8. /\ w \in Seq(S) /\ Len(w) = Len(c) - 1
        /\ \A i \in 1 .. Len(c) - 1 : w[i] = IF i <= k - 1 THEN left[i] ELSE right[i - (k - 1)]
    <3>1. /\ left \o right \in Seq(S)
          /\ Len(left \o right) = Len(left) + Len(right)
          /\ \A i \in 1 .. Len(left) + Len(right) :
               (left \o right)[i] = IF i <= Len(left) THEN left[i] ELSE right[i - Len(left)]
      BY <2>6, <2>7, ConcatProperties
    <3>2. Len(left) + Len(right) = Len(c) - 1
      BY <2>3, <2>5, <2>6, <2>7
    <3> QED
      BY <2>4, <2>6, <3>1, <3>2
  <2>9. DOMAIN w = 1 .. Len(c) - 1
    BY <2>8, LenProperties
  <2>10. ASSUME NEW i \in DOMAIN w
         PROVE  IF i < k THEN i \in DOMAIN c /\ w[i] = c[i]
                         ELSE i + 1 \in DOMAIN c /\ w[i] = c[i + 1]
    <3>1. CASE i < k
      <4>1. i \in 1 .. k - 1 /\ i <= k - 1 /\ i \in 1 .. Len(c)
        BY <2>3, <2>5, <2>9, <3>1
      <4>2. w[i] = left[i] /\ left[i] = c[i]
        BY <2>6, <2>8, <2>9, <4>1
      <4> QED
        BY <2>2, <3>1, <4>1, <4>2
    <3>2. CASE ~ (i < k)
      <4>1. i - (k - 1) \in 1 .. Len(c) - k /\ k + (i - (k - 1)) = i + 1 /\ ~ (i <= k - 1)
        BY <2>3, <2>5, <2>9, <3>2
      <4>2. w[i] = c[i + 1]
        BY <2>7, <2>8, <2>9, <4>1
      <4>3. i + 1 \in 1 .. Len(c)
        BY <2>3, <2>9
      <4> QED
        BY <2>2, <3>2, <4>2, <4>3
    <3> QED
      BY <3>1, <3>2
  <2>11. ASSUME NEW i \in DOMAIN w, NEW j \in DOMAIN w, w[i].host = w[j].host
         PROVE  i = j
    <3>1. \A p, q \in DOMAIN c : c[p].host = c[q].host => p = q
      BY DEF Cache
    <3>2. i \in Nat /\ j \in Nat
      BY <2>9
    <3> QED
      BY <2>5, <2>10, <2>11, <3>1, <3>2
  <2>12. Cache(w, S)
    BY <2>3, <2>8, <2>11 DEF Cache
  <2>13. \A i \in DOMAIN w : w[i].host # h
    <3>1. \A p, q \in DOMAIN c : c[p].host = c[q].host => p = q
      BY DEF Cache
    <3>2. \A i \in DOMAIN w : i \in Nat
      BY <2>9
    <3> QED
      BY <2>1, <2>5, <2>10, <3>1, <3>2
  <2>14. ASSUME NEW j \in DOMAIN c, j # k
         PROVE  \E i \in DOMAIN w : w[i] = c[j]
    <3>1. j \in 1 .. Len(c)
      BY <2>2
    <3>2. CASE j < k
      <4>1. j \in DOMAIN w
        BY <2>3, <2>5, <2>9, <3>1, <3>2
      <4> QED
        BY <2>10, <3>2, <4>1
    <3>3. CASE ~ (j < k)
      <4>1. j - 1 \in DOMAIN w /\ ~ (j - 1 < k) /\ (j - 1) + 1 = j
        BY <2>3, <2>5, <2>9, <2>14, <3>1, <3>3
      <4> QED
        BY <2>10, <4>1
    <3> QED
      BY <3>2, <3>3
  <2>15. ToSet(w) \subseteq ToSet(c)
    BY <2>10 DEF ToSet
  <2>16. Hosts(w) = Hosts(c) \ {h}
    <3>1. Hosts(w) \subseteq Hosts(c) /\ h \notin Hosts(w)
      BY <2>10, <2>13 DEF Hosts
    <3>2. Hosts(c) \ {h} \subseteq Hosts(w)
      BY <2>1, <2>14 DEF Hosts
    <3> QED
      BY <3>1, <3>2
  <2> QED
    BY <2>12, <2>15, <2>16 DEF w
<1> QED
  BY <1>1, <1>2

\* Setting a key loses no other key but the one that is evicted.
LEMMA PutHosts ==
  ASSUME NEW S, NEW c, Cache(c, S), NEW e \in S
  PROVE  /\ Hosts(Put(c, e)) \subseteq Hosts(c) \cup {e.host}
         /\ e.host \in Hosts(Put(c, e))
         /\ \A g \in Hosts(c) : g \notin Evicts(c, e.host) => g \in Hosts(Put(c, e))
<1>1. Hosts(Put(c, e)) = Hosts(Spared(c)) \cup {e.host}
  BY PutCache
<1>2. ToSet(Spared(c)) \subseteq ToSet(c)
  BY SparedCache
<1>3. Hosts(Spared(c)) \subseteq Hosts(c)
  BY <1>2, HasHost
<1> QED
  BY <1>1, <1>3 DEF Evicts

\* What a cache holds.
LEMMA CacheEntries ==
  ASSUME NEW S, NEW c, Cache(c, S)
  PROVE  ToSet(c) \subseteq S
<1>1. c \in Seq(S) /\ DOMAIN c = 1 .. Len(c)
  BY LenProperties DEF Cache
<1> QED
  BY <1>1, ElementOfSeq DEF ToSet

LEMMA EntryHosts ==
  ASSUME Types
  PROVE  /\ ToSet(parsers) \subseteq ParserEntry /\ ToSet(failedAt) \subseteq FailureEntry
         /\ Hosts(parsers) \subseteq Host /\ Hosts(failedAt) \subseteq Host
<1>1. ToSet(parsers) \subseteq ParserEntry /\ ToSet(failedAt) \subseteq FailureEntry
  BY CacheEntries DEF Types
<1>2. \A e \in ToSet(parsers) \cup ToSet(failedAt) : e.host \in Host
  BY <1>1 DEF ParserEntry, FailureEntry
<1>3. ASSUME NEW h, h \in Hosts(parsers) \/ h \in Hosts(failedAt)
      PROVE  \E e \in ToSet(parsers) \cup ToSet(failedAt) : e.host = h
  BY <1>3, HasHost
<1> QED
  BY <1>1, <1>2, <1>3

-------------------------------------------------------------------------------
(* The coroutines. *)

\* What a coroutine carries with it.
LEMMA TaskTypes ==
  ASSUME Types, NEW r \in Request
  PROVE  /\ task[r] \in Task
         /\ task[r].at \in {"idle", "waiting", "fetching", "parsing", "woken"}
         /\ task[r].at # "idle" => task[r].host \in Host
         /\ task[r].at = "parsing" => task[r].parser \in Rules
         /\ task[r].at = "woken" => task[r].parser \in Verdict
<1>1. task[r] \in Task
  BY DEF Types
<1> QED
  BY <1>1 DEF Task, Idle

\* The states a coroutine is put into.
LEMMA TaskStates ==
  ASSUME NEW h \in Host, NEW v \in Rules, NEW w \in Verdict
  PROVE  /\ Idle \in Task /\ Idle.at = "idle"
         /\ [at |-> "waiting", host |-> h] \in Task
         /\ [at |-> "fetching", host |-> h] \in Task
         /\ [at |-> "parsing", host |-> h, parser |-> v] \in Task
         /\ [at |-> "woken", host |-> h, parser |-> w] \in Task
BY DEF Task, Idle

\* The end of a fetch: r is through, those that waited for the host are woken
\* with its verdict or with nothing, and the others are where they were.
LEMMA WokenTasks ==
  ASSUME Types, NEW r \in Request, NEW v \in Verdict, task' \in Woken(r, v),
         task[r].at # "idle"
  PROVE  /\ task' \in [Request -> Task]
         /\ task'[r].at = "idle"
         /\ \A q \in Request : q # r =>
              \/ task'[q] = task[q]
              \/ /\ task[q].at = "waiting" /\ task[q].host = task[r].host
                 /\ task'[q].at = "woken" /\ task'[q].host = task[r].host
                 /\ task'[q].parser \in {v, "none"}
<1> PICK handed \in SUBSET Waiters(r) :
      task' = [q \in Request |->
                 IF q = r THEN Idle
                 ELSE IF q \in Waiters(r)
                      THEN [at |-> "woken", host |-> task[q].host,
                            parser |-> IF q \in handed THEN v ELSE "none"]
                      ELSE task[q]]
  BY DEF Woken
<1>1. ASSUME NEW q \in Request, q # r
      PROVE  /\ task'[q] \in Task
             /\ \/ task'[q] = task[q]
                \/ /\ task[q].at = "waiting" /\ task[q].host = task[r].host
                   /\ task'[q].at = "woken" /\ task'[q].host = task[r].host
                   /\ task'[q].parser \in {v, "none"}
  <2>1. CASE task[q].at = "waiting" /\ task[q].host = task[r].host
    <3>1. PICK w \in {v, "none"} :
            task'[q] = [at |-> "woken", host |-> task[q].host, parser |-> w]
      BY <1>1, <2>1 DEF Waiters
    <3>2. task[q].host \in Host /\ w \in Verdict
      BY <2>1, TaskTypes DEF Verdict
    <3> QED
      BY <2>1, <3>1, <3>2, TaskStates DEF Task
  <2>2. CASE ~ (task[q].at = "waiting" /\ task[q].host = task[r].host)
    <3>1. task'[q] = task[q]
      BY <1>1, <2>2 DEF Waiters
    <3> QED
      BY <3>1, TaskTypes
  <2> QED
    BY <2>1, <2>2
<1>2. task'[r] = Idle
  OBVIOUS
<1>3. task'[r] \in Task /\ task'[r].at = "idle"
  BY <1>2 DEF Task, Idle
<1>4. task' = [q \in Request |-> task'[q]]
  OBVIOUS
<1> QED
  BY <1>1, <1>3, <1>4

\* What Store and Fail do to the cache of parsers and to the coroutines keeps
\* both halves of the invariant.
LEMMA FetchEnds ==
  ASSUME Inv, NEW r \in Request, NEW v \in Verdict, Busy(r),
         \A q \in Request : task[q].at = "woken" => task[q].host # task[r].host,
         parsers' = Put(parsers, [host |-> task[r].host, parser |-> v]),
         task' \in Woken(r, v),
         inflight' = inflight \ {task[r].host},
         latest' = [latest EXCEPT ![task[r].host] = v]
  PROVE  /\ Cache(parsers', ParserEntry) /\ task' \in [Request -> Task]
         /\ latest' \in [Host -> Verdict]
         /\ Flight' /\ Truth'
<1> DEFINE h == task[r].host
           e == [host |-> h, parser |-> v]
<1>1. h \in Host /\ e \in ParserEntry /\ e.host = h /\ e.parser = v
  BY TaskTypes DEF Inv, Busy, ParserEntry
<1>2. /\ latest \in [Host -> Verdict]
      /\ latest' \in [Host -> Verdict] /\ latest'[h] = v
      /\ \A g \in Host : g # h => latest'[g] = latest[g]
  BY <1>1 DEF Inv, Types
<1>3. /\ Cache(parsers', ParserEntry)
      /\ ToSet(parsers') \subseteq {e} \cup {f \in ToSet(parsers) : f.host # e.host}
  <2>1. parsers' = Put(parsers, e) /\ Cache(parsers, ParserEntry)
    BY DEF Inv, Types
  <2>2. /\ Cache(Put(parsers, e), ParserEntry)
        /\ ToSet(Put(parsers, e)) \subseteq {e} \cup {f \in ToSet(parsers) : f.host # e.host}
    <3> HIDE DEF e
    <3> QED
      BY <1>1, <2>1, PutCache
  <2> QED
    BY <2>1, <2>2
<1>4. ToSet(parsers) \subseteq ParserEntry
  BY EntryHosts DEF Inv
<1>5. /\ task' \in [Request -> Task]
      /\ task'[r].at = "idle"
      /\ \A q \in Request : q # r =>
           \/ task'[q] = task[q]
           \/ /\ task[q].at = "waiting" /\ task[q].host = h
              /\ task'[q].at = "woken" /\ task'[q].host = h
              /\ task'[q].parser \in {v, "none"}
  BY WokenTasks DEF Inv, Busy
<1> HIDE DEF h, e
<1>6. ASSUME NEW q \in Request, Busy(q)'
      PROVE  q # r /\ task'[q] = task[q] /\ Busy(q) /\ task[q].host # h
  <2>1. q # r /\ task'[q] = task[q] /\ Busy(q)
    BY <1>5, <1>6 DEF Busy
  <2> QED
    BY <2>1 DEF Inv, Flight, OneFetchPerHost, Busy, h
<1>7. Flight'
  BY <1>6 DEF Inv, Flight, OneFetchPerHost, Busy, h
<1>8. KnownTrue'
  <2> SUFFICES ASSUME NEW f \in ToSet(parsers')
               PROVE  f.parser = latest'[f.host]
    BY DEF KnownTrue
  <2>1. CASE f = e
    BY <1>1, <1>2, <2>1
  <2>2. CASE f \in ToSet(parsers) /\ f.host # h
    <3>1. f.host \in Host
      BY <1>4, <2>2 DEF ParserEntry
    <3>2. f.parser = latest[f.host]
      BY <2>2 DEF Inv, Truth, KnownTrue
    <3> QED
      BY <1>2, <2>2, <3>1, <3>2
  <2> QED
    BY <1>1, <1>3, <2>1, <2>2
<1>9. WokenTrue'
  <2> SUFFICES ASSUME NEW q \in Request, task'[q].at = "woken"
               PROVE  task'[q].parser \in {latest'[task'[q].host], "none"}
    BY DEF WokenTrue
  <2>1. CASE task'[q] = task[q]
    <3>1. task[q].parser \in {latest[task[q].host], "none"} /\ task[q].host # h
      BY <2>1 DEF Inv, Truth, WokenTrue, h
    <3>2. task[q].host \in Host
      BY <2>1, TaskTypes DEF Inv
    <3> QED
      BY <1>2, <2>1, <3>1, <3>2
  <2>2. CASE task'[q].host = h /\ task'[q].parser \in {v, "none"}
    BY <1>2, <2>2
  <2> QED
    BY <1>5, <2>1, <2>2
<1>10. WokenFirst'
  <2> SUFFICES ASSUME NEW q \in Request, NEW p \in Request,
                      task'[q].at = "woken", task'[p].at = "parsing"
               PROVE  task'[q].host # task'[p].host
    BY DEF WokenFirst
  <2>1. task'[p] = task[p] /\ task[p].host # h
    BY <1>6 DEF Busy
  <2>2. CASE task'[q] = task[q]
    BY <2>1, <2>2 DEF Inv, Truth, WokenFirst
  <2>3. CASE task'[q].host = h
    BY <2>1, <2>3
  <2> QED
    BY <1>5, <2>2, <2>3
<1> QED
  BY <1>2, <1>3, <1>5, <1>7, <1>8, <1>9, <1>10 DEF Truth

-------------------------------------------------------------------------------
(* The steps. *)

LEMMA FromCacheInv ==
  ASSUME Inv, NEW r \in Request, NEW h \in Host, AnswerFromCache(r, h)
  PROVE  Inv'
BY DEF AnswerFromCache, Inv, Types, Flight, OneFetchPerHost, Busy, Truth, KnownTrue,
       WokenTrue, WokenFirst

\* A coroutine that goes where none is woken or parsing.
LEMMA OneTask ==
  ASSUME Inv, NEW r \in Request, NEW t \in Task, t.at \notin {"woken", "parsing"},
         task' = [task EXCEPT ![r] = t],
         UNCHANGED latest
  PROVE  /\ task' \in [Request -> Task]
         /\ WokenTrue' /\ WokenFirst'
<1>1. /\ task' \in [Request -> Task] /\ task'[r] = t
      /\ \A q \in Request : q # r => task'[q] = task[q]
  BY DEF Inv, Types
<1> QED
  BY <1>1 DEF Inv, Truth, WokenTrue, WokenFirst

LEMMA AskInv ==
  ASSUME Inv, NEW r \in Request, NEW h \in Host, Ask(r, h)
  PROVE  Inv'
<1>1. parsers' = Without(parsers, h) /\ UNCHANGED <<now, failedAt, latest, fails, failTime>>
  BY DEF Ask
<1>2. Cache(parsers', ParserEntry) /\ ToSet(parsers') \subseteq ToSet(parsers)
  BY <1>1, WithoutCache DEF Inv, Types
<1>3. KnownTrue'
  BY <1>1, <1>2 DEF Inv, Truth, KnownTrue
<1>4. task[r].at = "idle" /\ task \in [Request -> Task]
  BY DEF Ask, Idle, Inv, Types
<1>5. PICK t \in Task :
        /\ t.host = h /\ task' = [task EXCEPT ![r] = t]
        /\ \/ t.at = "waiting" /\ inflight' = inflight /\ h \in inflight
           \/ t.at = "fetching" /\ inflight' = inflight \cup {h} /\ h \notin inflight
  <2>1. CASE Joins(h)
    <3>1. task' = [task EXCEPT ![r] = [at |-> "waiting", host |-> h]] /\ inflight' = inflight
      BY <2>1 DEF Ask
    <3>2. [at |-> "waiting", host |-> h] \in Task
      BY TaskStates DEF Task
    <3> QED
      BY <2>1, <3>1, <3>2 DEF Joins
  <2>2. CASE ~ Joins(h)
    <3>1. task' = [task EXCEPT ![r] = [at |-> "fetching", host |-> h]]
          /\ inflight' = inflight \cup {h}
      BY <2>2 DEF Ask
    <3>2. [at |-> "fetching", host |-> h] \in Task
      BY TaskStates DEF Task
    <3> QED
      BY <2>2, <3>1, <3>2 DEF Joins
  <2> QED
    BY <2>1, <2>2
<1>6. task' \in [Request -> Task] /\ WokenTrue' /\ WokenFirst'
  BY <1>1, <1>5, OneTask
<1>7. Flight'
  <2>1. task'[r] = t /\ \A q \in Request : q # r => task'[q] = task[q]
    BY <1>4, <1>5
  <2>2. ASSUME NEW q \in Request, q # r, Busy(q)'
        PROVE  Busy(q) /\ task'[q] = task[q] /\ task[q].host \in inflight
    BY <2>1, <2>2 DEF Busy, Inv, Flight
  <2>3. \A q \in Request : Busy(q)' => task'[q].host \in inflight'
    BY <1>5, <2>1, <2>2 DEF Busy
  <2>4. OneFetchPerHost'
    <3> SUFFICES ASSUME NEW q \in Request, NEW p \in Request, Busy(q)', Busy(p)',
                        task'[q].host = task'[p].host
                 PROVE  q = p
      BY DEF OneFetchPerHost, Busy
    <3>1. CASE q # r /\ p # r
      BY <2>2, <3>1 DEF Inv, Flight, OneFetchPerHost, Busy
    <3>2. CASE q = r \/ p = r
      <4>1. h \notin inflight /\ t.host = h
        BY <1>5, <2>1, <3>2 DEF Busy
      <4> QED
        BY <2>1, <2>2, <3>2, <4>1
    <3> QED
      BY <3>1, <3>2
  <2> QED
    BY <2>3, <2>4 DEF Flight
<1> QED
  BY <1>1, <1>2, <1>3, <1>6, <1>7 DEF Inv, Types, Truth

LEMMA FetchedInv ==
  ASSUME Inv, NEW r \in Request, Fetched(r)
  PROVE  Inv'
<1>1. PICK v \in Rules :
        task' = [task EXCEPT ![r] = [at |-> "parsing", host |-> task[r].host, parser |-> v]]
  BY DEF Fetched
<1> DEFINE t == [at |-> "parsing", host |-> task[r].host, parser |-> v]
<1>2. /\ task[r].at = "fetching" /\ task[r].host \in Host
      /\ \A q \in Request : task[q].at # "woken"
      /\ UNCHANGED <<now, parsers, failedAt, inflight, latest, fails, failTime>>
  BY TaskTypes DEF Fetched, NoneReady, Inv
<1>3. t \in Task /\ t.at = "parsing" /\ t.host = task[r].host
  BY <1>2, TaskStates DEF Verdict
<1>4. task' = [task EXCEPT ![r] = t]
  BY <1>1
<1> HIDE DEF t
<1>5. /\ task' \in [Request -> Task] /\ task'[r] = t
      /\ \A q \in Request : q # r => task'[q] = task[q]
  BY <1>3, <1>4 DEF Inv, Types
<1>6. \A q \in Request : task'[q].host = task[q].host /\ (Busy(q)' <=> Busy(q))
  BY <1>2, <1>3, <1>5 DEF Busy
<1>7. Flight'
  BY <1>2, <1>6 DEF Inv, Flight, OneFetchPerHost, Busy
<1>8. \A q \in Request : task'[q].at # "woken"
  BY <1>2, <1>3, <1>5
<1>9. Truth'
  BY <1>2, <1>8 DEF Inv, Truth, KnownTrue, WokenTrue, WokenFirst
<1> QED
  BY <1>2, <1>5, <1>7, <1>9 DEF Inv, Types

LEMMA StoreInv ==
  ASSUME Inv, NEW r \in Request, Store(r)
  PROVE  Inv'
<1> DEFINE h == task[r].host
           v == task[r].parser
<1>1. Busy(r) /\ task[r].at = "parsing" /\ h \in Host /\ v \in Verdict
  BY TaskTypes DEF Store, Busy, Inv, Verdict
<1>2. \A q \in Request : task[q].at = "woken" => task[q].host # h
  BY <1>1 DEF Inv, Truth, WokenFirst
<1>3. /\ parsers' = Put(parsers, [host |-> h, parser |-> v])
      /\ task' \in Woken(r, v) /\ inflight' = inflight \ {h}
      /\ latest' = [latest EXCEPT ![h] = v]
      /\ failedAt' = Without(failedAt, h)
      /\ fails' = [fails EXCEPT ![h] = 0]
      /\ UNCHANGED <<now, failTime>>
  BY DEF Store
<1>4. /\ Cache(parsers', ParserEntry) /\ task' \in [Request -> Task]
      /\ latest' \in [Host -> Verdict] /\ Flight' /\ Truth'
  BY <1>1, <1>2, <1>3, FetchEnds
<1>5. Cache(failedAt', FailureEntry)
  BY <1>3, WithoutCache DEF Inv, Types
<1>6. fails' \in [Host -> Nat]
  BY <1>3 DEF Inv, Types
<1> QED
  BY <1>3, <1>4, <1>5, <1>6 DEF Inv, Types

\* The entry that a failure sets.
LEMMA FailureType ==
  ASSUME Inv, NEW h \in Host
  PROVE  [host |-> h, stamp |-> now, failures |-> Failures(h)] \in FailureEntry
<1>1. now \in Nat
  BY DEF Inv, Types
<1>2. CASE Has(failedAt, h)
  <2>1. Get(failedAt, h) \in FailureEntry
    BY <1>2, GetEntry, EntryHosts DEF Inv
  <2> QED
    BY <1>1, <1>2, <2>1 DEF FailureEntry, Failures
<1>3. CASE ~ Has(failedAt, h)
  BY <1>1, <1>3 DEF FailureEntry, Failures
<1> QED
  BY <1>2, <1>3

LEMMA FailInv ==
  ASSUME Inv, NEW r \in Request, Fail(r)
  PROVE  Inv'
<1> DEFINE h == task[r].host
           e == [host |-> h, stamp |-> now, failures |-> Failures(h)]
<1>1. Busy(r) /\ h \in Host /\ "none" \in Verdict
  BY TaskTypes DEF Fail, Busy, Inv, Verdict
<1>2. \A q \in Request : task[q].at = "woken" => task[q].host # h
  BY DEF Fail, NoneReady
<1>3. /\ parsers' = Put(parsers, [host |-> h, parser |-> "none"])
      /\ task' \in Woken(r, "none") /\ inflight' = inflight \ {h}
      /\ latest' = [latest EXCEPT ![h] = "none"]
      /\ failedAt' = Put(failedAt, e)
      /\ fails' = [fails EXCEPT ![h] = @ + 1]
      /\ failTime' = [failTime EXCEPT ![h] = now]
      /\ UNCHANGED now
  BY DEF Fail
<1>4. /\ Cache(parsers', ParserEntry) /\ task' \in [Request -> Task]
      /\ latest' \in [Host -> Verdict] /\ Flight' /\ Truth'
  BY <1>1, <1>2, <1>3, FetchEnds
<1>5. e \in FailureEntry
  BY <1>1, FailureType
<1>6. Cache(failedAt', FailureEntry)
  <2> HIDE DEF e
  <2>1. Cache(Put(failedAt, e), FailureEntry)
    BY <1>5, PutCache DEF Inv, Types
  <2> QED
    BY <1>3, <2>1
<1>7. fails' \in [Host -> Nat]
  BY <1>1, <1>3 DEF Inv, Types
<1>8. failTime' \in [Host -> Nat]
  <2>1. now \in Nat
    BY DEF Inv, Types
  <2> QED
    BY <1>1, <1>3, <2>1 DEF Inv, Types
<1> QED
  BY <1>3, <1>4, <1>6, <1>7, <1>8 DEF Inv, Types

LEMMA ResumeInv ==
  ASSUME Inv, NEW r \in Request, Resume(r)
  PROVE  Inv'
<1>1. /\ task[r].at = "woken" /\ task' = [task EXCEPT ![r] = Idle]
      /\ UNCHANGED <<now, parsers, failedAt, inflight, latest, fails, failTime>>
  BY DEF Resume
<1>2. Idle \in Task /\ Idle.at = "idle"
  BY DEF Task, Idle
<1>3. task' \in [Request -> Task] /\ WokenTrue' /\ WokenFirst'
  BY <1>1, <1>2, OneTask
<1>4. \A q \in Request : Busy(q)' => Busy(q) /\ task'[q] = task[q]
  BY <1>1, <1>2 DEF Inv, Types, Busy
<1>5. Flight'
  BY <1>1, <1>4 DEF Inv, Flight, OneFetchPerHost, Busy
<1> QED
  BY <1>1, <1>3, <1>5 DEF Inv, Types, Truth, KnownTrue

LEMMA TickInv ==
  ASSUME Inv, Tick
  PROVE  Inv'
<1>1. now' \in 0 .. MaxTime
  BY DEF Tick, Inv, Types
<1> QED
  BY <1>1 DEF Tick, Inv, Types, Flight, OneFetchPerHost, Busy, Truth, KnownTrue,
              WokenTrue, WokenFirst

LEMMA InitInv == Init => Inv
<1> SUFFICES ASSUME Init
             PROVE  Inv
  OBVIOUS
<1>1. Idle \in Task /\ Idle.at = "idle"
  BY DEF Task, Idle
<1>2. \A S : Cache(<<>>, S)
  BY DEF Cache
<1>3. ToSet(parsers) = {}
  BY DEF Init, ToSet
<1>4. Types
  BY <1>1, <1>2 DEF Init, Types, Verdict
<1>5. \A r \in Request : task[r].at = "idle"
  BY <1>1 DEF Init
<1> QED
  BY <1>3, <1>4, <1>5 DEF Inv, Flight, OneFetchPerHost, Busy, Truth, KnownTrue,
                          WokenTrue, WokenFirst

LEMMA NextInv == Inv /\ [Next]_vars => Inv'
<1> SUFFICES ASSUME Inv, [Next]_vars
             PROVE  Inv'
  OBVIOUS
<1>1. ASSUME NEW r \in Request, NEW h \in Host, AnswerFromCache(r, h) \/ Ask(r, h)
      PROVE  Inv'
  BY <1>1, FromCacheInv, AskInv
<1>2. ASSUME NEW r \in Request, Fetched(r) \/ Store(r) \/ Fail(r) \/ Resume(r)
      PROVE  Inv'
  BY <1>2, FetchedInv, StoreInv, FailInv, ResumeInv
<1>3. CASE UNCHANGED vars
  BY <1>3 DEF vars, Inv, Types, Flight, OneFetchPerHost, Busy, Truth, KnownTrue,
              WokenTrue, WokenFirst
<1> QED
  BY <1>1, <1>2, <1>3, TickInv DEF Next

LEMMA SpecInv == Spec => []Inv
BY InitInv, NextInv, PTL DEF Spec

\* Every reachable state is well typed: the caches stay within their limit and
\* hold one entry to a host.
THEOREM TypeCorrect == Spec => []TypeOK
<1>1. Inv => TypeOK
  BY TaskTypes DEF Inv, Types, Cache, TypeOK
<1> QED
  BY <1>1, SpecInv, PTL

\* Requests of one host share one fetch of its robots.txt: robots.py:129-134.
THEOREM OneFetch == Spec => []OneFetchPerHost
<1>1. Inv => OneFetchPerHost
  BY DEF Inv, Flight
<1> QED
  BY <1>1, SpecInv, PTL

-------------------------------------------------------------------------------
(* A page goes out on the word of the last fetch. *)

\* Each decision is made on the verdict of the last fetch of its host, or on none.
LEMMA DecisionTrue ==
  ASSUME Inv, OnlyAllowedPages, [Next]_vars
  PROVE  OnlyAllowedPages'
<1>1. ASSUME NEW r \in Request, NEW h \in Host, AnswerFromCache(r, h)
      PROVE  OnlyAllowedPages'
  <2>1. Get(parsers, h) \in ToSet(parsers) /\ Get(parsers, h).host = h
    BY <1>1, GetEntry DEF AnswerFromCache
  <2>2. Get(parsers, h).parser = latest[h]
    BY <2>1 DEF Inv, Truth, KnownTrue
  <2> QED
    BY <1>1, <2>2 DEF AnswerFromCache, Answered, Passes, OnlyAllowedPages
<1>2. ASSUME NEW r \in Request, Store(r) \/ Fail(r)
      PROVE  OnlyAllowedPages'
  <2>1. task[r].host \in Host
    BY <1>2, TaskTypes DEF Store, Fail, Inv
  <2>2. PICK v \in Verdict :
          /\ answer' = [how |-> "fetch", host |-> task[r].host, pass |-> Passes(v)]
          /\ latest' = [latest EXCEPT ![task[r].host] = v]
    BY <1>2, TaskTypes DEF Store, Fail, Answered, Verdict, Inv
  <2>3. latest'[task[r].host] = v
    BY <2>1, <2>2 DEF Inv, Types
  <2> QED
    BY <2>2, <2>3 DEF Passes, OnlyAllowedPages
<1>3. ASSUME NEW r \in Request, Resume(r)
      PROVE  OnlyAllowedPages'
  <2>1. task[r].parser \in {latest[task[r].host], "none"}
    BY <1>3 DEF Resume, Inv, Truth, WokenTrue
  <2> QED
    BY <1>3, <2>1 DEF Resume, Answered, Passes, OnlyAllowedPages
<1>4. ASSUME answer' = NoAnswer
      PROVE  OnlyAllowedPages'
  BY <1>4 DEF NoAnswer, OnlyAllowedPages
<1>5. CASE UNCHANGED vars
  BY <1>5 DEF vars, OnlyAllowedPages
<1> QED
  BY <1>1, <1>2, <1>3, <1>4, <1>5 DEF Next, Tick, Ask, Fetched

\* A page goes out only when the last fetch of its host's robots.txt succeeded
\* and allows it, whether this request made that fetch, waited for another's or
\* found its answer in the cache: robots.py:277-288.
THEOREM OnlyAllowed == Spec => []OnlyAllowedPages
<1>1. Init => OnlyAllowedPages
  BY DEF Init, NoAnswer, OnlyAllowedPages
<1> QED
  BY <1>1, SpecInv, DecisionTrue, PTL DEF Spec

-------------------------------------------------------------------------------
(* The wait after a failure. *)

\* What a fetch does to the cache of parsers, for the hosts not evicted.
LEMMA ParsersAfter ==
  ASSUME Inv, NEW h \in Host, NEW v \in Verdict,
         parsers' = Put(parsers, [host |-> h, parser |-> v])
  PROVE  /\ Hosts(parsers') \subseteq Hosts(parsers) \cup {h}
         /\ h \in Hosts(parsers')
         /\ \A g \in Hosts(parsers) : g \notin Evicts(parsers, h) => g \in Hosts(parsers')
<1> DEFINE e == [host |-> h, parser |-> v]
<1>1. e \in ParserEntry /\ e.host = h /\ Cache(parsers, ParserEntry)
  BY DEF ParserEntry, Inv, Types
<1>2. parsers' = Put(parsers, e)
  OBVIOUS
<1> HIDE DEF e
<1>3. /\ Hosts(Put(parsers, e)) \subseteq Hosts(parsers) \cup {e.host}
      /\ e.host \in Hosts(Put(parsers, e))
      /\ \A g \in Hosts(parsers) : g \notin Evicts(parsers, e.host) => g \in Hosts(Put(parsers, e))
  BY <1>1, PutHosts
<1> QED
  BY <1>1, <1>2, <1>3

LEMMA StoreHeld ==
  ASSUME Inv, Held, NEW r \in Request, Store(r)
  PROVE  Held'
<1> DEFINE h == task[r].host
           v == task[r].parser
<1>1. h \in Host /\ v \in Rules /\ v \in Verdict /\ v # "none"
  BY TaskTypes DEF Store, Inv, Rules, Verdict
<1>2. /\ parsers' = Put(parsers, [host |-> h, parser |-> v])
      /\ failedAt' = Without(failedAt, h)
      /\ inflight' = inflight \ {h}
      /\ latest' = [latest EXCEPT ![h] = v]
      /\ fails' = [fails EXCEPT ![h] = 0]
      /\ evicted' = (evicted \cup Evicts(parsers, h)) \ {h}
      /\ UNCHANGED failTime
  BY DEF Store
<1> HIDE DEF h, v
<1>3. /\ Hosts(parsers') \subseteq Hosts(parsers) \cup {h}
      /\ h \in Hosts(parsers')
      /\ \A g \in Hosts(parsers) : g \notin Evicts(parsers, h) => g \in Hosts(parsers')
  BY <1>1, <1>2, ParsersAfter
<1>4. /\ ToSet(failedAt') \subseteq ToSet(failedAt)
      /\ Hosts(failedAt') = Hosts(failedAt) \ {h}
  BY <1>2, WithoutCache DEF Inv, Types
<1>5. fails'[h] = 0 /\ \A g \in Host : g # h => fails'[g] = fails[g]
  BY <1>1, <1>2 DEF Inv, Types
<1>6. latest'[h] = v /\ \A g \in Host : g # h => latest'[g] = latest[g]
  BY <1>1, <1>2 DEF Inv, Types
<1>7. HeldAsIs'
  <2> SUFFICES ASSUME NEW f \in ToSet(failedAt'), f.host \notin evicted'
               PROVE  fails'[f.host] > 0 /\ f.stamp = failTime'[f.host] /\ f.failures = fails'[f.host]
    BY DEF HeldAsIs
  <2>1. f \in ToSet(failedAt) /\ f.host # h
    BY <1>4, HasHost
  <2>2. f.host \in Host /\ f.host \notin evicted
    BY <1>2, <2>1, EntryHosts DEF Inv, FailureEntry
  <2> QED
    BY <1>2, <1>5, <2>1, <2>2 DEF Held, HeldAsIs
<1>8. HeldThere'
  <2> SUFFICES ASSUME NEW g \in Host, g \notin evicted', fails'[g] > 0
               PROVE  g \in Hosts(failedAt') /\ (g \in Hosts(parsers') \/ g \in inflight')
    BY DEF HeldThere
  <2>1. g # h /\ g \notin evicted /\ g \notin Evicts(parsers, h) /\ fails[g] > 0
    BY <1>2, <1>5
  <2>2. g \in Hosts(failedAt) /\ (g \in Hosts(parsers) \/ g \in inflight)
    BY <2>1 DEF Held, HeldThere
  <2> QED
    BY <1>2, <1>3, <1>4, <2>1, <2>2
<1>9. NoneIsFailed'
  BY <1>1, <1>3, <1>5, <1>6 DEF Held, NoneIsFailed
<1> QED
  BY <1>7, <1>8, <1>9 DEF Held

LEMMA FailHeld ==
  ASSUME Inv, Held, NEW r \in Request, Fail(r)
  PROVE  Held'
<1> DEFINE h == task[r].host
           e == [host |-> h, stamp |-> now, failures |-> Failures(h)]
<1>1. h \in Host /\ "none" \in Verdict
  BY TaskTypes DEF Fail, Inv, Verdict
<1>2. /\ parsers' = Put(parsers, [host |-> h, parser |-> "none"])
      /\ failedAt' = Put(failedAt, e)
      /\ inflight' = inflight \ {h}
      /\ fails' = [fails EXCEPT ![h] = @ + 1]
      /\ failTime' = [failTime EXCEPT ![h] = now]
      /\ latest' = [latest EXCEPT ![h] = "none"]
      /\ evicted' = evicted \cup Evicts(parsers, h) \cup Evicts(failedAt, h)
  BY DEF Fail
<1>3. e \in FailureEntry /\ e.host = h /\ e.stamp = now /\ e.failures = Failures(h)
  BY <1>1, FailureType
<1> HIDE DEF h, e
<1>4. /\ Hosts(parsers') \subseteq Hosts(parsers) \cup {h}
      /\ h \in Hosts(parsers')
      /\ \A g \in Hosts(parsers) : g \notin Evicts(parsers, h) => g \in Hosts(parsers')
  BY <1>1, <1>2, ParsersAfter
<1>5. /\ ToSet(failedAt') \subseteq {e} \cup {f \in ToSet(failedAt) : f.host # h}
      /\ h \in Hosts(failedAt')
      /\ \A g \in Hosts(failedAt) : g \notin Evicts(failedAt, h) => g \in Hosts(failedAt')
  <2>1. Cache(failedAt, FailureEntry)
    BY DEF Inv, Types
  <2>2. /\ ToSet(Put(failedAt, e)) \subseteq {e} \cup {f \in ToSet(failedAt) : f.host # e.host}
        /\ e.host \in Hosts(Put(failedAt, e))
        /\ \A g \in Hosts(failedAt) : g \notin Evicts(failedAt, e.host) => g \in Hosts(Put(failedAt, e))
    BY <1>3, <2>1, PutCache, PutHosts
  <2> QED
    BY <1>2, <1>3, <2>2
<1>6. /\ fails \in [Host -> Nat]
      /\ fails'[h] = fails[h] + 1 /\ fails'[h] > 0
      /\ \A g \in Host : g # h => fails'[g] = fails[g]
  BY <1>1, <1>2 DEF Inv, Types
<1>7. failTime'[h] = now /\ \A g \in Host : g # h => failTime'[g] = failTime[g]
  BY <1>1, <1>2 DEF Inv, Types
<1>8. \A g \in Host : g # h => latest'[g] = latest[g]
  BY <1>1, <1>2 DEF Inv, Types
<1>9. h \notin evicted => Failures(h) = fails[h] + 1
  <2> SUFFICES ASSUME h \notin evicted
               PROVE  Failures(h) = fails[h] + 1
    OBVIOUS
  <2>1. CASE Has(failedAt, h)
    <3>1. Get(failedAt, h) \in ToSet(failedAt) /\ Get(failedAt, h).host = h
      BY <2>1, GetEntry
    <3>2. Get(failedAt, h).failures = fails[h]
      BY <3>1 DEF Held, HeldAsIs
    <3> QED
      BY <2>1, <3>2 DEF Failures
  <2>2. CASE ~ Has(failedAt, h)
    <3>1. h \notin Hosts(failedAt)
      BY <2>2, HasHost
    <3>2. ~ (fails[h] > 0) /\ fails[h] \in Nat
      BY <1>1, <1>6, <3>1 DEF Held, HeldThere
    <3> QED
      BY <2>2, <3>2 DEF Failures
  <2> QED
    BY <2>1, <2>2
<1>10. HeldAsIs'
  <2> SUFFICES ASSUME NEW f \in ToSet(failedAt'), f.host \notin evicted'
               PROVE  fails'[f.host] > 0 /\ f.stamp = failTime'[f.host] /\ f.failures = fails'[f.host]
    BY DEF HeldAsIs
  <2>1. f.host \notin evicted
    BY <1>2
  <2>2. CASE f = e
    BY <1>3, <1>6, <1>7, <1>9, <2>1, <2>2
  <2>3. CASE f \in ToSet(failedAt) /\ f.host # h
    <3>1. f.host \in Host
      BY <2>3, EntryHosts DEF Inv, FailureEntry
    <3> QED
      BY <1>6, <1>7, <2>1, <2>3, <3>1 DEF Held, HeldAsIs
  <2> QED
    BY <1>5, <2>2, <2>3
<1>11. HeldThere'
  <2> SUFFICES ASSUME NEW g \in Host, g \notin evicted', fails'[g] > 0, g # h
               PROVE  g \in Hosts(failedAt') /\ (g \in Hosts(parsers') \/ g \in inflight')
    BY <1>4, <1>5 DEF HeldThere
  <2>1. /\ g \notin evicted /\ g \notin Evicts(parsers, h) /\ g \notin Evicts(failedAt, h)
        /\ fails[g] > 0
    BY <1>2, <1>6
  <2>2. g \in Hosts(failedAt) /\ (g \in Hosts(parsers) \/ g \in inflight)
    BY <2>1 DEF Held, HeldThere
  <2> QED
    BY <1>2, <1>4, <1>5, <2>1, <2>2
<1>12. NoneIsFailed'
  <2> SUFFICES ASSUME NEW g \in Host, g \in Hosts(parsers'), latest'[g] = "none", g # h
               PROVE  fails'[g] > 0
    BY <1>6 DEF NoneIsFailed
  <2> QED
    BY <1>4, <1>6, <1>8 DEF Held, NoneIsFailed
<1> QED
  BY <1>10, <1>11, <1>12 DEF Held

LEMMA AskHeld ==
  ASSUME Inv, Held, NEW r \in Request, NEW h \in Host, Ask(r, h)
  PROVE  Held'
<1>1. /\ parsers' = Without(parsers, h)
      /\ UNCHANGED <<failedAt, latest, fails, failTime, evicted>>
  BY DEF Ask
<1>2. inflight \cup {h} = inflight'
  BY DEF Ask, Joins
<1>3. Hosts(parsers') = Hosts(parsers) \ {h}
  BY <1>1, WithoutCache DEF Inv, Types
<1> QED
  BY <1>1, <1>2, <1>3 DEF Held, HeldAsIs, HeldThere, NoneIsFailed

LEMMA InitHeld == Init => Held
<1> SUFFICES ASSUME Init
             PROVE  Held
  OBVIOUS
<1>1. ToSet(failedAt) = {} /\ Hosts(parsers) = {}
  BY DEF Init, ToSet, Hosts
<1> QED
  BY <1>1 DEF Init, Held, HeldAsIs, HeldThere, NoneIsFailed

LEMMA NextHeld == Inv /\ Held /\ [Next]_vars => Held'
<1> SUFFICES ASSUME Inv, Held, [Next]_vars
             PROVE  Held'
  OBVIOUS
<1>1. ASSUME UNCHANGED <<parsers, failedAt, inflight, latest, fails, failTime, evicted>>
      PROVE  Held'
  BY <1>1 DEF Held, HeldAsIs, HeldThere, NoneIsFailed
<1>2. ASSUME NEW r \in Request, NEW h \in Host, AnswerFromCache(r, h) \/ Ask(r, h)
      PROVE  Held'
  BY <1>1, <1>2, AskHeld DEF AnswerFromCache
<1>3. ASSUME NEW r \in Request, Fetched(r) \/ Store(r) \/ Fail(r) \/ Resume(r)
      PROVE  Held'
  BY <1>1, <1>3, StoreHeld, FailHeld DEF Fetched, Resume
<1> QED
  BY <1>1, <1>2, <1>3 DEF Next, Tick, vars

\* For a host not evicted, a failure that lasts is the entry that is got.
LEMMA EntryOfFailure ==
  ASSUME Inv, Held, NEW h \in Host, h \notin evicted, fails[h] > 0
  PROVE  /\ Has(failedAt, h)
         /\ Get(failedAt, h).stamp = failTime[h]
         /\ Get(failedAt, h).failures = fails[h]
<1>1. Has(failedAt, h)
  BY HasHost DEF Held, HeldThere
<1>2. Get(failedAt, h) \in ToSet(failedAt) /\ Get(failedAt, h).host = h
  BY <1>1, GetEntry
<1> QED
  BY <1>1, <1>2 DEF Held, HeldAsIs

\* Only a request that asks starts a fetch.
LEMMA StartsByAsking ==
  ASSUME Inv, [Next]_vars, NEW r \in Request, StartsFetch(r)
  PROVE  \E h \in Host : Ask(r, h) /\ ~ Joins(h) /\ task'[r].host = h
<1>1. task[r] = Idle /\ task[r].at = "idle" /\ task'[r].at = "fetching" /\ task \in [Request -> Task]
  BY DEF StartsFetch, Idle, Inv, Types
<1>2. task' # task
  BY <1>1
<1>3. ASSUME NEW q \in Request, NEW h \in Host, Ask(q, h)
      PROVE  q = r /\ ~ Joins(h) /\ task'[r].host = h
  <2>1. CASE Joins(h)
    BY <1>1, <1>3, <2>1 DEF Ask
  <2>2. CASE ~ Joins(h)
    BY <1>1, <1>3, <2>2 DEF Ask
  <2> QED
    BY <2>1, <2>2
<1>4. ASSUME NEW q \in Request, Store(q) \/ Fail(q)
      PROVE  FALSE
  <2>1. PICK v \in Verdict : task' \in Woken(q, v)
    BY <1>4, TaskTypes DEF Store, Fail, Inv, Verdict
  <2>2. task'[r].at \in {"idle", "woken"}
    BY <1>1, <2>1 DEF Woken, Waiters, Idle
  <2> QED
    BY <1>1, <2>2
<1>5. ASSUME NEW q \in Request, Fetched(q)
      PROVE  FALSE
  BY <1>1, <1>5 DEF Fetched
<1>6. ASSUME NEW q \in Request, Resume(q)
      PROVE  FALSE
  BY <1>1, <1>6 DEF Resume
<1> QED
  BY <1>2, <1>3, <1>4, <1>5, <1>6 DEF Next, Tick, AnswerFromCache, vars

\* A host that has failed n times in a row is left alone for TtlFor(n), unless
\* a cache had to evict it: robots.py:76-81.
THEOREM BackoffKept == Spec => BackoffGrows
<1>1. ASSUME Inv, Held, [Next]_vars, NEW r \in Request, StartsFetch(r)
      PROVE  LET h == task'[r].host IN
             h \in evicted \/ fails[h] = 0 \/ now >= failTime[h] + TtlFor(fails[h])
  <2>1. PICK h \in Host : Ask(r, h) /\ ~ Joins(h) /\ task'[r].host = h
    BY <1>1, StartsByAsking
  <2>2. SUFFICES ASSUME h \notin evicted, fails[h] > 0
                 PROVE  now >= failTime[h] + TtlFor(fails[h])
    BY <1>1, <2>1 DEF Inv, Types
  <2>3. h \in Hosts(parsers)
    BY <1>1, <2>1, <2>2 DEF Held, HeldThere, Joins
  <2>4. Expired(h)
    BY <2>1, <2>3, HasHost DEF Ask, Misses
  <2> QED
    BY <1>1, <2>2, <2>4, EntryOfFailure DEF Expired
<1>2. Inv /\ Held /\ [Next]_vars =>
        [\A r \in Request : StartsFetch(r) =>
           LET h == task'[r].host IN
           h \in evicted \/ fails[h] = 0 \/ now >= failTime[h] + TtlFor(fails[h])]_vars
  BY <1>1
<1> QED
  BY <1>2, SpecInv, InitHeld, NextHeld, PTL DEF Spec, BackoffGrows

\* A wait is a number.
LEMMA TtlForInt ==
  ASSUME NEW n \in Nat
  PROVE  TtlFor(n) \in Int
<1>1. \A k \in Nat : 2^k \in Int
  BY SMT
<1>2. \A k \in Nat : Ttl * 2^k \in Int
  BY <1>1, SMT
<1> QED
  BY <1>2 DEF TtlFor

\* A failure in the cache refuses pages no longer than its wait, unless a cache
\* had to evict the host: robots.py:76-81.
THEOREM FailureHeld == Spec => FailureHeldInTime
<1>1. ASSUME Inv, Held, Next, RefusedFromCache, latest[answer'.host] = "none"
      PROVE  \/ answer'.host \in evicted
             \/ now < failTime[answer'.host] + TtlFor(fails[answer'.host])
  <2>1. PICK r \in Request, h \in Host : AnswerFromCache(r, h)
    <3>1. answer'.how = "cache"
      BY <1>1 DEF RefusedFromCache
    <3>2. ASSUME answer' = NoAnswer
          PROVE  FALSE
      BY <3>1, <3>2 DEF NoAnswer
    <3>3. ASSUME NEW q \in Request, Store(q) \/ Fail(q) \/ Resume(q)
          PROVE  FALSE
      BY <3>1, <3>3 DEF Store, Fail, Resume, Answered
    <3> QED
      BY <1>1, <3>2, <3>3 DEF Next, Tick, Ask, Fetched
  <2>2. answer'.host = h
    BY <2>1 DEF AnswerFromCache, Answered
  <2>3. SUFFICES ASSUME h \notin evicted
                 PROVE  now < failTime[h] + TtlFor(fails[h])
    BY <2>2
  <2>4. Has(parsers, h) /\ h \in Hosts(parsers)
    BY <2>1, HasHost DEF AnswerFromCache
  <2>5. fails[h] > 0
    BY <1>1, <2>2, <2>4 DEF Held, NoneIsFailed
  <2>6. Get(parsers, h).parser = "none"
    BY <1>1, <2>2, <2>4, GetEntry DEF Inv, Truth, KnownTrue
  <2>7. ~ Expired(h)
    BY <2>1, <2>6 DEF AnswerFromCache
  <2>8. ~ (now >= failTime[h] + TtlFor(fails[h]))
    BY <1>1, <2>3, <2>5, <2>7, EntryOfFailure DEF Expired
  <2>9. now \in Int /\ failTime[h] \in Int /\ fails[h] \in Nat
    BY <1>1 DEF Inv, Types
  <2>10. TtlFor(fails[h]) \in Int
    BY <2>9, TtlForInt
  <2> QED
    BY <2>8, <2>9, <2>10
<1>2. Inv /\ Held /\ [Next]_vars =>
        [RefusedFromCache /\ latest[answer'.host] = "none" =>
           \/ answer'.host \in evicted
           \/ now < failTime[answer'.host] + TtlFor(fails[answer'.host])]_vars
  BY <1>1
<1> QED
  BY <1>2, SpecInv, InitHeld, NextHeld, PTL DEF Spec, FailureHeldInTime
===============================================================================
