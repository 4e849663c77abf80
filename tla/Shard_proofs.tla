------------------------------- MODULE Shard_proofs -------------------------------
(***************************************************************************)
(* The proofs about module Shard, for every set of URLs, every division of *)
(* the slots among the shards, every limit and any number of processes.    *)
(* What the frontier does is in Frontier_proofs.                           *)
(***************************************************************************)
EXTENDS Shard, Frontier_proofs

USE Numbers

Request == [url : Url, life : Nat, new : BOOLEAN]

\* A slot's file: what may come back when it is opened again.
Queue(s) == IF s \in Live THEN pqueues[s] ELSE <<>>
File(s) == popped[s] \o Queue(s)

Distinct(q) == \A i, j \in DOMAIN q : Same(q[i], q[j]) => i = j

\* q is a stretch of p.
Within(q, p) == \E k \in Nat : \A i \in DOMAIN q : i + k \in DOMAIN p /\ q[i] = p[i + k]

\* A request this process has let in is one its filter has seen.
Known(r) == r.life <= life /\ (r.life = life => r.url \in seen)

\* The slots that one of the processes so far has owned.
Ever == UNION {OwnedIn[i] : i \in 1 .. life}

Settled ==
  /\ phase \in {"running", "closing", "closed", "killed"}
  /\ life \in 1 .. MaxLives
  /\ phase # "running" => life < MaxLives
  /\ isOpen = Up
  /\ asking \subseteq Request /\ IsFiniteSet(asking)
  /\ started \subseteq Request
  /\ seen \subseteq Url /\ savedSeen \subseteq Url /\ seedsLeft \subseteq Url
  /\ queuedPer \in [Slot -> Nat] /\ unreleased \in [Slot -> Nat]
  /\ ~Up => asking = {} /\ active = NoneActive

Types == Kept(Request) /\ RingComplete /\ Settled

Placed ==
  /\ \A s \in Slot : \A i \in DOMAIN File(s) : SlotOf(File(s)[i].url) = s
  /\ \A s \in Slot : \A r \in active[s] : SlotOf(r.url) = s

Once ==
  /\ \A s \in Slot : Distinct(File(s))
  /\ \A s \in Slot : \A i \in DOMAIN File(s) : Known(File(s)[i])
  /\ \A r \in started \cup InFlight : Known(r)
  /\ \A q, r \in started : Same(q, r) => q = r
  /\ \A r \in started : \A q \in Queued : ~Same(q, r)

Ours ==
  /\ Live \subseteq Ever /\ activeJson \subseteq Ever
  /\ \A r \in InFlight : SlotOf(r.url) \in Ever

Memory == \A u \in seen \cup savedSeen : u \in gone \/ \E r \in Held : r.url = u

Inv == Types /\ Placed /\ Once /\ Ours /\ Memory /\ QueuedAccounted

LEMMA Setting ==
  /\ Url \subseteq Slot \X Nat /\ Seed \subseteq Url
  /\ MaxLives \in Nat /\ MaxLives >= 1
  /\ OwnedIn \in Seq(SUBSET Slot) /\ Len(OwnedIn) >= MaxLives
  /\ MaxCrawled \in Nat /\ MaxQueued \in Nat
BY ShardAssumption

LEMMA SlotOfUrl == \A u \in Url : SlotOf(u) \in Slot
BY Setting DEF SlotOf

-------------------------------------------------------------------------------
(* Sequences: what a stretch of one keeps of it. *)

LEMMA WithinEntry ==
  ASSUME NEW q, NEW p, Within(q, p), NEW i \in DOMAIN q
  PROVE  \E j \in DOMAIN p : q[i] = p[j]
BY DEF Within

LEMMA WithinDistinct ==
  ASSUME NEW R, NEW q \in Seq(R), NEW p, Within(q, p), Distinct(p)
  PROVE  Distinct(q)
<1>1. PICK k \in Nat : \A i \in DOMAIN q : i + k \in DOMAIN p /\ q[i] = p[i + k]
  BY DEF Within
<1>2. DOMAIN q \subseteq Nat
  BY LenProperties
<1>3. ASSUME NEW i \in DOMAIN q, NEW j \in DOMAIN q, Same(q[i], q[j])
      PROVE  i = j
  <2>1. i + k = j + k
    BY <1>1, <1>3 DEF Distinct
  <2> QED
    BY <1>2, <2>1
<1> QED
  BY <1>3 DEF Distinct

LEMMA WithinItself ==
  ASSUME NEW R, NEW q \in Seq(R)
  PROVE  Within(q, q) /\ Within(<<>>, q)
<1>1. DOMAIN q \subseteq Nat /\ 0 \in Nat
  BY LenProperties
<1>2. \A i \in DOMAIN q : i + 0 \in DOMAIN q /\ q[i] = q[i + 0]
  BY <1>1
<1>3. DOMAIN <<>> = {}
  OBVIOUS
<1> QED
  BY <1>1, <1>2, <1>3 DEF Within

\* The entries of a concatenation.
LEMMA Joined ==
  ASSUME NEW R, NEW p \in Seq(R), NEW q \in Seq(R)
  PROVE  /\ DOMAIN (p \o q) = 1 .. Len(p) + Len(q)
         /\ Len(p) \in Nat /\ Len(q) \in Nat
         /\ \A i \in 1 .. Len(p) : (p \o q)[i] = p[i]
         /\ \A i \in 1 .. Len(q) : (p \o q)[Len(p) + i] = q[i]
<1>1. /\ p \o q \in Seq(R) /\ Len(p \o q) = Len(p) + Len(q)
      /\ \A i \in 1 .. Len(p) + Len(q) :
           (p \o q)[i] = IF i <= Len(p) THEN p[i] ELSE q[i - Len(p)]
  BY ConcatProperties
<1>2. DOMAIN (p \o q) = 1 .. Len(p \o q)
  BY <1>1, LenProperties
<1>3. Len(p) \in Nat /\ Len(q) \in Nat
  BY LenProperties
<1>4. ASSUME NEW i \in 1 .. Len(p)
      PROVE  (p \o q)[i] = p[i]
  BY <1>1, <1>3
<1>5. ASSUME NEW i \in 1 .. Len(q)
      PROVE  (p \o q)[Len(p) + i] = q[i]
  <2>1. /\ Len(p) + i \in 1 .. Len(p) + Len(q) /\ ~ (Len(p) + i <= Len(p))
        /\ Len(p) + i - Len(p) = i
    BY <1>3
  <2> QED
    BY <1>1, <2>1
<1> QED
  BY <1>1, <1>2, <1>3, <1>4, <1>5

\* f is p followed by q.
Entries(f, p, q) ==
  /\ DOMAIN f = 1 .. Len(p) + Len(q)
  /\ Len(p) \in Nat /\ Len(q) \in Nat
  /\ \A i \in 1 .. Len(p) : f[i] = p[i]
  /\ \A i \in 1 .. Len(q) : f[Len(p) + i] = q[i]

LEMMA JoinedEntries ==
  ASSUME NEW R, NEW p \in Seq(R), NEW q \in Seq(R)
  PROVE  Entries(p \o q, p, q)
BY Joined DEF Entries

\* A stretch of the first part that ends with it, before the same second part.
LEMMA EndWithin ==
  ASSUME NEW p, NEW q, NEW t, NEW f, NEW g, Entries(f, t, q), Entries(g, p, q),
         NEW k \in Nat, Len(t) = Len(p) - k,
         \A j \in 1 .. Len(t) : t[j] = p[j + k]
  PROVE  Within(f, g)
<1> DEFINE n == Len(p)
           l == Len(t)
           m == Len(q)
<1>1. /\ DOMAIN f = 1 .. l + m /\ DOMAIN g = 1 .. n + m
      /\ n \in Nat /\ l \in Nat /\ m \in Nat /\ l = n - k
      /\ \A i \in 1 .. l : f[i] = t[i] /\ t[i] = p[i + k]
      /\ \A i \in 1 .. n : g[i] = p[i]
      /\ \A i \in 1 .. m : f[l + i] = q[i] /\ g[n + i] = q[i]
  BY DEF Entries
<1> HIDE DEF n, l, m
<1>2. ASSUME NEW j \in 1 .. l + m
      PROVE  j + k \in 1 .. n + m /\ f[j] = g[j + k]
  <2>1. j + k \in 1 .. n + m
    BY <1>1
  <2>2. CASE j <= l
    <3>1. j \in 1 .. l /\ j + k \in 1 .. n
      BY <1>1, <2>2
    <3> QED
      BY <1>1, <2>1, <3>1
  <2>3. CASE j > l
    <3>1. j - l \in 1 .. m /\ l + (j - l) = j /\ n + (j - l) = j + k
      BY <1>1, <2>3
    <3>2. f[l + (j - l)] = q[j - l] /\ g[n + (j - l)] = q[j - l]
      BY <1>1, <3>1
    <3> QED
      BY <2>1, <3>1, <3>2
  <2> QED
    BY <1>1, <2>2, <2>3
<1> QED
  BY <1>1, <1>2 DEF Within

LEMMA JoinedEnd ==
  ASSUME NEW R, NEW p \in Seq(R), NEW q \in Seq(R), NEW i \in 1 .. Len(p) + 1
  PROVE  Within(SubSeq(p, i, Len(p)) \o q, p \o q)
<1> DEFINE t == SubSeq(p, i, Len(p))
           n == Len(p)
           k == i - 1
<1>1. n \in Nat /\ \A j \in 1 .. n : p[j] \in R
  BY LenProperties, ElementOfSeq
<1>2. /\ t \in Seq(R)
      /\ Len(t) = IF i <= n THEN n - i + 1 ELSE 0
      /\ \A j \in 1 .. n - i + 1 : t[j] = p[i + j - 1]
  <2>1. \A j \in i .. n : p[j] \in R
    BY <1>1
  <2> QED
    BY <1>1, <2>1, SubSeqProperties
<1> HIDE DEF t, n
<1>3. Len(t) = n - k /\ k \in Nat /\ i \in Nat
  <2>1. ASSUME NEW l, NEW m \in Nat, NEW a \in 1 .. m + 1, l = IF a <= m THEN m - a + 1 ELSE 0
        PROVE  l = m - (a - 1) /\ a - 1 \in Nat
    BY <2>1
  <2>2. i \in 1 .. n + 1
    BY DEF n
  <2> QED
    BY <1>1, <1>2, <2>1, <2>2
<1>4. ASSUME NEW j \in 1 .. Len(t)
      PROVE  t[j] = p[j + k]
  <2>1. j \in 1 .. n - i + 1 /\ i + j - 1 = j + k
    BY <1>1, <1>3
  <2> QED
    BY <1>2, <2>1
<1>5. Entries(t \o q, t, q) /\ Entries(p \o q, p, q)
  <2>1. t \in Seq(R)
    BY <1>2
  <2> QED
    BY <2>1, JoinedEntries
<1>6. k \in Nat /\ Len(t) = Len(p) - k
  BY <1>3 DEF n
<1> HIDE DEF k
<1>7. Within(t \o q, p \o q)
  BY <1>4, <1>5, <1>6, EndWithin
<1> QED
  BY <1>7 DEF t

\* The first entry of the second part becomes the last of the first.
LEMMA MovedWithin ==
  ASSUME NEW R, NEW p \in Seq(R), NEW q \in Seq(R), q # <<>>, NEW f, NEW g,
         Entries(f, Append(p, Head(q)), Tail(q)), Entries(g, p, q)
  PROVE  Within(f, g)
<1> DEFINE n == Len(p)
           m == Len(q)
           a == Append(p, Head(q))
           b == Tail(q)
<1>1. n \in Nat /\ m \in Nat
  BY LenProperties
<1>2. Head(q) \in R /\ Head(q) = q[1] /\ Len(b) = m - 1 /\ \A i \in 1 .. Len(b) : b[i] = q[i + 1]
  BY HeadTailProperties
<1>3. Len(a) = n + 1 /\ a[n + 1] = Head(q) /\ \A i \in 1 .. n : a[i] = p[i]
  BY <1>2, AppendProperties
<1>4. /\ DOMAIN f = 1 .. Len(a) + Len(b) /\ Len(b) \in Nat
      /\ \A i \in 1 .. Len(a) : f[i] = a[i]
      /\ \A i \in 1 .. Len(b) : f[Len(a) + i] = b[i]
  BY DEF Entries
<1>5. /\ DOMAIN g = 1 .. n + m
      /\ \A i \in 1 .. n : g[i] = p[i]
      /\ \A i \in 1 .. m : g[n + i] = q[i]
  BY DEF Entries
<1> HIDE DEF a, b, n, m
<1>6. ASSUME NEW i \in DOMAIN f
      PROVE  i + 0 \in DOMAIN g /\ f[i] = g[i + 0]
  <2>1. i \in 1 .. n + m /\ i + 0 = i /\ i \in Nat
    BY <1>1, <1>2, <1>3, <1>4
  <2>2. CASE i <= n
    <3>1. i \in 1 .. n /\ i \in 1 .. Len(a)
      BY <1>1, <1>3, <2>1, <2>2
    <3>2. f[i] = a[i] /\ a[i] = p[i] /\ g[i] = p[i]
      BY <1>3, <1>4, <1>5, <3>1
    <3> QED
      BY <1>5, <2>1, <3>2
  <2>3. CASE i = n + 1
    <3>1. i \in 1 .. Len(a) /\ 1 \in 1 .. m
      BY <1>1, <1>3, <2>1, <2>3
    <3>2. f[i] = a[i] /\ g[n + 1] = q[1]
      BY <1>4, <1>5, <3>1
    <3> QED
      BY <1>2, <1>3, <1>5, <2>1, <2>3, <3>2
  <2>4. CASE i > n + 1
    <3>0. PICK j : j = i - (n + 1)
      OBVIOUS
    <3>1. j \in 1 .. Len(b) /\ j + 1 \in 1 .. m /\ Len(a) + j = i /\ n + (j + 1) = i
      <4>1. Len(b) = m - 1 /\ Len(a) = n + 1
        BY <1>2, <1>3
      <4>2. n \in Nat /\ m \in Nat /\ i \in Nat /\ i <= n + m /\ i > n + 1
        BY <1>1, <2>1, <2>4
      <4>3. j \in 1 .. m - 1 /\ j + 1 \in 1 .. m /\ (n + 1) + j = i /\ n + (j + 1) = i
        <5>1. j \in Int /\ n \in Int /\ m \in Int /\ i \in Int
          BY <3>0, <4>2
        <5> QED
          BY <3>0, <4>2, <5>1
      <4> QED
        BY <4>1, <4>3
    <3>2. f[Len(a) + j] = b[j] /\ b[j] = q[j + 1] /\ g[n + (j + 1)] = q[j + 1]
      BY <1>2, <1>4, <1>5, <3>1
    <3>3. f[i] = q[j + 1] /\ g[i] = q[j + 1]
      BY <3>1, <3>2
    <3> QED
      BY <1>5, <2>1, <3>3
  <2> QED
    BY <1>1, <2>1, <2>2, <2>3, <2>4
<1> QED
  BY <1>6 DEF Within

\* f is g with r after it.
Extended(f, g, r) ==
  \E n \in Nat :
    /\ DOMAIN g = 1 .. n /\ DOMAIN f = 1 .. n + 1
    /\ \A i \in 1 .. n : f[i] = g[i]
    /\ f[n + 1] = r

LEMMA AppendedExtends ==
  ASSUME NEW R, NEW p, NEW q \in Seq(R), NEW r \in R, NEW f, NEW g,
         Entries(f, p, Append(q, r)), Entries(g, p, q)
  PROVE  Extended(f, g, r)
<1> DEFINE n == Len(p)
           m == Len(q)
           b == Append(q, r)
<1>1. Len(b) = m + 1 /\ b[m + 1] = r /\ \A i \in 1 .. m : b[i] = q[i]
  BY AppendProperties
<1>2. /\ DOMAIN f = 1 .. n + Len(b)
      /\ \A i \in 1 .. n : f[i] = p[i]
      /\ \A i \in 1 .. Len(b) : f[n + i] = b[i]
  BY DEF Entries
<1>3. /\ DOMAIN g = 1 .. n + m /\ n \in Nat /\ m \in Nat
      /\ \A i \in 1 .. n : g[i] = p[i]
      /\ \A i \in 1 .. m : g[n + i] = q[i]
  BY DEF Entries
<1> HIDE DEF n, m, b
<1>4. DOMAIN f = 1 .. (n + m) + 1
  BY <1>1, <1>2, <1>3
<1>5. f[(n + m) + 1] = r
  <2>1. m + 1 \in 1 .. Len(b) /\ n + (m + 1) = (n + m) + 1
    BY <1>1, <1>3
  <2>2. f[n + (m + 1)] = b[m + 1]
    BY <1>2, <2>1
  <2> QED
    BY <1>1, <2>1, <2>2
<1>6. ASSUME NEW i \in 1 .. n + m
      PROVE  f[i] = g[i]
  <2>1. CASE i <= n
    <3>1. i \in 1 .. n
      BY <1>3, <2>1
    <3> QED
      BY <1>2, <1>3, <3>1
  <2>2. CASE i > n
    <3> DEFINE j == i - n
    <3>1. j \in 1 .. m /\ j \in 1 .. Len(b) /\ n + j = i
      BY <1>1, <1>3, <2>2
    <3> HIDE DEF j
    <3>2. f[n + j] = b[j] /\ b[j] = q[j] /\ g[n + j] = q[j]
      BY <1>1, <1>2, <1>3, <3>1
    <3> QED
      BY <3>1, <3>2
  <2> QED
    BY <1>3, <2>1, <2>2
<1>7. n + m \in Nat
  BY <1>3
<1> QED
  BY <1>3, <1>4, <1>5, <1>6, <1>7 DEF Extended

LEMMA ExtendedEntry ==
  ASSUME NEW f, NEW g, NEW r, Extended(f, g, r), NEW i \in DOMAIN f
  PROVE  f[i] = r \/ \E j \in DOMAIN g : f[i] = g[j]
BY DEF Extended

LEMMA ExtendedDistinct ==
  ASSUME NEW f, NEW g, NEW r, Extended(f, g, r), Distinct(g),
         \A i \in DOMAIN g : ~ Same(g[i], r)
  PROVE  Distinct(f)
<1>1. PICK n \in Nat : /\ DOMAIN g = 1 .. n /\ DOMAIN f = 1 .. n + 1
                       /\ \A i \in 1 .. n : f[i] = g[i]
                       /\ f[n + 1] = r
  BY DEF Extended
<1>2. \A x, y : Same(x, y) => Same(y, x)
  BY DEF Same
<1>3. ASSUME NEW i \in DOMAIN f, NEW j \in DOMAIN f, Same(f[i], f[j])
      PROVE  i = j
  <2>1. CASE i \in 1 .. n /\ j \in 1 .. n
    <3>1. Same(g[i], g[j])
      BY <1>1, <1>3, <2>1
    <3> QED
      BY <1>1, <2>1, <3>1 DEF Distinct
  <2>2. CASE i = n + 1 /\ j \in 1 .. n
    BY <1>1, <1>2, <1>3, <2>2
  <2>3. CASE i \in 1 .. n /\ j = n + 1
    BY <1>1, <1>3, <2>3
  <2> QED
    BY <1>1, <2>1, <2>2, <2>3
<1> QED
  BY <1>3 DEF Distinct

-------------------------------------------------------------------------------
(* What the frontier's operations do to the files and to what is queued. *)

LEMMA FileSeq ==
  ASSUME Kept(Request), NEW s \in Slot
  PROVE  /\ popped[s] \in Seq(Request) /\ Queue(s) \in Seq(Request) /\ File(s) \in Seq(Request)
         /\ Entries(File(s), popped[s], Queue(s))
<1>1. popped[s] \in Seq(Request) /\ Queue(s) \in Seq(Request)
  BY EmptySeq DEF Kept, Queue
<1>2. File(s) \in Seq(Request)
  BY <1>1, ConcatProperties DEF File
<1>3. Entries(File(s), popped[s], Queue(s))
  BY <1>1, JoinedEntries DEF File
<1> QED
  BY <1>1, <1>2, <1>3

\* What is queued is in the file.
LEMMA QueueWithin ==
  ASSUME Kept(Request), NEW s \in Slot
  PROVE  Within(Queue(s), File(s))
<1>1. Entries(File(s), popped[s], Queue(s)) /\ Queue(s) \in Seq(Request)
  BY FileSeq
<1>2. DOMAIN Queue(s) = 1 .. Len(Queue(s))
  BY <1>1, LenProperties
<1>3. ASSUME NEW i \in DOMAIN Queue(s)
      PROVE  i + Len(popped[s]) \in DOMAIN File(s) /\ Queue(s)[i] = File(s)[i + Len(popped[s])]
  <2>1. /\ Len(popped[s]) + i \in 1 .. Len(popped[s]) + Len(Queue(s))
        /\ Len(popped[s]) + i = i + Len(popped[s])
    BY <1>1, <1>2 DEF Entries
  <2> QED
    BY <1>1, <1>2, <2>1 DEF Entries
<1>4. Len(popped[s]) \in Nat
  BY <1>1 DEF Entries
<1> QED
  BY <1>3, <1>4 DEF Within

\* A queue that is saved, or not, and otherwise left alone.
LEMMA SavedFile ==
  ASSUME Kept(Request), NEW s \in Slot, pqueues' = pqueues,
         popped'[s] = popped[s] \/ popped'[s] = <<>>
  PROVE  Within(File(s)', File(s))
<1>1. /\ popped[s] \in Seq(Request) /\ Queue(s) \in Seq(Request) /\ File(s) \in Seq(Request)
  BY FileSeq
<1>2. Queue(s)' = Queue(s)
  BY DEF Queue, Live
<1>3. CASE popped'[s] = popped[s]
  <2>1. File(s)' = File(s)
    BY <1>2, <1>3 DEF File
  <2> QED
    BY <1>1, <2>1, WithinItself
<1>4. CASE popped'[s] = <<>>
  <2>1. File(s)' = Queue(s)
    BY <1>1, <1>2, <1>4, ConcatEmptySeq DEF File
  <2> QED
    BY <2>1, QueueWithin
<1> QED
  BY <1>3, <1>4

LEMMA EnqueueFile ==
  ASSUME Kept(Request), NEW s \in Slot, NEW r \in Request, Enqueue(s, r)
  PROVE  /\ Extended(File(s)', File(s), r)
         /\ \A t \in Slot \ {s} : File(t)' = File(t)
<1>1. popped[s] \in Seq(Request) /\ Queue(s) \in Seq(Request)
  BY FileSeq
<1>2. /\ popped' = popped
      /\ pqueues' = With(pqueues, s, IF s \in Live THEN Append(pqueues[s], r) ELSE <<r>>)
  BY DEF Enqueue
<1>3. DOMAIN pqueues' = Live \cup {s} /\ \A t \in Live \ {s} : pqueues'[t] = pqueues[t]
  BY <1>2 DEF With, Live
<1>4. Queue(s)' = Append(Queue(s), r)
  <2>1. CASE s \in Live
    BY <1>2, <2>1 DEF Queue, With, Live
  <2>2. CASE s \notin Live
    <3>1. Queue(s)' = <<r>> /\ Queue(s) = <<>>
      BY <1>2, <2>2 DEF Queue, With, Live
    <3>2. Append(<<>>, r) = <<r>>
      OBVIOUS
    <3> QED
      BY <3>1, <3>2
  <2> QED
    BY <2>1, <2>2
<1>5. \A t \in Slot \ {s} : File(t)' = File(t)
  BY <1>2, <1>3 DEF File, Queue, Live
<1>6. Append(Queue(s), r) \in Seq(Request)
  BY <1>1, AppendProperties
<1>7. Entries(File(s)', popped[s], Append(Queue(s), r)) /\ Entries(File(s), popped[s], Queue(s))
  BY <1>1, <1>2, <1>4, <1>6, JoinedEntries DEF File
<1> QED
  BY <1>1, <1>5, <1>7, AppendedExtends

LEMMA NextFile ==
  ASSUME Kept(Request), RingComplete, isOpen, NextRequest, NEW t \in Slot
  PROVE  Within(File(t)', File(t))
<1>1. popped[t] \in Seq(Request) /\ Queue(t) \in Seq(Request) /\ File(t) \in Seq(Request)
  BY FileSeq
<1>2. Winner \in Live /\ pqueues \in [Live -> Seq(Request)] /\ popped \in [Slot -> Seq(Request)]
  BY WinnerLive DEF NextRequest, Kept
<1>3. CASE t # Winner
  <2>1. popped'[t] = popped[t] /\ Queue(t)' = Queue(t)
    BY <1>2, <1>3 DEF NextRequest, Queue, Omit, Restrict, Live
  <2>2. File(t)' = File(t)
    BY <2>1 DEF File
  <2> QED
    BY <1>1, <2>2, WithinItself
<1>4. CASE t = Winner /\ Len(pqueues[Winner]) <= 1
  <2>1. popped'[t] = <<>> /\ Queue(t)' = <<>>
    BY <1>2, <1>4 DEF NextRequest, Queue, Omit, Restrict, Live
  <2>2. File(t)' = <<>>
    <3>1. <<>> \o <<>> = <<>>
      BY <1>1, EmptySeq, ConcatEmptySeq
    <3> QED
      BY <2>1, <3>1 DEF File
  <2> QED
    BY <1>1, <2>2, WithinItself
<1>5. CASE t = Winner /\ ~ (Len(pqueues[Winner]) <= 1)
  <2>1. /\ pqueues' = [pqueues EXCEPT ![Winner] = Tail(pqueues[Winner])]
        /\ popped' = [popped EXCEPT ![Winner] = Append(popped[Winner], Head(pqueues[Winner]))]
    BY <1>5 DEF NextRequest
  <2>2. Queue(t) = pqueues[Winner] /\ t \in Live
    BY <1>2, <1>5 DEF Queue
  <2>3. popped'[t] = Append(popped[t], Head(Queue(t))) /\ Queue(t)' = Tail(Queue(t))
    BY <1>2, <1>5, <2>1, <2>2 DEF Queue, Live
  <2>4. Queue(t) # <<>>
    BY <1>5, <2>2, EmptySeq
  <2>5. Append(popped[t], Head(Queue(t))) \in Seq(Request) /\ Tail(Queue(t)) \in Seq(Request)
    BY <1>1, <2>4, HeadTailProperties, AppendProperties
  <2>6. /\ Entries(File(t)', Append(popped[t], Head(Queue(t))), Tail(Queue(t)))
        /\ Entries(File(t), popped[t], Queue(t))
    BY <1>1, <2>3, <2>5, JoinedEntries DEF File
  <2> QED
    BY <1>1, <2>4, <2>6, MovedWithin
<1> QED
  BY <1>3, <1>4, <1>5

LEMMA OpenedFile ==
  ASSUME Kept(Request), Opened, NEW t \in Slot
  PROVE  /\ Within(File(t)', File(t))
         /\ Queue(t) # <<>> => Within(Queue(t), Queue(t)')
<1>1. popped[t] \in Seq(Request) /\ Queue(t) \in Seq(Request) /\ File(t) \in Seq(Request)
  BY FileSeq
<1>2. /\ DOMAIN pqueues' = Listed /\ popped' = NothingPopped
      /\ \A s \in Listed : IF s \in OnDisk THEN pqueues'[s] \in Replays(s)
                                           ELSE pqueues'[s] = <<>>
      /\ pqueues' \in [Listed -> Seq(Request)]
  BY OpenedQueues DEF Opened
<1>3. Queue(t)' \in Seq(Request)
  BY <1>2, EmptySeq DEF Queue, Live
<1>4. File(t)' = Queue(t)'
  BY <1>2, <1>3, ConcatEmptySeq DEF File, NothingPopped
<1>5. CASE t \in OnDisk
  <2>1. t \in Listed /\ Queue(t)' \in Replays(t) /\ Queue(t) = pqueues[t]
    BY <1>2, <1>5 DEF Listed, Queue, Live, OnDisk
  <2>2. PICK i \in 1 .. Len(popped[t]) + 1 :
          Queue(t)' = SubSeq(popped[t], i, Len(popped[t])) \o Queue(t)
    BY <2>1 DEF Replays
  <2>3. Within(File(t)', File(t))
    BY <1>1, <1>4, <2>2, JoinedEnd DEF File
  <2> DEFINE a == SubSeq(popped[t], i, Len(popped[t]))
  <2>4. a \in Seq(Request)
    <3>1. Len(popped[t]) \in Nat /\ \A j \in 1 .. Len(popped[t]) : popped[t][j] \in Request
      BY <1>1, LenProperties, ElementOfSeq
    <3>2. \A j \in i .. Len(popped[t]) : popped[t][j] \in Request
      BY <3>1
    <3> QED
      BY <3>1, <3>2, SubSeqProperties
  <2> HIDE DEF a
  <2>5. Entries(Queue(t)', a, Queue(t))
    BY <1>1, <2>2, <2>4, JoinedEntries DEF a
  <2>6. DOMAIN Queue(t) = 1 .. Len(Queue(t))
    BY <1>1, LenProperties
  <2>7. ASSUME NEW j \in DOMAIN Queue(t)
        PROVE  j + Len(a) \in DOMAIN Queue(t)' /\ Queue(t)[j] = Queue(t)'[j + Len(a)]
    <3>1. Len(a) + j \in 1 .. Len(a) + Len(Queue(t)) /\ Len(a) + j = j + Len(a)
      BY <2>5, <2>6 DEF Entries
    <3> QED
      BY <2>5, <2>6, <3>1 DEF Entries
  <2>8. Within(Queue(t), Queue(t)')
    BY <2>5, <2>7 DEF Within, Entries
  <2> QED
    BY <2>3, <2>8
<1>6. CASE t \notin OnDisk
  <2>1. Queue(t) = <<>> /\ Queue(t)' = <<>>
    BY <1>2, <1>6 DEF Queue, Live, OnDisk
  <2> QED
    BY <1>1, <1>4, <2>1, WithinItself
<1> QED
  BY <1>5, <1>6

LEMMA QueuedEntry ==
  \A r : r \in Queued <=> \E s \in Live : \E i \in DOMAIN pqueues[s] : r = pqueues[s][i]
BY DEF Queued, ToSet

LEMMA QueuesFinite ==
  ASSUME NEW D, IsFiniteSet(D), NEW pq \in [D -> Seq(Request)]
  PROVE  LET Q == UNION {ToSet(pq[s]) : s \in D} IN IsFiniteSet(Q) /\ Q \subseteq Request
<1> DEFINE P == Places(pq)
           Q == UNION {ToSet(pq[s]) : s \in D}
           f == [p \in P |-> pq[p[1]][p[2]]]
<1>1. IsFiniteSet(P)
  BY PlacesFinite
<1>2. \A r : r \in Q <=> \E s \in D : \E i \in DOMAIN pq[s] : r = pq[s][i]
  BY DEF ToSet
<1> HIDE DEF Q
<1>3. \A p \in P : f[p] \in Q
  <2> SUFFICES ASSUME NEW p \in P
               PROVE  f[p] \in Q
    OBVIOUS
  <2>1. PICK s, i : s \in DOMAIN pq /\ i \in DOMAIN pq[s] /\ p = <<s, i>>
    BY PlaceOf
  <2> QED
    BY <1>2, <2>1
<1>4. ASSUME NEW r \in Q
      PROVE  \E p \in P : f[p] = r
  <2>1. PICK s \in D : \E i \in DOMAIN pq[s] : r = pq[s][i]
    BY <1>2
  <2>2. PICK i \in DOMAIN pq[s] : r = pq[s][i]
    BY <2>1
  <2>3. <<s, i>> \in P
    BY PlacesOf
  <2> QED
    BY <2>2, <2>3
<1>5. f \in Surjection(P, Q)
  BY <1>3, <1>4 DEF Surjection
<1>6. IsFiniteSet(Q)
  <2> HIDE DEF f, P
  <2> QED
    BY <1>1, <1>5, FS_Surjection
<1>7. ASSUME NEW s \in D, NEW i \in DOMAIN pq[s]
      PROVE  pq[s][i] \in Request
  <2>1. pq[s] \in Seq(Request)
    OBVIOUS
  <2> QED
    BY <2>1, ElementOfSeq, LenProperties
<1>8. Q \subseteq Request
  BY <1>2, <1>7
<1> QED
  BY <1>6, <1>8 DEF Q

LEMMA QueuedFinite ==
  /\ Kept(Request) => IsFiniteSet(Queued) /\ Queued \subseteq Request
  /\ Kept(Request)' => IsFiniteSet(Queued')
<1>1. ASSUME Kept(Request) PROVE IsFiniteSet(Queued) /\ Queued \subseteq Request
  <2>1. IsFiniteSet(Live) /\ pqueues \in [Live -> Seq(Request)]
    BY <1>1 DEF Kept
  <2> QED
    BY <2>1, QueuesFinite DEF Queued
<1>2. ASSUME Kept(Request)' PROVE IsFiniteSet(Queued')
  <2>1. IsFiniteSet(Live') /\ pqueues' \in [Live' -> Seq(Request)]
    BY <1>2 DEF Kept
  <2>2. Queued' = UNION {ToSet(pqueues'[s]) : s \in Live'}
    BY DEF Queued
  <2> QED
    BY <2>1, <2>2, QueuesFinite
<1> QED
  BY <1>1, <1>2

\* What is queued is in the files.
LEMMA QueuedInFile ==
  ASSUME Kept(Request), NEW r \in Queued
  PROVE  \E s \in Slot : s \in Live /\ \E i \in DOMAIN File(s) : r = File(s)[i]
<1>1. PICK s \in Live : \E i \in DOMAIN pqueues[s] : r = pqueues[s][i]
  BY QueuedEntry
<1>2. s \in Slot /\ Queue(s) = pqueues[s]
  BY DEF Kept, Queue
<1>3. PICK i \in DOMAIN Queue(s) : r = Queue(s)[i]
  BY <1>1, <1>2
<1>4. PICK j \in DOMAIN File(s) : Queue(s)[i] = File(s)[j]
  BY <1>2, QueueWithin, WithinEntry
<1> QED
  BY <1>2, <1>3, <1>4

LEMMA EnqueueQueued ==
  ASSUME Kept(Request), NEW s \in Slot, NEW r \in Request, Enqueue(s, r)
  PROVE  Queued' = Queued \cup {r}
<1>0. pqueues' = With(pqueues, s, IF s \in Live THEN Append(pqueues[s], r) ELSE <<r>>)
  BY DEF Enqueue
<1>1. /\ DOMAIN pqueues' = Live \cup {s}
      /\ \A t \in Live \ {s} : pqueues'[t] = pqueues[t]
      /\ s \in Live => pqueues'[s] = Append(pqueues[s], r)
      /\ s \notin Live => pqueues'[s] = <<r>>
  BY <1>0 DEF With, Live
<1>2. ASSUME NEW x
      PROVE  (\E i \in DOMAIN pqueues'[s] : x = pqueues'[s][i])
               <=> \/ x = r
                   \/ s \in Live /\ \E i \in DOMAIN pqueues[s] : x = pqueues[s][i]
  <2>1. CASE s \notin Live
    <3>1. pqueues'[s] = <<r>> /\ DOMAIN <<r>> = {1} /\ <<r>>[1] = r
      BY <1>1, <2>1
    <3> QED
      BY <2>1, <3>1
  <2>2. CASE s \in Live
    <3> DEFINE q == pqueues[s]
               a == Append(q, r)
    <3>1. q \in Seq(Request)
      BY <2>2 DEF Kept
    <3>2. PICK n \in Nat : n = Len(q) /\ DOMAIN q = 1 .. n /\ DOMAIN a = 1 .. n + 1
      BY <3>1, Longer
    <3>3. a[n + 1] = r /\ \A i \in 1 .. n : a[i] = q[i]
      BY <3>1, <3>2, AppendProperties
    <3>4. pqueues'[s] = a
      BY <1>1, <2>2
    <3> HIDE DEF a, q
    <3>5. (\E i \in DOMAIN a : x = a[i]) <=> (x = r \/ \E i \in DOMAIN q : x = q[i])
      <4>1. 1 .. n + 1 = (1 .. n) \cup {n + 1}
        BY <3>2
      <4> QED
        BY <3>2, <3>3, <4>1
    <3> QED
      BY <2>2, <3>4, <3>5 DEF q
  <2> QED
    BY <2>1, <2>2
<1>3. \A x : x \in Queued' <=> \E t \in Live \cup {s} : \E i \in DOMAIN pqueues'[t] : x = pqueues'[t][i]
  BY <1>1 DEF Queued, ToSet, Live
<1>4. \A x : x \in Queued' <=> x \in Queued \/ x = r
  <2> SUFFICES ASSUME NEW x
               PROVE  x \in Queued' <=> x \in Queued \/ x = r
    OBVIOUS
  <2>1. x \in Queued' => x \in Queued \/ x = r
    BY <1>1, <1>2, <1>3, QueuedEntry
  <2>2. x = r => x \in Queued'
    BY <1>2, <1>3
  <2>3. x \in Queued => x \in Queued'
    <3> SUFFICES ASSUME NEW t \in Live, NEW i \in DOMAIN pqueues[t], x = pqueues[t][i]
                 PROVE  x \in Queued'
      BY QueuedEntry
    <3>1. CASE t = s
      BY <1>2, <1>3, <3>1
    <3>2. CASE t # s
      BY <1>1, <1>3, <3>2
    <3> QED
      BY <3>1, <3>2
  <2> QED
    BY <2>1, <2>2, <2>3
<1> QED
  BY <1>4

\* next_request only moves a request, from the queue to whoever asks.
LEMMA NextQueued ==
  ASSUME Kept(Request), RingComplete, isOpen, NextRequest
  PROVE  /\ Queued' \cup Given = Queued
         /\ \A g, h \in Given : g = h
         /\ IsFiniteSet(Given)
<1> DEFINE q == pqueues[Winner]
<1>1. /\ Winner \in Live
      /\ \/ Len(q) <= 1 /\ DOMAIN pqueues' = Live \ {Winner}
         \/ Len(q) > 1 /\ DOMAIN pqueues' = Live /\ pqueues'[Winner] = Tail(q)
      /\ \A t \in Live \ {Winner} : pqueues'[t] = pqueues[t]
  BY NextQueues
<1>2. q \in Seq(Request)
  BY <1>1 DEF Kept
<1>3. \A g \in Given : g = Head(q) /\ \E i \in DOMAIN q : g = q[i]
  BY DEF Given
<1>4. \A x : x \in Queued' <=> \E t \in DOMAIN pqueues' : \E i \in DOMAIN pqueues'[t] : x = pqueues'[t][i]
  BY DEF Queued, ToSet, Live
<1>5. PICK n \in Nat : n = Len(q) /\ DOMAIN q = 1 .. n
  BY <1>2, LenProperties
<1> HIDE DEF q
<1>6. n >= 1 => Head(q) = q[1] /\ Head(q) \in Given
  <2> SUFFICES ASSUME n >= 1
               PROVE  Head(q) = q[1] /\ Head(q) \in Given
    OBVIOUS
  <2>1. 1 \in DOMAIN q
    BY <1>5
  <2>2. Head(q) = q[1]
    OBVIOUS
  <2> QED
    BY <2>1, <2>2 DEF Given, q
<1>7. ASSUME n > 1
      PROVE  /\ DOMAIN Tail(q) = 1 .. n - 1
             /\ \A i \in 1 .. n - 1 : Tail(q)[i] = q[i + 1]
  <2>1. q # <<>>
    BY <1>5, <1>7, EmptySeq
  <2>2. /\ Tail(q) \in Seq(Request) /\ Len(Tail(q)) = n - 1
        /\ \A i \in 1 .. Len(Tail(q)) : Tail(q)[i] = q[i + 1]
    BY <1>2, <1>5, <2>1, HeadTailProperties
  <2>3. DOMAIN Tail(q) = 1 .. Len(Tail(q))
    BY <2>2, LenProperties
  <2> QED
    BY <2>2, <2>3
<1>8. ASSUME NEW x \in Queued'
      PROVE  x \in Queued
  <2>1. PICK t \in DOMAIN pqueues' : \E i \in DOMAIN pqueues'[t] : x = pqueues'[t][i]
    BY <1>4
  <2>2. CASE t # Winner
    BY <1>1, <2>1, <2>2, QueuedEntry
  <2>3. CASE t = Winner
    <3>1. n > 1 /\ pqueues'[t] = Tail(q)
      BY <1>1, <1>5, <2>1, <2>3
    <3>2. PICK i \in 1 .. n - 1 : x = q[i + 1]
      BY <1>7, <2>1, <3>1
    <3>3. i + 1 \in DOMAIN q
      BY <1>5, <3>2
    <3> QED
      BY <1>1, <3>2, <3>3, QueuedEntry DEF q
  <2> QED
    BY <2>2, <2>3
<1>9. ASSUME NEW x \in Queued
      PROVE  x \in Queued' \cup Given
  <2>1. PICK t \in Live : \E i \in DOMAIN pqueues[t] : x = pqueues[t][i]
    BY QueuedEntry
  <2>2. CASE t # Winner
    BY <1>1, <1>4, <2>1, <2>2
  <2>3. CASE t = Winner
    <3>1. PICK i \in DOMAIN q : x = q[i]
      BY <2>1, <2>3 DEF q
    <3>2. CASE i = 1
      BY <1>5, <1>6, <3>1, <3>2
    <3>3. CASE i # 1
      <4>1. n > 1 /\ i - 1 \in 1 .. n - 1 /\ (i - 1) + 1 = i
        BY <1>5, <3>3
      <4>2. pqueues'[t] = Tail(q) /\ t \in DOMAIN pqueues'
        BY <1>1, <1>5, <2>3, <4>1
      <4>3. Tail(q)[i - 1] = x /\ i - 1 \in DOMAIN Tail(q)
        BY <1>7, <3>1, <4>1
      <4> QED
        BY <1>4, <4>2, <4>3
    <3> QED
      BY <3>2, <3>3
  <2> QED
    BY <2>2, <2>3
<1>10. ASSUME NEW x \in Given
       PROVE  x \in Queued
  BY <1>1, <1>3, QueuedEntry DEF q
<1>11. IsFiniteSet(Given)
  <2>1. Given \subseteq {Head(q)}
    BY <1>3
  <2> QED
    BY <2>1, FS_Singleton, FS_Subset
<1> QED
  BY <1>3, <1>8, <1>9, <1>10, <1>11

\* Nothing that was queued is forgotten when the frontier is opened.
LEMMA OpenedQueued ==
  ASSUME Kept(Request), Opened
  PROVE  Queued \subseteq Queued'
<1> SUFFICES ASSUME NEW x \in Queued
             PROVE  x \in Queued'
  OBVIOUS
<1>1. PICK s \in Live : \E i \in DOMAIN pqueues[s] : x = pqueues[s][i]
  BY QueuedEntry
<1>2. s \in Slot /\ Queue(s) = pqueues[s]
  BY DEF Kept, Queue
<1>3. PICK i \in DOMAIN Queue(s) : x = Queue(s)[i]
  BY <1>1, <1>2
<1>4. Queue(s) # <<>>
  BY <1>3
<1>5. PICK j \in DOMAIN Queue(s)' : x = Queue(s)'[j]
  BY <1>2, <1>3, <1>4, OpenedFile, WithinEntry
<1>6. s \in DOMAIN pqueues' /\ Queue(s)' = pqueues'[s]
  BY <1>5 DEF Queue, Live
<1> QED
  BY <1>5, <1>6 DEF Queued, ToSet, Live

-------------------------------------------------------------------------------
(* The variables keep their types. *)

Stores ==
  /\ Live \subseteq Slot /\ IsFiniteSet(Live)
  /\ pqueues \in [Live -> Seq(Request)]
  /\ popped \in [Slot -> Seq(Request)]
  /\ ring \in Seq(Slot)
  /\ activeJson \subseteq Slot /\ IsFiniteSet(activeJson)
  /\ isOpen \in BOOLEAN

Works == active \in [Slot -> SUBSET Request] /\ \A s \in Slot : IsFiniteSet(active[s])

LEMMA KeptParts ==
  /\ Kept(Request) <=> Stores /\ Works
  /\ Kept(Request)' <=> Stores' /\ Works'
BY DEF Kept, Stores, Works

\* A step that leaves the frontier alone.
LEMMA QuietStores ==
  ASSUME Types, UNCHANGED frontier
  PROVE  Stores' /\ RingComplete' /\ isOpen' = isOpen
BY KeptParts DEF frontier, Types, Stores, RingComplete, Live

LEMMA ReleasedType ==
  ASSUME NEW q \in [Slot -> Nat], NEW s \in Slot
  PROVE  Released(q, s) \in [Slot -> Nat] /\ Dropped(q, s) \in [Slot -> Nat]
<1>1. Released(q, s) = [q EXCEPT ![s] = IF q[s] > 0 THEN q[s] - 1 ELSE 0]
  BY DEF Released
<1>2. (IF q[s] > 0 THEN q[s] - 1 ELSE 0) \in Nat
  BY SMT
<1> QED
  BY <1>1, <1>2 DEF Dropped

LEMMA CrawlTypes ==
  ASSUME Types, isOpen, NEW u \in Url, NEW isNew \in BOOLEAN, NEW dontFilter,
         NEW queued \in [Slot -> Nat], NEW ended, Crawl(u, isNew, dontFilter, queued, ended)
  PROVE  /\ Stores' /\ RingComplete' /\ isOpen' = isOpen
         /\ queuedPer' \in [Slot -> Nat] /\ seen' \subseteq Url
<1> DEFINE s == SlotOf(u)
           r == [url |-> u, life |-> life, new |-> isNew]
<1>1. s \in Slot /\ Kept(Request) /\ RingComplete /\ seen \subseteq Url
  BY SlotOfUrl DEF Types, Settled
<1>2. r \in Request
  BY Setting DEF Types, Settled, Request
<1>3. CASE UNCHANGED frontier /\ queuedPer' = Dropped(queued, s) /\ seen' \subseteq seen \cup {u}
  BY <1>1, <1>3, QuietStores, ReleasedType
<1>4. CASE Enqueue(s, r) /\ queuedPer' = queued /\ seen' = seen \cup {u}
  <2> HIDE DEF s, r
  <2>1. /\ DOMAIN pqueues' = Live \cup {s} /\ pqueues' \in [Live \cup {s} -> Seq(Request)]
        /\ IsFiniteSet(Live \cup {s})
    BY <1>1, <1>2, <1>4, EnqueueQueues
  <2>2. ring' \in Seq(Slot) /\ RingComplete'
    BY <1>1, <1>2, <1>4, EnqueueRing
  <2>3. popped' = popped /\ activeJson' = activeJson /\ isOpen' = isOpen
    BY <1>4 DEF Enqueue
  <2>4. Stores'
    BY <1>1, <2>1, <2>2, <2>3, KeptParts DEF Stores, Live
  <2> QED
    BY <1>1, <1>4, <2>2, <2>3, <2>4
<1> QED
  BY <1>3, <1>4 DEF Crawl

LEMMA SentWorks ==
  ASSUME Works, NEW s \in Slot, NEW r \in Request, Sent(s, r) \/ Left(s, r)
  PROVE  Works'
<1>1. active' = [active EXCEPT ![s] = active[s] \cup {r}]
      \/ active' = [active EXCEPT ![s] = active[s] \ {r}]
  BY DEF Sent, Left
<1>2. IsFiniteSet(active[s] \cup {r}) /\ IsFiniteSet(active[s] \ {r})
  <2>1. IsFiniteSet(active[s])
    BY DEF Works
  <2> QED
    BY <2>1, FS_AddElement, FS_RemoveElement
<1>3. active' \in [Slot -> SUBSET Request]
  BY <1>1 DEF Works
<1>4. \A t \in Slot : IsFiniteSet(active'[t])
  BY <1>1, <1>2 DEF Works
<1> QED
  BY <1>3, <1>4 DEF Works

LEMMA AskingSlot ==
  ASSUME Types, NEW r \in asking
  PROVE  r \in Request /\ SlotOf(r.url) \in Slot
BY SlotOfUrl DEF Types, Settled, Request

LEMMA ActiveSlot ==
  ASSUME Types, NEW s \in Slot, NEW r \in active[s]
  PROVE  r \in Request /\ r.url \in Url /\ r.new \in BOOLEAN
BY KeptParts DEF Types, Works, Request

\* Follow, Inject and SeedRequest
LEMMA AdmitTypes ==
  ASSUME Types, NEW u \in Url, Follow(u) \/ Inject(u) \/ SeedRequest(u)
  PROVE  Types'
<1>1. isOpen /\ Works /\ queuedPer \in [Slot -> Nat] /\ SlotOf(u) \in Slot
  BY KeptParts, SlotOfUrl DEF Types, Settled, Follow, Inject, SeedRequest, Up
<1>2. /\ active' = active /\ phase' = phase /\ life' = life /\ savedSeen' = savedSeen
      /\ asking' = asking /\ started' = started /\ unreleased' = unreleased
      /\ seedsLeft' \subseteq seedsLeft
  BY DEF Follow, Inject, SeedRequest, process
<1>3. CASE \E isNew, dontFilter \in BOOLEAN, queued \in [Slot -> Nat], ended \in {gone} :
              Crawl(u, isNew, dontFilter, queued, ended)
  <2>1. /\ Stores' /\ RingComplete' /\ isOpen' = isOpen
        /\ queuedPer' \in [Slot -> Nat] /\ seen' \subseteq Url
    BY <1>1, <1>3, CrawlTypes
  <2> QED
    BY <1>1, <1>2, <2>1, KeptParts DEF Types, Settled, Works, Up, NoneActive
<1>4. CASE UNCHANGED <<frontier, seen, seenDomains, queuedPer, gone>>
  <2>1. Stores' /\ RingComplete' /\ isOpen' = isOpen
    BY <1>4, QuietStores
  <2> QED
    BY <1>1, <1>2, <1>4, <2>1, KeptParts DEF Types, Settled, Works, Up, NoneActive
<1>5. [queuedPer EXCEPT ![SlotOf(u)] = queuedPer[SlotOf(u)] + 1] \in [Slot -> Nat]
  BY <1>1
<1>6. CASE Admit(u)
  <2>1. Crawl(u, SlotOf(u) \notin seenDomains, TRUE,
              [queuedPer EXCEPT ![SlotOf(u)] = queuedPer[SlotOf(u)] + 1], gone)
    BY <1>6 DEF Admit
  <2> QED
    BY <1>3, <1>5, <2>1
<1>7. CASE SeedRequest(u)
  BY <1>1, <1>3, <1>4, <1>7 DEF SeedRequest
<1> QED
  BY <1>6, <1>7 DEF Follow, Inject

LEMMA TakeTypes ==
  ASSUME Types, Take
  PROVE  Types'
<1>1. /\ Kept(Request) /\ RingComplete /\ isOpen /\ NextRequest /\ Works
  BY KeptParts DEF Types, Settled, Take, Up
<1>2. /\ Winner \in Live /\ DOMAIN pqueues' \subseteq Live
      /\ pqueues' \in [DOMAIN pqueues' -> Seq(Request)]
      /\ popped' \in [Slot -> Seq(Request)]
  BY <1>1, NextQueues
<1>3. ring' \in Seq(Slot) /\ RingComplete'
  BY <1>1, NextRing
<1>4. /\ active' = active /\ activeJson' = activeJson /\ isOpen' = isOpen
  BY <1>1 DEF NextRequest
<1>5. IsFiniteSet(DOMAIN pqueues')
  BY <1>1, <1>2, FS_Subset DEF Kept
<1>6. Stores' /\ Works'
  BY <1>1, <1>2, <1>3, <1>4, <1>5 DEF Kept, Stores, Works, Live
<1>7. Given \subseteq Request /\ IsFiniteSet(Given)
  <2>1. Queued' \cup Given = Queued /\ IsFiniteSet(Given)
    BY <1>1, NextQueued
  <2>2. Queued \subseteq Request
    BY <1>1, QueuedFinite
  <2> QED
    BY <2>1, <2>2
<1>8. asking' \subseteq Request /\ IsFiniteSet(asking') /\ started' \subseteq Request
  <2>1. asking' = asking \cup Given /\ started' = started \cup Given
    BY DEF Take
  <2>2. IsFiniteSet(asking \cup Given)
    BY <1>7, FS_Union DEF Types, Settled
  <2> QED
    BY <1>7, <2>1, <2>2 DEF Types, Settled
<1> QED
  BY <1>3, <1>4, <1>6, <1>8, KeptParts DEF Types, Settled, Take, Up

\* RobotsLeft, Allowed and Forbidden
LEMMA RobotsTypes ==
  ASSUME Types, NEW r \in asking, RobotsLeft(r) \/ Allowed(r) \/ Forbidden(r)
  PROVE  Types'
<1> DEFINE s == SlotOf(r.url)
<1>1. r \in Request /\ s \in Slot /\ Works
  BY AskingSlot, KeptParts DEF Types
<1>2. /\ UNCHANGED frontier /\ phase' = phase /\ life' = life /\ savedSeen' = savedSeen
      /\ seedsLeft' = seedsLeft /\ started' = started /\ seen' = seen
      /\ asking' = asking \/ asking' = asking \ {r}
  BY DEF RobotsLeft, Allowed, Forbidden, process
<1>3. Stores' /\ RingComplete' /\ isOpen' = isOpen
  BY <1>2, QuietStores
<1>4. Works'
  <2>1. active' = active \/ Sent(s, r)
    BY DEF RobotsLeft, Allowed, Forbidden
  <2> HIDE DEF s
  <2>2. CASE active' = active
    BY <1>1, <2>2 DEF Works
  <2> QED
    BY <1>1, <2>1, <2>2, SentWorks
<1>5. queuedPer' \in [Slot -> Nat] /\ unreleased' \in [Slot -> Nat]
  <2>1. queuedPer' = queuedPer \/ queuedPer' = Released(queuedPer, s)
    BY DEF RobotsLeft, Allowed, Forbidden
  <2>2. unreleased' = unreleased \/ unreleased' = [unreleased EXCEPT ![s] = unreleased[s] + 1]
    BY DEF RobotsLeft, Allowed, Forbidden
  <2>3. queuedPer \in [Slot -> Nat] /\ unreleased \in [Slot -> Nat]
    BY DEF Types, Settled
  <2> HIDE DEF s
  <2>4. queuedPer' \in [Slot -> Nat]
    BY <1>1, <2>1, <2>3, ReleasedType
  <2>5. unreleased' \in [Slot -> Nat]
    BY <1>1, <2>2, <2>3
  <2> QED
    BY <2>4, <2>5
<1>6. IsFiniteSet(asking')
  BY <1>2, FS_RemoveElement DEF Types, Settled
<1>7. Up
  BY DEF Types, Settled
<1> QED
  BY <1>2, <1>3, <1>4, <1>5, <1>6, <1>7, KeptParts DEF Types, Settled, Up

\* Parsed, Failed and Redirected
LEMMA EndedTypes ==
  ASSUME Types, NEW s \in Slot, NEW r \in active[s],
         \/ Parsed(s, r) \/ Failed(s, r)
         \/ \E target \in Url : Redirected(s, r, target)
  PROVE  Types'
<1>1. r \in Request /\ r.new \in BOOLEAN /\ Works /\ Left(s, r)
  BY ActiveSlot, KeptParts DEF Types, Parsed, Failed, Redirected
<1>2. Works'
  BY <1>1, SentWorks
<1>3. /\ phase' = phase /\ life' = life /\ savedSeen' = savedSeen
      /\ seedsLeft' = seedsLeft /\ started' = started /\ asking' = asking
      /\ unreleased' = unreleased
  BY DEF Parsed, Failed, Redirected, process
<1>4. Up /\ isOpen
  BY DEF Types, Settled, NoneActive
<1>5. queuedPer \in [Slot -> Nat] /\ Released(queuedPer, s) \in [Slot -> Nat]
  BY ReleasedType DEF Types, Settled
<1>6. /\ Stores' /\ RingComplete' /\ isOpen' = isOpen
      /\ queuedPer' \in [Slot -> Nat] /\ seen' \subseteq Url
  <2>1. CASE UNCHANGED <<frontier, seen>> /\ queuedPer' = Released(queuedPer, s)
    BY <1>5, <2>1, QuietStores DEF Types, Settled
  <2>2. CASE \E target \in Url : Crawl(target, r.new, RedirectDontFilter,
                                       Released(queuedPer, s), gone \cup {r.url})
    BY <1>1, <1>4, <1>5, <2>2, CrawlTypes
  <2> QED
    BY <2>1, <2>2 DEF Parsed, Failed, Redirected
<1> QED
  BY <1>2, <1>3, <1>4, <1>6, KeptParts DEF Types, Settled, Up

LEMMA CheckpointTypes ==
  ASSUME Types, CheckpointFrontier \/ CheckpointBloom
  PROVE  Types'
<1>1. /\ phase' = phase /\ life' = life /\ seedsLeft' = seedsLeft /\ started' = started
      /\ seen' = seen /\ asking' = asking /\ queuedPer' = queuedPer /\ unreleased' = unreleased
      /\ savedSeen' \in {savedSeen, seen}
      /\ pqueues' = pqueues /\ ring' = ring /\ members' = members /\ active' = active
      /\ activeJson' = activeJson /\ isOpen' = isOpen
  BY DEF CheckpointFrontier, CheckpointBloom, CheckpointSlice, svars, fvars, frontier
<1>2. popped' \in [Slot -> Seq(Request)]
  <2>1. CASE CheckpointFrontier
    <3>1. PICK s : popped' = [t \in Slot |-> IF t \in {s} THEN <<>> ELSE popped[t]]
      BY <2>1 DEF CheckpointFrontier, CheckpointSlice
    <3> QED
      BY <3>1, EmptySeq DEF Types, Kept
  <2>2. CASE CheckpointBloom
    BY <2>2 DEF CheckpointBloom, fvars, frontier, Types, Kept
  <2> QED
    BY <2>1, <2>2
<1>3. Kept(Request)' /\ RingComplete'
  BY <1>1, <1>2 DEF Types, Kept, RingComplete, Live
<1> QED
  BY <1>1, <1>3 DEF Types, Settled, Up

LEMMA StopTypes ==
  ASSUME Types, Stop
  PROVE  Types'
<1>1. PICK wire :
        /\ active' = [s \in Slot |-> active[s] \cap wire]
        /\ unreleased' = [s \in Slot |-> unreleased[s] + Cardinality(active[s] \ wire)]
  BY DEF Stop
<1>2. /\ UNCHANGED frontier /\ life' = life /\ savedSeen' = savedSeen /\ seedsLeft' = seedsLeft
      /\ started' = started /\ seen' = seen /\ asking' = asking /\ queuedPer' = queuedPer
      /\ phase' = "closing" /\ life < MaxLives /\ phase = "running"
  BY DEF Stop
<1>3. Stores' /\ RingComplete' /\ isOpen' = isOpen
  BY <1>2, QuietStores
<1>4. ASSUME NEW s \in Slot
      PROVE  /\ IsFiniteSet(active[s] \cap wire) /\ active[s] \cap wire \subseteq Request
             /\ Cardinality(active[s] \ wire) \in Nat
  <2>1. IsFiniteSet(active[s]) /\ active[s] \subseteq Request
    BY DEF Types, Kept
  <2>2. active[s] \cap wire \in SUBSET active[s] /\ active[s] \ wire \in SUBSET active[s]
    OBVIOUS
  <2>3. IsFiniteSet(active[s] \cap wire) /\ IsFiniteSet(active[s] \ wire)
    BY <2>1, <2>2, FS_Subset
  <2> QED
    BY <2>1, <2>3, FS_CardinalityType
<1>5. Works'
  BY <1>1, <1>4 DEF Works
<1>6. unreleased' \in [Slot -> Nat]
  <2>1. unreleased \in [Slot -> Nat]
    BY DEF Types, Settled
  <2>2. ASSUME NEW s \in Slot
        PROVE  unreleased[s] + Cardinality(active[s] \ wire) \in Nat
    <3>1. Cardinality(active[s] \ wire) \in Nat /\ unreleased[s] \in Nat
      BY <1>4, <2>1
    <3> QED
      BY <3>1
  <2> QED
    BY <1>1, <2>2
<1> QED
  BY <1>2, <1>3, <1>5, <1>6, KeptParts DEF Types, Settled, Up

\* Close and Kill
LEMMA DownTypes ==
  ASSUME Types, Close \/ Kill
  PROVE  Types'
<1>1. /\ phase' \in {"closed", "killed"} /\ life' = life /\ life < MaxLives
      /\ seedsLeft' = seedsLeft /\ started' = started /\ seen' = seen /\ asking' = {}
      /\ queuedPer' = queuedPer /\ unreleased' = unreleased
      /\ savedSeen' \in {savedSeen, seen}
      /\ pqueues' = pqueues /\ ring' = <<>> /\ members' = {} /\ active' = NoneActive
      /\ isOpen' = FALSE
      /\ activeJson' \in {activeJson, Live} /\ popped' \in {popped, NothingPopped}
  BY DEF Close, Kill, Closed, Killed, Volatile, NothingInProgress, Types, Settled
<1>2. popped' \in [Slot -> Seq(Request)] /\ ring' \in Seq(Slot)
  BY <1>1, EmptySeq DEF Types, Kept, NothingPopped
<1>3. active' \in [Slot -> SUBSET Request] /\ \A s \in Slot : IsFiniteSet(active'[s])
  BY <1>1, FS_EmptySet DEF NoneActive
<1>4. Kept(Request)'
  BY <1>1, <1>2, <1>3 DEF Types, Kept, Live
<1>5. RingComplete'
  BY <1>1 DEF RingComplete
<1>6. IsFiniteSet(asking')
  BY <1>1, FS_EmptySet
<1>7. isOpen' = Up'
  <2>1. ~ (phase' \in {"running", "closing"})
    BY <1>1
  <2>2. Up' = FALSE
    BY <2>1 DEF Up
  <2>3. isOpen' = FALSE
    BY <1>1
  <2> QED
    BY <2>2, <2>3
<1> QED
  BY <1>1, <1>4, <1>5, <1>6, <1>7 DEF Types, Settled, NoneActive

LEMMA StartTypes ==
  ASSUME Types, Start
  PROVE  Types'
<1>1. Kept(Request) /\ Opened /\ phase \in {"closed", "killed"} /\ ~Up /\ life < MaxLives
  BY DEF Start, Types, Settled, Up
<1>2. /\ DOMAIN pqueues' = Listed /\ pqueues' \in [Listed -> Seq(Request)]
      /\ IsFiniteSet(Listed) /\ Listed \subseteq Slot
  BY <1>1, OpenedQueues
<1>3. ring' \in Seq(Slot) /\ RingComplete'
  BY <1>1, OpenedRing
<1>4. /\ activeJson' = Listed /\ popped' = NothingPopped /\ active' = NoneActive
      /\ isOpen' = TRUE
  BY <1>1 DEF Opened
<1>5. popped' \in [Slot -> Seq(Request)]
  BY <1>4, EmptySeq DEF NothingPopped
<1>6. active' \in [Slot -> SUBSET Request] /\ \A s \in Slot : IsFiniteSet(active'[s])
  BY <1>4, FS_EmptySet DEF NoneActive
<1>7. Kept(Request)'
  BY <1>2, <1>3, <1>4, <1>5, <1>6 DEF Kept, Live
<1>8. /\ life' = life + 1 /\ phase' = "running" /\ seen' = savedSeen /\ seedsLeft' = Seed
      /\ started' = {} /\ queuedPer' = Zero /\ unreleased' = Zero
      /\ savedSeen' = savedSeen /\ asking' = asking
  BY DEF Start
<1>9. queuedPer' \in [Slot -> Nat] /\ unreleased' \in [Slot -> Nat]
  BY <1>8 DEF Zero
<1>10. life' \in 1 .. MaxLives
  BY <1>1, <1>8, Setting DEF Types, Settled
<1> QED
  BY <1>1, <1>3, <1>4, <1>7, <1>8, <1>9, <1>10, Setting DEF Types, Settled, Up

-------------------------------------------------------------------------------
(* Where requests are, whose they are, and that none is there twice. *)

Safe == Placed /\ Once /\ Ours /\ Memory

\* A step that lets nothing in; what it lets go has met its end.
Leaving ==
  /\ pqueues' = pqueues
  /\ \A s \in Slot : popped'[s] = popped[s] \/ popped'[s] = <<>>
  /\ life' = life /\ started' = started
  /\ seen \subseteq seen' /\ \A u \in seen' : u \in seen \/ u \in gone'
  /\ savedSeen' \subseteq savedSeen \cup seen
  /\ activeJson' \in {activeJson, Live}
  /\ InFlight' \subseteq InFlight
  /\ \A s \in Slot : \A r \in active'[s] : SlotOf(r.url) = s
  /\ gone \subseteq gone'
  /\ \A r \in InFlight : r \in InFlight' \/ r.url \in gone'

\* A step that lets in request r, for a URL of ours that was not seen before.
LettingIn(r) ==
  /\ r.life = life /\ Enqueue(SlotOf(r.url), r)
  /\ r.url \notin seen /\ SlotOf(r.url) \in Owned
  /\ life' = life /\ started' = started
  /\ seen' = seen \cup {r.url} /\ savedSeen' = savedSeen
  /\ InFlight' \subseteq InFlight
  /\ \A s \in Slot : \A q \in active'[s] : SlotOf(q.url) = s
  /\ gone \subseteq gone' \cup {r.url}
  /\ \A q \in InFlight : q \in InFlight' \/ q.url \in gone' \cup {r.url}

LEMMA FileSeqNext ==
  ASSUME Kept(Request)', NEW s \in Slot
  PROVE  File(s)' \in Seq(Request)
<1>1. popped'[s] \in Seq(Request) /\ Queue(s)' \in Seq(Request)
  BY EmptySeq DEF Kept, Queue, Live
<1>2. File(s)' = popped'[s] \o Queue(s)'
  BY DEF File
<1> QED
  BY <1>1, <1>2, ConcatProperties

\* A file that only gets shorter keeps what is true of its entries.
LEMMA FilesKept ==
  ASSUME Kept(Request)', \A s \in Slot : Within(File(s)', File(s)), Placed, Once
  PROVE  /\ \A s \in Slot : \A i \in DOMAIN File(s)' : SlotOf(File(s)'[i].url) = s
         /\ \A s \in Slot : \A i \in DOMAIN File(s)' : Known(File(s)'[i])
         /\ \A s \in Slot : Distinct(File(s)')
<1> SUFFICES ASSUME NEW s \in Slot
             PROVE  /\ \A i \in DOMAIN File(s)' : SlotOf(File(s)'[i].url) = s /\ Known(File(s)'[i])
                    /\ Distinct(File(s)')
  OBVIOUS
<1>1. \A i \in DOMAIN File(s)' : \E j \in DOMAIN File(s) : File(s)'[i] = File(s)[j]
  BY WithinEntry
<1>2. Distinct(File(s)')
  BY FileSeqNext, WithinDistinct DEF Once
<1> QED
  BY <1>1, <1>2 DEF Placed, Once

\* What is queued is in the queue of its slot.
LEMMA QueuedSlot ==
  ASSUME Kept(Request), Placed, NEW s \in Live, NEW i \in DOMAIN pqueues[s]
  PROVE  SlotOf(pqueues[s][i].url) = s
<1>1. s \in Slot /\ Queue(s) = pqueues[s]
  BY DEF Kept, Queue
<1>2. \E j \in DOMAIN File(s) : Queue(s)[i] = File(s)[j]
  BY <1>1, QueueWithin, WithinEntry
<1> QED
  BY <1>1, <1>2 DEF Placed

LEMMA LeavingSafe ==
  ASSUME Types, Types', Safe, Leaving
  PROVE  Safe'
<1>1. Kept(Request) /\ Kept(Request)' /\ Placed /\ Once /\ Ours /\ Memory
  BY DEF Types, Safe
<1>2. \A s \in Slot : Within(File(s)', File(s))
  BY <1>1, SavedFile DEF Leaving
<1>3. Queued' = Queued /\ Live' = Live
  BY DEF Leaving, Queued, Live
<1>4. Placed'
  BY <1>1, <1>2, FilesKept DEF Placed, Leaving
<1>5. Once'
  <2>1. \A s \in Slot : \A i \in DOMAIN File(s)' : Known(File(s)[i])'
    <3>1. \A s \in Slot : \A i \in DOMAIN File(s)' : Known(File(s)'[i])
      BY <1>1, <1>2, FilesKept
    <3> QED
      BY <3>1 DEF Known, Leaving
  <2>2. \A r \in started' \cup InFlight' : Known(r)'
    BY <1>1 DEF Known, Leaving, Once
  <2>3. \A s \in Slot : Distinct(File(s)')
    BY <1>1, <1>2, FilesKept
  <2>4. \A s \in Slot : Distinct(File(s))'
    BY <2>3 DEF Distinct, Same
  <2>5. /\ \A q, r \in started' : Same(q, r) => q = r
        /\ \A r \in started' : \A q \in Queued' : ~Same(q, r)
    BY <1>1, <1>3 DEF Leaving, Once
  <2> QED
    BY <2>1, <2>2, <2>4, <2>5 DEF Once, Same
<1>6. Ours'
  BY <1>1, <1>3 DEF Ours, Leaving, Ever
<1>7. Memory'
  <2> SUFFICES ASSUME NEW u \in seen' \cup savedSeen', u \notin gone'
               PROVE  \E r \in Held' : r.url = u
    BY DEF Memory
  <2>1. u \in seen \cup savedSeen /\ u \notin gone
    BY DEF Leaving
  <2>2. PICK r \in Held : r.url = u
    BY <1>1, <2>1 DEF Memory
  <2>3. r \in Queued' \cup InFlight'
    BY <1>3, <2>2 DEF Held, Leaving
  <2> QED
    BY <2>2, <2>3 DEF Held
<1> QED
  BY <1>4, <1>5, <1>6, <1>7 DEF Safe

LEMMA LettingInSafe ==
  ASSUME Types, Types', Safe, NEW r \in Request, LettingIn(r)
  PROVE  Safe'
<1> DEFINE s == SlotOf(r.url)
<1>1. /\ Kept(Request) /\ Kept(Request)' /\ Placed /\ Once /\ Ours /\ Memory
      /\ s \in Slot /\ Enqueue(s, r)
  BY SlotOfUrl DEF Types, Safe, LettingIn, Request
<1>2. Extended(File(s)', File(s), r) /\ \A t \in Slot \ {s} : File(t)' = File(t)
  <2> HIDE DEF s
  <2> QED
    BY <1>1, EnqueueFile
<1>3. Queued' = Queued \cup {r} /\ Live' = Live \cup {s}
  <2> HIDE DEF s
  <2> QED
    BY <1>1, EnqueueQueued, EnqueueQueues DEF Live
<1>4. ASSUME NEW t \in Slot, NEW i \in DOMAIN File(t)'
      PROVE  (t = s /\ File(t)'[i] = r) \/ \E j \in DOMAIN File(t) : File(t)'[i] = File(t)[j]
  <2>1. CASE t = s
    BY <1>2, <2>1, ExtendedEntry
  <2>2. CASE t # s
    BY <1>2, <2>2
  <2> QED
    BY <2>1, <2>2
<1> HIDE DEF s
<1>5. Placed'
  <2>1. \A t \in Slot : \A i \in DOMAIN File(t)' : SlotOf(File(t)'[i].url) = t
    BY <1>1, <1>4 DEF Placed, s
  <2> QED
    BY <2>1 DEF Placed, LettingIn
<1>6. ASSUME NEW q, Known(q)
      PROVE  ~Same(q, r)
  BY <1>6 DEF Known, Same, LettingIn
<1>7. Once'
  <2>1. \A t \in Slot : \A i \in DOMAIN File(t)' : Known(File(t)[i])'
    <3>1. \A t \in Slot : \A i \in DOMAIN File(t)' : File(t)'[i] = r \/ Known(File(t)'[i])
      BY <1>1, <1>4 DEF Once
    <3>2. life \in Nat
      BY DEF Types, Settled
    <3> QED
      BY <3>1, <3>2 DEF Known, LettingIn
  <2>2. \A q \in started' \cup InFlight' : Known(q)'
    BY <1>1 DEF Known, LettingIn, Once
  <2>3. \A t \in Slot : Distinct(File(t)')
    <3>1. \A i \in DOMAIN File(s) : ~Same(File(s)[i], r)
      BY <1>1, <1>6 DEF Once
    <3>2. Distinct(File(s)')
      BY <1>1, <1>2, <3>1, ExtendedDistinct DEF Once
    <3> QED
      BY <1>1, <1>2, <3>2 DEF Once
  <2>4. \A t \in Slot : Distinct(File(t))'
    BY <2>3 DEF Distinct, Same
  <2>5. \A p, q \in started' : Same(p, q) => p = q
    BY <1>1 DEF LettingIn, Once
  <2>6. \A p \in started' : \A q \in Queued' : ~Same(q, p)
    <3>1. \A p \in started : ~Same(r, p)
      BY <1>1, <1>6 DEF Once, Same
    <3> QED
      BY <1>1, <1>3, <3>1 DEF LettingIn, Once
  <2> QED
    BY <2>1, <2>2, <2>4, <2>5, <2>6 DEF Once, Same
<1>8. Ours'
  <2>1. s \in Ever
    <3>1. life \in 1 .. life
      BY DEF Types, Settled
    <3> QED
      BY <3>1 DEF LettingIn, Owned, Ever, s
  <2>2. activeJson' = activeJson
    BY <1>1 DEF Enqueue
  <2> QED
    BY <1>1, <1>3, <2>1, <2>2 DEF Ours, LettingIn, Ever
<1>9. Memory'
  <2> SUFFICES ASSUME NEW u \in seen' \cup savedSeen', u \notin gone', u # r.url
               PROVE  \E q \in Held' : q.url = u
    BY <1>3 DEF Memory, Held
  <2>1. u \in seen \cup savedSeen /\ u \notin gone
    BY DEF LettingIn
  <2>2. PICK q \in Held : q.url = u
    BY <1>1, <2>1 DEF Memory
  <2>3. q \in Queued' \cup InFlight'
    BY <1>3, <2>2 DEF Held, LettingIn
  <2> QED
    BY <2>2, <2>3 DEF Held
<1> QED
  BY <1>5, <1>7, <1>8, <1>9 DEF Safe

\* What next_request gives is no longer queued, under any guise.
LEMMA GivenApart ==
  ASSUME Types, Safe, isOpen, NextRequest, NEW g \in Given, NEW x \in Queued'
  PROVE  ~Same(x, g)
<1> DEFINE q == pqueues[Winner]
<1>1. Kept(Request) /\ RingComplete /\ Placed /\ Once
  BY DEF Types, Safe
<1>2. /\ Winner \in Live
      /\ \/ Len(q) <= 1 /\ DOMAIN pqueues' = Live \ {Winner}
         \/ Len(q) > 1 /\ DOMAIN pqueues' = Live /\ pqueues'[Winner] = Tail(q)
      /\ \A t \in Live \ {Winner} : pqueues'[t] = pqueues[t]
  BY <1>1, NextQueues
<1>3. q \in Seq(Request) /\ Winner \in Slot /\ Queue(Winner) = q
  BY <1>1, <1>2 DEF Kept, Queue
<1>4. g = Head(q) /\ \E i \in DOMAIN q : g = q[i]
  BY DEF Given
<1>5. SlotOf(g.url) = Winner
  BY <1>1, <1>2, <1>4, QueuedSlot
<1>6. Distinct(q)
  BY <1>1, <1>3, QueueWithin, WithinDistinct DEF Once
<1>7. PICK t \in DOMAIN pqueues' : \E i \in DOMAIN pqueues'[t] : x = pqueues'[t][i]
  BY DEF Queued, ToSet, Live
<1>8. CASE t # Winner
  <2>1. SlotOf(x.url) = t
    BY <1>1, <1>2, <1>7, <1>8, QueuedSlot
  <2> QED
    BY <1>5, <1>8, <2>1 DEF Same
<1>9. CASE t = Winner
  <2>1. Len(q) > 1 /\ pqueues'[t] = Tail(q)
    BY <1>2, <1>7, <1>9
  <2> HIDE DEF q
  <2>2. q # <<>>
    BY <2>1, EmptySeq
  <2>3. PICK n \in Nat : n = Len(q) /\ DOMAIN q = 1 .. n
    BY <1>3, LenProperties
  <2>4. Tail(q) \in Seq(Request) /\ Len(Tail(q)) = n - 1 /\ \A i \in 1 .. n - 1 : Tail(q)[i] = q[i + 1]
    BY <1>3, <2>2, <2>3, HeadTailProperties
  <2>5. DOMAIN Tail(q) = 1 .. n - 1
    BY <2>4, LenProperties
  <2>6. PICK i \in 1 .. n - 1 : x = q[i + 1]
    BY <1>7, <2>1, <2>4, <2>5
  <2>7. Head(q) = q[1]
    OBVIOUS
  <2>8. 1 \in DOMAIN q /\ i + 1 \in DOMAIN q /\ i + 1 # 1
    BY <2>1, <2>3, <2>6
  <2> QED
    BY <1>4, <1>6, <2>6, <2>7, <2>8 DEF Distinct
<1> QED
  BY <1>8, <1>9

LEMMA TakeSafe ==
  ASSUME Types, Types', Safe, Take
  PROVE  Safe'
<1>1. /\ Kept(Request) /\ Kept(Request)' /\ RingComplete /\ Placed /\ Once /\ Ours /\ Memory
      /\ isOpen /\ NextRequest
  BY DEF Types, Settled, Safe, Take, Up
<1>2. \A s \in Slot : Within(File(s)', File(s))
  BY <1>1, NextFile
<1>3. /\ Queued' \cup Given = Queued
      /\ \A g, h \in Given : g = h
  BY <1>1, NextQueued
<1>4. Live' \subseteq Live
  BY <1>1, NextQueues DEF Live
<1>5. /\ active' = active /\ asking' = asking \cup Given /\ started' = started \cup Given
      /\ life' = life /\ seen' = seen /\ savedSeen' = savedSeen /\ gone' = gone
      /\ activeJson' = activeJson
  BY <1>1 DEF Take, NextRequest
<1>6. InFlight' = InFlight \cup Given
  BY <1>5 DEF InFlight
<1>7. \A g \in Given : Known(g) /\ SlotOf(g.url) \in Live
  <2> SUFFICES ASSUME NEW g \in Given
               PROVE  Known(g) /\ SlotOf(g.url) \in Live
    OBVIOUS
  <2>1. g \in Queued
    BY <1>3
  <2>2. PICK s \in Slot : s \in Live /\ \E i \in DOMAIN File(s) : g = File(s)[i]
    BY <1>1, <2>1, QueuedInFile
  <2> QED
    BY <1>1, <2>2 DEF Placed, Once
<1>8. Placed'
  BY <1>1, <1>2, <1>5, FilesKept DEF Placed
<1>9. Once'
  <2>1. \A s \in Slot : \A i \in DOMAIN File(s)' : Known(File(s)[i])'
    <3>1. \A s \in Slot : \A i \in DOMAIN File(s)' : Known(File(s)'[i])
      BY <1>1, <1>2, FilesKept
    <3> QED
      BY <1>5, <3>1 DEF Known
  <2>2. \A r \in started' \cup InFlight' : Known(r)'
    BY <1>1, <1>5, <1>6, <1>7 DEF Known, Once
  <2>3. \A s \in Slot : Distinct(File(s)')
    BY <1>1, <1>2, FilesKept
  <2>4. \A s \in Slot : Distinct(File(s))'
    BY <2>3 DEF Distinct, Same
  <2>5. \A q, r \in started' : Same(q, r) => q = r
    <3>1. \A g \in Given : \A r \in started : ~Same(g, r) /\ ~Same(r, g)
      BY <1>1, <1>3 DEF Once, Same
    <3> QED
      BY <1>1, <1>3, <1>5, <3>1 DEF Once
  <2>6. \A r \in started' : \A q \in Queued' : ~Same(q, r)
    <3>1. \A g \in Given : \A q \in Queued' : ~Same(q, g)
      BY <1>1, GivenApart
    <3> QED
      BY <1>1, <1>3, <1>5, <3>1 DEF Once
  <2> QED
    BY <2>1, <2>2, <2>4, <2>5, <2>6 DEF Once, Same
<1>10. Ours'
  BY <1>1, <1>4, <1>5, <1>6, <1>7 DEF Ours, Ever
<1>11. Memory'
  <2> SUFFICES ASSUME NEW u \in seen' \cup savedSeen', u \notin gone'
               PROVE  \E r \in Held' : r.url = u
    BY DEF Memory
  <2>1. PICK r \in Held : r.url = u
    BY <1>1, <1>5 DEF Memory
  <2>2. r \in Queued' \cup InFlight'
    BY <1>3, <1>6, <2>1 DEF Held
  <2> QED
    BY <2>1, <2>2 DEF Held
<1> QED
  BY <1>8, <1>9, <1>10, <1>11 DEF Safe

LEMMA StartSafe ==
  ASSUME Types, Types', Safe, Start
  PROVE  Safe'
<1>1. /\ Kept(Request) /\ Kept(Request)' /\ Placed /\ Once /\ Ours /\ Memory
      /\ Opened /\ asking = {} /\ active = NoneActive
  BY DEF Types, Settled, Safe, Start, Up
<1>2. \A s \in Slot : Within(File(s)', File(s))
  BY <1>1, OpenedFile
<1>3. Queued \subseteq Queued'
  BY <1>1, OpenedQueued
<1>4. /\ active' = NoneActive /\ asking' = {} /\ started' = {} /\ life' = life + 1
      /\ seen' = savedSeen /\ savedSeen' = savedSeen /\ gone' = gone
      /\ activeJson' = Listed /\ Live' = Listed
  BY <1>1, OpenedQueues DEF Start, Opened, Live
<1>5. InFlight = {} /\ InFlight' = {}
  BY <1>1, <1>4 DEF InFlight, NoneActive
<1>6. life \in Nat
  BY DEF Types, Settled
<1>7. Placed'
  BY <1>1, <1>2, <1>4, FilesKept DEF Placed, NoneActive
<1>8. Once'
  <2>1. \A s \in Slot : \A i \in DOMAIN File(s)' : Known(File(s)[i])'
    <3>1. \A s \in Slot : \A i \in DOMAIN File(s)' : Known(File(s)'[i])
      BY <1>1, <1>2, FilesKept
    <3>2. \A s \in Slot : \A i \in DOMAIN File(s)' : File(s)'[i].life \in Nat
      <4> SUFFICES ASSUME NEW s \in Slot, NEW i \in DOMAIN File(s)'
                   PROVE  File(s)'[i].life \in Nat
        OBVIOUS
      <4>1. File(s)'[i] \in Request
        BY <1>1, FileSeqNext, ElementOfSeq, LenProperties
      <4> QED
        BY <4>1 DEF Request
    <3> QED
      BY <1>4, <1>6, <3>1, <3>2 DEF Known
  <2>2. \A s \in Slot : Distinct(File(s)')
    BY <1>1, <1>2, FilesKept
  <2>3. \A s \in Slot : Distinct(File(s))'
    BY <2>2 DEF Distinct, Same
  <2> QED
    BY <1>4, <1>5, <2>1, <2>3 DEF Once
<1>9. Ours'
  <2>1. Listed \subseteq Live \cup activeJson
    BY DEF Listed, OnDisk
  <2>2. Ever \subseteq Ever'
    BY <1>4, <1>6 DEF Ever
  <2> QED
    BY <1>1, <1>4, <1>5, <2>1, <2>2 DEF Ours
<1>10. Memory'
  BY <1>1, <1>3, <1>4, <1>5 DEF Memory, Held
<1> QED
  BY <1>7, <1>8, <1>9, <1>10 DEF Safe

-------------------------------------------------------------------------------
(* Every step is of one of these kinds. *)

\* engine.crawl lets a request in, or sends request_dropped.
LEMMA CrawlShape ==
  ASSUME Types, isOpen, NEW u \in Url, NEW isNew \in BOOLEAN, NEW dontFilter \in BOOLEAN,
         NEW queued, NEW ended, Crawl(u, isNew, dontFilter, queued, ended),
         Own(u), dontFilter => u \notin seen,
         life' = life, started' = started, savedSeen' = savedSeen,
         InFlight' \subseteq InFlight,
         \A s \in Slot : \A r \in active'[s] : SlotOf(r.url) = s,
         gone \subseteq ended,
         \A r \in InFlight : r \in InFlight' \/ r.url \in ended
  PROVE  Leaving \/ \E r \in Request : LettingIn(r)
<1> DEFINE full == OverQueues(SlotOf(u)) \/ OverCapacity(isNew)
           r == [url |-> u, life |-> life, new |-> isNew]
<1>1. r \in Request /\ r.url = u /\ r.life = life
  BY Setting DEF Types, Settled, Request
<1>2. CASE full \/ Filtered(u, dontFilter)
  <2>1. /\ UNCHANGED frontier
        /\ seen' = IF dontFilter THEN seen \cup {u} ELSE seen
        /\ gone' = IF full THEN ended \cup {u} ELSE ended
    BY <1>2 DEF Crawl
  <2>2. dontFilter => full
    BY <1>2 DEF Filtered
  <2> HIDE DEF full
  <2>3. /\ seen \subseteq seen' /\ \A v \in seen' : v \in seen \/ v \in gone'
        /\ ended \subseteq gone'
    BY <2>1, <2>2
  <2> QED
    BY <2>1, <2>3 DEF Leaving, frontier
<1>3. CASE ~ (full \/ Filtered(u, dontFilter))
  <2>1. Enqueue(SlotOf(u), r) /\ seen' = seen \cup {u} /\ gone' = ended \ {u}
    BY <1>3 DEF Crawl
  <2>2. u \notin seen
    BY <1>3 DEF Filtered
  <2>3. SlotOf(u) \in Owned
    BY DEF Own
  <2> HIDE DEF full, r
  <2>4. LettingIn(r)
    BY <1>1, <2>1, <2>2, <2>3 DEF LettingIn
  <2> QED
    BY <1>1, <2>4
<1> QED
  BY <1>2, <1>3

LEMMA AdmitShape ==
  ASSUME Types, Safe, NEW u \in Url, Follow(u) \/ Inject(u) \/ SeedRequest(u)
  PROVE  Leaving \/ \E r \in Request : LettingIn(r)
<1>1. isOpen /\ \A s \in Slot : \A r \in active[s] : SlotOf(r.url) = s
  BY DEF Types, Settled, Follow, Inject, SeedRequest, Up, Safe, Placed
<1>2. /\ active' = active /\ asking' = asking /\ life' = life /\ savedSeen' = savedSeen
      /\ started' = started
  BY DEF Follow, Inject, SeedRequest, process
<1>3. InFlight' = InFlight
  BY <1>2 DEF InFlight
<1>4. CASE Follow(u) \/ Inject(u)
  <2>1. /\ Own(u) /\ u \notin seen
        /\ Crawl(u, SlotOf(u) \notin seenDomains, TRUE,
                 [queuedPer EXCEPT ![SlotOf(u)] = queuedPer[SlotOf(u)] + 1], gone)
    BY <1>4 DEF Follow, Inject, Admit
  <2> QED
    BY <1>1, <1>2, <1>3, <2>1, CrawlShape
<1>5. CASE SeedRequest(u)
  <2>1. CASE Own(u)
    <3>1. Crawl(u, FALSE, FALSE, queuedPer, gone)
      BY <1>5, <2>1 DEF SeedRequest
    <3> QED
      BY <1>1, <1>2, <1>3, <2>1, <3>1, CrawlShape
  <2>2. CASE ~ Own(u)
    BY <1>1, <1>2, <1>3, <1>5, <2>2 DEF SeedRequest, Leaving, frontier
  <2> QED
    BY <2>1, <2>2
<1> QED
  BY <1>4, <1>5

LEMMA RobotsShape ==
  ASSUME Types, Safe, NEW r \in asking, RobotsLeft(r) \/ Allowed(r) \/ Forbidden(r)
  PROVE  Leaving /\ \A q \in InFlight : q \in InFlight' \/ (q = r /\ Forbidden(r))
<1> DEFINE s == SlotOf(r.url)
<1>1. s \in Slot /\ Works /\ \A t \in Slot : \A q \in active[t] : SlotOf(q.url) = t
  BY AskingSlot, KeptParts DEF Types, Safe, Placed
<1>2. /\ UNCHANGED frontier /\ life' = life /\ savedSeen' = savedSeen
      /\ started' = started /\ seen' = seen
      /\ gone' = gone \/ gone' = gone \cup {r.url}
  BY DEF RobotsLeft, Allowed, Forbidden, process
<1>3. /\ InFlight' \subseteq InFlight
      /\ \A q \in InFlight : q \in InFlight' \/ (q = r /\ Forbidden(r) /\ r.url \in gone')
      /\ \A t \in Slot : \A q \in active'[t] : SlotOf(q.url) = t
  <2>1. CASE RobotsLeft(r)
    BY <1>1, <2>1 DEF RobotsLeft, InFlight
  <2>2. CASE Allowed(r)
    <3>1. asking' = asking \ {r} /\ active' = [active EXCEPT ![s] = active[s] \cup {r}]
      BY <2>2 DEF Allowed, Sent
    <3>2. \A t \in Slot : active'[t] = IF t = s THEN active[t] \cup {r} ELSE active[t]
      BY <1>1, <3>1 DEF Works
    <3>3. InFlight' = asking' \cup UNION {active'[t] : t \in Slot}
      BY DEF InFlight
    <3>4. InFlight' \subseteq InFlight
      BY <3>1, <3>2, <3>3 DEF InFlight
    <3>5. \A t \in Slot : active[t] \subseteq active'[t]
      BY <3>2
    <3>6. r \in active'[s] /\ s \in Slot
      BY <1>1, <3>2
    <3> HIDE DEF s
    <3>7. InFlight \subseteq InFlight'
      BY <3>1, <3>3, <3>5, <3>6 DEF InFlight
    <3>8. \A t \in Slot : \A q \in active'[t] : SlotOf(q.url) = t
      BY <1>1, <3>2 DEF s
    <3> QED
      BY <3>4, <3>7, <3>8
  <2>3. CASE Forbidden(r)
    <3>1. asking' = asking \ {r} /\ active' = active /\ gone' = gone \cup {r.url}
      BY <2>3 DEF Forbidden
    <3> QED
      BY <1>1, <2>3, <3>1 DEF InFlight
  <2> QED
    BY <2>1, <2>2, <2>3
<1> QED
  BY <1>2, <1>3 DEF Leaving, frontier

\* A request leaves the downloader.
LEMMA LeftFlight ==
  ASSUME Works, Placed, NEW s \in Slot, NEW r \in active[s], Left(s, r), asking' = asking
  PROVE  /\ InFlight' \subseteq InFlight /\ InFlight \subseteq InFlight' \cup {r}
         /\ \A t \in Slot : \A q \in active'[t] : SlotOf(q.url) = t
<1>1. \A t \in Slot : active'[t] = IF t = s THEN active[t] \ {r} ELSE active[t]
  BY DEF Left, Works
<1>2. InFlight' = asking \cup UNION {active'[t] : t \in Slot}
  BY DEF InFlight
<1>3. /\ \A t \in Slot : active'[t] \subseteq active[t]
      /\ \A t \in Slot : active[t] \subseteq active'[t] \cup {r}
  BY <1>1
<1> QED
  BY <1>2, <1>3 DEF InFlight, Placed

LEMMA EndedShape ==
  ASSUME Types, Safe, NEW s \in Slot, NEW r \in active[s],
         \/ Parsed(s, r) \/ Failed(s, r)
         \/ \E target \in Url : Redirected(s, r, target)
  PROVE  /\ Leaving \/ \E q \in Request : LettingIn(q)
         /\ InFlight \subseteq InFlight' \cup {r}
<1>1. /\ Works /\ Placed /\ Left(s, r) /\ asking' = asking /\ r.new \in BOOLEAN
      /\ life' = life /\ savedSeen' = savedSeen /\ started' = started
  BY KeptParts, ActiveSlot DEF Types, Safe, Parsed, Failed, Redirected, process
<1>2. /\ InFlight' \subseteq InFlight /\ InFlight \subseteq InFlight' \cup {r}
      /\ \A t \in Slot : \A q \in active'[t] : SlotOf(q.url) = t
  BY <1>1, LeftFlight
<1>3. isOpen
  BY DEF Types, Settled, NoneActive
<1>4. CASE UNCHANGED frontier /\ gone' = gone \cup {r.url} /\ seen' = seen
  <2>1. Leaving
    BY <1>1, <1>2, <1>4 DEF Leaving, frontier
  <2> QED
    BY <1>2, <2>1
<1>5. ASSUME NEW target \in Url, Own(target),
             Crawl(target, r.new, RedirectDontFilter, Released(queuedPer, s), gone \cup {r.url})
      PROVE  Leaving \/ \E q \in Request : LettingIn(q)
  <2>1. RedirectDontFilter = FALSE
    BY DEF RedirectDontFilter
  <2>2. \A q \in InFlight : q \in InFlight' \/ q.url \in gone \cup {r.url}
    BY <1>2
  <2> QED
    BY <1>1, <1>2, <1>3, <1>5, <2>1, <2>2, CrawlShape
<1>6. CASE Parsed(s, r) \/ Failed(s, r)
  <2>1. UNCHANGED frontier /\ gone' = gone \cup {r.url} /\ seen' = seen
    BY <1>6 DEF Parsed, Failed
  <2> QED
    BY <1>4, <2>1
<1>7. ASSUME NEW target \in Url, Redirected(s, r, target)
      PROVE  Leaving \/ \E q \in Request : LettingIn(q)
  <2>1. CASE Own(target)
    BY <1>5, <1>7, <2>1 DEF Redirected
  <2>2. CASE ~ Own(target)
    BY <1>4, <1>7, <2>2 DEF Redirected
  <2> QED
    BY <2>1, <2>2
<1> QED
  BY <1>2, <1>6, <1>4, <1>7

LEMMA CheckpointShape ==
  ASSUME Types, Safe, CheckpointFrontier \/ CheckpointBloom
  PROVE  Leaving /\ InFlight' = InFlight
<1>1. /\ life' = life /\ started' = started /\ seen' = seen /\ asking' = asking /\ gone' = gone
      /\ savedSeen' \in {savedSeen, seen}
      /\ pqueues' = pqueues /\ active' = active /\ activeJson' = activeJson
  BY DEF CheckpointFrontier, CheckpointBloom, CheckpointSlice, svars, fvars, frontier
<1>2. \A t \in Slot : popped'[t] = popped[t] \/ popped'[t] = <<>>
  BY DEF CheckpointFrontier, CheckpointBloom, CheckpointSlice, fvars, frontier
<1>3. InFlight' = InFlight
  BY <1>1 DEF InFlight
<1> QED
  BY <1>1, <1>2, <1>3 DEF Leaving, Safe, Placed

LEMMA StopShape ==
  ASSUME Types, Safe, Stop
  PROVE  Leaving
<1>1. PICK wire :
        /\ active' = [s \in Slot |-> active[s] \cap wire]
        /\ gone' = gone \cup {r.url : r \in UNION {active[s] \ wire : s \in Slot}}
  BY DEF Stop
<1>2. /\ UNCHANGED frontier /\ life' = life /\ savedSeen' = savedSeen
      /\ started' = started /\ seen' = seen /\ asking' = asking
  BY DEF Stop
<1>3. InFlight' = asking \cup UNION {active[s] \cap wire : s \in Slot}
  BY <1>1, <1>2 DEF InFlight
<1>4. InFlight' \subseteq InFlight
  BY <1>3 DEF InFlight
<1>5. ASSUME NEW r \in InFlight, r \notin InFlight'
      PROVE  r.url \in gone'
  <2>1. PICK s \in Slot : r \in active[s] /\ r \notin wire
    BY <1>3, <1>5 DEF InFlight
  <2>2. r \in UNION {active[t] \ wire : t \in Slot}
    BY <2>1
  <2> QED
    BY <1>1, <2>2
<1> QED
  BY <1>1, <1>2, <1>4, <1>5 DEF Leaving, frontier, Safe, Placed

LEMMA DownShape ==
  ASSUME Types, Safe, Close \/ Kill
  PROVE  Leaving
<1>1. /\ life' = life /\ started' = started /\ seen' = seen /\ asking' = {}
      /\ savedSeen' \in {savedSeen, seen}
      /\ pqueues' = pqueues /\ active' = NoneActive
      /\ activeJson' \in {activeJson, Live} /\ popped' \in {popped, NothingPopped}
  BY DEF Close, Kill, Closed, Killed, Volatile, NothingInProgress
<1>2. InFlight' = {}
  BY <1>1 DEF InFlight, NoneActive
<1>3. gone \subseteq gone' /\ \A r \in InFlight : r.url \in gone'
  <2>1. CASE Close
    <3>1. InFlight = {} /\ gone' = gone
      BY <2>1 DEF Close, NothingInProgress, InFlight, NoneActive
    <3> QED
      BY <3>1
  <2>2. CASE Kill
    BY <2>2 DEF Kill
  <2> QED
    BY <2>1, <2>2
<1> QED
  BY <1>1, <1>2, <1>3 DEF Leaving, NoneActive, NothingPopped

-------------------------------------------------------------------------------
(* The queued counter of a slot. *)

HeldNow(s) == {r \in HeldOf(s) : r.life = life}
Counter(s) == queuedPer[s] <= Cardinality(HeldNow(s)) + unreleased[s]

LEMMA Accounts ==
  /\ QueuedAccounted <=> (Up => \A s \in Slot : Counter(s))
  /\ QueuedAccounted' <=> (Up' => \A s \in Slot : Counter(s)')
BY DEF QueuedAccounted, Counter, HeldNow

LEMMA HeldNowFinite ==
  ASSUME NEW s \in Slot
  PROVE  /\ Types /\ Placed => IsFiniteSet(HeldNow(s))
         /\ Types' /\ Placed' => IsFiniteSet(HeldNow(s)')
<1>1. ASSUME Types, Placed
      PROVE  IsFiniteSet(HeldNow(s))
  <2>1. IsFiniteSet(Queued) /\ IsFiniteSet(asking) /\ IsFiniteSet(active[s])
    BY <1>1, QueuedFinite DEF Types, Settled, Kept
  <2>2. IsFiniteSet(Queued \cup asking) /\ IsFiniteSet((Queued \cup asking) \cup active[s])
    BY <2>1, FS_Union
  <2>3. HeldNow(s) \subseteq (Queued \cup asking) \cup active[s]
    BY <1>1 DEF HeldNow, HeldOf, Held, InFlight, Placed
  <2> QED
    BY <2>2, <2>3, FS_Subset
<1>2. ASSUME Types', Placed'
      PROVE  IsFiniteSet(HeldNow(s)')
  <2>1. IsFiniteSet(Queued') /\ IsFiniteSet(asking') /\ IsFiniteSet(active'[s])
    BY <1>2, QueuedFinite DEF Types, Settled, Kept
  <2>2. IsFiniteSet(Queued' \cup asking') /\ IsFiniteSet((Queued' \cup asking') \cup active'[s])
    BY <2>1, FS_Union
  <2>3. HeldNow(s)' \subseteq (Queued' \cup asking') \cup active'[s]
    BY <1>2 DEF HeldNow, HeldOf, Held, InFlight, Placed
  <2> QED
    BY <2>2, <2>3, FS_Subset
<1> QED
  BY <1>1, <1>2

LEMMA Sizes ==
  ASSUME NEW A, NEW B, IsFiniteSet(A), IsFiniteSet(B), NEW x
  PROVE  /\ Cardinality(A) \in Nat /\ Cardinality(B) \in Nat
         /\ A \subseteq B => Cardinality(A) <= Cardinality(B)
         /\ A \subseteq B \cup {x} => Cardinality(A) <= Cardinality(B) + 1
         /\ A \cup {x} \subseteq B /\ x \notin A => Cardinality(A) + 1 <= Cardinality(B)
<1>1. Cardinality(A) \in Nat /\ Cardinality(B) \in Nat
  BY FS_CardinalityType
<1>2. A \subseteq B => Cardinality(A) <= Cardinality(B)
  BY FS_Subset
<1>3. A \subseteq B \cup {x} => Cardinality(A) <= Cardinality(B) + 1
  <2>1. IsFiniteSet(B \cup {x}) /\ Cardinality(B \cup {x}) \in {Cardinality(B), Cardinality(B) + 1}
    BY FS_AddElement
  <2>2. A \subseteq B \cup {x} => Cardinality(A) <= Cardinality(B \cup {x})
    BY <2>1, FS_Subset
  <2>3. Cardinality(B \cup {x}) <= Cardinality(B) + 1
    BY <1>1, <2>1
  <2>4. Cardinality(B \cup {x}) \in Nat
    BY <2>1, FS_CardinalityType
  <2> QED
    BY <1>1, <2>2, <2>3, <2>4
<1>4. A \cup {x} \subseteq B /\ x \notin A => Cardinality(A) + 1 <= Cardinality(B)
  <2>1. x \notin A => Cardinality(A \cup {x}) = Cardinality(A) + 1
    BY FS_AddElement
  <2>2. A \cup {x} \subseteq B => Cardinality(A \cup {x}) <= Cardinality(B)
    BY FS_Subset
  <2> QED
    BY <2>1, <2>2
<1> QED
  BY <1>1, <1>2, <1>3, <1>4

\* A counter keeps within its bound if it does not grow faster.
LEMMA CounterKept ==
  ASSUME Types, Types', Placed, Placed', NEW s \in Slot, Counter(s), NEW r,
         \/ /\ HeldNow(s) \subseteq HeldNow(s)'
            /\ queuedPer'[s] <= queuedPer[s] /\ unreleased'[s] >= unreleased[s]
         \/ /\ HeldNow(s) \subseteq HeldNow(s)' \cup {r}
            /\ queuedPer'[s] + 1 <= queuedPer[s] \/ queuedPer'[s] = 0
            /\ unreleased'[s] >= unreleased[s]
         \/ /\ HeldNow(s) \subseteq HeldNow(s)' \cup {r}
            /\ queuedPer'[s] <= queuedPer[s] /\ unreleased'[s] >= unreleased[s] + 1
         \/ /\ HeldNow(s) \cup {r} \subseteq HeldNow(s)' /\ r \notin HeldNow(s)
            /\ queuedPer'[s] <= queuedPer[s] + 1 /\ unreleased'[s] >= unreleased[s]
  PROVE  Counter(s)'
<1> DEFINE A == HeldNow(s)
           B == HeldNow(s)'
<1>1. IsFiniteSet(A) /\ IsFiniteSet(B)
  BY HeldNowFinite
<1>2. /\ queuedPer[s] \in Nat /\ queuedPer'[s] \in Nat
      /\ unreleased[s] \in Nat /\ unreleased'[s] \in Nat
  BY DEF Types, Settled
<1>3. queuedPer[s] <= Cardinality(A) + unreleased[s]
  BY DEF Counter
<1> HIDE DEF A, B
<1>4. /\ Cardinality(A) \in Nat /\ Cardinality(B) \in Nat
      /\ A \subseteq B => Cardinality(A) <= Cardinality(B)
      /\ A \subseteq B \cup {r} => Cardinality(A) <= Cardinality(B) + 1
      /\ A \cup {r} \subseteq B /\ r \notin A => Cardinality(A) + 1 <= Cardinality(B)
  BY <1>1, Sizes
<1>5. \/ Cardinality(A) <= Cardinality(B)
         /\ queuedPer'[s] <= queuedPer[s] /\ unreleased'[s] >= unreleased[s]
      \/ /\ Cardinality(A) <= Cardinality(B) + 1
         /\ queuedPer'[s] + 1 <= queuedPer[s] \/ queuedPer'[s] = 0
         /\ unreleased'[s] >= unreleased[s]
      \/ /\ Cardinality(A) <= Cardinality(B) + 1
         /\ queuedPer'[s] <= queuedPer[s] /\ unreleased'[s] >= unreleased[s] + 1
      \/ /\ Cardinality(A) + 1 <= Cardinality(B)
         /\ queuedPer'[s] <= queuedPer[s] + 1 /\ unreleased'[s] >= unreleased[s]
  BY <1>4 DEF A, B
<1>6. queuedPer'[s] <= Cardinality(B) + unreleased'[s]
  BY <1>2, <1>3, <1>4, <1>5
<1> QED
  BY <1>6 DEF Counter, B

LEMMA ReleasedAt ==
  ASSUME NEW q \in [Slot -> Nat], NEW s \in Slot, NEW t \in Slot
  PROVE  /\ Released(q, s)[t] \in Nat /\ Released(q, s)[t] <= q[t]
         /\ t # s => Released(q, s)[t] = q[t]
         /\ Released(q, s)[s] + 1 = q[s] \/ Released(q, s)[s] = 0
<1>1. \A v \in Slot : Released(q, s)[v] = IF v = s THEN IF q[s] > 0 THEN q[s] - 1 ELSE 0 ELSE q[v]
  BY DEF Released
<1>2. q[s] \in Nat /\ q[t] \in Nat
  OBVIOUS
<1>3. Released(q, s)[s] = IF q[s] > 0 THEN q[s] - 1 ELSE 0
  BY <1>1
<1>4. t # s => Released(q, s)[t] = q[t]
  BY <1>1
<1> QED
  BY <1>2, <1>3, <1>4

\* What is still held is still counted as held, whichever slot it is of.
LEMMA HeldNowKept ==
  ASSUME life' = life, NEW s
  PROVE  /\ Held \subseteq Held' => HeldNow(s) \subseteq HeldNow(s)'
         /\ \A r : Held \subseteq Held' \cup {r} =>
              /\ HeldNow(s) \subseteq HeldNow(s)' \cup {r}
              /\ SlotOf(r.url) # s => HeldNow(s) \subseteq HeldNow(s)'
BY DEF HeldNow, HeldOf

\* A crawl never takes from what is queued, and a refusal releases its slot.
LEMMA CrawlCounter ==
  ASSUME Types, NEW u \in Url, NEW isNew \in BOOLEAN, NEW dontFilter,
         NEW queued \in [Slot -> Nat], NEW ended, Crawl(u, isNew, dontFilter, queued, ended)
  PROVE  /\ Queued \subseteq Queued'
         /\ \/ queuedPer' = Released(queued, SlotOf(u))
            \/ /\ queuedPer' = queued
               /\ \E r \in Request : /\ r.url = u /\ r.life = life
                                     /\ Queued' = Queued \cup {r}
<1> DEFINE s == SlotOf(u)
           r == [url |-> u, life |-> life, new |-> isNew]
<1>1. r \in Request /\ r.url = u /\ r.life = life /\ s \in Slot /\ Kept(Request)
  BY Setting, SlotOfUrl DEF Types, Settled, Request
<1>2. CASE UNCHANGED frontier /\ queuedPer' = Dropped(queued, s)
  <2>1. Queued' = Queued
    BY <1>2 DEF frontier, Queued, Live
  <2> QED
    BY <1>2, <2>1 DEF Dropped
<1>3. CASE Enqueue(s, r) /\ queuedPer' = queued
  <2> HIDE DEF r, s
  <2>1. Queued' = Queued \cup {r}
    BY <1>1, <1>3, EnqueueQueued
  <2> QED
    BY <1>1, <1>3, <2>1
<1> QED
  BY <1>2, <1>3 DEF Crawl

LEMMA AdmitAccounted ==
  ASSUME Types, Types', Safe, Safe', QueuedAccounted,
         NEW u \in Url, Follow(u) \/ Inject(u) \/ SeedRequest(u)
  PROVE  QueuedAccounted'
<1> DEFINE s == SlotOf(u)
           more == [queuedPer EXCEPT ![s] = queuedPer[s] + 1]
<1>1. /\ Placed /\ Placed' /\ Once /\ s \in Slot /\ queuedPer \in [Slot -> Nat] /\ Up
      /\ unreleased \in [Slot -> Nat]
  BY SlotOfUrl DEF Safe, Types, Settled, Follow, Inject, SeedRequest, Up
<1>2. /\ active' = active /\ asking' = asking /\ life' = life /\ unreleased' = unreleased
  BY DEF Follow, Inject, SeedRequest, process
<1>3. InFlight' = InFlight
  BY <1>2 DEF InFlight
<1> SUFFICES ASSUME NEW t \in Slot, Counter(t)
             PROVE  Counter(t)'
  BY <1>1, Accounts
<1>4. queuedPer[t] \in Nat /\ unreleased'[t] >= unreleased[t]
  BY <1>1, <1>2
<1>5. ASSUME Queued \subseteq Queued', queuedPer'[t] <= queuedPer[t]
      PROVE  Counter(t)'
  <2>1. HeldNow(t) \subseteq HeldNow(t)'
    BY <1>2, <1>3, <1>5, HeldNowKept DEF Held
  <2> QED
    BY <1>1, <1>4, <1>5, <2>1, CounterKept
<1>6. CASE SeedRequest(u)
  <2>1. Queued \subseteq Queued' /\ queuedPer'[t] <= queuedPer[t]
    <3>1. CASE Own(u)
      <4>1. Crawl(u, FALSE, FALSE, queuedPer, gone)
        BY <1>6, <3>1 DEF SeedRequest
      <4>2. Queued \subseteq Queued' /\ queuedPer' \in {Released(queuedPer, s), queuedPer}
        BY <1>1, <4>1, CrawlCounter
      <4>3. Released(queuedPer, s)[t] <= queuedPer[t]
        BY <1>1, ReleasedAt
      <4> QED
        BY <1>4, <4>2, <4>3
    <3>2. CASE ~Own(u)
      BY <1>4, <1>6, <3>2 DEF SeedRequest, frontier, Queued, Live
    <3> QED
      BY <3>1, <3>2
  <2> QED
    BY <1>5, <2>1
<1>7. CASE Follow(u) \/ Inject(u)
  <2>1. u \notin seen /\ Crawl(u, s \notin seenDomains, TRUE, more, gone)
    BY <1>7 DEF Follow, Inject, Admit
  <2>2. more \in [Slot -> Nat]
    BY <1>1
  <2>3. more[s] = queuedPer[s] + 1 /\ \A v \in Slot : v # s => more[v] = queuedPer[v]
    BY <1>1
  <2> HIDE DEF more
  <2>4. /\ Queued \subseteq Queued'
        /\ \/ queuedPer' = Released(more, s)
           \/ /\ queuedPer' = more
              /\ \E r \in Request : /\ r.url = u /\ r.life = life
                                    /\ Queued' = Queued \cup {r}
    BY <2>1, <2>2, CrawlCounter
  <2>5. CASE t # s
    <3>1. queuedPer'[t] = queuedPer[t]
      BY <1>1, <2>2, <2>3, <2>4, <2>5, ReleasedAt
    <3> QED
      BY <1>4, <1>5, <2>4, <3>1
  <2>6. CASE t = s /\ queuedPer' = Released(more, s)
    <3>1. Released(more, s)[s] + 1 = more[s] \/ Released(more, s)[s] = 0
      BY <1>1, <2>2, ReleasedAt
    <3>2. queuedPer'[t] \in Nat /\ (queuedPer'[t] + 1 = queuedPer[t] + 1 \/ queuedPer'[t] = 0)
      BY <1>1, <2>2, <2>3, <2>6, <3>1, ReleasedAt
    <3>3. queuedPer'[t] <= queuedPer[t]
      BY <1>4, <3>2
    <3> QED
      BY <1>5, <2>4, <3>3
  <2>7. CASE t = s /\ ~ (queuedPer' = Released(more, s))
    <3>1. PICK r \in Request : r.url = u /\ r.life = life /\ Queued' = Queued \cup {r}
      BY <2>4, <2>7
    <3>2. queuedPer'[t] = queuedPer[t] + 1
      BY <2>3, <2>4, <2>7
    <3>3. r \notin HeldNow(t)
      <4>1. ~ Known(r)
        BY <2>1, <3>1 DEF Known
      <4>2. \A q \in Held : Known(q)
        BY <1>1, QueuedInFile DEF Held, Once, Types
      <4> QED
        BY <4>1, <4>2 DEF HeldNow, HeldOf
    <3>4. HeldNow(t) \cup {r} \subseteq HeldNow(t)'
      <4>1. HeldNow(t) \subseteq HeldNow(t)'
        BY <1>2, <1>3, <2>4, HeldNowKept DEF Held
      <4>2. r \in Held' /\ r.life = life' /\ SlotOf(r.url) = t
        BY <1>2, <2>7, <3>1 DEF Held
      <4> QED
        BY <4>1, <4>2 DEF HeldNow, HeldOf
    <3>5. queuedPer'[t] <= queuedPer[t] + 1
      BY <1>4, <3>2
    <3> QED
      BY <1>1, <1>4, <3>3, <3>4, <3>5, CounterKept
  <2> QED
    BY <2>4, <2>5, <2>6, <2>7
<1> QED
  BY <1>6, <1>7

LEMMA TakeAccounted ==
  ASSUME Types, Types', Safe, Safe', QueuedAccounted, Take
  PROVE  QueuedAccounted'
<1>1. /\ Placed /\ Placed' /\ Up /\ isOpen /\ Kept(Request) /\ RingComplete
      /\ queuedPer \in [Slot -> Nat] /\ unreleased \in [Slot -> Nat]
  BY DEF Safe, Types, Settled, Take, Up
<1>2. /\ asking' = asking \cup Given /\ active' = active /\ life' = life
      /\ queuedPer' = queuedPer /\ unreleased' = unreleased
  BY DEF Take, NextRequest
<1>3. Queued' \cup Given = Queued
  BY <1>1, NextQueued DEF Take
<1>4. Held \subseteq Held'
  BY <1>2, <1>3 DEF Held, InFlight
<1>5. ASSUME NEW s \in Slot, Counter(s)
      PROVE  Counter(s)'
  <2>1. HeldNow(s) \subseteq HeldNow(s)'
    BY <1>2, <1>4, HeldNowKept
  <2>2. queuedPer[s] \in Nat /\ unreleased[s] \in Nat
    BY <1>1
  <2>3. queuedPer'[s] <= queuedPer[s] /\ unreleased'[s] >= unreleased[s]
    BY <1>2, <2>2
  <2> QED
    BY <1>1, <1>5, <2>1, <2>3, CounterKept
<1> QED
  BY <1>1, <1>5, Accounts

LEMMA RobotsAccounted ==
  ASSUME Types, Types', Safe, Safe', QueuedAccounted,
         NEW r \in asking, RobotsLeft(r) \/ Allowed(r) \/ Forbidden(r)
  PROVE  QueuedAccounted'
<1>1. /\ Placed /\ Placed' /\ Up
      /\ queuedPer \in [Slot -> Nat] /\ unreleased \in [Slot -> Nat]
  BY DEF Safe, Types, Settled
<1>2. /\ SlotOf(r.url) \in Slot /\ Queued' = Queued /\ life' = life
      /\ \A q \in InFlight : q \in InFlight' \/ (q = r /\ Forbidden(r))
  <2>1. Leaving /\ \A q \in InFlight : q \in InFlight' \/ (q = r /\ Forbidden(r))
    BY RobotsShape
  <2> QED
    BY <2>1, AskingSlot DEF Leaving, Queued, Live
<1>3. ASSUME NEW s \in Slot, Counter(s)
      PROVE  Counter(s)'
  <2>1. queuedPer[s] \in Nat /\ unreleased[s] \in Nat
    BY <1>1
  <2>2. CASE RobotsLeft(r) \/ Allowed(r)
    <3>1. InFlight \subseteq InFlight'
      <4>1. CASE RobotsLeft(r)
        BY <4>1 DEF RobotsLeft, process, InFlight
      <4>2. CASE Allowed(r)
        <5>1. r \in active'[SlotOf(r.url)] /\ \A t \in Slot : active[t] \subseteq active'[t]
          BY <1>2, <4>2 DEF Allowed, Sent, Types, Kept
        <5> QED
          BY <1>2, <4>2, <5>1 DEF Allowed, InFlight
      <4> QED
        BY <2>2, <4>1, <4>2
    <3>2. HeldNow(s) \subseteq HeldNow(s)'
      BY <1>2, <3>1, HeldNowKept DEF Held
    <3>3. unreleased' = unreleased /\ queuedPer' \in {queuedPer, Released(queuedPer, SlotOf(r.url))}
      BY <2>2 DEF RobotsLeft, Allowed
    <3>4. Released(queuedPer, SlotOf(r.url))[s] <= queuedPer[s]
      BY <1>1, <1>2, ReleasedAt
    <3>5. queuedPer'[s] <= queuedPer[s] /\ unreleased'[s] >= unreleased[s]
      BY <2>1, <3>3, <3>4
    <3> QED
      BY <1>1, <1>3, <3>2, <3>5, CounterKept
  <2>3. CASE Forbidden(r)
    <3>1. Held \subseteq Held' \cup {r}
      BY <1>2 DEF Held
    <3>2. /\ HeldNow(s) \subseteq HeldNow(s)' \cup {r}
          /\ SlotOf(r.url) # s => HeldNow(s) \subseteq HeldNow(s)'
      BY <1>2, <3>1, HeldNowKept
    <3>3. /\ queuedPer' = queuedPer
          /\ unreleased' = [unreleased EXCEPT ![SlotOf(r.url)] = unreleased[SlotOf(r.url)] + 1]
      BY <2>3 DEF Forbidden
    <3>4. CASE SlotOf(r.url) = s
      <4>1. unreleased'[s] = unreleased[s] + 1
        BY <1>1, <3>3, <3>4
      <4>2. queuedPer'[s] <= queuedPer[s] /\ unreleased'[s] >= unreleased[s] + 1
        BY <2>1, <3>3, <4>1
      <4> QED
        BY <1>1, <1>3, <3>2, <4>2, CounterKept
    <3>5. CASE SlotOf(r.url) # s
      <4>1. unreleased'[s] = unreleased[s]
        BY <1>1, <3>3, <3>5
      <4>2. queuedPer'[s] <= queuedPer[s] /\ unreleased'[s] >= unreleased[s]
        BY <2>1, <3>3, <4>1
      <4> QED
        BY <1>1, <1>3, <3>2, <3>5, <4>2, CounterKept
    <3> QED
      BY <3>4, <3>5
  <2> QED
    BY <2>2, <2>3
<1> QED
  BY <1>1, <1>3, Accounts DEF RobotsLeft, Allowed, Forbidden, Up, process

LEMMA EndedAccounted ==
  ASSUME Types, Types', Safe, Safe', QueuedAccounted,
         NEW s \in Slot, NEW r \in active[s],
         \/ Parsed(s, r) \/ Failed(s, r)
         \/ \E target \in Url : Redirected(s, r, target)
  PROVE  QueuedAccounted'
<1>1. /\ Placed /\ Placed' /\ Up /\ Once
      /\ queuedPer \in [Slot -> Nat] /\ unreleased \in [Slot -> Nat]
      /\ r \in Request /\ r.new \in BOOLEAN /\ SlotOf(r.url) = s
  BY ActiveSlot DEF Safe, Types, Settled, NoneActive, Placed
<1>2. Released(queuedPer, s) \in [Slot -> Nat]
  BY <1>1, ReleasedType
<1>3. life' = life /\ unreleased' = unreleased /\ InFlight \subseteq InFlight' \cup {r}
  BY EndedShape DEF Parsed, Failed, Redirected, process
<1>4. /\ Queued \subseteq Queued'
      /\ \A t \in Slot : queuedPer'[t] <= Released(queuedPer, s)[t]
  <2>1. \A t \in Slot : Released(queuedPer, s)[t] <= Released(queuedPer, s)[t]
    BY <1>1, ReleasedAt
  <2>2. CASE UNCHANGED frontier /\ queuedPer' = Released(queuedPer, s)
    BY <2>1, <2>2 DEF frontier, Queued, Live
  <2>3. ASSUME NEW target \in Url,
               Crawl(target, r.new, RedirectDontFilter, Released(queuedPer, s), gone \cup {r.url})
        PROVE  <1>4!1 /\ <1>4!2
    <3> DEFINE q == Released(queuedPer, s)
    <3>1. q \in [Slot -> Nat]
      BY <1>2
    <3>2. Crawl(target, r.new, RedirectDontFilter, q, gone \cup {r.url})
      BY <2>3
    <3> HIDE DEF q
    <3>3. Queued \subseteq Queued' /\ queuedPer' \in {q, Released(q, SlotOf(target))}
      BY <1>1, <3>1, <3>2, CrawlCounter
    <3>4. \A t \in Slot : q[t] <= q[t] /\ Released(q, SlotOf(target))[t] <= q[t]
      BY <3>1, SlotOfUrl, ReleasedAt
    <3>5. \A t \in Slot : queuedPer'[t] <= q[t]
      BY <3>3, <3>4
    <3> QED
      BY <3>3, <3>5 DEF q
  <2>4. ASSUME NEW target \in Url, Redirected(s, r, target)
        PROVE  <1>4!1 /\ <1>4!2
    <3>1. CASE Own(target)
      BY <2>3, <2>4, <3>1 DEF Redirected
    <3>2. CASE ~ Own(target)
      BY <2>2, <2>4, <3>2 DEF Redirected
    <3> QED
      BY <3>1, <3>2
  <2>5. CASE Parsed(s, r) \/ Failed(s, r)
    BY <2>2, <2>5 DEF Parsed, Failed
  <2> QED
    BY <2>4, <2>5
<1>5. Held \subseteq Held' \cup {r}
  BY <1>3, <1>4 DEF Held
<1>6. ASSUME NEW t \in Slot, Counter(t)
      PROVE  Counter(t)'
  <2>1. /\ HeldNow(t) \subseteq HeldNow(t)' \cup {r}
        /\ SlotOf(r.url) # t => HeldNow(t) \subseteq HeldNow(t)'
    BY <1>3, <1>5, HeldNowKept
  <2>2. queuedPer[t] \in Nat /\ unreleased[t] \in Nat /\ queuedPer'[t] \in Nat
    BY <1>1 DEF Types, Settled
  <2>3. unreleased'[t] >= unreleased[t]
    BY <1>3, <2>2
  <2>4. CASE t = s
    <3>1. Released(queuedPer, s)[s] + 1 = queuedPer[s] \/ Released(queuedPer, s)[s] = 0
      BY <1>1, ReleasedAt
    <3>2. Released(queuedPer, s)[s] \in Nat /\ queuedPer'[s] <= Released(queuedPer, s)[s]
      BY <1>2, <1>4
    <3>3. queuedPer'[t] + 1 <= queuedPer[t] \/ queuedPer'[t] = 0
      BY <2>2, <2>4, <3>1, <3>2
    <3> QED
      BY <1>1, <1>6, <2>1, <2>3, <3>3, CounterKept
  <2>5. CASE t # s
    <3>1. Released(queuedPer, s)[t] = queuedPer[t]
      BY <1>1, <2>5, ReleasedAt
    <3>2. queuedPer'[t] <= queuedPer[t]
      BY <1>4, <3>1
    <3> QED
      BY <1>1, <1>6, <2>1, <2>3, <2>5, <3>2, CounterKept
  <2> QED
    BY <2>4, <2>5
<1> QED
  BY <1>1, <1>6, Accounts

LEMMA CheckpointAccounted ==
  ASSUME Types, Types', Safe, Safe', QueuedAccounted, CheckpointFrontier \/ CheckpointBloom
  PROVE  QueuedAccounted'
<1>1. Leaving /\ InFlight' = InFlight
  BY CheckpointShape
<1>2. /\ queuedPer' = queuedPer /\ unreleased' = unreleased /\ life' = life /\ Up /\ Up' = Up
  BY DEF CheckpointFrontier, CheckpointBloom, svars, Up
<1>3. Held' = Held
  BY <1>1 DEF Held, Leaving, Queued, Live
<1>4. \A s \in Slot : HeldNow(s)' = HeldNow(s)
  BY <1>2, <1>3 DEF HeldNow, HeldOf
<1>5. \A s \in Slot : Counter(s) => Counter(s)'
  BY <1>2, <1>4 DEF Counter
<1> QED
  BY <1>2, <1>5, Accounts

\* What Stop cancels leaves with no signal, and is counted so.
LEMMA StopAccounted ==
  ASSUME Types, Types', Safe, Safe', QueuedAccounted, Stop
  PROVE  QueuedAccounted'
<1>1. /\ Placed /\ Placed' /\ Up
      /\ queuedPer \in [Slot -> Nat] /\ unreleased \in [Slot -> Nat]
  BY DEF Safe, Types, Settled, Stop, Up
<1>2. PICK wire :
        /\ active' = [s \in Slot |-> active[s] \cap wire]
        /\ unreleased' = [s \in Slot |-> unreleased[s] + Cardinality(active[s] \ wire)]
  BY DEF Stop
<1>3. Queued' = Queued /\ life' = life /\ asking' = asking /\ queuedPer' = queuedPer
  BY DEF Stop, frontier, Queued, Live
<1>4. ASSUME NEW s \in Slot, Counter(s)
      PROVE  Counter(s)'
  <2> DEFINE C == active[s] \ wire
             A == HeldNow(s)
             B == HeldNow(s)'
  <2>1. A \subseteq B \cup C
    <3> SUFFICES ASSUME NEW r \in HeldNow(s), r \notin C
                 PROVE  r \in HeldNow(s)'
      OBVIOUS
    <3>1. r \in Held /\ SlotOf(r.url) = s /\ r.life = life
      BY DEF HeldNow, HeldOf
    <3>2. r \in Held'
      <4>1. CASE r \in Queued \cup asking
        BY <1>3, <4>1 DEF Held, InFlight
      <4>2. ASSUME NEW t \in Slot, r \in active[t]
            PROVE  r \in Held'
        <5>1. t = s
          BY <1>1, <3>1, <4>2 DEF Placed
        <5>2. r \in active'[s]
          BY <1>2, <4>2, <5>1
        <5> QED
          BY <5>2 DEF Held, InFlight
      <4> QED
        BY <3>1, <4>1, <4>2 DEF Held, InFlight
    <3> QED
      BY <1>3, <3>1, <3>2 DEF HeldNow, HeldOf
  <2>2. IsFiniteSet(A) /\ IsFiniteSet(B) /\ IsFiniteSet(C)
    <3>1. IsFiniteSet(active[s]) /\ C \subseteq active[s]
      BY DEF Types, Kept
    <3> QED
      BY <1>1, <3>1, HeldNowFinite, FS_Subset
  <2>3. queuedPer[s] <= Cardinality(A) + unreleased[s]
    BY <1>4 DEF Counter
  <2>4. unreleased'[s] = unreleased[s] + Cardinality(C) /\ queuedPer'[s] = queuedPer[s]
    BY <1>2, <1>3
  <2>5. queuedPer[s] \in Nat /\ unreleased[s] \in Nat
    BY <1>1
  <2> HIDE DEF A, B, C
  <2>6. /\ IsFiniteSet(B \cup C)
        /\ Cardinality(B \cup C) = Cardinality(B) + Cardinality(C) - Cardinality(B \cap C)
    BY <2>2, FS_Union
  <2>7. Cardinality(A) <= Cardinality(B \cup C)
    BY <2>1, <2>6, FS_Subset
  <2>8. IsFiniteSet(B \cap C)
    BY <2>2, FS_Intersection
  <2>9. /\ Cardinality(A) \in Nat /\ Cardinality(B) \in Nat /\ Cardinality(C) \in Nat
        /\ Cardinality(B \cap C) \in Nat
    BY <2>2, <2>8, FS_CardinalityType
  <2>10. queuedPer'[s] <= Cardinality(B) + unreleased'[s]
    BY <2>3, <2>4, <2>5, <2>6, <2>7, <2>9
  <2> QED
    BY <2>10 DEF Counter, B
<1> QED
  BY <1>1, <1>4, Accounts

LEMMA StartAccounted ==
  ASSUME Types', Safe', Start
  PROVE  QueuedAccounted'
<1>1. ASSUME NEW s \in Slot
      PROVE  Counter(s)'
  <2>1. IsFiniteSet(HeldNow(s)')
    BY HeldNowFinite DEF Safe
  <2>2. Cardinality(HeldNow(s)') \in Nat
    BY <2>1, FS_CardinalityType
  <2>3. queuedPer'[s] = 0 /\ unreleased'[s] = 0
    BY DEF Start, Zero
  <2>4. queuedPer'[s] <= Cardinality(HeldNow(s)') + unreleased'[s]
    BY <2>2, <2>3
  <2> QED
    BY <2>4 DEF Counter
<1> QED
  BY <1>1, Accounts

LEMMA DownAccounted ==
  ASSUME Close \/ Kill
  PROVE  QueuedAccounted'
BY Accounts DEF Close, Kill, Up

-------------------------------------------------------------------------------
(* The invariant. *)

LEMMA InitInv == Init => Inv
<1> SUFFICES ASSUME Init
             PROVE  Inv
  OBVIOUS
<1>1. /\ pqueues = << >> /\ popped = NothingPopped /\ ring = << >> /\ members = {} /\ size = 0
      /\ activeJson = {} /\ active = NoneActive /\ isOpen = TRUE
      /\ phase = "running" /\ life = 1 /\ seen = {} /\ savedSeen = {} /\ seedsLeft = Seed
      /\ queuedPer = Zero /\ unreleased = Zero /\ asking = {} /\ started = {} /\ gone = {}
  BY DEF Init, FrontierInit
<1>2. Live = {} /\ DOMAIN ring = {}
  BY <1>1, EmptySeq DEF Live
<1>3. Types
  <2>1. pqueues \in [Live -> Seq(Request)]
    BY <1>1, <1>2
  <2>2. popped \in [Slot -> Seq(Request)] /\ ring \in Seq(Slot)
    BY <1>1, EmptySeq DEF NothingPopped
  <2>3. Kept(Request)
    BY <1>1, <1>2, <2>1, <2>2, FS_EmptySet DEF Kept, NoneActive
  <2>4. RingComplete
    BY <1>1, <1>2 DEF RingComplete
  <2>5. isOpen = TRUE /\ Up = TRUE
    BY <1>1 DEF Up
  <2>6. Settled
    BY <1>1, <2>5, Setting, FS_EmptySet DEF Settled, Zero
  <2> QED
    BY <2>3, <2>4, <2>6 DEF Types
<1>4. Queued = {} /\ InFlight = {} /\ Held = {}
  BY <1>1, <1>2 DEF Queued, InFlight, Held, NoneActive
<1>5. \A s \in Slot : DOMAIN File(s) = {}
  <2>1. \A s \in Slot : File(s) = << >> \o << >>
    BY <1>1, <1>2 DEF File, Queue, NothingPopped
  <2>2. << >> \o << >> = << >>
    BY EmptySeq, ConcatEmptySeq
  <2> QED
    BY <2>1, <2>2
<1>6. Placed /\ Once /\ Ours /\ Memory
  BY <1>1, <1>2, <1>4, <1>5 DEF Placed, Once, Ours, Memory, Distinct, NoneActive
<1>7. QueuedAccounted
  <2>1. ASSUME NEW s \in Slot
        PROVE  Counter(s)
    <3>1. HeldNow(s) = {}
      BY <1>4 DEF HeldNow, HeldOf
    <3>2. Cardinality(HeldNow(s)) = 0
      BY <3>1, FS_EmptySet
    <3>3. queuedPer[s] = 0 /\ unreleased[s] = 0
      BY <1>1 DEF Zero
    <3> QED
      BY <3>2, <3>3 DEF Counter
  <2> QED
    BY <2>1, Accounts
<1> QED
  BY <1>3, <1>6, <1>7 DEF Inv

LEMMA LetInSafe ==
  ASSUME Types, Types', Safe, Leaving \/ \E r \in Request : LettingIn(r)
  PROVE  Safe'
BY LeavingSafe, LettingInSafe

LEMMA StepInv == Inv /\ [Next]_vars => Inv'
<1> SUFFICES ASSUME Types, Safe, QueuedAccounted, [Next]_vars
             PROVE  Types' /\ Safe' /\ QueuedAccounted'
  BY DEF Inv, Safe
<1>1. ASSUME NEW u \in Url, Follow(u) \/ Inject(u) \/ SeedRequest(u)
      PROVE  Types' /\ Safe' /\ QueuedAccounted'
  <2>1. Types'
    BY <1>1, AdmitTypes
  <2>2. Safe'
    BY <1>1, <2>1, AdmitShape, LetInSafe
  <2> QED
    BY <1>1, <2>1, <2>2, AdmitAccounted
<1>2. CASE Take
  <2>1. Types'
    BY <1>2, TakeTypes
  <2>2. Safe'
    BY <1>2, <2>1, TakeSafe
  <2> QED
    BY <1>2, <2>1, <2>2, TakeAccounted
<1>3. ASSUME NEW r \in asking, RobotsLeft(r) \/ Allowed(r) \/ Forbidden(r)
      PROVE  Types' /\ Safe' /\ QueuedAccounted'
  <2>1. Types'
    BY <1>3, RobotsTypes
  <2>2. Safe'
    BY <1>3, <2>1, RobotsShape, LetInSafe
  <2> QED
    BY <1>3, <2>1, <2>2, RobotsAccounted
<1>4. ASSUME NEW s \in Slot, NEW r \in active[s],
             \/ Parsed(s, r) \/ Failed(s, r)
             \/ \E target \in Url : Redirected(s, r, target)
      PROVE  Types' /\ Safe' /\ QueuedAccounted'
  <2>1. Types'
    BY <1>4, EndedTypes
  <2>2. Safe'
    BY <1>4, <2>1, EndedShape, LetInSafe
  <2> QED
    BY <1>4, <2>1, <2>2, EndedAccounted
<1>5. CASE CheckpointFrontier \/ CheckpointBloom
  <2>1. Types'
    BY <1>5, CheckpointTypes
  <2>2. Safe'
    BY <1>5, <2>1, CheckpointShape, LetInSafe
  <2> QED
    BY <1>5, <2>1, <2>2, CheckpointAccounted
<1>6. CASE Stop
  <2>1. Types'
    BY <1>6, StopTypes
  <2>2. Safe'
    BY <1>6, <2>1, StopShape, LetInSafe
  <2> QED
    BY <1>6, <2>1, <2>2, StopAccounted
<1>7. CASE Close \/ Kill
  <2>1. Types'
    BY <1>7, DownTypes
  <2>2. Safe'
    BY <1>7, <2>1, DownShape, LetInSafe
  <2> QED
    BY <1>7, <2>1, <2>2, DownAccounted
<1>8. CASE Start
  <2>1. Types'
    BY <1>8, StartTypes
  <2>2. Safe'
    BY <1>8, <2>1, StartSafe
  <2> QED
    BY <1>8, <2>1, <2>2, StartAccounted
<1>9. CASE UNCHANGED vars
  <2>1. UNCHANGED <<pqueues, popped, ring, members, size, activeJson, isOpen, active, phase, life,
                    seen, savedSeen, seedsLeft, queuedPer, asking, started, gone, unreleased>>
    BY <1>9 DEF vars, svars, frontier
  <2>2. UNCHANGED <<Live, InFlight, Up>> /\ UNCHANGED <<Queued, RingComplete>>
    BY <2>1 DEF Live, InFlight, Up, Queued, RingComplete
  <2>3. Types'
    BY <2>1, <2>2 DEF Types, Settled, Kept, Live
  <2>4. /\ \A s \in Slot : File(s)' = File(s)
        /\ Held' = Held
    BY <2>1, <2>2 DEF File, Queue, Live, Held
  <2>5. Safe'
    <3>1. Placed' /\ Ours' /\ Memory'
      BY <2>1, <2>2, <2>4 DEF Safe, Placed, Ours, Ever, Memory
    <3>2. Once'
      BY <2>1, <2>2, <2>4 DEF Safe, Once, Known, Distinct, Same
    <3> QED
      BY <3>1, <3>2 DEF Safe
  <2>6. QueuedAccounted'
    BY <2>1, <2>2, <2>4 DEF QueuedAccounted, HeldOf
  <2> QED
    BY <2>3, <2>5, <2>6
<1> QED
  BY <1>1, <1>2, <1>3, <1>4, <1>5, <1>6, <1>7, <1>8, <1>9 DEF Next, Progress

LEMMA Invariant == Spec => []Inv
BY InitInv, StepInv, PTL DEF Spec

-------------------------------------------------------------------------------
(* The theorems. *)

\* Whatever the filter remembers is queued, in flight, or has met its end, in
\* whichever order the queues and the filter are saved (pqueue.py,
\* dupefilter.py), and however processes end and start.
THEOREM Remembered == Spec => []NothingForgotten
<1>1. Inv => NothingForgotten
  BY DEF Inv, Memory, NothingForgotten
<1> QED
  BY <1>1, Invariant, PTL

LEMMA AtMostOne ==
  ASSUME NEW S, \A x, y \in S : x = y
  PROVE  Cardinality(S) \in {0, 1} /\ (S = {} => Cardinality(S) = 0)
<1>1. CASE S = {}
  BY <1>1, FS_EmptySet
<1>2. CASE S # {}
  <2>1. PICK x : S = {x}
    BY <1>2
  <2> QED
    BY <1>2, <2>1, FS_Singleton
<1> QED
  BY <1>1, <1>2

\* A process lets a URL in once, whether it comes as a seed, a link, out of the
\* inbox or as a redirect's target, and gives it to the downloader once; so does
\* each later process with what it finds on disk (broad.py, redirect.py).
THEOREM LetInOnce == Spec => []NeverTwice
<1>1. ASSUME Inv
      PROVE  NeverTwice
  <2> SUFFICES ASSUME NEW r
               PROVE  Cardinality({p \in Places(pqueues) : Same(pqueues[p[1]][p[2]], r)})
                        + Cardinality({q \in started : Same(q, r)}) <= 1
    BY DEF NeverTwice
  <2> DEFINE P == {p \in Places(pqueues) : Same(pqueues[p[1]][p[2]], r)}
             S == {q \in started : Same(q, r)}
  <2>1. Kept(Request) /\ Placed /\ Once
    BY <1>1 DEF Inv, Types
  <2>2. ASSUME NEW p \in P
        PROVE  \E s \in Live : \E i \in DOMAIN pqueues[s] :
                 /\ p = <<s, i>> /\ Same(pqueues[s][i], r)
                 /\ pqueues[s][i] \in Queued /\ s = SlotOf(r.url)
    <3>1. PICK s, i : s \in Live /\ i \in DOMAIN pqueues[s] /\ p = <<s, i>>
      BY PlaceOf DEF Live
    <3>2. Same(pqueues[s][i], r)
      BY <3>1
    <3>3. pqueues[s][i] \in Queued /\ SlotOf(pqueues[s][i].url) = s
      BY <2>1, <3>1, QueuedEntry, QueuedSlot
    <3> QED
      BY <3>1, <3>2, <3>3 DEF Same
  <2>3. ASSUME NEW p \in P, NEW q \in P
        PROVE  p = q
    <3> DEFINE s == SlotOf(r.url)
    <3>1. PICK i, j : /\ s \in Live /\ i \in DOMAIN pqueues[s] /\ j \in DOMAIN pqueues[s]
                      /\ p = <<s, i>> /\ q = <<s, j>>
                      /\ Same(pqueues[s][i], r) /\ Same(pqueues[s][j], r)
      BY <2>2
    <3>2. s \in Slot /\ Queue(s) = pqueues[s]
      BY <2>1, <3>1 DEF Kept, Queue
    <3> HIDE DEF s
    <3>3. Distinct(Queue(s))
      <4>1. /\ Queue(s) \in Seq(Request) /\ File(s) \in Seq(Request)
            /\ Within(Queue(s), File(s)) /\ Distinct(File(s))
        BY <2>1, <3>2, FileSeq, QueueWithin DEF Once
      <4> QED
        BY <4>1, WithinDistinct
    <3>4. Same(Queue(s)[i], Queue(s)[j])
      BY <3>1, <3>2 DEF Same
    <3>5. i = j
      BY <3>1, <3>2, <3>3, <3>4 DEF Distinct
    <3> QED
      BY <3>1, <3>5
  <2>4. ASSUME NEW p \in S, NEW q \in S
        PROVE  p = q
    BY <2>1 DEF Once, Same
  <2>5. S # {} => P = {}
    <3> SUFFICES ASSUME NEW q \in S, NEW p \in P
                 PROVE  FALSE
      OBVIOUS
    <3>1. PICK x \in Queued : Same(x, r)
      BY <2>2
    <3>2. Same(x, q)
      BY <3>1 DEF Same
    <3> QED
      BY <2>1, <3>2 DEF Once
  <2> HIDE DEF P, S
  <2>6. /\ Cardinality(P) \in {0, 1} /\ (P = {} => Cardinality(P) = 0)
        /\ Cardinality(S) \in {0, 1} /\ (S = {} => Cardinality(S) = 0)
    BY <2>3, <2>4, AtMostOne
  <2>7. Cardinality(P) + Cardinality(S) <= 1
    BY <2>5, <2>6
  <2> QED
    BY <2>7 DEF P, S
<1> QED
  BY <1>1, Invariant, PTL

\* queued_per_domain counts no more than what it let in and what ended with no
\* signal sent (broad.py:149-170).
THEOREM Accounted == Spec => []QueuedAccounted
<1>1. Inv => QueuedAccounted
  BY DEF Inv
<1> QED
  BY <1>1, Invariant, PTL

\* No way in brings a request of a slot that none of the processes so far has
\* owned to the frontier, to the downloader or to the list of queues.
EverOwned ==
  /\ Live \subseteq Ever /\ activeJson \subseteq Ever
  /\ \A s \in Slot \ Ever : active[s] = {}

LEMMA OursEver ==
  ASSUME Placed, Ours
  PROVE  EverOwned
<1>1. ASSUME NEW s \in Slot, NEW r \in active[s]
      PROVE  s \in Ever
  BY <1>1 DEF Placed, Ours, InFlight
<1> QED
  BY <1>1 DEF EverOwned, Ours

\* However the shards are counted by each process: what is queued, in flight or
\* listed is of a slot that this shard owned in some process (broad.py:241-246,
\* redirect.py:16-20).
THEOREM OwnedOnce == Spec => []EverOwned
<1>1. Inv => EverOwned
  BY OursEver DEF Inv
<1> QED
  BY <1>1, Invariant, PTL

\* With the same shards in each process, only this shard's slots are in its
\* frontier and in its downloader.
THEOREM OwnOnly ==
  (\A i, j \in DOMAIN OwnedIn : OwnedIn[i] = OwnedIn[j]) => (Spec => []OwnDomainsOnly)
<1> SUFFICES ASSUME \A i, j \in DOMAIN OwnedIn : OwnedIn[i] = OwnedIn[j]
             PROVE  Spec => []OwnDomainsOnly
  OBVIOUS
<1>1. ASSUME Inv
      PROVE  OwnDomainsOnly
  <2>1. life \in 1 .. MaxLives /\ \A i \in 1 .. life : i \in DOMAIN OwnedIn
    <3>1. life \in 1 .. MaxLives
      BY <1>1 DEF Inv, Types, Settled
    <3>2. PICK n \in Nat : n = Len(OwnedIn) /\ DOMAIN OwnedIn = 1 .. n
      BY Setting, LenProperties
    <3>3. n >= MaxLives
      BY <3>2, Setting
    <3> QED
      BY <3>1, <3>2, <3>3, Setting
  <2>2. Ever = Owned
    <3>1. life \in 1 .. life
      BY <2>1
    <3>2. \A i \in 1 .. life : OwnedIn[i] = OwnedIn[life]
      BY <2>1, <3>1
    <3> QED
      BY <3>1, <3>2 DEF Ever, Owned
  <2>3. EverOwned
    BY <1>1, OursEver DEF Inv
  <2> QED
    BY <2>2, <2>3 DEF EverOwned, OwnDomainsOnly
<1> QED
  BY <1>1, Invariant, PTL

\* What the types leave out: no slot's counter passes max_queued_per_domain.
Limits ==
  /\ gone \subseteq Url
  /\ crawledPer \in [Slot -> Nat]
  /\ \A s \in Slot : queuedPer[s] <= MaxQueued

LEMMA CrawlLimits ==
  ASSUME NEW u \in Url, NEW isNew, NEW dontFilter, NEW queued \in [Slot -> Nat],
         NEW ended \in SUBSET Url, Crawl(u, isNew, dontFilter, queued, ended),
         \A t \in Slot : queued[t] <= MaxQueued
  PROVE  gone' \subseteq Url /\ \A t \in Slot : queuedPer'[t] <= MaxQueued
<1>1. gone' \subseteq Url
  BY DEF Crawl
<1>2. queuedPer' \in {queued, Released(queued, SlotOf(u))}
  BY DEF Crawl, Dropped
<1>3. ASSUME NEW t \in Slot
      PROVE  queuedPer'[t] <= MaxQueued
  <2>1. /\ Released(queued, SlotOf(u))[t] \in Nat /\ queued[t] \in Nat
        /\ Released(queued, SlotOf(u))[t] <= queued[t] /\ queued[t] <= MaxQueued
    BY SlotOfUrl, ReleasedAt
  <2>2. queuedPer'[t] \in {queued[t], Released(queued, SlotOf(u))[t]}
    BY <1>2
  <2> QED
    BY <2>1, <2>2, Setting
<1> QED
  BY <1>1, <1>3

LEMMA AdmitLimits ==
  ASSUME Types, Limits, NEW u \in Url, Follow(u) \/ Inject(u) \/ SeedRequest(u)
  PROVE  Limits'
<1> DEFINE s == SlotOf(u)
           more == [queuedPer EXCEPT ![s] = queuedPer[s] + 1]
<1>1. /\ s \in Slot /\ queuedPer \in [Slot -> Nat] /\ gone \in SUBSET Url
      /\ crawledPer' = crawledPer /\ \A t \in Slot : queuedPer[t] <= MaxQueued
  BY SlotOfUrl DEF Types, Settled, Limits, Follow, Inject, SeedRequest
<1>2. gone' \subseteq Url /\ \A t \in Slot : queuedPer'[t] <= MaxQueued
  <2>1. CASE SeedRequest(u)
    <3>1. CASE Own(u)
      <4>1. Crawl(u, FALSE, FALSE, queuedPer, gone)
        BY <2>1, <3>1 DEF SeedRequest
      <4> QED
        BY <1>1, <4>1, CrawlLimits
    <3>2. CASE ~ Own(u)
      BY <1>1, <2>1, <3>2 DEF SeedRequest
    <3> QED
      BY <3>1, <3>2
  <2>2. CASE Follow(u) \/ Inject(u)
    <3>1. queuedPer[s] < MaxQueued /\ Crawl(u, s \notin seenDomains, TRUE, more, gone)
      BY <2>2 DEF Follow, Inject, Admit, Wanted
    <3>2. more \in [Slot -> Nat]
      BY <1>1
    <3>3. ASSUME NEW t \in Slot
          PROVE  more[t] <= MaxQueued
      BY <1>1, <3>1, Setting
    <3> HIDE DEF more
    <3> QED
      BY <1>1, <3>1, <3>2, <3>3, CrawlLimits
  <2> QED
    BY <2>1, <2>2
<1> QED
  BY <1>1, <1>2 DEF Limits

LEMMA EndedLimits ==
  ASSUME Types, Limits, NEW s \in Slot, NEW r \in active[s],
         \/ Parsed(s, r) \/ Failed(s, r)
         \/ \E target \in Url : Redirected(s, r, target)
  PROVE  Limits'
<1> DEFINE queued == Released(queuedPer, s)
           ended == gone \cup {r.url}
<1>1. /\ queuedPer \in [Slot -> Nat] /\ r.url \in Url /\ crawledPer \in [Slot -> Nat]
      /\ gone \subseteq Url /\ \A t \in Slot : queuedPer[t] <= MaxQueued
  BY ActiveSlot DEF Types, Settled, Limits
<1>2. queued \in [Slot -> Nat] /\ ended \in SUBSET Url
  BY <1>1, ReleasedType
<1>3. ASSUME NEW t \in Slot
      PROVE  queued[t] <= MaxQueued
  <2>1. queued[t] \in Nat /\ queued[t] <= queuedPer[t] /\ queuedPer[t] \in Nat
    BY <1>1, ReleasedAt
  <2> QED
    BY <1>1, <2>1, Setting
<1>4. crawledPer' \in [Slot -> Nat]
  <2>1. CASE Parsed(s, r)
    BY <1>1, <2>1 DEF Parsed
  <2>2. CASE crawledPer' = crawledPer
    BY <1>1, <2>2
  <2> QED
    BY <2>1, <2>2 DEF Failed, Redirected
<1>5. CASE queuedPer' = queued /\ gone' = ended
  BY <1>2, <1>3, <1>4, <1>5 DEF Limits
<1>6. ASSUME NEW target \in Url, Crawl(target, r.new, RedirectDontFilter, queued, ended)
      PROVE  Limits'
  <2> HIDE DEF queued, ended
  <2>1. gone' \subseteq Url /\ \A t \in Slot : queuedPer'[t] <= MaxQueued
    BY <1>2, <1>3, <1>6, CrawlLimits
  <2> QED
    BY <1>4, <2>1 DEF Limits
<1> HIDE DEF queued, ended
<1>7. \/ queuedPer' = queued /\ gone' = ended
      \/ \E target \in Url : Crawl(target, r.new, RedirectDontFilter, queued, ended)
  BY DEF Parsed, Failed, Redirected, queued, ended
<1> QED
  BY <1>5, <1>6, <1>7

LEMMA OtherLimits ==
  ASSUME Inv, Limits,
         \/ Take \/ \E r \in asking : RobotsLeft(r) \/ Allowed(r) \/ Forbidden(r)
         \/ CheckpointFrontier \/ CheckpointBloom \/ Stop \/ Close \/ Kill \/ Start
         \/ UNCHANGED vars
  PROVE  Limits'
<1>1. /\ queuedPer \in [Slot -> Nat] /\ crawledPer \in [Slot -> Nat]
      /\ gone \subseteq Url /\ \A t \in Slot : queuedPer[t] <= MaxQueued
      /\ \A r \in InFlight : r.url \in Url
  BY DEF Inv, Types, Settled, Limits, Kept, InFlight, Request
<1>2. gone' \subseteq Url
  BY <1>1 DEF Take, RobotsLeft, Allowed, Forbidden, CheckpointFrontier, CheckpointBloom, Stop,
              Close, Kill, Start, vars, svars, InFlight
<1>3. crawledPer' \in [Slot -> Nat]
  BY <1>1 DEF Take, RobotsLeft, Allowed, Forbidden, CheckpointFrontier, CheckpointBloom, Stop,
              Close, Kill, Start, Zero, vars, svars
<1>4. ASSUME NEW t \in Slot
      PROVE  queuedPer'[t] <= MaxQueued
  <2>1. CASE queuedPer' = queuedPer
    BY <1>1, <2>1
  <2>2. CASE queuedPer' = Zero
    BY <2>2, Setting DEF Zero
  <2>3. ASSUME NEW r \in asking, RobotsLeft(r)
        PROVE  queuedPer'[t] <= MaxQueued
    <3>1. queuedPer' = Released(queuedPer, SlotOf(r.url)) /\ SlotOf(r.url) \in Slot
      BY <2>3, AskingSlot DEF RobotsLeft, Inv
    <3>2. /\ Released(queuedPer, SlotOf(r.url))[t] \in Nat /\ queuedPer[t] \in Nat
          /\ Released(queuedPer, SlotOf(r.url))[t] <= queuedPer[t]
      BY <1>1, <3>1, ReleasedAt
    <3> QED
      BY <1>1, <3>1, <3>2, Setting
  <2> QED
    BY <2>1, <2>2, <2>3 DEF Take, Allowed, Forbidden, CheckpointFrontier, CheckpointBloom,
                            Stop, Close, Kill, Start, vars, svars
<1> QED
  BY <1>2, <1>3, <1>4 DEF Limits

\* The types; and no slot has more than max_queued_per_domain counted as
\* queued, whichever way they came in (broad.py:246-249, 443-446).
THEOREM TypeCorrect == Spec => []TypeOK
<1>1. Init => Limits
  BY Setting DEF Init, Limits, Zero
<1>2. Inv /\ Limits /\ [Next]_vars => Limits'
  BY AdmitLimits, EndedLimits, OtherLimits DEF Next, Progress, Inv
<1>3. Inv /\ Limits => TypeOK
  <2> SUFFICES ASSUME Inv, Limits
               PROVE  TypeOK
    OBVIOUS
  <2>1. Live \subseteq Slot /\ ring \in Seq(Slot) /\ RingComplete /\ Settled
    BY DEF Inv, Types, Kept
  <2>2. ToSet(ring) \subseteq Slot /\ members \subseteq Slot
    BY <2>1, ElementOfSeq, LenProperties DEF ToSet, RingComplete
  <2>3. ASSUME NEW s \in Slot
        PROVE  queuedPer[s] \in 0 .. MaxQueued
    BY <2>1, Setting DEF Limits, Settled
  <2> QED
    BY <2>1, <2>2, <2>3 DEF TypeOK, Settled, Limits
<1> QED
  BY <1>1, <1>2, <1>3, Invariant, PTL DEF Spec
===============================================================================
