------------------------------ MODULE Parts_proofs ------------------------------
(***************************************************************************)
(* Proofs about the parts that module Parts puts side by side, for every   *)
(* value of their constants: an inductive invariant for each part, and     *)
(* what Parts states of it.                                                *)
(***************************************************************************)
EXTENDS Parts, FiniteSetTheorems, SequenceTheorems, TLAPS

-------------------------------------------------------------------------------
(* Domains: a LocalCache. *)

Cache(c) ==
  /\ c \in Seq(Domain \X Nat)
  /\ Len(c) <= CacheLimit
  /\ \A i, j \in DOMAIN c : c[i][1] = c[j][1] => i = j

\* What DomainsAssumption says of the numbers.
LEMMA Limits ==
  /\ CacheLimit \in Nat /\ CacheLimit >= 1
  /\ MaxCrawled \in Nat /\ MaxCrawled >= 1
  /\ MaxQueued \in Nat /\ MaxQueued >= 1
  /\ Backlog \in Nat /\ Backlog >= 1
  /\ MaxRequests \in Nat
BY DomainsAssumption

LEMMA EntryIs ==
  ASSUME NEW c, Cache(c), NEW i \in DOMAIN c
  PROVE  /\ c[i] \in Domain \X Nat /\ c[i] = <<c[i][1], c[i][2]>>
         /\ c[i][1] \in Domain /\ c[i][2] \in Nat /\ i \in 1 .. Len(c)
<1>1. c \in Seq(Domain \X Nat) BY DEF Cache
<1>2. i \in 1 .. Len(c) /\ c[i] \in Domain \X Nat BY <1>1, ElementOfSeq, LenProperties
<1> QED BY <1>2

LEMMA GetOfEntry ==
  ASSUME NEW c, Cache(c), NEW i \in DOMAIN c
  PROVE  Get(c, c[i][1]) = c[i][2]
<1> DEFINE k == CHOOSE j \in DOMAIN c : c[j][1] = c[i][1]
<1>1. k \in DOMAIN c /\ c[k][1] = c[i][1] OBVIOUS
<1>2. k = i BY <1>1 DEF Cache
<1>3. c[i][1] \in Keys(c) BY DEF Keys
<1> QED BY <1>2, <1>3 DEF Get

LEMMA GetNat ==
  ASSUME NEW c, Cache(c), NEW d
  PROVE  Get(c, d) \in Nat /\ (d \notin Keys(c) => Get(c, d) = 0)
<1>1. CASE d \in Keys(c)
  <2>1. PICK i \in DOMAIN c : c[i][1] = d BY <1>1 DEF Keys
  <2>2. Get(c, d) = c[i][2] BY <2>1, GetOfEntry
  <2> QED BY <1>1, <2>2, EntryIs
<1>2. CASE d \notin Keys(c) BY <1>2 DEF Get
<1> QED BY <1>1, <1>2

LEMMA KeysInDomain ==
  ASSUME NEW c, Cache(c)
  PROVE  Keys(c) \subseteq Domain
BY EntryIs DEF Keys

\* Room drops no more than the first entry.
LEMMA RoomIs ==
  ASSUME NEW c, Cache(c)
  PROVE  /\ Cache(Room(c)) /\ Len(Room(c)) < CacheLimit
         /\ \A i \in DOMAIN Room(c) : \E j \in DOMAIN c : Room(c)[i] = c[j]
<1>1. c \in Seq(Domain \X Nat) /\ Len(c) \in Nat /\ DOMAIN c = 1 .. Len(c)
  BY LenProperties DEF Cache
<1>2. CASE Len(c) >= CacheLimit
  <2>1. c # << >> BY <1>1, <1>2, Limits
  <2>2. /\ Tail(c) \in Seq(Domain \X Nat) /\ Len(Tail(c)) = Len(c) - 1
        /\ DOMAIN Tail(c) = 1 .. Len(c) - 1
        /\ \A i \in 1 .. Len(c) - 1 : Tail(c)[i] = c[i + 1]
    BY <1>1, <2>1, HeadTailProperties, LenProperties
  <2>3. \A i \in 1 .. Len(c) - 1 : i + 1 \in 1 .. Len(c) BY <1>1
  <2>4. Room(c) = Tail(c) BY <1>2 DEF Room
  <2>5. Len(Tail(c)) < CacheLimit BY <1>1, <2>2, Limits DEF Cache
  <2>6. \A i, j \in DOMAIN Tail(c) : Tail(c)[i][1] = Tail(c)[j][1] => i = j
    <3> SUFFICES ASSUME NEW i \in DOMAIN Tail(c), NEW j \in DOMAIN Tail(c),
                        Tail(c)[i][1] = Tail(c)[j][1]
                 PROVE  i = j
      OBVIOUS
    <3>1. /\ i \in 1 .. Len(c) - 1 /\ Tail(c)[i] = c[i + 1]
          /\ j \in 1 .. Len(c) - 1 /\ Tail(c)[j] = c[j + 1]
      BY <2>2
    <3>2. i + 1 \in DOMAIN c /\ j + 1 \in DOMAIN c BY <1>1, <2>3, <3>1
    <3>3. i + 1 = j + 1 BY <3>1, <3>2 DEF Cache
    <3> QED BY <1>1, <3>1, <3>3
  <2>7. Len(Tail(c)) <= CacheLimit BY <1>1, <2>2, <2>5, Limits
  <2>8. Cache(Tail(c)) BY <2>2, <2>6, <2>7 DEF Cache
  <2>9. \A i \in DOMAIN Tail(c) : \E j \in DOMAIN c : Tail(c)[i] = c[j]
    BY <1>1, <2>2, <2>3
  <2> QED BY <2>4, <2>5, <2>8, <2>9
<1>3. CASE ~ (Len(c) >= CacheLimit)
  <2>1. Room(c) = c BY <1>3 DEF Room
  <2> QED BY <1>1, <1>3, <2>1, Limits
<1> QED BY <1>2, <1>3

\* Put leaves d with its value, and drops or keeps every other key.
LEMMA PutIs ==
  ASSUME NEW c, Cache(c), NEW d \in Domain, NEW n \in Nat
  PROVE  /\ Cache(Put(c, d, n))
         /\ d \in Keys(Put(c, d, n)) /\ Get(Put(c, d, n), d) = n
         /\ \A e \in Keys(Put(c, d, n)) \ {d} :
              e \in Keys(c) /\ Get(Put(c, d, n), e) = Get(c, e)
<1> DEFINE r == Room(c)
           p == Put(c, d, n)
<1>1. /\ Cache(r) /\ Len(r) < CacheLimit
      /\ \A i \in DOMAIN r : \E j \in DOMAIN c : r[i] = c[j]
  BY RoomIs
<1>2. r \in Seq(Domain \X Nat) /\ Len(r) \in Nat /\ DOMAIN r = 1 .. Len(r)
  BY <1>1, LenProperties DEF Cache
<1>3. \A i \in 1 .. Len(r) :
        r[i][1] \in Domain /\ r[i] \in Domain \X Nat /\ r[i][1] \in Keys(c)
        /\ r[i][2] = Get(c, r[i][1])
  <2> SUFFICES ASSUME NEW i \in 1 .. Len(r)
               PROVE  r[i][1] \in Domain /\ r[i] \in Domain \X Nat /\ r[i][1] \in Keys(c)
                      /\ r[i][2] = Get(c, r[i][1])
    OBVIOUS
  <2>1. PICK j \in DOMAIN c : r[i] = c[j] BY <1>1, <1>2
  <2>2. r[i][1] \in Domain /\ r[i] \in Domain \X Nat BY <1>1, <1>2, EntryIs
  <2>3. r[i][1] \in Keys(c) BY <2>1 DEF Keys
  <2>4. c[j][2] = Get(c, c[j][1]) BY <2>1, GetOfEntry
  <2> QED BY <2>1, <2>2, <2>3, <2>4
<1> HIDE DEF r, p
<1>4. CASE d \in Keys(r)
  <2>1. p = [i \in DOMAIN r |-> IF r[i][1] = d THEN <<d, n>> ELSE r[i]]
    BY <1>4 DEF Put, p, r
  <2>2. PICK k \in 1 .. Len(r) : r[k][1] = d BY <1>2, <1>4 DEF Keys
  <2>3. \A i \in 1 .. Len(r) :
          /\ p[i] \in Domain \X Nat /\ p[i][1] = r[i][1]
          /\ p[i][2] = IF r[i][1] = d THEN n ELSE r[i][2]
    BY <1>2, <1>3, <2>1
  <2>4. p \in Seq(Domain \X Nat) /\ Len(p) = Len(r) /\ DOMAIN p = 1 .. Len(r)
    BY <1>2, <2>1, <2>3, IsASeq
  <2>5. \A i, j \in DOMAIN p : p[i][1] = p[j][1] => i = j
    BY <1>1, <1>2, <2>3, <2>4 DEF Cache
  <2>6. Len(p) <= CacheLimit BY <1>1, <1>2, <2>4, Limits
  <2>7. Cache(p) BY <2>4, <2>5, <2>6 DEF Cache
  <2>8. p[k][1] = d /\ p[k][2] = n BY <2>2, <2>3
  <2>9. d \in Keys(p) BY <2>4, <2>8 DEF Keys
  <2>10. Get(p, d) = n BY <2>4, <2>7, <2>8, GetOfEntry
  <2>11. ASSUME NEW e \in Keys(p) \ {d} PROVE e \in Keys(c) /\ Get(p, e) = Get(c, e)
    <3>1. PICK i \in 1 .. Len(r) : p[i][1] = e BY <2>4, <2>11 DEF Keys
    <3>2. Get(p, e) = p[i][2] BY <2>4, <2>7, <3>1, GetOfEntry
    <3>3. r[i][1] = e BY <2>3, <3>1
    <3>4. p[i][2] = r[i][2] BY <2>3, <2>11, <3>3
    <3> QED BY <1>3, <3>2, <3>3, <3>4
  <2> QED BY <2>7, <2>9, <2>10, <2>11 DEF p
<1>5. CASE d \notin Keys(r)
  <2>1. p = Append(r, <<d, n>>) BY <1>5 DEF Put, p, r
  <2>2. <<d, n>> \in Domain \X Nat OBVIOUS
  <2>3. /\ p \in Seq(Domain \X Nat) /\ Len(p) = Len(r) + 1 /\ DOMAIN p = 1 .. Len(r) + 1
        /\ \A i \in 1 .. Len(r) : p[i] = r[i]
        /\ p[Len(r) + 1] = <<d, n>>
    BY <1>2, <2>1, <2>2, AppendProperties, LenProperties
  <2>4. \A i \in 1 .. Len(r) : r[i][1] # d BY <1>2, <1>5 DEF Keys
  <2>12. ASSUME NEW i \in DOMAIN p, p[i][1] = d PROVE i = Len(r) + 1
    <3>1. i \notin 1 .. Len(r)
      <4>1. ASSUME i \in 1 .. Len(r) PROVE FALSE
        <5>1. p[i] = r[i] BY <2>3, <4>1
        <5> QED BY <2>4, <2>12, <4>1, <5>1
      <4> QED BY <4>1
    <3> QED BY <1>2, <2>3, <3>1
  <2>13. p[Len(r) + 1][1] = d BY <2>3
  <2>5. ASSUME NEW i \in DOMAIN p, NEW j \in DOMAIN p, p[i][1] = p[j][1] PROVE i = j
    <3>1. CASE i = Len(r) + 1
      <4>1. p[j][1] = d BY <2>13, <2>5, <3>1
      <4> QED BY <2>12, <3>1, <4>1
    <3>2. CASE j = Len(r) + 1
      <4>1. p[i][1] = d BY <2>13, <2>5, <3>2
      <4> QED BY <2>12, <3>2, <4>1
    <3>3. CASE i # Len(r) + 1 /\ j # Len(r) + 1
      <4>1. i \in 1 .. Len(r) /\ j \in 1 .. Len(r)
        <5>1. i \in 1 .. Len(r) + 1 /\ j \in 1 .. Len(r) + 1 BY <2>3
        <5>2. Len(r) \in Nat BY <1>2
        <5> QED BY <3>3, <5>1, <5>2
      <4> QED BY <1>1, <1>2, <2>3, <2>5, <4>1 DEF Cache
    <3> QED BY <3>1, <3>2, <3>3
  <2>6. Len(p) <= CacheLimit BY <1>1, <1>2, <2>3, Limits
  <2>7. Cache(p) BY <2>3, <2>5, <2>6 DEF Cache
  <2>8. Len(r) + 1 \in DOMAIN p BY <1>2, <2>3
  <2>9. d \in Keys(p) BY <2>3, <2>8 DEF Keys
  <2>10. Get(p, d) = n
    <3>1. p[Len(r) + 1][1] = d /\ p[Len(r) + 1][2] = n BY <2>3
    <3> QED BY <2>7, <2>8, <3>1, GetOfEntry
  <2>11. ASSUME NEW e \in Keys(p) \ {d} PROVE e \in Keys(c) /\ Get(p, e) = Get(c, e)
    <3>1. PICK i \in DOMAIN p : p[i][1] = e BY <2>11 DEF Keys
    <3>2. i # Len(r) + 1 BY <2>3, <2>11, <3>1
    <3>3. i \in 1 .. Len(r) BY <1>2, <2>3, <3>1, <3>2
    <3>4. Get(p, e) = p[i][2] BY <2>7, <3>1, GetOfEntry
    <3>5. r[i][1] = e /\ p[i][2] = r[i][2] BY <2>3, <3>1, <3>3
    <3> QED BY <1>3, <3>3, <3>4, <3>5
  <2> QED BY <2>7, <2>9, <2>10, <2>11 DEF p
<1> QED BY <1>4, <1>5

\* Put drops one key at most.
LEMMA PutDrops ==
  ASSUME NEW c, Cache(c), NEW d \in Domain, NEW n \in Nat
  PROVE  \A e, f \in Keys(c) \ Keys(Put(c, d, n)) : e = f
<1> DEFINE p == Put(c, d, n)
<1>1. c \in Seq(Domain \X Nat) /\ Len(c) \in Nat /\ DOMAIN c = 1 .. Len(c)
  BY LenProperties DEF Cache
<1>2. Cache(Room(c)) BY RoomIs
<1>3. Keys(Room(c)) \subseteq Keys(p)
  <2>1. Room(c) \in Seq(Domain \X Nat) /\ DOMAIN Room(c) = 1 .. Len(Room(c)) /\ Len(Room(c)) \in Nat
    BY <1>2, LenProperties DEF Cache
  <2> SUFFICES ASSUME NEW i \in 1 .. Len(Room(c)) PROVE Room(c)[i][1] \in Keys(p)
    BY <2>1 DEF Keys
  <2>2. CASE d \in Keys(Room(c))
    <3>1. p = [j \in DOMAIN Room(c) |-> IF Room(c)[j][1] = d THEN <<d, n>> ELSE Room(c)[j]]
      BY <2>2 DEF Put
    <3>2. i \in DOMAIN p /\ p[i][1] = Room(c)[i][1] BY <2>1, <3>1
    <3> QED BY <3>2 DEF Keys
  <2>3. CASE d \notin Keys(Room(c))
    <3>1. p = Append(Room(c), <<d, n>>) BY <2>3 DEF Put
    <3>2. <<d, n>> \in Domain \X Nat OBVIOUS
    <3>3. /\ p[i] = Room(c)[i] /\ Len(p) = Len(Room(c)) + 1
          /\ p \in Seq(Domain \X Nat)
      BY <2>1, <3>1, <3>2, AppendProperties
    <3>4. i \in DOMAIN p
      <4>1. DOMAIN p = 1 .. Len(p) BY <3>3, LenProperties
      <4> QED BY <2>1, <3>3, <4>1
    <3> HIDE DEF p
    <3> QED BY <3>3, <3>4 DEF Keys
  <2> QED BY <2>2, <2>3
<1>4. CASE ~ (Len(c) >= CacheLimit)
  <2>1. Room(c) = c BY <1>4 DEF Room
  <2> QED BY <1>3, <2>1
<1>5. CASE Len(c) >= CacheLimit
  <2>1. c # << >> BY <1>1, <1>5, Limits
  <2>2. /\ Tail(c) \in Seq(Domain \X Nat) /\ Len(Tail(c)) = Len(c) - 1
        /\ DOMAIN Tail(c) = 1 .. Len(c) - 1
        /\ \A i \in 1 .. Len(c) - 1 : Tail(c)[i] = c[i + 1]
    BY <1>1, <2>1, HeadTailProperties, LenProperties
  <2>3. Room(c) = Tail(c) BY <1>5 DEF Room
  <2>4. ASSUME NEW e \in Keys(c) \ Keys(p) PROVE e = c[1][1]
    <3>1. PICK i \in 1 .. Len(c) : c[i][1] = e BY <1>1, <2>4 DEF Keys
    <3>2. CASE i = 1 BY <3>1, <3>2
    <3>3. CASE i # 1
      <4>1. i - 1 \in 1 .. Len(c) - 1 /\ (i - 1) + 1 = i BY <1>1, <3>1, <3>3
      <4>2. Tail(c)[i - 1] = c[i] BY <2>2, <4>1
      <4>3. e \in Keys(Tail(c)) BY <2>2, <3>1, <4>1, <4>2 DEF Keys
      <4> QED BY <1>3, <2>3, <2>4, <4>3
    <3> QED BY <3>2, <3>3
  <2> QED BY <2>4
<1> QED BY <1>4, <1>5

-------------------------------------------------------------------------------
(* Domains: the pages of one domain. *)

\* What a domain's page count may let through before it is evicted.
PerCount == MaxCrawled - 1 + MaxQueued + Backlog
CountsWorth(n) == n * PerCount

\* Of a domain: q places are taken, h requests are held, p responses wait, g
\* pages are parsed, and the cache says c of them; lost is the worth of the
\* counts it has lost, and u requests took no place or had it given back.  What
\* was parsed is bounded by the counts that are lost, and what was and may be
\* parsed by those and one more.
Within(q, h, p, g, c, lost, u) ==
  /\ q <= MaxQueued /\ p <= Backlog
  /\ h - q <= u
  /\ c <= g
  /\ g - c <= lost + u /\ g - c + (h - q) <= lost + u
  /\ g + p + h <= lost + PerCount + u

Paged(d) ==
  Within(queuedPer[d], held[d], parsing[d], pages[d], Get(crawledPer, d),
         CountsWorth(forgotten[d]), uncounted[d])

CountTypes ==
  /\ Cache(crawledPer) /\ Cache(seenDomains)
  /\ seenTotal \in Nat /\ seedsLeft \subseteq Seed /\ admitted \subseteq Domain
  /\ {queuedPer, held, carrying, parsing, pages} \subseteq [Domain -> Nat]
  /\ {uncounted, exempt, forgotten, unseen} \subseteq [Domain -> Nat]

-------------------------------------------------------------------------------
(* Domains: the domains seen. *)

Spared(d) == exempt[d] <= unseen[d] + (IF d \in Keys(seenDomains) THEN 1 ELSE 0)

SeenInv ==
  /\ \A d \in Domain : Spared(d)
  /\ seenTotal = Sum(unseen) + Cardinality(Keys(seenDomains))
  /\ Keys(seenDomains) \subseteq admitted
  /\ \A d \in admitted : d \in Keys(seenDomains) \/ unseen[d] > 0

\* An exemption is carried by one request at a time.
Carried ==
  /\ \A d \in Domain : carrying[d] <= held[d]
  /\ Sum(carrying) <= Sum(exempt)

CountingInv ==
  /\ CountTypes
  /\ \A d \in Domain : Paged(d)
  /\ SeenInv
  /\ Carried

-------------------------------------------------------------------------------
(* Domains: the pages of a domain stay within its limits. *)

LEMMA CountsWorthIs ==
  /\ PerCount \in Nat /\ CountsWorth(0) = 0
  /\ \A n \in Nat : CountsWorth(n) \in Nat /\ CountsWorth(n + 1) = CountsWorth(n) + PerCount
<1>1. PerCount \in Nat BY Limits DEF PerCount
<1>2. ASSUME NEW m \in Nat PROVE \A n \in Nat : n * m \in Nat /\ (n + 1) * m = n * m + m
  OBVIOUS
<1>3. 0 * PerCount = 0 BY <1>1
<1> QED BY <1>1, <1>2, <1>3 DEF CountsWorth

LEMMA DroppedIs ==
  ASSUME NEW f \in [Domain -> Nat], NEW c, NEW a
  PROVE  /\ DroppedIn(f, c, a) \in [Domain -> Nat]
         /\ \A e \in Domain :
              DroppedIn(f, c, a)[e] = f[e] + (IF e \in Keys(c) \ Keys(a) THEN 1 ELSE 0)
BY DEF DroppedIn

LEMMA PlusIs ==
  ASSUME NEW f \in [Domain -> Nat], NEW d \in Domain
  PROVE  /\ Plus(f, d) \in [Domain -> Nat] /\ Plus(f, d)[d] = f[d] + 1
         /\ \A e \in Domain \ {d} : Plus(f, d)[e] = f[e]
BY DEF Plus

LEMMA LessIs ==
  ASSUME NEW f \in [Domain -> Nat], NEW d \in Domain, f[d] > 0
  PROVE  /\ Less(f, d) \in [Domain -> Nat] /\ Less(f, d)[d] = f[d] - 1
         /\ \A e \in Domain \ {d} : Less(f, d)[e] = f[e]
<1>1. f[d] \in Nat /\ f[d] - 1 \in Nat OBVIOUS
<1> QED BY <1>1 DEF Less

LEMMA ReleasedIs ==
  ASSUME queuedPer \in [Domain -> Nat], NEW d \in Domain
  PROVE  /\ Released(d) \in [Domain -> Nat]
         /\ Released(d)[d] = IF queuedPer[d] > 0 THEN queuedPer[d] - 1 ELSE 0
         /\ \A e \in Domain \ {d} : Released(d)[e] = queuedPer[e]
<1>1. queuedPer[d] \in Nat OBVIOUS
<1>2. (IF queuedPer[d] > 0 THEN queuedPer[d] - 1 ELSE 0) \in Nat BY <1>1
<1> QED BY <1>2 DEF Released

\* The page count of d goes up by one; the count of another is kept, or dropped
\* and forgotten once more.
LEMMA CrawledIs ==
  ASSUME CountTypes, NEW d \in Domain,
         crawledPer' = Put(crawledPer, d, Get(crawledPer, d) + 1),
         forgotten' = DroppedIn(forgotten, crawledPer, crawledPer')
  PROVE  /\ Cache(crawledPer') /\ forgotten' \in [Domain -> Nat]
         /\ Get(crawledPer', d) = Get(crawledPer, d) + 1 /\ forgotten'[d] = forgotten[d]
         /\ \A e \in Domain \ {d} :
              \/ Get(crawledPer', e) = Get(crawledPer, e) /\ forgotten'[e] = forgotten[e]
              \/ Get(crawledPer', e) = 0 /\ forgotten'[e] = forgotten[e] + 1
<1>1. Cache(crawledPer) /\ forgotten \in [Domain -> Nat] BY DEF CountTypes
<1>2. Get(crawledPer, d) + 1 \in Nat BY <1>1, GetNat
<1>3. /\ Cache(crawledPer')
      /\ d \in Keys(crawledPer') /\ Get(crawledPer', d) = Get(crawledPer, d) + 1
      /\ \A e \in Keys(crawledPer') \ {d} :
           e \in Keys(crawledPer) /\ Get(crawledPer', e) = Get(crawledPer, e)
  BY <1>1, <1>2, PutIs
<1>4. /\ forgotten' \in [Domain -> Nat]
      /\ \A e \in Domain :
           forgotten'[e] = forgotten[e]
                           + (IF e \in Keys(crawledPer) \ Keys(crawledPer') THEN 1 ELSE 0)
  BY <1>1, DroppedIs
<1>5. forgotten'[d] = forgotten[d]
  <2>1. forgotten[d] \in Nat BY <1>1
  <2> QED BY <1>3, <1>4, <2>1
<1>6. ASSUME NEW e \in Domain \ {d}
      PROVE  \/ Get(crawledPer', e) = Get(crawledPer, e) /\ forgotten'[e] = forgotten[e]
             \/ Get(crawledPer', e) = 0 /\ forgotten'[e] = forgotten[e] + 1
  <2>1. forgotten[e] \in Nat BY <1>1
  <2>2. CASE e \in Keys(crawledPer')
    <3>1. forgotten'[e] = forgotten[e] + 0 BY <1>4, <2>2
    <3> QED BY <1>3, <2>1, <2>2, <3>1
  <2>3. CASE e \notin Keys(crawledPer') /\ e \in Keys(crawledPer)
    <3>1. Get(crawledPer', e) = 0 BY <1>3, <2>3, GetNat
    <3> QED BY <1>4, <2>3, <3>1
  <2>4. CASE e \notin Keys(crawledPer') /\ e \notin Keys(crawledPer)
    <3>1. Get(crawledPer', e) = 0 /\ Get(crawledPer, e) = 0 BY <1>1, <1>3, <2>4, GetNat
    <3>2. forgotten'[e] = forgotten[e] + 0 BY <1>4, <2>4
    <3> QED BY <2>1, <3>1, <3>2
  <2> QED BY <2>2, <2>3, <2>4
<1> QED BY <1>3, <1>4, <1>5, <1>6

LEMMA CountedNat ==
  ASSUME CountTypes, NEW d \in Domain
  PROVE  /\ queuedPer[d] \in Nat /\ held[d] \in Nat /\ parsing[d] \in Nat
         /\ pages[d] \in Nat /\ Get(crawledPer, d) \in Nat
         /\ CountsWorth(forgotten[d]) \in Nat /\ uncounted[d] \in Nat
<1>1. /\ queuedPer[d] \in Nat /\ held[d] \in Nat /\ parsing[d] \in Nat
      /\ pages[d] \in Nat /\ uncounted[d] \in Nat /\ forgotten[d] \in Nat /\ Cache(crawledPer)
  BY DEF CountTypes
<1>2. CountsWorth(forgotten[d]) \in Nat BY <1>1, CountsWorthIs
<1>3. Get(crawledPer, d) \in Nat BY <1>1, GetNat
<1> QED BY <1>1, <1>2, <1>3

\* A request is admitted, or let in without a place.
LEMMA WithinAdmit ==
  ASSUME NEW q \in Nat, NEW h \in Nat, NEW p \in Nat, NEW g \in Nat, NEW c \in Nat,
         NEW lost \in Nat, NEW u \in Nat, Within(q, h, p, g, c, lost, u)
  PROVE  /\ c < MaxCrawled /\ q < MaxQueued => Within(q + 1, h + 1, p, g, c, lost, u)
         /\ Within(q, h + 1, p, g, c, lost, u + 1)
<1>1. PerCount = MaxCrawled - 1 + MaxQueued + Backlog BY DEF PerCount
<1>2. MaxCrawled \in Nat /\ MaxQueued \in Nat /\ Backlog \in Nat BY Limits
<1> HIDE DEF PerCount
<1>3. PerCount \in Nat BY CountsWorthIs
<1> QED BY <1>1, <1>2, <1>3 DEF Within

\* A request is no longer held, with its place or without.  A place is given
\* back, for a robots.txt, for a response and for a request that has come to
\* nothing.
LEMMA WithinRelease ==
  ASSUME NEW q \in Nat, NEW h \in Nat, NEW p \in Nat, NEW g \in Nat, NEW c \in Nat,
         NEW lost \in Nat, NEW u \in Nat, Within(q, h, p, g, c, lost, u),
         NEW r \in Nat, r = IF q > 0 THEN q - 1 ELSE 0
  PROVE  /\ Within(r, h, p, g, c, lost, u + 1)
         /\ h > 0 => Within(q, h - 1, p, g, c, lost, u)
         /\ h > 0 => Within(r, h - 1, p, g, c, lost, u)
         /\ h > 0 /\ p < Backlog => Within(r, h - 1, p + 1, g, c, lost, u)
<1>1. PerCount \in Nat BY CountsWorthIs
<1>2. MaxQueued \in Nat /\ Backlog \in Nat BY Limits
<1> QED BY <1>1, <1>2 DEF Within

\* A page is parsed, and a count is dropped.
LEMMA WithinParse ==
  ASSUME NEW q \in Nat, NEW h \in Nat, NEW p \in Nat, NEW g \in Nat, NEW c \in Nat,
         NEW lost \in Nat, NEW u \in Nat, Within(q, h, p, g, c, lost, u)
  PROVE  /\ p > 0 => Within(q, h, p - 1, g + 1, c + 1, lost, u)
         /\ Within(q, h, p, g, 0, lost + PerCount, u)
<1>1. PerCount \in Nat BY CountsWorthIs
<1>2. MaxQueued \in Nat /\ Backlog \in Nat BY Limits
<1> QED BY <1>1, <1>2 DEF Within

\* The domain of which a step changes nothing.
LEMMA PagedKept ==
  ASSUME NEW e, Paged(e), queuedPer'[e] = queuedPer[e], held'[e] = held[e],
         parsing'[e] = parsing[e], pages'[e] = pages[e],
         Get(crawledPer', e) = Get(crawledPer, e), forgotten'[e] = forgotten[e],
         uncounted'[e] = uncounted[e]
  PROVE  Paged(e)'
BY DEF Paged

LEMMA AdmitPaged ==
  ASSUME CountTypes, \A d \in Domain : Paged(d), NEW d \in Domain, Admit(d)
  PROVE  \A e \in Domain : Paged(e)'
<1>1. /\ queuedPer' = Plus(queuedPer, d) /\ held' = Plus(held, d) /\ parsing' = parsing
      /\ pages' = pages /\ crawledPer' = crawledPer /\ forgotten' = forgotten
      /\ uncounted' = uncounted /\ Wanted(d)
  BY DEF Admit, Enters
<1>2. queuedPer \in [Domain -> Nat] /\ held \in [Domain -> Nat] BY DEF CountTypes
<1>3. /\ queuedPer'[d] = queuedPer[d] + 1 /\ held'[d] = held[d] + 1
      /\ \A e \in Domain \ {d} : queuedPer'[e] = queuedPer[e] /\ held'[e] = held[e]
  BY <1>1, <1>2, PlusIs
<1>4. Paged(d)'
  <2>1. Get(crawledPer, d) < MaxCrawled /\ queuedPer[d] < MaxQueued BY <1>1 DEF Wanted
  <2>2. Within(queuedPer[d] + 1, held[d] + 1, parsing[d], pages[d], Get(crawledPer, d),
               CountsWorth(forgotten[d]), uncounted[d])
    BY <2>1, WithinAdmit, CountedNat DEF Paged
  <2> QED BY <1>1, <1>3, <2>2 DEF Paged
<1>5. ASSUME NEW e \in Domain \ {d} PROVE Paged(e)'
  BY <1>1, <1>3, <1>5, PagedKept
<1> QED BY <1>4, <1>5

LEMMA SeedPaged ==
  ASSUME CountTypes, \A d \in Domain : Paged(d), NEW d \in Domain, SeedRequest(d)
  PROVE  \A e \in Domain : Paged(e)'
<1>1. /\ held' = Plus(held, d) /\ uncounted' = Plus(uncounted, d)
      /\ queuedPer' = queuedPer /\ parsing' = parsing /\ pages' = pages
      /\ crawledPer' = crawledPer /\ forgotten' = forgotten
  BY DEF SeedRequest, Enters
<1>2. held \in [Domain -> Nat] /\ uncounted \in [Domain -> Nat] BY DEF CountTypes
<1>3. /\ held'[d] = held[d] + 1 /\ uncounted'[d] = uncounted[d] + 1
      /\ \A e \in Domain \ {d} : held'[e] = held[e] /\ uncounted'[e] = uncounted[e]
  BY <1>1, <1>2, PlusIs
<1>4. Paged(d)'
  <2>1. Within(queuedPer[d], held[d] + 1, parsing[d], pages[d], Get(crawledPer, d),
               CountsWorth(forgotten[d]), uncounted[d] + 1)
    BY WithinAdmit, CountedNat DEF Paged
  <2> QED BY <1>1, <1>3, <2>1 DEF Paged
<1>5. ASSUME NEW e \in Domain \ {d} PROVE Paged(e)'
  BY <1>1, <1>3, <1>5, PagedKept
<1> QED BY <1>4, <1>5

LEMMA RobotsPaged ==
  ASSUME CountTypes, \A d \in Domain : Paged(d), NEW d \in Domain, RobotsLeft(d)
  PROVE  \A e \in Domain : Paged(e)'
<1>1. /\ queuedPer' = Released(d) /\ uncounted' = Plus(uncounted, d)
      /\ held' = held /\ parsing' = parsing /\ pages' = pages
      /\ crawledPer' = crawledPer /\ forgotten' = forgotten
  BY DEF RobotsLeft, caches
<1>2. queuedPer \in [Domain -> Nat] /\ uncounted \in [Domain -> Nat] BY DEF CountTypes
<1>3. /\ queuedPer'[d] = IF queuedPer[d] > 0 THEN queuedPer[d] - 1 ELSE 0
      /\ queuedPer'[d] \in Nat
      /\ \A e \in Domain \ {d} : queuedPer'[e] = queuedPer[e]
  BY <1>1, <1>2, ReleasedIs
<1>4. /\ uncounted'[d] = uncounted[d] + 1
      /\ \A e \in Domain \ {d} : uncounted'[e] = uncounted[e]
  BY <1>1, <1>2, PlusIs
<1>5. Paged(d)'
  <2>1. Within(queuedPer'[d], held[d], parsing[d], pages[d], Get(crawledPer, d),
               CountsWorth(forgotten[d]), uncounted[d] + 1)
    BY <1>3, WithinRelease, CountedNat DEF Paged
  <2> QED BY <1>1, <1>4, <2>1 DEF Paged
<1>6. ASSUME NEW e \in Domain \ {d} PROVE Paged(e)'
  BY <1>1, <1>3, <1>4, <1>6, PagedKept
<1> QED BY <1>5, <1>6

\* Whatever goes was held.
LEMMA GoesFrom ==
  ASSUME CountTypes, Carried, NEW d \in Domain, NEW isNew \in BOOLEAN,
         IF isNew THEN carrying[d] > 0 ELSE held[d] > carrying[d]
  PROVE  /\ held[d] > 0 /\ Less(held, d) \in [Domain -> Nat]
         /\ Less(held, d)[d] = held[d] - 1
         /\ \A e \in Domain \ {d} : Less(held, d)[e] = held[e]
<1>1. held \in [Domain -> Nat] /\ held[d] \in Nat /\ carrying[d] \in Nat BY DEF CountTypes
<1>2. held[d] > 0 BY <1>1 DEF Carried
<1> QED BY <1>1, <1>2, LessIs

LEMMA LeavesPaged ==
  ASSUME CountTypes, Carried, \A d \in Domain : Paged(d), NEW d \in Domain,
         NEW isNew \in BOOLEAN,
         Downloaded(d, isNew) \/ Ended(d, isNew) \/ Refused(d, isNew)
  PROVE  \A e \in Domain : Paged(e)'
<1>1. /\ held' = Less(held, d) /\ uncounted' = uncounted /\ pages' = pages
      /\ crawledPer' = crawledPer /\ forgotten' = forgotten
      /\ IF isNew THEN carrying[d] > 0 ELSE held[d] > carrying[d]
  BY DEF Downloaded, Ended, Refused, Leaves, caches
<1>2. /\ held[d] > 0 /\ held'[d] = held[d] - 1
      /\ \A e \in Domain \ {d} : held'[e] = held[e]
  BY <1>1, GoesFrom
<1>3. queuedPer \in [Domain -> Nat] /\ parsing \in [Domain -> Nat] BY DEF CountTypes
<1>4. /\ Released(d)[d] \in Nat
      /\ Released(d)[d] = IF queuedPer[d] > 0 THEN queuedPer[d] - 1 ELSE 0
      /\ \A e \in Domain \ {d} : Released(d)[e] = queuedPer[e]
  BY <1>3, ReleasedIs
<1>5. CASE Downloaded(d, isNew)
  <2>1. queuedPer' = Released(d) /\ parsing' = Plus(parsing, d) /\ parsing[d] < Backlog
    BY <1>5 DEF Downloaded
  <2>2. parsing'[d] = parsing[d] + 1 /\ \A e \in Domain \ {d} : parsing'[e] = parsing[e]
    BY <1>3, <2>1, PlusIs
  <2>3. Within(queuedPer'[d], held[d] - 1, parsing[d] + 1, pages[d], Get(crawledPer, d),
               CountsWorth(forgotten[d]), uncounted[d])
    BY <1>2, <1>4, <2>1, WithinRelease, CountedNat DEF Paged
  <2>4. Paged(d)' BY <1>1, <1>2, <2>2, <2>3 DEF Paged
  <2>5. ASSUME NEW e \in Domain \ {d} PROVE Paged(e)'
    BY <1>1, <1>2, <1>4, <2>1, <2>2, <2>5, PagedKept
  <2> QED BY <2>4, <2>5
<1>6. CASE Ended(d, isNew)
  <2>1. queuedPer' = Released(d) /\ parsing' = parsing BY <1>6 DEF Ended
  <2>2. Within(queuedPer'[d], held[d] - 1, parsing[d], pages[d], Get(crawledPer, d),
               CountsWorth(forgotten[d]), uncounted[d])
    BY <1>2, <1>4, <2>1, WithinRelease, CountedNat DEF Paged
  <2>3. Paged(d)' BY <1>1, <1>2, <2>1, <2>2 DEF Paged
  <2>4. ASSUME NEW e \in Domain \ {d} PROVE Paged(e)'
    BY <1>1, <1>2, <1>4, <2>1, <2>4, PagedKept
  <2> QED BY <2>3, <2>4
<1>7. CASE Refused(d, isNew)
  <2>1. queuedPer' = queuedPer /\ parsing' = parsing BY <1>7 DEF Refused
  <2>2. Within(queuedPer[d], held[d] - 1, parsing[d], pages[d], Get(crawledPer, d),
               CountsWorth(forgotten[d]), uncounted[d])
    BY <1>2, <1>4, WithinRelease, CountedNat DEF Paged
  <2>3. Paged(d)' BY <1>1, <1>2, <2>1, <2>2 DEF Paged
  <2>4. ASSUME NEW e \in Domain \ {d} PROVE Paged(e)'
    BY <1>1, <1>2, <2>1, <2>4, PagedKept
  <2> QED BY <2>3, <2>4
<1> QED BY <1>5, <1>6, <1>7

\* A redirect ends a request of d, and lets one of its target in.
LEMMA RedirectedPaged ==
  ASSUME CountTypes, Carried, \A d \in Domain : Paged(d), NEW d \in Domain,
         NEW isNew \in BOOLEAN, NEW target \in Domain, Redirected(d, isNew, target)
  PROVE  \A e \in Domain : Paged(e)'
<1>1. /\ held' = Plus(Less(held, d), target) /\ uncounted' = Plus(uncounted, target)
      /\ queuedPer' = Released(d) /\ parsing' = parsing /\ pages' = pages
      /\ crawledPer' = crawledPer /\ forgotten' = forgotten
      /\ IF isNew THEN carrying[d] > 0 ELSE held[d] > carrying[d]
  BY DEF Redirected, caches
<1>2. /\ held[d] > 0 /\ Less(held, d) \in [Domain -> Nat] /\ Less(held, d)[d] = held[d] - 1
      /\ \A e \in Domain \ {d} : Less(held, d)[e] = held[e]
  BY <1>1, GoesFrom
<1>3. queuedPer \in [Domain -> Nat] /\ uncounted \in [Domain -> Nat] BY DEF CountTypes
<1>4. /\ held'[target] = Less(held, d)[target] + 1
      /\ uncounted'[target] = uncounted[target] + 1
      /\ \A e \in Domain \ {target} :
           held'[e] = Less(held, d)[e] /\ uncounted'[e] = uncounted[e]
  BY <1>1, <1>2, <1>3, PlusIs
<1>5. /\ queuedPer'[d] \in Nat
      /\ queuedPer'[d] = IF queuedPer[d] > 0 THEN queuedPer[d] - 1 ELSE 0
      /\ \A e \in Domain \ {d} : queuedPer'[e] = queuedPer[e]
  BY <1>1, <1>3, ReleasedIs
<1>6. Within(queuedPer'[d], held[d] - 1, parsing[d], pages[d], Get(crawledPer, d),
             CountsWorth(forgotten[d]), uncounted[d])
  BY <1>2, <1>5, WithinRelease, CountedNat DEF Paged
<1>7. ASSUME NEW e \in Domain \ {d, target} PROVE Paged(e)'
  <2>1. Paged(e) /\ held'[e] = held[e] /\ uncounted'[e] = uncounted[e] BY <1>2, <1>4
  <2> QED BY <1>1, <1>5, <2>1, PagedKept
<1>8. CASE target = d
  <2>1. held[d] - 1 \in Nat BY <1>2, CountedNat
  <2>2. Within(queuedPer'[d], held[d] - 1 + 1, parsing[d], pages[d], Get(crawledPer, d),
               CountsWorth(forgotten[d]), uncounted[d] + 1)
    BY <1>5, <1>6, <2>1, WithinAdmit, CountedNat
  <2>3. Paged(d)' BY <1>1, <1>2, <1>4, <1>8, <2>2 DEF Paged
  <2> QED BY <1>7, <1>8, <2>3
<1>9. CASE target # d
  <2>1. Paged(d)'
    <3>1. held'[d] = held[d] - 1 /\ uncounted'[d] = uncounted[d] BY <1>2, <1>4, <1>9
    <3> QED BY <1>1, <1>6, <3>1 DEF Paged
  <2>2. Paged(target)'
    <3>1. held'[target] = held[target] + 1 /\ queuedPer'[target] = queuedPer[target]
      BY <1>2, <1>4, <1>5, <1>9
    <3>2. Within(queuedPer[target], held[target] + 1, parsing[target], pages[target],
                 Get(crawledPer, target), CountsWorth(forgotten[target]),
                 uncounted[target] + 1)
      BY WithinAdmit, CountedNat DEF Paged
    <3> QED BY <1>1, <1>4, <3>1, <3>2 DEF Paged
  <2> QED BY <1>7, <2>1, <2>2
<1> QED BY <1>8, <1>9

LEMMA ParsePaged ==
  ASSUME CountTypes, \A d \in Domain : Paged(d), NEW d \in Domain, Parse(d)
  PROVE  \A e \in Domain : Paged(e)'
<1>1. /\ parsing' = Less(parsing, d) /\ pages' = Plus(pages, d)
      /\ crawledPer' = Put(crawledPer, d, Get(crawledPer, d) + 1)
      /\ forgotten' = DroppedIn(forgotten, crawledPer, crawledPer')
      /\ parsing[d] > 0 /\ queuedPer' = queuedPer /\ held' = held
      /\ uncounted' = uncounted
  BY DEF Parse
<1>2. parsing \in [Domain -> Nat] /\ pages \in [Domain -> Nat] /\ forgotten \in [Domain -> Nat]
  BY DEF CountTypes
<1>3. parsing'[d] = parsing[d] - 1 /\ \A e \in Domain \ {d} : parsing'[e] = parsing[e]
  BY <1>1, <1>2, LessIs
<1>4. pages'[d] = pages[d] + 1 /\ \A e \in Domain \ {d} : pages'[e] = pages[e]
  BY <1>1, <1>2, PlusIs
<1>5. /\ Get(crawledPer', d) = Get(crawledPer, d) + 1 /\ forgotten'[d] = forgotten[d]
      /\ \A e \in Domain \ {d} :
           \/ Get(crawledPer', e) = Get(crawledPer, e) /\ forgotten'[e] = forgotten[e]
           \/ Get(crawledPer', e) = 0 /\ forgotten'[e] = forgotten[e] + 1
  BY <1>1, CrawledIs
<1>6. Paged(d)'
  <2>1. Within(queuedPer[d], held[d], parsing[d] - 1, pages[d] + 1, Get(crawledPer, d) + 1,
               CountsWorth(forgotten[d]), uncounted[d])
    BY <1>1, WithinParse, CountedNat DEF Paged
  <2> QED BY <1>1, <1>3, <1>4, <1>5, <2>1 DEF Paged
<1>7. ASSUME NEW e \in Domain \ {d} PROVE Paged(e)'
  <2>1. CASE Get(crawledPer', e) = Get(crawledPer, e) /\ forgotten'[e] = forgotten[e]
    BY <1>1, <1>3, <1>4, <1>7, <2>1, PagedKept
  <2>2. CASE Get(crawledPer', e) = 0 /\ forgotten'[e] = forgotten[e] + 1
    <3>1. Within(queuedPer[e], held[e], parsing[e], pages[e], 0,
                 CountsWorth(forgotten[e]) + PerCount, uncounted[e])
      BY <1>7, WithinParse, CountedNat DEF Paged
    <3>2. CountsWorth(forgotten'[e]) = CountsWorth(forgotten[e]) + PerCount
      <4>1. forgotten[e] \in Nat BY <1>2
      <4> QED BY <2>2, <4>1, CountsWorthIs
    <3> QED BY <1>1, <1>3, <1>4, <1>7, <2>2, <3>1, <3>2 DEF Paged
  <2> QED BY <1>5, <2>1, <2>2
<1> QED BY <1>6, <1>7

\* The invariant bounds the pages of a domain as Domains states it.
LEMMA PagedWithinLimits ==
  ASSUME CountTypes, \A d \in Domain : Paged(d)
  PROVE  PagesWithinLimits
<1> SUFFICES ASSUME NEW d \in Domain
             PROVE  pages[d] <= (1 + forgotten[d]) * (MaxCrawled - 1 + MaxQueued + Backlog)
                                + uncounted[d]
  BY DEF PagesWithinLimits
<1>1. forgotten[d] \in Nat BY DEF CountTypes
<1>2. /\ held[d] \in Nat /\ parsing[d] \in Nat /\ pages[d] \in Nat
      /\ CountsWorth(forgotten[d]) \in Nat /\ uncounted[d] \in Nat
  BY CountedNat
<1>3. pages[d] + parsing[d] + held[d] <= CountsWorth(forgotten[d]) + PerCount + uncounted[d]
  BY DEF Paged, Within
<1>4. PerCount \in Nat /\ CountsWorth(forgotten[d]) + PerCount = CountsWorth(1 + forgotten[d])
  BY <1>1, CountsWorthIs
<1>5. pages[d] <= CountsWorth(1 + forgotten[d]) + uncounted[d] BY <1>2, <1>3, <1>4
<1> QED BY <1>5 DEF CountsWorth, PerCount

LEMMA SeenIs ==
  ASSUME CountTypes, NEW d \in Domain,
         seenDomains' = Put(seenDomains, d, 1),
         unseen' = DroppedIn(unseen, seenDomains, seenDomains')
  PROVE  Cache(seenDomains') /\ unseen' \in [Domain -> Nat]
<1>1. Cache(seenDomains) /\ unseen \in [Domain -> Nat] BY DEF CountTypes
<1> QED BY <1>1, PutIs, DroppedIs

\* carrying, when a request comes and when one goes.
LEMMA CarryingType ==
  ASSUME CountTypes, NEW d \in Domain, NEW isNew \in BOOLEAN
  PROVE  /\ (IF isNew THEN Plus(carrying, d) ELSE carrying) \in [Domain -> Nat]
         /\ (isNew => carrying[d] > 0) =>
              (IF isNew THEN Less(carrying, d) ELSE carrying) \in [Domain -> Nat]
<1>1. carrying \in [Domain -> Nat] BY DEF CountTypes
<1>2. Plus(carrying, d) \in [Domain -> Nat] BY <1>1, PlusIs
<1>3. carrying[d] > 0 => Less(carrying, d) \in [Domain -> Nat] BY <1>1, LessIs
<1> QED BY <1>1, <1>2, <1>3

\* What a request that goes leaves alone.
LEMMA CountTypesGoes ==
  ASSUME CountTypes, UNCHANGED caches, pages' = pages,
         {queuedPer', held', carrying', parsing', uncounted'} \subseteq [Domain -> Nat]
  PROVE  CountTypes'
BY DEF CountTypes, caches

LEMMA CountTypesStep ==
  ASSUME CountTypes, Carried, CountingNext
  PROVE  CountTypes'
<1>1. /\ Cache(crawledPer) /\ Cache(seenDomains)
      /\ seenTotal \in Nat /\ seedsLeft \subseteq Seed /\ admitted \subseteq Domain
      /\ queuedPer \in [Domain -> Nat] /\ held \in [Domain -> Nat]
      /\ carrying \in [Domain -> Nat]
      /\ parsing \in [Domain -> Nat] /\ pages \in [Domain -> Nat]
      /\ uncounted \in [Domain -> Nat] /\ exempt \in [Domain -> Nat]
      /\ forgotten \in [Domain -> Nat] /\ unseen \in [Domain -> Nat]
  BY DEF CountTypes
<1>2. \A d \in Domain :
        /\ Plus(queuedPer, d) \in [Domain -> Nat] /\ Plus(held, d) \in [Domain -> Nat]
        /\ Plus(parsing, d) \in [Domain -> Nat] /\ Plus(pages, d) \in [Domain -> Nat]
        /\ Plus(uncounted, d) \in [Domain -> Nat] /\ Plus(exempt, d) \in [Domain -> Nat]
        /\ Released(d) \in [Domain -> Nat]
  BY <1>1, PlusIs, ReleasedIs
<1>3. \A d \in Domain : Counted(d) \in Nat BY <1>1 DEF Counted
<1>4. DroppedIn(unseen, seenDomains, seenDomains) \in [Domain -> Nat] BY <1>1, DroppedIs
<1>5. ASSUME NEW d \in Domain, Admit(d) PROVE CountTypes'
  <2>1. Cache(seenDomains') /\ unseen' \in [Domain -> Nat]
    <3>1. CASE IsNewDomain(d)
      <4>1. seenDomains' = Put(seenDomains, d, 1)
            /\ unseen' = DroppedIn(unseen, seenDomains, seenDomains')
        BY <1>5, <3>1 DEF Admit
      <4> QED BY <4>1, SeenIs
    <3>2. CASE ~ IsNewDomain(d)
      <4>1. seenDomains' = seenDomains
            /\ unseen' = DroppedIn(unseen, seenDomains, seenDomains)
        BY <1>5, <3>2 DEF Admit
      <4> QED BY <1>1, <1>4, <4>1
    <3> QED BY <3>1, <3>2
  <2>2. exempt' \in [Domain -> Nat] BY <1>1, <1>2, <1>5 DEF Admit
  <2>3. held' \in [Domain -> Nat] BY <1>2, <1>5 DEF Admit, Enters
  <2>4. carrying' \in [Domain -> Nat]
    <3>1. carrying' = IF IsNewDomain(d) THEN Plus(carrying, d) ELSE carrying
      BY <1>5 DEF Admit, Enters
    <3>2. IsNewDomain(d) \in BOOLEAN BY DEF IsNewDomain
    <3> QED BY <3>1, <3>2, CarryingType
  <2>5. /\ queuedPer' \in [Domain -> Nat] /\ seenTotal' \in Nat /\ admitted' \subseteq Domain
        /\ crawledPer' = crawledPer /\ parsing' = parsing /\ seedsLeft' = seedsLeft
        /\ pages' = pages /\ uncounted' = uncounted /\ forgotten' = forgotten
    BY <1>1, <1>2, <1>3, <1>5 DEF Admit
  <2> QED BY <1>1, <2>1, <2>2, <2>3, <2>4, <2>5 DEF CountTypes
<1>6. ASSUME NEW d \in Domain, SeedRequest(d) PROVE CountTypes'
  <2>1. Cache(seenDomains') /\ unseen' \in [Domain -> Nat] BY <1>6, SeenIs DEF SeedRequest
  <2>2. held' \in [Domain -> Nat] /\ carrying' = carrying
    BY <1>2, <1>6 DEF SeedRequest, Enters
  <2>3. /\ seenTotal' \in Nat /\ admitted' \subseteq Domain /\ seedsLeft' \subseteq Seed
        /\ uncounted' \in [Domain -> Nat]
        /\ crawledPer' = crawledPer /\ parsing' = parsing /\ queuedPer' = queuedPer
        /\ pages' = pages /\ exempt' = exempt /\ forgotten' = forgotten
    BY <1>1, <1>2, <1>3, <1>6 DEF SeedRequest
  <2> QED BY <1>1, <2>1, <2>2, <2>3 DEF CountTypes
<1>7. ASSUME NEW d \in Domain, RobotsLeft(d) PROVE CountTypes'
  BY <1>1, <1>2, <1>7, CountTypesGoes DEF RobotsLeft
<1>8. ASSUME NEW d \in Domain, NEW isNew \in BOOLEAN,
             Downloaded(d, isNew) \/ Ended(d, isNew) \/ Refused(d, isNew)
      PROVE  CountTypes'
  <2>1. /\ held' = Less(held, d)
        /\ carrying' = IF isNew THEN Less(carrying, d) ELSE carrying
        /\ IF isNew THEN carrying[d] > 0 ELSE held[d] > carrying[d]
        /\ UNCHANGED caches /\ pages' = pages /\ uncounted' = uncounted
        /\ queuedPer' \in {Released(d), queuedPer} /\ parsing' \in {Plus(parsing, d), parsing}
    BY <1>8 DEF Downloaded, Ended, Refused, Leaves
  <2>2. held' \in [Domain -> Nat] BY <2>1, GoesFrom
  <2>3. carrying' \in [Domain -> Nat] BY <2>1, CarryingType
  <2>4. queuedPer' \in [Domain -> Nat] /\ parsing' \in [Domain -> Nat] BY <1>1, <1>2, <2>1
  <2> QED BY <1>1, <2>1, <2>2, <2>3, <2>4, CountTypesGoes
<1>9. ASSUME NEW d \in Domain, NEW isNew \in BOOLEAN, NEW target \in Domain,
             Redirected(d, isNew, target)
      PROVE  CountTypes'
  <2>1. /\ held' = Plus(Less(held, d), target)
        /\ carrying' = IF isNew THEN Plus(Less(carrying, d), target) ELSE carrying
        /\ IF isNew THEN carrying[d] > 0 ELSE held[d] > carrying[d]
        /\ UNCHANGED caches /\ pages' = pages /\ parsing' = parsing
        /\ queuedPer' = Released(d) /\ uncounted' = Plus(uncounted, target)
    BY <1>9 DEF Redirected
  <2>2. held' \in [Domain -> Nat]
    <3>1. Less(held, d) \in [Domain -> Nat] BY <2>1, GoesFrom
    <3> QED BY <2>1, <3>1, PlusIs
  <2>3. carrying' \in [Domain -> Nat]
    <3>1. CASE isNew
      <4>1. Less(carrying, d) \in [Domain -> Nat] BY <1>1, <2>1, <3>1, LessIs
      <4> QED BY <2>1, <3>1, <4>1, PlusIs
    <3>2. CASE ~ isNew BY <1>1, <2>1, <3>2
    <3> QED BY <3>1, <3>2
  <2> QED BY <1>1, <1>2, <2>1, <2>2, <2>3, CountTypesGoes
<1>10. ASSUME NEW d \in Domain, Parse(d) PROVE CountTypes'
  <2>1. parsing' \in [Domain -> Nat]
    <3>1. parsing' = Less(parsing, d) /\ parsing[d] > 0 BY <1>10 DEF Parse
    <3> QED BY <1>1, <3>1, LessIs
  <2>2. Cache(crawledPer') /\ forgotten' \in [Domain -> Nat] BY <1>10, CrawledIs DEF Parse
  <2> QED BY <1>1, <1>2, <1>10, <2>1, <2>2 DEF Parse, CountTypes
<1> QED BY <1>5, <1>6, <1>7, <1>8, <1>9, <1>10 DEF CountingNext

-------------------------------------------------------------------------------
(* Domains: what is counted once. *)

Spots(D, f) == UNION {{d} \X (1 .. f[d]) : d \in D}

LEMMA SpotIs ==
  ASSUME NEW D, NEW f
  PROVE  \A x : x \in Spots(D, f) <=> \E d \in D : \E i \in 1 .. f[d] : x = <<d, i>>
BY DEF Spots

LEMMA SpotsFinite ==
  ASSUME NEW D, IsFiniteSet(D), NEW f \in [D -> Nat]
  PROVE  IsFiniteSet(Spots(D, f)) /\ Cardinality(Spots(D, f)) \in Nat
<1> DEFINE spots(d) == {d} \X (1 .. f[d])
           T == {spots(d) : d \in D}
           g == [d \in D |-> spots(d)]
<1>1. g \in Surjection(D, T) BY DEF Surjection
<1>2. IsFiniteSet(T)
  <2> HIDE DEF g, T
  <2> QED BY <1>1, FS_Surjection
<1>3. ASSUME NEW d \in D PROVE IsFiniteSet(spots(d))
  <2>1. f[d] \in Int /\ 1 \in Int OBVIOUS
  <2>2. IsFiniteSet(1 .. f[d]) BY <2>1, FS_Interval
  <2>3. IsFiniteSet({d}) BY FS_Singleton
  <2> QED BY <2>2, <2>3, FS_Product
<1>4. \A t \in T : IsFiniteSet(t) BY <1>3
<1>5. IsFiniteSet(UNION T)
  <2> HIDE DEF T
  <2> QED BY <1>2, <1>4, FS_UNION
<1>6. Spots(D, f) = UNION T BY DEF Spots
<1> QED BY <1>5, <1>6, FS_CardinalityType

LEMMA SumIs ==
  ASSUME NEW f \in [Domain -> Nat]
  PROVE  IsFiniteSet(Spots(Domain, f)) /\ Sum(f) = Cardinality(Spots(Domain, f)) /\ Sum(f) \in Nat
<1>1. Sum(f) = Cardinality(Spots(Domain, f)) BY DEF Sum, Spots
<1> QED BY <1>1, SpotsFinite, DomainsAssumption

LEMMA SumOfZero == Sum(Zero) = 0
<1>1. \A d \in Domain : 1 .. Zero[d] = {} BY DEF Zero
<1>2. Spots(Domain, Zero) = {} BY <1>1, SpotIs
<1>3. Zero \in [Domain -> Nat] BY DEF Zero
<1> QED BY <1>2, <1>3, SumIs, FS_EmptySet

\* One more of one domain.
LEMMA SumPlusOne ==
  ASSUME NEW f \in [Domain -> Nat], NEW g \in [Domain -> Nat], NEW d \in Domain,
         g[d] = f[d] + 1, \A e \in Domain \ {d} : g[e] = f[e]
  PROVE  Sum(g) = Sum(f) + 1
<1> DEFINE x == <<d, g[d]>>
<1>1. f[d] \in Nat /\ g[d] \in Nat OBVIOUS
<1>2. Spots(Domain, g) \subseteq Spots(Domain, f) \cup {x}
  <2> SUFFICES ASSUME NEW e \in Domain, NEW i \in 1 .. g[e], <<e, i>> \notin Spots(Domain, f)
               PROVE  <<e, i>> = x
    BY SpotIs
  <2>1. i \notin 1 .. f[e] BY SpotIs
  <2>2. e = d BY <2>1
  <2> QED BY <1>1, <2>1, <2>2
<1>3. Spots(Domain, f) \subseteq Spots(Domain, g)
  <2> SUFFICES ASSUME NEW e \in Domain, NEW i \in 1 .. f[e] PROVE <<e, i>> \in Spots(Domain, g)
    BY SpotIs
  <2>1. i \in 1 .. g[e]
    <3>1. f[e] \in Nat /\ g[e] \in Nat /\ f[e] <= g[e] OBVIOUS
    <3> QED BY <3>1
  <2> QED BY <2>1, SpotIs
<1>4. x \in Spots(Domain, g)
  <2>1. g[d] \in 1 .. g[d] BY <1>1
  <2> QED BY <2>1, SpotIs
<1>5. x \notin Spots(Domain, f)
  <2> SUFFICES ASSUME NEW e \in Domain, NEW i \in 1 .. f[e], x = <<e, i>> PROVE FALSE
    BY SpotIs
  <2>1. e = d /\ i = g[d] OBVIOUS
  <2>2. i \in 1 .. f[d] BY <2>1
  <2> QED BY <1>1, <2>1, <2>2
<1>6. Spots(Domain, g) = Spots(Domain, f) \cup {x} BY <1>2, <1>3, <1>4
<1>7. IsFiniteSet(Spots(Domain, f)) BY SumIs
<1>8. Cardinality(Spots(Domain, f) \cup {x}) = Cardinality(Spots(Domain, f)) + 1
  <2> HIDE DEF x
  <2> QED BY <1>5, <1>7, FS_AddElement
<1> QED BY <1>6, <1>8, SumIs

\* There are no more domains with one than there are of all.
LEMMA PositiveSum ==
  ASSUME NEW f \in [Domain -> Nat]
  PROVE  /\ IsFiniteSet({d \in Domain : f[d] > 0})
         /\ Cardinality({d \in Domain : f[d] > 0}) <= Sum(f)
<1> DEFINE P == {d \in Domain : f[d] > 0}
           g == [d \in P |-> <<d, 1>>]
<1>1. g \in [P -> Spots(Domain, f)]
  <2> SUFFICES ASSUME NEW d \in P PROVE <<d, 1>> \in Spots(Domain, f) OBVIOUS
  <2>1. d \in Domain /\ f[d] \in Nat /\ f[d] > 0 OBVIOUS
  <2>2. 1 \in 1 .. f[d] BY <2>1
  <2> QED BY <2>1, <2>2, SpotIs
<1>2. \A d, e \in P : g[d] = g[e] => d = e OBVIOUS
<1>3. g \in Injection(P, Spots(Domain, f)) BY <1>1, <1>2 DEF Injection, IsInjective
<1>4. IsFiniteSet(Spots(Domain, f)) BY SumIs
<1>5. IsFiniteSet(P) /\ Cardinality(P) <= Cardinality(Spots(Domain, f))
  <2> HIDE DEF P, g
  <2> QED BY <1>3, <1>4, FS_Injection
<1> QED BY <1>5, SumIs

\* d is written to seen_domains: the places dropped and held go up by one, if d
\* had none.
LEMMA SeenSum ==
  ASSUME CountTypes, NEW d \in Domain,
         seenDomains' = Put(seenDomains, d, 1),
         unseen' = DroppedIn(unseen, seenDomains, seenDomains')
  PROVE  /\ d \in Keys(seenDomains') /\ unseen'[d] = unseen[d]
         /\ Keys(seenDomains') \subseteq Keys(seenDomains) \cup {d}
         /\ \A e \in Domain :
              /\ unseen'[e] >= unseen[e]
              /\ e \in Keys(seenDomains) \ Keys(seenDomains') => unseen'[e] = unseen[e] + 1
         /\ Sum(unseen') + Cardinality(Keys(seenDomains'))
              = Sum(unseen) + Cardinality(Keys(seenDomains))
                + (IF d \in Keys(seenDomains) THEN 0 ELSE 1)
<1> DEFINE K == Keys(seenDomains)
           L == Keys(seenDomains')
<1>1. Cache(seenDomains) /\ unseen \in [Domain -> Nat] BY DEF CountTypes
<1>2. d \in L /\ L \subseteq K \cup {d} BY <1>1, PutIs
<1>3. \A e, f \in K \ L : e = f BY <1>1, PutDrops
<1>4. /\ unseen' \in [Domain -> Nat]
      /\ \A e \in Domain : unseen'[e] = unseen[e] + (IF e \in K \ L THEN 1 ELSE 0)
  BY <1>1, DroppedIs
<1>5. K \subseteq Domain /\ IsFiniteSet(K)
  <2>1. K \subseteq Domain BY <1>1, KeysInDomain
  <2> QED BY <2>1, DomainsAssumption, FS_Subset
<1> HIDE DEF K, L
<1>6. \A e \in Domain :
        /\ unseen[e] \in Nat
        /\ e \in K \ L => unseen'[e] = unseen[e] + 1
        /\ e \notin K \ L => unseen'[e] = unseen[e]
  <2> SUFFICES ASSUME NEW e \in Domain
               PROVE  /\ unseen[e] \in Nat
                      /\ e \in K \ L => unseen'[e] = unseen[e] + 1
                      /\ e \notin K \ L => unseen'[e] = unseen[e]
    OBVIOUS
  <2>1. unseen[e] \in Nat BY <1>1
  <2> QED BY <1>4, <2>1
<1>7. Sum(unseen) \in Nat /\ Cardinality(K) \in Nat
  BY <1>1, <1>5, SumIs, FS_CardinalityType
<1>8. Sum(unseen') + Cardinality(L)
        = Sum(unseen) + Cardinality(K) + (IF d \in K THEN 0 ELSE 1)
  <2>1. CASE K \ L = {}
    <3>1. L = K \cup {d} BY <1>2, <2>1
    <3>2. Cardinality(L) = IF d \in K THEN Cardinality(K) ELSE Cardinality(K) + 1
      BY <1>5, <3>1, FS_AddElement
    <3>3. unseen' = unseen BY <1>1, <1>4, <1>6, <2>1
    <3> QED BY <1>7, <3>2, <3>3
  <2>2. CASE K \ L # {}
    <3>1. PICK x \in K \ L : TRUE BY <2>2
    <3>2. x # d /\ x \in Domain BY <1>2, <1>5, <3>1
    <3>3. L = (K \ {x}) \cup {d} BY <1>2, <1>3, <3>1, <3>2
    <3>4. IsFiniteSet(K \ {x}) /\ Cardinality(K \ {x}) = Cardinality(K) - 1
      BY <1>5, <3>1, FS_RemoveElement
    <3>5. Cardinality(L) = IF d \in K THEN Cardinality(K) - 1 ELSE Cardinality(K) - 1 + 1
      <4>1. d \in K \ {x} <=> d \in K BY <3>2
      <4> QED BY <3>3, <3>4, <4>1, FS_AddElement
    <3>6. Sum(unseen') = Sum(unseen) + 1
      <4>1. unseen'[x] = unseen[x] + 1 BY <1>6, <3>1, <3>2
      <4>2. \A e \in Domain \ {x} : unseen'[e] = unseen[e] BY <1>3, <1>6, <3>1
      <4> QED BY <1>1, <1>4, <3>2, <4>1, <4>2, SumPlusOne
    <3> QED BY <1>7, <3>5, <3>6
  <2> QED BY <2>1, <2>2
<1>9. unseen'[d] = unseen[d] BY <1>2, <1>6
<1>10. \A e \in Domain :
         /\ unseen'[e] >= unseen[e]
         /\ e \in K \ L => unseen'[e] = unseen[e] + 1
  <2> SUFFICES ASSUME NEW e \in Domain PROVE unseen'[e] >= unseen[e] BY <1>6
  <2>1. CASE e \in K \ L BY <1>6, <2>1
  <2>2. CASE e \notin K \ L BY <1>6, <2>2
  <2> QED BY <2>1, <2>2
<1> QED BY <1>2, <1>8, <1>9, <1>10 DEF K, L

\* A request comes, and goes, with an exemption or without.
LEMMA CarriedMore ==
  ASSUME CountTypes, NEW f \in [Domain -> Nat], NEW d \in Domain
  PROVE  Sum(Plus(f, d)) = Sum(f) + 1
<1>1. /\ Plus(f, d) \in [Domain -> Nat] /\ Plus(f, d)[d] = f[d] + 1
      /\ \A e \in Domain \ {d} : Plus(f, d)[e] = f[e]
  BY PlusIs
<1> QED BY <1>1, SumPlusOne

LEMMA CarriedLess ==
  ASSUME CountTypes, NEW f \in [Domain -> Nat], NEW d \in Domain, f[d] > 0
  PROVE  Sum(Less(f, d)) = Sum(f) - 1
<1>1. /\ Less(f, d) \in [Domain -> Nat] /\ Less(f, d)[d] = f[d] - 1
      /\ \A e \in Domain \ {d} : Less(f, d)[e] = f[e]
  BY LessIs
<1>2. f[d] \in Nat /\ f[d] = Less(f, d)[d] + 1 BY <1>1
<1>3. Sum(f) = Sum(Less(f, d)) + 1 BY <1>1, <1>2, SumPlusOne
<1>4. Sum(Less(f, d)) \in Nat BY <1>1, SumIs
<1> QED BY <1>3, <1>4

LEMMA CarriedStep ==
  ASSUME CountTypes, Carried, CountingNext
  PROVE  Carried'
<1>1. /\ held \in [Domain -> Nat] /\ carrying \in [Domain -> Nat] /\ exempt \in [Domain -> Nat]
      /\ \A d \in Domain : held[d] \in Nat /\ carrying[d] \in Nat /\ carrying[d] <= held[d]
  BY DEF CountTypes, Carried
<1>2. Sum(carrying) \in Nat /\ Sum(exempt) \in Nat /\ Sum(carrying) <= Sum(exempt)
  BY <1>1, SumIs DEF Carried
<1>3. \A d \in Domain :
        /\ Plus(held, d)[d] = held[d] + 1 /\ Plus(carrying, d)[d] = carrying[d] + 1
        /\ \A e \in Domain \ {d} :
             Plus(held, d)[e] = held[e] /\ Plus(carrying, d)[e] = carrying[e]
        /\ Sum(Plus(carrying, d)) = Sum(carrying) + 1 /\ Sum(Plus(exempt, d)) = Sum(exempt) + 1
  BY <1>1, PlusIs, CarriedMore
<1>4. ASSUME NEW d \in Domain, Admit(d) PROVE Carried'
  <2>1. held' = Plus(held, d) BY <1>4 DEF Admit, Enters
  <2>2. CASE IsNewDomain(d)
    <3>1. carrying' = Plus(carrying, d) /\ exempt' = Plus(exempt, d)
      BY <1>4, <2>2 DEF Admit, Enters
    <3> QED BY <1>1, <1>2, <1>3, <2>1, <3>1 DEF Carried
  <2>3. CASE ~ IsNewDomain(d)
    <3>1. carrying' = carrying /\ exempt' = exempt BY <1>4, <2>3 DEF Admit, Enters
    <3> QED BY <1>1, <1>2, <1>3, <2>1, <3>1 DEF Carried
  <2> QED BY <2>2, <2>3
<1>5. ASSUME NEW d \in Domain, SeedRequest(d) PROVE Carried'
  <2>1. held' = Plus(held, d) /\ carrying' = carrying /\ exempt' = exempt
    BY <1>5 DEF SeedRequest, Enters
  <2> QED BY <1>1, <1>2, <1>3, <2>1 DEF Carried
<1>6. ASSUME NEW d \in Domain, RobotsLeft(d) \/ Parse(d) PROVE Carried'
  <2>1. held' = held /\ carrying' = carrying /\ exempt' = exempt
    BY <1>6 DEF RobotsLeft, Parse, caches
  <2> QED BY <2>1 DEF Carried
<1>7. ASSUME NEW d \in Domain, NEW isNew \in BOOLEAN,
             Downloaded(d, isNew) \/ Ended(d, isNew) \/ Refused(d, isNew)
      PROVE  Carried'
  <2>1. /\ held' = Less(held, d) /\ exempt' = exempt
        /\ carrying' = IF isNew THEN Less(carrying, d) ELSE carrying
        /\ IF isNew THEN carrying[d] > 0 ELSE held[d] > carrying[d]
    BY <1>7 DEF Downloaded, Ended, Refused, Leaves, caches
  <2>2. held'[d] = held[d] - 1 /\ \A e \in Domain \ {d} : held'[e] = held[e]
    BY <2>1, GoesFrom
  <2>3. CASE isNew
    <3>1. /\ carrying'[d] = carrying[d] - 1 /\ \A e \in Domain \ {d} : carrying'[e] = carrying[e]
          /\ Sum(carrying') = Sum(carrying) - 1
      BY <1>1, <2>1, <2>3, LessIs, CarriedLess
    <3> QED BY <1>1, <1>2, <2>1, <2>2, <3>1 DEF Carried
  <2>4. CASE ~ isNew BY <1>1, <1>2, <2>1, <2>2, <2>4 DEF Carried
  <2> QED BY <2>3, <2>4
<1>8. ASSUME NEW d \in Domain, NEW isNew \in BOOLEAN, NEW target \in Domain,
             Redirected(d, isNew, target)
      PROVE  Carried'
  <2> DEFINE h == Less(held, d)
             c == Less(carrying, d)
  <2>1. /\ held' = Plus(h, target) /\ exempt' = exempt
        /\ carrying' = IF isNew THEN Plus(c, target) ELSE carrying
        /\ IF isNew THEN carrying[d] > 0 ELSE held[d] > carrying[d]
    BY <1>8 DEF Redirected, caches
  <2>2. /\ h \in [Domain -> Nat] /\ h[d] = held[d] - 1
        /\ \A e \in Domain \ {d} : h[e] = held[e]
    BY <2>1, GoesFrom
  <2>3. CASE isNew
    <3>1. /\ c \in [Domain -> Nat] /\ c[d] = carrying[d] - 1
          /\ \A e \in Domain \ {d} : c[e] = carrying[e]
          /\ Sum(c) = Sum(carrying) - 1
      BY <1>1, <2>1, <2>3, LessIs, CarriedLess
    <3> HIDE DEF h, c
    <3>2. carrying' = Plus(c, target) BY <2>1, <2>3
    <3>3. /\ held'[target] = h[target] + 1 /\ \A e \in Domain \ {target} : held'[e] = h[e]
          /\ carrying'[target] = c[target] + 1
          /\ \A e \in Domain \ {target} : carrying'[e] = c[e]
          /\ Sum(carrying') = Sum(c) + 1
      BY <2>1, <2>2, <3>1, <3>2, PlusIs, CarriedMore
    <3>4. \A e \in Domain : h[e] \in Nat /\ c[e] \in Nat /\ c[e] <= h[e]
      BY <1>1, <2>2, <3>1
    <3>5. \A e \in Domain : carrying'[e] <= held'[e] BY <3>3, <3>4
    <3>6. Sum(carrying') <= Sum(exempt') BY <1>2, <2>1, <3>1, <3>3
    <3> QED BY <3>5, <3>6 DEF Carried
  <2>4. CASE ~ isNew
    <3> HIDE DEF h, c
    <3>1. carrying' = carrying /\ held[d] > carrying[d] BY <2>1, <2>4
    <3>2. held'[target] = h[target] + 1 /\ \A e \in Domain \ {target} : held'[e] = h[e]
      BY <2>1, <2>2, PlusIs
    <3>3. \A e \in Domain : h[e] \in Nat /\ carrying[e] <= h[e] BY <1>1, <2>2, <3>1
    <3>4. \A e \in Domain : carrying'[e] <= held'[e] BY <1>1, <3>1, <3>2, <3>3
    <3> QED BY <1>2, <2>1, <3>1, <3>4 DEF Carried
  <2> QED BY <2>3, <2>4
<1> QED BY <1>4, <1>5, <1>6, <1>7, <1>8 DEF CountingNext

\* d is written to seen_domains, and let past a full frontier only if it was not
\* there.
LEMMA SeenWritten ==
  ASSUME CountTypes, SeenInv, NEW d \in Domain,
         seenDomains' = Put(seenDomains, d, 1),
         unseen' = DroppedIn(unseen, seenDomains, seenDomains'),
         seenTotal' = Counted(d), admitted' = admitted \cup {d},
         exempt'[d] = exempt[d] + (IF d \in Keys(seenDomains) THEN 0 ELSE 1) \/ exempt'[d] = exempt[d],
         \A e \in Domain \ {d} : exempt'[e] = exempt[e]
  PROVE  SeenInv'
<1>1. /\ d \in Keys(seenDomains') /\ unseen'[d] = unseen[d]
      /\ Keys(seenDomains') \subseteq Keys(seenDomains) \cup {d}
      /\ \A e \in Domain :
           /\ unseen'[e] >= unseen[e]
           /\ e \in Keys(seenDomains) \ Keys(seenDomains') => unseen'[e] = unseen[e] + 1
      /\ Sum(unseen') + Cardinality(Keys(seenDomains'))
           = Sum(unseen) + Cardinality(Keys(seenDomains))
             + (IF d \in Keys(seenDomains) THEN 0 ELSE 1)
  BY SeenSum
<1>2. /\ Cache(seenDomains) /\ Cache(seenDomains')
      /\ unseen \in [Domain -> Nat] /\ unseen' \in [Domain -> Nat] /\ exempt \in [Domain -> Nat]
  BY SeenIs DEF CountTypes
<1>3. ASSUME NEW e \in Domain PROVE Spared(e)'
  <2>1. unseen[e] \in Nat /\ unseen'[e] \in Nat /\ exempt[e] \in Nat BY <1>2
  <2>2. exempt[e] <= unseen[e] + (IF e \in Keys(seenDomains) THEN 1 ELSE 0)
    BY DEF SeenInv, Spared
  <2>3. CASE e = d
    <3>1. exempt'[d] <= unseen'[d] + 1 BY <1>1, <2>1, <2>2, <2>3
    <3> QED BY <1>1, <2>3, <3>1 DEF Spared
  <2>4. CASE e # d
    <3>1. exempt'[e] = exempt[e] BY <2>4
    <3>2. CASE e \in Keys(seenDomains) \ Keys(seenDomains')
      <4>1. exempt'[e] <= unseen'[e] BY <1>1, <2>1, <2>2, <3>1, <3>2
      <4> QED BY <3>2, <4>1, <2>1, <3>1 DEF Spared
    <3>3. CASE e \notin Keys(seenDomains) \/ e \in Keys(seenDomains')
      <4>1. (IF e \in Keys(seenDomains) THEN 1 ELSE 0)
              <= (IF e \in Keys(seenDomains') THEN 1 ELSE 0)
        BY <1>1, <3>3
      <4>2. unseen'[e] >= unseen[e] BY <1>1
      <4> QED BY <2>1, <2>2, <3>1, <4>1, <4>2 DEF Spared
    <3> QED BY <3>2, <3>3
  <2> QED BY <2>3, <2>4
<1>4. seenTotal' = Sum(unseen') + Cardinality(Keys(seenDomains'))
  <2>1. seenTotal = Sum(unseen) + Cardinality(Keys(seenDomains)) /\ seenTotal \in Nat
    BY DEF SeenInv, CountTypes
  <2>2. seenTotal' = seenTotal + (IF d \in Keys(seenDomains) THEN 0 ELSE 1)
    BY <2>1 DEF Counted
  <2> QED BY <1>1, <2>1, <2>2
<1>5. Keys(seenDomains') \subseteq admitted' BY <1>1 DEF SeenInv
<1>6. ASSUME NEW e \in admitted' PROVE e \in Keys(seenDomains') \/ unseen'[e] > 0
  <2>1. e \in Domain BY <1>6 DEF CountTypes
  <2>2. unseen[e] \in Nat /\ unseen'[e] \in Nat /\ unseen'[e] >= unseen[e] BY <1>1, <1>2, <2>1
  <2>3. CASE e = d BY <1>1, <2>3
  <2>4. CASE e # d
    <3>1. e \in Keys(seenDomains) \/ unseen[e] > 0 BY <1>6, <2>4 DEF SeenInv
    <3> QED BY <1>1, <2>1, <2>2, <3>1
  <2> QED BY <2>3, <2>4
<1> QED BY <1>3, <1>4, <1>5, <1>6 DEF SeenInv

LEMMA SeenKept ==
  ASSUME SeenInv, seenDomains' = seenDomains, unseen' = unseen, seenTotal' = seenTotal,
         exempt' = exempt, admitted' = admitted
  PROVE  SeenInv'
<1>1. \A d \in Domain : Spared(d)' BY DEF SeenInv, Spared
<1> QED BY <1>1 DEF SeenInv

LEMMA SeenStep ==
  ASSUME CountTypes, SeenInv, CountingNext
  PROVE  SeenInv'
<1>1. unseen \in [Domain -> Nat] /\ exempt \in [Domain -> Nat] BY DEF CountTypes
<1>2. ASSUME NEW d \in Domain, Admit(d) PROVE SeenInv'
  <2>1. admitted' = admitted \cup {d} BY <1>2 DEF Admit
  <2>2. CASE IsNewDomain(d)
    <3>1. /\ seenDomains' = Put(seenDomains, d, 1)
          /\ unseen' = DroppedIn(unseen, seenDomains, seenDomains')
          /\ seenTotal' = Counted(d) /\ exempt' = Plus(exempt, d)
      BY <1>2, <2>2 DEF Admit
    <3>2. d \notin Keys(seenDomains) BY <2>2 DEF IsNewDomain
    <3>3. exempt'[d] = exempt[d] + 1 /\ \A e \in Domain \ {d} : exempt'[e] = exempt[e]
      BY <1>1, <3>1, PlusIs
    <3>4. exempt'[d] = exempt[d] + (IF d \in Keys(seenDomains) THEN 0 ELSE 1)
      BY <3>2, <3>3
    <3> QED BY <2>1, <3>1, <3>3, <3>4, SeenWritten
  <2>3. CASE ~ IsNewDomain(d)
    <3>1. /\ seenDomains' = seenDomains /\ exempt' = exempt
          /\ unseen' = DroppedIn(unseen, seenDomains, seenDomains)
          /\ seenTotal' = Counted(d)
      BY <1>2, <2>3 DEF Admit
    <3>2. d \in Keys(seenDomains) BY <2>3 DEF IsNewDomain
    <3>3. seenTotal' = seenTotal BY <3>1, <3>2 DEF Counted
    <3>4. unseen' = unseen
      <4>1. unseen' \in [Domain -> Nat] /\ \A e \in Domain : unseen'[e] = unseen[e] + 0
        BY <1>1, <3>1, DroppedIs
      <4>2. \A e \in Domain : unseen'[e] = unseen[e] BY <1>1, <4>1
      <4> QED BY <1>1, <4>1, <4>2
    <3>5. admitted' = admitted BY <2>1, <3>2 DEF SeenInv
    <3> QED BY <3>1, <3>3, <3>4, <3>5, SeenKept
  <2> QED BY <2>2, <2>3
<1>3. ASSUME NEW d \in Domain, SeedRequest(d) PROVE SeenInv'
  <2>1. /\ seenDomains' = Put(seenDomains, d, 1)
        /\ unseen' = DroppedIn(unseen, seenDomains, seenDomains')
        /\ seenTotal' = Counted(d) /\ exempt' = exempt /\ admitted' = admitted \cup {d}
    BY <1>3 DEF SeedRequest
  <2>2. exempt'[d] = exempt[d] /\ \A e \in Domain \ {d} : exempt'[e] = exempt[e] BY <2>1
  <2> QED BY <2>1, <2>2, SeenWritten
<1>4. ASSUME UNCHANGED caches PROVE SeenInv'
  BY <1>4, SeenKept DEF caches
<1>5. ASSUME NEW d \in Domain, Parse(d) PROVE SeenInv'
  BY <1>5, SeenKept DEF Parse
<1> QED
  BY <1>2, <1>3, <1>4, <1>5
  DEF CountingNext, RobotsLeft, Downloaded, Ended, Refused, Redirected

LEMMA SeenWithinEvictions ==
  ASSUME CountTypes, SeenInv, Carried
  PROVE  ExemptOncePerEviction /\ TotalWithinEvictions
<1> DEFINE K == Keys(seenDomains)
           P == {d \in Domain : unseen[d] > 0}
<1>1. unseen \in [Domain -> Nat] /\ exempt \in [Domain -> Nat] /\ Cache(seenDomains)
  BY DEF CountTypes
<1>2. ExemptOncePerEviction
  <2> SUFFICES ASSUME NEW d \in Domain PROVE exempt[d] <= 1 + unseen[d]
    BY DEF ExemptOncePerEviction, Carried
  <2>1. exempt[d] \in Nat /\ unseen[d] \in Nat BY <1>1
  <2>2. exempt[d] <= unseen[d] + (IF d \in Keys(seenDomains) THEN 1 ELSE 0)
    BY DEF SeenInv, Spared
  <2> QED BY <2>1, <2>2
<1>3. admitted \subseteq Domain /\ IsFiniteSet(admitted)
  <2>1. admitted \subseteq Domain BY DEF CountTypes
  <2> QED BY <2>1, DomainsAssumption, FS_Subset
<1>4. IsFiniteSet(K) /\ Cardinality(K) \in Nat /\ Cardinality(K) <= Cardinality(admitted)
  <2>1. K \subseteq admitted BY DEF SeenInv
  <2> HIDE DEF K
  <2> QED BY <1>3, <2>1, FS_Subset, FS_CardinalityType
<1>5. IsFiniteSet(P) /\ Cardinality(P) \in Nat /\ Cardinality(P) <= Sum(unseen)
  <2>1. IsFiniteSet(P) /\ Cardinality(P) <= Sum(unseen) BY <1>1, PositiveSum
  <2> HIDE DEF P
  <2> QED BY <2>1, FS_CardinalityType
<1>6. Cardinality(admitted) <= Cardinality(K) + Cardinality(P) /\ Cardinality(admitted) \in Nat
  <2>1. admitted \subseteq K \cup P BY <1>3 DEF SeenInv
  <2> HIDE DEF K, P
  <2>2. /\ IsFiniteSet(K \cup P)
        /\ Cardinality(K \cup P) = Cardinality(K) + Cardinality(P) - Cardinality(K \cap P)
    BY <1>4, <1>5, FS_Union
  <2>3. Cardinality(K \cap P) \in Nat
    <3>1. IsFiniteSet(K \cap P) BY <1>4, FS_Intersection
    <3> QED BY <3>1, FS_CardinalityType
  <2>4. Cardinality(admitted) <= Cardinality(K \cup P) BY <2>1, <2>2, FS_Subset
  <2>5. Cardinality(admitted) \in Nat BY <1>3, FS_CardinalityType
  <2> QED BY <1>4, <1>5, <2>2, <2>3, <2>4, <2>5
<1>7. seenTotal = Sum(unseen) + Cardinality(K) BY DEF SeenInv
<1>8. Sum(unseen) \in Nat BY <1>1, SumIs
<1>9. TotalWithinEvictions
  <2> HIDE DEF K, P
  <2> QED BY <1>4, <1>5, <1>6, <1>7, <1>8 DEF TotalWithinEvictions
<1> QED BY <1>2, <1>9

LEMMA CountingInitInv == CountingInit => CountingInv
<1> SUFFICES ASSUME CountingInit PROVE CountingInv OBVIOUS
<1>1. /\ crawledPer = << >> /\ seenDomains = << >> /\ seenTotal = 0 /\ seedsLeft = Seed
      /\ queuedPer = Zero /\ held = Zero /\ carrying = Zero /\ parsing = Zero
      /\ pages = Zero /\ uncounted = Zero /\ admitted = {}
      /\ exempt = Zero /\ forgotten = Zero /\ unseen = Zero
  BY DEF CountingInit
<1>2. Zero \in [Domain -> Nat] /\ \A d \in Domain : Zero[d] = 0 BY DEF Zero
<1>3. << >> \in Seq(Domain \X Nat) /\ Len(<< >>) = 0 /\ DOMAIN << >> = {} BY EmptySeq
<1>4. Cache(<< >>) BY <1>3, Limits DEF Cache
<1>5. Keys(<< >>) = {} BY <1>3 DEF Keys
<1>6. CountTypes BY <1>1, <1>2, <1>4 DEF CountTypes
<1>7. ASSUME NEW d \in Domain PROVE Paged(d)
  <2>1. Get(crawledPer, d) = 0 BY <1>1, <1>5 DEF Get
  <2>2. CountsWorth(forgotten[d]) = 0 BY <1>1, <1>2, CountsWorthIs
  <2>3. /\ queuedPer[d] = 0 /\ held[d] = 0 /\ parsing[d] = 0 /\ pages[d] = 0
        /\ uncounted[d] = 0
    BY <1>1, <1>2
  <2>4. Within(0, 0, 0, 0, 0, 0, 0)
    <3>1. PerCount \in Nat BY CountsWorthIs
    <3> QED BY <3>1, Limits DEF Within
  <2> QED BY <2>1, <2>2, <2>3, <2>4 DEF Paged
<1>8. SeenInv
  <2>1. Keys(seenDomains) = {} BY <1>1, <1>5
  <2>2. \A d \in Domain : Spared(d)
    <3>1. \A d \in Domain : exempt[d] = 0 /\ unseen[d] = 0 BY <1>1, <1>2
    <3> QED BY <2>1, <3>1 DEF Spared
  <2>3. seenTotal = Sum(unseen) + Cardinality(Keys(seenDomains))
    BY <1>1, <2>1, SumOfZero, FS_EmptySet
  <2> QED BY <1>1, <2>1, <2>2, <2>3 DEF SeenInv
<1>9. Carried BY <1>1, <1>2, SumOfZero DEF Carried
<1> QED BY <1>6, <1>7, <1>8, <1>9 DEF CountingInv

LEMMA CountingStepInv == CountingInv /\ [CountingNext]_countingVars => CountingInv'
<1> SUFFICES ASSUME CountingInv, [CountingNext]_countingVars PROVE CountingInv'
  OBVIOUS
<1>1. CountTypes /\ (\A d \in Domain : Paged(d)) /\ SeenInv /\ Carried BY DEF CountingInv
<1>2. CASE CountingNext
  <2>1. CountTypes' BY <1>1, <1>2, CountTypesStep
  <2>2. SeenInv' BY <1>1, <1>2, SeenStep
  <2>3. Carried' BY <1>1, <1>2, CarriedStep
  <2>4. \A d \in Domain : Paged(d)'
    BY <1>1, <1>2, AdmitPaged, SeedPaged, RobotsPaged, LeavesPaged, RedirectedPaged,
       ParsePaged
    DEF CountingNext
  <2> QED BY <2>1, <2>2, <2>3, <2>4 DEF CountingInv
<1>3. CASE UNCHANGED countingVars
  <2>1. /\ crawledPer' = crawledPer /\ seenDomains' = seenDomains /\ seenTotal' = seenTotal
        /\ queuedPer' = queuedPer /\ held' = held /\ carrying' = carrying
        /\ parsing' = parsing /\ seedsLeft' = seedsLeft /\ pages' = pages
        /\ uncounted' = uncounted /\ admitted' = admitted /\ exempt' = exempt
        /\ forgotten' = forgotten /\ unseen' = unseen
    BY <1>3 DEF countingVars
  <2>2. CountTypes' BY <1>1, <2>1 DEF CountTypes
  <2>3. ASSUME NEW d \in Domain PROVE Paged(d)'
    <3>1. Paged(d) BY <1>1
    <3> QED BY <2>1, <3>1, PagedKept
  <2>4. SeenInv' BY <1>1, <2>1, SeenKept
  <2>5. Carried' BY <1>1, <2>1 DEF Carried
  <2> QED BY <2>2, <2>3, <2>4, <2>5 DEF CountingInv
<1> QED BY <1>2, <1>3

\* While the domains are counted, the invariant holds.
LEMMA CountingInvariant == Spec => [](part = "counting" => CountingInv)
<1>1. Init => (part = "counting" => CountingInv)
  <2> SUFFICES ASSUME Init, part = "counting" PROVE CountingInv OBVIOUS
  <2>1. CountingInit BY DEF Init
  <2> QED BY <2>1, CountingInitInv
<1>2. (part = "counting" => CountingInv) /\ [Next]_vars
        => (part = "counting" => CountingInv)'
  <2> SUFFICES ASSUME part = "counting" => CountingInv, [Next]_vars, part' = "counting"
               PROVE  CountingInv'
    OBVIOUS
  <2>1. part = "counting" /\ [CountingNext]_countingVars
    <3>1. CASE Next
      BY <3>1 DEF Next, SavingRuns, CountingRuns, LoggingRuns, CheckingRuns,
                  SelectingRuns, ProbingRuns
    <3>2. CASE UNCHANGED vars BY <3>2 DEF vars
    <3> QED BY <3>1, <3>2
  <2> QED BY <2>1, CountingStepInv
<1> QED BY <1>1, <1>2, PTL DEF Spec

\* A domain gets no more pages than its page limit, what may be queued and what
\* may wait to be parsed, once more for every count the cache has dropped, and
\* one for each request that took no place (a seed, a redirect's target) and each
\* place given back for a robots.txt (broad.py:115-116): no order of admissions,
\* responses, failures, redirects and evictions lets more through.
THEOREM PagesAreBounded == Spec => []PagesBounded
<1>1. (part = "counting" => CountingInv) => PagesBounded
  BY PagedWithinLimits DEF PagesBounded, CountingInv
<1> QED BY <1>1, CountingInvariant, PTL

\* A domain that was evicted from seen_domains is let past a full frontier once
\* more for each eviction, and redirects never make two requests of the one that
\* may pass; domains_seen_total misses no domain that a seed, a link or the inbox
\* brought, and counts none twice but for an eviction (broad.py:115-127).
THEOREM EvictionsCostOne == Spec => []EvictionCostsOne
<1>1. (part = "counting" => CountingInv) => EvictionCostsOne
  BY SeenWithinEvictions DEF EvictionCostsOne, CountingInv
<1> QED BY <1>1, CountingInvariant, PTL

-------------------------------------------------------------------------------
(* Checkpoint: an inductive invariant. *)

\* Where the next slice begins, and how many queues it has.
SweepStart == cursor % Len(queues)
SliceSize == Min({PerTick(Len(queues)), Len(queues)})

\* How far a place is behind the cursor, round the end of the list.
Behind(p) == IF p < SweepStart THEN SweepStart - 1 - p ELSE SweepStart - 1 - p + Len(queues)

\* What the last k quiet ticks have passed was saved in one of them.
Swept ==
  \A k \in 1 .. quiet : \A p \in 0 .. Len(queues) - 1 :
    Behind(p) < k * SliceSize => age[queues[p + 1]] <= k - 1

\* What a queue waits beyond what delayed it.
Lag(q) == age[q] - delays[q]

\* The cursor at c reaches place p of a list of total in slices of n before the
\* queue there is late.  With slices of one a place behind the cursor also waits
\* less than its distance: were the list to grow by it to slices of one that are
\* all needed, it would not be late either.
Reached(total, n, c, p, lag) ==
  /\ p >= c => p - c < n * (Slices - lag)
  /\ p < c => p - c + total < n * (Slices - lag)
  /\ p < c /\ n = 1 => lag < c - p

AllReached ==
  \A p \in 0 .. Len(queues) - 1 :
    Reached(Len(queues), SliceSize, SweepStart, p, Lag(queues[p + 1]))

\* A cursor past the end of the list was left there by a drop, for which every
\* queue was given a pass.
PastTheEnd == cursor >= Len(queues) => \A p \in 0 .. Len(queues) - 1 : Lag(queues[p + 1]) <= 0

SavingTypes ==
  /\ queues \in Seq(Queue) /\ cursor \in Nat
  /\ age \in [Queue -> Nat] /\ delays \in [Queue -> Nat] /\ quiet \in 0 .. Slices

SavingInv == SavingTypes /\ Swept /\ AllReached /\ PastTheEnd

-------------------------------------------------------------------------------
(* Checkpoint: numbers. *)

LEMMA SavingNumbers == Slices \in Nat /\ Slices >= 1
BY CheckpointAssumption

LEMMA LeastOfTwo ==
  ASSUME NEW a \in Nat, NEW b \in Nat
  PROVE  Min({a, b}) = IF a <= b THEN a ELSE b
BY DEF Min

LEMMA GreatestOfTwo ==
  ASSUME NEW a \in Nat, NEW b \in Nat
  PROVE  Max({a, b}) = IF a >= b THEN a ELSE b
BY DEF Max

LEMMA Multiples ==
  ASSUME NEW k \in Int, NEW m \in Nat
  PROVE  k * m \in Int /\ (k + 1) * m = k * m + m /\ (k - 1) * m = k * m - m
         /\ (k >= 0 => k * m >= 0)
OBVIOUS

LEMMA WrapsOnce ==
  ASSUME NEW a \in Nat, NEW m \in Nat, m > 0
  PROVE  /\ a % m \in 0 .. m - 1
         /\ a < m => a % m = a
         /\ a >= m /\ a < m + m => a % m = a - m
OBVIOUS

\* A slice is not empty, and as many slices as there are make a whole list.
LEMMA SliceSizeIs ==
  ASSUME NEW total \in Nat, total > 0
  PROVE  /\ Min({PerTick(total), total}) \in 1 .. total
         /\ Slices * Min({PerTick(total), total}) >= total
<1> DEFINE up == (total + Slices - 1) \div Slices
<1>1. up \in Nat /\ up * Slices >= total
  <2>1. total + Slices - 1 \in Nat BY SavingNumbers
  <2>2. \A a \in Nat, m \in Nat : m > 0 =>
          a \div m \in Nat /\ (a \div m) * m + (m - 1) >= a
    OBVIOUS
  <2> HIDE DEF up
  <2>3. up \in Nat /\ up * Slices + (Slices - 1) >= total + Slices - 1
    BY <2>1, <2>2, SavingNumbers DEF up
  <2>4. up * Slices \in Int BY <2>3, SavingNumbers
  <2> QED BY <2>3, <2>4, SavingNumbers
<1>2. up >= 1
  <2> HIDE DEF up
  <2>1. CASE up = 0
    <3>1. up * Slices = 0 BY <2>1, SavingNumbers
    <3> QED BY <1>1, <3>1
  <2> QED BY <1>1, <2>1
<1>3. PerTick(total) = up
  <2>1. PerTick(total) = Max({1, up}) BY DEF PerTick
  <2> HIDE DEF up
  <2> QED BY <1>1, <1>2, <2>1, GreatestOfTwo
<1> HIDE DEF up
<1>4. Min({PerTick(total), total}) = IF up <= total THEN up ELSE total
  BY <1>1, <1>3, LeastOfTwo
<1>5. Slices * total >= total
  <2>1. \A m \in Nat : m >= 1 => m * total >= total OBVIOUS
  <2> QED BY <2>1, SavingNumbers
<1>6. Slices * up = up * Slices BY <1>1, SavingNumbers
<1> QED BY <1>1, <1>2, <1>4, <1>5, <1>6

\* A longer list has no smaller slices.
LEMMA SliceSizeGrows ==
  ASSUME NEW total \in Nat, total > 0
  PROVE  Min({PerTick(total), total}) <= Min({PerTick(total + 1), total + 1})
<1> DEFINE up(t) == (t + Slices - 1) \div Slices
<1>1. \A a \in Nat, m \in Nat : m > 0 =>
        a \div m \in Nat /\ (a + 1) \div m \in Nat /\ a \div m <= (a + 1) \div m
  OBVIOUS
<1>2. total + Slices - 1 \in Nat /\ total + 1 + Slices - 1 = (total + Slices - 1) + 1
  BY SavingNumbers
<1>3. up(total) \in Nat /\ up(total + 1) \in Nat /\ up(total) <= up(total + 1)
  BY <1>1, <1>2, SavingNumbers
<1>4. PerTick(total) = Max({1, up(total)}) /\ PerTick(total + 1) = Max({1, up(total + 1)})
  BY DEF PerTick
<1> HIDE DEF up
<1>5. /\ PerTick(total) = IF 1 >= up(total) THEN 1 ELSE up(total)
      /\ PerTick(total + 1) = IF 1 >= up(total + 1) THEN 1 ELSE up(total + 1)
  BY <1>3, <1>4, GreatestOfTwo
<1>6. PerTick(total) \in Nat /\ PerTick(total + 1) \in Nat /\ PerTick(total) <= PerTick(total + 1)
  BY <1>3, <1>5
<1>7. /\ Min({PerTick(total), total}) = IF PerTick(total) <= total THEN PerTick(total) ELSE total
      /\ Min({PerTick(total + 1), total + 1})
           = IF PerTick(total + 1) <= total + 1 THEN PerTick(total + 1) ELSE total + 1
  BY <1>6, LeastOfTwo
<1> QED BY <1>6, <1>7

-------------------------------------------------------------------------------
(* Checkpoint: the distance of a place from the cursor. *)

\* What has waited no longer than it was delayed is reached in a pass.
LEMMA ReachedFresh ==
  ASSUME NEW total \in Nat, NEW n \in 1 .. total, Slices * n >= total,
         NEW c \in 0 .. total - 1, NEW p \in 0 .. total - 1, NEW lag \in Int, lag <= 0
  PROVE  Reached(total, n, c, p, lag)
<1>1. \A a \in Nat, b \in Nat, m \in Nat : m * (a + b) = m * a + m * b /\ m * b >= 0 /\ m * a \in Nat
  OBVIOUS
<1>2. PICK b \in Nat : Slices - lag = Slices + b
  <2>1. 0 - lag \in Nat /\ Slices - lag = Slices + (0 - lag) BY SavingNumbers
  <2> QED BY <2>1
<1>3. n * (Slices - lag) = n * Slices + n * b /\ n * b >= 0 /\ n * Slices \in Nat /\ n * b \in Int
  BY <1>1, <1>2, SavingNumbers
<1>4. n * Slices = Slices * n BY SavingNumbers
<1>5. n * (Slices - lag) >= total /\ n * (Slices - lag) \in Int BY <1>3, <1>4
<1> DEFINE due == n * (Slices - lag)
<1>6. due >= total /\ due \in Int BY <1>5
<1> HIDE DEF due
<1>7. (p >= c => p - c < due) /\ (p < c => p - c + total < due) /\ (p < c => lag < c - p)
  BY <1>6
<1> QED BY <1>7 DEF Reached, due

\* What will be reached in time is not late.
LEMMA ReachedInTime ==
  ASSUME NEW total \in Nat, NEW n \in 1 .. total, NEW c \in 0 .. total - 1,
         NEW p \in 0 .. total - 1, NEW lag \in Int, Reached(total, n, c, p, lag)
  PROVE  lag < Slices
<1>1. n * (Slices - lag) > 0
  <2> DEFINE due == n * (Slices - lag)
  <2>1. (p >= c => p - c < due) /\ (p < c => p - c + total < due) BY DEF Reached
  <2>2. due \in Int
    <3>1. \A a \in Int, b \in Nat : b * a \in Int OBVIOUS
    <3> QED BY <3>1, SavingNumbers
  <2> HIDE DEF due
  <2>3. due > 0 BY <2>1, <2>2
  <2> QED BY <2>3 DEF due
<1>2. \A a \in Int, b \in Nat : b >= 1 /\ b * a > 0 => a > 0 OBVIOUS
<1>3. Slices - lag > 0 /\ Slices - lag \in Int BY <1>1, <1>2, SavingNumbers
<1> QED BY <1>3, SavingNumbers

\* A slice of n that does not reach a place brings the cursor n nearer.
LEMMA ReachedAfterSlice ==
  ASSUME NEW total \in Nat, NEW n \in 1 .. total, NEW c \in 0 .. total - 1,
         NEW p \in 0 .. total - 1, NEW lag \in Int, Reached(total, n, c, p, lag),
         NEW d, d = (IF c + n < total THEN c + n ELSE c + n - total),
         \A i \in 0 .. n - 1 : c + i # p /\ c + i # p + total
  PROVE  Reached(total, n, d, p, lag + 1)
<1> DEFINE due == n * (Slices - lag)
           next == n * (Slices - (lag + 1))
<1>1. due \in Int /\ next = due - n
  <2>1. \A a \in Int, b \in Nat : b * a \in Int /\ b * (a - 1) = b * a - b OBVIOUS
  <2>2. Slices - lag \in Int /\ Slices - (lag + 1) = (Slices - lag) - 1 BY SavingNumbers
  <2> QED BY <2>1, <2>2
<1>2. /\ p >= c => p - c < due
      /\ p < c => p - c + total < due
      /\ p < c /\ n = 1 => lag < c - p
  BY DEF Reached
<1> HIDE DEF due, next
<1>3. p >= c => p >= c + n
  <2> SUFFICES ASSUME p >= c, p < c + n PROVE FALSE OBVIOUS
  <2>1. p - c \in 0 .. n - 1 /\ c + (p - c) = p OBVIOUS
  <2> QED BY <2>1
<1>4. p < c => p + total >= c + n
  <2> SUFFICES ASSUME p < c, p + total < c + n PROVE FALSE OBVIOUS
  <2>1. p + total - c \in 0 .. n - 1 /\ c + (p + total - c) = p + total OBVIOUS
  <2> QED BY <2>1
<1>5. /\ p >= d => p - d < next
      /\ p < d => p - d + total < next
  <2>1. CASE p >= c BY <1>1, <1>2, <1>3, <2>1
  <2>2. CASE p < c BY <1>1, <1>2, <1>4, <2>2
  <2> QED BY <2>1, <2>2
<1>6. p < d /\ n = 1 => lag + 1 < d - p BY <1>2, <1>3, <1>4
<1> QED BY <1>5, <1>6 DEF Reached, next

\* A queue that opens delays the others by at most a tick.
LEMMA ReachedAfterOpen ==
  ASSUME NEW total \in Nat, NEW n \in 1 .. total, NEW m \in n .. total + 1,
         Slices * m >= total + 1,
         NEW c \in 0 .. total - 1, NEW p \in 0 .. total - 1, NEW lag \in Int,
         Reached(total, n, c, p, lag), NEW r \in {p, p + 1}
  PROVE  Reached(total + 1, m, c, r, lag - 1)
<1> DEFINE left == Slices - lag
           due == n * left
           next == m * (left + 1)
<1>1. left \in Int /\ left >= 1
  <2>1. lag < Slices BY ReachedInTime
  <2> QED BY <2>1, SavingNumbers
<1>2. next = m * (Slices - (lag - 1))
  <2>1. left + 1 = Slices - (lag - 1) BY SavingNumbers
  <2> QED BY <2>1
<1>3. /\ p >= c => p - c < due
      /\ p < c => p - c + total < due
      /\ p < c /\ n = 1 => lag < c - p
  BY DEF Reached
<1> HIDE DEF left
<1>4. due \in Int /\ next \in Int /\ next >= due + n
  <2>1. \A a \in Nat, x \in Nat, y \in Nat :
          a * x \in Int /\ (a + y) * (x + 1) = a * x + a + y * (x + 1) /\ y * (x + 1) >= 0
    OBVIOUS
  <2>2. left \in Nat /\ m - n \in Nat /\ n + (m - n) = m BY <1>1
  <2>3. n * left \in Int /\ (n + (m - n)) * (left + 1) = n * left + n + (m - n) * (left + 1)
        /\ (m - n) * (left + 1) >= 0
    BY <2>1, <2>2
  <2>4. \A a \in Nat, x \in Nat : a * (x + 1) \in Int OBVIOUS
  <2>5. (m - n) * (left + 1) \in Int /\ next \in Int BY <2>2, <2>4
  <2> QED BY <2>2, <2>3, <2>5
<1>5. n = 1 => due = left BY <1>1
<1>6. m = 1 => next = left + 1 BY <1>1
<1>7. m >= 2 => next >= 2 * (left + 1)
  <2>1. \A a \in Nat, x \in Nat : a >= 2 => a * (x + 1) >= 2 * (x + 1) OBVIOUS
  <2> QED BY <1>1, <2>1
<1>8. m = 1 => Slices >= total + 1
  <2>1. m = 1 => Slices * m = Slices BY SavingNumbers
  <2> QED BY <2>1
<1> HIDE DEF due, next
<1>9. CASE p >= c
  <2>1. r >= c /\ r - c <= p - c + 1 BY <1>9
  <2>2. r - c < next BY <1>3, <1>4, <1>9, <2>1
  <2> QED BY <1>2, <2>1, <2>2 DEF Reached, next
<1>10. CASE p < c
  <2>1. r >= c => r - c = 0 BY <1>10
  <2>2. next > 0 BY <1>1, <1>3, <1>4, <1>10
  <2>3. r < c => r - c + (total + 1) < next
    <3>1. CASE n >= 2 BY <1>3, <1>4, <1>10, <3>1
    <3>2. CASE n = 1 /\ m >= 2
      <4>1. p - c + total < left BY <1>3, <1>5, <1>10, <3>2
      <4> QED BY <1>1, <1>4, <1>7, <1>10, <3>2, <4>1
    <3>3. CASE n = 1 /\ m = 1
      <4>1. lag < c - p /\ Slices >= total + 1 BY <1>3, <1>8, <1>10, <3>3
      <4>2. next = Slices - lag + 1 BY <1>6, <3>3 DEF left
      <4> QED BY <1>10, <4>1, <4>2, SavingNumbers
    <3> QED BY <3>1, <3>2, <3>3
  <2>4. r < c /\ m = 1 => lag - 1 < c - r BY <1>3, <1>10
  <2> QED BY <1>2, <2>1, <2>2, <2>3, <2>4 DEF Reached, next
<1> QED BY <1>9, <1>10

-------------------------------------------------------------------------------
(* Checkpoint: places of the list. *)

\* Every queue of t but q is where it was in s, or one place on.
OnePlaceOn(s, t, q) ==
  \A r \in 0 .. Len(s) :
    \/ t[r + 1] = q
    \/ \E p \in 0 .. Len(s) - 1 : t[r + 1] = s[p + 1] /\ r \in {p, p + 1}

\* Every queue of t is one of s.
LeftOf(s, t) == \A r \in 0 .. Len(t) - 1 : \E p \in 0 .. Len(s) - 1 : t[r + 1] = s[p + 1]

LEMMA Inserted ==
  ASSUME NEW s \in Seq(Queue), NEW i \in 1 .. Len(s) + 1, NEW q \in Queue,
         NEW t, t = InsertAt(s, i, q)
  PROVE  t \in Seq(Queue) /\ Len(t) = Len(s) + 1 /\ OnePlaceOn(s, t, q)
<1> DEFINE before == SubSeq(s, 1, i - 1)
           after == SubSeq(s, i, Len(s))
           upTo == before \o <<q>>
<1>1. Len(s) \in Nat /\ \A j \in 1 .. Len(s) : s[j] \in Queue BY LenProperties, ElementOfSeq
<1>2. /\ before \in Seq(Queue) /\ Len(before) = i - 1
      /\ \A j \in 1 .. i - 1 : before[j] = s[j]
  <2>1. 1 \in Int /\ i - 1 \in Int /\ \A j \in 1 .. i - 1 : s[j] \in Queue BY <1>1
  <2>2. /\ before \in Seq(Queue) /\ Len(before) = IF 1 <= i - 1 THEN i - 1 - 1 + 1 ELSE 0
        /\ \A j \in 1 .. i - 1 - 1 + 1 : before[j] = s[1 + j - 1]
    BY <2>1, SubSeqProperties
  <2> HIDE DEF before
  <2>3. \A j \in 1 .. i - 1 : j \in 1 .. i - 1 - 1 + 1 /\ 1 + j - 1 = j BY <1>1
  <2> QED BY <1>1, <2>2, <2>3
<1>3. /\ after \in Seq(Queue) /\ Len(after) = Len(s) - i + 1
      /\ \A j \in 1 .. Len(s) - i + 1 : after[j] = s[i + j - 1]
  <2>1. i \in Int /\ Len(s) \in Int /\ \A j \in i .. Len(s) : s[j] \in Queue BY <1>1
  <2>2. /\ after \in Seq(Queue) /\ Len(after) = IF i <= Len(s) THEN Len(s) - i + 1 ELSE 0
        /\ \A j \in 1 .. Len(s) - i + 1 : after[j] = s[i + j - 1]
    BY <2>1, SubSeqProperties
  <2> QED BY <1>1, <2>2
<1> HIDE DEF before, after
<1>4. <<q>> \in Seq(Queue) /\ Len(<<q>>) = 1 /\ <<q>>[1] = q OBVIOUS
<1>5. /\ upTo \in Seq(Queue) /\ Len(upTo) = i
      /\ \A j \in 1 .. i : upTo[j] = IF j <= i - 1 THEN s[j] ELSE q
  <2>1. /\ upTo \in Seq(Queue) /\ Len(upTo) = Len(before) + 1
        /\ \A j \in 1 .. Len(before) + 1 :
             upTo[j] = IF j <= Len(before) THEN before[j] ELSE <<q>>[j - Len(before)]
    BY <1>2, <1>4, ConcatProperties
  <2> HIDE DEF upTo
  <2>2. Len(upTo) = i BY <1>1, <1>2, <2>1
  <2>3. ASSUME NEW j \in 1 .. i PROVE upTo[j] = IF j <= i - 1 THEN s[j] ELSE q
    <3>1. upTo[j] = IF j <= i - 1 THEN before[j] ELSE <<q>>[j - (i - 1)]
      BY <1>1, <1>2, <2>1
    <3>2. j <= i - 1 => before[j] = s[j] BY <1>1, <1>2
    <3>3. ~ (j <= i - 1) => j - (i - 1) = 1 BY <1>1
    <3> QED BY <1>4, <3>1, <3>2, <3>3
  <2> QED BY <2>1, <2>2, <2>3
<1> HIDE DEF upTo
<1>6. t = upTo \o after BY DEF InsertAt, upTo, before, after
<1>7. /\ t \in Seq(Queue) /\ Len(t) = Len(s) + 1
      /\ \A j \in 1 .. Len(s) + 1 : t[j] = IF j <= i THEN upTo[j] ELSE after[j - i]
  <2>1. /\ t \in Seq(Queue) /\ Len(t) = Len(upTo) + Len(after)
        /\ \A j \in 1 .. Len(upTo) + Len(after) :
             t[j] = IF j <= Len(upTo) THEN upTo[j] ELSE after[j - Len(upTo)]
    <3>1. upTo \in Seq(Queue) /\ after \in Seq(Queue) BY <1>3, <1>5
    <3>2. /\ upTo \o after \in Seq(Queue) /\ Len(upTo \o after) = Len(upTo) + Len(after)
          /\ \A j \in 1 .. Len(upTo) + Len(after) :
               (upTo \o after)[j] = IF j <= Len(upTo) THEN upTo[j] ELSE after[j - Len(upTo)]
      BY <3>1, ConcatProperties
    <3> QED BY <1>6, <3>2
  <2>2. Len(upTo) + Len(after) = Len(s) + 1 BY <1>1, <1>3, <1>5
  <2> QED BY <1>5, <2>1, <2>2
<1>8. ASSUME NEW r \in 0 .. Len(s)
      PROVE  \/ t[r + 1] = q
             \/ \E p \in 0 .. Len(s) - 1 : t[r + 1] = s[p + 1] /\ r \in {p, p + 1}
  <2>1. r + 1 \in 1 .. Len(s) + 1 BY <1>1
  <2>2. CASE r + 1 <= i - 1
    <3>1. r + 1 <= i /\ r + 1 \in 1 .. i BY <1>1, <2>2
    <3>2. t[r + 1] = s[r + 1] BY <1>5, <1>7, <2>1, <2>2, <3>1
    <3>3. r \in 0 .. Len(s) - 1 BY <1>1, <2>2
    <3> QED BY <3>2, <3>3
  <2>3. CASE r + 1 = i
    <3>1. i <= i /\ ~ (i <= i - 1) /\ i \in 1 .. i BY <1>1
    <3> QED BY <1>5, <1>7, <2>1, <2>3, <3>1
  <2>4. CASE r + 1 > i
    <3>1. ~ (r + 1 <= i) /\ r + 1 - i \in 1 .. Len(s) - i + 1 /\ i + (r + 1 - i) - 1 = r
      BY <1>1, <2>4
    <3>2. t[r + 1] = after[r + 1 - i] BY <1>7, <2>1, <3>1
    <3>3. after[r + 1 - i] = s[i + (r + 1 - i) - 1] BY <1>3, <3>1
    <3>4. t[r + 1] = s[r] BY <3>1, <3>2, <3>3
    <3>5. r - 1 \in 0 .. Len(s) - 1 /\ (r - 1) + 1 = r BY <1>1, <2>4
    <3>6. t[r + 1] = s[(r - 1) + 1] /\ r \in {r - 1, (r - 1) + 1} BY <3>4, <3>5
    <3> QED BY <3>5, <3>6
  <2> QED BY <1>1, <2>2, <2>3, <2>4
<1> QED BY <1>7, <1>8 DEF OnePlaceOn

LEMMA Removed ==
  ASSUME NEW s \in Seq(Queue), NEW i \in DOMAIN s, NEW t, t = RemoveAt(s, i)
  PROVE  t \in Seq(Queue) /\ Len(t) = Len(s) - 1 /\ LeftOf(s, t)
<1> DEFINE before == SubSeq(s, 1, i - 1)
           after == SubSeq(s, i + 1, Len(s))
<1>1. /\ Len(s) \in Nat /\ \A j \in 1 .. Len(s) : s[j] \in Queue
      /\ i \in 1 .. Len(s)
  BY LenProperties, ElementOfSeq
<1>2. /\ before \in Seq(Queue) /\ Len(before) = i - 1
      /\ \A j \in 1 .. i - 1 : before[j] = s[j]
  <2>1. 1 \in Int /\ i - 1 \in Int /\ \A j \in 1 .. i - 1 : s[j] \in Queue BY <1>1
  <2>2. /\ before \in Seq(Queue) /\ Len(before) = IF 1 <= i - 1 THEN i - 1 - 1 + 1 ELSE 0
        /\ \A j \in 1 .. i - 1 - 1 + 1 : before[j] = s[1 + j - 1]
    BY <2>1, SubSeqProperties
  <2> HIDE DEF before
  <2>3. \A j \in 1 .. i - 1 : j \in 1 .. i - 1 - 1 + 1 /\ 1 + j - 1 = j BY <1>1
  <2> QED BY <1>1, <2>2, <2>3
<1>3. /\ after \in Seq(Queue) /\ Len(after) = Len(s) - i
      /\ \A j \in 1 .. Len(s) - i : after[j] = s[i + j]
  <2>1. i + 1 \in Int /\ Len(s) \in Int /\ \A j \in i + 1 .. Len(s) : s[j] \in Queue BY <1>1
  <2>2. /\ after \in Seq(Queue)
        /\ Len(after) = IF i + 1 <= Len(s) THEN Len(s) - (i + 1) + 1 ELSE 0
        /\ \A j \in 1 .. Len(s) - (i + 1) + 1 : after[j] = s[(i + 1) + j - 1]
    BY <2>1, SubSeqProperties
  <2> HIDE DEF after
  <2>3. \A j \in 1 .. Len(s) - i : j \in 1 .. Len(s) - (i + 1) + 1 /\ (i + 1) + j - 1 = i + j
    BY <1>1
  <2> QED BY <1>1, <2>2, <2>3
<1> HIDE DEF before, after
<1>4. t = before \o after BY DEF RemoveAt, before, after
<1>5. /\ t \in Seq(Queue) /\ Len(t) = Len(s) - 1
      /\ \A j \in 1 .. Len(s) - 1 : t[j] = IF j <= i - 1 THEN before[j] ELSE after[j - (i - 1)]
  <2>1. /\ t \in Seq(Queue) /\ Len(t) = Len(before) + Len(after)
        /\ \A j \in 1 .. Len(before) + Len(after) :
             t[j] = IF j <= Len(before) THEN before[j] ELSE after[j - Len(before)]
    <3>1. before \in Seq(Queue) /\ after \in Seq(Queue) BY <1>2, <1>3
    <3>2. /\ before \o after \in Seq(Queue)
          /\ Len(before \o after) = Len(before) + Len(after)
          /\ \A j \in 1 .. Len(before) + Len(after) :
               (before \o after)[j] = IF j <= Len(before) THEN before[j]
                                      ELSE after[j - Len(before)]
      BY <3>1, ConcatProperties
    <3> QED BY <1>4, <3>2
  <2>2. Len(before) + Len(after) = Len(s) - 1 BY <1>1, <1>2, <1>3
  <2> QED BY <1>2, <2>1, <2>2
<1>6. ASSUME NEW r \in 0 .. Len(t) - 1 PROVE \E p \in 0 .. Len(s) - 1 : t[r + 1] = s[p + 1]
  <2>1. r + 1 \in 1 .. Len(s) - 1 BY <1>1, <1>5
  <2>2. CASE r + 1 <= i - 1
    <3>1. t[r + 1] = s[r + 1] BY <1>1, <1>2, <1>5, <2>1, <2>2
    <3>2. r \in 0 .. Len(s) - 1 BY <1>1, <2>1
    <3> QED BY <3>1, <3>2
  <2>3. CASE ~ (r + 1 <= i - 1)
    <3>1. r + 1 - (i - 1) \in 1 .. Len(s) - i /\ i + (r + 1 - (i - 1)) = (r + 1) + 1
      BY <1>1, <2>1, <2>3
    <3>2. t[r + 1] = after[r + 1 - (i - 1)] BY <1>5, <2>1, <2>3
    <3>3. after[r + 1 - (i - 1)] = s[i + (r + 1 - (i - 1))] BY <1>3, <3>1
    <3>4. t[r + 1] = s[(r + 1) + 1] BY <3>1, <3>2, <3>3
    <3>5. r + 1 \in 0 .. Len(s) - 1 BY <1>1, <2>1
    <3> QED BY <3>4, <3>5
  <2> QED BY <2>2, <2>3
<1> QED BY <1>5, <1>6 DEF LeftOf

-------------------------------------------------------------------------------
(* Checkpoint: steps. *)

LEMMA AgedIs ==
  ASSUME SavingTypes, NEW saved
  PROVE  /\ Aged(saved) \in [Queue -> Nat]
         /\ \A q \in Queue : /\ Aged(saved)[q] <= age[q] + 1
                             /\ q \in saved => Aged(saved)[q] = 0
                             /\ q \in Savable \ saved => Aged(saved)[q] = age[q] + 1
<1>1. age \in [Queue -> Nat] BY DEF SavingTypes
<1>2. \A q \in Queue : Aged(saved)[q] = IF q \in Savable \ saved THEN age[q] + 1 ELSE 0
  BY DEF Aged
<1>3. \A q \in Queue : age[q] \in Nat /\ 0 <= age[q] + 1 BY <1>1
<1>4. Aged(saved) \in [Queue -> Nat] BY <1>3 DEF Aged
<1> QED BY <1>2, <1>3, <1>4

LEMMA DelayedIs ==
  ASSUME SavingTypes, NEW saved, NEW by \in Nat, Delayed(by, saved)
  PROVE  /\ delays' \in [Queue -> Nat]
         /\ \A q \in Queue : /\ q \in Savable \ saved => delays'[q] = delays[q] + by
                             /\ q \notin Savable \ saved => delays'[q] = 0
<1>1. delays \in [Queue -> Nat] BY DEF SavingTypes
<1>2. delays' = [q \in Queue |-> IF q \in Savable \ saved THEN delays[q] + by ELSE 0]
  BY DEF Delayed
<1>3. \A q \in Queue : delays[q] + by \in Nat BY <1>1
<1> QED BY <1>2, <1>3

\* The queue of a place, and what it has waited.
LEMMA SavedPlaceIs ==
  ASSUME SavingTypes, NEW p \in 0 .. Len(queues) - 1
  PROVE  /\ queues[p + 1] \in Queue /\ queues[p + 1] \in Savable
         /\ age[queues[p + 1]] \in Nat /\ delays[queues[p + 1]] \in Nat
         /\ Lag(queues[p + 1]) \in Int
<1>1. queues \in Seq(Queue) /\ age \in [Queue -> Nat] /\ delays \in [Queue -> Nat]
  BY DEF SavingTypes
<1>2. Len(queues) \in Nat /\ DOMAIN queues = 1 .. Len(queues) BY <1>1, LenProperties
<1>3. p + 1 \in 1 .. Len(queues) BY <1>2
<1>4. queues[p + 1] \in Queue BY <1>1, <1>3, ElementOfSeq
<1>5. queues[p + 1] \in Savable BY <1>2, <1>3 DEF Savable, Range
<1>6. age[queues[p + 1]] \in Nat /\ delays[queues[p + 1]] \in Nat BY <1>1, <1>4
<1> QED BY <1>4, <1>5, <1>6 DEF Lag

\* No queue has waited as long as a pass and what delayed it.
LEMMA LagBounded ==
  ASSUME SavingInv, NEW p \in 0 .. Len(queues) - 1
  PROVE  Lag(queues[p + 1]) < Slices
<1>1. SavingTypes /\ queues \in Seq(Queue) /\ cursor \in Nat BY DEF SavingInv, SavingTypes
<1>2. Len(queues) \in Nat /\ Len(queues) > 0 BY <1>1, LenProperties
<1>3. SliceSize \in 1 .. Len(queues) BY <1>2, SliceSizeIs DEF SliceSize
<1>4. SweepStart \in 0 .. Len(queues) - 1 BY <1>1, <1>2, WrapsOnce DEF SweepStart
<1>5. Lag(queues[p + 1]) \in Int BY <1>1, SavedPlaceIs
<1>6. Reached(Len(queues), SliceSize, SweepStart, p, Lag(queues[p + 1]))
  BY DEF SavingInv, AllReached
<1> QED BY <1>2, <1>3, <1>4, <1>5, <1>6, ReachedInTime

\* Where no queue has waited longer than it was delayed, all are reached in time.
LEMMA FreshReached ==
  ASSUME SavingTypes',
         \A p \in 0 .. Len(queues') - 1 : age'[queues'[p + 1]] - delays'[queues'[p + 1]] <= 0
  PROVE  AllReached' /\ PastTheEnd'
<1>1. /\ queues' \in Seq(Queue) /\ cursor' \in Nat
      /\ age' \in [Queue -> Nat] /\ delays' \in [Queue -> Nat]
  BY DEF SavingTypes
<1>2. Len(queues') \in Nat BY <1>1, LenProperties
<1> DEFINE lag(p) == age'[queues'[p + 1]] - delays'[queues'[p + 1]]
           n == Min({PerTick(Len(queues')), Len(queues')})
           c == cursor' % Len(queues')
<1>3. ASSUME NEW p \in 0 .. Len(queues') - 1
      PROVE  Reached(Len(queues'), n, c, p, lag(p))
  <2>1. Len(queues') > 0 BY <1>2
  <2>2. n \in 1 .. Len(queues') /\ Slices * n >= Len(queues') BY <1>2, <2>1, SliceSizeIs
  <2>3. c \in 0 .. Len(queues') - 1 BY <1>1, <1>2, <2>1, WrapsOnce
  <2>4. p + 1 \in 1 .. Len(queues') BY <1>2
  <2>5. queues'[p + 1] \in Queue BY <1>1, <2>4, ElementOfSeq
  <2>6. lag(p) \in Int /\ lag(p) <= 0 BY <1>1, <2>5
  <2> HIDE DEF n, c, lag
  <2> QED BY <1>2, <2>2, <2>3, <2>6, ReachedFresh
<1>4. AllReached' BY <1>3 DEF AllReached, SliceSize, SweepStart, Lag
<1>5. PastTheEnd' BY DEF PastTheEnd, Lag
<1> QED BY <1>4, <1>5

\* A step that disturbs the sweep leaves nothing to say of quiet ticks.
LEMMA DisturbedInv ==
  ASSUME SavingTypes', quiet' = 0, AllReached', PastTheEnd'
  PROVE  SavingInv'
<1>1. 1 .. quiet' = {} OBVIOUS
<1>2. Swept' BY <1>1 DEF Swept
<1> QED BY <1>2 DEF SavingInv

LEMMA OpenQueueInv ==
  ASSUME SavingInv, NEW q \in Queue, OpenQueue(q)
  PROVE  SavingInv'
<1> DEFINE total == Len(queues)
           lag(x) == age'[x] - delays'[x]
<1>1. /\ SavingTypes /\ queues \in Seq(Queue) /\ cursor \in Nat
      /\ age \in [Queue -> Nat] /\ delays \in [Queue -> Nat] /\ 0 \in 0 .. Slices
  BY SavingNumbers DEF SavingInv, SavingTypes
<1>2. /\ q \notin Savable /\ Delayed(1, {}) /\ cursor' = cursor
      /\ age' = [age EXCEPT ![q] = 0] /\ quiet' = 0
  BY DEF OpenQueue
<1>3. PICK i \in 1 .. Len(queues) + 1 : queues' = InsertAt(queues, i, q) BY DEF OpenQueue
<1>4. /\ queues' \in Seq(Queue) /\ Len(queues') = total + 1
      /\ \A r \in 0 .. total :
           \/ queues'[r + 1] = q
           \/ \E p \in 0 .. total - 1 : queues'[r + 1] = queues[p + 1] /\ r \in {p, p + 1}
  <2>1. queues' \in Seq(Queue) /\ Len(queues') = Len(queues) + 1 /\ OnePlaceOn(queues, queues', q)
    BY <1>1, <1>3, Inserted
  <2> QED BY <2>1 DEF OnePlaceOn
<1>5. /\ delays' \in [Queue -> Nat]
      /\ \A x \in Queue : /\ x \in Savable \ {} => delays'[x] = delays[x] + 1
                          /\ x \notin Savable \ {} => delays'[x] = 0
  BY <1>1, <1>2, DelayedIs
<1>6. age' \in [Queue -> Nat] BY <1>1, <1>2
<1>7. SavingTypes' BY <1>1, <1>2, <1>4, <1>5, <1>6 DEF SavingTypes
<1>8. lag(q) = 0
  <2>1. age'[q] = 0 /\ delays'[q] = 0 BY <1>1, <1>2, <1>5
  <2> QED BY <2>1
<1>9. ASSUME NEW p \in 0 .. total - 1
      PROVE  lag(queues[p + 1]) = Lag(queues[p + 1]) - 1 /\ Lag(queues[p + 1]) \in Int
  <2>1. /\ queues[p + 1] \in Queue /\ queues[p + 1] \in Savable
        /\ age[queues[p + 1]] \in Nat /\ delays[queues[p + 1]] \in Nat
    BY <1>1, SavedPlaceIs
  <2>2. queues[p + 1] # q BY <1>2, <2>1
  <2>3. age'[queues[p + 1]] = age[queues[p + 1]] BY <1>1, <1>2, <2>1, <2>2
  <2>4. delays'[queues[p + 1]] = delays[queues[p + 1]] + 1 BY <1>5, <2>1
  <2> QED BY <2>1, <2>3, <2>4 DEF Lag
<1>10. total \in Nat BY <1>1, LenProperties
<1>11. CASE cursor >= total
  <2>1. ASSUME NEW r \in 0 .. Len(queues') - 1 PROVE lag(queues'[r + 1]) <= 0
    <3>1. r \in 0 .. total BY <1>4, <1>10
    <3>2. CASE queues'[r + 1] = q BY <1>8, <3>2
    <3>3. CASE \E p \in 0 .. total - 1 : queues'[r + 1] = queues[p + 1]
      <4>1. PICK p \in 0 .. total - 1 : queues'[r + 1] = queues[p + 1] BY <3>3
      <4>2. Lag(queues[p + 1]) <= 0 BY <1>11 DEF SavingInv, PastTheEnd
      <4>3. lag(queues[p + 1]) <= 0 BY <1>9, <4>2
      <4> QED BY <4>1, <4>3
    <3> QED BY <1>4, <3>1, <3>2, <3>3
  <2>2. AllReached' /\ PastTheEnd' BY <1>7, <2>1, FreshReached
  <2> QED BY <1>2, <1>7, <2>2, DisturbedInv
<1>12. CASE cursor < total
  <2> DEFINE n == Min({PerTick(total), total})
             m == Min({PerTick(total + 1), total + 1})
  <2>1. /\ total > 0 /\ n \in 1 .. total /\ m \in n .. total + 1 /\ m \in 1 .. total + 1
        /\ Slices * m >= total + 1
    <3>1. total > 0 /\ total + 1 \in Nat /\ total + 1 > 0 BY <1>1, <1>10, <1>12
    <3>2. n \in 1 .. total BY <1>10, <3>1, SliceSizeIs
    <3>3. m \in 1 .. total + 1 /\ Slices * m >= total + 1 BY <3>1, SliceSizeIs
    <3>4. n <= m BY <1>10, <3>1, SliceSizeGrows
    <3> HIDE DEF n, m, total
    <3> QED BY <1>10, <3>1, <3>2, <3>3, <3>4
  <2>2. cursor \in 0 .. total - 1 /\ cursor \in 0 .. total BY <1>1, <1>10, <1>12
  <2>3. cursor % total = cursor /\ cursor % (total + 1) = cursor
    <3>1. total > 0 /\ total + 1 \in Nat /\ total + 1 > 0 /\ cursor < total + 1
      BY <1>1, <1>10, <1>12
    <3> HIDE DEF total
    <3> QED BY <1>1, <1>10, <1>12, <3>1, WrapsOnce
  <2>4. SliceSize' = m /\ SweepStart' = cursor
    <3>1. SliceSize' = Min({PerTick(Len(queues')), Len(queues')}) BY DEF SliceSize
    <3>2. SweepStart' = cursor' % Len(queues') BY DEF SweepStart
    <3> QED BY <1>2, <1>4, <2>3, <3>1, <3>2
  <2> HIDE DEF n, m, total
  <2>5. ASSUME NEW r \in 0 .. total PROVE Reached(total + 1, m, cursor, r, lag(queues'[r + 1]))
    <3>1. CASE queues'[r + 1] = q
      <4>1. lag(q) \in Int /\ lag(q) <= 0 BY <1>8
      <4>2. total + 1 \in Nat /\ cursor \in 0 .. (total + 1) - 1 /\ r \in 0 .. (total + 1) - 1
        BY <1>10, <2>2
      <4> HIDE DEF lag
      <4>3. Reached(total + 1, m, cursor, r, lag(q)) BY <2>1, <4>1, <4>2, ReachedFresh
      <4> QED BY <3>1, <4>3
    <3>2. CASE \E p \in 0 .. total - 1 : queues'[r + 1] = queues[p + 1] /\ r \in {p, p + 1}
      <4>1. PICK p \in 0 .. total - 1 : queues'[r + 1] = queues[p + 1] /\ r \in {p, p + 1}
        BY <3>2
      <4>2. Reached(total, n, cursor, p, Lag(queues[p + 1]))
        BY <2>3 DEF SavingInv, AllReached, SliceSize, SweepStart, n, total
      <4>3. Lag(queues[p + 1]) \in Int /\ lag(queues[p + 1]) = Lag(queues[p + 1]) - 1 BY <1>9
      <4> HIDE DEF lag
      <4>4. Reached(total + 1, m, cursor, r, Lag(queues[p + 1]) - 1)
        BY <1>10, <2>1, <2>2, <4>1, <4>2, <4>3, ReachedAfterOpen
      <4> QED BY <4>1, <4>3, <4>4
    <3> QED BY <1>4, <3>1, <3>2
  <2>6. AllReached'
    <3>1. Len(queues') - 1 = total BY <1>4, <1>10
    <3> QED BY <1>4, <2>4, <2>5, <3>1 DEF AllReached, Lag
  <2>7. PastTheEnd' BY <1>2, <1>4, <1>10, <2>2 DEF PastTheEnd
  <2> QED BY <1>2, <1>7, <2>6, <2>7, DisturbedInv
<1> QED BY <1>1, <1>10, <1>11, <1>12

LEMMA DropQueueInv ==
  ASSUME SavingInv, NEW q \in Queue, DropQueue(q)
  PROVE  SavingInv'
<1>1. /\ SavingTypes /\ queues \in Seq(Queue) /\ cursor \in Nat
      /\ age \in [Queue -> Nat] /\ delays \in [Queue -> Nat] /\ 0 \in 0 .. Slices
  BY SavingNumbers DEF SavingInv, SavingTypes
<1>2. /\ Delayed(Slices - 1, {q}) /\ cursor' = cursor
      /\ age' = [age EXCEPT ![q] = 0] /\ quiet' = 0
  BY DEF DropQueue
<1>3. PICK i \in DOMAIN queues : queues' = RemoveAt(queues, i) BY DEF DropQueue
<1>4. /\ queues' \in Seq(Queue)
      /\ \A r \in 0 .. Len(queues') - 1 :
           \E p \in 0 .. Len(queues) - 1 : queues'[r + 1] = queues[p + 1]
  <2>1. queues' \in Seq(Queue) /\ LeftOf(queues, queues') BY <1>1, <1>3, Removed
  <2> QED BY <2>1 DEF LeftOf
<1>5. /\ delays' \in [Queue -> Nat]
      /\ \A x \in Queue : /\ x \in Savable \ {q} => delays'[x] = delays[x] + (Slices - 1)
                          /\ x \notin Savable \ {q} => delays'[x] = 0
  <2>1. Slices - 1 \in Nat BY SavingNumbers
  <2> QED BY <1>1, <1>2, <2>1, DelayedIs
<1>6. age' \in [Queue -> Nat] BY <1>1, <1>2
<1>7. SavingTypes' BY <1>1, <1>2, <1>4, <1>5, <1>6 DEF SavingTypes
<1>8. ASSUME NEW r \in 0 .. Len(queues') - 1
      PROVE  age'[queues'[r + 1]] - delays'[queues'[r + 1]] <= 0
  <2>1. PICK p \in 0 .. Len(queues) - 1 : queues'[r + 1] = queues[p + 1] BY <1>4
  <2>2. /\ queues[p + 1] \in Queue /\ queues[p + 1] \in Savable
        /\ age[queues[p + 1]] \in Nat /\ delays[queues[p + 1]] \in Nat
    BY <1>1, SavedPlaceIs
  <2>3. CASE queues[p + 1] = q
    <3>1. age'[q] = 0 /\ delays'[q] = 0 BY <1>1, <1>2, <1>5
    <3> QED BY <2>1, <2>3, <3>1
  <2>4. CASE queues[p + 1] # q
    <3>1. age'[queues[p + 1]] = age[queues[p + 1]] BY <1>1, <1>2, <2>2, <2>4
    <3>2. delays'[queues[p + 1]] = delays[queues[p + 1]] + (Slices - 1) BY <1>5, <2>2, <2>4
    <3>3. age[queues[p + 1]] - delays[queues[p + 1]] < Slices BY LagBounded DEF Lag
    <3>4. age[queues[p + 1]] - (delays[queues[p + 1]] + (Slices - 1)) <= 0
      BY <2>2, <3>3, SavingNumbers
    <3> QED BY <2>1, <3>1, <3>2, <3>4
  <2> QED BY <2>3, <2>4
<1>9. AllReached' /\ PastTheEnd' BY <1>7, <1>8, FreshReached
<1> QED BY <1>2, <1>7, <1>9, DisturbedInv

\* A tick that fails leaves what it did not save a tick older and a tick delayed.
LEMMA FailsInv ==
  ASSUME SavingInv, SaveSliceFails
  PROVE  SavingInv'
<1> DEFINE total == Len(queues)
           lag(x) == age'[x] - delays'[x]
<1>1. /\ SavingTypes /\ queues \in Seq(Queue) /\ cursor \in Nat
      /\ age \in [Queue -> Nat] /\ delays \in [Queue -> Nat] /\ 0 \in 0 .. Slices
  BY SavingNumbers DEF SavingInv, SavingTypes
<1>2. queues' = queues /\ cursor' = cursor /\ quiet' = 0 BY DEF SaveSliceFails
<1>3. PICK k \in 0 .. Min({PerTick(Len(queues)), Len(queues)}) - 1 :
        age' = Aged(Slice(k)) /\ Delayed(1, Slice(k))
  BY DEF SaveSliceFails
<1>4. /\ age' \in [Queue -> Nat]
      /\ \A x \in Queue : /\ x \in Slice(k) => age'[x] = 0
                          /\ x \in Savable \ Slice(k) => age'[x] = age[x] + 1
  BY <1>1, <1>3, AgedIs
<1>5. /\ delays' \in [Queue -> Nat]
      /\ \A x \in Queue : /\ x \in Savable \ Slice(k) => delays'[x] = delays[x] + 1
                          /\ x \notin Savable \ Slice(k) => delays'[x] = 0
  BY <1>1, <1>3, DelayedIs
<1>6. SavingTypes' BY <1>1, <1>2, <1>4, <1>5 DEF SavingTypes
<1>7. ASSUME NEW p \in 0 .. total - 1
      PROVE  /\ Lag(queues[p + 1]) \in Int
             /\ lag(queues[p + 1]) = Lag(queues[p + 1]) \/ lag(queues[p + 1]) = 0
  <2>1. /\ queues[p + 1] \in Queue /\ queues[p + 1] \in Savable /\ Lag(queues[p + 1]) \in Int
        /\ age[queues[p + 1]] \in Nat /\ delays[queues[p + 1]] \in Nat
    BY <1>1, SavedPlaceIs
  <2>2. CASE queues[p + 1] \in Slice(k)
    <3>1. age'[queues[p + 1]] = 0 /\ delays'[queues[p + 1]] = 0 BY <1>4, <1>5, <2>1, <2>2
    <3> QED BY <2>1, <3>1
  <2>3. CASE queues[p + 1] \notin Slice(k)
    <3>1. /\ age'[queues[p + 1]] = age[queues[p + 1]] + 1
          /\ delays'[queues[p + 1]] = delays[queues[p + 1]] + 1
      BY <1>4, <1>5, <2>1, <2>3
    <3>2. lag(queues[p + 1]) = Lag(queues[p + 1]) BY SMTT(30), <2>1, <3>1 DEF Lag
    <3> QED BY <2>1, <3>2
  <2> QED BY <2>2, <2>3
<1>8. total \in Nat BY <1>1, LenProperties
<1>9. AllReached'
  <2> DEFINE n == SliceSize
             c == SweepStart
  <2>1. ASSUME NEW p \in 0 .. total - 1 PROVE Reached(total, n, c, p, lag(queues[p + 1]))
    <3>1. total > 0 BY <1>8
    <3>2. n \in 1 .. total /\ Slices * n >= total BY <1>8, <3>1, SliceSizeIs DEF SliceSize
    <3>3. c \in 0 .. total - 1 BY <1>1, <1>8, <3>1, WrapsOnce DEF SweepStart
    <3>4. Reached(total, n, c, p, Lag(queues[p + 1])) BY DEF SavingInv, AllReached
    <3> HIDE DEF n, c, lag, total
    <3>5. CASE lag(queues[p + 1]) = Lag(queues[p + 1]) BY <3>4, <3>5
    <3>6. CASE lag(queues[p + 1]) = 0
      <4>1. Reached(total, n, c, p, 0) BY <1>8, <3>2, <3>3, ReachedFresh
      <4> QED BY <3>6, <4>1
    <3> QED BY <1>7, <3>5, <3>6
  <2>2. SliceSize' = n /\ SweepStart' = c BY <1>2 DEF SliceSize, SweepStart
  <2> HIDE DEF n, c
  <2> QED BY <1>2, <2>1, <2>2 DEF AllReached, Lag
<1>10. PastTheEnd'
  <2> SUFFICES ASSUME cursor >= total, NEW p \in 0 .. total - 1 PROVE lag(queues[p + 1]) <= 0
    BY <1>2 DEF PastTheEnd, Lag
  <2>1. Lag(queues[p + 1]) <= 0 BY DEF SavingInv, PastTheEnd
  <2> HIDE DEF lag
  <2> QED BY <1>7, <2>1
<1> QED BY <1>2, <1>6, <1>9, <1>10, DisturbedInv

\* Neither the filter's save nor time going on changes the sweep.
LEMMA SweepSame ==
  ASSUME SavingInv, UNCHANGED <<queues, cursor, age, delays, quiet>>
  PROVE  SavingInv'
<1>1. /\ queues' = queues /\ cursor' = cursor /\ age' = age /\ delays' = delays
      /\ quiet' = quiet
  OBVIOUS
<1>2. SavingTypes' BY <1>1 DEF SavingInv, SavingTypes
<1>3. SliceSize' = SliceSize /\ SweepStart' = SweepStart BY <1>1 DEF SliceSize, SweepStart
<1>4. Swept'
  <2>1. \A p : Behind(p)' = Behind(p) BY <1>1 DEF Behind, SweepStart
  <2> QED BY <1>1, <1>3, <2>1 DEF SavingInv, Swept
<1>5. AllReached' BY <1>1, <1>3 DEF SavingInv, AllReached, Lag
<1>6. PastTheEnd' BY <1>1 DEF SavingInv, PastTheEnd, Lag
<1> QED BY <1>2, <1>4, <1>5, <1>6 DEF SavingInv

\* A place less than n behind the new cursor c is one of the n from s on.
LEMMA PassedBySlice ==
  ASSUME NEW total \in Nat, NEW n \in 1 .. total, NEW s \in 0 .. total - 1,
         NEW c \in 0 .. total - 1, c = (IF s + n < total THEN s + n ELSE s + n - total),
         NEW p \in 0 .. total - 1, NEW b,
         b = (IF p < c THEN c - 1 - p ELSE c - 1 - p + total), b < n
  PROVE  /\ n - 1 - b \in 0 .. n - 1
         /\ s + (n - 1 - b) = p \/ s + (n - 1 - b) = p + total
<1>1. b \in 0 .. n - 1
  <2>1. CASE p < c BY <2>1
  <2>2. CASE ~ (p < c) BY <2>2
  <2> QED BY <2>1, <2>2
<1>2. n - 1 - b \in 0 .. n - 1 BY <1>1
<1>3. s + (n - 1 - b) = p \/ s + (n - 1 - b) = p + total
  <2>1. CASE p < c
    <3>1. b = c - 1 - p BY <2>1
    <3> QED BY <2>1, <3>1
  <2>2. CASE ~ (p < c)
    <3>1. b = c - 1 - p + total BY <2>2
    <3> QED BY <2>2, <3>1
  <2> QED BY <2>1, <2>2
<1> QED BY <1>2, <1>3

\* A quiet tick: what it saves is a slice of places behind the new cursor, and
\* every other place has fallen back by as much.
LEMMA SliceInv ==
  ASSUME SavingInv, SaveSlice
  PROVE  SavingInv'
<1> DEFINE total == Len(queues)
           n == Min({PerTick(total), total})
<1>1. SavingTypes /\ total \in Nat /\ quiet \in 0 .. Slices
  BY LenProperties DEF SavingInv, SavingTypes
<1>2. /\ queues' = queues
      /\ quiet' = Min({quiet + 1, Slices})
      /\ IF total = 0 THEN cursor' = cursor /\ age' = age /\ delays' = delays
         ELSE /\ cursor' = ((cursor % total) + n) % total /\ age' = Aged(Slice(n))
              /\ delays' = [q \in Queue |-> IF q \in Slice(n) THEN 0 ELSE delays[q]]
  BY DEF SaveSlice
<1>4. quiet' \in 0 .. Slices /\ quiet' <= quiet + 1
  <2>1. quiet + 1 \in Nat /\ Slices \in Nat BY <1>1, SavingNumbers
  <2> QED BY <1>1, <1>2, <2>1, LeastOfTwo
<1> HIDE DEF n
<1>5. CASE total = 0
  <2>1. SavingTypes' BY <1>1, <1>2, <1>4, <1>5 DEF SavingTypes
  <2>2. 0 .. Len(queues') - 1 = {} BY <1>2, <1>5
  <2>3. Swept' BY <2>2 DEF Swept
  <2>4. AllReached' /\ PastTheEnd' BY <2>2 DEF AllReached, PastTheEnd
  <2> QED BY <2>1, <2>3, <2>4 DEF SavingInv
<1>6. CASE total # 0
  <2>1. total > 0 /\ n \in 1 .. total BY <1>1, <1>6, SliceSizeIs DEF n
  <2>2. cursor \in Nat BY <1>1 DEF SavingTypes
  <2> DEFINE s == cursor % total
  <2>3. s \in 0 .. total - 1 BY <2>1, <2>2, WrapsOnce
  <2>4. cursor' = (s + n) % total /\ age' = Aged(Slice(n)) BY <1>2, <1>6
  <2> HIDE DEF s
  <2>5. cursor' = IF s + n < total THEN s + n ELSE s + n - total
    BY <1>1, <2>1, <2>3, <2>4, WrapsOnce
  <2>6. cursor' \in 0 .. total - 1 BY <1>1, <2>1, <2>3, <2>5
  <2>7. /\ age' \in [Queue -> Nat]
        /\ \A q \in Queue : /\ age'[q] <= age[q] + 1 /\ (q \in Slice(n) => age'[q] = 0)
                            /\ q \in Savable \ Slice(n) => age'[q] = age[q] + 1
        /\ \A q \in Queue : age[q] \in Nat
    BY <1>1, <2>4, AgedIs DEF SavingTypes
  <2>8. SavingTypes'
    <3>1. delays \in [Queue -> Nat] BY <1>1 DEF SavingTypes
    <3>2. delays' = [q \in Queue |-> IF q \in Slice(n) THEN 0 ELSE delays[q]] BY <1>2, <1>6
    <3>3. delays' \in [Queue -> Nat] BY <3>1, <3>2
    <3>4. queues' \in Seq(Queue) BY <1>1, <1>2 DEF SavingTypes
    <3>5. cursor' \in Nat BY <1>1, <2>6
    <3> QED BY <1>4, <2>7, <3>3, <3>4, <3>5 DEF SavingTypes
  <2>9. Swept'
    <3>1. SweepStart' = cursor' /\ SweepStart = s /\ SliceSize' = n /\ SliceSize = n
      <4>1. SweepStart' = cursor' % total BY <1>2 DEF SweepStart
      <4>2. cursor' % total = cursor' BY <1>1, <2>1, <2>6, WrapsOnce
      <4> QED BY <1>2, <4>1, <4>2 DEF SweepStart, SliceSize, s, n
    <3> SUFFICES ASSUME NEW k \in 1 .. quiet', NEW p \in 0 .. total - 1, Behind(p)' < k * n
                 PROVE  age'[queues[p + 1]] <= k - 1
      BY <1>2, <3>1 DEF Swept
    <3>2. queues[p + 1] \in Queue
      <4>1. p + 1 \in 1 .. Len(queues) /\ queues \in Seq(Queue) BY <1>1 DEF SavingTypes
      <4> QED BY <4>1, ElementOfSeq
    <3>3. /\ Behind(p)' = IF p < cursor' THEN cursor' - 1 - p ELSE cursor' - 1 - p + total
          /\ Behind(p) = IF p < s THEN s - 1 - p ELSE s - 1 - p + total
      BY <1>2, <3>1 DEF Behind
    <3>4. CASE Behind(p)' < n
      <4>1. \E i \in 0 .. n - 1 : (s + i) % total = p
        <5> DEFINE b == Behind(p)'
        <5>1. b = (IF p < cursor' THEN cursor' - 1 - p ELSE cursor' - 1 - p + total) /\ b < n
          BY <3>3, <3>4
        <5> HIDE DEF b, total
        <5>2. total \in Nat /\ p \in 0 .. total - 1 BY <1>1 DEF total
        <5>3. /\ n - 1 - b \in 0 .. n - 1
              /\ s + (n - 1 - b) = p \/ s + (n - 1 - b) = p + total
          BY <2>1, <2>3, <2>5, <2>6, <5>2, <5>1, PassedBySlice
        <5>4. PICK i \in 0 .. n - 1 : s + i = p \/ s + i = p + total BY <5>3
        <5>5. (s + i) % total = p
          <6>1. s + i \in Nat /\ p \in Nat BY <1>1, <2>3, <5>4
          <6>2. CASE s + i = p BY <1>1, <2>1, <6>1, <6>2, WrapsOnce
          <6>3. CASE s + i = p + total
            <7>1. p + total - total = p BY <1>1
            <7> QED BY <1>1, <2>1, <6>1, <6>3, <7>1, WrapsOnce
          <6> QED BY <5>4, <6>2, <6>3
        <5> QED BY <5>4, <5>5
      <4>2. queues[p + 1] \in Slice(n) BY <4>1 DEF Slice, s
      <4> QED BY <2>7, <3>2, <4>2
    <3>5. CASE ~ (Behind(p)' < n)
      <4>1. Behind(p) = Behind(p)' - n
        BY <1>1, <2>1, <2>3, <2>5, <3>3, <3>5
      <4>2. (k - 1) * n = k * n - n /\ k * n \in Int BY <2>1, Multiples
      <4>3. Behind(p)' \in Int BY <1>1, <2>1, <2>3, <2>6, <3>3
      <4>4. Behind(p) < (k - 1) * n BY <2>1, <4>1, <4>2, <4>3
      <4>5. k # 1
        <5>1. k = 1 => k * n = n BY <2>1
        <5> QED BY <3>5, <5>1
      <4>6. k - 1 \in 1 .. quiet BY <1>1, <1>4, <4>5
      <4>7. age[queues[p + 1]] <= k - 1 - 1
        BY <3>1, <4>4, <4>6 DEF SavingInv, Swept
      <4> QED BY <2>7, <3>2, <4>7
    <3> QED BY <3>4, <3>5
  <2>10. ASSUME NEW p \in 0 .. total - 1
         PROVE  Reached(total, n, cursor', p, age'[queues[p + 1]] - delays'[queues[p + 1]])
    <3> DEFINE x == queues[p + 1]
    <3>1. /\ x \in Queue /\ x \in Savable /\ Lag(x) \in Int
          /\ age[x] \in Nat /\ delays[x] \in Nat
      BY <1>1, SavedPlaceIs
    <3>2. delays'[x] = IF x \in Slice(n) THEN 0 ELSE delays[x] BY <1>2, <1>6, <3>1
    <3>3. CASE x \in Slice(n)
      <4>1. age'[x] - delays'[x] = 0 BY <2>7, <3>1, <3>2, <3>3
      <4>2. Slices * n >= total BY <1>1, <2>1, SliceSizeIs DEF n
      <4> HIDE DEF total
      <4>3. Reached(total, n, cursor', p, 0) BY <1>1, <2>1, <2>6, <4>2, ReachedFresh DEF total
      <4> QED BY <4>1, <4>3
    <3>4. CASE x \notin Slice(n)
      <4>1. age'[x] - delays'[x] = Lag(x) + 1 BY <2>7, <3>1, <3>2, <3>4 DEF Lag
      <4>2. \A i \in 0 .. n - 1 : s + i # p /\ s + i # p + total
        <5> SUFFICES ASSUME NEW i \in 0 .. n - 1, s + i = p \/ s + i = p + total PROVE FALSE
          OBVIOUS
        <5>1. (s + i) % total = p
          <6>1. s + i \in Nat /\ p \in Nat BY <1>1, <2>3
          <6>2. CASE s + i = p BY <1>1, <2>1, <6>1, <6>2, WrapsOnce
          <6>3. CASE s + i = p + total
            <7>1. p + total - total = p BY <1>1
            <7> QED BY <1>1, <2>1, <6>1, <6>3, <7>1, WrapsOnce
          <6> QED BY <6>2, <6>3
        <5>2. x \in Slice(n) BY <5>1 DEF Slice, s
        <5> QED BY <3>4, <5>2
      <4>3. Reached(total, n, s, p, Lag(x))
        BY DEF SavingInv, AllReached, SliceSize, SweepStart, n, s
      <4> HIDE DEF total, x
      <4>4. total \in Nat BY <1>1 DEF total
      <4>5. Reached(total, n, cursor', p, Lag(x) + 1)
        BY <2>1, <2>3, <2>5, <3>1, <4>2, <4>3, <4>4, ReachedAfterSlice
      <4> QED BY <4>1, <4>5 DEF x
    <3> QED BY <3>3, <3>4
  <2>11. AllReached'
    <3>1. SliceSize' = n BY <1>2 DEF SliceSize, n
    <3>2. SweepStart' = cursor'
      <4>1. SweepStart' = cursor' % total BY <1>2 DEF SweepStart
      <4> QED BY <1>1, <2>1, <2>6, <4>1, WrapsOnce
    <3> QED BY <1>2, <2>10, <3>1, <3>2 DEF AllReached, Lag
  <2>12. PastTheEnd' BY <1>1, <1>2, <2>6 DEF PastTheEnd
  <2> QED BY <2>8, <2>9, <2>11, <2>12 DEF SavingInv
<1> QED BY <1>5, <1>6

LEMMA SavingInitInv == SavingInit => SavingInv
<1> SUFFICES ASSUME SavingInit PROVE SavingInv OBVIOUS
<1>1. /\ queues = << >> /\ cursor = 0 /\ quiet = 0
      /\ age = [q \in Queue |-> 0] /\ delays = [q \in Queue |-> 0]
  BY DEF SavingInit
<1>2. SavingTypes BY <1>1, SavingNumbers DEF SavingTypes
<1>3. 1 .. quiet = {} /\ 0 .. Len(queues) - 1 = {}
  <2>1. Len(queues) = 0 BY <1>1
  <2> QED BY <1>1, <2>1
<1>4. Swept BY <1>3 DEF Swept
<1>5. AllReached /\ PastTheEnd BY <1>3 DEF AllReached, PastTheEnd
<1> QED BY <1>2, <1>4, <1>5 DEF SavingInv

LEMMA SavingStepInv == SavingInv /\ [SavingNext]_savingVars => SavingInv'
<1> SUFFICES ASSUME SavingInv, [SavingNext]_savingVars PROVE SavingInv' OBVIOUS
<1>1. ASSUME NEW q \in Queue, OpenQueue(q) \/ DropQueue(q) PROVE SavingInv'
  BY <1>1, OpenQueueInv, DropQueueInv
<1>2. CASE SaveSlice BY <1>2, SliceInv
<1>3. CASE SaveSliceFails BY <1>3, FailsInv
<1>4. CASE BloomCheckpoint \/ Tick BY <1>4, SweepSame DEF BloomCheckpoint, Tick
<1>5. CASE UNCHANGED savingVars BY <1>5, SweepSame DEF savingVars
<1> QED BY <1>1, <1>2, <1>3, <1>4, <1>5 DEF SavingNext

\* Slices slices make a whole list, so that none of it is further behind.
LEMMA SweptIsComplete ==
  ASSUME SavingInv
  PROVE  SweepComplete
<1> DEFINE total == Len(queues)
<1>1. /\ queues \in Seq(Queue) /\ age \in [Queue -> Nat] /\ cursor \in Nat
      /\ total \in Nat /\ DOMAIN queues = 1 .. total
  BY LenProperties DEF SavingInv, SavingTypes
<1> SUFFICES ASSUME quiet = Slices, NEW i \in 1 .. total PROVE age[queues[i]] < Slices
  BY <1>1 DEF SweepComplete, Savable, Range
<1>2. total > 0 /\ i - 1 \in 0 .. total - 1 /\ (i - 1) + 1 = i BY <1>1
<1>3. SliceSize \in 1 .. total /\ Slices * SliceSize >= total
  BY <1>1, <1>2, SliceSizeIs DEF SliceSize
<1>4. SweepStart \in 0 .. total - 1 BY <1>1, <1>2, WrapsOnce DEF SweepStart
<1>5. Behind(i - 1) <= total - 1 /\ Behind(i - 1) \in Int
  <2>1. Behind(i - 1) = IF i - 1 < SweepStart THEN SweepStart - 1 - (i - 1)
                        ELSE SweepStart - 1 - (i - 1) + total
    BY DEF Behind
  <2> HIDE DEF total
  <2>2. CASE i - 1 < SweepStart BY <1>1, <1>2, <1>4, <2>1, <2>2
  <2>3. CASE ~ (i - 1 < SweepStart) BY <1>1, <1>2, <1>4, <2>1, <2>3
  <2> QED BY <2>2, <2>3
<1>6. Behind(i - 1) < Slices * SliceSize
  <2>1. Slices * SliceSize \in Int BY <1>3, SavingNumbers, Multiples
  <2> QED BY <1>1, <1>3, <1>5, <2>1
<1>7. Slices \in 1 .. quiet BY SavingNumbers
<1>8. age[queues[(i - 1) + 1]] <= Slices - 1
  BY <1>2, <1>6, <1>7 DEF SavingInv, Swept
<1>9. age[queues[i]] \in Nat
  <2>1. queues[i] \in Queue BY <1>1, ElementOfSeq
  <2> QED BY <1>1, <2>1
<1> QED BY <1>2, <1>8, <1>9, SavingNumbers

\* What will be reached in time is not late.
LEMMA ReachedIsInTime ==
  ASSUME SavingInv
  PROVE  LateByDisturbances
<1>1. SavingTypes /\ queues \in Seq(Queue) BY DEF SavingInv, SavingTypes
<1>2. Len(queues) \in Nat /\ DOMAIN queues = 1 .. Len(queues) BY <1>1, LenProperties
<1> SUFFICES ASSUME NEW i \in 1 .. Len(queues)
             PROVE  age[queues[i]] < Slices + delays[queues[i]]
  BY <1>2 DEF LateByDisturbances, Savable, Range
<1>3. i - 1 \in 0 .. Len(queues) - 1 /\ (i - 1) + 1 = i BY <1>2
<1>4. Lag(queues[(i - 1) + 1]) < Slices BY <1>3, LagBounded
<1>5. age[queues[(i - 1) + 1]] \in Nat /\ delays[queues[(i - 1) + 1]] \in Nat
  BY <1>1, <1>3, SavedPlaceIs
<1> QED BY <1>3, <1>4, <1>5, SavingNumbers DEF Lag

LEMMA SavingInvariant == Spec => [](part = "saving" => SavingInv)
<1>1. Init => (part = "saving" => SavingInv)
  <2> SUFFICES ASSUME Init, part = "saving" PROVE SavingInv OBVIOUS
  <2>1. SavingInit BY DEF Init
  <2> QED BY <2>1, SavingInitInv
<1>2. (part = "saving" => SavingInv) /\ [Next]_vars => (part = "saving" => SavingInv)'
  <2> SUFFICES ASSUME part = "saving" => SavingInv, [Next]_vars, part' = "saving"
               PROVE  SavingInv'
    OBVIOUS
  <2>1. part = "saving" /\ [SavingNext]_savingVars
    <3>1. CASE Next
      BY <3>1 DEF Next, SavingRuns, CountingRuns, LoggingRuns, CheckingRuns,
                  SelectingRuns, ProbingRuns
    <3>2. CASE UNCHANGED vars BY <3>2 DEF vars
    <3> QED BY <3>1, <3>2
  <2> QED BY <2>1, SavingStepInv
<1> QED BY <1>1, <1>2, PTL DEF Spec

\* However the queues that opened, emptied or failed have left the cursor, the
\* next Slices undisturbed ticks save them all (scheduler.py:242-245); and in a
\* pass that is disturbed a queue is late by no more than a tick for each queue
\* that opened and each tick that failed, and a pass for each queue that was
\* dropped (scheduler.py:258-262), for any number of queues and of slices.
THEOREM SavesAreSpread == Spec => []SavesSpread
<1>1. (part = "saving" => SavingInv) => SavesSpread
  BY SweptIsComplete, ReachedIsInTime DEF SavesSpread
<1> QED BY <1>1, SavingInvariant, PTL

-------------------------------------------------------------------------------
(* SeedSelect: an inductive invariant. *)

\* The picks p are, of each TLD, the best m[t], each once.
Best(p, m) ==
  /\ m \in [Tld -> Nat]
  /\ p \in Seq(Tld \X Nat)
  /\ \A i, j \in DOMAIN p : p[i] = p[j] => i = j
  /\ \A i \in DOMAIN p : p[i][2] \in 1 .. m[p[i][1]]
  /\ \A t \in Tld : \A n \in 1 .. m[t] : \E i \in DOMAIN p : p[i] = <<t, n>>

\* What the first loop takes of a TLD, and what either loop may.
QuotaOf(t) == IF Quota(t) <= pool[t] THEN Quota(t) ELSE pool[t]
TakenOf(t) == IF taken[t] <= pool[t] THEN taken[t] ELSE pool[t]

\* How deep each TLD's list has been taken.
QuotaDepth == [t \in Tld |-> IF t \in Range(visit) THEN 0 ELSE QuotaOf(t)]
TopUpDepth == [t \in Tld |-> TakenOf(t)]

Distinct(s) == \A i, j \in DOMAIN s : s[i] = s[j] => i = j

SelectingTypes ==
  /\ pool \in [Tld -> Nat] /\ Present # {} /\ count \in Nat /\ count >= 1
  /\ order \in Seq(Present) /\ Distinct(order) /\ Range(order) = Present
  /\ visit \in Seq(Present) /\ Distinct(visit)
  /\ stage \in {"quota", "top up", "done"}
  /\ depthExhausted \in BOOLEAN

SelectingInv ==
  /\ SelectingTypes
  /\ stage = "quota" =>
       Best(picked, QuotaDepth) /\ Len(picked) < count
  /\ stage = "top up" =>
       /\ taken \in [Tld -> Nat]
       /\ Best(picked, TopUpDepth) /\ Len(picked) < count
       /\ depthExhausted =>
            \A t \in Present \ Range(visit) : taken[t] >= pool[t]
  /\ stage = "done" =>
       \E m \in [Tld -> Nat] :
         /\ Best(picked, m) /\ Len(picked) <= count
         /\ \A t \in Tld : m[t] <= pool[t]
         /\ Len(picked) = count \/ m = pool

-------------------------------------------------------------------------------
(* SeedSelect: the best of each TLD. *)

LEMMA BestIs ==
  ASSUME NEW p, NEW m, Best(p, m)
  PROVE  /\ m \in [Tld -> Nat] /\ p \in Seq(Tld \X Nat)
         /\ Len(p) \in Nat /\ DOMAIN p = 1 .. Len(p)
         /\ \A i \in 1 .. Len(p) :
              /\ p[i] = <<p[i][1], p[i][2]>> /\ p[i][1] \in Tld /\ p[i][2] \in Nat
              /\ p[i][2] \in 1 .. m[p[i][1]]
<1>1. m \in [Tld -> Nat] /\ p \in Seq(Tld \X Nat) BY DEF Best
<1>2. Len(p) \in Nat /\ DOMAIN p = 1 .. Len(p) BY <1>1, LenProperties
<1>3. ASSUME NEW i \in 1 .. Len(p)
      PROVE  /\ p[i] = <<p[i][1], p[i][2]>> /\ p[i][1] \in Tld /\ p[i][2] \in Nat
             /\ p[i][2] \in 1 .. m[p[i][1]]
  <2>1. p[i] \in Tld \X Nat BY <1>1, ElementOfSeq
  <2>2. p[i] = <<p[i][1], p[i][2]>> /\ p[i][1] \in Tld /\ p[i][2] \in Nat BY <2>1
  <2>3. i \in DOMAIN p BY <1>2
  <2>4. p[i][2] \in 1 .. m[p[i][1]] BY <2>3 DEF Best
  <2> QED BY <2>2, <2>4
<1> QED BY <1>1, <1>2, <1>3

\* There are as many picks as places in the lists that they take.
LEMMA BestLength ==
  ASSUME NEW p, NEW m, Best(p, m)
  PROVE  Len(p) = Cardinality(Spots(Tld, m))
<1> DEFINE T == Spots(Tld, m)
           f == [i \in 1 .. Len(p) |-> p[i]]
<1>1. /\ m \in [Tld -> Nat] /\ Len(p) \in Nat /\ DOMAIN p = 1 .. Len(p)
      /\ \A i \in 1 .. Len(p) :
              /\ p[i] = <<p[i][1], p[i][2]>> /\ p[i][1] \in Tld /\ p[i][2] \in Nat
              /\ p[i][2] \in 1 .. m[p[i][1]]
  BY BestIs
<1>2. f \in [1 .. Len(p) -> T]
  <2> SUFFICES ASSUME NEW i \in 1 .. Len(p) PROVE p[i] \in T OBVIOUS
  <2>1. p[i] = <<p[i][1], p[i][2]>> /\ p[i][1] \in Tld /\ p[i][2] \in 1 .. m[p[i][1]]
    BY <1>1
  <2>2. \E d \in Tld : \E n \in 1 .. m[d] : p[i] = <<d, n>> BY <2>1
  <2> QED BY <2>2, SpotIs
<1>3. \A i, j \in 1 .. Len(p) : f[i] = f[j] => i = j BY <1>1 DEF Best
<1>4. \A x \in T : \E i \in 1 .. Len(p) : f[i] = x
  <2> SUFFICES ASSUME NEW t \in Tld, NEW n \in 1 .. m[t]
               PROVE  \E i \in 1 .. Len(p) : f[i] = <<t, n>>
    BY SpotIs
  <2>1. \E i \in DOMAIN p : p[i] = <<t, n>> BY DEF Best
  <2> QED BY <1>1, <2>1
<1> HIDE DEF T
<1>5. f \in Bijection(1 .. Len(p), T)
  BY <1>2, <1>3, <1>4 DEF Bijection, Injection, Surjection, IsInjective
<1>6. ExistsBijection(1 .. Len(p), T) BY <1>5 DEF ExistsBijection
<1> QED BY <1>1, <1>6, FS_CountingElements DEF T

LEMMA BestPicks ==
  ASSUME NEW m, Best(picked, m)
  PROVE  BestOfEach
<1> SUFFICES ASSUME NEW t \in Tld
             PROVE  {picked[i][2] : i \in Picks(t)} = 1 .. Cardinality(Picks(t))
  BY DEF BestOfEach
<1> DEFINE P == Picks(t)
           f == [i \in P |-> picked[i][2]]
<1>1. /\ m \in [Tld -> Nat] /\ Len(picked) \in Nat /\ DOMAIN picked = 1 .. Len(picked)
      /\ \A i \in 1 .. Len(picked) :
              /\ picked[i] = <<picked[i][1], picked[i][2]>>
              /\ picked[i][1] \in Tld /\ picked[i][2] \in Nat
              /\ picked[i][2] \in 1 .. m[picked[i][1]]
  BY BestIs
<1>2. \A i \in P : i \in 1 .. Len(picked) /\ picked[i] = <<t, picked[i][2]>>
                   /\ picked[i][2] \in 1 .. m[t]
  BY <1>1 DEF Picks
<1>3. f \in [P -> 1 .. m[t]] BY <1>2
<1>4. \A i, j \in P : f[i] = f[j] => i = j
  <2> SUFFICES ASSUME NEW i \in P, NEW j \in P, picked[i][2] = picked[j][2] PROVE i = j
    OBVIOUS
  <2>1. picked[i] = picked[j] BY <1>2
  <2> QED BY <1>1, <1>2, <2>1 DEF Best
<1>5. \A n \in 1 .. m[t] : \E i \in P : f[i] = n
  <2> SUFFICES ASSUME NEW n \in 1 .. m[t] PROVE \E i \in P : picked[i][2] = n OBVIOUS
  <2>1. PICK i \in DOMAIN picked : picked[i] = <<t, n>> BY DEF Best
  <2>2. picked[i][1] = t /\ picked[i][2] = n BY <2>1
  <2>3. i \in P BY <2>1, <2>2 DEF Picks
  <2> QED BY <2>2, <2>3
<1>6. {picked[i][2] : i \in P} = 1 .. m[t]
  <2>1. \A i \in P : picked[i][2] \in 1 .. m[t] BY <1>2
  <2>2. \A n \in 1 .. m[t] : \E i \in P : picked[i][2] = n BY <1>5
  <2> HIDE DEF P
  <2> QED BY <2>1, <2>2
<1>7. IsFiniteSet(P) /\ Cardinality(P) = m[t]
  <2>1. m[t] \in Nat BY <1>1
  <2>2. IsFiniteSet(1 .. m[t]) /\ Cardinality(1 .. m[t]) = m[t]
    <3>1. 1 \in Int /\ m[t] \in Int BY <2>1
    <3>2. IsFiniteSet(1 .. m[t])
          /\ Cardinality(1 .. m[t]) = IF 1 > m[t] THEN 0 ELSE m[t] - 1 + 1
      BY <3>1, FS_Interval
    <3> QED BY <2>1, <3>2
  <2> HIDE DEF P
  <2>3. f \in Injection(P, 1 .. m[t]) /\ f \in Surjection(P, 1 .. m[t])
    BY <1>3, <1>4, <1>5 DEF Injection, Surjection, IsInjective
  <2>4. IsFiniteSet(P) /\ Cardinality(P) <= Cardinality(1 .. m[t])
        /\ (Cardinality(P) = Cardinality(1 .. m[t]) <=> f \in Surjection(P, 1 .. m[t]))
    BY <2>2, <2>3, FS_Injection
  <2> QED BY <2>2, <2>3, <2>4
<1> QED BY <1>6, <1>7

\* The next of a TLD ...
LEMMA BestAppend ==
  ASSUME NEW p, NEW m, Best(p, m), NEW t \in Tld, NEW l \in [Tld -> Nat],
         l[t] = m[t] + 1, \A u \in Tld \ {t} : l[u] = m[u]
  PROVE  Best(Append(p, <<t, l[t]>>), l) /\ Len(Append(p, <<t, l[t]>>)) = Len(p) + 1
<1> DEFINE q == Append(p, <<t, l[t]>>)
<1>1. /\ m \in [Tld -> Nat] /\ p \in Seq(Tld \X Nat)
      /\ Len(p) \in Nat /\ DOMAIN p = 1 .. Len(p)
      /\ \A i \in 1 .. Len(p) :
              /\ p[i] = <<p[i][1], p[i][2]>> /\ p[i][1] \in Tld /\ p[i][2] \in Nat
              /\ p[i][2] \in 1 .. m[p[i][1]]
  BY BestIs
<1>2. <<t, l[t]>> \in Tld \X Nat BY <1>1
<1>3. /\ q \in Seq(Tld \X Nat) /\ Len(q) = Len(p) + 1
      /\ \A i \in 1 .. Len(p) : q[i] = p[i]
      /\ q[Len(p) + 1] = <<t, l[t]>>
  BY <1>1, <1>2, AppendProperties
<1>4. DOMAIN q = 1 .. Len(p) + 1 BY <1>3, LenProperties
<1> HIDE DEF q
<1>5. m[t] \in Nat /\ l[t] \in Nat BY <1>1
<1>6. \A i \in 1 .. Len(p) : q[i] # <<t, l[t]>>
  <2> SUFFICES ASSUME NEW i \in 1 .. Len(p), p[i] = <<t, l[t]>> PROVE FALSE BY <1>3
  <2>1. l[t] \in 1 .. m[t]
    <3>1. p[i][1] = t /\ p[i][2] = l[t] OBVIOUS
    <3> QED BY <1>1, <3>1
  <2> QED BY <1>5, <2>1
<1>7. ASSUME NEW i \in DOMAIN q, NEW j \in DOMAIN q, q[i] = q[j] PROVE i = j
  <2>1. CASE i = Len(p) + 1 /\ j = Len(p) + 1 BY <2>1
  <2>2. CASE i # Len(p) + 1 /\ j # Len(p) + 1
    <3>1. i \in 1 .. Len(p) /\ j \in 1 .. Len(p)
      <4>1. i \in 1 .. Len(p) + 1 /\ j \in 1 .. Len(p) + 1 /\ Len(p) \in Nat
        BY <1>1, <1>4, <1>7
      <4> QED BY <2>2, <4>1
    <3>2. p[i] = p[j] BY <1>3, <1>7, <3>1
    <3> QED BY <1>1, <3>1, <3>2 DEF Best
  <2>3. CASE i = Len(p) + 1 /\ j # Len(p) + 1
    <3>1. j \in 1 .. Len(p) BY <1>1, <1>4, <1>7, <2>3
    <3> QED BY <1>3, <1>6, <1>7, <2>3, <3>1
  <2>4. CASE i # Len(p) + 1 /\ j = Len(p) + 1
    <3>1. i \in 1 .. Len(p) BY <1>1, <1>4, <1>7, <2>4
    <3> QED BY <1>3, <1>6, <1>7, <2>4, <3>1
  <2> QED BY <2>1, <2>2, <2>3, <2>4
<1>8. ASSUME NEW i \in DOMAIN q PROVE q[i][2] \in 1 .. l[q[i][1]]
  <2>1. CASE i = Len(p) + 1
    <3>1. q[i][1] = t /\ q[i][2] = l[t] BY <1>3, <2>1
    <3>2. l[t] \in 1 .. l[t] BY <1>5
    <3> QED BY <3>1, <3>2
  <2>2. CASE i # Len(p) + 1
    <3>1. i \in 1 .. Len(p) BY <1>1, <1>4, <1>8, <2>2
    <3>2. q[i] = p[i] /\ p[i][1] \in Tld /\ p[i][2] \in 1 .. m[p[i][1]] BY <1>1, <1>3, <3>1
    <3>3. m[p[i][1]] <= l[p[i][1]] /\ m[p[i][1]] \in Nat /\ l[p[i][1]] \in Nat
      <4>1. m[p[i][1]] \in Nat /\ l[p[i][1]] \in Nat BY <1>1, <3>2
      <4>2. CASE p[i][1] = t BY <1>5, <4>1, <4>2
      <4>3. CASE p[i][1] # t
        <5>1. l[p[i][1]] = m[p[i][1]] BY <3>2, <4>3
        <5> QED BY <4>1, <5>1
      <4> QED BY <4>2, <4>3
    <3> QED BY <3>2, <3>3
  <2> QED BY <2>1, <2>2
<1>9. ASSUME NEW u \in Tld, NEW n \in 1 .. l[u] PROVE \E i \in DOMAIN q : q[i] = <<u, n>>
  <2>1. CASE u = t /\ n = l[t]
    <3>1. Len(p) + 1 \in DOMAIN q BY <1>1, <1>4
    <3> QED BY <1>3, <2>1, <3>1
  <2>2. CASE ~ (u = t /\ n = l[t])
    <3>1. n \in 1 .. m[u]
      <4>1. CASE u = t BY <1>5, <1>9, <2>2, <4>1
      <4>2. CASE u # t BY <1>9, <4>2
      <4> QED BY <4>1, <4>2
    <3>2. PICK i \in DOMAIN p : p[i] = <<u, n>> BY <1>9, <3>1 DEF Best
    <3>3. i \in 1 .. Len(p) /\ Len(p) \in Nat BY <1>1, <3>2
    <3>4. i \in DOMAIN q BY <1>4, <3>3
    <3>5. q[i] = p[i] BY <1>3, <3>3
    <3> QED BY <3>2, <3>4, <3>5
  <2> QED BY <2>1, <2>2
<1>10. Best(q, l) BY <1>3, <1>7, <1>8, <1>9 DEF Best
<1> QED BY <1>3, <1>10 DEF q

LEMMA CandidatesAre ==
  ASSUME NEW t \in Tld, NEW k \in Nat
  PROVE  /\ Candidates(t, 1, k) \in Seq(Tld \X Nat) /\ Len(Candidates(t, 1, k)) = k
         /\ \A n \in 1 .. k : Candidates(t, 1, k)[n] = <<t, n>>
<1>1. k - 1 + 1 = k /\ \A n \in 1 .. k : 1 + n - 1 = n /\ n \in Nat OBVIOUS
<1>2. Candidates(t, 1, k) = [n \in 1 .. k |-> <<t, 1 + n - 1>>] BY <1>1 DEF Candidates
<1>3. \A n \in 1 .. k : Candidates(t, 1, k)[n] = <<t, n>> BY <1>1, <1>2
<1>4. \A n \in 1 .. k : <<t, 1 + n - 1>> \in Tld \X Nat BY <1>1
<1>5. Candidates(t, 1, k) \in [1 .. k -> Tld \X Nat] BY <1>2, <1>4
<1> HIDE DEF Candidates
<1>6. Candidates(t, 1, k) \in Seq(Tld \X Nat) /\ Len(Candidates(t, 1, k)) = k BY <1>5
<1> QED BY <1>3, <1>6

\* ... or its first k, of a TLD that has none yet.
LEMMA BestBlock ==
  ASSUME NEW p, NEW m, Best(p, m), NEW t \in Tld, m[t] = 0, NEW k \in Nat,
         NEW l \in [Tld -> Nat], l[t] = k, \A u \in Tld \ {t} : l[u] = m[u]
  PROVE  Best(p \o Candidates(t, 1, k), l) /\ Len(p \o Candidates(t, 1, k)) = Len(p) + k
<1> DEFINE c == Candidates(t, 1, k)
           q == p \o c
<1>1. /\ m \in [Tld -> Nat] /\ p \in Seq(Tld \X Nat)
      /\ Len(p) \in Nat /\ DOMAIN p = 1 .. Len(p)
      /\ \A i \in 1 .. Len(p) :
              /\ p[i] = <<p[i][1], p[i][2]>> /\ p[i][1] \in Tld /\ p[i][2] \in Nat
              /\ p[i][2] \in 1 .. m[p[i][1]]
  BY BestIs
<1>2. c \in Seq(Tld \X Nat) /\ Len(c) = k /\ \A n \in 1 .. k : c[n] = <<t, n>>
  BY CandidatesAre
<1> HIDE DEF c
<1>3. /\ q \in Seq(Tld \X Nat) /\ Len(q) = Len(p) + k
      /\ \A i \in 1 .. Len(p) + k : q[i] = IF i <= Len(p) THEN p[i] ELSE c[i - Len(p)]
  <2>1. p \in Seq(Tld \X Nat) /\ c \in Seq(Tld \X Nat) BY <1>1, <1>2
  <2>2. /\ q \in Seq(Tld \X Nat) /\ Len(q) = Len(p) + Len(c)
        /\ \A i \in 1 .. Len(p) + Len(c) : q[i] = IF i <= Len(p) THEN p[i] ELSE c[i - Len(p)]
    BY <2>1, ConcatProperties
  <2>3. Len(c) = k BY <1>2
  <2> QED BY <2>2, <2>3
<1>4. DOMAIN q = 1 .. Len(p) + k BY <1>3, LenProperties
<1> HIDE DEF q
<1>5. \A i \in 1 .. Len(p) :
        /\ q[i] = p[i] /\ i \in DOMAIN q /\ p[i][1] # t
        /\ p[i][1] \in Tld /\ p[i][2] \in 1 .. m[p[i][1]]
  <2> SUFFICES ASSUME NEW i \in 1 .. Len(p)
               PROVE  /\ q[i] = p[i] /\ i \in DOMAIN q /\ p[i][1] # t
                      /\ p[i][1] \in Tld /\ p[i][2] \in 1 .. m[p[i][1]]
    OBVIOUS
  <2>1. i \in 1 .. Len(p) + k /\ i <= Len(p) BY <1>1
  <2>2. q[i] = p[i] BY <1>3, <2>1
  <2>3. p[i][1] \in Tld /\ p[i][2] \in 1 .. m[p[i][1]] BY <1>1
  <2>4. p[i][1] # t
    <3>1. p[i][1] = t => p[i][2] \in 1 .. 0 BY <2>3
    <3> QED BY <3>1
  <2> QED BY <1>4, <2>1, <2>2, <2>3, <2>4
<1>6. \A n \in 1 .. k : q[Len(p) + n] = <<t, n>> /\ Len(p) + n \in DOMAIN q
  <2> SUFFICES ASSUME NEW n \in 1 .. k
               PROVE  q[Len(p) + n] = <<t, n>> /\ Len(p) + n \in DOMAIN q
    OBVIOUS
  <2>1. /\ Len(p) + n \in 1 .. Len(p) + k /\ ~ (Len(p) + n <= Len(p))
        /\ Len(p) + n - Len(p) = n
    BY <1>1
  <2>2. q[Len(p) + n] = c[n]
    <3> DEFINE i == Len(p) + n
    <3>1. i \in 1 .. Len(p) + k /\ ~ (i <= Len(p)) /\ i - Len(p) = n BY <2>1
    <3> HIDE DEF i
    <3>2. q[i] = c[i - Len(p)] BY <1>3, <3>1
    <3> QED BY <3>1, <3>2 DEF i
  <2> QED BY <1>2, <1>4, <2>1, <2>2
<1>7. \A i \in DOMAIN q : i \in 1 .. Len(p) \/ \E n \in 1 .. k : i = Len(p) + n
  <2> SUFFICES ASSUME NEW i \in 1 .. Len(p) + k, i \notin 1 .. Len(p)
               PROVE  \E n \in 1 .. k : i = Len(p) + n
    BY <1>4
  <2>1. i - Len(p) \in 1 .. k /\ i = Len(p) + (i - Len(p)) BY <1>1
  <2> QED BY <2>1
<1>8. ASSUME NEW i \in DOMAIN q, NEW j \in DOMAIN q, q[i] = q[j] PROVE i = j
  <2>1. CASE i \in 1 .. Len(p) /\ j \in 1 .. Len(p)
    <3>1. p[i] = p[j] BY <1>5, <1>8, <2>1
    <3> QED BY <1>1, <2>1, <3>1 DEF Best
  <2>2. CASE i \in 1 .. Len(p) /\ j \notin 1 .. Len(p)
    <3>1. PICK n \in 1 .. k : j = Len(p) + n BY <1>7, <2>2
    <3>2. q[j][1] = t
      <4>1. q[j] = <<t, n>> BY <1>6, <3>1
      <4> QED BY <4>1
    <3>3. q[i][1] # t BY <1>5, <2>2
    <3> QED BY <1>8, <3>2, <3>3
  <2>3. CASE i \notin 1 .. Len(p) /\ j \in 1 .. Len(p)
    <3>1. PICK n \in 1 .. k : i = Len(p) + n BY <1>7, <2>3
    <3>2. q[i][1] = t
      <4>1. q[i] = <<t, n>> BY <1>6, <3>1
      <4> QED BY <4>1
    <3>3. q[j][1] # t BY <1>5, <2>3
    <3> QED BY <1>8, <3>2, <3>3
  <2>4. CASE i \notin 1 .. Len(p) /\ j \notin 1 .. Len(p)
    <3>1. PICK n \in 1 .. k : i = Len(p) + n BY <1>7, <2>4
    <3>2. PICK o \in 1 .. k : j = Len(p) + o BY <1>7, <2>4
    <3>3. <<t, n>> = <<t, o>> BY <1>6, <1>8, <3>1, <3>2
    <3>4. n = o BY <3>3
    <3> QED BY <3>1, <3>2, <3>4
  <2> QED BY <2>1, <2>2, <2>3, <2>4
<1>9. ASSUME NEW i \in DOMAIN q PROVE q[i][2] \in 1 .. l[q[i][1]]
  <2>1. CASE i \in 1 .. Len(p)
    <3>1. q[i] = p[i] /\ p[i][1] \in Tld \ {t} /\ p[i][2] \in 1 .. m[p[i][1]] BY <1>5, <2>1
    <3>2. l[p[i][1]] = m[p[i][1]] BY <3>1
    <3> QED BY <3>1, <3>2
  <2>2. CASE i \notin 1 .. Len(p)
    <3>1. PICK n \in 1 .. k : i = Len(p) + n BY <1>7, <1>9, <2>2
    <3>2. q[i] = <<t, n>> BY <1>6, <3>1
    <3>3. q[i][1] = t /\ q[i][2] = n BY <3>2
    <3> QED BY <3>3
  <2> QED BY <2>1, <2>2
<1>10. ASSUME NEW u \in Tld, NEW n \in 1 .. l[u] PROVE \E i \in DOMAIN q : q[i] = <<u, n>>
  <2>1. CASE u = t
    <3>1. n \in 1 .. k BY <1>10, <2>1
    <3> QED BY <1>6, <2>1, <3>1
  <2>2. CASE u # t
    <3>1. n \in 1 .. m[u] BY <1>10, <2>2
    <3>2. PICK i \in DOMAIN p : p[i] = <<u, n>> BY <1>10, <3>1 DEF Best
    <3>3. i \in 1 .. Len(p) BY <1>1, <3>2
    <3> QED BY <1>5, <3>2, <3>3
  <2> QED BY <2>1, <2>2
<1>11. Best(q, l) BY <1>3, <1>8, <1>9, <1>10 DEF Best
<1> QED BY <1>3, <1>11 DEF q, c

\* Cutting the block off cuts its own end.
LEMMA BlockCut ==
  ASSUME NEW p \in Seq(Tld \X Nat), NEW t \in Tld, NEW k \in Nat, NEW n \in Nat,
         Len(p) <= n, n <= Len(p) + k
  PROVE  SubSeq(p \o Candidates(t, 1, k), 1, n) = p \o Candidates(t, 1, n - Len(p))
<1> DEFINE b == Candidates(t, 1, k)
           c == Candidates(t, 1, n - Len(p))
           q == p \o b
           r == p \o c
           s == SubSeq(q, 1, n)
<1>1. Len(p) \in Nat /\ n - Len(p) \in Nat /\ n - Len(p) <= k BY LenProperties
<1>2. /\ b \in Seq(Tld \X Nat) /\ Len(b) = k /\ \A i \in 1 .. k : b[i] = <<t, i>>
      /\ c \in Seq(Tld \X Nat) /\ Len(c) = n - Len(p)
      /\ \A i \in 1 .. n - Len(p) : c[i] = <<t, i>>
  BY <1>1, CandidatesAre
<1> HIDE DEF b, c
<1>3. /\ q \in Seq(Tld \X Nat) /\ Len(q) = Len(p) + k
      /\ \A i \in 1 .. Len(p) + k : q[i] = IF i <= Len(p) THEN p[i] ELSE b[i - Len(p)]
  BY <1>2, ConcatProperties
<1>4. /\ r \in Seq(Tld \X Nat) /\ Len(r) = Len(p) + Len(c)
      /\ \A i \in 1 .. Len(p) + Len(c) : r[i] = IF i <= Len(p) THEN p[i] ELSE c[i - Len(p)]
  BY <1>2, ConcatProperties
<1>5. Len(r) = n BY <1>1, <1>2, <1>4
<1> HIDE DEF q, r
<1>6. \A i \in 1 .. n : q[i] \in Tld \X Nat
  <2>1. \A i \in 1 .. n : i \in 1 .. Len(q) BY <1>1, <1>3
  <2> QED BY <1>3, <2>1, ElementOfSeq
<1>7. /\ s \in Seq(Tld \X Nat) /\ Len(s) = n
      /\ \A i \in 1 .. n : s[i] = q[i]
  <2>1. 1 \in Int /\ n \in Int OBVIOUS
  <2>2. /\ s \in Seq(Tld \X Nat)
        /\ Len(s) = IF 1 <= n THEN n - 1 + 1 ELSE 0
        /\ \A i \in 1 .. n - 1 + 1 : s[i] = q[1 + i - 1]
    BY <1>6, <2>1, SubSeqProperties
  <2>3. \A i \in 1 .. n : 1 + i - 1 = i /\ i \in 1 .. n - 1 + 1 OBVIOUS
  <2> QED BY <2>2, <2>3
<1> HIDE DEF s
<1>8. ASSUME NEW i \in 1 .. n PROVE s[i] = r[i]
  <2>1. i \in 1 .. Len(p) + k /\ i \in 1 .. Len(p) + Len(c) BY <1>1, <1>2
  <2>2. CASE i <= Len(p) BY <1>3, <1>4, <1>7, <2>1, <2>2
  <2>3. CASE ~ (i <= Len(p))
    <3>1. i - Len(p) \in 1 .. k /\ i - Len(p) \in 1 .. n - Len(p) BY <1>1, <2>3
    <3>2. b[i - Len(p)] = c[i - Len(p)] BY <1>2, <3>1
    <3> QED BY <1>3, <1>4, <1>7, <2>1, <2>3, <3>2
  <2> QED BY <2>2, <2>3
<1>9. s = r BY <1>4, <1>5, <1>7, <1>8, SeqEqual
<1> QED BY <1>9 DEF s, r, q, b, c

-------------------------------------------------------------------------------
(* SeedSelect: steps. *)

LEMMA SelectingNumbers ==
  IsFiniteSet(Tld) /\ MaxShare \in Nat /\ MaxPool \in Nat /\ MaxCount \in Nat
BY SeedSelectAssumption

LEMMA TotalIs ==
  ASSUME pool \in [Tld -> Nat]
  PROVE  /\ IsFiniteSet(Spots(Tld, pool)) /\ Total = Cardinality(Spots(Tld, pool))
         /\ Total \in Nat /\ (Present # {} => Total > 0)
<1>1. Total = Cardinality(Spots(Tld, pool)) BY DEF Total, Spots
<1>2. IsFiniteSet(Spots(Tld, pool)) /\ Cardinality(Spots(Tld, pool)) \in Nat
  BY SelectingNumbers, SpotsFinite
<1>3. ASSUME Present # {} PROVE Total > 0
  <2>1. PICK t \in Tld : pool[t] > 0 BY <1>3 DEF Present
  <2>2. 1 \in 1 .. pool[t] BY <2>1
  <2>3. <<t, 1>> \in Spots(Tld, pool) BY <2>2, SpotIs
  <2>4. Cardinality(Spots(Tld, pool)) # 0 BY <1>2, <2>3, FS_EmptySet
  <2> QED BY <1>1, <1>2, <2>4
<1> QED BY <1>1, <1>2, <1>3

LEMMA RoundNat ==
  ASSUME NEW a \in Nat, NEW b \in Nat, b > 0
  PROVE  Round(a, b) \in Nat
<1>1. a \div b \in Nat OBVIOUS
<1>2. (a \div b) + 1 \in Nat BY <1>1
<1> QED BY <1>1, <1>2 DEF Round

LEMMA QuotaNat ==
  ASSUME SelectingTypes, NEW t \in Tld
  PROVE  /\ Quota(t) \in Nat /\ pool[t] \in Nat /\ QuotaOf(t) \in Nat
         /\ QuotaOf(t) <= pool[t] /\ Min({Quota(t), pool[t]}) = QuotaOf(t)
<1>1. pool \in [Tld -> Nat] /\ count \in Nat /\ pool[t] \in Nat /\ Present # {}
  BY DEF SelectingTypes
<1>2. Total \in Nat /\ Total > 0 BY <1>1, TotalIs
<1>3. \A a \in Nat, b \in Nat : a * b \in Nat OBVIOUS
<1>4. count * pool[t] \in Nat /\ count * MaxShare \in Nat BY <1>1, <1>3, SelectingNumbers
<1>5. Round(count * pool[t], Total) \in Nat BY <1>2, <1>4, RoundNat
<1>6. Max({1, Round(count * pool[t], Total)}) \in Nat BY <1>5, GreatestOfTwo
<1>7. Cap \in Nat
  <2>1. (count * MaxShare) \div 100 \in Nat
    <3>1. \A a \in Nat : a \div 100 \in Nat OBVIOUS
    <3> QED BY <1>4, <3>1
  <2> QED BY <2>1, GreatestOfTwo DEF Cap
<1>8. Quota(t) \in Nat BY <1>6, <1>7, LeastOfTwo DEF Quota
<1>9. Min({Quota(t), pool[t]}) = QuotaOf(t) BY <1>1, <1>8, LeastOfTwo DEF QuotaOf
<1> QED BY <1>1, <1>8, <1>9 DEF QuotaOf

LEMMA TailOfVisit ==
  ASSUME NEW S, NEW v \in Seq(S), Distinct(v), v # << >>
  PROVE  /\ Head(v) \in S /\ Head(v) \in Range(v)
         /\ Tail(v) \in Seq(S) /\ Distinct(Tail(v))
         /\ Range(Tail(v)) = Range(v) \ {Head(v)}
<1>1. /\ Len(v) \in Nat /\ DOMAIN v = 1 .. Len(v) /\ Len(v) >= 1
  <2>1. Len(v) \in Nat \ {0} BY EmptySeq
  <2> QED BY <2>1, LenProperties
<1>2. Head(v) = v[1] /\ 1 \in DOMAIN v BY <1>1
<1>3. /\ Head(v) \in S /\ Tail(v) \in Seq(S) /\ Len(Tail(v)) = Len(v) - 1
      /\ \A i \in 1 .. Len(Tail(v)) : Tail(v)[i] = v[i + 1]
  BY HeadTailProperties
<1>4. DOMAIN Tail(v) = 1 .. Len(v) - 1 BY <1>3, LenProperties
<1>5. \A i \in 1 .. Len(v) - 1 : Tail(v)[i] = v[i + 1] /\ i + 1 \in 1 .. Len(v) /\ i + 1 # 1
  BY <1>1, <1>3
<1>6. Head(v) \in Range(v) BY <1>2 DEF Range
<1>7. ASSUME NEW i \in 1 .. Len(v) - 1, NEW j \in 1 .. Len(v) - 1, Tail(v)[i] = Tail(v)[j]
      PROVE  i = j
  <2>1. v[i + 1] = v[j + 1] /\ i + 1 \in DOMAIN v /\ j + 1 \in DOMAIN v BY <1>1, <1>5, <1>7
  <2>2. i + 1 = j + 1 BY <2>1 DEF Distinct
  <2> QED BY <1>1, <2>2
<1>8. Distinct(Tail(v)) BY <1>4, <1>7 DEF Distinct
<1>9. ASSUME NEW x PROVE x \in Range(Tail(v)) <=> x \in Range(v) /\ x # Head(v)
  <2>1. ASSUME x \in Range(Tail(v)) PROVE x \in Range(v) /\ x # Head(v)
    <3>1. PICK i \in 1 .. Len(v) - 1 : Tail(v)[i] = x BY <1>4, <2>1 DEF Range
    <3>2. v[i + 1] = x /\ i + 1 \in DOMAIN v /\ i + 1 # 1 BY <1>1, <1>5, <3>1
    <3>3. x \in Range(v) BY <3>2 DEF Range
    <3>4. x # v[1] BY <1>2, <3>2 DEF Distinct
    <3> QED BY <1>2, <3>3, <3>4
  <2>2. ASSUME x \in Range(v), x # Head(v) PROVE x \in Range(Tail(v))
    <3>1. PICK i \in 1 .. Len(v) : v[i] = x BY <1>1, <2>2 DEF Range
    <3>2. i # 1 BY <1>2, <2>2, <3>1
    <3>3. i - 1 \in 1 .. Len(v) - 1 /\ (i - 1) + 1 = i BY <1>1, <3>1, <3>2
    <3>4. Tail(v)[i - 1] = x BY <1>5, <3>1, <3>3
    <3> QED BY <1>4, <3>3, <3>4 DEF Range
  <2> QED BY <2>1, <2>2
<1>10. Range(Tail(v)) = Range(v) \ {Head(v)} BY <1>9
<1> QED BY <1>3, <1>6, <1>8, <1>10

\* The next TLD of a loop.
LEMMA VisitNext ==
  ASSUME SelectingTypes, visit # << >>, visit' = Tail(visit)
  PROVE  /\ Head(visit) \in Present /\ Head(visit) \in Tld /\ Head(visit) \in Range(visit)
         /\ visit' \in Seq(Present) /\ Distinct(visit')
         /\ Range(visit') = Range(visit) \ {Head(visit)}
<1>1. visit \in Seq(Present) /\ Distinct(visit) BY DEF SelectingTypes
<1>2. Present \subseteq Tld BY DEF Present
<1> QED BY <1>1, <1>2, TailOfVisit

LEMMA TypesKept ==
  ASSUME SelectingTypes, pool' = pool, count' = count, order' = order,
         visit' \in Seq(Present), Distinct(visit'),
         stage' \in {"quota", "top up", "done"}, depthExhausted' \in BOOLEAN
  PROVE  SelectingTypes'
<1>1. Present' = Present BY DEF Present
<1> QED BY <1>1 DEF SelectingTypes

LEMMA QuotaDepthIs ==
  ASSUME SelectingTypes
  PROVE  /\ QuotaDepth \in [Tld -> Nat]
         /\ \A t \in Tld : QuotaDepth[t] = (IF t \in Range(visit) THEN 0 ELSE QuotaOf(t))
                           /\ QuotaDepth[t] <= pool[t]
<1>1. \A t \in Tld : QuotaOf(t) \in Nat /\ QuotaOf(t) <= pool[t] /\ pool[t] \in Nat
  BY QuotaNat
<1> QED BY <1>1 DEF QuotaDepth

LEMMA TopUpDepthIs ==
  ASSUME SelectingTypes, taken \in [Tld -> Nat]
  PROVE  /\ TopUpDepth \in [Tld -> Nat]
         /\ \A t \in Tld : /\ TopUpDepth[t] = IF taken[t] <= pool[t] THEN taken[t] ELSE pool[t]
                           /\ TopUpDepth[t] <= pool[t]
<1>1. pool \in [Tld -> Nat] BY DEF SelectingTypes
<1>2. \A t \in Tld : taken[t] \in Nat /\ pool[t] \in Nat BY <1>1
<1>3. \A t \in Tld : TakenOf(t) \in Nat /\ TakenOf(t) <= pool[t] BY <1>2 DEF TakenOf
<1> QED BY <1>3 DEF TopUpDepth, TakenOf

LEMMA TakeQuotaInv ==
  ASSUME SelectingInv, TakeQuota
  PROVE  SelectingInv'
<1> DEFINE t == Head(visit)
           k == QuotaOf(t)
           more == picked \o Candidates(t, 1, k)
<1>1. /\ SelectingTypes /\ stage = "quota" /\ visit # << >> /\ visit' = Tail(visit)
      /\ Best(picked, QuotaDepth) /\ Len(picked) < count
      /\ pool' = pool /\ count' = count /\ order' = order
      /\ taken' = taken /\ depthExhausted' = depthExhausted
  BY DEF SelectingInv, TakeQuota
<1>2. /\ t \in Present /\ t \in Tld /\ t \in Range(visit)
      /\ visit' \in Seq(Present) /\ Distinct(visit') /\ Range(visit') = Range(visit) \ {t}
  BY <1>1, VisitNext
<1>3. k \in Nat /\ k <= pool[t] /\ pool[t] \in Nat /\ Min({Quota(t), pool[t]}) = k
  BY <1>1, <1>2, QuotaNat
<1>4. IF Len(more) >= count
      THEN picked' = FirstCount(more) /\ stage' = "done"
      ELSE picked' = more /\ stage' = stage
  BY <1>3 DEF TakeQuota
<1>5. /\ QuotaDepth \in [Tld -> Nat] /\ QuotaDepth[t] = 0
      /\ \A u \in Tld : QuotaDepth[u] = (IF u \in Range(visit) THEN 0 ELSE QuotaOf(u))
                        /\ QuotaDepth[u] <= pool[u]
  BY <1>1, <1>2, QuotaDepthIs
<1>6. SelectingTypes'
  <2>1. stage' \in {"quota", "top up", "done"} BY <1>1, <1>4
  <2>2. depthExhausted' \in BOOLEAN BY <1>1 DEF SelectingTypes
  <2> QED BY <1>1, <1>2, <2>1, <2>2, TypesKept
<1>7. picked \in Seq(Tld \X Nat) /\ Len(picked) \in Nat /\ count \in Nat
  BY <1>1, BestIs DEF SelectingTypes
<1> HIDE DEF t, k
<1>8. Len(more) = Len(picked) + k
  <2> DEFINE l == [QuotaDepth EXCEPT ![t] = k]
  <2>1. l \in [Tld -> Nat] /\ l[t] = k /\ \A u \in Tld \ {t} : l[u] = QuotaDepth[u]
    BY <1>2, <1>3, <1>5
  <2>2. Best(picked, QuotaDepth) /\ t \in Tld /\ QuotaDepth[t] = 0 /\ k \in Nat
    BY <1>1, <1>2, <1>3, <1>5
  <2> HIDE DEF l
  <2> QED BY <2>1, <2>2, BestBlock
<1>9. CASE Len(more) >= count
  <2> DEFINE n == count - Len(picked)
             l == [QuotaDepth EXCEPT ![t] = n]
  <2>1. n \in Nat /\ n <= k /\ Len(picked) <= count /\ count <= Len(picked) + k
    BY <1>1, <1>3, <1>7, <1>8, <1>9
  <2>2. picked' = SubSeq(more, 1, count)
    <3>1. Len(more) \in Nat BY <1>3, <1>7, <1>8
    <3>2. Min({count, Len(more)}) = count BY <1>7, <1>9, <3>1, LeastOfTwo
    <3> QED BY <1>4, <1>9, <3>2 DEF FirstCount
  <2>3. picked' = picked \o Candidates(t, 1, n)
    BY <1>2, <1>3, <1>7, <2>1, <2>2, BlockCut
  <2>4. l \in [Tld -> Nat] /\ l[t] = n /\ \A u \in Tld \ {t} : l[u] = QuotaDepth[u]
    BY <1>2, <1>5, <2>1
  <2> HIDE DEF l
  <2>5. Best(picked', l) /\ Len(picked') = Len(picked) + n
    BY <1>1, <1>2, <1>5, <2>1, <2>3, <2>4, BestBlock
  <2>6. Len(picked') = count BY <1>7, <2>5
  <2>7. \A u \in Tld : l[u] <= pool[u]
    <3> SUFFICES ASSUME NEW u \in Tld PROVE l[u] <= pool[u] OBVIOUS
    <3>1. CASE u = t BY <1>3, <2>1, <2>4, <3>1
    <3>2. CASE u # t BY <1>5, <2>4, <3>2
    <3> QED BY <3>1, <3>2
  <2>8. \E m \in [Tld -> Nat] :
          /\ Best(picked', m) /\ Len(picked') <= count'
          /\ \A u \in Tld : m[u] <= pool'[u]
          /\ Len(picked') = count' \/ m = pool'
    <3>1. count' = count /\ pool' = pool /\ Len(picked') <= count' BY <1>1, <1>7, <2>6
    <3>2. l \in [Tld -> Nat] BY <2>4
    <3> WITNESS l \in [Tld -> Nat]
    <3> QED BY <2>5, <2>6, <2>7, <3>1
  <2>9. stage' = "done" BY <1>4, <1>9
  <2> QED BY <1>6, <2>8, <2>9 DEF SelectingInv
<1>10. CASE ~ (Len(more) >= count)
  <2>1. picked' = more /\ stage' = "quota" BY <1>1, <1>4, <1>10
  <2>2. /\ QuotaDepth' \in [Tld -> Nat] /\ QuotaDepth'[t] = k
        /\ \A u \in Tld \ {t} : QuotaDepth'[u] = QuotaDepth[u]
    <3>1. \A u : QuotaOf(u)' = QuotaOf(u)
      BY <1>1 DEF QuotaOf, Quota, Cap, Total
    <3>2. QuotaDepth' = [u \in Tld |-> IF u \in Range(visit') THEN 0 ELSE QuotaOf(u)]
      BY <3>1 DEF QuotaDepth
    <3>3. \A u \in Tld : QuotaOf(u) \in Nat BY <1>1, QuotaNat
    <3> QED BY <1>2, <1>5, <3>2, <3>3 DEF k
  <2>3. Best(picked', QuotaDepth')
    BY <1>1, <1>2, <1>3, <1>5, <2>1, <2>2, BestBlock
  <2>4. Len(picked') < count' BY <1>1, <1>3, <1>7, <1>8, <1>10, <2>1
  <2> QED BY <1>6, <2>1, <2>3, <2>4 DEF SelectingInv
<1> QED BY <1>9, <1>10

LEMMA TopUpStartInv ==
  ASSUME SelectingInv, TopUpStart
  PROVE  SelectingInv'
<1>1. /\ SelectingTypes /\ stage = "quota" /\ visit = << >>
      /\ Best(picked, QuotaDepth) /\ Len(picked) < count
      /\ stage' = "top up" /\ taken' = FromQuota /\ depthExhausted' = TRUE
      /\ visit' = order /\ pool' = pool /\ count' = count /\ order' = order
      /\ picked' = picked
  BY DEF SelectingInv, TopUpStart
<1>2. order \in Seq(Present) /\ Distinct(order) /\ Range(order) = Present
  BY <1>1 DEF SelectingTypes
<1>3. SelectingTypes' BY <1>1, <1>2, TypesKept
<1>4. \A t \in Tld : Quota(t) \in Nat /\ pool[t] \in Nat BY <1>1, QuotaNat
<1>5. taken' \in [Tld -> Nat] /\ \A t \in Tld : taken'[t] = Quota(t)
  BY <1>1, <1>4 DEF FromQuota
<1>6. TopUpDepth' = QuotaDepth
  <2>1. Range(visit) = {}
    <3>1. DOMAIN << >> = {} BY EmptySeq
    <3> QED BY <1>1, <3>1 DEF Range
  <2>2. QuotaDepth = [t \in Tld |-> QuotaOf(t)] BY <2>1 DEF QuotaDepth
  <2>3. \A t \in Tld : TakenOf(t)' = QuotaOf(t) BY <1>1, <1>5 DEF TakenOf, QuotaOf
  <2>4. TopUpDepth' = [t \in Tld |-> TakenOf(t)'] BY DEF TopUpDepth
  <2> QED BY <2>2, <2>3, <2>4
<1>7. Present' \ Range(visit') = {}
  <2>1. Present' = Present BY <1>1 DEF Present
  <2> QED BY <1>1, <1>2, <2>1
<1> QED BY <1>1, <1>3, <1>5, <1>6, <1>7 DEF SelectingInv

LEMMA TopUpInv ==
  ASSUME SelectingInv, TopUp
  PROVE  SelectingInv'
<1> DEFINE t == Head(visit)
<1>1. /\ SelectingTypes /\ stage = "top up" /\ visit # << >> /\ visit' = Tail(visit)
      /\ taken \in [Tld -> Nat] /\ Best(picked, TopUpDepth) /\ Len(picked) < count
      /\ depthExhausted => \A u \in Present \ Range(visit) : taken[u] >= pool[u]
      /\ pool' = pool /\ count' = count /\ order' = order
  BY DEF SelectingInv, TopUp
<1>2. /\ t \in Present /\ t \in Tld /\ t \in Range(visit)
      /\ visit' \in Seq(Present) /\ Distinct(visit') /\ Range(visit') = Range(visit) \ {t}
  BY <1>1, VisitNext
<1>3. IF Remains(t)
      THEN /\ picked' = Append(picked, <<t, taken[t] + 1>>)
           /\ taken' = [taken EXCEPT ![t] = @ + 1]
           /\ depthExhausted' = FALSE
           /\ stage' = IF Len(picked) + 1 = count THEN "done" ELSE stage
      ELSE UNCHANGED <<picked, taken, depthExhausted, stage>>
  BY DEF TopUp
<1>4. Present' = Present BY <1>1 DEF Present
<1>5. /\ TopUpDepth \in [Tld -> Nat]
      /\ \A u \in Tld : /\ TopUpDepth[u] = IF taken[u] <= pool[u] THEN taken[u] ELSE pool[u]
                        /\ TopUpDepth[u] <= pool[u]
  BY <1>1, TopUpDepthIs
<1>6. \A u \in Tld : taken[u] \in Nat /\ pool[u] \in Nat BY <1>1 DEF SelectingTypes
<1>7. Len(picked) \in Nat /\ count \in Nat BY <1>1, BestIs DEF SelectingTypes
<1> HIDE DEF t
<1>8. CASE Remains(t)
  <2>1. /\ picked' = Append(picked, <<t, taken[t] + 1>>)
        /\ taken' = [taken EXCEPT ![t] = @ + 1] /\ depthExhausted' = FALSE
        /\ stage' = IF Len(picked) + 1 = count THEN "done" ELSE stage
        /\ taken[t] < pool[t]
    BY <1>3, <1>8 DEF Remains
  <2>2. SelectingTypes'
    <3>1. stage' \in {"quota", "top up", "done"} BY <1>1, <2>1
    <3> QED BY <1>1, <1>2, <2>1, <3>1, TypesKept
  <2>3. /\ taken' \in [Tld -> Nat] /\ taken'[t] = taken[t] + 1
        /\ \A u \in Tld \ {t} : taken'[u] = taken[u]
    <3>1. taken \in [Tld -> Nat] /\ taken[t] + 1 \in Nat /\ t \in Tld
      <4>1. taken[t] \in Nat BY <1>2, <1>6
      <4>2. taken[t] + 1 \in Nat BY <4>1
      <4> QED BY <1>1, <1>2, <4>2
    <3>2. taken' = [taken EXCEPT ![t] = taken[t] + 1] BY <2>1
    <3> QED BY <3>1, <3>2
  <2>4. /\ TopUpDepth' \in [Tld -> Nat]
        /\ \A u \in Tld : /\ TopUpDepth'[u] = IF taken'[u] <= pool[u] THEN taken'[u] ELSE pool[u]
                          /\ TopUpDepth'[u] <= pool[u]
    <3>1. \A u \in Tld : TakenOf(u)' = IF taken'[u] <= pool[u] THEN taken'[u] ELSE pool[u]
      BY <1>1 DEF TakenOf
    <3>2. \A u \in Tld : taken'[u] \in Nat BY <2>3
    <3>3. \A u \in Tld : TakenOf(u)' \in Nat /\ TakenOf(u)' <= pool[u] BY <1>6, <3>1, <3>2
    <3>4. TopUpDepth' = [u \in Tld |-> TakenOf(u)'] BY DEF TopUpDepth
    <3> QED BY <3>1, <3>3, <3>4
  <2>5. TopUpDepth[t] = taken[t] /\ TopUpDepth'[t] = taken[t] + 1
    <3>1. taken[t] \in Nat /\ pool[t] \in Nat /\ taken[t] < pool[t] BY <1>2, <1>6, <2>1
    <3>2. taken[t] <= pool[t] /\ taken[t] + 1 <= pool[t] BY <3>1
    <3> QED BY <1>2, <1>5, <2>3, <2>4, <3>2
  <2>6. \A u \in Tld \ {t} : TopUpDepth'[u] = TopUpDepth[u] BY <1>5, <2>3, <2>4
  <2>7. Best(picked', TopUpDepth') /\ Len(picked') = Len(picked) + 1
    <3>1. Best(picked, TopUpDepth) /\ t \in Tld /\ TopUpDepth'[t] = TopUpDepth[t] + 1
      BY <1>1, <1>2, <2>5
    <3>2. picked' = Append(picked, <<t, TopUpDepth'[t]>>) BY <2>1, <2>5
    <3> QED BY <2>4, <2>6, <3>1, <3>2, BestAppend
  <2>8. /\ Len(picked') = Len(picked) + 1 /\ count' = count /\ pool' = pool
        /\ Len(picked) \in Nat /\ count \in Nat /\ Len(picked) < count
    BY <1>1, <1>7, <2>7
  <2>9. CASE Len(picked) + 1 = count
    <3>1. stage' = "done" BY <2>1, <2>9
    <3>2. \E m \in [Tld -> Nat] :
            /\ Best(picked', m) /\ Len(picked') <= count'
            /\ \A u \in Tld : m[u] <= pool'[u]
            /\ Len(picked') = count' \/ m = pool'
      <4>1. Len(picked') = count' /\ Len(picked') <= count' /\ pool' = pool
        BY <2>9, <2>8
      <4>2. TopUpDepth' \in [Tld -> Nat] BY <2>4
      <4>3. \A u \in Tld : TopUpDepth'[u] <= pool'[u] BY <2>4, <4>1
      <4> WITNESS TopUpDepth' \in [Tld -> Nat]
      <4> QED BY <2>7, <4>1, <4>3
    <3> QED BY <2>2, <3>1, <3>2 DEF SelectingInv
  <2>10. CASE Len(picked) + 1 # count
    <3>1. stage' = "top up" BY <1>1, <2>1, <2>10
    <3>2. Len(picked') < count' BY <2>10, <2>8
    <3> QED BY <2>1, <2>2, <2>3, <2>7, <3>1, <3>2 DEF SelectingInv
  <2> QED BY <2>9, <2>10
<1>9. CASE ~ Remains(t)
  <2>1. picked' = picked /\ taken' = taken /\ depthExhausted' = depthExhausted /\ stage' = stage
    BY <1>3, <1>9
  <2>2. SelectingTypes'
    <3>1. stage' \in {"quota", "top up", "done"} /\ depthExhausted' \in BOOLEAN
      BY <1>1, <2>1 DEF SelectingTypes
    <3> QED BY <1>1, <1>2, <3>1, TypesKept
  <2>3. TopUpDepth' = TopUpDepth BY <1>1, <2>1 DEF TopUpDepth, TakenOf
  <2>4. taken[t] >= pool[t]
    <3>1. taken[t] \in Nat /\ pool[t] \in Nat BY <1>2, <1>6
    <3> QED BY <1>9, <3>1 DEF Remains
  <2>5. depthExhausted' => \A u \in Present' \ Range(visit') : taken'[u] >= pool'[u]
    BY <1>1, <1>2, <1>4, <2>1, <2>4
  <2> QED BY <1>1, <2>1, <2>2, <2>3, <2>5 DEF SelectingInv
<1> QED BY <1>8, <1>9

LEMMA NextRoundInv ==
  ASSUME SelectingInv, NextRound
  PROVE  SelectingInv'
<1>1. /\ SelectingTypes /\ stage = "top up" /\ visit = << >>
      /\ taken \in [Tld -> Nat] /\ Best(picked, TopUpDepth) /\ Len(picked) < count
      /\ depthExhausted => \A u \in Present \ Range(visit) : taken[u] >= pool[u]
      /\ pool' = pool /\ count' = count /\ order' = order /\ picked' = picked /\ taken' = taken
  BY DEF SelectingInv, NextRound
<1>2. /\ order \in Seq(Present) /\ Distinct(order) /\ Range(order) = Present
      /\ visit \in Seq(Present) /\ Distinct(visit) /\ pool \in [Tld -> Nat]
  BY <1>1 DEF SelectingTypes
<1>3. Present' = Present BY <1>1 DEF Present
<1>4. CASE depthExhausted
  <2>1. stage' = "done" /\ visit' = visit /\ depthExhausted' = TRUE
    BY <1>1, <1>4 DEF NextRound, Exhausted, SelectingTypes
  <2>2. SelectingTypes' BY <1>1, <1>2, <2>1, TypesKept
  <2>3. TopUpDepth = pool
    <3>1. Range(visit) = {}
      <4>1. DOMAIN << >> = {} BY EmptySeq
      <4> QED BY <1>1, <4>1 DEF Range
    <3>2. ASSUME NEW t \in Tld PROVE TakenOf(t) = pool[t]
      <4>1. taken[t] \in Nat /\ pool[t] \in Nat BY <1>1, <1>2
      <4>2. taken[t] >= pool[t]
        <5>1. CASE t \in Present BY <1>1, <1>4, <3>1, <5>1
        <5>2. CASE t \notin Present
          <6>1. pool[t] = 0 BY <4>1, <5>2 DEF Present
          <6> QED BY <4>1, <6>1
        <5> QED BY <5>1, <5>2
      <4> QED BY <4>1, <4>2 DEF TakenOf
    <3> QED BY <1>2, <3>2 DEF TopUpDepth
  <2>4. \E m \in [Tld -> Nat] :
          /\ Best(picked', m) /\ Len(picked') <= count'
          /\ \A u \in Tld : m[u] <= pool'[u]
          /\ Len(picked') = count' \/ m = pool'
    <3>1. Len(picked') <= count'
      <4>1. Len(picked) \in Nat BY <1>1, BestIs
      <4>2. count \in Nat BY <1>1 DEF SelectingTypes
      <4>3. Len(picked) < count /\ picked' = picked /\ count' = count BY <1>1
      <4> QED BY <4>1, <4>2, <4>3
    <3>2. \A u \in Tld : pool[u] <= pool'[u]
      <4>1. pool' = pool /\ \A u \in Tld : pool[u] \in Nat BY <1>1, <1>2
      <4> QED BY <4>1
    <3>3. Best(picked', pool) /\ pool = pool' BY <1>1, <2>3
    <3>4. pool \in [Tld -> Nat] BY <1>2
    <3> WITNESS pool \in [Tld -> Nat]
    <3> QED BY <3>1, <3>2, <3>3
  <2> QED BY <2>1, <2>2, <2>4 DEF SelectingInv
<1>5. CASE ~ depthExhausted
  <2>1. stage' = "top up" /\ visit' = order /\ depthExhausted' = TRUE
    BY <1>1, <1>5 DEF NextRound, Exhausted
  <2>2. SelectingTypes' BY <1>1, <1>2, <2>1, TypesKept
  <2>3. TopUpDepth' = TopUpDepth BY <1>1 DEF TopUpDepth, TakenOf
  <2>4. Present' \ Range(visit') = {} BY <1>2, <1>3, <2>1
  <2> QED BY <1>1, <2>1, <2>2, <2>3, <2>4 DEF SelectingInv
<1> QED BY <1>4, <1>5

LEMMA SelectingInitInv == SelectingInit => SelectingInv
<1> SUFFICES ASSUME SelectingInit PROVE SelectingInv OBVIOUS
<1>1. /\ pool \in [Tld -> 0 .. MaxPool] /\ Present # {} /\ count \in 1 .. MaxCount
      /\ order \in SetToSeqs(Present) /\ visit = order
      /\ stage = "quota" /\ picked = << >> /\ depthExhausted = FALSE
  BY DEF SelectingInit
<1>2. pool \in [Tld -> Nat] /\ count \in Nat /\ count >= 1
  <2>1. pool \in [Tld -> Nat]
    <3>1. \A t \in Tld : pool[t] \in Nat BY <1>1, SelectingNumbers
    <3> QED BY <1>1, <3>1
  <2> QED BY <1>1, <2>1, SelectingNumbers
<1>3. order \in Seq(Present) /\ Distinct(order) /\ Range(order) = Present
  <2> DEFINE n == Cardinality(Present)
  <2>1. IsFiniteSet(Present) /\ n \in Nat
    <3>1. Present \subseteq Tld BY DEF Present
    <3> QED BY <3>1, SelectingNumbers, FS_Subset, FS_CardinalityType
  <2>2. order \in [1 .. n -> Present] /\ \A i, j \in 1 .. n : i # j => order[i] # order[j]
    BY <1>1 DEF SetToSeqs
  <2> HIDE DEF n
  <2>3. order \in Seq(Present) /\ Distinct(order) BY <2>1, <2>2 DEF Distinct
  <2>4. order \in Injection(1 .. n, Present) BY <2>2 DEF Injection, IsInjective
  <2>5. Cardinality(1 .. n) = n
    <3>1. 1 \in Int /\ n \in Int BY <2>1
    <3>2. Cardinality(1 .. n) = IF 1 > n THEN 0 ELSE n - 1 + 1 BY <3>1, FS_Interval
    <3> QED BY <2>1, <3>2
  <2>6. order \in Surjection(1 .. n, Present)
    <3>1. Cardinality(1 .. n) = Cardinality(Present) <=> order \in Surjection(1 .. n, Present)
      BY <2>1, <2>4, FS_Injection
    <3> QED BY <2>5, <3>1 DEF n
  <2>7. Range(order) = Present BY <2>2, <2>6 DEF Surjection, Range
  <2> QED BY <2>3, <2>7
<1>4. SelectingTypes BY <1>1, <1>2, <1>3 DEF SelectingTypes
<1>5. QuotaDepth \in [Tld -> Nat] /\ \A t \in Tld : QuotaDepth[t] = 0
  <2>1. ASSUME NEW t \in Tld PROVE QuotaDepth[t] = 0
    <3>1. CASE t \in Range(visit) BY <3>1 DEF QuotaDepth
    <3>2. CASE t \notin Range(visit)
      <4>1. QuotaOf(t) \in Nat /\ QuotaOf(t) <= pool[t] /\ pool[t] \in Nat BY <1>4, QuotaNat
      <4>2. pool[t] = 0 BY <1>1, <1>3, <3>2, <4>1 DEF Present
      <4>3. QuotaOf(t) = 0 BY <4>1, <4>2
      <4> QED BY <3>2, <4>3 DEF QuotaDepth
    <3> QED BY <3>1, <3>2
  <2> QED BY <1>4, <2>1, QuotaDepthIs
<1>6. << >> \in Seq(Tld \X Nat) /\ Len(<< >>) = 0 /\ DOMAIN << >> = {} BY EmptySeq
<1>7. Best(picked, QuotaDepth)
  <2>1. \A t \in Tld : 1 .. QuotaDepth[t] = {} BY <1>5
  <2> QED BY <1>1, <1>5, <1>6, <2>1 DEF Best
<1>8. Len(picked) < count BY <1>1, <1>2, <1>6
<1> QED BY <1>1, <1>4, <1>7, <1>8 DEF SelectingInv

LEMMA SelectingStepInv == SelectingInv /\ [SelectingNext]_selectingVars => SelectingInv'
<1> SUFFICES ASSUME SelectingInv, [SelectingNext]_selectingVars PROVE SelectingInv'
  OBVIOUS
<1>1. CASE SelectingNext
  BY <1>1, TakeQuotaInv, TopUpStartInv, TopUpInv, NextRoundInv DEF SelectingNext
<1>2. CASE UNCHANGED selectingVars
  <2>1. /\ pool' = pool /\ count' = count /\ order' = order /\ visit' = visit
        /\ stage' = stage /\ picked' = picked /\ taken' = taken
        /\ depthExhausted' = depthExhausted
    BY <1>2 DEF selectingVars
  <2>2. Present' = Present BY <2>1 DEF Present
  <2>3. SelectingTypes' BY <2>1, <2>2 DEF SelectingInv, SelectingTypes
  <2>4. QuotaDepth' = QuotaDepth
    BY <2>1 DEF QuotaDepth, QuotaOf, Quota, Cap, Total
  <2>5. TopUpDepth' = TopUpDepth BY <2>1 DEF TopUpDepth, TakenOf
  <2> QED BY <2>1, <2>2, <2>3, <2>4, <2>5 DEF SelectingInv
<1> QED BY <1>1, <1>2

\* The picks are always the best of some depth of each list.
LEMMA SelectedAreBest ==
  ASSUME SelectingInv
  PROVE  BestOfEach
<1>1. \E m : Best(picked, m) BY DEF SelectingInv, SelectingTypes
<1> QED BY <1>1, BestPicks

LEMMA SelectedAsMany ==
  ASSUME SelectingInv
  PROVE  AsManyAsAsked
<1> SUFFICES ASSUME stage = "done" PROVE Len(picked) = Min({count, Total})
  BY DEF AsManyAsAsked
<1>1. SelectingTypes BY DEF SelectingInv
<1>2. PICK m \in [Tld -> Nat] :
        /\ Best(picked, m) /\ Len(picked) <= count
        /\ \A t \in Tld : m[t] <= pool[t]
        /\ Len(picked) = count \/ m = pool
  BY DEF SelectingInv
<1>3. pool \in [Tld -> Nat] /\ count \in Nat BY <1>1 DEF SelectingTypes
<1>4. IsFiniteSet(Spots(Tld, pool)) /\ Total = Cardinality(Spots(Tld, pool)) /\ Total \in Nat
  BY <1>3, TotalIs
<1>5. Len(picked) = Cardinality(Spots(Tld, m)) BY <1>2, BestLength
<1>6. Len(picked) \in Nat BY <1>2, BestIs
<1>7. Spots(Tld, m) \subseteq Spots(Tld, pool)
  <2> SUFFICES ASSUME NEW t \in Tld, NEW n \in 1 .. m[t]
               PROVE  <<t, n>> \in Spots(Tld, pool)
    BY SpotIs
  <2>1. m[t] \in Nat /\ pool[t] \in Nat /\ m[t] <= pool[t] BY <1>2, <1>3
  <2>2. n \in 1 .. pool[t] BY <2>1
  <2> QED BY <2>2, SpotIs
<1>8. Len(picked) <= Total BY <1>4, <1>5, <1>7, FS_Subset
<1>9. Min({count, Total}) = IF count <= Total THEN count ELSE Total
  BY <1>3, <1>4, LeastOfTwo
<1>10. CASE Len(picked) = count BY <1>8, <1>9, <1>10
<1>11. CASE m = pool
  <2>1. Len(picked) = Total BY <1>4, <1>5, <1>11
  <2>2. Len(picked) <= count BY <1>2
  <2> QED BY <1>3, <1>4, <1>9, <2>1, <2>2
<1> QED BY <1>2, <1>10, <1>11

LEMMA SelectingInvariant == Spec => [](part = "selecting" => SelectingInv)
<1>1. Init => (part = "selecting" => SelectingInv)
  <2> SUFFICES ASSUME Init, part = "selecting" PROVE SelectingInv OBVIOUS
  <2>1. SelectingInit BY DEF Init
  <2> QED BY <2>1, SelectingInitInv
<1>2. (part = "selecting" => SelectingInv) /\ [Next]_vars
        => (part = "selecting" => SelectingInv)'
  <2> SUFFICES ASSUME part = "selecting" => SelectingInv, [Next]_vars, part' = "selecting"
               PROVE  SelectingInv'
    OBVIOUS
  <2>1. part = "selecting" /\ [SelectingNext]_selectingVars
    <3>1. CASE Next
      BY <3>1 DEF Next, SavingRuns, CountingRuns, LoggingRuns, CheckingRuns,
                  SelectingRuns, ProbingRuns
    <3>2. CASE UNCHANGED vars BY <3>2 DEF vars
    <3> QED BY <3>1, <3>2
  <2> QED BY <2>1, SelectingStepInv
<1> QED BY <1>1, <1>2, PTL DEF Spec

\* The picks of a TLD are its best candidates, each once, although the first loop
\* cuts them off at a count and the second continues where the first has left
\* off; and the loops end with as many as were asked for, or with all there are
\* (build_seeds.py:150-168).
THEOREM SelectedBest == Spec => []BestSelected
<1>1. (part = "selecting" => SelectingInv) => BestSelected
  BY SelectedAreBest, SelectedAsMany DEF BestSelected
<1> QED BY <1>1, SelectingInvariant, PTL

-------------------------------------------------------------------------------
(* What is sorted: the elements of a finite set in a strict total order.   *)

Orders(R, S) ==
  /\ IsFiniteSet(S)
  /\ \A x \in S : <<x, x>> \notin R
  /\ \A x, y, z \in S : <<x, y>> \in R /\ <<y, z>> \in R => <<x, z>> \in R
  /\ \A x, y \in S : x # y => <<x, y>> \in R \/ <<y, x>> \in R

\* How many are before it.
Rank(R, S, x) == Cardinality({y \in S : <<y, x>> \in R})

LEMMA RankIs ==
  ASSUME NEW R, NEW S, Orders(R, S), NEW x \in S
  PROVE  Rank(R, S, x) \in 0 .. Cardinality(S) - 1 /\ Cardinality(S) \in Nat
<1> DEFINE B == {y \in S : <<y, x>> \in R}
<1>1. IsFiniteSet(S) /\ Cardinality(S) \in Nat BY FS_CardinalityType DEF Orders
<1>2. B \in SUBSET S /\ x \notin B BY DEF Orders
<1>3. Cardinality(B) \in Nat /\ Cardinality(B) <= Cardinality(S)
      /\ (Cardinality(S) = Cardinality(B) => S = B)
  <2> HIDE DEF B
  <2> QED BY <1>1, <1>2, FS_Subset, FS_CardinalityType
<1>4. S # B BY <1>2
<1> HIDE DEF B
<1>5. Cardinality(B) \in 0 .. Cardinality(S) - 1 BY <1>1, <1>3, <1>4
<1> QED BY <1>1, <1>5 DEF Rank, B

LEMMA RankGrows ==
  ASSUME NEW R, NEW S, Orders(R, S), NEW x \in S, NEW y \in S, <<x, y>> \in R
  PROVE  Rank(R, S, x) < Rank(R, S, y)
<1> DEFINE B == {z \in S : <<z, x>> \in R}
           C == {z \in S : <<z, y>> \in R}
<1>1. B \subseteq C BY DEF Orders
<1>2. x \in C /\ x \notin B BY DEF Orders
<1>3. IsFiniteSet(S) /\ C \subseteq S BY DEF Orders
<1> HIDE DEF B, C
<1>4. IsFiniteSet(C) BY <1>3, FS_Subset
<1>5. Cardinality(B) <= Cardinality(C) /\ (Cardinality(C) = Cardinality(B) => C = B)
  BY <1>1, <1>4, FS_Subset
<1>6. Cardinality(B) # Cardinality(C) BY <1>2, <1>5
<1>7. Cardinality(B) \in Nat /\ Cardinality(C) \in Nat
  <2>1. Rank(R, S, x) \in Nat /\ Rank(R, S, y) \in Nat BY RankIs
  <2> QED BY <2>1 DEF Rank, B, C
<1>8. Cardinality(B) < Cardinality(C) BY <1>5, <1>6, <1>7
<1> QED BY <1>8 DEF Rank, B, C

\* Each place of the sorted sequence is the rank of one element.
LEMMA RankTaken ==
  ASSUME NEW R, NEW S, Orders(R, S), NEW i \in 1 .. Cardinality(S)
  PROVE  \E x \in S : Rank(R, S, x) = i - 1
<1> DEFINE n == Cardinality(S)
           f == [x \in S |-> Rank(R, S, x)]
<1>1. IsFiniteSet(S) /\ n \in Nat BY FS_CardinalityType DEF Orders
<1>2. f \in [S -> 0 .. n - 1] BY RankIs
<1>3. ASSUME NEW x \in S, NEW y \in S, x # y PROVE f[x] # f[y]
  <2>1. Rank(R, S, x) \in Nat /\ Rank(R, S, y) \in Nat BY RankIs
  <2>2. <<x, y>> \in R \/ <<y, x>> \in R BY <1>3 DEF Orders
  <2>3. Rank(R, S, x) < Rank(R, S, y) \/ Rank(R, S, y) < Rank(R, S, x) BY <2>2, RankGrows
  <2> QED BY <2>1, <2>3
<1> HIDE DEF f, n
<1>4. f \in Injection(S, 0 .. n - 1) BY <1>2, <1>3 DEF Injection, IsInjective
<1>5. IsFiniteSet(0 .. n - 1) /\ Cardinality(0 .. n - 1) = n
  <2>1. 0 \in Int /\ n - 1 \in Int BY <1>1
  <2>2. IsFiniteSet(0 .. n - 1)
        /\ Cardinality(0 .. n - 1) = IF 0 > n - 1 THEN 0 ELSE (n - 1) - 0 + 1
    BY <2>1, FS_Interval
  <2> QED BY <1>1, <2>2
<1>6. f \in Surjection(S, 0 .. n - 1)
  <2>1. Cardinality(S) = Cardinality(0 .. n - 1) <=> f \in Surjection(S, 0 .. n - 1)
    BY <1>4, <1>5, FS_Injection
  <2> QED BY <1>5, <2>1 DEF n
<1>7. i - 1 \in 0 .. n - 1 BY <1>1 DEF n
<1>8. PICK x \in S : f[x] = i - 1 BY <1>6, <1>7 DEF Surjection
<1> QED BY <1>8 DEF f

\* The sorted sequence.
Arranged(R, S) ==
  [i \in 1 .. Cardinality(S) |-> CHOOSE x \in S : Rank(R, S, x) = i - 1]

LEMMA ArrangedIs ==
  ASSUME NEW R, NEW S, Orders(R, S)
  PROVE  /\ Cardinality(S) \in Nat /\ Arranged(R, S) \in [1 .. Cardinality(S) -> S]
         /\ \A i, j \in 1 .. Cardinality(S) :
              i < j => <<Arranged(R, S)[i], Arranged(R, S)[j]>> \in R
         /\ \A x \in S : \E i \in 1 .. Cardinality(S) : Arranged(R, S)[i] = x
<1> DEFINE n == Cardinality(S)
           p == Arranged(R, S)
           rank(x) == Rank(R, S, x)
<1>1. n \in Nat BY FS_CardinalityType DEF Orders
<1>2. \A x \in S : rank(x) \in 0 .. n - 1 BY RankIs
<1>3. \A i \in 1 .. n : \E x \in S : rank(x) = i - 1 BY RankTaken
<1>4. \A x, y \in S : <<x, y>> \in R => rank(x) < rank(y) BY RankGrows
<1>5. p = [i \in 1 .. n |-> CHOOSE x \in S : rank(x) = i - 1] BY DEF Arranged
<1>6. \A x, y \in S : x # y => <<x, y>> \in R \/ <<y, x>> \in R BY DEF Orders
<1> HIDE DEF n, p, rank
<1>7. p \in [1 .. n -> S] /\ \A i \in 1 .. n : rank(p[i]) = i - 1 BY <1>3, <1>5
<1>8. ASSUME NEW i \in 1 .. n, NEW j \in 1 .. n, i < j PROVE <<p[i], p[j]>> \in R
  <2>1. p[i] \in S /\ p[j] \in S /\ rank(p[i]) = i - 1 /\ rank(p[j]) = j - 1 BY <1>7
  <2>2. p[i] # p[j] BY <1>1, <1>8, <2>1
  <2>3. CASE <<p[j], p[i]>> \in R
    <3>1. rank(p[j]) < rank(p[i]) BY <1>4, <2>1, <2>3
    <3> QED BY <1>1, <1>8, <2>1, <3>1
  <2> QED BY <1>6, <2>1, <2>2, <2>3
<1>9. ASSUME NEW x \in S PROVE \E i \in 1 .. n : p[i] = x
  <2> DEFINE i == rank(x) + 1
  <2>1. rank(x) \in 0 .. n - 1 BY <1>2
  <2>2. i \in 1 .. n /\ rank(x) = i - 1 BY <1>1, <2>1
  <2> HIDE DEF i
  <2>3. p[i] \in S /\ rank(p[i]) = rank(x) BY <1>7, <2>2
  <2>4. <<p[i], x>> \notin R /\ <<x, p[i]>> \notin R
    <3>1. rank(x) \in Nat BY <2>1
    <3>2. <<p[i], x>> \in R => rank(p[i]) < rank(x) BY <1>4, <2>3
    <3>3. <<x, p[i]>> \in R => rank(x) < rank(p[i]) BY <1>4, <2>3
    <3> QED BY <2>3, <3>1, <3>2, <3>3
  <2> QED BY <1>6, <2>2, <2>3, <2>4
<1> QED BY <1>1, <1>7, <1>8, <1>9 DEF n, p

\* Numbers.
Lower(S) == {p \in S \X S : p[1] < p[2]}

LEMMA LowerOrders ==
  ASSUME NEW S, S \subseteq Int, IsFiniteSet(S)
  PROVE  /\ Orders(Lower(S), S)
         /\ \A u \in S : Rank(Lower(S), S, u) = Cardinality({v \in S : v < u})
         /\ \A u, v \in S : <<u, v>> \in Lower(S) <=> u < v
<1>1. \A u, v \in S : <<u, v>> \in Lower(S) <=> u < v BY DEF Lower
<1>2. Orders(Lower(S), S)
  <2>1. \A x \in S : <<x, x>> \notin Lower(S) BY <1>1
  <2>2. \A x, y, z \in S : <<x, y>> \in Lower(S) /\ <<y, z>> \in Lower(S)
                             => <<x, z>> \in Lower(S)
    BY <1>1
  <2>3. \A x, y \in S : x # y => <<x, y>> \in Lower(S) \/ <<y, x>> \in Lower(S) BY <1>1
  <2> QED BY <2>1, <2>2, <2>3 DEF Orders
<1>3. ASSUME NEW u \in S PROVE Rank(Lower(S), S, u) = Cardinality({v \in S : v < u})
  <2>1. {v \in S : <<v, u>> \in Lower(S)} = {v \in S : v < u} BY <1>1
  <2> QED BY <2>1 DEF Rank
<1> QED BY <1>1, <1>2, <1>3

LEMMA LeastIs ==
  ASSUME NEW S, S \subseteq Int, IsFiniteSet(S), S # {}
  PROVE  Min(S) \in S /\ \A y \in S : Min(S) <= y
<1>1. /\ Orders(Lower(S), S) /\ \A u, v \in S : <<u, v>> \in Lower(S) <=> u < v
  BY LowerOrders
<1>2. Cardinality(S) \in Nat /\ Cardinality(S) # 0 BY FS_CardinalityType, FS_EmptySet
<1>3. 1 \in 1 .. Cardinality(S) BY <1>2
<1>4. PICK x \in S : Rank(Lower(S), S, x) = 1 - 1 BY <1>1, <1>3, RankTaken
<1>5. ASSUME NEW y \in S PROVE x <= y
  <2>1. CASE y < x
    <3>1. Rank(Lower(S), S, y) < Rank(Lower(S), S, x) BY <1>1, <2>1, RankGrows
    <3>2. Rank(Lower(S), S, y) \in Nat BY <1>1, RankIs
    <3> QED BY <1>4, <3>1, <3>2
  <2> QED BY <2>1
<1>6. \E m \in S : \A y \in S : m <= y BY <1>5
<1> QED BY <1>6 DEF Min

LEMMA GreatestIs ==
  ASSUME NEW S, S \subseteq Int, IsFiniteSet(S), S # {}
  PROVE  Max(S) \in S /\ \A y \in S : y <= Max(S)
<1> DEFINE n == Cardinality(S)
<1>1. /\ Orders(Lower(S), S) /\ \A u, v \in S : <<u, v>> \in Lower(S) <=> u < v
  BY LowerOrders
<1>2. n \in Nat /\ n # 0 BY FS_CardinalityType, FS_EmptySet
<1>3. n \in 1 .. Cardinality(S) BY <1>2
<1>4. PICK x \in S : Rank(Lower(S), S, x) = n - 1 BY <1>1, <1>3, RankTaken
<1>5. ASSUME NEW y \in S PROVE y <= x /\ x >= y
  <2>1. CASE x < y
    <3>1. Rank(Lower(S), S, x) < Rank(Lower(S), S, y) BY <1>1, <2>1, RankGrows
    <3>2. Rank(Lower(S), S, y) \in 0 .. n - 1 BY <1>1, RankIs
    <3> QED BY <1>2, <1>4, <3>1, <3>2
  <2> QED BY <2>1
<1>6. \E m \in S : \A y \in S : m >= y BY <1>5
<1>7. Max(S) \in S /\ \A y \in S : Max(S) >= y BY <1>6 DEF Max
<1> QED BY <1>7

-------------------------------------------------------------------------------
(* SeedProbe. *)

\* WriteSeeds is the last step.
ProbingInv ==
  /\ waiting \subseteq Place /\ fetching \subseteq Place
  /\ finished => waiting = {} /\ fetching = {} /\ kept = Kept

LEMMA PlaceIs ==
  /\ Place \subseteq Nat /\ IsFiniteSet(Place)
  /\ MaxKept \in Nat /\ MaxKept >= 1
<1>1. Place = 1 .. Len(Candidate) /\ Len(Candidate) \in Nat
  BY SeedProbeAssumption, LenProperties DEF Place
<1>2. IsFiniteSet(1 .. Len(Candidate)) BY <1>1, FS_Interval
<1> QED BY <1>1, <1>2, SeedProbeAssumption

\* Ranked is the sorted sequence.
LEMMA RankedIs ==
  ASSUME NEW S, S \subseteq Place
  PROVE  /\ Cardinality(S) \in Nat /\ Ranked(S) \in [1 .. Cardinality(S) -> S]
         /\ \A i, j \in 1 .. Cardinality(S) : i < j => Ranked(S)[i] < Ranked(S)[j]
         /\ \A u \in S : \E i \in 1 .. Cardinality(S) : Ranked(S)[i] = u
<1> DEFINE n == Cardinality(S)
           s == Arranged(Lower(S), S)
<1>1. S \subseteq Int /\ IsFiniteSet(S)
  <2>1. S \subseteq Int BY PlaceIs
  <2>2. IsFiniteSet(S) BY PlaceIs, FS_Subset
  <2> QED BY <2>1, <2>2
<1>2. /\ Orders(Lower(S), S)
      /\ \A u \in S : Rank(Lower(S), S, u) = Cardinality({v \in S : v < u})
      /\ \A u, v \in S : <<u, v>> \in Lower(S) <=> u < v
  BY <1>1, LowerOrders
<1>3. Ranked(S) = s BY <1>2 DEF Ranked, Arranged
<1>4. /\ n \in Nat /\ s \in [1 .. n -> S]
      /\ \A i, j \in 1 .. n : i < j => <<s[i], s[j]>> \in Lower(S)
      /\ \A u \in S : \E i \in 1 .. n : s[i] = u
  BY <1>2, ArrangedIs
<1> HIDE DEF n, s
<1>5. \A i, j \in 1 .. n : i < j => s[i] < s[j] BY <1>2, <1>4
<1> QED BY <1>3, <1>4, <1>5 DEF n, s

LEMMA KeptIsBest ==
  ASSUME kept = Kept
  PROVE  \A u \in Good :
           \/ \E i \in DOMAIN kept : kept[i] = u /\ \A j \in 1 .. i - 1 : kept[j] < u
           \/ Len(kept) = MaxKept /\ \A i \in DOMAIN kept : kept[i] < u
<1> DEFINE n == Cardinality(Good)
           s == Ranked(Good)
           cut == Min({MaxKept, n})
<1>1. Good \subseteq Place BY DEF Good, Urls
<1>2. /\ n \in Nat /\ s \in [1 .. n -> Good]
      /\ \A i, j \in 1 .. n : i < j => s[i] < s[j]
      /\ \A u \in Good : \E i \in 1 .. n : s[i] = u
  BY <1>1, RankedIs
<1>3. cut \in Nat /\ cut <= n /\ (cut = MaxKept \/ cut = n) /\ MaxKept \in Nat
  <2>1. cut = IF MaxKept <= n THEN MaxKept ELSE n BY <1>2, PlaceIs, LeastOfTwo
  <2> QED BY <1>2, <2>1, PlaceIs
<1>4. kept = SubSeq(s, 1, cut) BY DEF Kept
<1> HIDE DEF n, s, cut
<1>5. s \in Seq(Good) /\ Len(s) = n BY <1>2
<1>6. Len(kept) = cut /\ DOMAIN kept = 1 .. cut /\ \A i \in 1 .. cut : kept[i] = s[i]
  <2>1. kept = [i \in 1 .. cut |-> s[i]]
    <3>1. \A i \in 1 .. cut : i + 1 - 1 = i BY <1>3
    <3> QED BY <1>3, <1>4, <1>5
  <2> QED BY <1>3, <2>1
<1> SUFFICES ASSUME NEW u \in Good
             PROVE  \/ \E i \in DOMAIN kept : kept[i] = u /\ \A j \in 1 .. i - 1 : kept[j] < u
                    \/ Len(kept) = MaxKept /\ \A i \in DOMAIN kept : kept[i] < u
  OBVIOUS
<1>7. PICK i \in 1 .. n : s[i] = u BY <1>2
<1>8. CASE i <= cut
  <2>1. i \in DOMAIN kept /\ kept[i] = u BY <1>2, <1>3, <1>6, <1>7, <1>8
  <2>2. \A j \in 1 .. i - 1 : kept[j] < u
    <3> SUFFICES ASSUME NEW j \in 1 .. i - 1 PROVE kept[j] < u OBVIOUS
    <3>1. j \in 1 .. n /\ j \in 1 .. cut /\ j < i BY <1>2, <1>3, <1>8
    <3> QED BY <1>2, <1>6, <1>7, <3>1
  <2> QED BY <2>1, <2>2
<1>9. CASE ~ i <= cut
  <2>1. cut # n BY <1>2, <1>3, <1>9
  <2>2. Len(kept) = MaxKept BY <1>3, <1>6, <2>1
  <2>3. \A j \in DOMAIN kept : kept[j] < u
    <3> SUFFICES ASSUME NEW j \in 1 .. cut PROVE kept[j] < u BY <1>6
    <3>1. j \in 1 .. n /\ j < i BY <1>2, <1>3, <1>9
    <3> QED BY <1>2, <1>6, <1>7, <3>1
  <2> QED BY <2>2, <2>3
<1> QED BY <1>8, <1>9

LEMMA ProbingStepInv == ProbingInv /\ [ProbingNext]_probingVars => ProbingInv'
<1> SUFFICES ASSUME ProbingInv, [ProbingNext]_probingVars PROVE ProbingInv'
  OBVIOUS
<1>1. ASSUME NEW u \in Place, ProbeStart(u) PROVE ProbingInv'
  <2>1. ~ finished' BY <1>1 DEF ProbingInv, ProbeStart
  <2> QED BY <1>1, <2>1 DEF ProbingInv, ProbeStart
<1>2. ASSUME NEW u \in Place, NEW enough \in BOOLEAN, Probed(u, enough) PROVE ProbingInv'
  <2>1. ~ finished' BY <1>2 DEF ProbingInv, Probed
  <2> QED BY <1>2, <2>1 DEF ProbingInv, Probed
<1>3. CASE WriteSeeds
  <2>1. Kept' = Kept BY <1>3 DEF WriteSeeds, Kept, Ranked, Good, Urls
  <2> QED BY <1>3, <2>1 DEF ProbingInv, WriteSeeds
<1>4. CASE UNCHANGED probingVars
  <2>1. Kept' = Kept BY <1>4 DEF probingVars, Kept, Ranked, Good, Urls
  <2> QED BY <1>4, <2>1 DEF ProbingInv, probingVars
<1> QED BY <1>1, <1>2, <1>3, <1>4 DEF ProbingNext

LEMMA ProbingInvariant == Spec => [](part = "probing" => ProbingInv)
<1>1. Init => (part = "probing" => ProbingInv)
  <2> SUFFICES ASSUME Init, part = "probing" PROVE ProbingInv OBVIOUS
  <2>1. ProbingInit BY DEF Init
  <2> QED BY <2>1 DEF ProbingInit, ProbingInv, Urls
<1>2. (part = "probing" => ProbingInv) /\ [Next]_vars => (part = "probing" => ProbingInv)'
  <2> SUFFICES ASSUME part = "probing" => ProbingInv, [Next]_vars, part' = "probing"
               PROVE  ProbingInv'
    OBVIOUS
  <2>1. part = "probing" /\ [ProbingNext]_probingVars
    <3>1. CASE Next
      BY <3>1 DEF Next, SavingRuns, CountingRuns, LoggingRuns, CheckingRuns,
                  SelectingRuns, ProbingRuns
    <3>2. CASE UNCHANGED vars BY <3>2 DEF vars
    <3> QED BY <3>1, <3>2
  <2> QED BY <2>1, ProbingStepInv
<1> QED BY <1>1, <1>2, PTL DEF Spec

\* The seeds written are the first candidates of the file that have answered with
\* enough links, in the order of the file and as many as asked for or all there
\* are, in whatever order the answers came (probe.py:113-119).
THEOREM KeptAreBest == Spec => []BestKept
<1>1. (part = "probing" => ProbingInv) => BestKept
  BY KeptIsBest DEF ProbingInv, BestKept, BestWritten
<1> QED BY <1>1, ProbingInvariant, PTL

-------------------------------------------------------------------------------
(* Verify. *)

LogRow == [key : Key, sent : Int \cup {NA}, monotonic : Nat \cup {NA}, at : Nat]

\* How many rows of each log have been read, and how many stamps of each key filed.
ReadLen == [l \in Log |-> Len(rows[l]) - Len(todo[l])]
StampLen == [k \in Key |-> Len(byDomain[k])]

RowAt(x) == rows[x[1]][x[2]]
RowsRead == Spots(Log, ReadLen)
RowsFiled == {x \in RowsRead : Checkable(RowAt(x))}
Stamps == Spots(Key, StampLen)

\* g takes the rows that were filed to their stamps, one to one.
Files(g, A, B) ==
  /\ g \in [A -> B]
  /\ \A x, y \in A : g[x] = g[y] => x = y
  /\ \A p \in B : \E x \in A : g[x] = p
  /\ \A x \in A : g[x][1] = RowAt(x).key /\ byDomain[g[x][1]][g[x][2]] = Stamp(RowAt(x))

CheckingTypes ==
  /\ phase \in {"crawl", "load", "judge", "done"}
  /\ now \in Nat /\ wall \in Int
  /\ rows \in [Log -> Seq(LogRow)] /\ todo \in [Log -> Seq(LogRow)]
  /\ byDomain \in [Key -> Seq(Int)]
  /\ skipped \in Nat /\ wallRows \in Nat

\* A row of the dispatch log has the wall clock's stamp, and any row's monotonic
\* stamp is the true time.
RowsTell ==
  \A l \in Log : \A i \in DOMAIN rows[l] :
    /\ rows[l][i].monotonic \in {NA, rows[l][i].at}
    /\ source = "dispatched" => rows[l][i].sent # NA

NothingLoaded ==
  /\ \A k \in Key : byDomain[k] = << >>
  /\ skipped = 0 /\ wallRows = 0

Loading ==
  /\ \A l \in Log : /\ Len(todo[l]) <= Len(rows[l])
                    /\ \A i \in 1 .. Len(todo[l]) : todo[l][i] = rows[l][ReadLen[l] + i]
  /\ skipped = 0 <=> RowsFiled = RowsRead
  /\ wallRows = 0 => \A x \in RowsFiled : RowAt(x).monotonic # NA
  /\ \E g : Files(g, RowsFiled, Stamps)

CheckingInv ==
  /\ CheckingTypes /\ RowsTell
  /\ phase = "crawl" => NothingLoaded
  /\ phase # "crawl" => Loading
  /\ phase \in {"judge", "done"} => \A l \in Log : todo[l] = << >>
  /\ phase # "done" => exit = -1
  /\ phase = "done" => exit = ExitCode(\E k \in Key : Violations(byDomain[k]) # {})

LEMMA CheckingNumbers ==
  /\ Log \subseteq Nat /\ IsFiniteSet(Log) /\ NA \notin Int
  /\ Limit \in Nat /\ Tolerance \in Nat /\ Tolerance < Limit
  /\ Step \subseteq Nat
BY VerifyAssumption

\* One more of one key, as a place.
LEMMA SpotMore ==
  ASSUME NEW D, NEW f \in [D -> Nat], NEW d \in D, NEW g \in [D -> Nat],
         g[d] = f[d] + 1, \A e \in D \ {d} : g[e] = f[e]
  PROVE  /\ Spots(D, g) = Spots(D, f) \cup {<<d, g[d]>>}
         /\ <<d, g[d]>> \notin Spots(D, f)
<1>1. f[d] \in Nat /\ g[d] \in Nat OBVIOUS
<1>2. 1 .. g[d] = (1 .. f[d]) \cup {g[d]} BY <1>1
<1>3. g[d] \notin 1 .. f[d] BY <1>1
<1>4. <<d, g[d]>> \notin Spots(D, f)
  <2> SUFFICES ASSUME <<d, g[d]>> \in Spots(D, f) PROVE FALSE OBVIOUS
  <2>1. PICK e \in D : \E i \in 1 .. f[e] : <<d, g[d]>> = <<e, i>> BY SpotIs
  <2>2. PICK i \in 1 .. f[e] : <<d, g[d]>> = <<e, i>> BY <2>1
  <2>3. e = d /\ i = g[d] BY <2>2
  <2> QED BY <1>3, <2>2, <2>3
<1>5. ASSUME NEW x PROVE x \in Spots(D, g) <=> x \in Spots(D, f) \/ x = <<d, g[d]>>
  <2>1. ASSUME x \in Spots(D, g) PROVE x \in Spots(D, f) \/ x = <<d, g[d]>>
    <3>1. PICK e \in D : \E i \in 1 .. g[e] : x = <<e, i>> BY <2>1, SpotIs
    <3>2. PICK i \in 1 .. g[e] : x = <<e, i>> BY <3>1
    <3>3. CASE e = d
      <4>1. i \in 1 .. f[d] \/ i = g[d] BY <1>2, <3>2, <3>3
      <4>2. CASE i \in 1 .. f[d] BY <3>2, <3>3, <4>2, SpotIs
      <4>3. CASE i = g[d] BY <3>2, <3>3, <4>3
      <4> QED BY <4>1, <4>2, <4>3
    <3>4. CASE e # d
      <4>1. i \in 1 .. f[e] BY <3>2, <3>4
      <4> QED BY <3>2, <4>1, SpotIs
    <3> QED BY <3>3, <3>4
  <2>2. ASSUME x \in Spots(D, f) PROVE x \in Spots(D, g)
    <3>1. PICK e \in D : \E i \in 1 .. f[e] : x = <<e, i>> BY <2>2, SpotIs
    <3>2. PICK i \in 1 .. f[e] : x = <<e, i>> BY <3>1
    <3>3. i \in 1 .. g[e]
      <4>1. CASE e = d BY <1>2, <3>2, <4>1
      <4>2. CASE e # d BY <3>2, <4>2
      <4> QED BY <4>1, <4>2
    <3> QED BY <3>2, <3>3, SpotIs
  <2>3. ASSUME x = <<d, g[d]>> PROVE x \in Spots(D, g)
    <3>1. g[d] \in 1 .. g[d] BY <1>2
    <3> QED BY <2>3, <3>1, SpotIs
  <2> QED BY <2>1, <2>2, <2>3
<1> QED BY <1>4, <1>5

LEMMA RowIs ==
  ASSUME NEW row \in LogRow
  PROVE  /\ row.key \in Key /\ row.sent \in Int \cup {NA}
         /\ row.monotonic \in Nat \cup {NA} /\ row.at \in Nat
         /\ Checkable(row) => Stamp(row) \in Int
<1>1. row.key \in Key /\ row.sent \in Int \cup {NA}
      /\ row.monotonic \in Nat \cup {NA} /\ row.at \in Nat
  BY DEF LogRow
<1>2. Checkable(row) => Stamp(row) \in Int BY <1>1 DEF Checkable, Stamp
<1> QED BY <1>1, <1>2

LEMMA LensAre ==
  ASSUME CheckingTypes
  PROVE  /\ StampLen \in [Key -> Nat] /\ \A k \in Key : StampLen[k] = Len(byDomain[k])
         /\ \A l \in Log : /\ Len(rows[l]) \in Nat /\ Len(todo[l]) \in Nat
                           /\ ReadLen[l] = Len(rows[l]) - Len(todo[l])
         /\ (\A l \in Log : Len(todo[l]) <= Len(rows[l])) => ReadLen \in [Log -> Nat]
<1>1. ASSUME NEW k \in Key PROVE Len(byDomain[k]) \in Nat
  <2>1. byDomain[k] \in Seq(Int) BY DEF CheckingTypes
  <2> QED BY <2>1, LenProperties
<1>2. ASSUME NEW l \in Log PROVE Len(rows[l]) \in Nat /\ Len(todo[l]) \in Nat
  <2>1. rows[l] \in Seq(LogRow) /\ todo[l] \in Seq(LogRow) BY DEF CheckingTypes
  <2> QED BY <2>1, LenProperties
<1>3. StampLen \in [Key -> Nat] /\ \A k \in Key : StampLen[k] = Len(byDomain[k])
  BY <1>1 DEF StampLen
<1>4. \A l \in Log : ReadLen[l] = Len(rows[l]) - Len(todo[l]) BY DEF ReadLen
<1>5. (\A l \in Log : Len(todo[l]) <= Len(rows[l])) => ReadLen \in [Log -> Nat]
  <2> SUFFICES ASSUME \A l \in Log : Len(todo[l]) <= Len(rows[l])
               PROVE  ReadLen \in [Log -> Nat]
    OBVIOUS
  <2>1. \A l \in Log : Len(rows[l]) - Len(todo[l]) \in Nat BY <1>2
  <2> QED BY <2>1 DEF ReadLen
<1> QED BY <1>2, <1>3, <1>4, <1>5

\* What was read is in the log.
LEMMA ReadIs ==
  ASSUME CheckingTypes, \A l \in Log : Len(todo[l]) <= Len(rows[l]), NEW x \in RowsRead
  PROVE  \E l \in Log : \E i \in DOMAIN rows[l] :
           x = <<l, i>> /\ i \in 1 .. ReadLen[l] /\ RowAt(x) = rows[l][i] /\ RowAt(x) \in LogRow
<1>1. PICK l \in Log : \E i \in 1 .. ReadLen[l] : x = <<l, i>> BY SpotIs DEF RowsRead
<1>2. PICK i \in 1 .. ReadLen[l] : x = <<l, i>> BY <1>1
<1>3. Len(rows[l]) \in Nat /\ Len(todo[l]) \in Nat /\ Len(todo[l]) <= Len(rows[l])
      /\ ReadLen[l] = Len(rows[l]) - Len(todo[l])
  BY LensAre
<1>4. i \in 1 .. Len(rows[l]) BY <1>2, <1>3
<1>5. rows[l] \in Seq(LogRow) BY DEF CheckingTypes
<1>6. i \in DOMAIN rows[l] /\ rows[l][i] \in LogRow BY <1>4, <1>5, LenProperties, ElementOfSeq
<1>7. RowAt(x) = rows[l][i] BY <1>2 DEF RowAt
<1> QED BY <1>2, <1>6, <1>7

\* While the crawl runs nothing is read.
LEMMA CrawlInv ==
  ASSUME CheckingInv, phase = "crawl", phase' = "crawl", CheckingTypes', RowsTell',
         UNCHANGED <<loaded, exit>>
  PROVE  CheckingInv'
<1>1. NothingLoaded' BY DEF CheckingInv, NothingLoaded, loaded
<1> QED BY <1>1 DEF CheckingInv

LEMMA ClockTickInv == ASSUME CheckingInv, ClockTick PROVE CheckingInv'
<1>1. CheckingTypes' BY DEF ClockTick, CheckingInv, CheckingTypes, loaded
<1>2. RowsTell' BY DEF ClockTick, CheckingInv, RowsTell
<1> QED BY <1>1, <1>2, CrawlInv DEF ClockTick

LEMMA WallStepInv ==
  ASSUME CheckingInv, NEW by \in Step, WallStep(by)
  PROVE  CheckingInv'
<1>1. wall' \in Int BY CheckingNumbers DEF WallStep, CheckingInv, CheckingTypes
<1>2. CheckingTypes' BY <1>1 DEF WallStep, CheckingInv, CheckingTypes, loaded
<1>3. RowsTell' BY DEF WallStep, CheckingInv, RowsTell
<1> QED BY <1>2, <1>3, CrawlInv DEF WallStep

LEMMA DispatchInv ==
  ASSUME CheckingInv, NEW l \in Log, NEW k \in Key, Dispatch(l, k)
  PROVE  CheckingInv'
<1>1. /\ phase = "crawl" /\ phase' = "crawl" /\ now' = now /\ wall' = wall
      /\ source' = source /\ todo' = todo /\ exit' = exit
      /\ byDomain' = byDomain /\ skipped' = skipped /\ wallRows' = wallRows
      /\ monotonicRows' = monotonicRows
  BY DEF Dispatch, clock, loaded
<1>2. CheckingTypes /\ RowsTell /\ now \in Nat /\ wall \in Int
      /\ rows \in [Log -> Seq(LogRow)]
  BY DEF CheckingInv, CheckingTypes
<1>3. PICK row \in Row(k) : rows' = [rows EXCEPT ![l] = Append(rows[l], row)]
  BY DEF Dispatch
<1>4. /\ row \in LogRow /\ row.monotonic \in {NA, row.at}
      /\ source = "dispatched" => row.sent # NA
  <2>1. PICK s \in {now + wall} \cup (IF source = "crawled" THEN {NA} ELSE {}) :
          \E m \in {NA} \cup (IF source = "crawled" THEN {} ELSE {now}) :
            row = [key |-> k, sent |-> s, monotonic |-> m, at |-> now]
    BY <1>3 DEF Row
  <2>2. PICK m \in {NA} \cup (IF source = "crawled" THEN {} ELSE {now}) :
            row = [key |-> k, sent |-> s, monotonic |-> m, at |-> now]
    BY <2>1
  <2>3. now + wall \in Int BY <1>2
  <2>4. s \in Int \cup {NA} /\ (source = "dispatched" => s \in Int) BY <2>1, <2>3
  <2>5. m \in {NA, now} BY <2>2
  <2>6. row \in LogRow BY <1>2, <2>2, <2>4, <2>5 DEF LogRow
  <2>7. row.monotonic = m /\ row.at = now /\ row.sent = s BY <2>2
  <2> QED BY <2>4, <2>5, <2>6, <2>7, CheckingNumbers
<1>5. rows' \in [Log -> Seq(LogRow)]
  <2>1. rows[l] \in Seq(LogRow) BY <1>2
  <2>2. Append(rows[l], row) \in Seq(LogRow) BY <1>4, <2>1, AppendProperties
  <2> QED BY <1>2, <1>3, <2>2
<1>6. CheckingTypes' BY <1>1, <1>2, <1>5 DEF CheckingTypes
<1>7. RowsTell'
  <2> SUFFICES ASSUME NEW m \in Log, NEW i \in DOMAIN rows'[m]
               PROVE  /\ rows'[m][i].monotonic \in {NA, rows'[m][i].at}
                      /\ source = "dispatched" => rows'[m][i].sent # NA
    BY <1>1 DEF RowsTell
  <2>1. CASE m # l
    <3>1. rows'[m] = rows[m] BY <1>2, <1>3, <2>1
    <3> QED BY <1>2, <3>1 DEF RowsTell
  <2>2. CASE m = l
    <3> DEFINE s == rows[l]
    <3>1. s \in Seq(LogRow) /\ rows'[m] = Append(s, row) BY <1>2, <1>3, <2>2
    <3> HIDE DEF s
    <3>2. Len(s) \in Nat /\ DOMAIN s = 1 .. Len(s)
          /\ DOMAIN Append(s, row) = 1 .. Len(s) + 1
          /\ Append(s, row)[Len(s) + 1] = row
          /\ \A j \in 1 .. Len(s) : Append(s, row)[j] = s[j]
      BY <1>4, <3>1, AppendProperties, LenProperties
    <3>3. i \in 1 .. Len(s) \/ i = Len(s) + 1 BY <3>1, <3>2
    <3>4. CASE i \in 1 .. Len(s)
      <4>1. rows'[m][i] = rows[l][i] /\ i \in DOMAIN rows[l] BY <3>1, <3>2, <3>4 DEF s
      <4> QED BY <1>2, <4>1 DEF RowsTell
    <3>5. CASE i = Len(s) + 1
      <4>1. rows'[m][i] = row BY <3>1, <3>2, <3>5
      <4> QED BY <1>4, <4>1
    <3> QED BY <3>3, <3>4, <3>5
  <2> QED BY <2>1, <2>2
<1> QED BY <1>1, <1>6, <1>7, CrawlInv DEF loaded

LEMMA StartInv == ASSUME CheckingInv, Start PROVE CheckingInv'
<1>1. /\ phase = "crawl" /\ phase' = "load" /\ todo' = rows /\ rows' = rows
      /\ source' = source /\ exit' = exit /\ now' = now /\ wall' = wall
      /\ byDomain' = byDomain /\ skipped' = skipped /\ wallRows' = wallRows
  BY DEF Start, clock, loaded
<1>2. CheckingTypes /\ RowsTell /\ NothingLoaded BY <1>1 DEF CheckingInv
<1>3. CheckingTypes' /\ RowsTell' BY <1>1, <1>2 DEF CheckingTypes, RowsTell
<1>4. \A l \in Log : Len(rows[l]) \in Nat BY <1>2, LensAre
<1>5. \A l \in Log : ReadLen'[l] = 0 BY <1>1, <1>4 DEF ReadLen
<1>6. RowsRead' = {}
  <2>1. \A l \in Log : 1 .. ReadLen'[l] = {} BY <1>5
  <2>2. Spots(Log, ReadLen') = {} BY <2>1, SpotIs
  <2> QED BY <2>2 DEF RowsRead
<1>7. Stamps' = {}
  <2>1. Len(<< >>) = 0 BY EmptySeq
  <2>2. \A k \in Key : StampLen'[k] = 0 BY <1>1, <1>2, <2>1 DEF StampLen, NothingLoaded
  <2>3. \A k \in Key : 1 .. StampLen'[k] = {} BY <2>2
  <2>4. Spots(Key, StampLen') = {} BY <2>3, SpotIs
  <2> QED BY <2>4 DEF Stamps
<1>8. RowsFiled' = {} BY <1>6 DEF RowsFiled
<1>9. \E g : Files(g, RowsFiled, Stamps)'
  <2> DEFINE g == [x \in {} |-> x]
  <2>1. g \in [{} -> {}] OBVIOUS
  <2> HIDE DEF g
  <2>2. Files(g, RowsFiled, Stamps)' BY <1>7, <1>8, <2>1 DEF Files
  <2> QED BY <2>2
<1>10. \A l \in Log : /\ Len(todo'[l]) <= Len(rows'[l])
                      /\ \A i \in 1 .. Len(todo'[l]) :
                           todo'[l][i] = rows'[l][ReadLen'[l] + i]
  <2> SUFFICES ASSUME NEW l \in Log
               PROVE  /\ Len(rows[l]) <= Len(rows[l])
                      /\ \A i \in 1 .. Len(rows[l]) : rows[l][i] = rows[l][ReadLen'[l] + i]
    BY <1>1
  <2>1. \A i \in 1 .. Len(rows[l]) : ReadLen'[l] + i = i BY <1>4, <1>5
  <2> QED BY <1>4, <2>1
<1>11. Loading'
  BY <1>1, <1>2, <1>6, <1>8, <1>9, <1>10 DEF Loading, NothingLoaded
<1>12. exit' = -1 BY <1>1 DEF CheckingInv
<1> QED BY <1>1, <1>3, <1>11, <1>12 DEF CheckingInv

LEMMA LoadingSame ==
  ASSUME Loading, rows' = rows, todo' = todo, byDomain' = byDomain,
         skipped' = skipped, wallRows' = wallRows
  PROVE  Loading'
<1>1. ReadLen' = ReadLen /\ StampLen' = StampLen BY DEF ReadLen, StampLen
<1>2. RowsRead' = RowsRead /\ Stamps' = Stamps BY <1>1 DEF RowsRead, Stamps
<1>3. RowsFiled' = RowsFiled BY <1>2 DEF RowsFiled, RowAt
<1>4. ASSUME NEW g, Files(g, RowsFiled, Stamps) PROVE Files(g, RowsFiled, Stamps)'
  BY <1>2, <1>3, <1>4 DEF Files, RowAt
<1>5. \E g : Files(g, RowsFiled, Stamps)' BY <1>4 DEF Loading
<1>6. (wallRows = 0 => \A x \in RowsFiled : RowAt(x).monotonic # NA)'
  BY <1>3 DEF Loading, RowAt
<1> QED BY <1>1, <1>2, <1>3, <1>5, <1>6 DEF Loading

LEMMA LoadEndInv == ASSUME CheckingInv, LoadEnd PROVE CheckingInv'
<1>1. /\ phase = "load" /\ phase' = "judge" /\ todo' = todo /\ rows' = rows
      /\ source' = source /\ exit' = exit /\ now' = now /\ wall' = wall
      /\ byDomain' = byDomain /\ skipped' = skipped /\ wallRows' = wallRows
      /\ \A l \in Log : todo[l] = << >>
  BY DEF LoadEnd, clock, loaded
<1>2. CheckingTypes' /\ RowsTell' BY <1>1 DEF CheckingInv, CheckingTypes, RowsTell
<1>3. Loading' BY <1>1, LoadingSame DEF CheckingInv
<1> QED BY <1>1, <1>2, <1>3 DEF CheckingInv

LEMMA JudgeInv == ASSUME CheckingInv, Judge PROVE CheckingInv'
<1>1. /\ phase = "judge" /\ phase' = "done" /\ todo' = todo /\ rows' = rows
      /\ source' = source /\ now' = now /\ wall' = wall
      /\ byDomain' = byDomain /\ skipped' = skipped /\ wallRows' = wallRows
      /\ exit' = ExitCode(\E k \in Key : Violations(byDomain[k]) # {})
  BY DEF Judge, clock, loaded
<1>2. CheckingTypes' /\ RowsTell' BY <1>1 DEF CheckingInv, CheckingTypes, RowsTell
<1>3. Loading' BY <1>1, LoadingSame DEF CheckingInv
<1>4. exit' = ExitCode(\E k \in Key : Violations(byDomain[k]) # {})' BY <1>1 DEF ExitCode
<1> QED BY <1>1, <1>2, <1>3, <1>4 DEF CheckingInv

\* What the next row of a file is, and what has then been read.
LEMMA NextRow ==
  ASSUME CheckingTypes, Loading, NEW l \in Log, todo[l] # << >>,
         rows' = rows, todo' = [todo EXCEPT ![l] = Tail(todo[l])]
  PROVE  LET x == <<l, ReadLen[l] + 1>>
         IN  /\ RowAt(x) = Head(todo[l]) /\ RowAt(x) \in LogRow
             /\ x \notin RowsRead /\ RowsRead' = RowsRead \cup {x}
             /\ todo' \in [Log -> Seq(LogRow)]
             /\ \A m \in Log :
                  /\ Len(todo'[m]) <= Len(rows[m])
                  /\ \A i \in 1 .. Len(todo'[m]) : todo'[m][i] = rows[m][ReadLen'[m] + i]
<1> DEFINE s == todo[l]
           x == <<l, ReadLen[l] + 1>>
<1>1. s \in Seq(LogRow) /\ s # << >> BY DEF CheckingTypes
<1>2. \A m \in Log : Len(todo[m]) <= Len(rows[m])
                     /\ \A i \in 1 .. Len(todo[m]) : todo[m][i] = rows[m][ReadLen[m] + i]
  BY DEF Loading
<1>3. /\ ReadLen \in [Log -> Nat]
      /\ \A m \in Log : /\ Len(rows[m]) \in Nat /\ Len(todo[m]) \in Nat
                        /\ ReadLen[m] = Len(rows[m]) - Len(todo[m])
  BY <1>2, LensAre
<1>4. /\ Len(s) \in Nat /\ Len(s) >= 1 /\ Head(s) = s[1] /\ Head(s) \in LogRow
      /\ Tail(s) \in Seq(LogRow) /\ Len(Tail(s)) = Len(s) - 1
      /\ \A i \in 1 .. Len(s) - 1 : Tail(s)[i] = s[i + 1]
  <2> HIDE DEF s
  <2> QED BY <1>1, LenProperties, HeadTailProperties, EmptySeq
<1>5. todo' \in [Log -> Seq(LogRow)] /\ todo'[l] = Tail(s)
      /\ \A m \in Log \ {l} : todo'[m] = todo[m]
  <2>1. todo \in [Log -> Seq(LogRow)] BY DEF CheckingTypes
  <2> QED BY <1>4, <2>1
<1>6. RowAt(x) = Head(s) /\ RowAt(x) \in LogRow
  <2>1. 1 \in 1 .. Len(s) BY <1>4
  <2>2. s[1] = rows[l][ReadLen[l] + 1] BY <1>2, <2>1
  <2>3. RowAt(x) = rows[l][ReadLen[l] + 1] BY DEF RowAt
  <2> QED BY <1>4, <2>2, <2>3
<1>7. /\ ReadLen' \in [Log -> Nat] /\ ReadLen'[l] = ReadLen[l] + 1
      /\ \A m \in Log \ {l} : ReadLen'[m] = ReadLen[m]
  <2>1. Len(rows[l]) - (Len(s) - 1) = ReadLen[l] + 1
    <3>1. Len(rows[l]) \in Nat /\ Len(s) \in Nat /\ ReadLen[l] = Len(rows[l]) - Len(s)
      BY <1>3
    <3> QED BY <3>1
  <2>2. ReadLen'[l] = ReadLen[l] + 1 BY <1>4, <1>5, <2>1 DEF ReadLen
  <2>3. \A m \in Log \ {l} : ReadLen'[m] = ReadLen[m] BY <1>5 DEF ReadLen
  <2>4. \A m \in Log : ReadLen'[m] \in Nat BY <1>3, <2>2, <2>3
  <2>5. ReadLen' = [m \in Log |-> ReadLen'[m]] BY DEF ReadLen
  <2> QED BY <2>2, <2>3, <2>4, <2>5
<1>8. x \notin RowsRead /\ RowsRead' = RowsRead \cup {x}
  <2>1. /\ Spots(Log, ReadLen') = Spots(Log, ReadLen) \cup {<<l, ReadLen'[l]>>}
        /\ <<l, ReadLen'[l]>> \notin Spots(Log, ReadLen)
    BY <1>3, <1>7, SpotMore
  <2> QED BY <1>7, <2>1 DEF RowsRead
<1>9. ASSUME NEW m \in Log
      PROVE  /\ Len(todo'[m]) <= Len(rows[m])
             /\ \A i \in 1 .. Len(todo'[m]) : todo'[m][i] = rows[m][ReadLen'[m] + i]
  <2>1. CASE m # l BY <1>2, <1>5, <1>7, <2>1
  <2>2. CASE m = l
    <3>1. Len(todo'[l]) = Len(s) - 1 BY <1>4, <1>5
    <3>2. Len(s) - 1 <= Len(rows[l]) BY <1>2, <1>3, <1>4
    <3>3. ASSUME NEW i \in 1 .. Len(s) - 1
          PROVE  todo'[l][i] = rows[l][ReadLen'[l] + i]
      <4>1. i + 1 \in 1 .. Len(s) BY <1>4
      <4>2. s[i + 1] = rows[l][ReadLen[l] + (i + 1)] BY <1>2, <4>1
      <4>3. ReadLen[l] + (i + 1) = ReadLen'[l] + i BY <1>3, <1>7
      <4> QED BY <1>4, <1>5, <4>2, <4>3
    <3> QED BY <2>2, <3>1, <3>2, <3>3
  <2> QED BY <2>1, <2>2
<1> QED BY <1>5, <1>6, <1>8, <1>9

LEMMA LoadFileInv ==
  ASSUME CheckingInv, NEW l \in Log, LoadRow(l),
         Checkable(RowAt(<<l, ReadLen[l] + 1>>))
  PROVE  CheckingInv'
<1> DEFINE x == <<l, ReadLen[l] + 1>>
           row == RowAt(x)
           k == row.key
           y == <<k, StampLen[k] + 1>>
<1>1. /\ phase = "load" /\ phase' = "load" /\ todo[l] # << >>
      /\ rows' = rows /\ source' = source /\ exit' = exit /\ now' = now /\ wall' = wall
      /\ todo' = [todo EXCEPT ![l] = Tail(todo[l])]
  BY DEF LoadRow, FileAtHand, clock
<1>2. CheckingTypes /\ Loading /\ RowsTell BY <1>1 DEF CheckingInv
<1>3. /\ row = Head(todo[l]) /\ row \in LogRow
      /\ x \notin RowsRead /\ RowsRead' = RowsRead \cup {x}
      /\ todo' \in [Log -> Seq(LogRow)]
      /\ \A m \in Log :
           /\ Len(todo'[m]) <= Len(rows[m])
           /\ \A i \in 1 .. Len(todo'[m]) : todo'[m][i] = rows[m][ReadLen'[m] + i]
  BY <1>1, <1>2, NextRow
<1>4. /\ byDomain' = [byDomain EXCEPT ![k] = Append(byDomain[k], Stamp(row))]
      /\ wallRows' = wallRows + (IF row.monotonic = NA THEN 1 ELSE 0)
      /\ skipped' = skipped
  BY <1>3 DEF LoadRow
<1>5. k \in Key /\ Stamp(row) \in Int /\ Checkable(row) BY <1>3, RowIs
<1>6. RowsFiled' = RowsFiled \cup {x} /\ x \notin RowsFiled
  BY <1>1, <1>3, <1>5 DEF RowsFiled, RowAt
<1> HIDE DEF row, k
<1>7. byDomain[k] \in Seq(Int) /\ byDomain \in [Key -> Seq(Int)]
      /\ wallRows \in Nat /\ skipped \in Nat
  BY <1>2, <1>5 DEF CheckingTypes
<1> DEFINE s == byDomain[k]
           t == Append(s, Stamp(row))
<1>8. /\ Len(s) \in Nat /\ t \in Seq(Int) /\ Len(t) = Len(s) + 1
      /\ t[Len(s) + 1] = Stamp(row) /\ \A i \in 1 .. Len(s) : t[i] = s[i]
  <2>1. s \in Seq(Int) BY <1>7
  <2> HIDE DEF s
  <2> QED BY <1>5, <2>1, AppendProperties, LenProperties
<1>9. /\ byDomain' \in [Key -> Seq(Int)] /\ byDomain'[k] = t
      /\ \A e \in Key \ {k} : byDomain'[e] = byDomain[e]
  BY <1>4, <1>5, <1>7, <1>8
<1> HIDE DEF t
<1>10. /\ StampLen \in [Key -> Nat] /\ \A e \in Key : StampLen[e] = Len(byDomain[e])
  BY <1>2, LensAre
<1>11. /\ StampLen' \in [Key -> Nat] /\ StampLen'[k] = StampLen[k] + 1
       /\ \A e \in Key \ {k} : StampLen'[e] = StampLen[e]
  <2>1. StampLen'[k] = StampLen[k] + 1 BY <1>5, <1>8, <1>9, <1>10 DEF StampLen
  <2>2. \A e \in Key \ {k} : StampLen'[e] = StampLen[e] BY <1>9 DEF StampLen
  <2>3. \A e \in Key : StampLen'[e] \in Nat BY <1>5, <1>10, <2>1, <2>2
  <2>4. StampLen' = [e \in Key |-> StampLen'[e]] BY DEF StampLen
  <2> QED BY <2>1, <2>2, <2>3, <2>4
<1>12. Stamps' = Stamps \cup {y} /\ y \notin Stamps
  <2>1. /\ Spots(Key, StampLen') = Spots(Key, StampLen) \cup {<<k, StampLen'[k]>>}
        /\ <<k, StampLen'[k]>> \notin Spots(Key, StampLen)
    BY <1>5, <1>10, <1>11, SpotMore
  <2> QED BY <1>11, <2>1 DEF Stamps
<1>13. byDomain'[y[1]][y[2]] = Stamp(row) /\ y[1] = k
  BY <1>5, <1>8, <1>9, <1>10
<1>14. ASSUME NEW p \in Stamps
       PROVE  byDomain'[p[1]][p[2]] = byDomain[p[1]][p[2]]
  <2>1. PICK e \in Key : \E i \in 1 .. StampLen[e] : p = <<e, i>> BY SpotIs DEF Stamps
  <2>2. PICK i \in 1 .. StampLen[e] : p = <<e, i>> BY <2>1
  <2>3. p[1] = e /\ p[2] = i BY <2>2
  <2>4. CASE e = k BY <1>8, <1>9, <1>10, <2>3, <2>4
  <2>5. CASE e # k BY <1>9, <2>3, <2>5
  <2> QED BY <2>4, <2>5
<1>15. \E h : Files(h, RowsFiled, Stamps)'
  <2>1. PICK g : Files(g, RowsFiled, Stamps) BY <1>2 DEF Loading
  <2> DEFINE A == RowsFiled
             B == Stamps
             h == [z \in A \cup {x} |-> IF z = x THEN y ELSE g[z]]
  <2>2. /\ g \in [A -> B] /\ \A z, w \in A : g[z] = g[w] => z = w
        /\ \A p \in B : \E z \in A : g[z] = p
        /\ \A z \in A : g[z][1] = RowAt(z).key /\ byDomain[g[z][1]][g[z][2]] = Stamp(RowAt(z))
    BY <2>1 DEF Files
  <2>3. x \notin A /\ y \notin B BY <1>6, <1>12
  <2>4. ASSUME NEW z \in A PROVE h[z] = g[z] /\ g[z] \in B /\ z # x BY <2>2, <2>3
  <2>5. h[x] = y OBVIOUS
  <2>6. RowAt(x).key = k /\ Stamp(RowAt(x)) = Stamp(row) BY DEF row, k
  <2> HIDE DEF x, y
  <2>7. h \in [A \cup {x} -> B \cup {y}]
    <3> HIDE DEF A, B
    <3> QED BY <2>2
  <2> HIDE DEF h, A, B
  <2>8. \A z, w \in A \cup {x} : h[z] = h[w] => z = w BY <2>2, <2>3, <2>4, <2>5
  <2>9. \A p \in B \cup {y} : \E z \in A \cup {x} : h[z] = p BY <2>2, <2>4, <2>5
  <2>10. ASSUME NEW z \in A \cup {x}
         PROVE  h[z][1] = RowAt(z).key /\ byDomain'[h[z][1]][h[z][2]] = Stamp(RowAt(z))
    <3>1. CASE z = x BY <1>13, <2>5, <2>6, <3>1
    <3>2. CASE z \in A BY <1>14, <2>2, <2>4, <3>2 DEF B
    <3> QED BY <3>1, <3>2
  <2>11. RowsFiled' = A \cup {x} /\ Stamps' = B \cup {y} BY <1>6, <1>12 DEF A, B
  <2>12. \A z \in A \cup {x} :
           h[z][1] = RowAt(z)'.key /\ byDomain'[h[z][1]][h[z][2]] = Stamp(RowAt(z)')
    BY <1>1, <2>10 DEF RowAt
  <2>13. PICK m : m = h OBVIOUS
  <2>14. Files(m, RowsFiled, Stamps)'
    <3>1. m \in [RowsFiled' -> Stamps'] BY <2>7, <2>11, <2>13
    <3>2. \A z, w \in RowsFiled' : m[z] = m[w] => z = w BY <2>8, <2>11, <2>13
    <3>3. \A p \in Stamps' : \E z \in RowsFiled' : m[z] = p BY <2>9, <2>11, <2>13
    <3>4. \A z \in RowsFiled' :
            m[z][1] = RowAt(z)'.key /\ byDomain'[m[z][1]][m[z][2]] = Stamp(RowAt(z)')
      BY <2>11, <2>12, <2>13
    <3> QED BY <3>1, <3>2, <3>3, <3>4 DEF Files, Stamp
  <2> QED BY <2>14
<1>16. (skipped = 0 <=> RowsFiled = RowsRead)'
  <2>1. skipped = 0 <=> RowsFiled = RowsRead BY <1>2 DEF Loading
  <2>2. x \notin RowsRead /\ RowsFiled \subseteq RowsRead BY <1>3 DEF RowsFiled
  <2>3. RowsFiled' = RowsRead' <=> RowsFiled = RowsRead
    <3> HIDE DEF x
    <3> QED BY <1>3, <1>6, <2>2
  <2> QED BY <1>4, <2>1, <2>3
<1>17. (wallRows = 0 => \A z \in RowsFiled : RowAt(z).monotonic # NA)'
  <2> SUFFICES ASSUME wallRows' = 0, NEW z \in RowsFiled'
               PROVE  RowAt(z)'.monotonic # NA
    OBVIOUS
  <2>1. row.monotonic # NA /\ wallRows = 0
    <3>1. CASE row.monotonic = NA
      <4>1. wallRows' = wallRows + 1 BY <1>4, <3>1
      <4> QED BY <1>7, <4>1
    <3>2. CASE row.monotonic # NA
      <4>1. wallRows' = wallRows + 0 BY <1>4, <3>2
      <4> QED BY <1>7, <3>2, <4>1
    <3> QED BY <3>1, <3>2
  <2>2. RowAt(z)' = RowAt(z) BY <1>1 DEF RowAt
  <2>3. CASE z = x BY <2>1, <2>2, <2>3 DEF row
  <2>4. CASE z \in RowsFiled BY <1>2, <2>1, <2>2, <2>4 DEF Loading
  <2> QED BY <1>6, <2>3, <2>4
<1>18. Loading' BY <1>1, <1>3, <1>15, <1>16, <1>17 DEF Loading
<1>19. wallRows' \in Nat BY <1>4, <1>7
<1>20. CheckingTypes' BY <1>1, <1>2, <1>3, <1>4, <1>9, <1>19 DEF CheckingTypes
<1>21. RowsTell' BY <1>1, <1>2 DEF RowsTell
<1> QED BY <1>1, <1>18, <1>20, <1>21 DEF CheckingInv

LEMMA LoadSkipInv ==
  ASSUME CheckingInv, NEW l \in Log, LoadRow(l),
         ~ Checkable(RowAt(<<l, ReadLen[l] + 1>>))
  PROVE  CheckingInv'
<1> DEFINE x == <<l, ReadLen[l] + 1>>
           row == RowAt(x)
<1>1. /\ phase = "load" /\ phase' = "load" /\ todo[l] # << >>
      /\ rows' = rows /\ source' = source /\ exit' = exit /\ now' = now /\ wall' = wall
      /\ todo' = [todo EXCEPT ![l] = Tail(todo[l])]
  BY DEF LoadRow, FileAtHand, clock
<1>2. CheckingTypes /\ Loading /\ RowsTell BY <1>1 DEF CheckingInv
<1>3. /\ row = Head(todo[l]) /\ row \in LogRow
      /\ x \notin RowsRead /\ RowsRead' = RowsRead \cup {x}
      /\ todo' \in [Log -> Seq(LogRow)]
      /\ \A m \in Log :
           /\ Len(todo'[m]) <= Len(rows[m])
           /\ \A i \in 1 .. Len(todo'[m]) : todo'[m][i] = rows[m][ReadLen'[m] + i]
  BY <1>1, <1>2, NextRow
<1>4. byDomain' = byDomain /\ wallRows' = wallRows /\ skipped' = skipped + 1
  BY <1>3 DEF LoadRow
<1>5. RowsFiled' = RowsFiled BY <1>1, <1>3 DEF RowsFiled, RowAt
<1>6. Stamps' = Stamps
  <2>1. StampLen' = StampLen BY <1>4 DEF StampLen
  <2> QED BY <2>1 DEF Stamps
<1>7. \E h : Files(h, RowsFiled, Stamps)'
  <2>1. ASSUME NEW g, Files(g, RowsFiled, Stamps) PROVE Files(g, RowsFiled, Stamps)'
    BY <1>1, <1>4, <1>5, <1>6, <2>1 DEF Files, RowAt
  <2> QED BY <1>2, <2>1 DEF Loading
<1>8. skipped \in Nat BY <1>2 DEF CheckingTypes
<1>9. (skipped = 0 <=> RowsFiled = RowsRead)'
  <2>1. skipped' # 0 BY <1>4, <1>8
  <2>2. x \in RowsRead' /\ x \notin RowsFiled' BY <1>3, <1>5 DEF RowsFiled
  <2> QED BY <2>1, <2>2
<1>10. (wallRows = 0 => \A z \in RowsFiled : RowAt(z).monotonic # NA)'
  BY <1>1, <1>2, <1>4, <1>5 DEF Loading, RowAt
<1>11. Loading' BY <1>1, <1>3, <1>7, <1>9, <1>10 DEF Loading
<1>12. CheckingTypes' BY <1>1, <1>2, <1>3, <1>4, <1>8 DEF CheckingTypes
<1>13. RowsTell' BY <1>1, <1>2 DEF RowsTell
<1> QED BY <1>1, <1>11, <1>12, <1>13 DEF CheckingInv

LEMMA CheckingInitInv == CheckingInit => CheckingInv
<1> SUFFICES ASSUME CheckingInit PROVE CheckingInv OBVIOUS
<1>1. /\ phase = "crawl" /\ now = 0 /\ wall = 0 /\ exit = -1
      /\ rows = [l \in Log |-> << >>] /\ todo = [l \in Log |-> << >>]
      /\ byDomain = [k \in Key |-> << >>] /\ skipped = 0 /\ wallRows = 0
  BY DEF CheckingInit
<1>2. << >> \in Seq(LogRow) /\ << >> \in Seq(Int) BY EmptySeq
<1>3. CheckingTypes BY <1>1, <1>2 DEF CheckingTypes
<1>4. RowsTell BY <1>1 DEF RowsTell
<1>5. NothingLoaded BY <1>1 DEF NothingLoaded
<1> QED BY <1>1, <1>3, <1>4, <1>5 DEF CheckingInv

LEMMA CheckingStepInv == CheckingInv /\ [CheckingNext]_checkingVars => CheckingInv'
<1> SUFFICES ASSUME CheckingInv, [CheckingNext]_checkingVars PROVE CheckingInv'
  OBVIOUS
<1>1. CASE ClockTick BY <1>1, ClockTickInv
<1>2. ASSUME NEW by \in Step, WallStep(by) PROVE CheckingInv' BY <1>2, WallStepInv
<1>3. ASSUME NEW l \in Log, NEW k \in Key, Dispatch(l, k) PROVE CheckingInv'
  BY <1>3, DispatchInv
<1>4. CASE Start BY <1>4, StartInv
<1>5. ASSUME NEW l \in Log, LoadRow(l) PROVE CheckingInv'
  BY <1>5, LoadFileInv, LoadSkipInv
<1>6. CASE LoadEnd BY <1>6, LoadEndInv
<1>7. CASE Judge BY <1>7, JudgeInv
<1>8. CASE UNCHANGED checkingVars
  <2>1. /\ phase' = phase /\ now' = now /\ wall' = wall /\ rows' = rows
        /\ source' = source /\ todo' = todo /\ byDomain' = byDomain
        /\ skipped' = skipped /\ wallRows' = wallRows /\ exit' = exit
    BY <1>8 DEF checkingVars, clock, loaded
  <2>2. CheckingTypes' /\ RowsTell' BY <2>1 DEF CheckingInv, CheckingTypes, RowsTell
  <2>3. Loading => Loading' BY <2>1, LoadingSame
  <2>4. NothingLoaded' = NothingLoaded BY <2>1 DEF NothingLoaded
  <2>5. ExitCode(\E k \in Key : Violations(byDomain[k]) # {})'
          = ExitCode(\E k \in Key : Violations(byDomain[k]) # {})
    BY <2>1 DEF ExitCode
  <2> QED BY <2>1, <2>2, <2>3, <2>4, <2>5 DEF CheckingInv
<1> QED BY <1>1, <1>2, <1>3, <1>4, <1>5, <1>6, <1>7, <1>8 DEF CheckingNext

\* stamps.sort(): the same stamps, each in its place.
LEMMA SortedIs ==
  ASSUME NEW stamps \in Seq(Int)
  PROVE  \E p \in [1 .. Len(stamps) -> 1 .. Len(stamps)] :
           /\ \A a \in 1 .. Len(stamps) : \E i \in 1 .. Len(stamps) : p[i] = a
           /\ \A i, j \in 1 .. Len(stamps) :
                i < j => p[i] # p[j] /\ stamps[p[i]] <= stamps[p[j]]
           /\ \A i \in 1 .. Len(stamps) : Sorted(stamps)[i] = stamps[p[i]]
<1> DEFINE n == Len(stamps)
           S == 1 .. n
           R == {q \in S \X S : stamps[q[1]] < stamps[q[2]]
                                \/ (stamps[q[1]] = stamps[q[2]] /\ q[1] < q[2])}
           p == Arranged(R, S)
<1>1. n \in Nat /\ DOMAIN stamps = S /\ \A a \in S : stamps[a] \in Int
  BY LenProperties, ElementOfSeq
<1>2. IsFiniteSet(S) /\ Cardinality(S) = n
  <2>1. 1 \in Int /\ n \in Int BY <1>1
  <2>2. IsFiniteSet(1 .. n) /\ Cardinality(1 .. n) = IF 1 > n THEN 0 ELSE n - 1 + 1
    BY <2>1, FS_Interval
  <2> QED BY <1>1, <2>2
<1>3. \A a, b \in S : <<a, b>> \in R <=> stamps[a] < stamps[b]
                                         \/ (stamps[a] = stamps[b] /\ a < b)
  OBVIOUS
<1>4. S \subseteq Int BY <1>1
<1>5. \A j \in S : {i \in S : <<i, j>> \in R} = Before(stamps, j)
  BY <1>1, <1>3 DEF Before
<1> HIDE DEF n, S, R
<1>6. Orders(R, S)
  <2>1. \A a \in S : <<a, a>> \notin R BY <1>1, <1>3, <1>4
  <2>2. \A a, b, c \in S : <<a, b>> \in R /\ <<b, c>> \in R => <<a, c>> \in R
    <3> SUFFICES ASSUME NEW a \in S, NEW b \in S, NEW c \in S,
                        <<a, b>> \in R, <<b, c>> \in R
                 PROVE  <<a, c>> \in R
      OBVIOUS
    <3>1. /\ stamps[a] < stamps[b] \/ (stamps[a] = stamps[b] /\ a < b)
          /\ stamps[b] < stamps[c] \/ (stamps[b] = stamps[c] /\ b < c)
      BY <1>3
    <3>2. /\ stamps[a] \in Int /\ stamps[b] \in Int /\ stamps[c] \in Int
          /\ a \in Int /\ b \in Int /\ c \in Int
      BY <1>1, <1>4
    <3>3. stamps[a] < stamps[c] \/ (stamps[a] = stamps[c] /\ a < c) BY <3>1, <3>2
    <3> QED BY <1>3, <3>3
  <2>3. \A a, b \in S : a # b => <<a, b>> \in R \/ <<b, a>> \in R BY <1>1, <1>3, <1>4
  <2> QED BY <1>2, <2>1, <2>2, <2>3 DEF Orders
<1>7. /\ p \in [1 .. n -> S] /\ \A a \in S : \E i \in 1 .. n : p[i] = a
      /\ \A i, j \in 1 .. n : i < j => <<p[i], p[j]>> \in R
  BY <1>2, <1>6, ArrangedIs
<1>8. \A i \in 1 .. n : Sorted(stamps)[i] = stamps[p[i]]
  <2> SUFFICES ASSUME NEW i \in 1 .. n PROVE Sorted(stamps)[i] = stamps[p[i]] OBVIOUS
  <2>1. p[i] = CHOOSE j \in S : Rank(R, S, j) = i - 1 BY <1>2 DEF Arranged
  <2>2. \A j \in S : Rank(R, S, j) = Cardinality(Before(stamps, j)) BY <1>5 DEF Rank
  <2>3. p[i] = CHOOSE j \in S : Cardinality(Before(stamps, j)) = i - 1 BY <2>1, <2>2
  <2>4. i \in DOMAIN stamps BY <1>1 DEF S
  <2>5. Sorted(stamps)[i]
          = stamps[CHOOSE j \in DOMAIN stamps : Cardinality(Before(stamps, j)) = i - 1]
    BY <2>4 DEF Sorted
  <2> QED BY <1>1, <2>3, <2>5
<1> HIDE DEF p
<1>9. \A i, j \in 1 .. n : i < j => p[i] # p[j] /\ stamps[p[i]] <= stamps[p[j]]
  <2> SUFFICES ASSUME NEW i \in 1 .. n, NEW j \in 1 .. n, i < j
               PROVE  p[i] # p[j] /\ stamps[p[i]] <= stamps[p[j]]
    OBVIOUS
  <2>1. p[i] \in S /\ p[j] \in S /\ <<p[i], p[j]>> \in R BY <1>7
  <2>2. stamps[p[i]] < stamps[p[j]] \/ (stamps[p[i]] = stamps[p[j]] /\ p[i] < p[j])
    BY <1>3, <2>1
  <2>3. stamps[p[i]] \in Int /\ stamps[p[j]] \in Int BY <1>1, <2>1
  <2>4. p[i] \in Int /\ p[j] \in Int BY <1>4, <2>1
  <2>5. stamps[p[i]] <= stamps[p[j]] BY <2>2, <2>3
  <2>6. p[i] # p[j]
    <3> SUFFICES ASSUME p[i] = p[j] PROVE FALSE OBVIOUS
    <3> QED BY <2>2, <2>3, <2>4
  <2> QED BY <2>5, <2>6
<1> QED BY <1>7, <1>8, <1>9 DEF n, S

\* Of two stamps too close together there are two neighbours too close together.
LEMMA ViolationsTell ==
  ASSUME NEW stamps \in Seq(Int)
  PROVE  Violations(stamps) # {} <=>
           \E a, b \in 1 .. Len(stamps) :
             /\ a # b /\ stamps[b] >= stamps[a]
             /\ stamps[b] - stamps[a] < Limit - Tolerance
<1> DEFINE n == Len(stamps)
           gap == Limit - Tolerance
           s == Sorted(stamps)
<1>1. n \in Nat /\ \A a \in 1 .. n : stamps[a] \in Int BY LenProperties, ElementOfSeq
<1>2. gap \in Int /\ gap > 0 BY CheckingNumbers
<1>3. PICK p \in [1 .. n -> 1 .. n] :
        /\ \A a \in 1 .. n : \E i \in 1 .. n : p[i] = a
        /\ \A i, j \in 1 .. n : i < j => p[i] # p[j] /\ stamps[p[i]] <= stamps[p[j]]
        /\ \A i \in 1 .. n : s[i] = stamps[p[i]]
  BY SortedIs
<1>4. Violations(stamps) = {i \in 1 .. n - 1 : s[i + 1] - s[i] < gap}
  BY DEF Violations, Short
<1> HIDE DEF n, gap, s
<1>5. \A i \in 1 .. n : s[i] \in Int /\ p[i] \in 1 .. n BY <1>1, <1>3
<1>6. ASSUME Violations(stamps) # {}
      PROVE  \E a, b \in 1 .. n :
               a # b /\ stamps[b] >= stamps[a] /\ stamps[b] - stamps[a] < gap
  <2>1. PICK i \in 1 .. n - 1 : s[i + 1] - s[i] < gap BY <1>4, <1>6
  <2>2. i \in 1 .. n /\ i + 1 \in 1 .. n /\ i < i + 1 BY <1>1
  <2>3. p[i] # p[i + 1] /\ stamps[p[i]] <= stamps[p[i + 1]]
        /\ s[i] = stamps[p[i]] /\ s[i + 1] = stamps[p[i + 1]]
    BY <1>3, <2>2
  <2>4. p[i] \in 1 .. n /\ p[i + 1] \in 1 .. n /\ s[i] \in Int /\ s[i + 1] \in Int
    BY <1>5, <2>2
  <2>5. stamps[p[i + 1]] >= stamps[p[i]] BY <2>3, <2>4
  <2>6. stamps[p[i + 1]] - stamps[p[i]] < gap BY <2>1, <2>3
  <2> QED BY <2>3, <2>4, <2>5, <2>6
<1>7. ASSUME NEW a \in 1 .. n, NEW b \in 1 .. n, a # b,
             stamps[b] >= stamps[a], stamps[b] - stamps[a] < gap
      PROVE  Violations(stamps) # {}
  <2>1. PICK i \in 1 .. n : p[i] = a BY <1>3
  <2>2. PICK j \in 1 .. n : p[j] = b BY <1>3
  <2>3. s[i] = stamps[a] /\ s[j] = stamps[b] /\ i # j BY <1>3, <1>7, <2>1, <2>2
  <2>4. \A c, d \in 1 .. n : c < d => s[c] <= s[d]
    <3> SUFFICES ASSUME NEW c \in 1 .. n, NEW d \in 1 .. n, c < d PROVE s[c] <= s[d]
      OBVIOUS
    <3>1. stamps[p[c]] <= stamps[p[d]] /\ s[c] = stamps[p[c]] /\ s[d] = stamps[p[d]]
      BY <1>3
    <3> QED BY <3>1
  <2>5. ASSUME NEW c \in 1 .. n, NEW d \in 1 .. n, c < d, s[d] - s[c] < gap
        PROVE  Violations(stamps) # {}
    <3>1. c + 1 \in 1 .. n /\ c \in 1 .. n - 1 BY <1>1, <2>5
    <3>2. s[c] \in Int /\ s[d] \in Int /\ s[c + 1] \in Int BY <1>5, <3>1
    <3>3. s[c + 1] <= s[d]
      <4>1. CASE c + 1 = d BY <3>2, <4>1
      <4>2. CASE c + 1 # d
        <5>1. c + 1 < d BY <1>1, <2>5, <4>2
        <5> QED BY <2>4, <3>1, <5>1
      <4> QED BY <4>1, <4>2
    <3>4. s[c + 1] - s[c] < gap BY <1>2, <2>5, <3>2, <3>3
    <3> QED BY <1>4, <3>1, <3>4
  <2>6. CASE i < j BY <1>7, <2>3, <2>5, <2>6
  <2>7. CASE j < i
    <3>1. s[i] \in Int /\ s[j] \in Int BY <1>5
    <3>2. s[j] <= s[i] BY <2>4, <2>7
    <3>3. s[i] <= s[j] BY <1>7, <2>3, <3>1
    <3>4. s[i] - s[j] < gap BY <1>2, <3>1, <3>2, <3>3
    <3> QED BY <2>5, <2>7, <3>4
  <2>8. i < j \/ j < i BY <1>1, <2>3
  <2> QED BY <2>6, <2>7, <2>8
<1> QED BY <1>6, <1>7 DEF n, gap

\* At the end every row was read, and of a log of dispatches every row filed.
LEMMA AllRead ==
  ASSUME CheckingInv, phase = "done"
  PROVE  /\ RowsRead = UNION {{l} \X DOMAIN rows[l] : l \in Log}
         /\ Cardinality(RowsRead) = Dispatches /\ IsFiniteSet(RowsRead)
         /\ source = "dispatched" => RowsFiled = RowsRead
<1>1. CheckingTypes /\ Loading /\ RowsTell /\ \A l \in Log : todo[l] = << >>
  BY DEF CheckingInv
<1>2. \A l \in Log : Len(todo[l]) <= Len(rows[l]) BY <1>1 DEF Loading
<1>3. /\ ReadLen \in [Log -> Nat]
      /\ \A l \in Log : Len(rows[l]) \in Nat /\ ReadLen[l] = Len(rows[l]) - Len(todo[l])
  BY <1>1, <1>2, LensAre
<1>4. ASSUME NEW l \in Log PROVE 1 .. ReadLen[l] = DOMAIN rows[l]
  <2>1. Len(todo[l]) = 0 BY <1>1, EmptySeq
  <2>2. ReadLen[l] = Len(rows[l])
    <3>1. Len(rows[l]) \in Nat /\ ReadLen[l] = Len(rows[l]) - Len(todo[l]) BY <1>3
    <3> QED BY <2>1, <3>1
  <2>3. rows[l] \in Seq(LogRow) BY <1>1 DEF CheckingTypes
  <2> QED BY <2>2, <2>3, LenProperties
<1>5. {{l} \X (1 .. ReadLen[l]) : l \in Log} = {{l} \X DOMAIN rows[l] : l \in Log} BY <1>4
<1>6. RowsRead = UNION {{l} \X DOMAIN rows[l] : l \in Log} BY <1>5 DEF RowsRead, Spots
<1>7. IsFiniteSet(RowsRead) BY <1>3, SpotsFinite, CheckingNumbers DEF RowsRead
<1>8. Cardinality(RowsRead) = Dispatches BY <1>6 DEF Dispatches
<1>9. ASSUME source = "dispatched" PROVE RowsFiled = RowsRead
  <2> SUFFICES ASSUME NEW x \in RowsRead PROVE Checkable(RowAt(x)) BY DEF RowsFiled
  <2>1. PICK l \in Log : \E i \in DOMAIN rows[l] : x = <<l, i>> /\ RowAt(x) = rows[l][i]
    BY <1>1, <1>2, ReadIs
  <2> QED BY <1>1, <1>9, <2>1 DEF RowsTell, Checkable
<1> QED BY <1>6, <1>7, <1>8, <1>9

LEMMA CompleteIsZero ==
  ASSUME CheckingInv
  PROVE  ZeroIsComplete
<1> SUFFICES ASSUME exit = 0
             PROVE  Cardinality(UNION {{k} \X DOMAIN byDomain[k] : k \in Key}) = Dispatches
  BY DEF ZeroIsComplete
<1>1. phase = "done" /\ CheckingTypes /\ Loading /\ skipped \in Nat
  BY DEF CheckingInv, CheckingTypes
<1>2. skipped = 0 BY <1>1 DEF CheckingInv, ExitCode
<1>3. RowsFiled = RowsRead BY <1>1, <1>2 DEF Loading
<1>4. IsFiniteSet(RowsRead) /\ Cardinality(RowsRead) = Dispatches BY <1>1, AllRead
<1>5. PICK g : Files(g, RowsFiled, Stamps) BY <1>1 DEF Loading
<1>6. g \in Bijection(RowsFiled, Stamps)
  BY <1>5 DEF Files, Bijection, Injection, Surjection, IsInjective
<1>7. Cardinality(Stamps) = Cardinality(RowsRead)
  <2>1. ExistsBijection(RowsFiled, Stamps) BY <1>6 DEF ExistsBijection
  <2> QED BY <1>3, <1>4, <2>1, FS_Bijection
<1>8. Stamps = UNION {{k} \X DOMAIN byDomain[k] : k \in Key}
  <2>1. ASSUME NEW k \in Key PROVE 1 .. StampLen[k] = DOMAIN byDomain[k]
    <3>1. byDomain[k] \in Seq(Int) BY <1>1 DEF CheckingTypes
    <3> QED BY <1>1, <3>1, LensAre, LenProperties
  <2>2. {{k} \X (1 .. StampLen[k]) : k \in Key} = {{k} \X DOMAIN byDomain[k] : k \in Key}
    BY <2>1
  <2> QED BY <2>2 DEF Stamps, Spots
<1> QED BY <1>4, <1>7, <1>8

\* What a filed row with the monotonic clock is.
LEMMA FiledIs ==
  ASSUME CheckingInv, phase = "done", source = "dispatched", wallRows = 0,
         NEW l \in Log, NEW i \in DOMAIN rows[l]
  PROVE  /\ <<l, i>> \in RowsFiled /\ RowAt(<<l, i>>) = rows[l][i]
         /\ Stamp(rows[l][i]) = rows[l][i].at
         /\ rows[l][i].key \in Key /\ rows[l][i].at \in Nat
<1>1. CheckingTypes /\ Loading /\ RowsTell BY DEF CheckingInv
<1>2. <<l, i>> \in RowsRead BY AllRead
<1>3. <<l, i>> \in RowsFiled BY <1>2, AllRead
<1>4. RowAt(<<l, i>>) = rows[l][i] BY DEF RowAt
<1>5. rows[l][i].monotonic # NA BY <1>1, <1>3, <1>4 DEF Loading
<1>6. rows[l][i].monotonic = rows[l][i].at BY <1>1, <1>5 DEF RowsTell
<1>7. Stamp(rows[l][i]) = rows[l][i].at BY <1>5, <1>6 DEF Stamp
<1>8. rows[l][i] \in LogRow
  <2>1. rows[l] \in Seq(LogRow) BY <1>1 DEF CheckingTypes
  <2> QED BY <2>1, ElementOfSeq, LenProperties
<1> QED BY <1>3, <1>4, <1>7, <1>8, RowIs

LEMMA ExitIsTold ==
  ASSUME CheckingInv
  PROVE  ExitTells
<1> SUFFICES ASSUME exit # -1, source = "dispatched", wallRows = 0
             PROVE  exit = 1 <=> Breach
  BY DEF ExitTells
<1>1. phase = "done" /\ CheckingTypes /\ Loading /\ skipped \in Nat
  BY DEF CheckingInv, CheckingTypes
<1>2. RowsFiled = RowsRead BY <1>1, AllRead
<1>3. skipped = 0 BY <1>1, <1>2 DEF Loading
<1>4. exit = 1 <=> \E k \in Key : Violations(byDomain[k]) # {}
  <2>1. exit = ExitCode(\E k \in Key : Violations(byDomain[k]) # {}) BY <1>1 DEF CheckingInv
  <2> QED BY <1>3, <2>1 DEF ExitCode
<1>5. PICK g : Files(g, RowsFiled, Stamps) BY <1>1 DEF Loading
<1>6. /\ g \in [RowsFiled -> Stamps] /\ \A x, y \in RowsFiled : g[x] = g[y] => x = y
      /\ \A p \in Stamps : \E x \in RowsFiled : g[x] = p
      /\ \A x \in RowsFiled : /\ g[x][1] = RowAt(x).key
                              /\ byDomain[g[x][1]][g[x][2]] = Stamp(RowAt(x))
  BY <1>5 DEF Files
<1>7. ASSUME NEW k \in Key
      PROVE  /\ byDomain[k] \in Seq(Int) /\ StampLen[k] = Len(byDomain[k])
             /\ Violations(byDomain[k]) # {} <=>
                  \E a, b \in 1 .. Len(byDomain[k]) :
                    /\ a # b /\ byDomain[k][b] >= byDomain[k][a]
                    /\ byDomain[k][b] - byDomain[k][a] < Limit - Tolerance
  <2>1. byDomain[k] \in Seq(Int) BY <1>1 DEF CheckingTypes
  <2> QED BY <1>1, <2>1, LensAre, ViolationsTell
<1>8. ASSUME NEW x \in RowsFiled
      PROVE  \E l \in Log : \E i \in DOMAIN rows[l] : x = <<l, i>>
  <2>1. x \in UNION {{l} \X DOMAIN rows[l] : l \in Log} BY <1>1, <1>2, AllRead
  <2> QED BY <2>1
<1>9. ASSUME NEW k \in Key, Violations(byDomain[k]) # {} PROVE Breach
  <2>1. PICK a \in 1 .. Len(byDomain[k]) : \E b \in 1 .. Len(byDomain[k]) :
          /\ a # b /\ byDomain[k][b] >= byDomain[k][a]
          /\ byDomain[k][b] - byDomain[k][a] < Limit - Tolerance
    BY <1>7, <1>9
  <2>2. PICK b \in 1 .. Len(byDomain[k]) :
          /\ a # b /\ byDomain[k][b] >= byDomain[k][a]
          /\ byDomain[k][b] - byDomain[k][a] < Limit - Tolerance
    BY <2>1
  <2>3. <<k, a>> \in Stamps /\ <<k, b>> \in Stamps BY <1>7, SpotIs DEF Stamps
  <2>4. PICK x \in RowsFiled : g[x] = <<k, a>> BY <1>6, <2>3
  <2>5. PICK y \in RowsFiled : g[y] = <<k, b>> BY <1>6, <2>3
  <2>6. PICK l \in Log : \E i \in DOMAIN rows[l] : x = <<l, i>> BY <1>8
  <2>7. PICK i \in DOMAIN rows[l] : x = <<l, i>> BY <2>6
  <2>8. PICK m \in Log : \E j \in DOMAIN rows[m] : y = <<m, j>> BY <1>8
  <2>9. PICK j \in DOMAIN rows[m] : y = <<m, j>> BY <2>8
  <2>10. <<l, i>> # <<m, j>> BY <2>2, <2>4, <2>5, <2>7, <2>9
  <2>11. rows[l][i].key = k /\ byDomain[k][a] = rows[l][i].at
    <3>1. RowAt(x) = rows[l][i] /\ Stamp(rows[l][i]) = rows[l][i].at
      BY <1>1, <2>7, FiledIs
    <3>2. g[x][1] = RowAt(x).key /\ byDomain[g[x][1]][g[x][2]] = Stamp(RowAt(x)) BY <1>6
    <3> QED BY <2>4, <3>1, <3>2
  <2>12. rows[m][j].key = k /\ byDomain[k][b] = rows[m][j].at
    <3>1. RowAt(y) = rows[m][j] /\ Stamp(rows[m][j]) = rows[m][j].at
      BY <1>1, <2>9, FiledIs
    <3>2. g[y][1] = RowAt(y).key /\ byDomain[g[y][1]][g[y][2]] = Stamp(RowAt(y)) BY <1>6
    <3> QED BY <2>5, <3>1, <3>2
  <2>13. rows[m][j].at >= rows[l][i].at /\ rows[m][j].at - rows[l][i].at < Limit - Tolerance
    BY <2>2, <2>11, <2>12
  <2> QED BY <2>10, <2>11, <2>12, <2>13 DEF Breach
<1>10. ASSUME Breach PROVE \E k \in Key : Violations(byDomain[k]) # {}
  <2>1. PICK l \in Log, m \in Log : \E i \in DOMAIN rows[l], j \in DOMAIN rows[m] :
          /\ <<l, i>> # <<m, j>> /\ rows[l][i].key = rows[m][j].key
          /\ rows[m][j].at >= rows[l][i].at
          /\ rows[m][j].at - rows[l][i].at < Limit - Tolerance
    BY <1>10 DEF Breach
  <2>2. PICK i \in DOMAIN rows[l], j \in DOMAIN rows[m] :
          /\ <<l, i>> # <<m, j>> /\ rows[l][i].key = rows[m][j].key
          /\ rows[m][j].at >= rows[l][i].at
          /\ rows[m][j].at - rows[l][i].at < Limit - Tolerance
    BY <2>1
  <2> DEFINE x == <<l, i>>
             y == <<m, j>>
             k == rows[l][i].key
  <2>3. /\ x \in RowsFiled /\ RowAt(x) = rows[l][i]
        /\ Stamp(rows[l][i]) = rows[l][i].at /\ k \in Key
    BY <1>1, FiledIs
  <2>4. /\ y \in RowsFiled /\ RowAt(y) = rows[m][j]
        /\ Stamp(rows[m][j]) = rows[m][j].at /\ rows[m][j].key = k
    BY <1>1, <2>2, FiledIs
  <2>5. x # y BY <2>2
  <2>6. rows[m][j].at >= rows[l][i].at /\ rows[m][j].at - rows[l][i].at < Limit - Tolerance
    BY <2>2
  <2> HIDE DEF x, y, k
  <2>7. ASSUME NEW z \in RowsFiled, RowAt(z).key = k
        PROVE  \E a \in 1 .. Len(byDomain[k]) :
                 g[z] = <<k, a>> /\ byDomain[k][a] = Stamp(RowAt(z))
    <3>1. g[z] \in Stamps /\ g[z][1] = k /\ byDomain[g[z][1]][g[z][2]] = Stamp(RowAt(z))
      BY <1>6, <2>7
    <3>2. PICK e \in Key : \E a \in 1 .. StampLen[e] : g[z] = <<e, a>>
      BY <3>1, SpotIs DEF Stamps
    <3>3. PICK a \in 1 .. StampLen[e] : g[z] = <<e, a>> BY <3>2
    <3>4. e = k BY <3>1, <3>3
    <3>5. a \in 1 .. Len(byDomain[k]) BY <1>7, <3>3, <3>4
    <3> QED BY <3>1, <3>3, <3>4, <3>5
  <2>8. PICK a \in 1 .. Len(byDomain[k]) :
          g[x] = <<k, a>> /\ byDomain[k][a] = rows[l][i].at
    BY <2>3, <2>7 DEF k
  <2>9. PICK b \in 1 .. Len(byDomain[k]) :
          g[y] = <<k, b>> /\ byDomain[k][b] = rows[m][j].at
    BY <2>4, <2>7
  <2>10. a # b BY <1>6, <2>3, <2>4, <2>5, <2>8, <2>9
  <2> QED BY <1>7, <2>3, <2>6, <2>8, <2>9, <2>10
<1> QED BY <1>4, <1>9, <1>10

LEMMA CheckingInvariant == Spec => [](part = "checking" => CheckingInv)
<1>1. Init => (part = "checking" => CheckingInv)
  <2> SUFFICES ASSUME Init, part = "checking" PROVE CheckingInv OBVIOUS
  <2>1. CheckingInit BY DEF Init
  <2> QED BY <2>1, CheckingInitInv
<1>2. (part = "checking" => CheckingInv) /\ [Next]_vars
        => (part = "checking" => CheckingInv)'
  <2> SUFFICES ASSUME part = "checking" => CheckingInv, [Next]_vars, part' = "checking"
               PROVE  CheckingInv'
    OBVIOUS
  <2>1. part = "checking" /\ [CheckingNext]_checkingVars
    <3>1. CASE Next
      BY <3>1 DEF Next, SavingRuns, CountingRuns, LoggingRuns, CheckingRuns,
                  SelectingRuns, ProbingRuns
    <3>2. CASE UNCHANGED vars BY <3>2 DEF vars
    <3> QED BY <3>1, <3>2
  <2> QED BY <2>1, CheckingStepInv
<1> QED BY <1>1, <1>2, PTL DEF Spec

\* The exit code of the politeness check is 1 if and only if two dispatches of a
\* domain, of one process or of two, were too close together in true time, if every
\* row has the monotonic clock; and it is 0 only if every row of every log was
\* compared (verify_politeness.py:7, 45-49, 178-183).
THEOREM VerdictIsTrue == Spec => []VerdictTrue
<1>1. (part = "checking" => CheckingInv) => VerdictTrue
  BY ExitIsTold, CompleteIsZero DEF VerdictTrue
<1> QED BY <1>1, CheckingInvariant, PTL

-------------------------------------------------------------------------------
(* LogFile: what is in the file.                                           *)

First(n) == [is |-> "first", line |-> n]
Second(n) == [is |-> "second", line |-> n]
Cell == {Header, Trailer} \cup {First(n) : n \in Nat} \cup {Second(n) : n \in Nat}

\* What may stand before a cell: its other half, or the end of a line or of a
\* member; and lines are numbered in the order of the file.
Linked(f, w, i) ==
  /\ IsData(f[i]) => f[i].line \in 1 .. w
  /\ f[i].is # "header" => i > 1
  /\ f[i].is = "second" => f[i - 1] = First(f[i].line)
  /\ f[i].is \in {"first", "trailer"} => f[i - 1].is \in {"header", "second"}
  /\ f[i].is = "first" => \A j \in 1 .. i - 1 : IsData(f[j]) => f[j].line < f[i].line

Chained(f, w) == f \in Seq(Cell) /\ \A i \in 1 .. Len(f) : Linked(f, w, i)

\* f has line n in the run of data from h to e.
HasLine(f, h, e, n) == \E i \in h + 1 .. e - 1 : f[i] = First(n) /\ f[i + 1] = Second(n)

LEMMA CellIs ==
  ASSUME NEW c \in Cell
  PROVE  /\ c.is \in {"header", "trailer", "first", "second"} /\ c.line \in Nat
         /\ c.is = "header" <=> c = Header
         /\ c.is = "trailer" <=> c = Trailer
         /\ c.is = "first" <=> c = First(c.line)
         /\ c.is = "second" <=> c = Second(c.line)
         /\ IsData(c) <=> c.is = "first" \/ c.is = "second"
<1>1. CASE c \in {Header, Trailer} BY <1>1 DEF Header, Trailer, First, Second, IsData
<1>2. CASE c \in {First(n) : n \in Nat} BY <1>2 DEF Header, Trailer, First, Second, IsData
<1>3. CASE c \in {Second(n) : n \in Nat} BY <1>3 DEF Header, Trailer, First, Second, IsData
<1> QED BY <1>1, <1>2, <1>3 DEF Cell

LEMMA LineIs ==
  ASSUME NEW n \in Nat
  PROVE  /\ Line(n) = <<First(n), Second(n)>> /\ First(n) \in Cell /\ Second(n) \in Cell
         /\ Header \in Cell /\ Trailer \in Cell
         /\ First(n).is = "first" /\ First(n).line = n
         /\ Second(n).is = "second" /\ Second(n).line = n
         /\ Header.is = "header" /\ Trailer.is = "trailer"
         /\ IsData(First(n)) /\ IsData(Second(n)) /\ ~ IsData(Header) /\ ~ IsData(Trailer)
<1>1. Line(n) = <<First(n), Second(n)>> BY DEF Line, First, Second
<1>2. First(n) \in Cell /\ Second(n) \in Cell /\ Header \in Cell /\ Trailer \in Cell
  BY DEF Cell
<1> QED BY <1>1, <1>2 DEF First, Second, Header, Trailer, IsData

LEMMA LinkedSame ==
  ASSUME NEW f, NEW g, NEW w \in Nat, NEW v \in Nat, w <= v, NEW i \in Nat \ {0},
         Linked(f, w, i), \A j \in 1 .. i : g[j] = f[j]
  PROVE  Linked(g, v, i)
<1>1. g[i] = f[i] OBVIOUS
<1>2. \A j \in 1 .. i - 1 : g[j] = f[j] OBVIOUS
<1>3. IsData(g[i]) => g[i].line \in 1 .. v BY <1>1 DEF Linked
<1>4. g[i].is # "header" => i > 1 /\ g[i - 1] = f[i - 1]
  <2>1. g[i].is # "header" => i > 1 BY <1>1 DEF Linked
  <2>2. i > 1 => i - 1 \in 1 .. i - 1 OBVIOUS
  <2> QED BY <1>2, <2>1, <2>2
<1>5. g[i].is = "second" => g[i - 1] = First(g[i].line) BY <1>1, <1>4 DEF Linked
<1>6. g[i].is \in {"first", "trailer"} => g[i - 1].is \in {"header", "second"}
  BY <1>1, <1>4 DEF Linked
<1>7. g[i].is = "first" => \A j \in 1 .. i - 1 : IsData(g[j]) => g[j].line < g[i].line
  BY <1>1, <1>2 DEF Linked
<1> QED BY <1>3, <1>4, <1>5, <1>6, <1>7 DEF Linked

LEMMA ChainedPrefix ==
  ASSUME NEW f, NEW w \in Nat, Chained(f, w), NEW g \in Seq(Cell),
         Len(g) <= Len(f), \A j \in 1 .. Len(g) : g[j] = f[j]
  PROVE  Chained(g, w)
<1>1. f \in Seq(Cell) /\ Len(f) \in Nat /\ Len(g) \in Nat BY LenProperties DEF Chained
<1>2. ASSUME NEW i \in 1 .. Len(g) PROVE Linked(g, w, i)
  <2>1. i \in 1 .. Len(f) /\ i \in Nat \ {0} /\ \A j \in 1 .. i : g[j] = f[j] BY <1>1
  <2>2. Linked(f, w, i) BY <2>1 DEF Chained
  <2> QED BY <2>1, <2>2, LinkedSame
<1> QED BY <1>2 DEF Chained

LEMMA ChainedAppend ==
  ASSUME NEW f, NEW w \in Nat, NEW v \in Nat, w <= v, Chained(f, w), NEW c \in Cell,
         /\ IsData(c) => c.line \in 1 .. v
         /\ c.is # "header" => Len(f) >= 1
         /\ c.is = "second" => f[Len(f)] = First(c.line)
         /\ c.is \in {"first", "trailer"} => f[Len(f)].is \in {"header", "second"}
         /\ c.is = "first" => \A j \in 1 .. Len(f) : IsData(f[j]) => f[j].line < c.line
  PROVE  Chained(Append(f, c), v)
<1> DEFINE g == Append(f, c)
           n == Len(f)
<1>1. /\ f \in Seq(Cell) /\ n \in Nat /\ g \in Seq(Cell) /\ Len(g) = n + 1
      /\ g[n + 1] = c /\ \A i \in 1 .. n : g[i] = f[i]
  BY LenProperties, AppendProperties DEF Chained
<1> HIDE DEF g
<1>2. ASSUME NEW i \in 1 .. n PROVE Linked(g, v, i)
  <2>1. i \in Nat \ {0} /\ \A j \in 1 .. i : g[j] = f[j] BY <1>1
  <2>2. Linked(f, w, i) BY DEF Chained
  <2> QED BY <2>1, <2>2, LinkedSame
<1>3. Linked(g, v, n + 1)
  <2>1. n + 1 - 1 = n BY <1>1
  <2>2. n >= 1 => g[n] = f[n] BY <1>1
  <2>3. c.is # "header" => n + 1 > 1 BY <1>1
  <2>4. c.is = "second" => c.is # "header" OBVIOUS
  <2>5. c.is \in {"first", "trailer"} => c.is # "header" OBVIOUS
  <2>6. c.is = "second" => g[n] = First(c.line) BY <2>2, <2>4
  <2>7. c.is \in {"first", "trailer"} => g[n].is \in {"header", "second"} BY <2>2, <2>5
  <2>8. c.is = "first" => \A j \in 1 .. n : IsData(g[j]) => g[j].line < c.line BY <1>1
  <2> HIDE DEF n
  <2> QED BY <1>1, <2>1, <2>3, <2>6, <2>7, <2>8 DEF Linked
<1>4. \A i \in 1 .. Len(g) : Linked(g, v, i)
  <2> SUFFICES ASSUME NEW i \in 1 .. n + 1 PROVE Linked(g, v, i) BY <1>1
  <2>1. i \in 1 .. n \/ i = n + 1 BY <1>1
  <2> QED BY <1>2, <1>3, <2>1
<1> QED BY <1>1, <1>4 DEF Chained, g

\* The file and what the writer has yet to write.
AllCells == disk \o buffer

LoggingTypes ==
  /\ disk \in Seq(Cell) /\ buffer \in Seq(Cell)
  /\ writing \in BOOLEAN /\ (buffer # << >> => writing)
  /\ since \in Nat /\ since < FlushEvery
  /\ written \in Nat /\ member \subseteq 1 .. written /\ intact \subseteq 1 .. written

\* The member that is being written has its lines behind its header.
Writing(f) ==
  /\ f # << >> /\ f[Len(f)].is \in {"header", "second"}
  /\ \E h \in 1 .. Len(f) :
       /\ f[h] = Header /\ \A j \in h + 1 .. Len(f) : IsData(f[j])
       /\ \A n \in member : HasLine(f, h, Len(f), n)

\* Line n is in a member of f that ends as it should.
Closed(f, n) ==
  \E h, e \in 1 .. Len(f) :
    /\ h < e /\ f[h] = Header /\ f[e] = Trailer
    /\ \A j \in h + 1 .. e - 1 : IsData(f[j])
    /\ HasLine(f, h, e - 1, n)

LoggingInv ==
  /\ LoggingTypes
  /\ Chained(AllCells, written)
  /\ writing => Writing(AllCells)
  /\ \A n \in intact : Closed(disk, n)
  /\ \A n \in member : n <= written - since => n \in OnDisk

LEMMA LoggingNumbers ==
  FlushEvery \in Nat /\ FlushEvery >= 1 /\ Block \in Nat /\ Block >= 1
BY LogFileAssumption

LEMMA HasLineSame ==
  ASSUME NEW f, NEW g, NEW h \in Nat, NEW e \in Int, NEW d \in Int, e <= d, NEW n,
         HasLine(f, h, e, n), \A j \in 1 .. e : g[j] = f[j]
  PROVE  HasLine(g, h, d, n)
<1>1. PICK i \in h + 1 .. e - 1 : f[i] = First(n) /\ f[i + 1] = Second(n) BY DEF HasLine
<1>2. i \in 1 .. e /\ i + 1 \in 1 .. e /\ i \in h + 1 .. d - 1 OBVIOUS
<1>3. g[i] = First(n) /\ g[i + 1] = Second(n) BY <1>1, <1>2
<1> QED BY <1>2, <1>3 DEF HasLine

LEMMA ClosedSame ==
  ASSUME NEW f \in Seq(Cell), NEW g \in Seq(Cell), Len(f) <= Len(g),
         \A j \in 1 .. Len(f) : g[j] = f[j], NEW n, Closed(f, n)
  PROVE  Closed(g, n)
<1>1. PICK h \in 1 .. Len(f), e \in 1 .. Len(f) :
        /\ h < e /\ f[h] = Header /\ f[e] = Trailer
        /\ \A j \in h + 1 .. e - 1 : IsData(f[j])
        /\ HasLine(f, h, e - 1, n)
  BY DEF Closed
<1>2. Len(f) \in Nat /\ Len(g) \in Nat BY LenProperties
<1>3. h \in 1 .. Len(g) /\ e \in 1 .. Len(g) /\ g[h] = Header /\ g[e] = Trailer
  BY <1>1, <1>2
<1>4. \A j \in h + 1 .. e - 1 : IsData(g[j])
  <2> SUFFICES ASSUME NEW j \in h + 1 .. e - 1 PROVE IsData(g[j]) OBVIOUS
  <2>1. j \in 1 .. Len(f) BY <1>2
  <2> QED BY <1>1, <2>1
<1>5. HasLine(g, h, e - 1, n)
  <2>1. \A j \in 1 .. e - 1 : g[j] = f[j] BY <1>2
  <2>2. h \in Nat /\ e - 1 \in Int OBVIOUS
  <2> QED BY <1>1, <2>1, <2>2, HasLineSame
<1> QED BY <1>1, <1>3, <1>4, <1>5 DEF Closed

LEMMA AppendLine ==
  ASSUME NEW s \in Seq(Cell), NEW n \in Nat
  PROVE  s \o Line(n) = Append(Append(s, First(n)), Second(n))
<1> DEFINE a == First(n)
           b == Second(n)
           t == Append(s, a)
<1>1. Line(n) = <<a, b>> /\ a \in Cell /\ b \in Cell BY LineIs
<1>2. t \in Seq(Cell) /\ t = s \o <<a>> BY <1>1, AppendProperties, AppendIsConcat
<1>3. Append(t, b) = t \o <<b>>
  <2> HIDE DEF t, b
  <2> QED BY <1>1, <1>2, AppendIsConcat
<1>4. <<a>> \in Seq(Cell) /\ <<b>> \in Seq(Cell) /\ <<a>> \o <<b>> = <<a, b>>
  <2> HIDE DEF a, b
  <2>1. <<a>> \in Seq(Cell) /\ <<b>> \in Seq(Cell) BY <1>1
  <2>2. <<a>> \o <<b>> = Append(<<a>>, b) BY <1>1, <2>1, AppendIsConcat
  <2>3. Append(<<a>>, b) = <<a, b>>
    <3> DEFINE t1 == Append(<<a>>, b)
               t2 == <<a, b>>
    <3>1. /\ t1 \in Seq(Cell) /\ Len(t1) = Len(<<a>>) + 1
          /\ \A i \in 1 .. Len(<<a>>) : t1[i] = <<a>>[i]
          /\ t1[Len(<<a>>) + 1] = b
      BY <1>1, <2>1, AppendProperties
    <3>2. Len(<<a>>) = 1 /\ <<a>>[1] = a OBVIOUS
    <3>3. t2 \in Seq(Cell) /\ Len(t2) = 2 /\ t2[1] = a /\ t2[2] = b BY <1>1
    <3> HIDE DEF t1, t2
    <3>4. Len(t1) = 2 /\ t1[1] = a /\ t1[2] = b BY <3>1, <3>2
    <3>5. \A i \in 1 .. Len(t1) : t1[i] = t2[i]
      <4> SUFFICES ASSUME NEW i \in 1 .. 2 PROVE t1[i] = t2[i] BY <3>4
      <4>1. i = 1 \/ i = 2 OBVIOUS
      <4> QED BY <3>3, <3>4, <4>1
    <3>6. t1 = t2 BY <3>1, <3>3, <3>4, <3>5, SeqEqual
    <3> QED BY <3>6 DEF t1, t2
  <2> QED BY <2>1, <2>2, <2>3
<1>5. (s \o <<a>>) \o <<b>> = s \o (<<a>> \o <<b>>)
  <2> HIDE DEF a, b
  <2> QED BY <1>4, ConcatAssociative
<1> QED BY <1>1, <1>2, <1>3, <1>4, <1>5

LEMMA CellsAre ==
  ASSUME LoggingTypes
  PROVE  /\ AllCells \in Seq(Cell) /\ Len(disk) \in Nat /\ Len(AllCells) \in Nat
         /\ Len(disk) <= Len(AllCells)
         /\ \A j \in 1 .. Len(disk) : AllCells[j] = disk[j]
         /\ ~ writing => AllCells = disk
<1>1. disk \in Seq(Cell) /\ buffer \in Seq(Cell) /\ Len(disk) \in Nat /\ Len(buffer) \in Nat
  BY LenProperties DEF LoggingTypes
<1>2. /\ AllCells \in Seq(Cell) /\ Len(AllCells) = Len(disk) + Len(buffer)
      /\ \A i \in 1 .. Len(disk) + Len(buffer) : AllCells[i] =
           IF i <= Len(disk) THEN disk[i] ELSE buffer[i - Len(disk)]
  BY <1>1, ConcatProperties DEF AllCells
<1>3. ~ writing => AllCells = disk BY <1>1, ConcatEmptySeq DEF LoggingTypes, AllCells
<1>4. \A j \in 1 .. Len(disk) : AllCells[j] = disk[j] BY <1>1, <1>2
<1> QED BY <1>1, <1>2, <1>3, <1>4

\* What is on disk stays there.
LEMMA OnDiskStays ==
  ASSUME LoggingTypes, disk' \in Seq(Cell), Len(disk) <= Len(disk'),
         \A j \in 1 .. Len(disk) : disk'[j] = disk[j],
         written' \in Nat, written <= written'
  PROVE  OnDisk \subseteq OnDisk'
<1> SUFFICES ASSUME NEW n \in OnDisk PROVE n \in OnDisk' OBVIOUS
<1>1. n \in 1 .. written /\ Range(Line(n)) \subseteq Range(disk) BY DEF OnDisk
<1>2. disk \in Seq(Cell) /\ written \in Nat BY DEF LoggingTypes
<1>3. Range(disk) \subseteq Range(disk')
  <2> SUFFICES ASSUME NEW c \in Range(disk) PROVE c \in Range(disk') OBVIOUS
  <2>1. PICK j \in DOMAIN disk : c = disk[j] BY DEF Range
  <2>2. j \in 1 .. Len(disk) /\ Len(disk) \in Nat /\ Len(disk') \in Nat
    BY <1>2, <2>1, LenProperties
  <2>3. j \in 1 .. Len(disk') /\ disk'[j] = c BY <2>1, <2>2
  <2>4. j \in DOMAIN disk' BY <2>3, LenProperties
  <2> QED BY <2>3, <2>4 DEF Range
<1>4. n \in 1 .. written' BY <1>1, <1>2
<1> QED BY <1>1, <1>3, <1>4 DEF OnDisk

LEMMA LineInFile ==
  ASSUME NEW f \in Seq(Cell), NEW n \in Nat, NEW h \in Nat, HasLine(f, h, Len(f), n)
  PROVE  Range(Line(n)) \subseteq Range(f)
<1>1. PICK i \in h + 1 .. Len(f) - 1 : f[i] = First(n) /\ f[i + 1] = Second(n)
  BY DEF HasLine
<1>2. Len(f) \in Nat /\ DOMAIN f = 1 .. Len(f) BY LenProperties
<1>3. i \in DOMAIN f /\ i + 1 \in DOMAIN f BY <1>2
<1>4. First(n) \in Range(f) /\ Second(n) \in Range(f) BY <1>1, <1>3 DEF Range
<1>5. Range(Line(n)) \subseteq {First(n), Second(n)}
  <2>1. Line(n) = <<First(n), Second(n)>> BY LineIs
  <2> QED BY <2>1 DEF Range
<1> QED BY <1>4, <1>5

LEMMA PairOfCells == ASSUME NEW a \in Cell, NEW b \in Cell PROVE <<a, b>> \in Seq(Cell)
OBVIOUS

LEMMA OpenInv == ASSUME LoggingInv, Open PROVE LoggingInv'
<1>1. /\ ~ writing /\ writing' = TRUE /\ since' = 0 /\ buffer' = <<Header>>
      /\ member' = {} /\ disk' = disk /\ written' = written /\ intact' = intact
  BY DEF Open
<1>2. LoggingTypes /\ Chained(AllCells, written) BY DEF LoggingInv
<1>3. AllCells = disk /\ disk \in Seq(Cell) /\ Len(disk) \in Nat /\ written \in Nat
  BY <1>1, <1>2, CellsAre DEF LoggingTypes
<1>4. Header \in Cell /\ Header.is = "header" /\ ~ IsData(Header) BY LineIs
<1>5. AllCells' = Append(disk, Header) BY <1>1, <1>3, <1>4, AppendIsConcat DEF AllCells
<1>6. LoggingTypes'
  <2>1. <<Header>> \in Seq(Cell) /\ 0 < FlushEvery BY <1>4, LoggingNumbers
  <2> QED BY <1>1, <1>2, <2>1 DEF LoggingTypes
<1>7. Chained(AllCells, written)'
  <2>1. Chained(Append(disk, Header), written)
    BY <1>2, <1>3, <1>4, ChainedAppend
  <2> QED BY <1>1, <1>5, <2>1
<1>8. Writing(AllCells)'
  <2> DEFINE f == Append(disk, Header)
             h == Len(disk) + 1
  <2>1. f # << >> /\ Len(f) = h /\ f[h] = Header /\ f \in Seq(Cell)
    BY <1>3, <1>4, AppendProperties
  <2>2. h \in 1 .. Len(f) /\ h + 1 .. Len(f) = {} BY <1>3, <2>1
  <2> HIDE DEF f, h
  <2>3. f[Len(f)].is \in {"header", "second"} BY <1>4, <2>1
  <2>4. AllCells' = f /\ member' = {} BY <1>1, <1>5 DEF f
  <2> QED BY <2>1, <2>2, <2>3, <2>4 DEF Writing
<1>9. (\A n \in intact : Closed(disk, n))' BY <1>1 DEF LoggingInv, Closed, HasLine
<1> QED BY <1>1, <1>6, <1>7, <1>8, <1>9 DEF LoggingInv

LEMMA WriteInv == ASSUME LoggingInv, Write PROVE LoggingInv'
<1> DEFINE w == written + 1
           f == AllCells
           n == Len(f)
           g == Append(f, First(w))
           k == Append(g, Second(w))
<1>1. /\ writing /\ written' = w /\ member' = member \cup {w}
      /\ writing' = writing /\ intact' = intact
      /\ IF FlushDue(since + 1)
         THEN /\ disk' = disk \o (buffer \o Line(w)) /\ buffer' = << >> /\ since' = 0
         ELSE /\ buffer' = buffer \o Line(w) /\ since' = since + 1 /\ disk' = disk
  BY DEF Write
<1>2. LoggingTypes /\ Chained(f, written) /\ Writing(f) BY <1>1 DEF LoggingInv
<1>3. /\ disk \in Seq(Cell) /\ buffer \in Seq(Cell) /\ written \in Nat
      /\ since \in Nat /\ since < FlushEvery /\ w \in Nat /\ w >= 1
      /\ member \subseteq 1 .. written /\ intact \subseteq 1 .. written
  BY <1>2 DEF LoggingTypes
<1>4. /\ Line(w) = <<First(w), Second(w)>> /\ First(w) \in Cell /\ Second(w) \in Cell
      /\ First(w).is = "first" /\ First(w).line = w
      /\ Second(w).is = "second" /\ Second(w).line = w
      /\ IsData(First(w)) /\ IsData(Second(w))
  BY <1>3, LineIs
<1>5. /\ f \in Seq(Cell) /\ n \in Nat /\ Len(disk) \in Nat /\ Len(disk) <= n
      /\ \A j \in 1 .. Len(disk) : f[j] = disk[j]
  BY <1>2, CellsAre
<1>6. Line(w) \in Seq(Cell) BY <1>4, PairOfCells
<1>7. disk \o (buffer \o Line(w)) = k
  <2>1. disk \o (buffer \o Line(w)) = (disk \o buffer) \o Line(w)
    BY <1>3, <1>6, ConcatAssociative
  <2>2. f \o Line(w) = k BY <1>3, <1>5, AppendLine
  <2> QED BY <2>1, <2>2 DEF AllCells
<1>8. AllCells' = k
  <2>1. CASE FlushDue(since + 1)
    <3>1. disk' = k /\ buffer' = << >> BY <1>1, <1>7, <2>1
    <3>2. g \in Seq(Cell) BY <1>4, <1>5, AppendProperties
    <3>3. k \in Seq(Cell) BY <1>4, <3>2, AppendProperties
    <3>4. k \o << >> = k
      <4> HIDE DEF k
      <4> QED BY <3>3, ConcatEmptySeq
    <3> QED BY <3>1, <3>4 DEF AllCells
  <2>2. CASE ~ FlushDue(since + 1) BY <1>1, <1>7, <2>2 DEF AllCells
  <2> QED BY <2>1, <2>2
<1>9. /\ g \in Seq(Cell) /\ Len(g) = n + 1 /\ g[n + 1] = First(w)
      /\ \A j \in 1 .. n : g[j] = f[j]
  <2> HIDE DEF f
  <2> QED BY <1>4, <1>5, AppendProperties
<1>10. /\ k \in Seq(Cell) /\ Len(k) = n + 2 /\ k[n + 1] = First(w) /\ k[n + 2] = Second(w)
       /\ \A j \in 1 .. n : k[j] = f[j]
  <2> HIDE DEF g, f
  <2>1. /\ k \in Seq(Cell) /\ Len(k) = Len(g) + 1 /\ k[Len(g) + 1] = Second(w)
        /\ \A j \in 1 .. Len(g) : k[j] = g[j]
    BY <1>4, <1>9, AppendProperties
  <2>2. Len(g) + 1 = n + 2 /\ n + 1 \in 1 .. Len(g) /\ \A j \in 1 .. n : j \in 1 .. Len(g)
    BY <1>5, <1>9
  <2> HIDE DEF k
  <2> QED BY <1>9, <2>1, <2>2
<1>11. Chained(k, w)
  <2>1. written <= w /\ n >= 1 /\ f[n].is \in {"header", "second"}
    <3>1. f # << >> BY <1>2 DEF Writing
    <3>2. n >= 1 BY <1>5, <3>1, EmptySeq
    <3> QED BY <1>2, <1>3, <3>2 DEF Writing
  <2>2. \A j \in 1 .. n : IsData(f[j]) => f[j].line < w
    <3> SUFFICES ASSUME NEW j \in 1 .. n, IsData(f[j]) PROVE f[j].line < w OBVIOUS
    <3>1. f[j].line \in 1 .. written BY <1>2 DEF Chained, Linked
    <3> QED BY <1>3, <3>1
  <2> HIDE DEF f
  <2>3. Chained(g, w)
    <3>1. w \in 1 .. w BY <1>3
    <3> HIDE DEF w
    <3> QED BY <1>2, <1>3, <1>4, <2>1, <2>2, <3>1, ChainedAppend
  <2>4. Len(g) >= 1 /\ g[Len(g)] = First(w) BY <1>5, <1>9
  <2> HIDE DEF g
  <2>5. w \in 1 .. w /\ w <= w BY <1>3
  <2> HIDE DEF w, n
  <2> QED BY <1>3, <1>4, <2>3, <2>4, <2>5, ChainedAppend
<1> HIDE DEF f, g, k
<1>12. since' \in Nat /\ since' < FlushEvery
  <2>1. CASE FlushDue(since + 1) BY <1>1, <2>1, LoggingNumbers
  <2>2. CASE ~ FlushDue(since + 1) BY <1>1, <1>3, <2>2, LoggingNumbers DEF FlushDue
  <2> QED BY <2>1, <2>2
<1>13. LoggingTypes'
  <2>1. disk' \in Seq(Cell) /\ buffer' \in Seq(Cell) /\ (buffer' # << >> => writing')
    <3>1. CASE FlushDue(since + 1) BY <1>1, <1>7, <1>10, <3>1, EmptySeq
    <3>2. CASE ~ FlushDue(since + 1)
      <4>1. buffer \o Line(w) \in Seq(Cell) BY <1>3, <1>6, ConcatProperties
      <4> QED BY <1>1, <1>3, <3>2, <4>1
    <3> QED BY <3>1, <3>2
  <2>2. member' \subseteq 1 .. written' /\ intact' \subseteq 1 .. written' /\ written' \in Nat
    BY <1>1, <1>3
  <2>3. writing' \in BOOLEAN BY <1>1, <1>2 DEF LoggingTypes
  <2> QED BY <1>12, <2>1, <2>2, <2>3 DEF LoggingTypes
<1>14. Chained(AllCells, written)' BY <1>1, <1>8, <1>11
<1>15. PICK h \in 1 .. n :
         /\ f[h] = Header /\ \A j \in h + 1 .. n : IsData(f[j])
         /\ \A i \in member : HasLine(f, h, n, i)
  BY <1>2 DEF Writing
<1>16. /\ h \in 1 .. Len(k) /\ h \in Nat /\ k[h] = Header
       /\ \A j \in h + 1 .. Len(k) : IsData(k[j])
       /\ \A i \in member \cup {w} : HasLine(k, h, Len(k), i)
  <2>1. h \in 1 .. Len(k) /\ h \in Nat /\ k[h] = Header
    <3>1. h \in 1 .. Len(k) /\ h \in Nat BY <1>5, <1>10
    <3>2. k[h] = f[h] BY <1>5, <1>10
    <3> QED BY <1>15, <3>1, <3>2
  <2>2. ASSUME NEW j \in h + 1 .. Len(k) PROVE IsData(k[j])
    <3>1. j \in h + 1 .. n \/ j = n + 1 \/ j = n + 2 BY <1>5, <1>10
    <3>2. CASE j \in h + 1 .. n
      <4>1. j \in 1 .. n BY <1>5, <3>2
      <4> QED BY <1>10, <1>15, <3>2, <4>1
    <3>3. CASE j = n + 1 \/ j = n + 2 BY <1>4, <1>10, <3>3
    <3> QED BY <3>1, <3>2, <3>3
  <2>3. ASSUME NEW i \in member PROVE HasLine(k, h, Len(k), i)
    <3>1. n \in Int /\ Len(k) \in Int /\ n <= Len(k) BY <1>5, <1>10
    <3> HIDE DEF n
    <3> QED BY <1>10, <1>15, <2>1, <3>1, HasLineSame
  <2>4. HasLine(k, h, Len(k), w)
    <3>1. n + 1 \in h + 1 .. Len(k) - 1 BY <1>5, <1>10
    <3>2. n + 1 + 1 = n + 2 BY <1>5
    <3> QED BY <1>10, <3>1, <3>2 DEF HasLine
  <2> QED BY <2>1, <2>2, <2>3, <2>4
<1>17. Writing(AllCells)'
  <2>1. k # << >> /\ k[Len(k)].is \in {"header", "second"}
    <3>1. Len(k) # 0 BY <1>5, <1>10
    <3> QED BY <1>4, <1>10, <3>1, EmptySeq
  <2> QED BY <1>1, <1>8, <1>16, <2>1 DEF Writing
<1>18. disk' \in Seq(Cell) /\ Len(disk) <= Len(disk') /\ \A j \in 1 .. Len(disk) : disk'[j] = disk[j]
  <2>1. disk' \in Seq(Cell) BY <1>13 DEF LoggingTypes
  <2>2. CASE FlushDue(since + 1)
    <3>1. disk' = k BY <1>1, <1>7, <2>2
    <3>2. \A j \in 1 .. Len(disk) : k[j] = disk[j] BY <1>5, <1>10
    <3> QED BY <1>5, <1>10, <2>1, <3>1, <3>2
  <2>3. CASE ~ FlushDue(since + 1) BY <1>1, <1>5, <2>1, <2>3
  <2> QED BY <2>2, <2>3
<1>19. \A i \in intact' : Closed(disk', i)
  BY <1>1, <1>3, <1>18, ClosedSame DEF LoggingInv
<1>20. ASSUME NEW i \in member', i <= written' - since' PROVE i \in OnDisk'
  <2>1. i \in 1 .. w /\ w \in Nat /\ written' = w BY <1>1, <1>3
  <2>2. CASE FlushDue(since + 1)
    <3>1. disk' = k BY <1>1, <1>7, <2>2
    <3>2. HasLine(disk', h, Len(disk'), i) BY <1>1, <1>16, <3>1
    <3>3. Range(Line(i)) \subseteq Range(disk')
      <4>1. i \in Nat BY <2>1
      <4> QED BY <1>16, <1>18, <3>2, <4>1, LineInFile
    <3> QED BY <2>1, <3>3 DEF OnDisk
  <2>3. CASE ~ FlushDue(since + 1)
    <3>1. since' = since + 1 BY <1>1, <2>3
    <3>2. i <= written - since /\ i # w BY <1>3, <1>20, <2>1, <3>1
    <3>3. i \in OnDisk BY <1>1, <3>2 DEF LoggingInv
    <3>4. written <= written' /\ written' \in Nat BY <1>1, <1>3
    <3> QED BY <1>2, <1>18, <3>3, <3>4, OnDiskStays
  <2> QED BY <2>2, <2>3
<1> QED BY <1>13, <1>14, <1>17, <1>19, <1>20 DEF LoggingInv

LEMMA SpillInv == ASSUME LoggingInv, Spill PROVE LoggingInv'
<1> DEFINE c == Head(buffer)
           d == Append(disk, c)
<1>1. /\ buffer # << >> /\ disk' = d /\ buffer' = Tail(buffer) /\ writing' = writing
      /\ since' = since /\ written' = written /\ member' = member /\ intact' = intact
  BY DEF Spill
<1>2. LoggingTypes /\ Chained(AllCells, written) BY DEF LoggingInv
<1>3. disk \in Seq(Cell) /\ buffer \in Seq(Cell) /\ Len(disk) \in Nat /\ written \in Nat
      /\ writing
  BY <1>1, <1>2, LenProperties DEF LoggingTypes
<1>4. c \in Cell /\ Tail(buffer) \in Seq(Cell) BY <1>1, <1>3, HeadTailProperties
<1>5. buffer = <<c>> \o Tail(buffer)
  <2>1. Len(buffer) \in Nat \ {0} BY <1>1, <1>3, EmptySeq
  <2>2. 1 \in 1 .. Len(buffer) /\ Len(buffer) \in 1 .. Len(buffer) BY <2>1
  <2>3. SubSeq(buffer, 1, Len(buffer)) = <<buffer[1]>> \o SubSeq(buffer, 1 + 1, Len(buffer))
    BY <1>3, <2>2, SubSeqRecursiveFirst
  <2>4. SubSeq(buffer, 1, Len(buffer)) = buffer BY <1>3, SubSeqFull
  <2>5. Tail(buffer) = SubSeq(buffer, 2, Len(buffer)) BY <1>1, <1>3, TailIsSubSeq
  <2>6. c = buffer[1] BY <1>1, <1>3
  <2>7. 1 + 1 = 2 OBVIOUS
  <2> QED BY <2>3, <2>4, <2>5, <2>6, <2>7
<1>6. AllCells' = AllCells
  <2>1. d = disk \o <<c>> BY <1>3, <1>4, AppendIsConcat
  <2>2. <<c>> \in Seq(Cell)
    <3> HIDE DEF c
    <3> QED BY <1>4
  <2>3. (disk \o <<c>>) \o Tail(buffer) = disk \o (<<c>> \o Tail(buffer))
    <3> HIDE DEF c
    <3> QED BY <1>3, <1>4, <2>2, ConcatAssociative
  <2> QED BY <1>1, <1>5, <2>1, <2>3 DEF AllCells
<1>7. /\ d \in Seq(Cell) /\ Len(d) = Len(disk) + 1
      /\ \A j \in 1 .. Len(disk) : d[j] = disk[j]
  <2> HIDE DEF c
  <2> QED BY <1>3, <1>4, AppendProperties
<1> HIDE DEF c, d
<1>8. Len(disk) <= Len(d) BY <1>3, <1>7
<1>9. LoggingTypes' BY <1>1, <1>2, <1>3, <1>4, <1>7 DEF LoggingTypes
<1>10. Writing(AllCells)' BY <1>1, <1>3, <1>6 DEF LoggingInv, Writing
<1>11. \A n \in intact : Closed(d, n) BY <1>3, <1>7, <1>8, ClosedSame DEF LoggingInv
<1>12. OnDisk \subseteq OnDisk' BY <1>1, <1>2, <1>3, <1>7, <1>8, OnDiskStays
<1> QED BY <1>1, <1>2, <1>6, <1>9, <1>10, <1>11, <1>12 DEF LoggingInv

LEMMA CloseInv == ASSUME LoggingInv, Close PROVE LoggingInv'
<1> DEFINE f == AllCells
           g == Append(f, Trailer)
           n == Len(f)
<1>1. /\ writing /\ writing' = FALSE /\ disk' = f \o <<Trailer>> /\ buffer' = << >>
      /\ intact' = intact \cup member /\ member' = member
      /\ since' = since /\ written' = written
  BY DEF Close, AllCells
<1>2. LoggingTypes /\ Chained(f, written) /\ Writing(f) BY <1>1 DEF LoggingInv
<1>3. /\ f \in Seq(Cell) /\ n \in Nat /\ Len(disk) \in Nat /\ Len(disk) <= n
      /\ written \in Nat /\ disk \in Seq(Cell)
      /\ \A j \in 1 .. Len(disk) : f[j] = disk[j]
  BY <1>2, CellsAre DEF LoggingTypes
<1>4. Trailer \in Cell /\ Trailer.is = "trailer" /\ ~ IsData(Trailer) BY LineIs
<1>5. /\ g \in Seq(Cell) /\ Len(g) = n + 1 /\ g[n + 1] = Trailer
      /\ \A j \in 1 .. n : g[j] = f[j]
  <2> HIDE DEF f
  <2> QED BY <1>3, <1>4, AppendProperties
<1>6. disk' = g /\ AllCells' = g
  <2>1. disk' = g
    <3>1. g = f \o <<Trailer>>
      <4> HIDE DEF f
      <4> QED BY <1>3, <1>4, AppendIsConcat
    <3> QED BY <1>1, <3>1
  <2>2. g \o << >> = g
    <3> HIDE DEF g
    <3> QED BY <1>5, ConcatEmptySeq
  <2> QED BY <1>1, <2>1, <2>2 DEF AllCells
<1>7. n >= 1 /\ f[n].is \in {"header", "second"}
  <2>1. f # << >> /\ f[n].is \in {"header", "second"} BY <1>2 DEF Writing
  <2> HIDE DEF f
  <2>2. n \in Nat \ {0} BY <1>3, <2>1, EmptySeq
  <2> QED BY <2>1, <2>2
<1>8. Chained(g, written)
  <2> HIDE DEF f
  <2> QED BY <1>2, <1>3, <1>4, <1>7, ChainedAppend
<1>9. PICK h \in 1 .. n :
         /\ f[h] = Header /\ \A j \in h + 1 .. n : IsData(f[j])
         /\ \A i \in member : HasLine(f, h, n, i)
  BY <1>2 DEF Writing
<1> HIDE DEF f, g
<1>10. ASSUME NEW i \in member PROVE Closed(g, i)
  <2> DEFINE e == n + 1
  <2>1. h \in 1 .. Len(g) /\ e \in 1 .. Len(g) /\ h < e /\ e - 1 = n BY <1>3, <1>5
  <2>2. g[h] = Header /\ g[e] = Trailer BY <1>5, <1>9
  <2>3. \A j \in h + 1 .. n : IsData(g[j])
    <3> SUFFICES ASSUME NEW j \in h + 1 .. n PROVE IsData(g[j]) OBVIOUS
    <3>1. j \in 1 .. n BY <1>3
    <3> QED BY <1>5, <1>9, <3>1
  <2>4. HasLine(g, h, n, i)
    <3>1. h \in Nat /\ n \in Int /\ n <= n BY <1>3
    <3> HIDE DEF n
    <3> QED BY <1>5, <1>9, <3>1, HasLineSame
  <2> HIDE DEF e, n
  <2> QED BY <2>1, <2>2, <2>3, <2>4 DEF Closed
<1>11. Len(disk) <= Len(g) /\ \A j \in 1 .. Len(disk) : g[j] = disk[j]
  <2> HIDE DEF g, n
  <2>1. Len(disk) <= Len(g) BY <1>3, <1>5
  <2>2. \A j \in 1 .. Len(disk) : j \in 1 .. n BY <1>3
  <2> QED BY <1>3, <1>5, <2>1, <2>2
<1>12. \A i \in intact : Closed(g, i) BY <1>3, <1>5, <1>11, ClosedSame DEF LoggingInv
<1>13. LoggingTypes' BY <1>1, <1>2, <1>5, <1>6, EmptySeq DEF LoggingTypes
<1>14. OnDisk \subseteq OnDisk' BY <1>1, <1>2, <1>3, <1>5, <1>6, <1>11, OnDiskStays
<1> QED BY <1>1, <1>6, <1>8, <1>10, <1>12, <1>13, <1>14 DEF LoggingInv

LEMMA KillInv == ASSUME LoggingInv, Kill PROVE LoggingInv'
<1>1. /\ writing' = FALSE /\ buffer' = << >> /\ disk' = disk /\ since' = since
      /\ written' = written /\ member' = member /\ intact' = intact
  BY DEF Kill
<1>2. LoggingTypes /\ Chained(AllCells, written) BY DEF LoggingInv
<1>3. LoggingTypes' BY <1>1, <1>2, EmptySeq DEF LoggingTypes
<1>4. disk \in Seq(Cell) /\ written \in Nat BY <1>2 DEF LoggingTypes
<1>5. AllCells' = disk BY <1>1, <1>4, ConcatEmptySeq DEF AllCells
<1>6. Chained(disk, written) BY <1>2, <1>4, CellsAre, ChainedPrefix
<1>7. OnDisk' = OnDisk BY <1>1 DEF OnDisk
<1>8. (\A n \in intact : Closed(disk, n))' BY <1>1 DEF LoggingInv, Closed, HasLine
<1> QED BY <1>1, <1>3, <1>5, <1>6, <1>7, <1>8 DEF LoggingInv

LEMMA LoggingInitInv == LoggingInit => LoggingInv
<1> SUFFICES ASSUME LoggingInit PROVE LoggingInv OBVIOUS
<1>1. /\ disk = << >> /\ buffer = << >> /\ writing = FALSE /\ since = 0
      /\ written = 0 /\ member = {} /\ intact = {}
  BY DEF LoggingInit
<1>2. << >> \in Seq(Cell) /\ Len(<< >>) = 0 BY EmptySeq
<1>3. LoggingTypes
  <2>1. since \in Nat /\ since < FlushEvery BY <1>1, LoggingNumbers
  <2>2. disk \in Seq(Cell) /\ buffer \in Seq(Cell) BY <1>1, <1>2
  <2>3. writing \in BOOLEAN /\ (buffer # << >> => writing) BY <1>1
  <2>4. written \in Nat /\ member \subseteq 1 .. written /\ intact \subseteq 1 .. written
    BY <1>1
  <2> QED BY <2>1, <2>2, <2>3, <2>4 DEF LoggingTypes
<1>4. AllCells = << >> BY <1>1, <1>2, ConcatEmptySeq DEF AllCells
<1>5. Chained(<< >>, 0) BY <1>2 DEF Chained
<1> QED BY <1>1, <1>3, <1>4, <1>5 DEF LoggingInv

LEMMA LoggingStepInv == LoggingInv /\ [LoggingNext]_loggingVars => LoggingInv'
<1> SUFFICES ASSUME LoggingInv, [LoggingNext]_loggingVars PROVE LoggingInv'
  OBVIOUS
<1>1. CASE LoggingNext
  BY <1>1, OpenInv, WriteInv, SpillInv, CloseInv, KillInv DEF LoggingNext
<1>2. CASE UNCHANGED loggingVars
  <2>1. /\ disk' = disk /\ buffer' = buffer /\ writing' = writing /\ since' = since
        /\ written' = written /\ member' = member /\ intact' = intact
    BY <1>2 DEF loggingVars
  <2>2. AllCells' = AllCells /\ OnDisk' = OnDisk BY <2>1 DEF AllCells, OnDisk
  <2>3. LoggingTypes' BY <2>1 DEF LoggingInv, LoggingTypes
  <2>4. Writing(AllCells)' = Writing(AllCells) BY <2>1, <2>2 DEF Writing
  <2>5. (\A n \in intact : Closed(disk, n))' BY <2>1 DEF LoggingInv, Closed, HasLine
  <2> QED BY <2>1, <2>2, <2>3, <2>4, <2>5 DEF LoggingInv
<1> QED BY <1>1, <1>2

\* What a kill can have lost is no more than was written since the last flush.
LEMMA KillLoses ==
  ASSUME LoggingInv
  PROVE  KillLosesOneBuffer
<1> DEFINE lost == member \ OnDisk
           late == written - since + 1 .. written
<1>1. /\ since \in Nat /\ since < FlushEvery /\ written \in Nat /\ member \subseteq 1 .. written
      /\ \A n \in member : n <= written - since => n \in OnDisk
  BY DEF LoggingInv, LoggingTypes
<1>2. lost \subseteq late
  <2> SUFFICES ASSUME NEW n \in lost PROVE n \in late OBVIOUS
  <2>1. n \in 1 .. written /\ ~ (n <= written - since) BY <1>1
  <2> QED BY <1>1, <2>1
<1>3. IsFiniteSet(late) /\ Cardinality(late) = since
  <2>1. written - since + 1 \in Int /\ written \in Int BY <1>1
  <2>2. IsFiniteSet(late) /\ Cardinality(late)
          = IF written - since + 1 > written THEN 0 ELSE written - (written - since + 1) + 1
    BY <2>1, FS_Interval
  <2> HIDE DEF late
  <2> QED BY <1>1, <2>2
<1> HIDE DEF late, lost
<1>4. Cardinality(lost) <= since BY <1>2, <1>3, FS_Subset
<1>5. IsFiniteSet(lost) BY <1>2, <1>3, FS_Subset
<1>6. Cardinality(lost) \in Nat BY <1>5, FS_CardinalityType
<1>7. Cardinality(lost) < FlushEvery BY <1>1, <1>4, <1>6, LoggingNumbers
<1> QED BY <1>7 DEF KillLosesOneBuffer, lost

-------------------------------------------------------------------------------
(* LogFile: the lines of a run of data.                                    *)

\* A run of data: the halves of lines, in pairs but for the last, in order.
DataRun(c, w) ==
  /\ c \in Seq(Cell)
  /\ \A i \in 1 .. Len(c) :
       /\ IsData(c[i]) /\ c[i].line \in 1 .. w
       /\ c[i].is = "second" => i > 1 /\ c[i - 1] = First(c[i].line)
       /\ c[i].is = "first" => /\ i > 1 => c[i - 1].is = "second"
                               /\ \A j \in 1 .. i - 1 : c[j].line < c[i].line

\* Lines of numbers up to w, each once and in order.
InOrder(s, w) ==
  /\ s \in Seq(Seq(Cell))
  /\ \A i \in 1 .. Len(s) :
       /\ \E n \in 1 .. w : s[i] = Line(n)
       /\ \A j \in 1 .. i - 1 : s[j][1].line < s[i][1].line

Ends(c) == {i \in DOMAIN c : c[i].is = "second"}
From(c, i) == Max({j \in Ends(c) \cup {0} : j < i}) + 1
EndAt(c, k) == CHOOSE e \in Ends(c) : Cardinality({j \in Ends(c) : j <= e}) = k

LEMMA LinesAre ==
  ASSUME NEW c
  PROVE  /\ Lines(c).tail = SubSeq(c, Max(Ends(c) \cup {0}) + 1, Len(c))
         /\ Lines(c).whole = [k \in 1 .. Cardinality(Ends(c)) |->
                                SubSeq(c, From(c, EndAt(c, k)), EndAt(c, k))]
BY DEF Lines, Ends, From, EndAt

LEMMA EndsAre ==
  ASSUME NEW c \in Seq(Cell)
  PROVE  /\ Ends(c) \subseteq 1 .. Len(c) /\ Ends(c) \subseteq Int /\ Len(c) \in Nat
         /\ IsFiniteSet(Ends(c)) /\ Cardinality(Ends(c)) \in Nat
         /\ \A i \in 1 .. Len(c) : i \in Ends(c) <=> c[i].is = "second"
<1>1. DOMAIN c = 1 .. Len(c) /\ Len(c) \in Nat BY LenProperties
<1>2. IsFiniteSet(1 .. Len(c)) BY <1>1, FS_Interval
<1>3. Ends(c) \subseteq 1 .. Len(c) /\ \A i \in 1 .. Len(c) : i \in Ends(c) <=> c[i].is = "second"
  BY <1>1 DEF Ends
<1>4. IsFiniteSet(Ends(c)) BY <1>2, <1>3, FS_Subset
<1> QED BY <1>1, <1>3, <1>4, FS_CardinalityType

\* The k-th end of a line.
LEMMA EndAtIs ==
  ASSUME NEW c \in Seq(Cell)
  PROVE  LET n == Cardinality(Ends(c))
         IN  /\ \A k \in 1 .. n : EndAt(c, k) \in Ends(c)
             /\ \A k, m \in 1 .. n : k < m => EndAt(c, k) < EndAt(c, m)
             /\ \A i \in Ends(c) : \E k \in 1 .. n : EndAt(c, k) = i
<1> DEFINE S == Ends(c)
           n == Cardinality(S)
           s == Arranged(Lower(S), S)
<1>1. S \subseteq Int /\ IsFiniteSet(S) /\ n \in Nat BY EndsAre
<1> HIDE DEF S
<1>2. /\ Orders(Lower(S), S)
      /\ \A u \in S : Rank(Lower(S), S, u) = Cardinality({v \in S : v < u})
      /\ \A u, v \in S : <<u, v>> \in Lower(S) <=> u < v
  BY <1>1, LowerOrders
<1>3. /\ s \in [1 .. n -> S]
      /\ \A i, j \in 1 .. n : i < j => <<s[i], s[j]>> \in Lower(S)
      /\ \A u \in S : \E i \in 1 .. n : s[i] = u
  BY <1>2, ArrangedIs
<1>4. ASSUME NEW u \in S
      PROVE  Cardinality({v \in S : v <= u}) = Rank(Lower(S), S, u) + 1
  <2> DEFINE B == {v \in S : v < u}
  <2>1. {v \in S : v <= u} = B \cup {u}
    <3>1. \A v \in S : v <= u <=> v < u \/ v = u BY <1>1
    <3> QED BY <3>1
  <2>2. u \notin B /\ B \subseteq S BY <1>1
  <2>3. Cardinality(B) = Rank(Lower(S), S, u) BY <1>2
  <2> HIDE DEF B
  <2>4. IsFiniteSet(B) BY <1>1, <2>2, FS_Subset
  <2>5. Cardinality(B \cup {u}) = Cardinality(B) + 1 BY <2>2, <2>4, FS_AddElement
  <2> QED BY <2>1, <2>3, <2>5
<1>5. ASSUME NEW k \in 1 .. n PROVE EndAt(c, k) = s[k]
  <2>1. s[k] = CHOOSE x \in S : Rank(Lower(S), S, x) = k - 1 BY DEF Arranged
  <2>2. \A x \in S : Rank(Lower(S), S, x) = k - 1 <=> Cardinality({v \in S : v <= x}) = k
    <3> SUFFICES ASSUME NEW x \in S
                 PROVE  Rank(Lower(S), S, x) = k - 1 <=> Cardinality({v \in S : v <= x}) = k
      OBVIOUS
    <3>1. Rank(Lower(S), S, x) \in Nat BY <1>2, RankIs
    <3>2. Cardinality({v \in S : v <= x}) = Rank(Lower(S), S, x) + 1 BY <1>4
    <3> QED BY <1>1, <3>1, <3>2
  <2>3. EndAt(c, k) = CHOOSE x \in S : Cardinality({v \in S : v <= x}) = k
    BY DEF EndAt, S
  <2> QED BY <2>1, <2>2, <2>3
<1> HIDE DEF n, s
<1>6. \A k, m \in 1 .. n : k < m => s[k] < s[m]
  <2> SUFFICES ASSUME NEW k \in 1 .. n, NEW m \in 1 .. n, k < m PROVE s[k] < s[m]
    OBVIOUS
  <2>1. s[k] \in S /\ s[m] \in S /\ <<s[k], s[m]>> \in Lower(S) BY <1>3
  <2> QED BY <1>2, <2>1
<1>7. \A k \in 1 .. n : EndAt(c, k) \in S BY <1>3, <1>5
<1>8. \A k, m \in 1 .. n : k < m => EndAt(c, k) < EndAt(c, m) BY <1>5, <1>6
<1>9. \A i \in S : \E k \in 1 .. n : EndAt(c, k) = i BY <1>3, <1>5
<1> QED BY <1>7, <1>8, <1>9 DEF n, S

\* The line that ends at i.
LEMMA LineEndsAt ==
  ASSUME NEW w \in Nat, NEW c, DataRun(c, w), NEW i \in Ends(c)
  PROVE  /\ i - 1 \in 1 .. Len(c) /\ c[i].line \in 1 .. w
         /\ c[i - 1] = First(c[i].line) /\ c[i] = Second(c[i].line)
         /\ SubSeq(c, From(c, i), i) = Line(c[i].line)
<1> DEFINE T == {j \in Ends(c) \cup {0} : j < i}
           n == c[i].line
<1>1. c \in Seq(Cell) BY DEF DataRun
<1>2. /\ Ends(c) \subseteq 1 .. Len(c) /\ Len(c) \in Nat /\ IsFiniteSet(Ends(c))
      /\ \A j \in 1 .. Len(c) : j \in Ends(c) <=> c[j].is = "second"
  BY <1>1, EndsAre
<1>3. i \in 1 .. Len(c) /\ c[i].is = "second" BY <1>2
<1>4. i > 1 /\ c[i - 1] = First(n) /\ n \in 1 .. w /\ n \in Nat
  <2>1. i > 1 /\ c[i - 1] = First(n) /\ n \in 1 .. w BY <1>3 DEF DataRun
  <2> QED BY <2>1
<1>5. i - 1 \in 1 .. Len(c) /\ c[i - 1].is = "first" /\ c[i] = Second(n)
  <2>1. i - 1 \in 1 .. Len(c) BY <1>2, <1>3, <1>4
  <2>2. c[i - 1].is = "first" BY <1>4, LineIs
  <2>3. c[i] \in Cell BY <1>1, <1>3, ElementOfSeq
  <2> QED BY <1>3, <2>1, <2>2, <2>3, CellIs
<1>6. i - 2 \in T /\ i - 1 \notin T
  <2>1. i - 1 \notin Ends(c) /\ i - 1 # 0
    <3>1. c[i - 1].is # "second" BY <1>5
    <3> QED BY <1>2, <1>4, <1>5, <3>1
  <2>2. CASE i = 2 BY <2>1, <2>2
  <2>3. CASE i # 2
    <3>1. i - 1 > 1 /\ i - 1 - 1 = i - 2 /\ i - 2 \in 1 .. Len(c) BY <1>2, <1>3, <1>4, <2>3
    <3>2. c[i - 1 - 1].is = "second" BY <1>5, <3>1 DEF DataRun
    <3>3. i - 2 \in Ends(c) BY <1>2, <3>1, <3>2
    <3> QED BY <1>2, <1>3, <2>1, <3>3
  <2> QED BY <2>2, <2>3
<1>7. T \subseteq Int /\ IsFiniteSet(T) /\ \A j \in T : j < i
  <2>1. IsFiniteSet(Ends(c) \cup {0}) BY <1>2, FS_AddElement
  <2>2. T \subseteq Ends(c) \cup {0} OBVIOUS
  <2>3. IsFiniteSet(T) BY <2>1, <2>2, FS_Subset
  <2> QED BY <1>2, <2>3
<1> HIDE DEF T
<1>8. Max(T) \in T /\ i - 2 <= Max(T) BY <1>6, <1>7, GreatestIs
<1>9. Max(T) = i - 2
  <2>1. Max(T) \in Int /\ Max(T) < i /\ Max(T) # i - 1 BY <1>6, <1>7, <1>8
  <2> QED BY <1>3, <1>8, <2>1
<1>10. From(c, i) = i - 1
  <2>1. From(c, i) = Max(T) + 1 BY DEF From, T
  <2> QED BY <1>3, <1>9, <2>1
<1> HIDE DEF n
<1>11. SubSeq(c, i - 1, i) = Line(n)
  <2> DEFINE s == SubSeq(c, i - 1, i)
  <2>1. i - 1 \in Int /\ i \in Int /\ \A j \in i - 1 .. i : c[j] \in Cell
    <3>1. \A j \in i - 1 .. i : j \in 1 .. Len(c) BY <1>2, <1>3, <1>5
    <3> QED BY <1>1, <1>3, <3>1, ElementOfSeq
  <2>2. /\ s \in Seq(Cell) /\ Len(s) = IF i - 1 <= i THEN i - (i - 1) + 1 ELSE 0
        /\ \A j \in 1 .. i - (i - 1) + 1 : s[j] = c[i - 1 + j - 1]
    BY <2>1, SubSeqProperties
  <2> HIDE DEF s
  <2>3. Len(s) = 2 BY <2>1, <2>2
  <2>4. s[1] = First(n) /\ s[2] = Second(n)
    <3>1. i - (i - 1) + 1 = 2 /\ i - 1 + 1 - 1 = i - 1 /\ i - 1 + 2 - 1 = i BY <2>1
    <3>2. s[1] = c[i - 1 + 1 - 1] /\ s[2] = c[i - 1 + 2 - 1] BY <2>2, <3>1
    <3> QED BY <1>4, <1>5, <3>1, <3>2 DEF n
  <2> DEFINE t == <<First(n), Second(n)>>
  <2>5. Line(n) = t /\ t \in Seq(Cell) BY <1>4, LineIs, PairOfCells DEF n
  <2>6. Len(t) = 2 /\ t[1] = First(n) /\ t[2] = Second(n) OBVIOUS
  <2> HIDE DEF t
  <2>7. \A j \in 1 .. Len(s) : s[j] = t[j]
    <3> SUFFICES ASSUME NEW j \in 1 .. 2 PROVE s[j] = t[j] BY <2>3
    <3>1. j = 1 \/ j = 2 OBVIOUS
    <3> QED BY <2>4, <2>6, <3>1
  <2>8. s = t BY <2>2, <2>3, <2>5, <2>6, <2>7, SeqEqual
  <2> QED BY <2>5, <2>8 DEF s
<1> QED BY <1>4, <1>5, <1>10, <1>11 DEF n

\* _split_lines, of a run of data.
LEMMA RunLines ==
  ASSUME NEW w \in Nat, NEW c, DataRun(c, w)
  PROVE  /\ InOrder(Lines(c).whole, w)
         /\ \A k \in 1 .. Len(Lines(c).whole) : \E i \in 1 .. Len(c) :
              c[i].is = "second" /\ Lines(c).whole[k] = Line(c[i].line)
         /\ \A i \in 1 .. Len(c) : c[i].is = "second" =>
              \E k \in 1 .. Len(Lines(c).whole) : Lines(c).whole[k] = Line(c[i].line)
         /\ Len(c) = 0 \/ c[Len(c)].is = "second" => Lines(c).tail = << >>
<1> DEFINE S == Ends(c)
           n == Cardinality(S)
           s == Lines(c).whole
           at(k) == EndAt(c, k)
<1>1. c \in Seq(Cell) BY DEF DataRun
<1>2. /\ S \subseteq 1 .. Len(c) /\ S \subseteq Int /\ Len(c) \in Nat /\ IsFiniteSet(S)
      /\ n \in Nat /\ \A i \in 1 .. Len(c) : i \in S <=> c[i].is = "second"
  BY <1>1, EndsAre
<1>3. /\ \A k \in 1 .. n : at(k) \in S
      /\ \A k, m \in 1 .. n : k < m => at(k) < at(m)
      /\ \A i \in S : \E k \in 1 .. n : at(k) = i
  BY <1>1, EndAtIs
<1>4. s = [k \in 1 .. n |-> SubSeq(c, From(c, at(k)), at(k))] BY LinesAre
<1>5. \A i \in S : /\ i - 1 \in 1 .. Len(c) /\ c[i].line \in 1 .. w
                   /\ c[i - 1] = First(c[i].line)
                   /\ SubSeq(c, From(c, i), i) = Line(c[i].line)
  BY LineEndsAt
<1> HIDE DEF S, n, s, at
<1>6. \A k \in 1 .. n : s[k] = Line(c[at(k)].line) /\ at(k) \in S BY <1>3, <1>4, <1>5
<1>7. ASSUME NEW m \in 1 .. w
      PROVE  Line(m) \in Seq(Cell) /\ Line(m)[1].line = m
  <2>1. m \in Nat OBVIOUS
  <2>2. Line(m) = <<First(m), Second(m)>> /\ First(m) \in Cell /\ Second(m) \in Cell
        /\ First(m).line = m
    BY <2>1, LineIs
  <2>3. <<First(m), Second(m)>> \in Seq(Cell) BY <2>2, PairOfCells
  <2> QED BY <2>2, <2>3
<1>8. s \in Seq(Seq(Cell)) /\ Len(s) = n
  <2>1. \A k \in 1 .. n : s[k] \in Seq(Cell) BY <1>5, <1>6, <1>7
  <2>2. s = [k \in 1 .. n |-> s[k]] BY <1>4
  <2>3. s \in [1 .. n -> Seq(Cell)] BY <2>1, <2>2
  <2> QED BY <1>2, <2>3
<1>9. InOrder(s, w)
  <2>1. ASSUME NEW k \in 1 .. n
        PROVE  /\ \E m \in 1 .. w : s[k] = Line(m)
               /\ \A j \in 1 .. k - 1 : s[j][1].line < s[k][1].line
    <3>1. s[k] = Line(c[at(k)].line) /\ at(k) \in S /\ c[at(k)].line \in 1 .. w BY <1>5, <1>6
    <3>2. ASSUME NEW j \in 1 .. k - 1 PROVE s[j][1].line < s[k][1].line
      <4>1. j \in 1 .. n /\ j < k BY <1>2
      <4>2. s[j] = Line(c[at(j)].line) /\ at(j) \in S /\ c[at(j)].line \in 1 .. w
        BY <1>5, <1>6, <4>1
      <4>3. at(j) < at(k) BY <1>3, <4>1
      <4> DEFINE a == at(j)
                 b == at(k)
      <4>4. a \in S /\ b \in S /\ a < b BY <3>1, <4>2, <4>3
      <4>5. c[b - 1] = First(c[b].line) /\ b - 1 \in 1 .. Len(c) /\ a \in 1 .. Len(c)
        BY <1>2, <1>5, <4>4
      <4>6. c[b - 1].is = "first" /\ c[b - 1].line = c[b].line
        <5>1. c[b].line \in Nat BY <3>1
        <5> QED BY <4>5, <5>1, LineIs
      <4>7. c[a].is = "second" BY <1>2, <4>4
      <4>8. a # b - 1 BY <4>6, <4>7
      <4>9. s[j][1].line = c[a].line /\ s[k][1].line = c[b].line BY <1>7, <3>1, <4>2
      <4> HIDE DEF a, b
      <4>10. a \in Nat /\ b \in Int /\ a >= 1 BY <1>2, <4>4, <4>5
      <4>11. a \in 1 .. (b - 1) - 1 BY <4>4, <4>8, <4>10
      <4>12. c[a].line < c[b - 1].line BY <4>5, <4>6, <4>11 DEF DataRun
      <4> QED BY <4>6, <4>9, <4>12
    <3> QED BY <3>1, <3>2
  <2> QED BY <1>8, <2>1 DEF InOrder
<1>10. \A k \in 1 .. Len(s) : \E i \in 1 .. Len(c) :
         c[i].is = "second" /\ s[k] = Line(c[i].line)
  BY <1>2, <1>6, <1>8
<1>11. \A i \in 1 .. Len(c) : c[i].is = "second" =>
         \E k \in 1 .. Len(s) : s[k] = Line(c[i].line)
  BY <1>2, <1>3, <1>6, <1>8
<1>12. ASSUME Len(c) = 0 \/ c[Len(c)].is = "second" PROVE Lines(c).tail = << >>
  <2> DEFINE T == S \cup {0}
  <2>1. T \subseteq Int /\ IsFiniteSet(T) /\ T # {} /\ \A j \in T : j <= Len(c)
    <3>1. IsFiniteSet(T) BY <1>2, FS_AddElement
    <3> QED BY <1>2, <3>1
  <2>2. Len(c) \in T
    <3>1. CASE Len(c) = 0 BY <3>1
    <3>2. CASE Len(c) # 0
      <4>1. Len(c) \in 1 .. Len(c) BY <1>2, <3>2
      <4> QED BY <1>2, <1>12, <3>2, <4>1
    <3> QED BY <3>1, <3>2
  <2> HIDE DEF T
  <2>3. Max(T) \in T /\ Len(c) <= Max(T) BY <2>1, <2>2, GreatestIs
  <2>4. Max(T) = Len(c)
    <3>1. Max(T) \in Int /\ Max(T) <= Len(c) BY <2>1, <2>3
    <3> QED BY <1>2, <2>3, <3>1
  <2>5. Lines(c).tail = SubSeq(c, Len(c) + 1, Len(c))
    <3>1. Lines(c).tail = SubSeq(c, Max(S \cup {0}) + 1, Len(c)) BY LinesAre DEF S
    <3> QED BY <2>4, <3>1 DEF T
  <2>6. Len(c) + 1 \in Int /\ Len(c) \in Int /\ Len(c) < Len(c) + 1 BY <1>2
  <2> QED BY <2>5, <2>6, SubSeqEmpty
<1> QED BY <1>9, <1>10, <1>11, <1>12 DEF s

-------------------------------------------------------------------------------
(* LogFile: one member of a file f whose lines are numbered up to w.       *)

LEMMA PartOfInterval ==
  ASSUME NEW a \in Int, NEW b \in Int, NEW S, S \subseteq a .. b
  PROVE  S \subseteq Int /\ IsFiniteSet(S)
<1>1. IsFiniteSet(a .. b) BY FS_Interval
<1>2. IsFiniteSet(S) BY <1>1, FS_Subset
<1> QED BY <1>2

LEMMA EndOfDataIs ==
  ASSUME NEW f \in Seq(Cell), NEW p \in 1 .. Len(f)
  PROVE  /\ EndOfData(f, p) \in p + 1 .. Len(f) + 1
         /\ \A j \in p + 1 .. EndOfData(f, p) - 1 : IsData(f[j])
         /\ EndOfData(f, p) <= Len(f) => ~ IsData(f[EndOfData(f, p)])
<1> DEFINE n == Len(f)
           S == {i \in p + 1 .. n : ~ IsData(f[i])} \cup {n + 1}
           e == Min(S)
<1>1. n \in Nat /\ p \in Nat /\ p <= n BY LenProperties
<1> HIDE DEF n
<1>2. S \subseteq p + 1 .. n + 1 /\ S # {} BY <1>1
<1>3. p + 1 \in Int /\ n + 1 \in Int BY <1>1
<1>4. EndOfData(f, p) = e BY DEF EndOfData, n
<1>5. \A j \in p + 1 .. n : j \notin S => IsData(f[j]) OBVIOUS
<1>6. \A j \in S : j <= n => ~ IsData(f[j]) BY <1>1
<1> HIDE DEF S
<1>7. S \subseteq Int /\ IsFiniteSet(S) BY <1>2, <1>3, PartOfInterval
<1>8. e \in S /\ \A y \in S : e <= y BY <1>2, <1>7, LeastIs
<1> HIDE DEF e
<1>9. e \in p + 1 .. n + 1 BY <1>2, <1>8
<1>10. ASSUME NEW j \in p + 1 .. e - 1 PROVE IsData(f[j])
  <2>1. j \in p + 1 .. n /\ j < e BY <1>1, <1>9
  <2>2. j \notin S BY <1>8, <1>9, <2>1
  <2> QED BY <1>5, <2>1, <2>2
<1>11. e <= n => ~ IsData(f[e]) BY <1>6, <1>8
<1> QED BY <1>4, <1>9, <1>10, <1>11 DEF n

LEMMA EndOfDataAt ==
  ASSUME NEW f \in Seq(Cell), NEW p \in 1 .. Len(f), NEW d \in p + 1 .. Len(f),
         \A j \in p + 1 .. d - 1 : IsData(f[j]), ~ IsData(f[d])
  PROVE  EndOfData(f, p) = d
<1> DEFINE e == EndOfData(f, p)
<1>1. /\ e \in p + 1 .. Len(f) + 1 /\ \A j \in p + 1 .. e - 1 : IsData(f[j])
      /\ e <= Len(f) => ~ IsData(f[e])
  BY EndOfDataIs
<1> HIDE DEF e
<1>2. Len(f) \in Nat BY LenProperties
<1>3. ~ (d < e)
  <2>1. p \in Nat /\ d \in Int /\ e \in Int /\ p + 1 <= d BY <1>1, <1>2
  <2>2. d < e => d \in p + 1 .. e - 1 BY <2>1
  <2> QED BY <1>1, <2>2
<1>4. ~ (e < d)
  <2>1. e < d => e \in p + 1 .. d - 1 /\ e <= Len(f)
    <3>1. /\ p \in Nat /\ d \in Int /\ e \in Int /\ p + 1 <= e
          /\ d <= Len(f) /\ Len(f) \in Nat
      BY <1>1, <1>2
    <3> QED BY <3>1
  <2> QED BY <1>1, <2>1
<1>5. e = d BY <1>1, <1>2, <1>3, <1>4
<1> QED BY <1>5 DEF e

LEMMA NextMemberIs ==
  ASSUME NEW f \in Seq(Cell), NEW p \in 1 .. Len(f)
  PROVE  /\ FindNextMember(f, p) = 0 \/ FindNextMember(f, p) \in p + 1 .. Len(f)
         /\ \A j \in p + 1 .. Len(f) : f[j] = Header =>
              FindNextMember(f, p) # 0 /\ FindNextMember(f, p) <= j
         /\ FindNextMember(f, p) # 0 =>
              \/ f[FindNextMember(f, p)] = Header
              \/ /\ f[FindNextMember(f, p)].is = "first"
                 /\ f[FindNextMember(f, p)].line \in Lookalike
<1> DEFINE n == Len(f)
           Looks(i) == f[i] = Header \/ (f[i].is = "first" /\ f[i].line \in Lookalike)
           S == {i \in p + 1 .. n : Looks(i)}
           x == FindNextMember(f, p)
<1>1. n \in Nat /\ n \in Int /\ p \in Nat /\ p + 1 \in Int BY LenProperties
<1>2. x = IF S = {} THEN 0 ELSE Min(S) BY DEF FindNextMember
<1>3. S \subseteq p + 1 .. n OBVIOUS
<1>4. \A j \in p + 1 .. n : f[j] = Header => j \in S OBVIOUS
<1>5. \A j \in S : Looks(j) OBVIOUS
<1> HIDE DEF n, S, x
<1>6. S \subseteq Int /\ IsFiniteSet(S) BY <1>1, <1>3, PartOfInterval
<1>7. S # {} => x \in S /\ \A y \in S : x <= y BY <1>2, <1>6, LeastIs
<1>8. x = 0 \/ x \in p + 1 .. n BY <1>2, <1>3, <1>7
<1>9. \A j \in p + 1 .. n : f[j] = Header => x # 0 /\ x <= j
  <2> SUFFICES ASSUME NEW j \in p + 1 .. n, f[j] = Header PROVE x # 0 /\ x <= j OBVIOUS
  <2>1. j \in S BY <1>4
  <2>2. x \in S /\ x <= j BY <1>7, <2>1
  <2> QED BY <1>1, <1>3, <2>2
<1>10. x # 0 => Looks(x) BY <1>2, <1>5, <1>7
<1> QED BY <1>8, <1>9, <1>10 DEF n, x

\* The member at h is read to its end.
Whole(f, h, w) ==
  \/ Complete(f, h) \/ EndOfData(f, h) > Len(f)
  \/ EndOfData(f, h) - h < Block /\ \A n \in Lookalike : n > w

\* The cells of the member at p that ReadMember decodes.
Cells(f, p) ==
  LET nxt  == FindNextMember(f, p)
      once == Decoded(f, p)
  IN IF ~ Complete(f, p) /\ once = << >> /\ nxt > 0 THEN DecodeBounded(f, p, nxt) ELSE once

LEMMA Blocks ==
  ASSUME NEW d \in Nat
  PROVE  /\ Block * (d \div Block) \in 0 .. d
         /\ d < Block => Block * (d \div Block) = 0
<1>1. Block \in Nat /\ Block >= 1 BY LoggingNumbers
<1>2. \A b \in Nat : b >= 1 => /\ d \div b \in Nat /\ b * (d \div b) \in 0 .. d
                               /\ d < b => d \div b = 0
  OBVIOUS
<1>3. d < Block => Block * (d \div Block) = Block * 0 BY <1>1, <1>2
<1>4. Block * 0 = 0 BY <1>1
<1> QED BY <1>1, <1>2, <1>3, <1>4

\* What a part of the run of data behind p holds.
LEMMA PartOfRun ==
  ASSUME NEW w \in Nat, NEW f, Chained(f, w), NEW p \in 1 .. Len(f), f[p] = Header,
         NEW q \in p .. EndOfData(f, p) - 1
  PROVE  /\ DataRun(SubSeq(f, p + 1, q), w) /\ Len(SubSeq(f, p + 1, q)) = q - p
         /\ \A i \in 1 .. q - p : SubSeq(f, p + 1, q)[i] = f[p + i] /\ p + i \in p + 1 .. q
<1> DEFINE e == EndOfData(f, p)
           c == SubSeq(f, p + 1, q)
<1>1. f \in Seq(Cell) BY DEF Chained
<1>2. e \in p + 1 .. Len(f) + 1 /\ \A j \in p + 1 .. e - 1 : IsData(f[j])
  BY <1>1, EndOfDataIs
<1>3. q \in p .. e - 1 OBVIOUS
<1> HIDE DEF e
<1>4. /\ Len(f) \in Nat /\ p \in Nat /\ q \in Nat /\ p <= q /\ q <= Len(f)
      /\ \A j \in p + 1 .. q : j \in 1 .. Len(f) /\ IsData(f[j])
  <2>1. Len(f) \in Nat /\ p \in Nat BY <1>1, LenProperties
  <2> QED BY <1>2, <1>3, <2>1
<1>5. \A j \in p + 1 .. q : f[j] \in Cell BY <1>1, <1>4, ElementOfSeq
<1>6. /\ c \in Seq(Cell) /\ Len(c) = IF p + 1 <= q THEN q - (p + 1) + 1 ELSE 0
      /\ \A i \in 1 .. q - (p + 1) + 1 : c[i] = f[p + 1 + i - 1]
  <2>1. p + 1 \in Int /\ q \in Int BY <1>4
  <2> QED BY <1>5, <2>1, SubSeqProperties
<1> HIDE DEF c
<1>7. Len(c) = q - p /\ q - (p + 1) + 1 = q - p BY <1>4, <1>6
<1>8. ASSUME NEW i \in 1 .. q - p PROVE c[i] = f[p + i] /\ p + i \in p + 1 .. q
  <2>1. p + 1 + i - 1 = p + i /\ p + i \in p + 1 .. q BY <1>4
  <2> QED BY <1>6, <1>7, <2>1
<1>9. ASSUME NEW i \in 1 .. q - p
      PROVE  /\ IsData(c[i]) /\ c[i].line \in 1 .. w
             /\ c[i].is = "second" => i > 1 /\ c[i - 1] = First(c[i].line)
             /\ c[i].is = "first" => /\ i > 1 => c[i - 1].is = "second"
                                     /\ \A j \in 1 .. i - 1 : c[j].line < c[i].line
  <2> DEFINE k == p + i
  <2>1. c[i] = f[k] /\ k \in p + 1 .. q /\ k \in 1 .. Len(f) /\ IsData(f[k]) BY <1>4, <1>8
  <2>2. Linked(f, w, k) BY <2>1 DEF Chained
  <2>3. k - 1 = p + (i - 1) /\ (i > 1 => i - 1 \in 1 .. q - p) /\ i \in Nat BY <1>4
  <2>4. i > 1 => c[i - 1] = f[k - 1] /\ IsData(f[k - 1])
    <3>1. i > 1 => c[i - 1] = f[k - 1] /\ p + (i - 1) \in p + 1 .. q BY <1>8, <2>3
    <3> QED BY <1>4, <2>3, <3>1
  <2>5. i = 1 => f[k - 1] = Header BY <1>4
  <2>6. \A j \in 1 .. i - 1 : c[j] = f[p + j] /\ p + j \in 1 .. k - 1 /\ IsData(f[p + j])
    <3> SUFFICES ASSUME NEW j \in 1 .. i - 1
                 PROVE  c[j] = f[p + j] /\ p + j \in 1 .. k - 1 /\ IsData(f[p + j])
      OBVIOUS
    <3>1. j \in 1 .. q - p /\ p + j \in 1 .. k - 1 BY <1>4
    <3> QED BY <1>4, <1>8, <3>1
  <2> HIDE DEF k
  <2>7. f[k].line \in 1 .. w BY <2>1, <2>2 DEF Linked
  <2>8. f[k].is = "second" => f[k - 1] = First(f[k].line) BY <2>2 DEF Linked
  <2>9. f[k].is = "second" => i > 1
    <3> SUFFICES ASSUME f[k].is = "second", i = 1 PROVE FALSE BY <2>3
    <3>1. Header = First(f[k].line) BY <2>5, <2>8
    <3> QED BY <3>1 DEF Header, First
  <2>10. f[k].is = "first" /\ i > 1 => c[i - 1].is = "second"
    <3> SUFFICES ASSUME f[k].is = "first", i > 1 PROVE c[i - 1].is = "second" OBVIOUS
    <3>1. f[k - 1].is \in {"header", "second"} BY <2>2 DEF Linked
    <3> QED BY <2>4, <3>1 DEF IsData
  <2>11. f[k].is = "first" => \A j \in 1 .. i - 1 : c[j].line < f[k].line
    <3>1. f[k].is = "first" => \A j \in 1 .. k - 1 : IsData(f[j]) => f[j].line < f[k].line
      BY <2>2 DEF Linked
    <3> QED BY <2>6, <3>1
  <2> QED BY <2>1, <2>4, <2>7, <2>8, <2>9, <2>10, <2>11
<1>10. DataRun(c, w) BY <1>6, <1>7, <1>9 DEF DataRun
<1> QED BY <1>7, <1>8, <1>10 DEF c

\* What is decoded is a part of the run of data behind p, or all of it.
LEMMA CellsRead ==
  ASSUME NEW w \in Nat, NEW f, Chained(f, w), NEW p \in 1 .. Len(f)
  PROVE  \E q \in p .. EndOfData(f, p) - 1 :
           /\ Cells(f, p) = IF f[p] = Header THEN SubSeq(f, p + 1, q) ELSE << >>
           /\ f[p] = Header /\ Whole(f, p, w) => q = EndOfData(f, p) - 1
<1> DEFINE e == EndOfData(f, p)
           x == FindNextMember(f, p)
           once == Decoded(f, p)
           again == ~ Complete(f, p) /\ once = << >> /\ x > 0
           b == Block * ((e - p) \div Block)
           P(q) == /\ Cells(f, p) = IF f[p] = Header THEN SubSeq(f, p + 1, q) ELSE << >>
                   /\ f[p] = Header /\ Whole(f, p, w) => q = e - 1
<1>1. f \in Seq(Cell) /\ Len(f) \in Nat BY LenProperties DEF Chained
<1>2. /\ e \in p + 1 .. Len(f) + 1 /\ \A j \in p + 1 .. e - 1 : IsData(f[j])
      /\ e <= Len(f) => ~ IsData(f[e])
  BY <1>1, EndOfDataIs
<1>3. /\ x = 0 \/ x \in p + 1 .. Len(f)
      /\ \A j \in p + 1 .. Len(f) : f[j] = Header => x # 0 /\ x <= j
      /\ x # 0 => f[x] = Header \/ (f[x].is = "first" /\ f[x].line \in Lookalike)
  BY <1>1, NextMemberIs
<1>4. Cells(f, p) = IF again THEN DecodeBounded(f, p, x) ELSE once BY DEF Cells
<1>5. Complete(f, p) <=> f[p] = Header /\ e <= Len(f) /\ f[e] = Trailer BY DEF Complete
<1>6. once = IF f[p] # Header THEN << >>
             ELSE IF Complete(f, p) \/ e > Len(f) THEN SubSeq(f, p + 1, e - 1)
             ELSE SubSeq(f, p + 1, p + b - 1)
  BY DEF Decoded
<1>7. DecodeBounded(f, p, x) = IF f[p] = Header THEN SubSeq(f, p + 1, Min({x, e}) - 1)
                               ELSE << >>
  BY DEF DecodeBounded
<1>8. Whole(f, p, w) <=>
        \/ Complete(f, p) \/ e > Len(f)
        \/ e - p < Block /\ \A n \in Lookalike : n > w
  BY DEF Whole
<1>9. b \in 0 .. e - p /\ (e - p < Block => b = 0)
  <2>1. e - p \in Nat BY <1>1, <1>2
  <2> QED BY <2>1, Blocks
<1>10. p \in Nat /\ e \in Nat /\ p < e /\ e <= Len(f) + 1 BY <1>1, <1>2
<1> HIDE DEF e, x, once, b
<1> SUFFICES \E q \in p .. e - 1 : P(q) BY DEF e
<1>11. ASSUME f[p] # Header PROVE \E q \in p .. e - 1 : P(q)
  <2>1. P(p) BY <1>4, <1>6, <1>7, <1>11
  <2>2. p \in p .. e - 1 BY <1>10
  <2> QED BY <2>1, <2>2
<1>12. ASSUME f[p] = Header, Complete(f, p) \/ e > Len(f) PROVE \E q \in p .. e - 1 : P(q)
  <2>1. once = SubSeq(f, p + 1, e - 1) BY <1>6, <1>12
  <2>2. ~ again
    <3> SUFFICES ASSUME again PROVE FALSE OBVIOUS
    <3>1. e > Len(f) /\ SubSeq(f, p + 1, e - 1) = << >> BY <1>12, <2>1
    <3>2. e - 1 \in p .. e - 1 BY <1>10
    <3>3. Len(SubSeq(f, p + 1, e - 1)) = e - 1 - p BY <1>12, <3>2, PartOfRun DEF e
    <3>4. e - 1 - p = 0 BY <3>1, <3>3
    <3>5. x \in p + 1 .. Len(f) BY <1>3
    <3> QED BY <1>1, <1>10, <3>1, <3>4, <3>5
  <2>3. P(e - 1) BY <1>4, <1>12, <2>1, <2>2
  <2>4. e - 1 \in p .. e - 1 BY <1>10
  <2> QED BY <2>3, <2>4
<1>13. ASSUME f[p] = Header, ~ Complete(f, p), e <= Len(f), ~ again
       PROVE  \E q \in p .. e - 1 : P(q)
  <2>1. once = SubSeq(f, p + 1, p + b - 1) /\ Cells(f, p) = once
    <3>1. ~ (e > Len(f)) BY <1>1, <1>10, <1>13
    <3> QED BY <1>4, <1>6, <1>13, <3>1
  <2>2. CASE b >= 1
    <3>1. p + b - 1 \in p .. e - 1 BY <1>9, <1>10, <2>2
    <3>2. ~ Whole(f, p, w)
      <4>1. ~ (e > Len(f)) BY <1>1, <1>10, <1>13
      <4>2. ~ (e - p < Block)
        <5>1. b # 0 BY <1>9, <2>2
        <5> QED BY <1>9, <5>1
      <4> QED BY <1>8, <1>13, <4>1, <4>2
    <3>3. P(p + b - 1) BY <1>13, <2>1, <3>2
    <3> QED BY <3>1, <3>3
  <2>3. CASE b = 0
    <3>1. p + b - 1 \in Int /\ p + 1 \in Int /\ p + b - 1 < p + 1 /\ p < p + 1 /\ p \in Int
      BY <1>10, <2>3
    <3>2. once = << >> /\ SubSeq(f, p + 1, p) = << >> BY <2>1, <3>1, SubSeqEmpty
    <3>3. x = 0
      <4>1. x = 0 \/ x > 0 BY <1>3, <1>10
      <4> QED BY <1>13, <3>2, <4>1
    <3>4. ~ Whole(f, p, w)
      <4>1. e \in p + 1 .. Len(f) BY <1>1, <1>10, <1>13
      <4>2. f[e] # Header BY <1>3, <3>3, <4>1
      <4>3. ~ IsData(f[e]) /\ f[e] \in Cell
        <5>1. e \in 1 .. Len(f) BY <1>10, <1>13
        <5> QED BY <1>1, <1>2, <1>13, <5>1, ElementOfSeq
      <4>4. f[e] = Trailer BY <4>2, <4>3, CellIs
      <4> QED BY <1>5, <1>13, <4>4
    <3>5. P(p) BY <1>13, <2>1, <3>2, <3>4
    <3>6. p \in p .. e - 1 BY <1>10
    <3> QED BY <3>5, <3>6
  <2>4. b = 0 \/ b >= 1 BY <1>9
  <2> QED BY <2>2, <2>3, <2>4
<1>14. ASSUME f[p] = Header, ~ Complete(f, p), e <= Len(f), again
       PROVE  \E q \in p .. e - 1 : P(q)
  <2> DEFINE m == Min({x, e})
  <2>1. Cells(f, p) = SubSeq(f, p + 1, m - 1) BY <1>4, <1>7, <1>14
  <2>2. x \in p + 1 .. Len(f) /\ x \in Int /\ x # 0 BY <1>3, <1>10, <1>14
  <2>3. {x, e} \subseteq Int /\ IsFiniteSet({x, e}) /\ {x, e} # {}
    <3>1. IsFiniteSet({x}) BY FS_Singleton
    <3>2. IsFiniteSet({x} \cup {e}) BY <3>1, FS_AddElement
    <3>3. {x, e} = {x} \cup {e} OBVIOUS
    <3>4. IsFiniteSet({x, e}) BY <3>2, <3>3
    <3>5. x \in Int /\ e \in Int BY <1>10, <2>2
    <3> HIDE DEF x, e
    <3>6. {x, e} \subseteq Int /\ {x, e} # {} BY <3>5
    <3> QED BY <3>4, <3>6
  <2>4. m \in {x, e} /\ m <= x /\ m <= e BY <2>3, LeastIs
  <2> HIDE DEF m
  <2>5. m - 1 \in p .. e - 1 BY <1>10, <2>2, <2>4
  <2>6. ASSUME Whole(f, p, w) PROVE m = e
    <3>1. \A n \in Lookalike : n > w
      <4>1. ~ (e > Len(f)) BY <1>1, <1>10, <1>14
      <4> QED BY <1>8, <1>14, <2>6, <4>1
    <3>2. f[x] = Header
      <4>1. x \in 1 .. Len(f) BY <1>10, <2>2
      <4>2. Linked(f, w, x) BY <4>1 DEF Chained
      <4>3. CASE f[x].is = "first" /\ f[x].line \in Lookalike
        <5>1. f[x].line \in 1 .. w BY <4>2, <4>3 DEF Linked, IsData
        <5>2. f[x].line > w BY <3>1, <4>3
        <5> QED BY <5>1, <5>2
      <4> QED BY <1>3, <2>2, <4>3
    <3>3. ~ (x < e)
      <4>1. ~ IsData(f[x]) BY <3>2 DEF IsData, Header
      <4>2. x < e => x \in p + 1 .. e - 1 BY <1>10, <2>2
      <4> QED BY <1>2, <4>1, <4>2
    <3> QED BY <1>10, <2>2, <2>4, <3>3
  <2>7. P(m - 1) BY <1>14, <2>1, <2>6
  <2> QED BY <2>5, <2>7
<1>15. e > Len(f) \/ e <= Len(f) BY <1>1, <1>10
<1> QED BY <1>11, <1>12, <1>13, <1>14, <1>15

\* The lines that a member yields, and that it leaves nothing over.
LEMMA MemberYields ==
  ASSUME NEW w \in Nat, NEW f, Chained(f, w), NEW p \in 1 .. Len(f)
  PROVE  LET read == Lines(Cells(f, p))
         IN  /\ Cells(f, p) \in Seq(Cell) /\ InOrder(read.whole, w)
             /\ \A k \in 1 .. Len(read.whole) :
                  /\ f[p] = Header
                  /\ \E j \in p + 1 .. EndOfData(f, p) - 1 : read.whole[k] = Line(f[j].line)
             /\ f[p] = Header /\ Whole(f, p, w) =>
                  \A j \in p + 1 .. EndOfData(f, p) - 1 : f[j].is = "second" =>
                    \E k \in 1 .. Len(read.whole) : read.whole[k] = Line(f[j].line)
             /\ Complete(f, p) => read.tail = << >>
<1> DEFINE e == EndOfData(f, p)
           c == Cells(f, p)
           s == Lines(c).whole
<1>1. f \in Seq(Cell) /\ Len(f) \in Nat BY LenProperties DEF Chained
<1>2. e \in p + 1 .. Len(f) + 1 /\ \A j \in p + 1 .. e - 1 : IsData(f[j])
  BY <1>1, EndOfDataIs
<1>3. PICK q \in p .. e - 1 :
        /\ c = IF f[p] = Header THEN SubSeq(f, p + 1, q) ELSE << >>
        /\ f[p] = Header /\ Whole(f, p, w) => q = e - 1
  BY CellsRead
<1>4. q \in Nat /\ p \in Nat /\ p <= q /\ q < e BY <1>1, <1>2
<1>5. f[p] = Header =>
        /\ DataRun(c, w) /\ Len(c) = q - p
        /\ \A i \in 1 .. q - p : c[i] = f[p + i] /\ p + i \in p + 1 .. q
  <2> SUFFICES ASSUME f[p] = Header
               PROVE  /\ DataRun(c, w) /\ Len(c) = q - p
                      /\ \A i \in 1 .. q - p : c[i] = f[p + i] /\ p + i \in p + 1 .. q
    OBVIOUS
  <2>1. c = SubSeq(f, p + 1, q) BY <1>3
  <2>2. q \in p .. EndOfData(f, p) - 1 OBVIOUS
  <2> HIDE DEF c, e
  <2>3. /\ DataRun(SubSeq(f, p + 1, q), w) /\ Len(SubSeq(f, p + 1, q)) = q - p
        /\ \A i \in 1 .. q - p : SubSeq(f, p + 1, q)[i] = f[p + i] /\ p + i \in p + 1 .. q
    BY <2>2, PartOfRun
  <2> QED BY <2>1, <2>3
<1>6. f[p] # Header => c = << >> /\ Len(c) = 0 /\ DataRun(c, w)
  <2> SUFFICES ASSUME f[p] # Header PROVE c = << >> /\ Len(c) = 0 /\ DataRun(c, w)
    OBVIOUS
  <2>1. c = << >> BY <1>3
  <2>2. << >> \in Seq(Cell) /\ Len(<< >>) = 0 OBVIOUS
  <2> HIDE DEF c
  <2>3. c \in Seq(Cell) /\ Len(c) = 0 /\ 1 .. 0 = {} BY <2>1, <2>2
  <2> QED BY <2>1, <2>3 DEF DataRun
<1>7. Complete(f, p) => f[p] = Header /\ e <= Len(f) /\ f[e] = Trailer /\ Whole(f, p, w)
  BY DEF Complete, Whole
<1> HIDE DEF c, e
<1>8. DataRun(c, w) BY <1>5, <1>6
<1>9. /\ InOrder(s, w)
      /\ \A k \in 1 .. Len(s) : \E i \in 1 .. Len(c) :
           c[i].is = "second" /\ s[k] = Line(c[i].line)
      /\ \A i \in 1 .. Len(c) : c[i].is = "second" =>
           \E k \in 1 .. Len(s) : s[k] = Line(c[i].line)
      /\ Len(c) = 0 \/ c[Len(c)].is = "second" => Lines(c).tail = << >>
  BY <1>8, RunLines
<1> HIDE DEF s
<1>10. ASSUME NEW k \in 1 .. Len(s)
       PROVE  f[p] = Header /\ \E j \in p + 1 .. e - 1 : s[k] = Line(f[j].line)
  <2>1. PICK i \in 1 .. Len(c) : c[i].is = "second" /\ s[k] = Line(c[i].line) BY <1>9
  <2>2. f[p] = Header /\ Len(c) = q - p
    <3>1. f[p] # Header => 1 .. Len(c) = {} BY <1>6
    <3> QED BY <1>5, <3>1
  <2>3. c[i] = f[p + i] /\ p + i \in p + 1 .. q BY <1>5, <2>2
  <2>4. p + i \in p + 1 .. e - 1
    <3>1. e \in Int BY <1>1, <1>2
    <3> QED BY <1>4, <2>3, <3>1
  <2> QED BY <2>1, <2>2, <2>3, <2>4
<1>11. ASSUME f[p] = Header, Whole(f, p, w), NEW j \in p + 1 .. e - 1, f[j].is = "second"
       PROVE  \E k \in 1 .. Len(s) : s[k] = Line(f[j].line)
  <2>1. q = e - 1 BY <1>3, <1>11
  <2>2. j - p \in 1 .. q - p /\ p + (j - p) = j
    <3>1. e \in Int BY <1>1, <1>2
    <3> QED BY <1>4, <2>1, <3>1
  <2>3. c[j - p] = f[j] /\ j - p \in 1 .. Len(c) BY <1>5, <1>11, <2>2
  <2> QED BY <1>9, <1>11, <2>3
<1>12. ASSUME Complete(f, p) PROVE Lines(c).tail = << >>
  <2>1. f[p] = Header /\ e <= Len(f) /\ f[e] = Trailer /\ q = e - 1 BY <1>3, <1>7, <1>12
  <2>2. Len(c) = q - p BY <1>5, <2>1
  <2>3. CASE q = p BY <1>4, <1>9, <2>2, <2>3
  <2>4. CASE q # p
    <3>1. q - p \in 1 .. q - p /\ p + (q - p) = q /\ q \in p + 1 .. e - 1
      BY <1>4, <2>1, <2>4
    <3>2. c[Len(c)] = f[q] BY <1>5, <2>1, <2>2, <3>1
    <3>3. e \in 1 .. Len(f) /\ e - 1 = q BY <1>1, <1>2, <1>4, <2>1
    <3>4. f[q].is \in {"header", "second"}
      <4>1. Linked(f, w, e) BY <3>3 DEF Chained
      <4>2. f[e].is = "trailer" BY <2>1 DEF Trailer
      <4> QED BY <3>3, <4>1, <4>2 DEF Linked
    <3>5. f[q].is = "second" BY <1>2, <3>1, <3>4 DEF IsData
    <3> QED BY <1>9, <3>2, <3>5
  <2> QED BY <2>3, <2>4
<1>13. c \in Seq(Cell) BY <1>8 DEF DataRun
<1> QED BY <1>9, <1>10, <1>11, <1>12, <1>13 DEF c, e, s

\* What has been read when the reader is at at.pos: nothing of what follows, and
\* all that can be read of the members before.
Reading(f, w, at) ==
  /\ at.pos \in 1 .. Len(f) + 1 /\ at.carry = << >>
  /\ InOrder(at.lines, w)
  /\ \A h \in at.pos .. Len(f) : f[h] = Header =>
       \A j \in h + 1 .. Len(f) : IsData(f[j]) =>
         \A i \in 1 .. Len(at.lines) : at.lines[i][1].line < f[j].line
  /\ \A h \in 1 .. at.pos - 1 : f[h] = Header /\ Whole(f, h, w) =>
       \A j \in h + 1 .. EndOfData(f, h) - 1 : f[j].is = "second" =>
         \E k \in 1 .. Len(at.lines) : at.lines[k] = Line(f[j].line)

\* Where the reader goes on: behind the member or at a header it has found.
LEMMA NextPosIs ==
  ASSUME NEW f \in Seq(Cell), NEW p \in 1 .. Len(f)
  PROVE  LET r == NextPos(f, p, FindNextMember(f, p))
         IN  /\ r \in p + 1 .. Len(f) + 1
             /\ \A h \in p + 1 .. r - 1 : f[h] # Header
<1> DEFINE e == EndOfData(f, p)
           x == FindNextMember(f, p)
           r == NextPos(f, p, x)
<1>1. Len(f) \in Nat /\ p \in Nat /\ p <= Len(f) BY LenProperties
<1>2. /\ e \in p + 1 .. Len(f) + 1 /\ \A j \in p + 1 .. e - 1 : IsData(f[j])
  BY EndOfDataIs
<1>3. /\ x = 0 \/ x \in p + 1 .. Len(f)
      /\ \A j \in p + 1 .. Len(f) : f[j] = Header => x # 0 /\ x <= j
  BY NextMemberIs
<1>4. r = IF Complete(f, p) THEN e + 1 ELSE IF x > 0 THEN x ELSE Len(f) + 1
  BY DEF NextPos
<1>5. Complete(f, p) => e <= Len(f) /\ f[e] = Trailer BY DEF Complete
<1> HIDE DEF e, x, r
<1> SUFFICES r \in p + 1 .. Len(f) + 1 /\ \A h \in p + 1 .. r - 1 : f[h] # Header
  BY DEF r, x
<1>6. CASE Complete(f, p)
  <2>1. r = e + 1 /\ e <= Len(f) /\ f[e] = Trailer BY <1>4, <1>5, <1>6
  <2>2. r \in p + 1 .. Len(f) + 1 BY <1>1, <1>2, <2>1
  <2>3. ASSUME NEW h \in p + 1 .. r - 1 PROVE f[h] # Header
    <3>1. h \in p + 1 .. e - 1 \/ h = e
      <4>1. e \in Int /\ h <= e BY <1>1, <1>2, <2>1
      <4> QED BY <1>1, <4>1
    <3>2. IsData(f[h]) \/ f[h] = Trailer BY <1>2, <2>1, <3>1
    <3> QED BY <3>2 DEF IsData, Header, Trailer
  <2> QED BY <2>2, <2>3
<1>7. CASE ~ Complete(f, p)
  <2>1. r = IF x > 0 THEN x ELSE Len(f) + 1 BY <1>4, <1>7
  <2>2. x = 0 \/ (x > 0 /\ x \in Int /\ x >= p + 1 /\ x <= Len(f)) BY <1>1, <1>3
  <2>3. r \in p + 1 .. Len(f) + 1 BY <1>1, <2>1, <2>2
  <2>4. ASSUME NEW h \in p + 1 .. r - 1, f[h] = Header PROVE FALSE
    <3>1. h \in p + 1 .. Len(f) /\ h < r BY <1>1, <2>3
    <3>2. x # 0 /\ x <= h BY <1>3, <2>4, <3>1
    <3> QED BY <2>1, <2>2, <3>1, <3>2
  <2> QED BY <2>3, <2>4
<1> QED BY <1>6, <1>7

LEMMA NumberOf ==
  ASSUME NEW w \in Nat, NEW m \in 1 .. w
  PROVE  Line(m) \in Seq(Cell) /\ Line(m)[1].line = m
<1>1. m \in Nat OBVIOUS
<1>2. /\ Line(m) = <<First(m), Second(m)>> /\ First(m) \in Cell /\ Second(m) \in Cell
      /\ First(m).line = m
  BY <1>1, LineIs
<1>3. <<First(m), Second(m)>> \in Seq(Cell) BY <1>2, PairOfCells
<1> QED BY <1>2, <1>3

\* The lines before a header have smaller numbers than those behind it.
LEMMA AcrossHeader ==
  ASSUME NEW w \in Nat, NEW f, Chained(f, w), NEW h \in 1 .. Len(f), f[h] = Header,
         NEW i \in 1 .. h - 1, IsData(f[i]), NEW j \in h + 1 .. Len(f), IsData(f[j])
  PROVE  f[i].line < f[j].line
<1>1. f \in Seq(Cell) /\ Len(f) \in Nat BY LenProperties DEF Chained
<1>2. j \in 1 .. Len(f) /\ i \in 1 .. j - 1 /\ j - 1 \in h .. Len(f) BY <1>1
<1>3. Linked(f, w, j) BY <1>2 DEF Chained
<1>4. CASE f[j].is = "first" BY <1>2, <1>3, <1>4 DEF Linked
<1>5. CASE f[j].is = "second"
  <2>1. f[j - 1] = First(f[j].line) BY <1>3, <1>5 DEF Linked
  <2>2. f[j - 1].is = "first" /\ f[j - 1].line = f[j].line BY <2>1 DEF First
  <2>3. j - 1 # h BY <2>2 DEF Header
  <2>4. j - 1 \in 1 .. Len(f) /\ i \in 1 .. (j - 1) - 1 BY <1>1, <1>2, <2>3
  <2>5. Linked(f, w, j - 1) BY <2>4 DEF Chained
  <2>6. f[i].line < f[j - 1].line BY <2>2, <2>4, <2>5 DEF Linked
  <2> QED BY <2>2, <2>6
<1> QED BY <1>4, <1>5 DEF IsData

\* The lines of t have greater numbers than those of s.
Follow(t, s) == \A i \in 1 .. Len(s), k \in 1 .. Len(t) : s[i][1].line < t[k][1].line

\* u has the elements of s, in their places, and those of t.
Joins(u, s, t) ==
  /\ \A i \in 1 .. Len(u) : \/ i \in 1 .. Len(s) /\ u[i] = s[i]
                            \/ \E k \in 1 .. Len(t) : u[i] = t[k]
  /\ \A i \in 1 .. Len(s) : i \in 1 .. Len(u) /\ u[i] = s[i]
  /\ \A k \in 1 .. Len(t) : \E i \in 1 .. Len(u) : u[i] = t[k]

LEMMA InOrderConcat ==
  ASSUME NEW w \in Nat, NEW s, NEW t, InOrder(s, w), InOrder(t, w), Follow(t, s)
  PROVE  InOrder(s \o t, w) /\ Joins(s \o t, s, t)
<1> DEFINE u == s \o t
           m == Len(s)
           n == Len(t)
<1>1. /\ s \in Seq(Seq(Cell)) /\ t \in Seq(Seq(Cell)) /\ m \in Nat /\ n \in Nat
      /\ u \in Seq(Seq(Cell)) /\ Len(u) = m + n
      /\ \A i \in 1 .. m + n : u[i] = IF i <= m THEN s[i] ELSE t[i - m]
  BY LenProperties, ConcatProperties DEF InOrder
<1>2. \A i, j \in 1 .. m : j < i => s[j][1].line < s[i][1].line
  <2> SUFFICES ASSUME NEW i \in 1 .. m, NEW j \in 1 .. m, j < i
               PROVE  s[j][1].line < s[i][1].line
    OBVIOUS
  <2>1. j \in 1 .. i - 1 BY <1>1
  <2> QED BY <2>1 DEF InOrder
<1>3. \A i, j \in 1 .. n : j < i => t[j][1].line < t[i][1].line
  <2> SUFFICES ASSUME NEW i \in 1 .. n, NEW j \in 1 .. n, j < i
               PROVE  t[j][1].line < t[i][1].line
    OBVIOUS
  <2>1. j \in 1 .. i - 1 BY <1>1
  <2> QED BY <2>1 DEF InOrder
<1>4. \A i \in 1 .. m : \E k \in 1 .. w : s[i] = Line(k) BY DEF InOrder
<1>5. \A i \in 1 .. n : \E k \in 1 .. w : t[i] = Line(k) BY DEF InOrder
<1>6. \A i \in 1 .. m, k \in 1 .. n : s[i][1].line < t[k][1].line
  BY DEF Follow
<1> HIDE DEF u, m, n
<1>7. ASSUME NEW i \in 1 .. m + n
      PROVE  \/ i \in 1 .. m /\ u[i] = s[i]
             \/ i - m \in 1 .. n /\ m < i /\ u[i] = t[i - m]
  BY <1>1
<1>8. ASSUME NEW i \in 1 .. m PROVE i \in 1 .. m + n /\ u[i] = s[i] BY <1>1
<1>9. ASSUME NEW k \in 1 .. n PROVE k + m \in 1 .. m + n /\ u[k + m] = t[k]
  <2>1. k + m \in 1 .. m + n /\ ~ (k + m <= m) /\ k + m - m = k BY <1>1
  <2> QED BY <1>1, <2>1
<1>10. ASSUME NEW i \in 1 .. m + n
       PROVE  /\ \E k \in 1 .. w : u[i] = Line(k)
              /\ \A j \in 1 .. i - 1 : u[j][1].line < u[i][1].line
  <2>1. \E k \in 1 .. w : u[i] = Line(k) BY <1>4, <1>5, <1>7
  <2>2. ASSUME NEW j \in 1 .. i - 1 PROVE u[j][1].line < u[i][1].line
    <3>1. j \in 1 .. m + n /\ j < i /\ i \in Int /\ j \in Int BY <1>1
    <3>2. CASE i \in 1 .. m /\ u[i] = s[i]
      <4>1. j \in 1 .. m BY <1>1, <3>1, <3>2
      <4> QED BY <1>2, <1>8, <3>1, <3>2, <4>1
    <3>3. CASE i - m \in 1 .. n /\ m < i /\ u[i] = t[i - m]
      <4>1. CASE j \in 1 .. m /\ u[j] = s[j] BY <1>6, <3>3, <4>1
      <4>2. CASE j - m \in 1 .. n /\ m < j /\ u[j] = t[j - m]
        <5>1. j - m < i - m BY <1>1, <3>1
        <5> QED BY <1>3, <3>3, <4>2, <5>1
      <4> QED BY <1>7, <3>1, <4>1, <4>2
    <3> QED BY <1>7, <3>2, <3>3
  <2> QED BY <2>1, <2>2
<1>11. InOrder(u, w) BY <1>1, <1>10 DEF InOrder
<1>12. \A i \in 1 .. m + n : (i \in 1 .. m /\ u[i] = s[i]) \/ \E k \in 1 .. n : u[i] = t[k]
  BY <1>7
<1>13. Joins(u, s, t) BY <1>1, <1>8, <1>9, <1>12 DEF Joins, m, n
<1> QED BY <1>11, <1>13 DEF u

\* One member more.
LEMMA ReadingGoesOn ==
  ASSUME NEW w \in Nat, NEW f, Chained(f, w), NEW at, Reading(f, w, at), at.pos <= Len(f)
  PROVE  /\ Reading(f, w, ReadMember(f, at))
         /\ ReadMember(f, at).pos >= at.pos + 1
<1> DEFINE p == at.pos
           e == EndOfData(f, p)
           r == NextPos(f, p, FindNextMember(f, p))
           read == Lines(Cells(f, p))
           s == read.whole
           old == at.lines
           new == ReadMember(f, at)
<1>1. /\ f \in Seq(Cell) /\ Len(f) \in Nat /\ p \in 1 .. Len(f) /\ p \in Nat
      /\ at.carry = << >> /\ InOrder(old, w) /\ old \in Seq(Seq(Cell))
  <2>1. f \in Seq(Cell) /\ Len(f) \in Nat BY LenProperties DEF Chained
  <2>2. p \in 1 .. Len(f) + 1 /\ at.carry = << >> /\ InOrder(old, w) BY DEF Reading
  <2> QED BY <2>1, <2>2 DEF InOrder
<1>2. /\ Cells(f, p) \in Seq(Cell) /\ InOrder(s, w)
      /\ \A k \in 1 .. Len(s) :
           f[p] = Header /\ \E j \in p + 1 .. e - 1 : s[k] = Line(f[j].line)
      /\ f[p] = Header /\ Whole(f, p, w) =>
           \A j \in p + 1 .. e - 1 : f[j].is = "second" =>
             \E k \in 1 .. Len(s) : s[k] = Line(f[j].line)
      /\ Complete(f, p) => read.tail = << >>
  <2>1. p \in 1 .. Len(f) BY <1>1
  <2> HIDE DEF p
  <2> QED BY <2>1, MemberYields
<1>3. r \in p + 1 .. Len(f) + 1 /\ \A h \in p + 1 .. r - 1 : f[h] # Header
  BY <1>1, NextPosIs
<1>4. e \in p + 1 .. Len(f) + 1 /\ \A j \in p + 1 .. e - 1 : IsData(f[j])
  BY <1>1, EndOfDataIs
<1>5. /\ \A h \in p .. Len(f) : f[h] = Header =>
           \A j \in h + 1 .. Len(f) : IsData(f[j]) =>
             \A i \in 1 .. Len(old) : old[i][1].line < f[j].line
      /\ \A h \in 1 .. p - 1 : f[h] = Header /\ Whole(f, h, w) =>
           \A j \in h + 1 .. EndOfData(f, h) - 1 : f[j].is = "second" =>
             \E k \in 1 .. Len(old) : old[k] = Line(f[j].line)
  BY DEF Reading
<1>6. new.pos = r /\ new.carry = << >> /\ new.lines = old \o s
  <2> DEFINE rest == IF Complete(f, p) /\ read.tail # << >> THEN <<read.tail>> ELSE << >>
  <2>1. at.carry \o Cells(f, p) = Cells(f, p)
    <3> DEFINE c == Cells(f, p)
    <3>1. c \in Seq(Cell) BY <1>2
    <3> HIDE DEF c
    <3>2. << >> \o c = c BY <3>1, ConcatEmptySeq
    <3> QED BY <1>1, <3>2 DEF c
  <2>2. /\ new.pos = r /\ new.carry = Carry(f, p, Lines(at.carry \o Cells(f, p)).tail)
        /\ new.lines = LET x == Lines(at.carry \o Cells(f, p))
                       IN  old \o x.whole \o
                           (IF Complete(f, p) /\ x.tail # << >> THEN <<x.tail>> ELSE << >>)
    BY DEF ReadMember, Cells
  <2>3. new.lines = (old \o s) \o rest BY <2>1, <2>2
  <2>4. rest = << >> BY <1>2
  <2> HIDE DEF rest, new, s
  <2>5. old \o s \in Seq(Seq(Cell)) BY <1>1, <1>2, ConcatProperties DEF InOrder
  <2>6. (old \o s) \o << >> = old \o s BY <2>5, ConcatEmptySeq
  <2> QED BY <2>2, <2>3, <2>4, <2>6 DEF Carry
<1> HIDE DEF p, e, r, read, s, old, new
<1>7. ASSUME NEW j \in p + 1 .. e - 1
      PROVE  /\ j \in 1 .. Len(f) /\ j \in Nat /\ IsData(f[j]) /\ f[j].line \in 1 .. w
             /\ Line(f[j].line)[1].line = f[j].line
  <2>1. j \in 1 .. Len(f) /\ j \in Nat BY <1>1, <1>4
  <2>2. IsData(f[j]) BY <1>4
  <2>3. Linked(f, w, j) BY <2>1 DEF Chained
  <2>4. f[j].line \in 1 .. w BY <2>2, <2>3 DEF Linked
  <2> QED BY <2>1, <2>2, <2>4, NumberOf
<1>8. ASSUME NEW i \in 1 .. Len(old), NEW k \in 1 .. Len(s)
      PROVE  old[i][1].line < s[k][1].line
  <2>1. PICK j \in p + 1 .. e - 1 : s[k] = Line(f[j].line) BY <1>2
  <2>2. f[p] = Header BY <1>2
  <2>3. j \in p + 1 .. Len(f) /\ p \in p .. Len(f) BY <1>1, <1>7
  <2>4. old[i][1].line < f[j].line BY <1>5, <1>7, <2>2, <2>3
  <2> QED BY <1>7, <2>1, <2>4
<1>9. InOrder(old \o s, w) /\ Joins(old \o s, old, s)
  <2>1. InOrder(old, w) /\ InOrder(s, w) BY <1>1, <1>2
  <2>2. Follow(s, old) BY <1>8 DEF Follow
  <2> QED BY <2>1, <2>2, InOrderConcat
<1> DEFINE u == old \o s
<1>10. new.lines = u BY <1>6
<1> HIDE DEF u
<1>11. ASSUME NEW h \in r .. Len(f), f[h] = Header, NEW j \in h + 1 .. Len(f), IsData(f[j]),
              NEW i \in 1 .. Len(u)
       PROVE  u[i][1].line < f[j].line
  <2>1. CASE i \in 1 .. Len(old) /\ u[i] = old[i]
    <3>1. h \in p .. Len(f) BY <1>1, <1>3
    <3> QED BY <1>5, <1>11, <2>1, <3>1
  <2>2. CASE \E k \in 1 .. Len(s) : u[i] = s[k]
    <3>1. PICK k \in 1 .. Len(s) : u[i] = s[k] BY <2>2
    <3>2. PICK l \in p + 1 .. e - 1 : s[k] = Line(f[l].line) BY <1>2
    <3>3. h \in 1 .. Len(f) /\ h \in Nat /\ h > p
      <4>1. p \in Nat /\ r \in Int /\ r >= p + 1 /\ Len(f) \in Nat BY <1>1, <1>3
      <4> QED BY <4>1
    <3>4. ~ (h < e)
      <4>1. ~ IsData(f[h]) BY <1>11 DEF IsData, Header
      <4>2. h < e => h \in p + 1 .. e - 1
        <5>1. p \in Nat /\ e \in Int BY <1>1, <1>4
        <5> QED BY <3>3, <5>1
      <4> QED BY <1>4, <4>1, <4>2
    <3>5. l \in 1 .. h - 1
      <4>1. e \in Int BY <1>1, <1>4
      <4> QED BY <1>7, <3>3, <3>4, <4>1
    <3>6. f[l].line < f[j].line BY <1>7, <1>11, <3>3, <3>5, AcrossHeader
    <3> QED BY <1>7, <3>1, <3>2, <3>6
  <2> QED BY <1>9, <2>1, <2>2 DEF u, Joins
<1>12. ASSUME NEW h \in 1 .. r - 1, f[h] = Header, Whole(f, h, w),
              NEW j \in h + 1 .. EndOfData(f, h) - 1, f[j].is = "second"
       PROVE  \E k \in 1 .. Len(u) : u[k] = Line(f[j].line)
  <2>1. h \in 1 .. p - 1 \/ h = p
    <3>1. h \in Nat /\ h \notin p + 1 .. r - 1 BY <1>3, <1>12
    <3> QED BY <1>1, <1>3, <3>1
  <2>2. CASE h \in 1 .. p - 1
    <3>1. PICK k \in 1 .. Len(old) : old[k] = Line(f[j].line) BY <1>5, <1>12, <2>2
    <3> QED BY <1>9, <3>1 DEF u, Joins
  <2>3. CASE h = p
    <3>1. j \in p + 1 .. e - 1 BY <2>3 DEF e
    <3>2. PICK k \in 1 .. Len(s) : s[k] = Line(f[j].line) BY <1>2, <1>12, <2>3, <3>1
    <3> QED BY <1>9, <3>2 DEF u, Joins
  <2> QED BY <2>1, <2>2, <2>3
<1>13. InOrder(u, w) BY <1>9 DEF u
<1>14. r \in 1 .. Len(f) + 1 /\ r >= p + 1 BY <1>1, <1>3
<1>15. Reading(f, w, new)
  <2>1. \A h \in new.pos .. Len(f) : f[h] = Header =>
          \A j \in h + 1 .. Len(f) : IsData(f[j]) =>
            \A i \in 1 .. Len(new.lines) : new.lines[i][1].line < f[j].line
    BY <1>6, <1>10, <1>11
  <2>2. \A h \in 1 .. new.pos - 1 : f[h] = Header /\ Whole(f, h, w) =>
          \A j \in h + 1 .. EndOfData(f, h) - 1 : f[j].is = "second" =>
            \E k \in 1 .. Len(new.lines) : new.lines[k] = Line(f[j].line)
    BY <1>6, <1>10, <1>12
  <2>3. new.pos \in 1 .. Len(f) + 1 /\ new.carry = << >> /\ InOrder(new.lines, w)
    BY <1>6, <1>10, <1>13, <1>14
  <2> QED BY <2>1, <2>2, <2>3 DEF Reading
<1> QED BY <1>6, <1>14, <1>15 DEF new, p

-------------------------------------------------------------------------------
(* LogFile: the whole file.                                                *)

Begin == [pos |-> 1, carry |-> << >>, lines |-> << >>]
Advance(at) == IF at.pos > Len(disk) THEN at ELSE ReadMember(disk, at)

\* g is the reader's way through its first m members.
Goes(g, m) == g = [n \in 0 .. m |-> IF n = 0 THEN Begin ELSE Advance(g[n - 1])]

\* There is a way however far: at the least m without one, take the way to m - 1
\* and go on.
LEMMA GoesFar ==
  ASSUME NEW m \in Nat
  PROVE  \E g : Goes(g, m)
<1> DEFINE S == {k \in 0 .. m : ~ \E g : Goes(g, k)}
<1>1. S \subseteq 0 .. m /\ m \in 0 .. m OBVIOUS
<1>2. \A k \in 0 .. m : k \notin S => \E g : Goes(g, k) OBVIOUS
<1>3. \A k \in S : ~ \E g : Goes(g, k) OBVIOUS
<1> HIDE DEF S
<1> SUFFICES ASSUME S # {} PROVE FALSE BY <1>1, <1>2
<1>4. S \subseteq Int /\ IsFiniteSet(S)
  <2>1. 0 \in Int /\ m \in Int OBVIOUS
  <2> QED BY <1>1, <2>1, PartOfInterval
<1> DEFINE k == Min(S)
<1>5. k \in S /\ \A y \in S : k <= y BY <1>4, LeastIs
<1> HIDE DEF k
<1>6. k \in 0 .. m /\ k \in Nat BY <1>1, <1>5
<1>7. CASE k = 0
  <2> DEFINE g == [n \in 0 .. 0 |-> Begin]
  <2>1. \A n \in 0 .. 0 : n = 0 OBVIOUS
  <2>2. g = [n \in 0 .. 0 |-> IF n = 0 THEN Begin ELSE Advance(g[n - 1])] BY <2>1
  <2> QED BY <1>3, <1>5, <1>7, <2>2 DEF Goes
<1>8. CASE k # 0
  <2>1. k - 1 \in 0 .. m /\ k - 1 \in Nat /\ ~ (k <= k - 1) BY <1>6, <1>8
  <2>2. k - 1 \notin S BY <1>5, <2>1
  <2>3. PICK g : Goes(g, k - 1) BY <1>2, <2>1, <2>2
  <2>4. \A n \in 0 .. k - 1 : g[n] = IF n = 0 THEN Begin ELSE Advance(g[n - 1])
    BY <2>3 DEF Goes
  <2> DEFINE h == [n \in 0 .. k |-> IF n = k THEN Advance(g[k - 1]) ELSE g[n]]
  <2>5. ASSUME NEW n \in 0 .. k
        PROVE  h[n] = IF n = 0 THEN Begin ELSE Advance(h[n - 1])
    <3>1. CASE n = k
      <4>1. n - 1 \in 0 .. k /\ n - 1 # k /\ n # 0 BY <1>6, <1>8, <3>1
      <4>2. h[n - 1] = g[n - 1] BY <4>1
      <4>3. h[n] = Advance(g[k - 1]) BY <3>1
      <4> QED BY <3>1, <4>1, <4>2, <4>3
    <3>2. CASE n # k
      <4>1. n \in 0 .. k - 1 /\ h[n] = g[n] BY <1>6, <3>2
      <4>2. n # 0 => n - 1 \in 0 .. k /\ n - 1 # k BY <1>6, <4>1
      <4>3. n # 0 => h[n - 1] = g[n - 1] BY <4>2
      <4>4. g[n] = IF n = 0 THEN Begin ELSE Advance(g[n - 1]) BY <2>4, <4>1
      <4> QED BY <4>1, <4>3, <4>4
    <3> QED BY <3>1, <3>2
  <2>6. h = [n \in 0 .. k |-> h[n]] OBVIOUS
  <2> HIDE DEF h
  <2>7. h = [n \in 0 .. k |-> IF n = 0 THEN Begin ELSE Advance(h[n - 1])] BY <2>5, <2>6
  <2> QED BY <1>3, <1>5, <2>7 DEF Goes
<1> QED BY <1>7, <1>8

\* The reader's equation.
LEMMA ReaderIs ==
  ASSUME Len(disk) \in Nat
  PROVE  Reader[0] = Begin /\ \A n \in 1 .. Len(disk) : Reader[n] = Advance(Reader[n - 1])
<1>1. PICK g : Goes(g, Len(disk)) BY GoesFar
<1>2. g = [n \in 0 .. Len(disk) |->
             IF n = 0 THEN [pos |-> 1, carry |-> << >>, lines |-> << >>]
             ELSE LET at == g[n - 1]
                  IN IF at.pos > Len(disk) THEN at ELSE ReadMember(disk, at)]
  BY <1>1 DEF Goes, Begin, Advance
<1>3. Reader = [n \in 0 .. Len(disk) |->
                  IF n = 0 THEN [pos |-> 1, carry |-> << >>, lines |-> << >>]
                  ELSE LET at == Reader[n - 1]
                       IN IF at.pos > Len(disk) THEN at ELSE ReadMember(disk, at)]
  BY <1>2 DEF Reader
<1> HIDE DEF Reader
<1>4. Goes(Reader, Len(disk)) BY <1>3 DEF Goes, Begin, Advance
<1>5. \A n \in 0 .. Len(disk) :
        Reader[n] = IF n = 0 THEN Begin ELSE Advance(Reader[n - 1])
  BY <1>4 DEF Goes
<1>6. 0 \in 0 .. Len(disk) /\ \A n \in 1 .. Len(disk) : n \in 0 .. Len(disk) /\ n # 0
  OBVIOUS
<1> QED BY <1>5, <1>6

\* After n members the reader is past the first n cells, and has read as it should.
LEMMA ReaderReads ==
  ASSUME NEW w \in Nat, Chained(disk, w), NEW m \in 0 .. Len(disk)
  PROVE  Reading(disk, w, Reader[m]) /\ Reader[m].pos > m
<1> DEFINE P(n) == Reading(disk, w, Reader[n]) /\ Reader[n].pos > n
           S == {n \in 0 .. Len(disk) : ~ P(n)}
<1>1. disk \in Seq(Cell) /\ Len(disk) \in Nat BY LenProperties DEF Chained
<1>2. /\ Reader[0] = Begin
      /\ \A n \in 1 .. Len(disk) : Reader[n] = Advance(Reader[n - 1])
  BY <1>1, ReaderIs
<1>3. S \subseteq 0 .. Len(disk) OBVIOUS
<1>4. \A n \in 0 .. Len(disk) : n \notin S => P(n) OBVIOUS
<1>5. \A n \in S : ~ P(n) OBVIOUS
<1> HIDE DEF S
<1> SUFFICES ASSUME S # {} PROVE FALSE BY <1>4
<1>6. 0 \in Int /\ Len(disk) \in Int BY <1>1
<1>7. S \subseteq Int /\ IsFiniteSet(S) BY <1>3, <1>6, PartOfInterval
<1> DEFINE k == Min(S)
<1>8. k \in S /\ \A y \in S : k <= y BY <1>7, LeastIs
<1> HIDE DEF k, P
<1>9. k \in 0 .. Len(disk) /\ k \in Nat BY <1>1, <1>3, <1>8
<1>10. CASE k = 0
  <2>1. Begin.pos = 1 /\ Begin.carry = << >> /\ Begin.lines = << >> BY DEF Begin
  <2>2. InOrder(<< >>, w)
    <3>1. << >> \in Seq(Seq(Cell)) /\ 1 .. Len(<< >>) = {} OBVIOUS
    <3> QED BY <3>1 DEF InOrder
  <2>3. 1 .. Len(Begin.lines) = {} /\ 1 .. Begin.pos - 1 = {} /\ 1 \in 1 .. Len(disk) + 1
    BY <1>1, <2>1
  <2>4. Reading(disk, w, Begin) BY <2>1, <2>2, <2>3 DEF Reading
  <2>5. P(0) BY <1>2, <2>1, <2>4 DEF P
  <2> QED BY <1>5, <1>8, <1>10, <2>5
<1>11. CASE k # 0
  <2>1. k - 1 \in 0 .. Len(disk) /\ k - 1 \in Nat /\ ~ (k <= k - 1) /\ k \in 1 .. Len(disk)
    BY <1>1, <1>9, <1>11
  <2>2. P(k - 1) BY <1>4, <1>8, <2>1
  <2> DEFINE at == Reader[k - 1]
  <2>3. Reading(disk, w, at) /\ at.pos > k - 1 BY <2>2 DEF P
  <2>4. Reader[k] = Advance(at) BY <1>2, <2>1
  <2> HIDE DEF at
  <2>5. at.pos \in 1 .. Len(disk) + 1 BY <2>3 DEF Reading
  <2>6. CASE at.pos > Len(disk)
    <3>1. Reader[k] = at BY <2>4, <2>6 DEF Advance
    <3>2. at.pos > k BY <1>1, <2>1, <2>5, <2>6
    <3> QED BY <1>5, <1>8, <2>3, <3>1, <3>2 DEF P
  <2>7. CASE ~ (at.pos > Len(disk))
    <3> DEFINE new == ReadMember(disk, at)
    <3>1. Reader[k] = new BY <2>4, <2>7 DEF Advance
    <3>2. at.pos <= Len(disk) BY <1>1, <2>5, <2>7
    <3>3. Reading(disk, w, new) /\ new.pos >= at.pos + 1 BY <2>3, <3>2, ReadingGoesOn
    <3> HIDE DEF new
    <3>4. new.pos \in 1 .. Len(disk) + 1 BY <3>3 DEF Reading
    <3>5. new.pos > k BY <1>1, <2>1, <2>3, <2>5, <3>3, <3>4
    <3> QED BY <1>5, <1>8, <3>1, <3>3, <3>5 DEF P
  <2> QED BY <2>6, <2>7
<1> QED BY <1>10, <1>11

\* What has been read at the end: lines in order, and all of a member that can be
\* read to its end.
LEMMA FileRead ==
  ASSUME LoggingInv
  PROVE  /\ InOrder(ReadLines, written)
         /\ \A h \in 1 .. Len(disk) : disk[h] = Header /\ Whole(disk, h, written) =>
              \A j \in h + 1 .. EndOfData(disk, h) - 1 : disk[j].is = "second" =>
                \E k \in 1 .. Len(ReadLines) : ReadLines[k] = Line(disk[j].line)
<1>1. LoggingTypes /\ Chained(AllCells, written) BY DEF LoggingInv
<1>2. /\ Len(disk) \in Nat /\ Len(disk) <= Len(AllCells)
      /\ \A j \in 1 .. Len(disk) : AllCells[j] = disk[j]
  BY <1>1, CellsAre
<1>3. written \in Nat /\ disk \in Seq(Cell) BY <1>1 DEF LoggingTypes
<1>4. Chained(disk, written) BY <1>1, <1>2, <1>3, ChainedPrefix
<1> DEFINE at == Reader[Len(disk)]
<1>5. Len(disk) \in 0 .. Len(disk) BY <1>2
<1>6. Reading(disk, written, at) /\ at.pos > Len(disk) BY <1>3, <1>4, <1>5, ReaderReads
<1>7. ReadLines = at.lines BY DEF ReadLines
<1> HIDE DEF at
<1>8. /\ at.pos \in 1 .. Len(disk) + 1 /\ InOrder(at.lines, written)
      /\ \A h \in 1 .. at.pos - 1 : disk[h] = Header /\ Whole(disk, h, written) =>
           \A j \in h + 1 .. EndOfData(disk, h) - 1 : disk[j].is = "second" =>
             \E k \in 1 .. Len(at.lines) : at.lines[k] = Line(disk[j].line)
  BY <1>6 DEF Reading
<1>9. at.pos - 1 = Len(disk) BY <1>2, <1>6, <1>8
<1> QED BY <1>7, <1>8, <1>9

LEMMA OnlyReal == ASSUME LoggingInv PROVE OnlyRealLines
<1>1. InOrder(ReadLines, written) BY FileRead
<1> DEFINE s == ReadLines
<1>2. InOrder(s, written) BY <1>1
<1> HIDE DEF s
<1>3. DOMAIN s = 1 .. Len(s) BY <1>2, LenProperties DEF InOrder
<1>4. \A i \in DOMAIN s : /\ \E n \in 1 .. written : s[i] = Line(n)
                          /\ \A j \in 1 .. i - 1 : s[j][1].line < s[i][1].line
  BY <1>2, <1>3 DEF InOrder
<1> QED BY <1>4 DEF OnlyRealLines, s

\* A line of a member that can be read to its end.
LEMMA LineRead ==
  ASSUME LoggingInv, NEW h \in 1 .. Len(disk), disk[h] = Header, Whole(disk, h, written),
         NEW n \in 1 .. written,
         NEW j \in h + 1 .. EndOfData(disk, h) - 1, disk[j] = Second(n)
  PROVE  n \in Yielded
<1>1. disk[j].is = "second" /\ disk[j].line = n BY DEF Second
<1>2. PICK k \in 1 .. Len(ReadLines) : ReadLines[k] = Line(n) BY <1>1, FileRead
<1>3. InOrder(ReadLines, written) BY FileRead
<1> DEFINE s == ReadLines
<1>4. InOrder(s, written) /\ k \in 1 .. Len(s) /\ s[k] = Line(n) BY <1>2, <1>3
<1> HIDE DEF s
<1>5. k \in DOMAIN s BY <1>4, LenProperties DEF InOrder
<1>6. Line(n) \in Range(s) BY <1>4, <1>5 DEF Range
<1> QED BY <1>6 DEF Yielded, s

LEMMA IntactRead == ASSUME LoggingInv PROVE IntactMembersRead
<1> SUFFICES ASSUME NEW n \in intact PROVE n \in Yielded BY DEF IntactMembersRead
<1>1. Closed(disk, n) /\ LoggingTypes BY DEF LoggingInv
<1>2. disk \in Seq(Cell) /\ n \in 1 .. written /\ Len(disk) \in Nat
  BY <1>1, LenProperties DEF LoggingTypes
<1>3. PICK h \in 1 .. Len(disk), e \in 1 .. Len(disk) :
        /\ h < e /\ disk[h] = Header /\ disk[e] = Trailer
        /\ \A j \in h + 1 .. e - 1 : IsData(disk[j])
        /\ HasLine(disk, h, e - 1, n)
  BY <1>1 DEF Closed
<1>4. PICK i \in h + 1 .. (e - 1) - 1 : disk[i + 1] = Second(n) BY <1>3 DEF HasLine
<1>5. EndOfData(disk, h) = e
  <2>1. e \in h + 1 .. Len(disk) BY <1>2, <1>3
  <2>2. ~ IsData(disk[e]) BY <1>3 DEF IsData, Trailer
  <2> QED BY <1>2, <1>3, <2>1, <2>2, EndOfDataAt
<1>6. Whole(disk, h, written)
  <2>1. Complete(disk, h) BY <1>2, <1>3, <1>5 DEF Complete
  <2> QED BY <2>1 DEF Whole
<1>7. i + 1 \in h + 1 .. e - 1 BY <1>2
<1> QED BY <1>2, <1>3, <1>4, <1>5, <1>6, <1>7, LineRead

\* A half line is in a member, whose header is what stands before its run of data.
LEMMA InMember ==
  ASSUME NEW w \in Nat, NEW f, Chained(f, w), NEW j \in 1 .. Len(f), IsData(f[j])
  PROVE  \E h \in 1 .. Len(f) :
           f[h] = Header /\ j \in h + 1 .. EndOfData(f, h) - 1
<1> DEFINE H == {i \in 1 .. j - 1 : ~ IsData(f[i])}
           h == Max(H)
<1>1. f \in Seq(Cell) /\ Len(f) \in Nat /\ j \in Nat /\ j <= Len(f)
  BY LenProperties DEF Chained
<1>2. 1 \in H
  <2>1. 1 \in 1 .. Len(f) BY <1>1
  <2>2. Linked(f, w, 1) BY <2>1 DEF Chained
  <2>3. f[1].is = "header" BY <2>2 DEF Linked
  <2>4. ~ IsData(f[1]) BY <2>3 DEF IsData
  <2>5. j # 1 BY <2>4
  <2> QED BY <1>1, <2>4, <2>5
<1>3. H \subseteq 1 .. j - 1 OBVIOUS
<1>4. /\ \A i \in H : ~ IsData(f[i])
      /\ \A i \in 1 .. j - 1 : i \notin H => IsData(f[i])
  OBVIOUS
<1> HIDE DEF H
<1>5. H \subseteq Int /\ IsFiniteSet(H)
  <2>1. 1 \in Int /\ j - 1 \in Int BY <1>1
  <2> QED BY <1>3, <2>1, PartOfInterval
<1>6. h \in H /\ \A y \in H : y <= h BY <1>2, <1>5, GreatestIs
<1> HIDE DEF h
<1>7. h \in 1 .. j - 1 /\ h \in 1 .. Len(f) /\ h \in Nat /\ ~ IsData(f[h])
  <2>1. h \in 1 .. j - 1 BY <1>3, <1>6
  <2> QED BY <1>1, <1>4, <1>6, <2>1
<1>8. \A i \in h + 1 .. j : IsData(f[i])
  <2> SUFFICES ASSUME NEW i \in h + 1 .. j PROVE IsData(f[i]) OBVIOUS
  <2>1. CASE i = j BY <2>1
  <2>2. CASE i # j
    <3>1. i \in 1 .. j - 1 /\ ~ (i <= h) BY <1>1, <1>7, <2>2
    <3> QED BY <1>4, <1>6, <3>1
  <2> QED BY <2>1, <2>2
<1>9. f[h] = Header
  <2>1. f[h] \in Cell BY <1>1, <1>7, ElementOfSeq
  <2> DEFINE k == h + 1
  <2>2. k \in h + 1 .. j /\ k \in 1 .. Len(f) /\ k - 1 = h BY <1>1, <1>7
  <2> HIDE DEF k
  <2>3. Linked(f, w, k) BY <2>2 DEF Chained
  <2>4. IsData(f[k]) BY <1>8, <2>2
  <2>5. f[k].is # "second"
    <3> SUFFICES ASSUME f[k].is = "second" PROVE FALSE OBVIOUS
    <3>1. f[h] = First(f[k].line) BY <2>2, <2>3 DEF Linked
    <3>2. IsData(f[h]) BY <3>1 DEF IsData, First
    <3> QED BY <1>7, <3>2
  <2>6. f[h].is \in {"header", "second"} BY <2>2, <2>3, <2>4, <2>5 DEF Linked, IsData
  <2> QED BY <1>7, <2>1, <2>6, CellIs
<1> DEFINE e == EndOfData(f, h)
<1>10. e \in h + 1 .. Len(f) + 1 /\ (e <= Len(f) => ~ IsData(f[e]))
  BY <1>1, <1>7, EndOfDataIs
<1> HIDE DEF e
<1>11. ~ (e <= j)
  <2>1. e <= j => e \in h + 1 .. j /\ e <= Len(f) BY <1>1, <1>7, <1>10
  <2> QED BY <1>8, <1>10, <2>1
<1>12. j \in h + 1 .. e - 1 BY <1>1, <1>7, <1>10, <1>11
<1> QED BY <1>7, <1>9, <1>12 DEF e

LEMMA DamagedRead == ASSUME LoggingInv PROVE DamagedRecoveredInBlock
<1> SUFFICES ASSUME /\ \A n \in Lookalike : n > written
                    /\ \A pos \in DOMAIN disk :
                         (disk[pos] = Header /\ EndOfData(disk, pos) <= Len(disk)
                            /\ ~ Complete(disk, pos))
                         => EndOfData(disk, pos) - pos < Block,
                    NEW n \in OnDisk
             PROVE  n \in Yielded
  BY DEF DamagedRecoveredInBlock
<1>1. LoggingTypes /\ Chained(AllCells, written) BY DEF LoggingInv
<1>2. /\ Len(disk) \in Nat /\ Len(disk) <= Len(AllCells)
      /\ \A j \in 1 .. Len(disk) : AllCells[j] = disk[j]
  BY <1>1, CellsAre
<1>3. written \in Nat /\ disk \in Seq(Cell) /\ DOMAIN disk = 1 .. Len(disk)
  BY <1>1, LenProperties DEF LoggingTypes
<1>4. Chained(disk, written) BY <1>1, <1>2, <1>3, ChainedPrefix
<1>5. n \in 1 .. written /\ n \in Nat /\ Range(Line(n)) \subseteq Range(disk)
  BY <1>3 DEF OnDisk
<1>6. Second(n) \in Range(disk)
  <2>1. Line(n) = <<First(n), Second(n)>> BY <1>5, LineIs
  <2>2. Second(n) \in Range(<<First(n), Second(n)>>)
    <3> DEFINE s == <<First(n), Second(n)>>
    <3>1. 2 \in DOMAIN s /\ s[2] = Second(n) OBVIOUS
    <3> HIDE DEF s
    <3>2. Second(n) \in Range(s) BY <3>1 DEF Range
    <3> QED BY <3>2 DEF s
  <2> QED BY <1>5, <2>1, <2>2
<1>7. PICK j \in 1 .. Len(disk) : disk[j] = Second(n) BY <1>3, <1>6 DEF Range
<1>8. IsData(disk[j]) BY <1>5, <1>7, LineIs
<1>9. PICK h \in 1 .. Len(disk) : disk[h] = Header /\ j \in h + 1 .. EndOfData(disk, h) - 1
  BY <1>3, <1>4, <1>8, InMember
<1>10. Whole(disk, h, written)
  <2>1. EndOfData(disk, h) \in Int
    <3>1. EndOfData(disk, h) \in h + 1 .. Len(disk) + 1 BY <1>3, EndOfDataIs
    <3> QED BY <3>1
  <2>2. EndOfData(disk, h) > Len(disk) \/ EndOfData(disk, h) <= Len(disk) BY <1>2, <2>1
  <2>3. h \in DOMAIN disk BY <1>3
  <2> QED BY <1>9, <2>2, <2>3 DEF Whole
<1> QED BY <1>5, <1>7, <1>9, <1>10, LineRead

LEMMA LoggingInvariant == Spec => [](part = "logging" => LoggingInv)
<1>1. Init => (part = "logging" => LoggingInv)
  <2> SUFFICES ASSUME Init, part = "logging" PROVE LoggingInv OBVIOUS
  <2>1. LoggingInit BY DEF Init
  <2> QED BY <2>1, LoggingInitInv
<1>2. (part = "logging" => LoggingInv) /\ [Next]_vars => (part = "logging" => LoggingInv)'
  <2> SUFFICES ASSUME part = "logging" => LoggingInv, [Next]_vars, part' = "logging"
               PROVE  LoggingInv'
    OBVIOUS
  <2>1. part = "logging" /\ [LoggingNext]_loggingVars
    <3>1. CASE Next
      BY <3>1 DEF Next, SavingRuns, CountingRuns, LoggingRuns, CheckingRuns,
                  SelectingRuns, ProbingRuns
    <3>2. CASE UNCHANGED vars BY <3>2 DEF vars
    <3> QED BY <3>1, <3>2
  <2> QED BY <2>1, LoggingStepInv
<1> QED BY <1>1, <1>2, PTL DEF Spec

\* A kill loses less than one buffer of lines.  What is read are lines that were
\* written, each once and in order, with every line of a closed member among them
\* and, where a damaged member fits its block, every line on disk
\* (logwriter.py:6-7, 97-100, 109-111, 176-178).
THEOREM LogsAreKept == Spec => []LogsSurvive
<1>1. (part = "logging" => LoggingInv) => LogsSurvive
  BY KillLoses, OnlyReal, IntactRead, DamagedRead DEF LogsSurvive
<1> QED BY <1>1, LoggingInvariant, PTL
===============================================================================
