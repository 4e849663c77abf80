---------------------------- MODULE DiskQueue_proofs ----------------------------
(***************************************************************************)
(* Proofs about DiskQueue: that it keeps DurableQueue's promise, and that  *)
(* the size it tracks is exact, for every chunk size and every number of   *)
(* requests.                                                               *)
(***************************************************************************)
EXTENDS DiskQueue, FiniteSetTheorems, FunctionTheorems, TLAPS

-------------------------------------------------------------------------------
(* RecordPlaces in order: the i-th record of chunk n is number n * ChunkSize + i. *)

LEMMA Size == ChunkSize \in Nat /\ ChunkSize >= 1 /\ MaxRecord \in Nat
BY SizeAssumption

LEMMA Times == ASSUME NEW n \in Nat PROVE n * ChunkSize \in Nat
BY Size

LEMMA NextTimes ==
  ASSUME NEW n \in Nat PROVE (n + 1) * ChunkSize = n * ChunkSize + ChunkSize
BY Size

LEMMA Monotone ==
  ASSUME NEW n \in Nat, NEW m \in Nat, n < m
  PROVE  n * ChunkSize + ChunkSize <= m * ChunkSize
BY Size

LEMMA Divided ==
  ASSUME NEW x \in Nat
  PROVE  /\ x = (x \div ChunkSize) * ChunkSize + (x % ChunkSize)
         /\ x % ChunkSize \in 0 .. ChunkSize - 1
         /\ x \div ChunkSize \in Nat
BY Size

LEMMA SamePlace ==
  ASSUME NEW n \in Nat, NEW m \in Nat, NEW i \in 1 .. ChunkSize, NEW j \in 1 .. ChunkSize,
         n * ChunkSize + i = m * ChunkSize + j
  PROVE  n = m /\ i = j
<1>1. ~(n < m) BY Monotone, Times, Size
<1>2. ~(m < n) BY Monotone, Times, Size
<1> QED BY <1>1, <1>2, Times, Size

LEMMA AfterIs ==
  ASSUME NEW n \in Nat, NEW num \in Nat, NEW i \in 1 .. ChunkSize, NEW cnt \in 0 .. ChunkSize
  PROVE  After(<<n, i>>, num, cnt) <=> n * ChunkSize + i > num * ChunkSize + cnt
<1>1. CASE n < num BY <1>1, Monotone, Times, Size DEF After
<1>2. CASE n = num BY <1>2, Times, Size DEF After
<1>3. CASE n > num BY <1>3, Monotone, Times, Size DEF After
<1> QED BY <1>1, <1>2, <1>3

-------------------------------------------------------------------------------
(* The files: chunks lo to hi are there, all but the last one are full, and *)
(* each record's number is that of its place plus o, the records pushed     *)
(* before the directory was last removed.                                   *)

EndOf(ch, hi) == hi * ChunkSize + Len(ch[hi])
End(hi) == EndOf(chunk, hi)

Files(ch, count, lo, hi, o) ==
  /\ lo \in Nat /\ hi \in Nat /\ o \in Nat /\ lo <= hi
  /\ DOMAIN ch = lo .. hi
  /\ \A n \in lo .. hi :
       /\ ch[n] \in Seq(Nat)
       /\ Len(ch[n]) <= ChunkSize
       /\ n < hi => Len(ch[n]) = ChunkSize
       /\ \A i \in 1 .. Len(ch[n]) : ch[n][i] = n * ChunkSize + i + o
  /\ count = EndOf(ch, hi) + o

Chunks(lo, hi, o) == Files(chunk, pushed, lo, hi, o)

LEMMA Bounds ==
  ASSUME NEW lo, NEW hi, NEW o, Chunks(lo, hi, o)
  PROVE  /\ lo \in Nat /\ hi \in Nat /\ o \in Nat /\ lo <= hi
         /\ lo * ChunkSize \in Nat /\ hi * ChunkSize \in Nat
         /\ DOMAIN chunk = lo .. hi
         /\ hi \in lo .. hi /\ lo \in lo .. hi
<1>1. lo \in Nat /\ hi \in Nat /\ o \in Nat /\ lo <= hi /\ DOMAIN chunk = lo .. hi
  BY DEF Chunks, Files
<1> QED BY <1>1, Times

\* What a chunk holds.
LEMMA ChunkIs ==
  ASSUME NEW lo, NEW hi, NEW o, Chunks(lo, hi, o), NEW n \in lo .. hi
  PROVE  /\ n \in Nat /\ Len(chunk[n]) \in Nat /\ Len(chunk[n]) <= ChunkSize
         /\ n < hi => Len(chunk[n]) = ChunkSize
         /\ DOMAIN chunk[n] = 1 .. Len(chunk[n])
<1>1. chunk[n] \in Seq(Nat) BY DEF Chunks, Files
<1>2. Len(chunk[n]) \in Nat /\ DOMAIN chunk[n] = 1 .. Len(chunk[n]) BY <1>1
<1>3. Len(chunk[n]) <= ChunkSize /\ (n < hi => Len(chunk[n]) = ChunkSize) BY DEF Chunks, Files
<1>4. n \in Nat BY Bounds
<1> QED BY <1>2, <1>3, <1>4

LEMMA EndIs ==
  ASSUME NEW lo, NEW hi, NEW o, Chunks(lo, hi, o)
  PROVE  /\ End(hi) \in Nat
         /\ hi * ChunkSize <= End(hi) /\ End(hi) <= hi * ChunkSize + ChunkSize
         /\ Len(chunk[hi]) = End(hi) - hi * ChunkSize
<1>1. Len(chunk[hi]) \in Nat /\ Len(chunk[hi]) <= ChunkSize BY Bounds, ChunkIs
<1>2. hi * ChunkSize \in Nat /\ ChunkSize \in Nat BY Bounds, Size
<1> QED BY <1>1, <1>2 DEF End, EndOf

LEMMA PlaceIs ==
  ASSUME NEW lo, NEW hi, NEW o, Chunks(lo, hi, o), NEW p \in RecordPlaces
  PROVE  /\ p = <<p[1], p[2]>>
         /\ p[1] \in lo .. hi /\ p[1] \in Nat
         /\ p[2] \in 1 .. Len(chunk[p[1]])
         /\ p[2] \in 1 .. ChunkSize
         /\ p[1] * ChunkSize + p[2] \in Nat
         /\ p[1] * ChunkSize + p[2] <= End(hi)
<1>1. DOMAIN chunk = lo .. hi BY DEF Chunks, Files
<1>2. PICK n \in lo .. hi : p \in {n} \X DOMAIN chunk[n] BY <1>1 DEF RecordPlaces
<1>3. n \in Nat /\ Len(chunk[n]) \in Nat /\ Len(chunk[n]) <= ChunkSize
      /\ DOMAIN chunk[n] = 1 .. Len(chunk[n])
  BY ChunkIs
<1>4. p = <<p[1], p[2]>> /\ p[1] = n /\ p[2] \in 1 .. Len(chunk[n]) BY <1>2, <1>3
<1>5. p[2] \in 1 .. ChunkSize BY <1>3, <1>4, Size
<1>6. n * ChunkSize + p[2] \in Nat
  <2>1. n * ChunkSize \in Nat BY <1>3, Times
  <2>2. p[2] \in Nat BY <1>5, Size
  <2> QED BY <2>1, <2>2
<1>7. n * ChunkSize + p[2] <= End(hi)
  <2>1. CASE n = hi
    <3>1. p[2] \in Nat /\ p[2] <= Len(chunk[hi]) BY <1>3, <1>4, <2>1
    <3> QED BY <2>1, <3>1, EndIs, Bounds
  <2>2. CASE n < hi
    <3>1. n * ChunkSize + ChunkSize <= hi * ChunkSize BY <1>3, <2>2, Monotone, Bounds
    <3>2. hi * ChunkSize \in Nat /\ End(hi) \in Nat /\ hi * ChunkSize <= End(hi)
      BY Bounds, EndIs
    <3>3. n * ChunkSize \in Nat /\ p[2] <= ChunkSize /\ p[2] \in Nat
      BY <1>3, <1>5, Times, Size
    <3> QED BY <3>1, <3>2, <3>3, Size
  <2> QED BY <1>2, <2>1, <2>2, Bounds
<1> QED BY <1>2, <1>3, <1>4, <1>5, <1>6, <1>7

\* Each number from the first place to the last is that of a place.
LEMMA PlaceOf ==
  ASSUME NEW lo, NEW hi, NEW o, Chunks(lo, hi, o),
         NEW k \in Nat, lo * ChunkSize < k, k <= End(hi)
  PROVE  \E n \in Nat, i \in 1 .. ChunkSize : /\ <<n, i>> \in RecordPlaces
                                               /\ n * ChunkSize + i = k
<1>1. k - 1 \in Nat BY Bounds
<1>2. PICK n \in Nat, r \in 0 .. ChunkSize - 1 : k - 1 = n * ChunkSize + r BY <1>1, Divided
<1>3. n * ChunkSize \in Nat /\ r \in Nat /\ r + 1 <= ChunkSize BY <1>2, Times, Size
<1>4. n * ChunkSize + r + 1 = k BY <1>2, <1>3
<1>5. ~(n < lo)
  <2>1. SUFFICES ASSUME n < lo PROVE FALSE OBVIOUS
  <2>2. n * ChunkSize + ChunkSize <= lo * ChunkSize BY <2>1, Monotone, Bounds
  <2> QED BY <1>3, <1>4, <2>2, Bounds, Size
<1>6. ~(n > hi)
  <2>1. SUFFICES ASSUME n > hi PROVE FALSE OBVIOUS
  <2>2. hi * ChunkSize + ChunkSize <= n * ChunkSize BY <2>1, Monotone, Bounds
  <2>3. End(hi) \in Nat /\ hi * ChunkSize \in Nat /\ End(hi) <= hi * ChunkSize + ChunkSize
    BY Bounds, EndIs
  <2> QED BY <1>3, <1>4, <2>2, <2>3, Size
<1>7. n \in lo .. hi BY <1>5, <1>6, Bounds
<1>8. r + 1 <= Len(chunk[n])
  <2>1. CASE n = hi BY <1>3, <1>4, <2>1, EndIs, Bounds
  <2>2. CASE n < hi BY <1>3, <1>7, <2>2, ChunkIs
  <2> QED BY <1>7, <2>1, <2>2, Bounds
<1>9. <<n, r + 1>> \in RecordPlaces
  <2>1. n \in DOMAIN chunk BY <1>7, Bounds
  <2>2. r + 1 \in DOMAIN chunk[n]
    <3>1. DOMAIN chunk[n] = 1 .. Len(chunk[n]) /\ Len(chunk[n]) \in Nat BY <1>7, ChunkIs
    <3> QED BY <1>3, <1>8, <3>1
  <2> QED BY <2>1, <2>2 DEF RecordPlaces
<1>10. r + 1 \in 1 .. ChunkSize BY <1>3, Size
<1>11. n * ChunkSize + (r + 1) = k BY <1>3, <1>4
<1> QED BY <1>9, <1>10, <1>11

Number(p) == p[1] * ChunkSize + p[2]

LEMMA AfterNumber ==
  ASSUME NEW lo, NEW hi, NEW o, Chunks(lo, hi, o), NEW p \in RecordPlaces,
         NEW num \in Nat, NEW cnt \in 0 .. ChunkSize
  PROVE  After(p, num, cnt) <=> Number(p) > num * ChunkSize + cnt
<1>1. p = <<p[1], p[2]>> /\ p[1] \in Nat /\ p[2] \in 1 .. ChunkSize BY PlaceIs
<1>2. After(<<p[1], p[2]>>, num, cnt) <=> p[1] * ChunkSize + p[2] > num * ChunkSize + cnt
  BY <1>1, AfterIs
<1> QED BY <1>1, <1>2 DEF Number

\* There are as many places after a place as their numbers say.
LEMMA CountUpTo ==
  ASSUME NEW lo, NEW hi, NEW o, Chunks(lo, hi, o),
         NEW cnt \in 0 .. ChunkSize, NEW y \in Nat, NEW x \in Nat,
         x = lo * ChunkSize + cnt, x <= y, y <= End(hi),
         NEW S, S = {p \in RecordPlaces : After(p, lo, cnt) /\ Number(p) <= y}
  PROVE  IsFiniteSet(S) /\ Cardinality(S) = y - x
<1> DEFINE f == [k \in x + 1 .. y |-> CHOOSE p \in S : Number(p) = k]
<1>1. \A k \in x + 1 .. y : \E p \in S : Number(p) = k
  <2> SUFFICES ASSUME NEW k \in x + 1 .. y PROVE \E p \in S : Number(p) = k
    OBVIOUS
  <2>1. k \in Nat /\ lo * ChunkSize < k /\ k <= End(hi)
    <3>1. cnt \in Nat BY Size
    <3>2. lo * ChunkSize \in Nat /\ End(hi) \in Nat BY Bounds, EndIs
    <3>3. k \in Nat /\ x < k /\ k <= y OBVIOUS
    <3> QED BY <3>1, <3>2, <3>3
  <2>2. PICK n \in Nat, i \in 1 .. ChunkSize : <<n, i>> \in RecordPlaces /\ n * ChunkSize + i = k
    BY <2>1, PlaceOf
  <2>3. Number(<<n, i>>) = k BY <2>2 DEF Number
  <2>4. After(<<n, i>>, lo, cnt)
    <3>1. lo \in Nat /\ Number(<<n, i>>) > lo * ChunkSize + cnt BY <2>3, Bounds
    <3> QED BY <2>2, <3>1, AfterNumber
  <2>5. Number(<<n, i>>) <= y BY <2>3
  <2> QED BY <2>2, <2>3, <2>4, <2>5
<1>2. \A p \in S : Number(p) \in x + 1 .. y
  <2> SUFFICES ASSUME NEW p \in S PROVE Number(p) \in x + 1 .. y
    OBVIOUS
  <2>1. p \in RecordPlaces /\ After(p, lo, cnt) /\ Number(p) <= y OBVIOUS
  <2>2. Number(p) > x BY <2>1, AfterNumber, Bounds
  <2>3. Number(p) \in Nat BY <2>1, PlaceIs DEF Number
  <2> QED BY <2>1, <2>2, <2>3
<1>3. \A k \in x + 1 .. y : f[k] \in S /\ Number(f[k]) = k
  BY <1>1
<1>4. \A p, q \in S : Number(p) = Number(q) => p = q
  <2> SUFFICES ASSUME NEW p \in S, NEW q \in S, Number(p) = Number(q) PROVE p = q
    OBVIOUS
  <2>1. p \in RecordPlaces /\ q \in RecordPlaces OBVIOUS
  <2>2. p = <<p[1], p[2]>> /\ p[1] \in Nat /\ p[2] \in 1 .. ChunkSize BY <2>1, PlaceIs
  <2>3. q = <<q[1], q[2]>> /\ q[1] \in Nat /\ q[2] \in 1 .. ChunkSize BY <2>1, PlaceIs
  <2>4. p[1] = q[1] /\ p[2] = q[2] BY <2>2, <2>3, SamePlace DEF Number
  <2> QED BY <2>2, <2>3, <2>4
<1>5. f \in [x + 1 .. y -> S] BY <1>3
<1>6. \A a, b \in x + 1 .. y : f[a] = f[b] => a = b BY <1>3
<1>7. \A p \in S : \E k \in x + 1 .. y : f[k] = p BY <1>2, <1>3, <1>4
<1> HIDE DEF f
<1>8. f \in Bijection(x + 1 .. y, S) BY <1>5, <1>6, <1>7, Fun_IsBij
<1>9. ExistsBijection(x + 1 .. y, S) BY <1>8 DEF ExistsBijection
<1>10. IsFiniteSet(x + 1 .. y) /\ Cardinality(x + 1 .. y) = y - x
  <2>1. x + 1 \in Int /\ y \in Int OBVIOUS
  <2>2. IsFiniteSet(x + 1 .. y)
        /\ Cardinality(x + 1 .. y) = (IF x + 1 > y THEN 0 ELSE y - (x + 1) + 1)
    BY <2>1, FS_Interval
  <2> QED BY <2>2
<1> QED BY <1>9, <1>10, FS_Bijection

-------------------------------------------------------------------------------
(* What the queue owes: the records after its tail, in their order. *)

Rest(a) == [k \in 1 .. pushed - a |-> a + k]

\* The head is after every record there is.
AtEnd(m) == \A p \in RecordPlaces : ~After(p, m.head.num, m.head.pos)

LEMMA HeadAtEnd ==
  ASSUME NEW lo, NEW hi, NEW o, Chunks(lo, hi, o), NEW m,
         \/ m.head.num = hi /\ m.head.pos = Len(chunk[hi])
         \/ m.head.num = hi + 1 /\ m.head.pos = 0
  PROVE  AtEnd(m)
<1> SUFFICES ASSUME NEW p \in RecordPlaces PROVE ~After(p, m.head.num, m.head.pos)
  BY DEF AtEnd
<1>1. Number(p) \in Nat /\ Number(p) <= End(hi) BY PlaceIs DEF Number
<1>2. CASE m.head.num = hi /\ m.head.pos = Len(chunk[hi])
  <2>1. Len(chunk[hi]) \in 0 .. ChunkSize BY Bounds, ChunkIs, Size
  <2>2. End(hi) = hi * ChunkSize + Len(chunk[hi]) BY DEF End, EndOf
  <2>3. ~(Number(p) > hi * ChunkSize + Len(chunk[hi])) BY <1>1, <2>2, EndIs
  <2> QED BY <1>2, <2>1, <2>3, AfterNumber, Bounds
<1>3. CASE m.head.num = hi + 1 /\ m.head.pos = 0
  <2>1. hi + 1 \in Nat /\ 0 \in 0 .. ChunkSize BY Bounds, Size
  <2>2. (hi + 1) * ChunkSize = hi * ChunkSize + ChunkSize BY Bounds, NextTimes
  <2>3. hi * ChunkSize \in Nat /\ ChunkSize \in Nat BY Bounds, Times, Size
  <2>4. End(hi) <= hi * ChunkSize + ChunkSize BY EndIs, Bounds
  <2>5. Number(p) \in Nat /\ End(hi) \in Nat BY <1>1, EndIs
  <2>6. ~(Number(p) > (hi + 1) * ChunkSize + 0) BY <1>1, <2>2, <2>3, <2>4, <2>5
  <2> QED BY <1>3, <2>1, <2>6, AfterNumber
<1> QED BY <1>2, <1>3

\* All places after the tail: what _recover counts.
LEMMA AllAfter ==
  ASSUME NEW lo, NEW hi, NEW o, Chunks(lo, hi, o),
         NEW cnt \in 0 .. ChunkSize, NEW x \in Nat,
         x = lo * ChunkSize + cnt, x <= End(hi)
  PROVE  Cardinality({p \in RecordPlaces : After(p, lo, cnt)}) = End(hi) - x
<1>1. {p \in RecordPlaces : After(p, lo, cnt)}
      = {p \in RecordPlaces : After(p, lo, cnt) /\ Number(p) <= End(hi)}
  BY PlaceIs DEF Number
<1> QED BY <1>1, CountUpTo, EndIs

LEMMA OwedIs ==
  ASSUME NEW lo, NEW hi, NEW o, Chunks(lo, hi, o), NEW m, AtEnd(m), m.tail.num = lo
  PROVE  Owed(m) = {p \in RecordPlaces : After(p, lo, m.tail.cnt)}
BY DEF Owed, AtEnd

LEMMA BetweenIs ==
  ASSUME NEW lo, NEW hi, NEW o, Chunks(lo, hi, o), NEW m, AtEnd(m),
         m.tail.num = lo, m.tail.cnt \in 0 .. ChunkSize,
         NEW x \in Nat, x = lo * ChunkSize + m.tail.cnt, x <= End(hi)
  PROVE  Between(m) = Rest(x + o)
<1> DEFINE cnt == m.tail.cnt
           Upto(p) == {q \in Owed(m) : ~After(q, p[1], p[2])}
           At(k) == CHOOSE p \in Owed(m) : Cardinality(Upto(p)) = k
<1>1. Owed(m) = {p \in RecordPlaces : After(p, lo, cnt)} BY OwedIs
<1>2. Cardinality(Owed(m)) = End(hi) - x BY <1>1, AllAfter
<1>3. o \in Nat /\ End(hi) \in Nat /\ pushed = End(hi) + o BY Bounds, EndIs DEF Chunks, Files, End
<1>4. \A p \in Owed(m) : Number(p) \in x + 1 .. End(hi) /\ Cardinality(Upto(p)) = Number(p) - x
  <2> SUFFICES ASSUME NEW p \in Owed(m)
      PROVE Number(p) \in x + 1 .. End(hi) /\ Cardinality(Upto(p)) = Number(p) - x
    OBVIOUS
  <2>1. p \in RecordPlaces /\ After(p, lo, cnt) BY <1>1
  <2>2. Number(p) \in Nat /\ Number(p) <= End(hi) BY <2>1, PlaceIs DEF Number
  <2>3. Number(p) > x BY <2>1, AfterNumber, Bounds
  <2>4. \A q \in RecordPlaces : ~After(q, p[1], p[2]) <=> Number(q) <= Number(p)
    <3> SUFFICES ASSUME NEW q \in RecordPlaces
        PROVE ~After(q, p[1], p[2]) <=> Number(q) <= Number(p)
      OBVIOUS
    <3>1. p[1] \in Nat /\ p[2] \in 1 .. ChunkSize BY <2>1, PlaceIs
    <3>2. p[2] \in 0 .. ChunkSize BY <3>1, Size
    <3>3. After(q, p[1], p[2]) <=> Number(q) > p[1] * ChunkSize + p[2]
      BY <3>1, <3>2, AfterNumber
    <3>4. Number(q) \in Nat BY PlaceIs DEF Number
    <3> QED BY <2>2, <3>3, <3>4 DEF Number
  <2>5. Upto(p) = {q \in RecordPlaces : After(q, lo, cnt) /\ Number(q) <= Number(p)}
    BY <1>1, <2>4
  <2>6. Cardinality(Upto(p)) = Number(p) - x
    <3> HIDE DEF Upto
    <3> QED BY <2>2, <2>3, <2>5, CountUpTo
  <2> QED BY <2>2, <2>3, <2>6, <1>3
<1>5. ASSUME NEW k \in 1 .. End(hi) - x
      PROVE At(k) \in Owed(m) /\ Number(At(k)) = x + k
  <2>1. x + k \in Nat /\ lo * ChunkSize < x + k /\ x + k <= End(hi)
    <3>1. cnt \in Nat /\ lo * ChunkSize \in Nat BY Bounds, Size
    <3> QED BY <1>3, <3>1
  <2>2. PICK n \in Nat, i \in 1 .. ChunkSize :
          <<n, i>> \in RecordPlaces /\ n * ChunkSize + i = x + k
    BY <2>1, PlaceOf
  <2>3. Number(<<n, i>>) = x + k BY <2>2 DEF Number
  <2>4. After(<<n, i>>, lo, cnt)
    <3>1. cnt \in 0 .. ChunkSize /\ lo \in Nat BY Bounds
    <3>2. Number(<<n, i>>) > lo * ChunkSize + cnt BY <2>3
    <3> HIDE DEF cnt
    <3> QED BY <2>2, <3>1, <3>2, AfterNumber
  <2>5. <<n, i>> \in Owed(m) BY <1>1, <2>2, <2>4
  <2>6. Cardinality(Upto(<<n, i>>)) = k
    <3> HIDE DEF Upto
    <3> QED BY <1>4, <2>3, <2>5
  <2>7. At(k) \in Owed(m) /\ Cardinality(Upto(At(k))) = k
    <3> HIDE DEF Upto
    <3> QED BY <2>5, <2>6
  <2> HIDE DEF Upto, At
  <2> QED BY <1>3, <1>4, <2>7
<1>6. ASSUME NEW p \in RecordPlaces PROVE chunk[p[1]][p[2]] = Number(p) + o
  <2>1. p[1] \in lo .. hi /\ p[2] \in 1 .. Len(chunk[p[1]]) BY PlaceIs
  <2>2. chunk[p[1]][p[2]] = p[1] * ChunkSize + p[2] + o BY <2>1 DEF Chunks, Files
  <2> QED BY <2>2 DEF Number
<1>7. ASSUME NEW k \in 1 .. End(hi) - x
      PROVE chunk[At(k)[1]][At(k)[2]] = (x + o) + k
  <2>1. At(k) \in RecordPlaces /\ Number(At(k)) = x + k
    <3> HIDE DEF At
    <3> QED BY <1>1, <1>5
  <2> HIDE DEF At
  <2>2. chunk[At(k)[1]][At(k)[2]] = Number(At(k)) + o BY <1>6, <2>1
  <2> QED BY <1>3, <2>1, <2>2
<1>8. Between(m) = [k \in 1 .. End(hi) - x |-> chunk[At(k)[1]][At(k)[2]]]
  BY <1>2 DEF Between
<1>9. pushed - (x + o) = End(hi) - x BY <1>3
<1> HIDE DEF At
<1> QED BY <1>7, <1>8, <1>9 DEF Rest

-------------------------------------------------------------------------------
(* The inductive invariant: Owes(a) says that the queue owes the requests   *)
(* after the first a, now or once it is opened again.                       *)

Meta == [size : Nat, tail : [num : Nat, cnt : Nat], head : [num : Nat, pos : Nat]]

\* Metadata that describe the files as they are.
Exact(m, lo, hi) ==
  /\ m \in Meta
  /\ m.tail.num = lo /\ m.tail.cnt < ChunkSize
  /\ m.head.num = hi /\ m.head.pos = Len(chunk[hi]) /\ m.head.pos < ChunkSize
  /\ m.size = End(hi) - (lo * ChunkSize + m.tail.cnt)

InfoOK ==
  \/ info = Missing
  \/ info = Torn
  \/ \E m \in Meta, c \in BOOLEAN : info = Saved(m, c)

Clean == info.file = "json" /\ info.clean

\* The tail a recovery starts from.
SavedTail == IF info.file = "json" THEN info.m.tail ELSE Fresh.tail

\* The records of the first chunk that the queue does not owe any more.
Cnt(lo) ==
  IF up THEN mem.tail.cnt
  ELSE IF Clean THEN info.m.tail.cnt
  ELSE IF SavedTail.num = lo THEN SavedTail.cnt ELSE 0

\* The saved tail is never ahead of the queue.
Standing(lo, hi, o) ==
  /\ Chunks(lo, hi, o)
  /\ Cnt(lo) \in Nat /\ Cnt(lo) < ChunkSize
  /\ lo * ChunkSize + Cnt(lo) <= End(hi)
  /\ SavedTail \in [num : Nat, cnt : Nat]
  /\ SavedTail.num <= lo /\ SavedTail.cnt < ChunkSize
  /\ SavedTail.num = lo => SavedTail.cnt <= Cnt(lo)
  /\ up => Exact(mem, lo, hi)
  /\ ~up /\ Clean => Exact(info.m, lo, hi)

Empty == ~up /\ info = Missing /\ chunk = <<>> /\ pushed \in Nat

Owes(a) ==
  /\ InfoOK
  /\ up \in BOOLEAN
  /\ \/ Empty /\ a = pushed
     \/ \E lo, hi, o \in Nat : Standing(lo, hi, o) /\ a = lo * ChunkSize + Cnt(lo) + o

\* What _recover finds: the recorded tail, or the start of the lowest chunk.
LEMMA RecoverIs ==
  ASSUME NEW lo, NEW hi, NEW o, Chunks(lo, hi, o),
         NEW tail \in [num : Nat, cnt : Nat], tail.num <= lo, tail.cnt < ChunkSize,
         NEW c \in Nat, c = IF tail.num = lo THEN tail.cnt ELSE 0,
         lo * ChunkSize + c <= End(hi)
  PROVE  Recover(tail) =
           [size |-> End(hi) - (lo * ChunkSize + c),
            tail |-> [num |-> lo, cnt |-> c],
            head |-> IF Len(chunk[hi]) = ChunkSize THEN [num |-> hi + 1, pos |-> 0]
                     ELSE [num |-> hi, pos |-> Len(chunk[hi])]]
<1>1. DOMAIN chunk = lo .. hi /\ lo \in Nat /\ hi \in Nat /\ lo <= hi BY Bounds
<1>2. Min(DOMAIN chunk) = lo BY <1>1 DEF Min
<1>3. Max(DOMAIN chunk) = hi BY <1>1 DEF Max
<1>4. DOMAIN chunk # {} BY <1>1, Bounds
<1>5. (IF tail.num \in DOMAIN chunk THEN tail
       ELSE [num |-> Min(DOMAIN chunk), cnt |-> 0]) = [num |-> lo, cnt |-> c]
  BY <1>1, <1>2
<1>6. Counted([num |-> lo, cnt |-> c]) = End(hi) - (lo * ChunkSize + c)
  <2>1. c \in 0 .. ChunkSize BY Size
  <2>2. lo * ChunkSize + c \in Nat BY Bounds
  <2> QED BY <2>1, <2>2, AllAfter DEF Counted
<1>7. HeadAfter(hi) = IF Len(chunk[hi]) = ChunkSize THEN [num |-> hi + 1, pos |-> 0]
                      ELSE [num |-> hi, pos |-> Len(chunk[hi])]
  <2>1. Len(chunk[hi]) \in Nat /\ Len(chunk[hi]) <= ChunkSize /\ ChunkSize \in Nat
    BY Bounds, ChunkIs, Size
  <2> QED BY <2>1 DEF HeadAfter
<1> QED BY <1>3, <1>4, <1>5, <1>6, <1>7 DEF Recover

LEMMA LoadInfoIs ==
  ASSUME InfoOK, info # Torn
  PROVE  LoadInfo = IF Clean THEN info.m ELSE Recover(SavedTail)
<1>1. CASE info = Missing BY <1>1 DEF Missing, LoadInfo, Clean, SavedTail
<1>2. CASE \E m \in Meta, c \in BOOLEAN : info = Saved(m, c)
  BY <1>2 DEF Saved, LoadInfo, Clean, SavedTail
<1> QED BY <1>1, <1>2 DEF InfoOK

LEMMA StandingIs ==
  ASSUME NEW lo, NEW hi, NEW o, Standing(lo, hi, o)
  PROVE  /\ lo * ChunkSize + Cnt(lo) \in Nat
         /\ Cnt(lo) \in 0 .. ChunkSize
         /\ lo * ChunkSize + Cnt(lo) <= End(hi)
         /\ lo * ChunkSize + Cnt(lo) + o \in 0 .. pushed
<1>1. Chunks(lo, hi, o) /\ Cnt(lo) \in Nat /\ Cnt(lo) < ChunkSize
      /\ lo * ChunkSize + Cnt(lo) <= End(hi)
  BY DEF Standing
<1>2. lo * ChunkSize \in Nat /\ End(hi) \in Nat /\ o \in Nat /\ pushed = End(hi) + o
  BY <1>1, Bounds, EndIs DEF Chunks, Files, End
<1> QED BY <1>1, <1>2, Size

LEMMA ItemsAre ==
  ASSUME NEW a, Owes(a)
  PROVE  Items = Rest(a) /\ a \in 0 .. pushed /\ pushed \in Nat
<1>1. CASE Empty /\ a = pushed
  <2>1. LoadInfo = Fresh
    <3>1. DOMAIN chunk = {} BY <1>1 DEF Empty
    <3> QED BY <1>1, <3>1 DEF Empty, Missing, LoadInfo, Recover
  <2>2. Owed(Fresh) = {}
    <3>1. DOMAIN chunk = {} BY <1>1 DEF Empty
    <3>2. RecordPlaces = {} BY <3>1 DEF RecordPlaces
    <3> QED BY <3>2 DEF Owed
  <2>3. Cardinality(Owed(Fresh)) = 0 BY <2>2, FS_EmptySet
  <2>4. Items = Between(Fresh) BY <1>1, <2>1 DEF Empty, Items, Missing
  <2>5. pushed \in Nat /\ a \in 0 .. pushed BY <1>1 DEF Empty
  <2>6. 1 .. 0 = {} /\ pushed - a = 0 BY <1>1, <2>5
  <2> QED BY <2>3, <2>4, <2>5, <2>6 DEF Between, Rest
<1>2. ASSUME NEW lo \in Nat, NEW hi \in Nat, NEW o \in Nat, Standing(lo, hi, o),
             a = lo * ChunkSize + Cnt(lo) + o
      PROVE  Items = Rest(a) /\ a \in 0 .. pushed /\ pushed \in Nat
  <2>1. Chunks(lo, hi, o) BY <1>2 DEF Standing
  <2>2. a \in 0 .. pushed BY <1>2, StandingIs
  <2>3. pushed \in Nat
    <3>1. pushed = End(hi) + o BY <2>1 DEF Chunks, Files, End
    <3> QED BY <2>1, <3>1, EndIs, Bounds
  <2>4. ASSUME NEW m, AtEnd(m), m.tail.num = lo, m.tail.cnt = Cnt(lo)
        PROVE  Between(m) = Rest(a)
    BY <1>2, <2>1, <2>4, BetweenIs, StandingIs
  <2>5. CASE up
    <3>1. Exact(mem, lo, hi) BY <1>2, <2>5 DEF Standing
    <3>2. AtEnd(mem) /\ mem.tail.num = lo /\ mem.tail.cnt = Cnt(lo)
      BY <2>1, <2>5, <3>1, HeadAtEnd DEF Exact, Cnt
    <3> QED BY <2>2, <2>3, <2>4, <2>5, <3>2 DEF Items
  <2>6. CASE ~up /\ Clean
    <3>1. Exact(info.m, lo, hi) BY <1>2, <2>6 DEF Standing
    <3>2. AtEnd(info.m) /\ info.m.tail.num = lo /\ info.m.tail.cnt = Cnt(lo)
      BY <2>1, <2>6, <3>1, HeadAtEnd DEF Exact, Cnt
    <3>3. info # Torn /\ info.file # "torn" BY <2>6 DEF Clean, Torn
    <3>4. LoadInfo = info.m BY <2>6, <3>3, LoadInfoIs DEF Owes
    <3> QED BY <2>2, <2>3, <2>4, <2>6, <3>2, <3>3, <3>4 DEF Items
  <2>7. CASE ~up /\ ~Clean
    <3>1. Cnt(lo) = IF SavedTail.num = lo THEN SavedTail.cnt ELSE 0 BY <2>7 DEF Cnt
    <3>2. Recover(SavedTail).tail = [num |-> lo, cnt |-> Cnt(lo)]
          /\ Recover(SavedTail).head =
               (IF Len(chunk[hi]) = ChunkSize THEN [num |-> hi + 1, pos |-> 0]
                ELSE [num |-> hi, pos |-> Len(chunk[hi])])
      <4>1. /\ SavedTail \in [num : Nat, cnt : Nat]
            /\ SavedTail.num <= lo /\ SavedTail.cnt < ChunkSize
            /\ Cnt(lo) \in Nat /\ lo * ChunkSize + Cnt(lo) <= End(hi)
        BY <1>2 DEF Standing
      <4>2. Recover(SavedTail) =
              [size |-> End(hi) - (lo * ChunkSize + Cnt(lo)),
               tail |-> [num |-> lo, cnt |-> Cnt(lo)],
               head |-> IF Len(chunk[hi]) = ChunkSize THEN [num |-> hi + 1, pos |-> 0]
                        ELSE [num |-> hi, pos |-> Len(chunk[hi])]]
        BY <2>1, <3>1, <4>1, RecoverIs
      <4> QED BY <4>2
    <3>3. AtEnd(Recover(SavedTail)) BY <2>1, <3>2, HeadAtEnd
    <3>4. Between(Recover(SavedTail)) = Rest(a) BY <2>4, <3>2, <3>3
    <3>5. CASE info = Torn BY <2>2, <2>3, <2>7, <3>4, <3>5 DEF Torn, Items, SavedTail
    <3>6. CASE info # Torn
      <4>1. LoadInfo = Recover(SavedTail) BY <2>7, <3>6, LoadInfoIs DEF Owes
      <4>2. info.file # "torn" BY <3>6 DEF Owes, InfoOK, Missing, Torn, Saved
      <4> QED BY <2>2, <2>3, <2>7, <3>4, <4>1, <4>2 DEF Items
    <3> QED BY <3>5, <3>6
  <2> QED BY <2>2, <2>3, <2>5, <2>6, <2>7
<1> QED BY <1>1, <1>2 DEF Owes

-------------------------------------------------------------------------------
(* How the operations change the files. *)

\* A record is written to the last chunk, which is not full.
LEMMA FilesWritten ==
  ASSUME NEW lo, NEW hi, NEW o, Chunks(lo, hi, o), Len(chunk[hi]) < ChunkSize,
         mem.head.num = hi
  PROVE  /\ Files(Written, pushed + 1, lo, hi, o)
         /\ EndOf(Written, hi) = End(hi) + 1
         /\ Len(Written[hi]) = Len(chunk[hi]) + 1
<1>1. DOMAIN Written = lo .. hi BY Bounds DEF Written
<1>2. chunk[hi] \in Seq(Nat) /\ pushed = End(hi) + o BY Bounds DEF Chunks, Files, End
<1>3. pushed \in Nat BY <1>2, Bounds, EndIs
<1>4. Written[hi] = Append(chunk[hi], pushed + 1) BY Bounds DEF Written
<1>5. Written[hi] \in Seq(Nat) /\ Len(Written[hi]) = Len(chunk[hi]) + 1
  BY <1>2, <1>3, <1>4
<1>6. EndOf(Written, hi) = End(hi) + 1
  <2>1. Len(chunk[hi]) \in Nat /\ hi * ChunkSize \in Nat BY Bounds, ChunkIs
  <2> QED BY <1>5, <2>1 DEF EndOf, End
<1>7. ASSUME NEW i \in 1 .. Len(Written[hi])
      PROVE Written[hi][i] = hi * ChunkSize + i + o
  <2>1. Len(chunk[hi]) \in Nat /\ hi * ChunkSize \in Nat /\ o \in Nat BY Bounds, ChunkIs
  <2>2. CASE i = Len(chunk[hi]) + 1
    <3>1. Written[hi][i] = pushed + 1 BY <1>2, <1>4, <2>1, <2>2
    <3>2. End(hi) = hi * ChunkSize + Len(chunk[hi]) BY DEF End, EndOf
    <3>3. pushed + 1 = hi * ChunkSize + (Len(chunk[hi]) + 1) + o BY <1>2, <2>1, <3>2
    <3> QED BY <2>2, <3>1, <3>3
  <2>3. CASE i # Len(chunk[hi]) + 1
    <3>1. i \in 1 .. Len(chunk[hi]) BY <1>5, <2>1, <2>3
    <3>2. Written[hi][i] = chunk[hi][i] BY <1>2, <1>4, <2>1, <3>1
    <3> QED BY <3>1, <3>2, Bounds DEF Chunks, Files
  <2> QED BY <2>2, <2>3
<1>8. Len(Written[hi]) <= ChunkSize
  <2>1. Len(chunk[hi]) \in Nat BY Bounds, ChunkIs
  <2> QED BY <1>5, <2>1, Size
<1>9. ASSUME NEW n \in lo .. hi, n # hi PROVE Written[n] = chunk[n] /\ n < hi
  BY <1>9, Bounds DEF Written
<1>10. pushed + 1 = EndOf(Written, hi) + o BY <1>2, <1>6, Bounds, EndIs
<1>11. ASSUME NEW n \in lo .. hi
       PROVE /\ Written[n] \in Seq(Nat)
             /\ Len(Written[n]) <= ChunkSize
             /\ n < hi => Len(Written[n]) = ChunkSize
             /\ \A i \in 1 .. Len(Written[n]) : Written[n][i] = n * ChunkSize + i + o
  <2>1. CASE n = hi BY <1>5, <1>7, <1>8, <2>1, Bounds
  <2>2. CASE n # hi BY <1>9, <2>2 DEF Chunks, Files
  <2> QED BY <2>1, <2>2
<1> HIDE DEF Written
<1> QED BY <1>1, <1>5, <1>6, <1>10, <1>11, Bounds DEF Files

\* The last chunk is full, and the next one is opened.
LEMMA FilesOpened ==
  ASSUME NEW lo, NEW hi, NEW o, NEW ch, NEW count, Files(ch, count, lo, hi, o),
         Len(ch[hi]) = ChunkSize, NEW d, DOMAIN d = lo .. hi + 1,
         \A n \in lo .. hi : d[n] = ch[n], d[hi + 1] = <<>>
  PROVE  Files(d, count, lo, hi + 1, o) /\ EndOf(d, hi + 1) = EndOf(ch, hi)
<1>1. lo \in Nat /\ hi \in Nat /\ o \in Nat /\ lo <= hi /\ count = EndOf(ch, hi) + o
  BY DEF Files
<1>2. d[hi + 1] \in Seq(Nat) /\ Len(d[hi + 1]) = 0 OBVIOUS
<1>3. EndOf(d, hi + 1) = EndOf(ch, hi)
  <2>1. (hi + 1) * ChunkSize = hi * ChunkSize + ChunkSize BY <1>1, NextTimes
  <2>2. hi * ChunkSize \in Nat BY <1>1, Times
  <2> QED BY <1>2, <2>1, <2>2, Size DEF EndOf
<1>4. ASSUME NEW n \in lo .. hi + 1
      PROVE /\ d[n] \in Seq(Nat)
            /\ Len(d[n]) <= ChunkSize
            /\ n < hi + 1 => Len(d[n]) = ChunkSize
            /\ \A i \in 1 .. Len(d[n]) : d[n][i] = n * ChunkSize + i + o
  <2>1. CASE n = hi + 1
    <3>1. d[n] \in Seq(Nat) /\ Len(d[n]) = 0 BY <1>2, <2>1
    <3>2. ~(n < hi + 1) BY <1>1, <2>1
    <3>3. 1 .. Len(d[n]) = {} BY <3>1
    <3> QED BY <3>1, <3>2, <3>3, Size
  <2>2. CASE n = hi
    <3>1. n \in lo .. hi BY <1>1, <2>2
    <3>2. Len(d[n]) = ChunkSize BY <2>2, <3>1
    <3>3. d[n] = ch[n] BY <3>1
    <3>4. ch[n] \in Seq(Nat) /\ \A i \in 1 .. Len(ch[n]) : ch[n][i] = n * ChunkSize + i + o
      BY <3>1 DEF Files
    <3> QED BY <3>2, <3>3, <3>4, Size
  <2>3. CASE n < hi
    <3>1. n \in lo .. hi BY <1>1, <2>3
    <3>2. d[n] = ch[n] BY <3>1
    <3>3. /\ ch[n] \in Seq(Nat) /\ Len(ch[n]) <= ChunkSize /\ Len(ch[n]) = ChunkSize
          /\ \A i \in 1 .. Len(ch[n]) : ch[n][i] = n * ChunkSize + i + o
      BY <2>3, <3>1 DEF Files
    <3> QED BY <3>2, <3>3
  <2> QED BY <1>1, <2>1, <2>2, <2>3
<1>5. hi + 1 \in Nat /\ lo <= hi + 1 BY <1>1
<1> QED BY <1>1, <1>3, <1>4, <1>5 DEF Files

\* The first chunk is drained and deleted.
LEMMA FilesDrained ==
  ASSUME NEW lo, NEW hi, NEW o, Chunks(lo, hi, o), lo < hi,
         NEW d, d = Restrict(chunk, DOMAIN chunk \ {lo})
  PROVE  Files(d, pushed, lo + 1, hi, o) /\ EndOf(d, hi) = End(hi)
<1>1. DOMAIN d = lo + 1 .. hi BY Bounds DEF Restrict
<1>2. \A n \in lo + 1 .. hi : n \in lo .. hi /\ d[n] = chunk[n] BY Bounds DEF Restrict
<1>3. EndOf(d, hi) = End(hi)
  <2>1. hi \in lo + 1 .. hi BY Bounds
  <2> QED BY <1>2, <2>1 DEF EndOf, End
<1>4. ASSUME NEW n \in lo + 1 .. hi
      PROVE /\ d[n] \in Seq(Nat)
            /\ Len(d[n]) <= ChunkSize
            /\ n < hi => Len(d[n]) = ChunkSize
            /\ \A i \in 1 .. Len(d[n]) : d[n][i] = n * ChunkSize + i + o
  <2>1. n \in lo .. hi /\ d[n] = chunk[n] BY <1>2
  <2>2. /\ chunk[n] \in Seq(Nat)
        /\ Len(chunk[n]) <= ChunkSize
        /\ n < hi => Len(chunk[n]) = ChunkSize
        /\ \A i \in 1 .. Len(chunk[n]) : chunk[n][i] = n * ChunkSize + i + o
    BY <2>1 DEF Chunks, Files
  <2> QED BY <2>1, <2>2
<1>5. lo + 1 \in Nat /\ lo + 1 <= hi /\ hi \in Nat /\ o \in Nat BY Bounds
<1>6. pushed = End(hi) + o BY DEF Chunks, Files, End
<1> QED BY <1>1, <1>3, <1>4, <1>5, <1>6 DEF Files

\* The same chunks, however they are written down.
LEMMA FilesSame ==
  ASSUME NEW lo, NEW hi, NEW o, Chunks(lo, hi, o),
         NEW d, DOMAIN d = lo .. hi, \A n \in lo .. hi : d[n] = chunk[n]
  PROVE  Files(d, pushed, lo, hi, o) /\ EndOf(d, hi) = End(hi)
<1>1. EndOf(d, hi) = End(hi) BY Bounds DEF EndOf, End
<1>2. pushed = End(hi) + o BY DEF Chunks, Files, End
<1>3. \A n \in lo .. hi :
        /\ d[n] \in Seq(Nat)
        /\ Len(d[n]) <= ChunkSize
        /\ n < hi => Len(d[n]) = ChunkSize
        /\ \A i \in 1 .. Len(d[n]) : d[n][i] = n * ChunkSize + i + o
  BY DEF Chunks, Files
<1> QED BY <1>1, <1>2, <1>3, Bounds DEF Files

-------------------------------------------------------------------------------
(* Each operation keeps the invariant; the place only goes back in a kill. *)

LEMMA InitOwes == ASSUME Init PROVE Owes(0)
BY DEF Init, Owes, Empty, InfoOK

\* Metadata that describe the files are those of a queue that stands there.
LEMMA OpensAt ==
  ASSUME NEW a, Owes(a), NEW lo, NEW hi, NEW o,
         up' = TRUE, info' = info, pushed' = pushed,
         Files(chunk', pushed', lo, hi, o), Exact(mem, lo, hi)',
         lo * ChunkSize + mem'.tail.cnt <= EndOf(chunk', hi),
         SavedTail \in [num : Nat, cnt : Nat],
         SavedTail.num <= lo, SavedTail.cnt < ChunkSize,
         SavedTail.num = lo => SavedTail.cnt <= mem'.tail.cnt,
         a = lo * ChunkSize + mem'.tail.cnt + o
  PROVE  Owes(a)'
<1>1. Cnt(lo)' = mem'.tail.cnt BY DEF Cnt
<1>2. SavedTail' = SavedTail BY DEF SavedTail
<1>3. mem'.tail.cnt \in Nat /\ mem'.tail.cnt < ChunkSize BY DEF Exact, Meta
<1>4. Chunks(lo, hi, o)' BY DEF Chunks
<1>5. lo \in Nat /\ hi \in Nat /\ o \in Nat BY DEF Files
<1>6. Standing(lo, hi, o)' BY <1>1, <1>2, <1>3, <1>4 DEF Standing, End
<1>7. InfoOK' BY DEF Owes, InfoOK
<1> QED BY <1>1, <1>5, <1>6, <1>7 DEF Owes

LEMMA OpenOwes == ASSUME NEW a, Owes(a), Open PROVE Owes(a)'
<1> USE DEF Open
<1>1. LoadInfo = IF Clean THEN info.m ELSE Recover(SavedTail)
  BY LoadInfoIs DEF Owes, Torn
<1>2. CASE Empty /\ a = pushed
  <2>1. DOMAIN chunk = {} /\ info = Missing /\ pushed \in Nat BY <1>2 DEF Empty
  <2>2. LoadInfo = Fresh /\ SavedTail = Fresh.tail
    BY <2>1 DEF LoadInfo, Recover, Missing, SavedTail
  <2>3. DOMAIN chunk' = 0 .. 0 /\ chunk'[0] = <<>> BY <2>1, <2>2 DEF WithHead, Fresh
  <2>4. Len(chunk'[0]) = 0 /\ chunk'[0] \in Seq(Nat) BY <2>3
  <2>5. EndOf(chunk', 0) = 0 BY <2>4, Size DEF EndOf
  <2>6. Files(chunk', pushed', 0, 0, pushed)
    <3>1. ASSUME NEW n \in 0 .. 0
          PROVE /\ chunk'[n] \in Seq(Nat)
                /\ Len(chunk'[n]) <= ChunkSize
                /\ n < 0 => Len(chunk'[n]) = ChunkSize
                /\ \A i \in 1 .. Len(chunk'[n]) : chunk'[n][i] = n * ChunkSize + i + pushed
      <4>1. n = 0 OBVIOUS
      <4>2. 1 .. Len(chunk'[n]) = {} BY <2>4, <4>1
      <4> QED BY <2>4, <4>1, <4>2, Size
    <3>2. pushed' = 0 + pushed BY <2>1
    <3> HIDE DEF Open
    <3> QED BY <2>1, <2>3, <2>5, <3>1, <3>2 DEF Files
  <2>7. Exact(mem, 0, 0)'
    BY <2>2, <2>3, <2>4, <2>5, Size DEF Exact, Fresh, Meta, End
  <2>8. mem'.tail.cnt = 0 /\ SavedTail = [num |-> 0, cnt |-> 0] BY <2>2 DEF Fresh
  <2>9. a = 0 * ChunkSize + mem'.tail.cnt + pushed BY <1>2, <2>1, <2>8, Size
  <2>10. 0 * ChunkSize + mem'.tail.cnt <= EndOf(chunk', 0) BY <2>5, <2>8, Size
  <2>11. SavedTail \in [num : Nat, cnt : Nat] /\ SavedTail.num = 0 /\ SavedTail.cnt = 0
    BY <2>8
  <2> HIDE DEF Open
  <2> QED BY <2>6, <2>7, <2>8, <2>9, <2>10, <2>11, OpensAt, Size DEF Open
<1>3. ASSUME NEW lo \in Nat, NEW hi \in Nat, NEW o \in Nat, Standing(lo, hi, o),
             a = lo * ChunkSize + Cnt(lo) + o
      PROVE  Owes(a)'
  <2>1. Chunks(lo, hi, o) /\ Cnt(lo) \in Nat /\ Cnt(lo) < ChunkSize
        /\ lo * ChunkSize + Cnt(lo) <= End(hi)
    BY <1>3 DEF Standing
  <2>2. SavedTail \in [num : Nat, cnt : Nat] /\ SavedTail.num <= lo
        /\ SavedTail.cnt < ChunkSize /\ (SavedTail.num = lo => SavedTail.cnt <= Cnt(lo))
    BY <1>3 DEF Standing
  <2>3. Len(chunk[hi]) \in Nat /\ Len(chunk[hi]) <= ChunkSize BY <2>1, Bounds, ChunkIs
  <2>4. CASE LoadInfo.head.num = hi /\ Exact(LoadInfo, lo, hi) /\ LoadInfo.tail.cnt = Cnt(lo)
    <3>1. DOMAIN chunk' = lo .. hi /\ \A n \in lo .. hi : chunk'[n] = chunk[n]
      BY <2>1, <2>4, Bounds DEF WithHead
    <3>2. Files(chunk', pushed', lo, hi, o) /\ EndOf(chunk', hi) = End(hi)
      BY <2>1, <3>1, FilesSame
    <3>3. Len(chunk'[hi]) = Len(chunk[hi]) BY <2>1, <3>1, Bounds
    <3>4. Exact(mem, lo, hi)' BY <2>4, <3>2, <3>3 DEF Exact, End
    <3>5. mem'.tail.cnt = Cnt(lo) BY <2>4
    <3> HIDE DEF Open
    <3> QED BY <1>3, <2>1, <2>2, <3>2, <3>4, <3>5, OpensAt DEF Open
  <2>5. CASE Clean
    <3>1. Exact(info.m, lo, hi) /\ Cnt(lo) = info.m.tail.cnt
      BY <1>3, <2>5 DEF Standing, Cnt
    <3> QED BY <1>1, <2>4, <2>5, <3>1 DEF Exact
  <2>6. CASE ~Clean
    <3>1. Cnt(lo) = IF SavedTail.num = lo THEN SavedTail.cnt ELSE 0 BY <2>6 DEF Cnt
    <3>2. LoadInfo = [size |-> End(hi) - (lo * ChunkSize + Cnt(lo)),
                      tail |-> [num |-> lo, cnt |-> Cnt(lo)],
                      head |-> IF Len(chunk[hi]) = ChunkSize
                               THEN [num |-> hi + 1, pos |-> 0]
                               ELSE [num |-> hi, pos |-> Len(chunk[hi])]]
      BY <1>1, <2>1, <2>2, <2>6, <3>1, RecoverIs
    <3>3. End(hi) - (lo * ChunkSize + Cnt(lo)) \in Nat
      BY <2>1, Bounds, EndIs
    <3>4. CASE Len(chunk[hi]) # ChunkSize
      <4>1. LoadInfo \in Meta BY <2>1, <2>3, <3>2, <3>3, <3>4 DEF Meta
      <4>2. Len(chunk[hi]) < ChunkSize BY <2>3, <3>4, Size
      <4>3. Exact(LoadInfo, lo, hi) BY <2>1, <3>2, <3>4, <4>1, <4>2 DEF Exact
      <4> QED BY <2>4, <3>2, <3>4, <4>3
    <3>5. CASE Len(chunk[hi]) = ChunkSize
      <4>1. LoadInfo.head = [num |-> hi + 1, pos |-> 0]
            /\ LoadInfo.tail = [num |-> lo, cnt |-> Cnt(lo)]
            /\ LoadInfo.size = End(hi) - (lo * ChunkSize + Cnt(lo))
        BY <3>2, <3>5
      <4>2. LoadInfo \in Meta BY <2>1, <3>2, <3>3, <3>5 DEF Meta
      <4>3. DOMAIN chunk' = lo .. hi + 1 BY <2>1, <4>1, Bounds DEF WithHead
      <4>4. (\A n \in lo .. hi : chunk'[n] = chunk[n]) /\ chunk'[hi + 1] = <<>>
        BY <2>1, <4>1, Bounds DEF WithHead
      <4>5. Files(chunk, pushed, lo, hi, o) BY <2>1 DEF Chunks
      <4>6. Files(chunk', pushed', lo, hi + 1, o) /\ EndOf(chunk', hi + 1) = End(hi)
        <5> HIDE DEF Open
        <5>1. pushed' = pushed BY DEF Open
        <5> QED BY <3>5, <4>3, <4>4, <4>5, <5>1, FilesOpened DEF End
      <4>7. Len(chunk'[hi + 1]) = 0 BY <4>4
      <4>8. Exact(mem, lo, hi + 1)'
        BY <2>1, <4>1, <4>2, <4>6, <4>7, Size DEF Exact, End
      <4>9. mem'.tail.cnt = Cnt(lo) BY <4>1
      <4> HIDE DEF Open
      <4> QED BY <1>3, <2>1, <2>2, <4>6, <4>8, <4>9, OpensAt DEF Open
    <3> QED BY <3>4, <3>5
  <2> QED BY <2>5, <2>6
<1> QED BY <1>2, <1>3 DEF Owes

\* An open queue: where it stands, and that nothing is missing.
LEMMA UpStands ==
  ASSUME NEW a, Owes(a), up
  PROVE  \E lo, hi, o \in Nat :
           /\ Standing(lo, hi, o) /\ a = lo * ChunkSize + mem.tail.cnt + o
           /\ Chunks(lo, hi, o) /\ Exact(mem, lo, hi)
           /\ lo * ChunkSize + mem.tail.cnt <= End(hi)
           /\ SavedTail \in [num : Nat, cnt : Nat]
           /\ SavedTail.num <= lo /\ SavedTail.cnt < ChunkSize
           /\ SavedTail.num = lo => SavedTail.cnt <= mem.tail.cnt
<1>1. PICK lo \in Nat, hi \in Nat, o \in Nat :
        Standing(lo, hi, o) /\ a = lo * ChunkSize + Cnt(lo) + o
  BY DEF Owes, Empty
<1>2. Cnt(lo) = mem.tail.cnt BY DEF Cnt
<1> QED BY <1>1, <1>2 DEF Standing

LEMMA PushOwes == ASSUME NEW a, Owes(a), Push PROVE Owes(a)'
<1>1. PICK lo \in Nat, hi \in Nat, o \in Nat :
        /\ Chunks(lo, hi, o) /\ Exact(mem, lo, hi)
        /\ a = lo * ChunkSize + mem.tail.cnt + o
        /\ lo * ChunkSize + mem.tail.cnt <= End(hi)
        /\ SavedTail \in [num : Nat, cnt : Nat]
        /\ SavedTail.num <= lo /\ SavedTail.cnt < ChunkSize
        /\ SavedTail.num = lo => SavedTail.cnt <= mem.tail.cnt
  BY UpStands DEF Push
<1>2. Len(chunk[hi]) \in Nat /\ mem.head.pos = Len(chunk[hi]) /\ mem.head.num = hi
      /\ Len(chunk[hi]) < ChunkSize
  BY <1>1, Bounds, ChunkIs DEF Exact
<1>3. Files(Written, pushed + 1, lo, hi, o) /\ EndOf(Written, hi) = End(hi) + 1
      /\ Len(Written[hi]) = Len(chunk[hi]) + 1
  BY <1>1, <1>2, FilesWritten
<1>4. mem \in Meta /\ mem.tail.num = lo /\ mem.tail.cnt < ChunkSize
      /\ mem.size = End(hi) - (lo * ChunkSize + mem.tail.cnt)
  BY <1>1 DEF Exact
<1>5. up' = TRUE /\ info' = info /\ pushed' = pushed + 1 BY DEF Push, Owes
<1>6. InfoOK' BY <1>5 DEF Owes, InfoOK
<1>7. SavedTail' = SavedTail BY <1>5 DEF SavedTail
<1>8. mem'.tail = mem.tail /\ mem'.size = mem.size + 1 /\ mem.tail \in [num : Nat, cnt : Nat]
      /\ mem.size \in Nat
  BY <1>4 DEF Push, Meta
<1>9. Cnt(lo)' = mem.tail.cnt BY <1>5, <1>8 DEF Cnt
<1>10. lo * ChunkSize \in Nat /\ End(hi) \in Nat BY <1>1, Bounds, EndIs
<1>11. ASSUME NEW h \in Nat, Files(chunk', pushed', lo, h, o),
              EndOf(chunk', h) = End(hi) + 1,
              mem'.head = [num |-> h, pos |-> Len(chunk'[h])],
              Len(chunk'[h]) \in Nat, Len(chunk'[h]) < ChunkSize
       PROVE  Owes(a)'
  <2>1. mem' \in Meta
    <3>1. mem' = [mem EXCEPT !.size = mem'.size, !.head = mem'.head]
      BY <1>4 DEF Push, Meta
    <3> QED BY <1>4, <1>8, <1>11, <3>1 DEF Meta
  <2>2. mem'.size = End(hi) + 1 - (lo * ChunkSize + mem'.tail.cnt)
    BY <1>4, <1>8, <1>10
  <2>3. Exact(mem, lo, h)'
    <3>0. EndOf(chunk', h) = End(hi) + 1 BY <1>11
    <3>1. mem'.size = EndOf(chunk', h) - (lo * ChunkSize + mem'.tail.cnt)
      BY <1>8, <1>10, <2>2, <3>0
    <3>2. mem'.head.num = h /\ mem'.head.pos = Len(chunk'[h]) /\ mem'.head.pos < ChunkSize
      BY <1>11
    <3>3. mem'.tail.num = lo /\ mem'.tail.cnt < ChunkSize BY <1>4, <1>8
    <3> QED BY <2>1, <2>2, <3>1, <3>2, <3>3 DEF Exact, End
  <2>4. Chunks(lo, h, o)' BY <1>11 DEF Chunks
  <2>5. lo * ChunkSize + Cnt(lo)' <= End(h)'
    <3>1. EndOf(chunk', h) = End(hi) + 1 BY <1>11
    <3>2. lo * ChunkSize + mem.tail.cnt <= End(hi) BY <1>1
    <3>3. mem.tail.cnt \in Nat BY <1>8
    <3>4. lo * ChunkSize + mem.tail.cnt <= EndOf(chunk', h) BY <1>10, <3>1, <3>2, <3>3
    <3>5. End(h)' = EndOf(chunk', h) BY DEF End
    <3> QED BY <1>9, <3>4, <3>5
  <2>6. Standing(lo, h, o)'
    BY <1>1, <1>4, <1>5, <1>7, <1>8, <1>9, <2>3, <2>4, <2>5 DEF Standing
  <2> QED BY <1>1, <1>5, <1>6, <1>9, <1>11, <2>6 DEF Owes
<1>12. CASE mem.head.pos + 1 = ChunkSize
  <2>1. mem'.head = [num |-> hi + 1, pos |-> 0] BY <1>2, <1>4, <1>12 DEF Push, Meta
  <2>2. chunk' = [n \in DOMAIN chunk \cup {hi + 1} |->
                    IF n \in DOMAIN chunk THEN Written[n] ELSE <<>>]
    BY <1>2, <1>12 DEF Push
  <2>3. DOMAIN chunk' = lo .. hi + 1 BY <1>1, <2>2, Bounds
  <2>4. \A n \in lo .. hi : chunk'[n] = Written[n] BY <1>1, <2>2, Bounds
  <2>5. chunk'[hi + 1] = <<>> BY <1>1, <2>2, Bounds
  <2>6. Len(Written[hi]) = ChunkSize BY <1>2, <1>3, <1>12
  <2>7. Files(chunk', pushed', lo, hi + 1, o) /\ EndOf(chunk', hi + 1) = End(hi) + 1
    BY <1>3, <1>5, <2>3, <2>4, <2>5, <2>6, FilesOpened
  <2>8. Len(chunk'[hi + 1]) = 0 BY <2>5
  <2> QED BY <1>11, <2>1, <2>7, <2>8, Size
<1>13. CASE mem.head.pos + 1 # ChunkSize
  <2>1. chunk' = Written BY <1>13 DEF Push
  <2>2. mem'.head = [num |-> hi, pos |-> Len(chunk[hi]) + 1]
    BY <1>2, <1>4, <1>13 DEF Push, Meta
  <2>3. Len(chunk[hi]) + 1 < ChunkSize BY <1>2, <1>13, Size
  <2> QED BY <1>2, <1>3, <1>5, <1>11, <2>1, <2>2, <2>3
<1> QED BY <1>12, <1>13

\* A pop hands out the record after the first a, and the queue owes one less.
LEMMA PopOwes ==
  ASSUME NEW a, Owes(a), Pop
  PROVE  Owes(a + 1)' /\ a < pushed /\ given' = Append(given, a + 1)
<1>1. PICK lo \in Nat, hi \in Nat, o \in Nat :
        /\ Chunks(lo, hi, o) /\ Exact(mem, lo, hi)
        /\ a = lo * ChunkSize + mem.tail.cnt + o
        /\ lo * ChunkSize + mem.tail.cnt <= End(hi)
        /\ SavedTail \in [num : Nat, cnt : Nat]
        /\ SavedTail.num <= lo /\ SavedTail.cnt < ChunkSize
        /\ SavedTail.num = lo => SavedTail.cnt <= mem.tail.cnt
  BY UpStands DEF Pop
<1>2. /\ mem \in Meta /\ mem.tail.num = lo /\ mem.tail.cnt < ChunkSize
      /\ mem.head.num = hi /\ mem.head.pos = Len(chunk[hi]) /\ mem.head.pos < ChunkSize
      /\ mem.size = End(hi) - (lo * ChunkSize + mem.tail.cnt)
  BY <1>1 DEF Exact
<1>3. mem.tail \in [num : Nat, cnt : Nat] /\ mem.size \in Nat /\ mem.head \in [num : Nat, pos : Nat]
  BY <1>2 DEF Meta
<1>4. lo * ChunkSize \in Nat /\ End(hi) \in Nat /\ pushed = End(hi) + o
  BY <1>1, Bounds, EndIs DEF Chunks, Files, End
<1>5. up' = TRUE /\ info' = info /\ pushed' = pushed BY DEF Pop, Owes
<1>6. InfoOK' BY <1>5 DEF Owes, InfoOK
<1>7. SavedTail' = SavedTail BY <1>5 DEF SavedTail
<1>8. Len(chunk[lo]) \in Nat /\ mem.tail.cnt < Len(chunk[lo]) /\ lo \in lo .. hi
  BY <1>1, <1>2, Bounds, ChunkIs DEF Pop
<1>9. given' = Append(given, a + 1)
  <2>1. mem.tail.cnt + 1 \in 1 .. Len(chunk[lo]) BY <1>3, <1>8
  <2>2. chunk[lo][mem.tail.cnt + 1] = lo * ChunkSize + (mem.tail.cnt + 1) + o
    BY <1>1, <1>8, <2>1 DEF Chunks, Files
  <2>3. lo * ChunkSize + (mem.tail.cnt + 1) + o = a + 1
    <3>1. a = lo * ChunkSize + mem.tail.cnt + o BY <1>1
    <3>2. mem.tail.cnt \in Nat BY <1>3
    <3> QED BY <1>4, <3>1, <3>2
  <2> QED BY <1>2, <2>2, <2>3 DEF Pop
<1>10. lo * ChunkSize + mem.tail.cnt + 1 <= End(hi)
  <2>1. CASE lo = hi
    <3>1. End(hi) = lo * ChunkSize + Len(chunk[lo]) BY <2>1 DEF End, EndOf
    <3>2. mem.tail.cnt \in Nat BY <1>3
    <3>3. mem.tail.cnt < Len(chunk[lo]) /\ Len(chunk[lo]) \in Nat BY <1>8
    <3>4. lo * ChunkSize \in Nat BY <1>4
    <3> QED BY <3>1, <3>2, <3>3, <3>4
  <2>2. CASE lo < hi
    <3>1. lo * ChunkSize + ChunkSize <= hi * ChunkSize BY <2>2, Monotone
    <3>2. hi * ChunkSize <= End(hi) /\ hi * ChunkSize \in Nat BY <1>1, EndIs, Bounds
    <3>3. mem.tail.cnt \in Nat /\ mem.tail.cnt + 1 <= ChunkSize BY <1>2, <1>3, Size
    <3> QED BY <1>4, <3>1, <3>2, <3>3, Size
  <2> QED BY <1>8, <2>1, <2>2
<1>11. a < pushed BY <1>1, <1>3, <1>4, <1>10
<1>12. mem'.size = mem.size - 1 /\ mem'.head = mem.head BY <1>2 DEF Pop, Meta
<1>13. mem'.size = End(hi) - (lo * ChunkSize + mem.tail.cnt + 1) /\ mem'.size \in Nat
  <2>1. mem.tail.cnt \in Nat BY <1>3
  <2>2. mem'.size = End(hi) - (lo * ChunkSize + mem.tail.cnt) - 1 BY <1>2, <1>12
  <2> QED BY <1>4, <1>10, <2>1, <2>2
<1>14. ASSUME NEW l \in Nat, NEW c \in Nat, mem'.tail = [num |-> l, cnt |-> c],
              c < ChunkSize, l * ChunkSize + c = lo * ChunkSize + mem.tail.cnt + 1,
              Files(chunk', pushed', l, hi, o), EndOf(chunk', hi) = End(hi),
              Len(chunk'[hi]) = Len(chunk[hi]),
              SavedTail.num <= l, SavedTail.num = l => SavedTail.cnt <= c
       PROVE  Owes(a + 1)'
  <2>1. mem' \in Meta
    <3>1. mem' = [size |-> mem'.size, tail |-> mem'.tail, head |-> mem'.head]
      BY <1>2 DEF Pop, Meta
    <3>2. mem'.tail \in [num : Nat, cnt : Nat] BY <1>14
    <3>3. mem'.size \in Nat /\ mem'.head \in [num : Nat, pos : Nat] BY <1>3, <1>12, <1>13
    <3> QED BY <3>1, <3>2, <3>3 DEF Meta
  <2>2. mem'.size = EndOf(chunk', hi) - (l * ChunkSize + mem'.tail.cnt)
    BY <1>13, <1>14
  <2>3. Exact(mem, l, hi)'
    <3>1. mem'.head.num = hi /\ mem'.head.pos = Len(chunk'[hi]) /\ mem'.head.pos < ChunkSize
      BY <1>2, <1>12, <1>14
    <3>2. mem'.tail.num = l /\ mem'.tail.cnt < ChunkSize BY <1>14
    <3> QED BY <2>1, <2>2, <3>1, <3>2 DEF Exact, End
  <2>4. Chunks(l, hi, o)' BY <1>14 DEF Chunks
  <2>5. Cnt(l)' = c BY <1>5, <1>14 DEF Cnt
  <2>6. l * ChunkSize + Cnt(l)' <= End(hi)' BY <1>10, <1>14, <2>5 DEF End
  <2>7. Standing(l, hi, o)'
    BY <1>1, <1>5, <1>7, <1>14, <2>3, <2>4, <2>5, <2>6 DEF Standing
  <2>8. a + 1 = l * ChunkSize + Cnt(l)' + o
    <3>1. a + 1 = lo * ChunkSize + mem.tail.cnt + 1 + o BY <1>1, <1>3, <1>4
    <3> QED BY <1>14, <2>5, <3>1
  <2> QED BY <1>1, <1>5, <1>6, <1>14, <2>7, <2>8 DEF Owes
<1>15. CASE mem.tail.cnt + 1 = ChunkSize
  <2>1. lo < hi
    <3>1. lo # hi BY <1>2, <1>3, <1>8, <1>15, Size
    <3> QED BY <1>8, <3>1
  <2>2. mem'.tail = [num |-> lo + 1, cnt |-> 0] BY <1>2, <1>15 DEF Pop, Meta
  <2>3. chunk' = Restrict(chunk, DOMAIN chunk \ {lo}) BY <1>2, <1>15 DEF Pop
  <2>4. Files(chunk', pushed', lo + 1, hi, o) /\ EndOf(chunk', hi) = End(hi)
    BY <1>1, <1>5, <2>1, <2>3, FilesDrained
  <2>5. Len(chunk'[hi]) = Len(chunk[hi]) BY <1>1, <2>1, <2>3, Bounds DEF Restrict
  <2>6. (lo + 1) * ChunkSize + 0 = lo * ChunkSize + mem.tail.cnt + 1
    <3>1. (lo + 1) * ChunkSize = lo * ChunkSize + ChunkSize BY NextTimes
    <3>2. mem.tail.cnt \in Nat BY <1>3
    <3> QED BY <1>4, <1>15, <3>1, <3>2
  <2>7. SavedTail.num <= lo + 1 /\ SavedTail.num # lo + 1 BY <1>1
  <2>8. Owes(a + 1)' BY <1>14, <2>2, <2>4, <2>5, <2>6, <2>7, Size
  <2> QED BY <1>9, <1>11, <2>8
<1>16. CASE mem.tail.cnt + 1 # ChunkSize
  <2>1. mem'.tail = [num |-> lo, cnt |-> mem.tail.cnt + 1] BY <1>2, <1>16 DEF Pop, Meta
  <2>2. chunk' = chunk BY <1>16 DEF Pop
  <2>3. Files(chunk', pushed', lo, hi, o) /\ EndOf(chunk', hi) = End(hi)
    BY <1>1, <1>5, <2>2 DEF Chunks, End
  <2>4. mem.tail.cnt + 1 \in Nat /\ mem.tail.cnt + 1 < ChunkSize BY <1>2, <1>3, <1>16, Size
  <2>5. SavedTail.num = lo => SavedTail.cnt <= mem.tail.cnt + 1 BY <1>1, <1>3
  <2>6. lo * ChunkSize + (mem.tail.cnt + 1) = lo * ChunkSize + mem.tail.cnt + 1
    BY <1>3, <1>4
  <2>7. Owes(a + 1)' BY <1>1, <1>14, <2>1, <2>2, <2>3, <2>4, <2>5, <2>6
  <2> QED BY <1>9, <1>11, <2>7
<1> QED BY <1>15, <1>16

LEMMA SaveInfoOwes == ASSUME NEW a, Owes(a), SaveInfo PROVE Owes(a)'
<1>1. PICK lo \in Nat, hi \in Nat, o \in Nat :
        /\ Chunks(lo, hi, o) /\ Exact(mem, lo, hi)
        /\ a = lo * ChunkSize + mem.tail.cnt + o
        /\ lo * ChunkSize + mem.tail.cnt <= End(hi)
  BY UpStands DEF SaveInfo
<1>2. mem \in Meta /\ mem.tail.num = lo /\ mem.tail.cnt < ChunkSize
      /\ mem.tail \in [num : Nat, cnt : Nat]
  BY <1>1 DEF Exact, Meta
<1>3. info' = Saved(mem, FALSE) /\ up' = TRUE BY DEF SaveInfo, Owes
<1>4. InfoOK' BY <1>2, <1>3 DEF InfoOK
<1>5. SavedTail' = mem.tail BY <1>3 DEF SavedTail, Saved
<1>6. Cnt(lo)' = mem.tail.cnt BY <1>3 DEF Cnt, SaveInfo
<1>7. Chunks(lo, hi, o)' /\ End(hi)' = End(hi) /\ Exact(mem, lo, hi)'
  BY <1>1 DEF Chunks, End, Exact, SaveInfo
<1>8. Standing(lo, hi, o)'
  BY <1>1, <1>2, <1>3, <1>5, <1>6, <1>7 DEF Standing
<1> QED BY <1>1, <1>3, <1>4, <1>6, <1>8 DEF Owes

\* A closed queue owes what it owed; an empty one has no files any more.
LEMMA CloseOwes == ASSUME NEW a, Owes(a), Close PROVE Owes(a)'
<1>1. PICK lo \in Nat, hi \in Nat, o \in Nat :
        /\ Chunks(lo, hi, o) /\ Exact(mem, lo, hi)
        /\ a = lo * ChunkSize + mem.tail.cnt + o
        /\ lo * ChunkSize + mem.tail.cnt <= End(hi)
  BY UpStands DEF Close
<1>2. /\ mem \in Meta /\ mem.tail.num = lo /\ mem.tail.cnt < ChunkSize
      /\ mem.tail \in [num : Nat, cnt : Nat]
      /\ mem.size = End(hi) - (lo * ChunkSize + mem.tail.cnt)
  BY <1>1 DEF Exact, Meta
<1>3. lo * ChunkSize \in Nat /\ End(hi) \in Nat /\ pushed = End(hi) + o
  BY <1>1, Bounds, EndIs DEF Chunks, Files, End
<1>4. up' = FALSE /\ pushed' = pushed BY DEF Close
<1>5. CASE mem.size = 0
  <2>1. info' = Missing /\ chunk' = <<>> BY <1>5 DEF Close
  <2>2. a = pushed BY <1>1, <1>2, <1>3, <1>5
  <2>3. pushed \in Nat BY <1>3
  <2>4. Empty' BY <1>4, <2>1, <2>3 DEF Empty
  <2>5. InfoOK' BY <2>1 DEF InfoOK
  <2> QED BY <1>4, <2>2, <2>4, <2>5 DEF Owes
<1>6. CASE mem.size # 0
  <2>1. info' = Saved(mem, TRUE) /\ chunk' = chunk BY <1>6 DEF Close
  <2>2. InfoOK' BY <1>2, <2>1 DEF InfoOK
  <2>3. SavedTail' = mem.tail BY <2>1 DEF SavedTail, Saved
  <2>4. Clean' /\ info'.m = mem BY <2>1 DEF Clean, Saved
  <2>5. Cnt(lo)' = mem.tail.cnt BY <1>4, <2>4 DEF Cnt
  <2>6. Chunks(lo, hi, o)' /\ End(hi)' = End(hi) BY <1>1, <1>4, <2>1 DEF Chunks, End
  <2>7. Exact(info.m, lo, hi)' BY <1>1, <2>1, <2>4 DEF Exact, End
  <2>8. Standing(lo, hi, o)'
    BY <1>1, <1>2, <1>4, <2>3, <2>5, <2>6, <2>7 DEF Standing
  <2> QED BY <1>1, <1>4, <2>2, <2>5, <2>8 DEF Owes
<1> QED BY <1>5, <1>6

\* A process that dies leaves the queue at an earlier place, or where it was.
LEMMA Killed ==
  ASSUME NEW a, Owes(a), up, Die, InfoOK', ~Clean',
         pushed' \in {pushed, pushed + 1},
         chunk' = IF pushed' = pushed THEN chunk ELSE Written,
         SavedTail' = SavedTail \/ SavedTail' = [num |-> 0, cnt |-> 0]
  PROVE  \E b \in Nat : b <= a /\ Owes(b)'
<1>1. PICK lo \in Nat, hi \in Nat, o \in Nat :
        /\ Chunks(lo, hi, o) /\ Exact(mem, lo, hi)
        /\ a = lo * ChunkSize + mem.tail.cnt + o
        /\ lo * ChunkSize + mem.tail.cnt <= End(hi)
        /\ SavedTail \in [num : Nat, cnt : Nat]
        /\ SavedTail.num <= lo /\ SavedTail.cnt < ChunkSize
        /\ SavedTail.num = lo => SavedTail.cnt <= mem.tail.cnt
  BY UpStands
<1>2. /\ mem.tail.cnt \in Nat /\ mem.head.num = hi
      /\ Len(chunk[hi]) < ChunkSize
  BY <1>1 DEF Exact, Meta
<1>3. lo * ChunkSize \in Nat /\ End(hi) \in Nat /\ pushed = End(hi) + o
  BY <1>1, Bounds, EndIs DEF Chunks, Files, End
<1>4. Files(chunk', pushed', lo, hi, o) /\ EndOf(chunk', hi) >= End(hi)
  <2>1. CASE pushed' = pushed BY <1>1, <1>3, <2>1 DEF Chunks, End
  <2>2. CASE pushed' # pushed
    <3>1. pushed' = pushed + 1 /\ chunk' = Written BY <2>2
    <3>2. Files(Written, pushed + 1, lo, hi, o) /\ EndOf(Written, hi) = End(hi) + 1
      BY <1>1, <1>2, FilesWritten
    <3> QED BY <1>3, <3>1, <3>2
  <2> QED BY <2>1, <2>2
<1>5. /\ SavedTail' \in [num : Nat, cnt : Nat]
      /\ SavedTail'.num <= lo /\ SavedTail'.cnt < ChunkSize
      /\ SavedTail'.num = lo => SavedTail'.cnt <= mem.tail.cnt
  BY <1>1, <1>2, Size
<1>6. PICK c \in Nat : c = IF SavedTail'.num = lo THEN SavedTail'.cnt ELSE 0 BY <1>5
<1>7. c <= mem.tail.cnt /\ c < ChunkSize BY <1>2, <1>5, <1>6, Size
<1>8. up' = FALSE BY DEF Die
<1>9. Cnt(lo)' = c BY <1>6, <1>8 DEF Cnt
<1>10. EndOf(chunk', hi) \in Nat
  <2>1. Len(chunk'[hi]) \in Nat BY <1>1, <1>4 DEF Files
  <2>2. hi * ChunkSize \in Nat BY Times
  <2> QED BY <2>1, <2>2 DEF EndOf
<1>11. lo * ChunkSize + c <= EndOf(chunk', hi)
  <2>1. lo * ChunkSize + mem.tail.cnt <= End(hi) BY <1>1
  <2>2. mem.tail.cnt \in Nat /\ c <= mem.tail.cnt BY <1>2, <1>7
  <2>3. EndOf(chunk', hi) >= End(hi) BY <1>4
  <2> QED BY <1>3, <1>10, <2>1, <2>2, <2>3
<1>12. SavedTail'.num = lo => SavedTail'.cnt <= Cnt(lo)' BY <1>6, <1>9, <1>5
<1>13. Standing(lo, hi, o)'
  BY <1>4, <1>5, <1>7, <1>8, <1>9, <1>11, <1>12 DEF Standing, Chunks, End
<1>14. Owes(lo * ChunkSize + c + o)' BY <1>8, <1>9, <1>13 DEF Owes
<1>15. lo * ChunkSize + c + o \in Nat /\ lo * ChunkSize + c + o <= a
  <2>1. a = lo * ChunkSize + mem.tail.cnt + o BY <1>1
  <2>2. c <= mem.tail.cnt /\ mem.tail.cnt \in Nat BY <1>2, <1>7
  <2>3. lo * ChunkSize \in Nat BY <1>3
  <2> QED BY <2>1, <2>2, <2>3
<1> QED BY <1>14, <1>15

LEMMA KillOwes ==
  ASSUME NEW a, Owes(a), ~EarlyKill, Kill \/ KillDuringPush \/ KillDuringSave
  PROVE  /\ \E b \in Nat : b <= a /\ Owes(b)'
         /\ pushed' \in {pushed, pushed + 1} /\ given' = given
         /\ pushed' # pushed => pushed < MaxRecord
<1>1. ASSUME MayDie, info' = info PROVE InfoOK' /\ ~Clean' /\ SavedTail' = SavedTail
  BY <1>1 DEF MayDie, Owes, InfoOK, Clean, SavedTail
<1>2. CASE Kill
  <2>1. up /\ Die /\ MayDie /\ info' = info /\ pushed' = pushed /\ chunk' = chunk /\ given' = given
    BY <1>2 DEF Kill, Die
  <2> QED BY <1>1, <2>1, Killed
<1>3. CASE KillDuringPush
  <2>1. up /\ Die /\ MayDie /\ info' = info /\ pushed < MaxRecord /\ given' = given
    BY <1>3 DEF KillDuringPush, Die
  <2>2. pushed \in Nat BY ItemsAre
  <2>3. \/ pushed' = pushed /\ chunk' = chunk
        \/ pushed' = pushed + 1 /\ chunk' = Written
    BY <1>3 DEF KillDuringPush
  <2>4. pushed' \in {pushed, pushed + 1}
        /\ chunk' = IF pushed' = pushed THEN chunk ELSE Written
    BY <2>2, <2>3
  <2> QED BY <1>1, <2>1, <2>4, Killed
<1>4. CASE KillDuringSave
  <2>1. up /\ Die /\ info' = Torn /\ pushed' = pushed /\ chunk' = chunk /\ given' = given
    BY <1>4 DEF KillDuringSave, Die
  <2>2. InfoOK' /\ ~Clean' /\ SavedTail' = [num |-> 0, cnt |-> 0]
    BY <2>1 DEF InfoOK, Clean, SavedTail, Torn, Fresh
  <2> QED BY <2>1, <2>2, Killed
<1> QED BY <1>2, <1>3, <1>4

-------------------------------------------------------------------------------
(* The refinement: the requests from place a to place n. *)

Segment(a, n) == [k \in 1 .. n - a |-> a + k]

LEMMA SegmentIs ==
  ASSUME NEW a \in Nat, NEW n \in Nat, a <= n
  PROVE  /\ Segment(a, n) \in Seq(Nat)
         /\ Len(Segment(a, n)) = n - a
         /\ \A k \in 1 .. n - a : Segment(a, n)[k] = a + k
         /\ DOMAIN Segment(a, n) = 1 .. n - a
<1>1. n - a \in Nat OBVIOUS
<1>2. \A k \in 1 .. n - a : a + k \in Nat OBVIOUS
<1>3. Segment(a, n) \in [1 .. n - a -> Nat] BY <1>2 DEF Segment
<1>4. Segment(a, n) \in Seq(Nat) BY <1>1, <1>3
<1>5. DOMAIN Segment(a, n) = 1 .. n - a /\ \A k \in 1 .. n - a : Segment(a, n)[k] = a + k
  BY DEF Segment
<1>6. Len(Segment(a, n)) = n - a
  BY <1>1, <1>4, <1>5
<1> QED BY <1>4, <1>5, <1>6

LEMMA SegmentAppend ==
  ASSUME NEW a \in Nat, NEW n \in Nat, a <= n
  PROVE  Segment(a, n + 1) = Append(Segment(a, n), n + 1)
<1> DEFINE s == Segment(a, n) t == Segment(a, n + 1)
<1>1. s \in Seq(Nat) /\ Len(s) = n - a /\ \A k \in 1 .. n - a : s[k] = a + k BY SegmentIs
<1>2. t \in Seq(Nat) /\ Len(t) = n + 1 - a /\ \A k \in 1 .. n + 1 - a : t[k] = a + k
  BY SegmentIs
<1> HIDE DEF s, t
<1>3. Append(s, n + 1) \in Seq(Nat) /\ Len(Append(s, n + 1)) = n + 1 - a BY <1>1
<1>4. ASSUME NEW k \in 1 .. n + 1 - a PROVE Append(s, n + 1)[k] = t[k]
  <2>1. CASE k = n + 1 - a BY <1>1, <1>2, <2>1
  <2>2. CASE k # n + 1 - a
    <3>1. k \in 1 .. n - a BY <2>2
    <3> QED BY <1>1, <1>2, <3>1
  <2> QED BY <2>1, <2>2
<1>5. PICK u \in Seq(Nat) : u = Append(s, n + 1) BY <1>3
<1>6. Len(u) = Len(t) /\ \A k \in 1 .. Len(t) : u[k] = t[k] BY <1>2, <1>3, <1>4, <1>5
<1>7. t = u BY <1>2, <1>6
<1> QED BY <1>5, <1>7 DEF s, t

LEMMA SegmentTail ==
  ASSUME NEW a \in Nat, NEW n \in Nat, a < n
  PROVE  /\ Segment(a, n) # <<>>
         /\ Head(Segment(a, n)) = a + 1
         /\ Tail(Segment(a, n)) = Segment(a + 1, n)
<1> DEFINE s == Segment(a, n) t == Segment(a + 1, n)
<1>1. s \in Seq(Nat) /\ Len(s) = n - a /\ \A k \in 1 .. n - a : s[k] = a + k BY SegmentIs
<1>2. t \in Seq(Nat) /\ Len(t) = n - (a + 1) /\ \A k \in 1 .. n - (a + 1) : t[k] = a + 1 + k
  BY SegmentIs
<1> HIDE DEF s, t
<1>3. s # <<>> /\ Head(s) = a + 1 BY <1>1
<1>4. Tail(s) \in Seq(Nat) /\ Len(Tail(s)) = n - (a + 1) BY <1>1, <1>3
<1>5. ASSUME NEW k \in 1 .. n - (a + 1) PROVE Tail(s)[k] = t[k]
  <2>1. k + 1 \in 1 .. n - a OBVIOUS
  <2>2. Tail(s)[k] = s[k + 1] BY <1>1, <1>3, <1>4
  <2> QED BY <1>1, <1>2, <2>1, <2>2
<1>6. PICK u \in Seq(Nat) : u = Tail(s) BY <1>4
<1>7. Len(u) = n - (a + 1) /\ \A k \in 1 .. n - (a + 1) : u[k] = t[k] BY <1>4, <1>5, <1>6
<1>8. u = t BY <1>2, <1>7
<1> QED BY <1>3, <1>6, <1>8 DEF s, t

LEMMA SegmentOf ==
  ASSUME NEW a \in Nat, NEW n \in Nat, a <= n
  PROVE  SubSeq(Segment(0, n), a + 1, Len(Segment(0, n))) = Segment(a, n)
<1> DEFINE s == Segment(0, n) t == Segment(a, n)
<1>1. s \in Seq(Nat) /\ Len(s) = n /\ \A k \in 1 .. n : s[k] = k
  <2>1. 0 \in Nat /\ 0 <= n OBVIOUS
  <2>2. s \in Seq(Nat) /\ Len(s) = n - 0 BY <2>1, SegmentIs
  <2>3. ASSUME NEW k \in 1 .. n PROVE s[k] = k
    <3>1. k \in 1 .. n - 0 OBVIOUS
    <3>2. s[k] = 0 + k BY <2>1, <3>1, SegmentIs
    <3> HIDE DEF s
    <3> QED BY <3>2
  <2> HIDE DEF s
  <2> QED BY <2>2, <2>3
<1>2. t \in Seq(Nat) /\ Len(t) = n - a /\ \A k \in 1 .. n - a : t[k] = a + k BY SegmentIs
<1> HIDE DEF s, t
<1>3. SubSeq(s, a + 1, n) = [k \in 1 .. n - a |-> s[a + k]]
  BY <1>1
<1>4. \A k \in 1 .. n - a : s[a + k] = t[k] BY <1>1, <1>2
<1>5. t = [k \in 1 .. n - a |-> t[k]] BY <1>2
<1>6. SubSeq(s, a + 1, Len(s)) = t BY <1>1, <1>3, <1>4, <1>5
<1> QED BY <1>6 DEF s, t

\* What the queue owes is a segment of what was pushed.
LEMMA ItemsAlways ==
  \A a \in Nat : Owes(a) => /\ Items = Segment(a, pushed)
                            /\ a \in 0 .. pushed /\ pushed \in Nat
BY ItemsAre DEF Segment, Rest

LEMMA ItemsNext ==
  (\A a \in Nat : Owes(a) => /\ Items = Segment(a, pushed)
                             /\ a \in 0 .. pushed /\ pushed \in Nat)'
BY ItemsAlways, PTL

LEMMA LogIs == ASSUME NEW n \in Nat PROVE [i \in 1 .. n |-> i] = Segment(0, n)
<1>1. n - 0 = n /\ \A i \in 1 .. n : 0 + i = i OBVIOUS
<1> QED BY <1>1 DEF Segment

Inv == \E a \in Nat : Owes(a)

\* Each step leads to a place, and is a step of the promise or changes nothing.
LEMMA Step ==
  ASSUME ~EarlyKill, Inv, [Next]_vars
  PROVE  Inv' /\ [Promise!Next]_(Promise!vars)
<1>1. PICK a \in Nat : Owes(a) BY DEF Inv
<1>2. Items = Segment(a, pushed) /\ a \in 0 .. pushed /\ pushed \in Nat BY <1>1, ItemsAlways
<1>3. ASSUME NEW b \in Nat, Owes(b)'
      PROVE /\ Inv' /\ Items' = Segment(b, pushed')
            /\ b \in 0 .. pushed' /\ pushed' \in Nat
  BY <1>3, ItemsNext DEF Inv
<1>4. [i \in 1 .. pushed |-> i] = Segment(0, pushed) BY <1>2, LogIs
<1>5. ASSUME Owes(a)', pushed' = pushed, given' = given
      PROVE Inv' /\ UNCHANGED Promise!vars
  BY <1>2, <1>3, <1>5 DEF Promise!vars
<1>6. CASE Open
  <2>1. pushed' = pushed /\ given' = given BY <1>6 DEF Open
  <2> QED BY <1>1, <1>5, <1>6, <2>1, OpenOwes
<1>7. CASE Push
  <2>1. pushed' = pushed + 1 /\ given' = given /\ pushed < MaxRecord BY <1>7 DEF Push
  <2>2. Inv' /\ Items' = Segment(a, pushed + 1) BY <1>1, <1>3, <1>7, <2>1, PushOwes
  <2>3. Items' = Append(Items, pushed + 1)
    <3>1. a <= pushed /\ pushed \in Nat BY <1>2
    <3>2. Segment(a, pushed + 1) = Append(Segment(a, pushed), pushed + 1)
      BY <3>1, SegmentAppend
    <3> QED BY <1>2, <2>2, <3>2
  <2>4. [i \in 1 .. pushed' |-> i] = Append([i \in 1 .. pushed |-> i], pushed + 1)
    <3>1. 0 \in Nat /\ 0 <= pushed /\ pushed + 1 \in Nat BY <1>2
    <3>2. [i \in 1 .. pushed + 1 |-> i] = Segment(0, pushed + 1) BY <3>1, LogIs
    <3>3. Segment(0, pushed + 1) = Append(Segment(0, pushed), pushed + 1)
      BY <1>2, <3>1, SegmentAppend
    <3> QED BY <1>4, <2>1, <3>2, <3>3
  <2>5. pushed + 1 \in Record BY <1>2, <2>1, Size DEF Record
  <2>6. Promise!Push BY <2>1, <2>3, <2>4, <2>5 DEF Promise!Push
  <2> QED BY <2>2, <2>6 DEF Promise!Next
<1>8. CASE Pop
  <2>1. Owes(a + 1)' /\ a < pushed /\ given' = Append(given, a + 1)
    BY <1>1, <1>8, PopOwes
  <2>2. pushed' = pushed BY <1>8 DEF Pop
  <2>3. a + 1 \in Nat OBVIOUS
  <2>4. Inv' /\ Items' = Segment(a + 1, pushed) BY <1>3, <2>1, <2>2, <2>3
  <2>5. Items # <<>> /\ Head(Items) = a + 1 /\ Tail(Items) = Segment(a + 1, pushed)
    BY <1>2, <2>1, SegmentTail
  <2>6. Promise!Pop BY <2>1, <2>2, <2>4, <2>5 DEF Promise!Pop
  <2> QED BY <2>4, <2>6 DEF Promise!Next
<1>9. CASE SaveInfo
  <2>1. pushed' = pushed /\ given' = given BY <1>9 DEF SaveInfo
  <2> QED BY <1>1, <1>5, <1>9, <2>1, SaveInfoOwes
<1>10. CASE Close
  <2>1. pushed' = pushed /\ given' = given BY <1>10 DEF Close
  <2> QED BY <1>1, <1>5, <1>10, <2>1, CloseOwes
<1>11. CASE Kill \/ KillDuringPush \/ KillDuringSave
  <2>1. PICK b \in Nat : b <= a /\ Owes(b)' BY <1>1, <1>11, KillOwes
  <2>2. pushed' \in {pushed, pushed + 1} /\ given' = given
        /\ (pushed' # pushed => pushed < MaxRecord)
    BY <1>1, <1>11, KillOwes
  <2>3. Inv' /\ Items' = Segment(b, pushed') /\ b <= pushed' /\ pushed' \in Nat
    BY <1>3, <2>1
  <2>4. PICK log \in {Segment(0, pushed')} : log = [i \in 1 .. pushed' |-> i]
    BY <2>3, LogIs
  <2>5. \E last \in {<<>>} \cup {<<r>> : r \in Record} :
          log = [i \in 1 .. pushed |-> i] \o last
    <3>1. PICK old \in Seq(Nat) : old = [i \in 1 .. pushed |-> i]
      <4>1. 0 \in Nat /\ 0 <= pushed BY <1>2
      <4> QED BY <1>2, <1>4, <4>1, SegmentIs
    <3>2. CASE pushed' = pushed
      <4>1. log = old \o <<>> BY <2>4, <3>1, <3>2
      <4> QED BY <3>1, <4>1
    <3>3. CASE pushed' = pushed + 1
      <4>1. log = Append(old, pushed + 1)
        <5>1. 0 \in Nat /\ 0 <= pushed BY <1>2
        <5> QED BY <1>2, <1>4, <2>4, <3>1, <3>3, <5>1, SegmentAppend
      <4>2. log = old \o <<pushed + 1>> BY <1>2, <3>1, <4>1
      <4>3. pushed + 1 \in Record BY <1>2, <2>2, <3>3, Size DEF Record
      <4> QED BY <3>1, <4>2, <4>3
    <3> QED BY <2>2, <3>2, <3>3
  <2>6. Items' = SubSeq(log, b + 1, Len(log)) BY <2>3, <2>4, SegmentOf
  <2>7. b \in 0 .. Len([i \in 1 .. pushed |-> i]) - Len(Items)
    <3>1. 0 \in Nat /\ 0 <= pushed /\ a <= pushed BY <1>2
    <3>2. Len(Segment(0, pushed)) = pushed - 0 /\ Len(Items) = pushed - a
      BY <1>2, <3>1, SegmentIs
    <3> QED BY <1>2, <1>4, <2>1, <3>2
  <2>8. Promise!Kill
    <3>1. \E last \in {<<>>} \cup {<<r>> : r \in Record} :
            [i \in 1 .. pushed' |-> i] = [i \in 1 .. pushed |-> i] \o last
      BY <2>4, <2>5
    <3>2. Items' = SubSeq([i \in 1 .. pushed' |-> i], b + 1, Len([i \in 1 .. pushed' |-> i]))
      BY <2>4, <2>6
    <3> QED BY <2>2, <2>7, <3>1, <3>2 DEF Promise!Kill
  <2> QED BY <2>3, <2>8 DEF Promise!Next
<1>12. CASE UNCHANGED vars
  <2>1. pushed' = pushed /\ given' = given BY <1>12 DEF vars
  <2>2. Owes(a)'
    <3>1. /\ SavedTail' = SavedTail /\ (Clean' <=> Clean) /\ up' = up
          /\ chunk' = chunk /\ pushed' = pushed /\ mem' = mem /\ info' = info
      BY <1>12 DEF vars, SavedTail, Clean
    <3>2. \A lo : Cnt(lo)' = Cnt(lo) /\ End(lo)' = End(lo)
      BY <3>1 DEF Cnt, End
    <3>3. ASSUME NEW lo, NEW hi, NEW o, Standing(lo, hi, o) PROVE Standing(lo, hi, o)'
      <4>1. Chunks(lo, hi, o)' BY <3>1, <3>3 DEF Standing, Chunks
      <4>2. (Exact(mem, lo, hi) => Exact(mem, lo, hi)')
            /\ (Exact(info.m, lo, hi) => Exact(info.m, lo, hi)')
        BY <3>1, <3>2 DEF Exact
      <4> QED BY <3>1, <3>2, <3>3, <4>1, <4>2 DEF Standing
    <3>4. Empty => Empty' BY <3>1 DEF Empty
    <3>5. InfoOK' BY <1>1, <3>1 DEF Owes, InfoOK
    <3> QED BY <1>1, <3>1, <3>2, <3>3, <3>4, <3>5 DEF Owes
  <2> QED BY <1>5, <2>1, <2>2
<1> QED
  BY <1>6, <1>7, <1>8, <1>9, <1>10, <1>11, <1>12 DEF Next

LEMMA Start == Init => Inv /\ Promise!Init
<1> SUFFICES ASSUME Init PROVE Inv /\ Promise!Init OBVIOUS
<1>1. Owes(0) /\ pushed = 0 /\ given = <<>> BY InitOwes DEF Init
<1>2. Items = Segment(0, 0) BY <1>1, ItemsAlways
<1>3. [i \in 1 .. pushed |-> i] = Segment(0, 0) BY <1>1, LogIs
<1>4. Segment(0, 0) = <<>>
  <2>1. Segment(0, 0) \in Seq(Nat) /\ Len(Segment(0, 0)) = 0 - 0 BY SegmentIs
  <2> HIDE DEF Segment
  <2> QED BY <2>1
<1> QED BY <1>1, <1>2, <1>3, <1>4 DEF Inv, Promise!Init

\* The size of an open queue counts the records after its tail.
LEMMA SizeIs == Inv => QueueSizeExact
<1> SUFFICES ASSUME Inv, up PROVE mem.size = Cardinality(Owed(mem))
  BY DEF QueueSizeExact
<1>1. PICK a \in Nat : Owes(a) BY DEF Inv
<1>2. PICK lo \in Nat, hi \in Nat, o \in Nat :
        /\ Chunks(lo, hi, o) /\ Exact(mem, lo, hi)
        /\ lo * ChunkSize + mem.tail.cnt <= End(hi)
  BY <1>1, UpStands
<1>3. /\ mem.tail.cnt \in 0 .. ChunkSize /\ mem.tail.num = lo
      /\ mem.head.num = hi /\ mem.head.pos = Len(chunk[hi])
      /\ mem.size = End(hi) - (lo * ChunkSize + mem.tail.cnt)
  BY <1>2, Size DEF Exact, Meta
<1>4. AtEnd(mem) BY <1>2, <1>3, HeadAtEnd
<1>5. Owed(mem) = {p \in RecordPlaces : After(p, lo, mem.tail.cnt)} BY <1>2, <1>3, <1>4, OwedIs
<1>6. lo * ChunkSize + mem.tail.cnt \in Nat
  <2>1. lo * ChunkSize \in Nat BY Times
  <2>2. mem.tail.cnt \in Nat BY <1>3, Size
  <2> QED BY <2>1, <2>2
<1> QED BY <1>2, <1>3, <1>5, <1>6, AllAfter

\* A process that is not killed before its first checkpoint finds, whatever
\* the chunk size, every queued request again and in order: _recover rebuilds
\* what save_info and the chunk files leave (squeue.py:81-143), wherever the
\* kill falls.
THEOREM KeepsPromise == ~EarlyKill => (Spec => ImplementsDurableQueue)
<1> SUFFICES ASSUME ~EarlyKill PROVE Spec => ImplementsDurableQueue
  OBVIOUS
<1>1. Init => Inv /\ Promise!Init BY Start
<1>2. Inv /\ [Next]_vars => Inv' /\ [Promise!Next]_(Promise!vars) BY Step
<1> QED BY <1>1, <1>2, PTL DEF Spec, ImplementsDurableQueue, Promise!Spec

\* The size by which close() decides whether to delete the files is the number
\* of the requests that are still to be handed out (squeue.py:101-143).
THEOREM SizeIsExact == ~EarlyKill => (Spec => []QueueSizeExact)
<1> SUFFICES ASSUME ~EarlyKill PROVE Spec => []QueueSizeExact
  OBVIOUS
<1>1. Init => Inv BY Start
<1>2. Inv /\ [Next]_vars => Inv' BY Step
<1>3. Inv => QueueSizeExact BY SizeIs
<1> QED BY <1>1, <1>2, <1>3, PTL DEF Spec

\* What the types need beside it.
Bounded ==
  /\ pushed <= MaxRecord
  /\ fragment \in BOOLEAN
  /\ ~up => mem = Fresh

LEMMA StepBounded == ASSUME Inv, Bounded, [Next]_vars PROVE Bounded'
<1>1. pushed \in Nat BY ItemsAlways DEF Inv
<1>2. CASE Open BY <1>2 DEF Open, Bounded
<1>3. CASE Push BY <1>1, <1>3, Size DEF Push, Bounded
<1>4. CASE Pop BY <1>4 DEF Pop, Bounded
<1>5. CASE SaveInfo BY <1>5 DEF SaveInfo, Bounded
<1>6. CASE Close BY <1>6 DEF Close, Bounded
<1>7. CASE Kill BY <1>7 DEF Kill, Die, Bounded
<1>8. CASE KillDuringPush BY <1>1, <1>8, Size DEF KillDuringPush, Die, Bounded
<1>9. CASE KillDuringSave BY <1>9 DEF KillDuringSave, Die, Bounded
<1>10. CASE UNCHANGED vars BY <1>10 DEF vars, Bounded
<1> QED BY <1>2, <1>3, <1>4, <1>5, <1>6, <1>7, <1>8, <1>9, <1>10 DEF Next

LEMMA TypesAre == Inv /\ Bounded => TypeOK
<1> SUFFICES ASSUME Inv, Bounded PROVE TypeOK OBVIOUS
<1>1. PICK a \in Nat : Owes(a) BY DEF Inv
<1>2. pushed \in Nat /\ pushed <= MaxRecord BY <1>1, ItemsAlways DEF Bounded
<1>3. ASSUME NEW lo \in Nat, NEW hi \in Nat, NEW o \in Nat, Chunks(lo, hi, o),
             NEW n \in DOMAIN chunk
      PROVE  chunk[n] \in Seq(Record) /\ Len(chunk[n]) <= ChunkSize
  <2>1. n \in lo .. hi BY <1>3, Bounds
  <2>2. n \in Nat /\ Len(chunk[n]) \in Nat /\ Len(chunk[n]) <= ChunkSize
        /\ DOMAIN chunk[n] = 1 .. Len(chunk[n])
    BY <1>3, <2>1, ChunkIs
  <2>3. chunk[n] \in Seq(Nat) BY <1>3, <2>1 DEF Chunks, Files
  <2>4. ASSUME NEW i \in 1 .. Len(chunk[n]) PROVE chunk[n][i] \in Record
    <3>1. <<n, i>> \in RecordPlaces BY <2>2 DEF RecordPlaces
    <3>2. n * ChunkSize + i <= End(hi) /\ n * ChunkSize \in Nat
      BY <1>3, <2>2, <3>1, PlaceIs, Times
    <3>3. chunk[n][i] = n * ChunkSize + i + o BY <1>3, <2>1 DEF Chunks, Files
    <3>4. pushed = End(hi) + o /\ End(hi) \in Nat BY <1>3, EndIs DEF Chunks, Files, End
    <3>5. i \in Nat /\ i >= 1 BY <2>2
    <3>6. n * ChunkSize + i + o \in 1 .. pushed BY <3>2, <3>4, <3>5
    <3> QED BY <1>2, <3>3, <3>6, Size DEF Record
  <2>5. PICK s \in Seq(Nat) : s = chunk[n] BY <2>3
  <2>6. s \in Seq(Record) BY <2>4, <2>5
  <2> QED BY <2>2, <2>5, <2>6
<1>4. \A n \in DOMAIN chunk : chunk[n] \in Seq(Record) /\ Len(chunk[n]) <= ChunkSize
  <2>1. CASE Empty BY <2>1 DEF Empty
  <2>2. CASE \E lo, hi, o \in Nat : Standing(lo, hi, o)
    <3>1. PICK lo \in Nat, hi \in Nat, o \in Nat : Chunks(lo, hi, o)
      BY <2>2 DEF Standing
    <3> QED BY <1>3, <3>1
  <2> QED BY <1>1, <2>1, <2>2 DEF Owes
<1>5. mem.size \in 0 .. MaxRecord /\ mem.tail.cnt < ChunkSize /\ mem.head.pos < ChunkSize
  <2>1. CASE up
    <3>1. PICK lo \in Nat, hi \in Nat, o \in Nat : Chunks(lo, hi, o) /\ Exact(mem, lo, hi)
      BY <1>1, <2>1, UpStands
    <3>2. /\ mem.size = End(hi) - (lo * ChunkSize + mem.tail.cnt)
          /\ mem.size \in Nat /\ mem.tail.cnt \in Nat
          /\ mem.tail.cnt < ChunkSize /\ mem.head.pos < ChunkSize
      BY <3>1 DEF Exact, Meta
    <3>3. lo * ChunkSize \in Nat BY Times
    <3>4. pushed = End(hi) + o /\ End(hi) \in Nat BY <3>1, EndIs DEF Chunks, Files, End
    <3>5. mem.size <= pushed BY <3>2, <3>3, <3>4
    <3> QED BY <1>2, <3>2, <3>5, Size
  <2>2. CASE ~up BY <2>2, Size DEF Bounded, Fresh
  <2> QED BY <2>1, <2>2
<1>6. up \in BOOLEAN /\ fragment \in BOOLEAN BY <1>1 DEF Owes, Bounded
<1> QED BY <1>4, <1>5, <1>6 DEF TypeOK

\* The types: records are those that were pushed, no chunk file passes its
\* size, and the tracked size is within what was pushed.
THEOREM TypeCorrect == ~EarlyKill => (Spec => []TypeOK)
<1> SUFFICES ASSUME ~EarlyKill PROVE Spec => []TypeOK
  OBVIOUS
<1>1. Init => Inv /\ Bounded
  <2>1. ASSUME Init PROVE Bounded
    <3>1. pushed = 0 /\ fragment = FALSE /\ mem = Fresh BY <2>1 DEF Init
    <3>2. pushed <= MaxRecord BY <3>1, Size
    <3>3. fragment \in BOOLEAN BY <3>1
    <3>4. mem = Fresh BY <3>1
    <3> QED BY <3>2, <3>3, <3>4 DEF Bounded
  <2> QED BY <2>1, Start
<1>2. Inv /\ Bounded /\ [Next]_vars => Inv' /\ Bounded' BY Step, StepBounded
<1>3. Inv /\ Bounded => TypeOK BY TypesAre
<1> QED BY <1>1, <1>2, <1>3, PTL DEF Spec
===============================================================================
