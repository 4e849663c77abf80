----------------------------- MODULE Frontier_proofs -----------------------------
(***************************************************************************)
(* The frontier.  First what the operations of module Frontier do to the   *)
(* ring and to the queues, whoever calls them: lemmas that Shard_proofs    *)
(* cites too.  Then the theorems about FrontierAlone, for every set of     *)
(* slots and requests and every cap.                                       *)
(***************************************************************************)
EXTENDS FrontierAlone, FiniteSetTheorems, SequenceTheorems, TLAPS

\* The frontier's variables, for requests that are members of R.
Kept(R) ==
  /\ Live \subseteq Slot /\ IsFiniteSet(Live)
  /\ pqueues \in [Live -> Seq(R)]
  /\ popped \in [Slot -> Seq(R)]
  /\ ring \in Seq(Slot)
  /\ activeJson \subseteq Slot /\ IsFiniteSet(activeJson)
  /\ active \in [Slot -> SUBSET R]
  /\ \A s \in Slot : IsFiniteSet(active[s])
  /\ isOpen \in BOOLEAN

Counted == IF isOpen THEN size = Total(pqueues) ELSE size = 0

InRing == {ring[i] : i \in DOMAIN ring}

LEMMA Numbers ==
  /\ ScanLimit \in Nat /\ ScanLimit >= 1
  /\ QueueCap \in Nat /\ Cap \in Nat /\ ExemptCap \in Nat /\ Cap <= ExemptCap
BY FrontierAssumption

USE Numbers

\* A set of numbers has a least one.
LEMMA LeastNatural ==
  ASSUME NEW T, T \subseteq Nat, T # {}
  PROVE  \E m \in T : \A k \in T : m <= k
<1>1. \A x, y \in Nat : y < x => <<y, x>> \in OpToRel(<, Nat)
  BY DEF OpToRel
<1>2. PICK R : IsWellFoundedOn(R, Nat) /\ \A x, y \in Nat : y < x => <<y, x>> \in R
  BY <1>1, NatLessThanWellFounded
<1>3. PICK m \in T : \A y \in T : ~ (<<y, m>> \in R)
  BY <1>2, WFMin
<1>4. ASSUME NEW k \in T
      PROVE  m <= k
  <2>1. ~ (k < m)
    BY <1>2, <1>3
  <2> QED
    BY <2>1
<1> QED
  BY <1>4

-------------------------------------------------------------------------------
(* The walk along the ring. *)

\* How many live entries there are before an entry.
LEMMA LiveBeforeOrder ==
  ASSUME NEW i \in Nat, NEW j \in Nat, i <= j
  PROVE  /\ LiveBefore(i) \in Nat /\ LiveBefore(i) <= LiveBefore(j)
         /\ 1 <= i /\ i < j /\ ring[i] \in Live => LiveBefore(i) < LiveBefore(j)
<1> DEFINE A == {k \in 1 .. i - 1 : ring[k] \in Live}
           B == {k \in 1 .. j - 1 : ring[k] \in Live}
<1>1. IsFiniteSet(A) /\ IsFiniteSet(B)
  <2>1. IsFiniteSet(1 .. i - 1) /\ IsFiniteSet(1 .. j - 1)
    BY FS_Interval
  <2>2. A \in SUBSET (1 .. i - 1) /\ B \in SUBSET (1 .. j - 1)
    OBVIOUS
  <2> HIDE DEF A, B
  <2> QED
    BY <2>1, <2>2, FS_Subset
<1>2. A \subseteq B
  OBVIOUS
<1>3. LiveBefore(i) = Cardinality(A) /\ LiveBefore(j) = Cardinality(B)
  BY DEF LiveBefore
<1>4. 1 <= i /\ i < j /\ ring[i] \in Live => A \cup {i} \subseteq B /\ i \notin A
  OBVIOUS
<1> HIDE DEF A, B
<1>5. Cardinality(A) \in Nat /\ Cardinality(B) \in Nat /\ Cardinality(A) <= Cardinality(B)
  BY <1>1, <1>2, FS_Subset, FS_CardinalityType
<1>6. ASSUME A \cup {i} \subseteq B, i \notin A
      PROVE  Cardinality(A) + 1 <= Cardinality(B)
  <2>1. Cardinality(A \cup {i}) = Cardinality(A) + 1
    BY <1>1, <1>6, FS_AddElement
  <2> QED
    BY <1>1, <1>6, <2>1, FS_Subset
<1> QED
  BY <1>3, <1>4, <1>5, <1>6

\* What is walked past is the front of the ring.
LEMMA WalkedFront ==
  ASSUME ring \in Seq(Slot)
  PROVE  /\ Walked \in Nat /\ Walked <= Len(ring)
         /\ Passed = 1 .. Walked
<1>1. Len(ring) \in Nat /\ DOMAIN ring = 1 .. Len(ring)
  BY LenProperties
<1>2. Passed \subseteq 1 .. Len(ring)
  BY <1>1 DEF Passed
<1>3. ASSUME NEW i \in Passed
      PROVE  1 .. i \subseteq Passed
  <2> SUFFICES ASSUME NEW j \in 1 .. i
               PROVE  j \in Passed
    OBVIOUS
  <2>1. i \in Nat /\ j \in Nat /\ j <= i /\ j \in DOMAIN ring
    BY <1>1, <1>2
  <2>2. LiveBefore(j) \in Nat /\ LiveBefore(i) \in Nat /\ LiveBefore(j) <= LiveBefore(i)
    BY <2>1, LiveBeforeOrder
  <2>3. LiveBefore(i) < ScanLimit /\ \A k \in 1 .. i : ring[k] \in Live => ~Idle(ring[k])
    BY DEF Passed
  <2>4. LiveBefore(j) < ScanLimit
    BY <2>2, <2>3
  <2>5. 1 .. j \subseteq 1 .. i
    BY <2>1
  <2> QED
    BY <2>1, <2>3, <2>4, <2>5 DEF Passed
<1>4. IsFiniteSet(1 .. Len(ring)) /\ Cardinality(1 .. Len(ring)) = Len(ring)
  BY <1>1, FS_Interval
<1>5. IsFiniteSet(Passed) /\ Walked \in Nat /\ Walked <= Len(ring)
  BY <1>2, <1>4, FS_Subset, FS_CardinalityType DEF Walked
<1>6. IsFiniteSet(1 .. Walked) /\ Cardinality(1 .. Walked) = Walked
  BY <1>5, FS_Interval
<1>7. ASSUME NEW i \in Passed
      PROVE  i \in 1 .. Walked
  <2>1. i \in Nat /\ i >= 1
    BY <1>1, <1>2
  <2>2. Cardinality(1 .. i) = i
    BY <2>1, FS_Interval
  <2>3. Cardinality(1 .. i) <= Cardinality(Passed)
    BY <1>3, <1>5, FS_Subset
  <2> QED
    BY <1>5, <2>1, <2>2, <2>3 DEF Walked
<1>8. Passed = 1 .. Walked
  BY <1>5, <1>6, <1>7, FS_Subset DEF Walked
<1> QED
  BY <1>5, <1>8

\* Busy holds the live entries walked past, each once.
LEMMA BusyEntries ==
  ASSUME ring \in Seq(Slot)
  PROVE  /\ Len(Busy) = LiveBefore(Walked + 1) /\ Len(Busy) \in Nat
         /\ DOMAIN Busy = 1 .. Len(Busy)
         /\ Busy \in Seq(Slot)
         /\ \A k \in DOMAIN Busy : \E i \in 1 .. Walked :
              ring[i] \in Live /\ Busy[k] = ring[i] /\ LiveBefore(i) = k - 1
         /\ \A i \in 1 .. Walked : ring[i] \in Live => \E k \in DOMAIN Busy : Busy[k] = ring[i]
<1> DEFINE n == LiveBefore(Walked + 1)
           I == {i \in 1 .. Walked : ring[i] \in Live}
           f == [i \in I |-> LiveBefore(i) + 1]
           at(k) == CHOOSE i \in 1 .. Walked : ring[i] \in Live /\ LiveBefore(i) = k - 1
<1>1. Walked \in Nat /\ Walked <= Len(ring) /\ Len(ring) \in Nat
  BY WalkedFront, LenProperties
<1>2. I = {i \in 1 .. (Walked + 1) - 1 : ring[i] \in Live}
  BY <1>1
<1>3. n = Cardinality(I)
  BY <1>2 DEF LiveBefore
<1>4. ASSUME NEW i \in I
      PROVE  LiveBefore(i) \in Nat /\ LiveBefore(i) < n
  <2>1. i \in Nat /\ 1 <= i /\ i < Walked + 1 /\ ring[i] \in Live /\ Walked + 1 \in Nat
    BY <1>1
  <2> QED
    BY <2>1, LiveBeforeOrder
<1>5. ASSUME NEW i \in I, NEW j \in I, LiveBefore(i) = LiveBefore(j)
      PROVE  i = j
  <2>1. i \in Nat /\ j \in Nat /\ 1 <= i /\ 1 <= j /\ ring[i] \in Live /\ ring[j] \in Live
    BY <1>1
  <2>2. ~ (i < j) /\ ~ (j < i)
    <3>1. i < j => LiveBefore(i) < LiveBefore(j)
      BY <2>1, LiveBeforeOrder
    <3>2. j < i => LiveBefore(j) < LiveBefore(i)
      BY <2>1, LiveBeforeOrder
    <3>3. LiveBefore(i) \in Nat /\ LiveBefore(j) \in Nat
      BY <1>4
    <3> QED
      BY <1>5, <3>1, <3>2, <3>3
  <2> QED
    BY <2>1, <2>2
<1>6. n \in Nat
  <2>1. Walked + 1 \in Nat
    BY <1>1
  <2> QED
    BY <2>1, LiveBeforeOrder
<1>7. f \in Injection(I, 1 .. n)
  <2>1. \A i \in I : f[i] \in 1 .. n
    BY <1>4, <1>6
  <2>2. \A i, j \in I : f[i] = f[j] => i = j
    BY <1>4, <1>5
  <2> QED
    BY <2>1, <2>2 DEF Injection, IsInjective
<1>8. IsFiniteSet(1 .. n) /\ Cardinality(1 .. n) = n
  BY <1>6, FS_Interval
<1>9. f \in Surjection(I, 1 .. n)
  <2> HIDE DEF I, f, n
  <2> QED
    BY <1>3, <1>7, <1>8, FS_Injection
<1>10. ASSUME NEW k \in 1 .. n
       PROVE  at(k) \in 1 .. Walked /\ ring[at(k)] \in Live /\ LiveBefore(at(k)) = k - 1
  <2>1. PICK i \in I : f[i] = k
    BY <1>9 DEF Surjection
  <2>2. i \in 1 .. Walked /\ ring[i] \in Live /\ LiveBefore(i) = k - 1
    BY <1>4, <2>1
  <2> QED
    BY <2>2
<1>11. Busy = [k \in 1 .. n |-> ring[at(k)]]
  BY DEF Busy
<1>12. ASSUME NEW k \in 1 .. n
       PROVE  Busy[k] = ring[at(k)] /\ Busy[k] \in Slot
  <2>1. Busy[k] = ring[at(k)]
    BY <1>11
  <2>2. at(k) \in 1 .. Len(ring)
    BY <1>1, <1>10
  <2> HIDE DEF at
  <2> QED
    BY <2>1, <2>2, ElementOfSeq
<1>13. ASSUME NEW i \in 1 .. Walked, ring[i] \in Live
       PROVE  \E k \in 1 .. n : Busy[k] = ring[i]
  <2>1. i \in I
    BY <1>13
  <2>2. LiveBefore(i) + 1 \in 1 .. n
    BY <1>4, <1>6, <2>1
  <2>3. at(LiveBefore(i) + 1) \in I /\ LiveBefore(at(LiveBefore(i) + 1)) = LiveBefore(i)
    BY <1>4, <1>10, <2>1, <2>2
  <2>4. at(LiveBefore(i) + 1) = i
    BY <1>5, <2>1, <2>3
  <2> QED
    BY <1>12, <2>2, <2>4
<1> HIDE DEF n, at
<1>14. Busy \in [1 .. n -> Slot]
  BY <1>11, <1>12
<1>15. Busy \in Seq(Slot) /\ Len(Busy) = n /\ DOMAIN Busy = 1 .. n
  BY <1>6, <1>14
<1>16. \A k \in DOMAIN Busy : \E i \in 1 .. Walked :
         ring[i] \in Live /\ Busy[k] = ring[i] /\ LiveBefore(i) = k - 1
  BY <1>10, <1>12, <1>15
<1> QED
  BY <1>6, <1>13, <1>15, <1>16 DEF n

\* The fallback is one of them.
LEMMA LeastBusyThere ==
  ASSUME NEW R, Kept(R), Busy # <<>>
  PROVE  \E k \in DOMAIN Busy : LeastBusy = Busy[k]
<1> DEFINE c(k) == Cardinality(active[Busy[k]])
           T == {c(k) : k \in DOMAIN Busy}
<1>1. /\ DOMAIN Busy = 1 .. Len(Busy) /\ Len(Busy) \in Nat
      /\ Busy \in Seq(Slot)
  BY BusyEntries DEF Kept
<1>2. ASSUME NEW k \in DOMAIN Busy
      PROVE  c(k) \in Nat
  <2>1. Busy[k] \in Slot
    BY <1>1, ElementOfSeq
  <2> QED
    BY <2>1, FS_CardinalityType DEF Kept
<1>3. Len(Busy) >= 1
  BY <1>1, EmptySeq
<1>4. T \subseteq Nat /\ T # {}
  <2>1. 1 \in DOMAIN Busy
    BY <1>1, <1>3
  <2> QED
    BY <1>2, <2>1
<1>5. PICK m \in T : \A k \in T : m <= k
  <2> HIDE DEF T
  <2> QED
    BY <1>4, LeastNatural
<1> DEFINE F == {k \in DOMAIN Busy : c(k) = m}
<1>6. F \subseteq Nat /\ F # {}
  BY <1>1
<1>7. PICK i \in F : \A k \in F : i <= k
  <2> HIDE DEF F
  <2> QED
    BY <1>6, LeastNatural
<1>8. i \in DOMAIN Busy /\ i \in Nat /\ c(i) = m
  BY <1>6
<1>9. \A j \in DOMAIN Busy : c(i) <= c(j)
  BY <1>5, <1>8
<1>10. ASSUME NEW j \in 1 .. i - 1
       PROVE  c(i) < c(j)
  <2>1. j \in DOMAIN Busy /\ j \notin F
    BY <1>1, <1>7, <1>8
  <2>2. c(j) # m /\ m <= c(j) /\ m \in Nat /\ c(j) \in Nat
    BY <1>2, <1>4, <1>5, <2>1
  <2> QED
    BY <1>8, <2>2
<1>11. \E k \in DOMAIN Busy :
         /\ \A j \in DOMAIN Busy : c(k) <= c(j)
         /\ \A j \in 1 .. k - 1 : c(k) < c(j)
  BY <1>8, <1>9, <1>10
<1> QED
  BY <1>11 DEF LeastBusy

\* Behind is the rest of the ring.
LEMMA BehindEntries ==
  ASSUME ring \in Seq(Slot)
  PROVE  /\ Behind \in Seq(Slot) /\ DOMAIN Behind = 1 .. Len(Behind)
         /\ Len(Behind) = Len(ring) - Walked /\ Len(Behind) \in Nat
         /\ \A i \in 1 .. Len(Behind) : Behind[i] = ring[Walked + i]
<1>1. Len(ring) \in Nat /\ \A i \in 1 .. Len(ring) : ring[i] \in Slot
  BY LenProperties, ElementOfSeq
<1>2. Walked \in Nat /\ Walked <= Len(ring)
  BY WalkedFront
<1>3. /\ Behind \in Seq(Slot)
      /\ Len(Behind) = IF Walked + 1 <= Len(ring) THEN Len(ring) - (Walked + 1) + 1 ELSE 0
      /\ \A i \in 1 .. Len(ring) - (Walked + 1) + 1 : Behind[i] = ring[Walked + 1 + i - 1]
  <2>1. \A i \in Walked + 1 .. Len(ring) : ring[i] \in Slot
    BY <1>1, <1>2
  <2> QED
    BY <1>1, <1>2, <2>1, SubSeqProperties DEF Behind
<1>4. Len(Behind) = Len(ring) - Walked /\ Len(Behind) \in Nat
  <2>1. ASSUME NEW l, NEW n \in Nat, NEW w \in Nat, w <= n,
               l = IF w + 1 <= n THEN n - (w + 1) + 1 ELSE 0
        PROVE  l = n - w /\ l \in Nat
    BY <2>1
  <2> QED
    BY <1>1, <1>2, <1>3, <2>1
<1>5. ASSUME NEW i \in 1 .. Len(Behind)
      PROVE  Behind[i] = ring[Walked + i]
  <2>1. i \in 1 .. Len(ring) - (Walked + 1) + 1 /\ Walked + 1 + i - 1 = Walked + i
    BY <1>1, <1>2, <1>4
  <2> QED
    BY <1>3, <2>1
<1>6. DOMAIN Behind = 1 .. Len(Behind)
  BY <1>3, LenProperties
<1> QED
  BY <1>1, <1>2, <1>3, <1>4, <1>5, <1>6

\* The slot that is served is a live one, whatever stale entries there are.
LEMMA WinnerLive ==
  ASSUME NEW R, Kept(R), RingComplete, isOpen, Live # {}
  PROVE  Winner \in Live
<1>1. /\ ring \in Seq(Slot) /\ DOMAIN ring = 1 .. Len(ring) /\ Len(ring) \in Nat
  BY LenProperties DEF Kept
<1>2. Walked \in Nat /\ Walked <= Len(ring) /\ Passed = 1 .. Walked
  BY <1>1, WalkedFront
<1>3. /\ Len(Busy) = LiveBefore(Walked + 1) /\ Len(Busy) \in Nat
      /\ \A k \in DOMAIN Busy : \E i \in 1 .. Walked : ring[i] \in Live /\ Busy[k] = ring[i]
      /\ \A i \in 1 .. Walked : ring[i] \in Live => \E k \in DOMAIN Busy : Busy[k] = ring[i]
  BY <1>1, BusyEntries
<1>4. /\ Behind \in Seq(Slot) /\ Len(Behind) = Len(ring) - Walked /\ Len(Behind) \in Nat
      /\ \A i \in 1 .. Len(Behind) : Behind[i] = ring[Walked + i]
  BY <1>1, BehindEntries
<1>5. CASE Hit
  <2>1. Walked + 1 \in DOMAIN ring /\ Head(Behind) = ring[Walked + 1]
    <3>1. Behind # <<>> /\ Len(Behind) >= 1
      BY <1>4, <1>5, EmptySeq DEF Hit
    <3>2. Head(Behind) = Behind[1]
      BY <3>1
    <3>3. Behind[1] = ring[Walked + 1]
      BY <1>4, <3>1
    <3>4. Walked + 1 <= Len(ring)
      <4>1. Len(ring) - Walked >= 1
        BY <1>4, <3>1
      <4> QED
        BY <1>1, <1>2, <4>1
    <3> QED
      BY <1>1, <1>2, <3>2, <3>3, <3>4
  <2>2. LiveBefore(Walked + 1) < ScanLimit
    BY <1>3, <1>5 DEF Hit
  <2>3. Walked + 1 \notin Passed
    BY <1>2
  <2>4. PICK j \in 1 .. Walked + 1 : ring[j] \in Live /\ Idle(ring[j])
    BY <2>1, <2>2, <2>3 DEF Passed
  <2>5. j \notin Passed
    <3>1. j \in 1 .. j
      BY <1>2
    <3> QED
      BY <2>4, <3>1 DEF Passed
  <2>6. j = Walked + 1
    BY <1>2, <2>5
  <2> QED
    BY <1>5, <2>1, <2>4, <2>6 DEF Winner
<1>6. CASE ~ Hit
  <2>1. Busy # <<>>
    <3>1. CASE Behind = <<>>
      <4>1. Walked = Len(ring)
        <5>1. ASSUME NEW n \in Nat, NEW w \in Nat, w <= n, n - w = 0
              PROVE  w = n
          BY <5>1
        <5>2. Len(ring) - Walked = 0
          BY <1>4, <3>1, EmptySeq
        <5> QED
          BY <1>1, <1>2, <5>1, <5>2
      <4>2. PICK i \in DOMAIN ring : ring[i] \in Live
        BY DEF RingComplete
      <4>3. \E k \in DOMAIN Busy : Busy[k] = ring[i]
        BY <1>1, <1>3, <4>1, <4>2
      <4> QED
        BY <4>3
    <3>2. CASE ~ (Len(Busy) < ScanLimit)
      <4>1. Len(Busy) >= 1
        BY <1>3, <3>2
      <4> QED
        BY <4>1, EmptySeq
    <3> QED
      BY <1>6, <3>1, <3>2 DEF Hit
  <2>2. PICK k \in DOMAIN Busy : LeastBusy = Busy[k]
    BY <2>1, LeastBusyThere
  <2> QED
    BY <1>3, <1>6, <2>2 DEF Winner
<1> QED
  BY <1>5, <1>6

-------------------------------------------------------------------------------
(* The ring that the walk leaves. *)

Turned == Behind \o Busy

LEMMA TurnedEntries ==
  ASSUME ring \in Seq(Slot)
  PROVE  /\ Turned \in Seq(Slot) /\ DOMAIN Turned = 1 .. Len(Turned)
         /\ Len(Turned) = (Len(ring) - Walked) + Len(Busy) /\ Len(Turned) \in Nat
         /\ Behind \in Seq(Slot) /\ Len(Behind) = Len(ring) - Walked
         /\ \A i \in 1 .. Len(ring) - Walked : Turned[i] = ring[Walked + i]
         /\ \A k \in 1 .. Len(Busy) : Turned[(Len(ring) - Walked) + k] = Busy[k]
<1>1. DOMAIN ring = 1 .. Len(ring) /\ Len(ring) \in Nat
  BY LenProperties
<1>2. Walked \in Nat /\ Walked <= Len(ring)
  BY WalkedFront
<1>3. Busy \in Seq(Slot) /\ Len(Busy) \in Nat
  BY BusyEntries
<1>4. /\ Behind \in Seq(Slot) /\ Len(Behind) = Len(ring) - Walked /\ Len(Behind) \in Nat
      /\ \A i \in 1 .. Len(Behind) : Behind[i] = ring[Walked + i]
  BY BehindEntries
<1>5. /\ Turned \in Seq(Slot)
      /\ Len(Turned) = Len(Behind) + Len(Busy)
      /\ \A i \in 1 .. Len(Behind) + Len(Busy) :
           Turned[i] = IF i <= Len(Behind) THEN Behind[i] ELSE Busy[i - Len(Behind)]
  BY <1>3, <1>4, ConcatProperties DEF Turned
<1>6. ASSUME NEW i \in 1 .. Len(Behind)
      PROVE  Turned[i] = ring[Walked + i]
  <2>1. i \in 1 .. Len(Behind) + Len(Busy) /\ i <= Len(Behind)
    BY <1>3, <1>4
  <2> QED
    BY <1>4, <1>5, <2>1
<1>7. ASSUME NEW k \in 1 .. Len(Busy)
      PROVE  Turned[Len(Behind) + k] = Busy[k]
  <2> DEFINE i == Len(Behind) + k
  <2>1. /\ i \in 1 .. Len(Behind) + Len(Busy) /\ ~ (i <= Len(Behind))
        /\ i - Len(Behind) = k
    BY <1>3, <1>4
  <2> QED
    BY <1>5, <2>1
<1>8. DOMAIN Turned = 1 .. Len(Turned)
  BY <1>5, LenProperties
<1>9. Len(Turned) \in Nat
  BY <1>3, <1>4, <1>5
<1> QED
  BY <1>4, <1>5, <1>6, <1>7, <1>8, <1>9

\* It holds what the walk has not forgotten, once.
LEMMA TurnedOnce ==
  ASSUME ring \in Seq(Slot),
         \A i, j \in DOMAIN ring : ring[i] = ring[j] => i = j
  PROVE  /\ \A i, j \in DOMAIN Turned : Turned[i] = Turned[j] => i = j
         /\ {Turned[i] : i \in DOMAIN Turned} = InRing \ Forgotten
<1> DEFINE m == Len(ring) - Walked
           n == Len(Busy)
<1>1. DOMAIN ring = 1 .. Len(ring) /\ Len(ring) \in Nat
  BY LenProperties
<1>2. Walked \in Nat /\ Walked <= Len(ring)
  BY WalkedFront
<1>3. /\ n \in Nat /\ DOMAIN Busy = 1 .. n
      /\ \A k \in 1 .. n : \E i \in 1 .. Walked :
           ring[i] \in Live /\ Busy[k] = ring[i] /\ LiveBefore(i) = k - 1
      /\ \A i \in 1 .. Walked : ring[i] \in Live => \E k \in 1 .. n : Busy[k] = ring[i]
  BY BusyEntries
<1>4. /\ DOMAIN Turned = 1 .. m + n
      /\ \A i \in 1 .. m : Turned[i] = ring[Walked + i]
      /\ \A k \in 1 .. n : Turned[m + k] = Busy[k]
  BY TurnedEntries
<1>5. m \in Nat /\ m + Walked = Len(ring)
  BY <1>1, <1>2
<1>6. ASSUME NEW i \in DOMAIN Turned
      PROVE  \E p \in DOMAIN ring :
               /\ Turned[i] = ring[p]
               /\ IF i <= m THEN p = Walked + i
                            ELSE p <= Walked /\ ring[p] \in Live /\ LiveBefore(p) = (i - m) - 1
  <2>1. CASE i <= m
    <3>1. i \in 1 .. m /\ Walked + i \in DOMAIN ring
      BY <1>1, <1>2, <1>3, <1>4, <1>5, <2>1
    <3> QED
      BY <1>4, <2>1, <3>1
  <2>2. CASE ~ (i <= m)
    <3>1. i - m \in 1 .. n /\ m + (i - m) = i
      BY <1>3, <1>4, <1>5, <2>2
    <3>2. PICK p \in 1 .. Walked :
            ring[p] \in Live /\ Busy[i - m] = ring[p] /\ LiveBefore(p) = (i - m) - 1
      BY <1>3, <3>1
    <3>3. p \in DOMAIN ring /\ p <= Walked
      BY <1>1, <1>2
    <3> QED
      BY <1>4, <2>2, <3>1, <3>2, <3>3
  <2> QED
    BY <2>1, <2>2
<1> HIDE DEF m, n
<1>7. ASSUME NEW i \in DOMAIN Turned, NEW j \in DOMAIN Turned, Turned[i] = Turned[j]
      PROVE  i = j
  <2>1. i \in Nat /\ j \in Nat /\ i >= 1 /\ j >= 1
    BY <1>3, <1>4, <1>5
  <2>2. PICK p \in DOMAIN ring :
          /\ Turned[i] = ring[p]
          /\ IF i <= m THEN p = Walked + i ELSE p <= Walked /\ LiveBefore(p) = (i - m) - 1
    BY <1>6
  <2>3. PICK q \in DOMAIN ring :
          /\ Turned[j] = ring[q]
          /\ IF j <= m THEN q = Walked + j ELSE q <= Walked /\ LiveBefore(q) = (j - m) - 1
    BY <1>6
  <2>4. p = q
    BY <1>7, <2>2, <2>3
  <2> QED
    BY <1>2, <1>5, <2>1, <2>2, <2>3, <2>4
<1>8. ASSUME NEW i \in DOMAIN Turned
      PROVE  Turned[i] \in InRing \ Forgotten
  <2>1. PICK p \in DOMAIN ring :
          /\ Turned[i] = ring[p]
          /\ IF i <= m THEN p = Walked + i ELSE p <= Walked /\ ring[p] \in Live
    BY <1>6
  <2>2. ASSUME NEW k \in 1 .. Walked, ring[k] \notin Live
        PROVE  ring[k] # ring[p]
    <3>1. k \in DOMAIN ring
      BY <1>1, <1>2
    <3>2. i >= 1 /\ i \in Nat
      BY <1>3, <1>4, <1>5
    <3>3. p = k => FALSE
      BY <1>2, <2>1, <2>2, <3>2
    <3> QED
      BY <3>1, <3>3
  <2> QED
    BY <2>1, <2>2 DEF InRing, Forgotten
<1>9. ASSUME NEW p \in DOMAIN ring, ring[p] \notin Forgotten
      PROVE  \E i \in DOMAIN Turned : Turned[i] = ring[p]
  <2>1. CASE p <= Walked
    <3>1. p \in 1 .. Walked /\ ring[p] \in Live
      BY <1>1, <1>2, <1>9, <2>1 DEF Forgotten
    <3>2. PICK k \in 1 .. n : Busy[k] = ring[p]
      BY <1>3, <3>1
    <3>3. m + k \in DOMAIN Turned
      BY <1>3, <1>4, <1>5
    <3> QED
      BY <1>4, <3>2, <3>3
  <2>2. CASE ~ (p <= Walked)
    <3>1. p - Walked \in 1 .. m /\ Walked + (p - Walked) = p /\ p - Walked \in DOMAIN Turned
      BY <1>1, <1>2, <1>3, <1>4, <1>5, <2>2
    <3> QED
      BY <1>4, <3>1
  <2> QED
    BY <2>1, <2>2
<1> QED
  BY <1>7, <1>8, <1>9 DEF InRing

\* The winner at the front goes to the back.
LEMMA RotatedEntries ==
  ASSUME ring \in Seq(Slot)
  PROVE  /\ Rotated \in Seq(Slot) /\ DOMAIN Rotated = DOMAIN Turned
         /\ \/ Rotated = Turned /\ (Turned # <<>> => Turned[1] # Winner)
            \/ /\ Turned # <<>> /\ Turned[1] = Winner
               /\ \A i \in 1 .. Len(Turned) - 1 : Rotated[i] = Turned[i + 1]
               /\ Rotated[Len(Turned)] = Winner
<1>1. Turned \in Seq(Slot) /\ DOMAIN Turned = 1 .. Len(Turned) /\ Len(Turned) \in Nat
  BY TurnedEntries
<1>2. CASE Turned # <<>> /\ Head(Turned) = Winner
  <2>1. Rotated = Append(Tail(Turned), Winner)
    BY <1>2 DEF Rotated, Turned
  <2>2. /\ Winner \in Slot /\ Tail(Turned) \in Seq(Slot) /\ Len(Tail(Turned)) = Len(Turned) - 1
        /\ \A i \in 1 .. Len(Tail(Turned)) : Tail(Turned)[i] = Turned[i + 1]
    BY <1>1, <1>2, HeadTailProperties
  <2>3. /\ Rotated \in Seq(Slot)
        /\ Len(Rotated) = Len(Tail(Turned)) + 1
        /\ \A i \in 1 .. Len(Tail(Turned)) : Rotated[i] = Tail(Turned)[i]
        /\ Rotated[Len(Tail(Turned)) + 1] = Winner
    BY <2>1, <2>2, AppendProperties
  <2>4. Len(Turned) - 1 + 1 = Len(Turned)
    BY <1>1
  <2>5. DOMAIN Rotated = 1 .. Len(Rotated)
    BY <2>3, LenProperties
  <2>6. Turned[1] = Winner
    BY <1>1, <1>2
  <2> QED
    BY <1>1, <1>2, <2>2, <2>3, <2>4, <2>5, <2>6
<1>3. CASE ~ (Turned # <<>> /\ Head(Turned) = Winner)
  <2>1. Rotated = Turned
    BY <1>3 DEF Rotated, Turned
  <2>2. Turned # <<>> => Turned[1] # Winner
    BY <1>1, <1>3
  <2> QED
    BY <1>1, <2>1, <2>2
<1> QED
  BY <1>2, <1>3

LEMMA RotatedOnce ==
  ASSUME ring \in Seq(Slot),
         \A i, j \in DOMAIN ring : ring[i] = ring[j] => i = j
  PROVE  /\ \A i, j \in DOMAIN Rotated : Rotated[i] = Rotated[j] => i = j
         /\ {Rotated[i] : i \in DOMAIN Rotated} = InRing \ Forgotten
<1>1. /\ \A i, j \in DOMAIN Turned : Turned[i] = Turned[j] => i = j
      /\ {Turned[i] : i \in DOMAIN Turned} = InRing \ Forgotten
  BY TurnedOnce
<1>2. DOMAIN Turned = 1 .. Len(Turned) /\ Len(Turned) \in Nat /\ DOMAIN Rotated = DOMAIN Turned
  BY TurnedEntries, RotatedEntries
<1>3. CASE Rotated = Turned
  BY <1>1, <1>3
<1>4. CASE /\ Turned # <<>> /\ Turned[1] = Winner
           /\ \A i \in 1 .. Len(Turned) - 1 : Rotated[i] = Turned[i + 1]
           /\ Rotated[Len(Turned)] = Winner
  <2> DEFINE from(i) == IF i = Len(Turned) THEN 1 ELSE i + 1
  <2>1. ASSUME NEW i \in DOMAIN Rotated
        PROVE  from(i) \in DOMAIN Turned /\ Rotated[i] = Turned[from(i)]
    BY <1>2, <1>4
  <2>2. \A i, j \in DOMAIN Rotated : from(i) = from(j) => i = j
    BY <1>2
  <2>3. ASSUME NEW p \in DOMAIN Turned
        PROVE  \E i \in DOMAIN Rotated : from(i) = p
    <3>1. CASE p = 1
      BY <1>2, <3>1
    <3>2. CASE p # 1
      <4>1. p - 1 \in DOMAIN Rotated /\ p - 1 # Len(Turned) /\ (p - 1) + 1 = p
        BY <1>2, <3>2
      <4> QED
        BY <4>1
    <3> QED
      BY <3>1, <3>2
  <2> HIDE DEF from
  <2>4. \A i, j \in DOMAIN Rotated : Rotated[i] = Rotated[j] => i = j
    BY <1>1, <2>1, <2>2
  <2>5. {Rotated[i] : i \in DOMAIN Rotated} = {Turned[i] : i \in DOMAIN Turned}
    BY <2>1, <2>3
  <2> QED
    BY <1>1, <2>4, <2>5
<1> QED
  BY <1>3, <1>4, RotatedEntries

-------------------------------------------------------------------------------
(* The number of requests. *)

\* A place is a queue and an index in it.
LEMMA PlacesOf ==
  ASSUME NEW pq
  PROVE  \A s \in DOMAIN pq : \A i \in DOMAIN pq[s] : <<s, i>> \in Places(pq)
BY DEF Places

LEMMA PlaceOf ==
  ASSUME NEW pq, NEW x \in Places(pq)
  PROVE  \E s, i : s \in DOMAIN pq /\ i \in DOMAIN pq[s] /\ x = <<s, i>>
BY DEF Places

LEMMA PlacesFinite ==
  ASSUME NEW R, NEW D, IsFiniteSet(D), NEW pq \in [D -> Seq(R)]
  PROVE  IsFiniteSet(Places(pq)) /\ Total(pq) \in Nat
<1> DEFINE place(s) == {s} \X DOMAIN pq[s]
           T == {place(s) : s \in D}
           f == [s \in D |-> place(s)]
<1>1. f \in Surjection(D, T)
  BY DEF Surjection
<1>2. IsFiniteSet(T)
  <2> HIDE DEF f, T
  <2> QED
    BY <1>1, FS_Surjection
<1>3. ASSUME NEW s \in D
      PROVE  IsFiniteSet(place(s))
  <2>1. DOMAIN pq[s] = 1 .. Len(pq[s]) /\ Len(pq[s]) \in Nat
    BY LenProperties
  <2>2. IsFiniteSet(DOMAIN pq[s])
    BY <2>1, FS_Interval
  <2>3. IsFiniteSet({s})
    BY FS_Singleton
  <2> QED
    BY <2>2, <2>3, FS_Product
<1>4. IsFiniteSet(UNION T)
  <2>1. \A t \in T : IsFiniteSet(t)
    BY <1>3
  <2> HIDE DEF T
  <2> QED
    BY <1>2, <2>1, FS_UNION
<1>5. Places(pq) = UNION T
  BY DEF Places
<1> QED
  BY <1>4, <1>5, FS_CardinalityType DEF Total

\* One place more is one request more.
LEMMA TotalPlus ==
  ASSUME NEW R, NEW D, IsFiniteSet(D), NEW pq \in [D -> Seq(R)], NEW pr,
         NEW x, x \notin Places(pq), Places(pr) = Places(pq) \cup {x}
  PROVE  Total(pr) = Total(pq) + 1
BY PlacesFinite, FS_AddElement DEF Total

\* pr is pq with a request more, with one less, and without a queue.
Grown(R, D, pq, s, r, pr) ==
  /\ IsFiniteSet(D) /\ pq \in [D -> Seq(R)] /\ r \in R
  /\ DOMAIN pr = D \cup {s} /\ pr = [t \in D \cup {s} |-> pr[t]]
  /\ \A t \in D \ {s} : pr[t] = pq[t]
  /\ s \in D => pr[s] = Append(pq[s], r)
  /\ s \notin D => pr[s] = <<r>>

Shrunk(R, D, pq, s, pr) ==
  /\ IsFiniteSet(D) /\ pq \in [D -> Seq(R)] /\ s \in D /\ Len(pq[s]) > 1
  /\ pr \in [D -> Seq(R)] /\ pr[s] = Tail(pq[s])
  /\ \A t \in D \ {s} : pr[t] = pq[t]

Lessened(R, D, pq, s, pr) ==
  /\ IsFiniteSet(D) /\ pq \in [D -> Seq(R)] /\ s \in D /\ Len(pq[s]) <= 1
  /\ pr = Omit(pq, s)

\* A queue, and the same with a request more.
LEMMA Longer ==
  ASSUME NEW R, NEW q \in Seq(R), NEW r \in R
  PROVE  /\ Append(q, r) \in Seq(R) /\ DOMAIN Append(q, r) = 1 .. Len(q) + 1
         /\ Len(q) \in Nat /\ DOMAIN q = 1 .. Len(q)
<1>1. Append(q, r) \in Seq(R) /\ Len(Append(q, r)) = Len(q) + 1
  BY AppendProperties
<1>2. Len(q) \in Nat /\ DOMAIN q = 1 .. Len(q)
  BY LenProperties
<1>3. DOMAIN Append(q, r) = 1 .. Len(Append(q, r))
  BY <1>1, LenProperties
<1> QED
  BY <1>1, <1>2, <1>3

\* Its queues are sequences of requests.
LEMMA GrownQueues ==
  ASSUME NEW R, NEW D, NEW pq, NEW s, NEW r, NEW pr, Grown(R, D, pq, s, r, pr)
  PROVE  pr \in [D \cup {s} -> Seq(R)]
<1> USE DEF Grown
<1>1. pr[s] \in Seq(R)
  <2>1. CASE s \in D
    <3>1. pr[s] = Append(pq[s], r) /\ pq[s] \in Seq(R)
      BY <2>1
    <3>2. Append(pq[s], r) \in Seq(R)
      BY <3>1, Longer
    <3> QED
      BY <3>1, <3>2
  <2>2. CASE s \notin D
    <3>1. pr[s] = <<r>> /\ r \in R
      BY <2>2
    <3> HIDE DEF Grown
    <3> QED
      BY <3>1
  <2> QED
    BY <2>1, <2>2
<1>2. \A t \in D \ {s} : pr[t] \in Seq(R)
  OBVIOUS
<1> QED
  BY <1>1, <1>2

\* A request more at the end of a queue.
LEMMA TotalAppend ==
  ASSUME NEW R, NEW D, NEW pq, NEW s, NEW r, NEW pr, Grown(R, D, pq, s, r, pr)
  PROVE  Total(pr) = Total(pq) + 1
<1> USE DEF Grown
<1>1. DOMAIN pr = D \cup {s} /\ \A t \in D \ {s} : pr[t] = pq[t]
  OBVIOUS
<1>2. PICK n \in Nat : /\ pr[s] \in Seq(R) /\ DOMAIN pr[s] = 1 .. n + 1
                       /\ s \in D => DOMAIN pq[s] = 1 .. n
                       /\ s \notin D => n = 0
  <2>1. CASE s \in D
    <3>1. /\ pr[s] = Append(pq[s], r)
          /\ Append(pq[s], r) \in Seq(R) /\ DOMAIN Append(pq[s], r) = 1 .. Len(pq[s]) + 1
          /\ Len(pq[s]) \in Nat /\ DOMAIN pq[s] = 1 .. Len(pq[s])
      BY <2>1, Longer
    <3> QED
      BY <2>1, <3>1
  <2>2. CASE s \notin D
    <3>1. /\ pr[s] = <<r>> /\ <<r>> \in Seq(R) /\ DOMAIN <<r>> = 1 .. 0 + 1
      BY <2>2
    <3> QED
      BY <2>2, <3>1
  <2> QED
    BY <2>1, <2>2
<1>3. DOMAIN pq = D
  OBVIOUS
<1>4. <<s, n + 1>> \notin Places(pq)
  <2> SUFFICES ASSUME <<s, n + 1>> \in Places(pq)
               PROVE  FALSE
    OBVIOUS
  <2>1. PICK t, i : t \in DOMAIN pq /\ i \in DOMAIN pq[t] /\ <<s, n + 1>> = <<t, i>>
    BY PlaceOf
  <2>2. s \in D /\ n + 1 \in 1 .. n
    BY <1>2, <1>3, <2>1
  <2> QED
    BY <1>2, <2>2
<1>5. Places(pr) = Places(pq) \cup {<<s, n + 1>>}
  <2>1. ASSUME NEW x \in Places(pr)
        PROVE  x \in Places(pq) \/ x = <<s, n + 1>>
    <3>1. PICK t, i : t \in DOMAIN pr /\ i \in DOMAIN pr[t] /\ x = <<t, i>>
      BY PlaceOf
    <3>2. CASE t # s
      BY <1>1, <1>3, <3>1, <3>2, PlacesOf
    <3>3. CASE t = s
      <4>1. i \in 1 .. n + 1 /\ (i = n + 1 \/ i \in 1 .. n)
        BY <1>2, <3>1, <3>3
      <4>2. CASE i \in 1 .. n /\ s \in D
        BY <1>2, <1>3, <3>1, <3>3, <4>2, PlacesOf
      <4>3. CASE s \notin D
        <5>1. n = 0
          BY <1>2, <4>3
        <5> QED
          BY <3>1, <3>3, <4>1, <5>1
      <4> QED
        BY <3>1, <3>3, <4>1, <4>2, <4>3
    <3> QED
      BY <3>2, <3>3
  <2>2. ASSUME NEW x \in Places(pq)
        PROVE  x \in Places(pr)
    <3>1. PICK t, i : t \in DOMAIN pq /\ i \in DOMAIN pq[t] /\ x = <<t, i>>
      BY PlaceOf
    <3>2. t \in D /\ i \in DOMAIN pr[t]
      BY <1>1, <1>2, <1>3, <3>1
    <3> QED
      BY <1>1, <3>1, <3>2, PlacesOf
  <2>3. <<s, n + 1>> \in Places(pr)
    <3>1. n + 1 \in DOMAIN pr[s] /\ s \in DOMAIN pr
      BY <1>1, <1>2
    <3> QED
      BY <3>1, PlacesOf
  <2> QED
    BY <2>1, <2>2, <2>3
<1> QED
  BY <1>4, <1>5, TotalPlus

\* A request less, at the head of a queue that goes on.
LEMMA TotalTail ==
  ASSUME NEW R, NEW D, NEW pq, NEW s, NEW pr, Shrunk(R, D, pq, s, pr)
  PROVE  Total(pr) = Total(pq) - 1
<1> USE DEF Shrunk
<1> DEFINE n == Len(pq[s])
<1>1. pq[s] \in Seq(R) /\ n \in Nat /\ DOMAIN pq[s] = 1 .. n /\ n > 1
  BY LenProperties
<1>2. pq[s] # <<>>
  BY <1>1, EmptySeq
<1>3. Tail(pq[s]) \in Seq(R) /\ Len(Tail(pq[s])) = n - 1
  BY <1>1, <1>2, HeadTailProperties
<1>4. DOMAIN Tail(pq[s]) = 1 .. n - 1
  BY <1>3, LenProperties
<1>5. /\ pr[s] = Tail(pq[s]) /\ DOMAIN pr[s] = 1 .. n - 1
      /\ \A t \in D \ {s} : pr[t] = pq[t]
  BY <1>4
<1>6. pr \in [D -> Seq(R)]
  OBVIOUS
<1>7. DOMAIN pr = D /\ DOMAIN pq = D
  OBVIOUS
<1> HIDE DEF n
<1>8. <<s, n>> \notin Places(pr)
  <2> SUFFICES ASSUME <<s, n>> \in Places(pr)
               PROVE  FALSE
    OBVIOUS
  <2>1. PICK t, i : t \in DOMAIN pr /\ i \in DOMAIN pr[t] /\ <<s, n>> = <<t, i>>
    BY PlaceOf
  <2>2. n \in 1 .. n - 1
    BY <1>5, <2>1
  <2> QED
    BY <1>1, <2>2
<1>9. Places(pq) = Places(pr) \cup {<<s, n>>}
  <2>1. ASSUME NEW x \in Places(pq)
        PROVE  x \in Places(pr) \/ x = <<s, n>>
    <3>1. PICK t, i : t \in DOMAIN pq /\ i \in DOMAIN pq[t] /\ x = <<t, i>>
      BY PlaceOf
    <3>2. t = s => i = n \/ i \in DOMAIN pr[t]
      BY <1>1, <1>5, <1>7, <3>1
    <3>3. t # s => i \in DOMAIN pr[t]
      BY <1>5, <1>7, <3>1
    <3> QED
      BY <1>7, <3>1, <3>2, <3>3, PlacesOf
  <2>2. ASSUME NEW x \in Places(pr)
        PROVE  x \in Places(pq)
    <3>1. PICK t, i : t \in DOMAIN pr /\ i \in DOMAIN pr[t] /\ x = <<t, i>>
      BY PlaceOf
    <3>2. i \in DOMAIN pq[t]
      BY <1>1, <1>5, <1>7, <3>1
    <3> QED
      BY <1>7, <3>1, <3>2, PlacesOf
  <2>3. <<s, n>> \in Places(pq)
    <3>1. n \in DOMAIN pq[s]
      BY <1>1
    <3> QED
      BY <1>7, <3>1, PlacesOf
  <2> QED
    BY <2>1, <2>2, <2>3
<1>10. Total(pq) = Total(pr) + 1 /\ Total(pr) \in Nat
  BY <1>6, <1>8, <1>9, TotalPlus, PlacesFinite
<1> QED
  BY <1>6, <1>10

\* A queue that goes takes with it what it held, one request at most.
LEMMA TotalOmit ==
  ASSUME NEW R, NEW D, NEW pq, NEW s, NEW pr, Lessened(R, D, pq, s, pr)
  PROVE  Total(pr) = IF pq[s] = <<>> THEN Total(pq) ELSE Total(pq) - 1
<1> USE DEF Lessened
<1>1. pr = [t \in D \ {s} |-> pq[t]]
  BY DEF Omit, Restrict
<1>2. /\ pr \in [D \ {s} -> Seq(R)] /\ DOMAIN pr = D \ {s} /\ DOMAIN pq = D
      /\ \A t \in D \ {s} : pr[t] = pq[t]
  BY <1>1
<1>3. pq[s] \in Seq(R) /\ Len(pq[s]) \in Nat /\ DOMAIN pq[s] = 1 .. Len(pq[s])
  BY LenProperties
<1>4. CASE pq[s] = <<>>
  <2>1. DOMAIN pq[s] = {}
    BY <1>4
  <2>2. Places(pr) = Places(pq)
    BY <1>2, <2>1 DEF Places
  <2> QED
    BY <1>2, <1>4, <2>2 DEF Total
<1>5. CASE pq[s] # <<>>
  <2>1. Len(pq[s]) = 1
    BY <1>3, <1>5, EmptySeq
  <2>2. DOMAIN pq[s] = {1}
    BY <1>3, <2>1
  <2>3. <<s, 1>> \notin Places(pr)
    BY <1>2 DEF Places
  <2>4. Places(pq) = Places(pr) \cup {<<s, 1>>}
    BY <1>2, <2>2 DEF Places
  <2>5. IsFiniteSet(D \ {s})
    BY FS_RemoveElement
  <2>6. Total(pq) = Total(pr) + 1
    BY <1>2, <2>3, <2>4, <2>5, TotalPlus
  <2> QED
    BY <1>2, <1>5, <2>5, <2>6, PlacesFinite
<1> QED
  BY <1>4, <1>5

-------------------------------------------------------------------------------
(* What the operations do to the queues. *)

LEMMA EnqueueQueues ==
  ASSUME NEW R, Kept(R), NEW s \in Slot, NEW r \in R, Enqueue(s, r)
  PROVE  /\ DOMAIN pqueues' = Live \cup {s} /\ pqueues' \in [Live \cup {s} -> Seq(R)]
         /\ IsFiniteSet(Live \cup {s})
         /\ \A t \in Live \ {s} : pqueues'[t] = pqueues[t]
         /\ s \in Live => pqueues'[s] = Append(pqueues[s], r)
         /\ s \notin Live => pqueues'[s] = <<r>>
         /\ Total(pqueues') = Total(pqueues) + 1
<1>1. pqueues' = With(pqueues, s, IF s \in Live THEN Append(pqueues[s], r) ELSE <<r>>)
  BY DEF Enqueue
<1>2. /\ DOMAIN pqueues' = Live \cup {s} /\ pqueues' = [t \in Live \cup {s} |-> pqueues'[t]]
      /\ \A t \in Live \ {s} : pqueues'[t] = pqueues[t]
      /\ s \in Live => pqueues'[s] = Append(pqueues[s], r)
      /\ s \notin Live => pqueues'[s] = <<r>>
  BY <1>1 DEF With, Live
<1>3. pqueues \in [Live -> Seq(R)] /\ IsFiniteSet(Live)
  BY DEF Kept
<1>4. pqueues' \in [Live \cup {s} -> Seq(R)] /\ Total(pqueues') = Total(pqueues) + 1
  <2>1. Grown(R, Live, pqueues, s, r, pqueues')
    BY <1>2, <1>3 DEF Grown
  <2>2. Total(pqueues') = Total(pqueues) + 1
    BY <2>1, TotalAppend
  <2>3. pqueues' \in [Live \cup {s} -> Seq(R)]
    BY <2>1, GrownQueues
  <2> QED
    BY <2>2, <2>3
<1> QED
  BY <1>2, <1>3, <1>4, FS_AddElement

LEMMA NextQueues ==
  ASSUME NEW R, Kept(R), RingComplete, isOpen, NextRequest
  PROVE  /\ Winner \in Live
         /\ \/ Len(pqueues[Winner]) <= 1 /\ DOMAIN pqueues' = Live \ {Winner}
            \/ /\ Len(pqueues[Winner]) > 1 /\ DOMAIN pqueues' = Live
               /\ pqueues'[Winner] = Tail(pqueues[Winner])
         /\ \A t \in Live \ {Winner} : pqueues'[t] = pqueues[t]
         /\ pqueues' \in [DOMAIN pqueues' -> Seq(R)]
         /\ popped' \in [Slot -> Seq(R)]
         /\ Total(pqueues') = IF pqueues[Winner] = <<>> THEN Total(pqueues) ELSE Total(pqueues) - 1
<1> DEFINE s == Winner
           q == pqueues[Winner]
<1>1. s \in Live
  BY WinnerLive DEF NextRequest
<1>2. /\ pqueues \in [Live -> Seq(R)] /\ IsFiniteSet(Live) /\ s \in Slot
      /\ popped \in [Slot -> Seq(R)]
  BY <1>1 DEF Kept
<1>3. q \in Seq(R) /\ Len(q) \in Nat
  BY <1>1, <1>2, LenProperties
<1>4. CASE Len(q) <= 1
  <2>1. pqueues' = Omit(pqueues, s) /\ popped' = [popped EXCEPT ![s] = <<>>]
    BY <1>4 DEF NextRequest
  <2>2. /\ DOMAIN pqueues' = Live \ {s}
        /\ \A t \in Live \ {s} : pqueues'[t] = pqueues[t]
    BY <2>1 DEF Omit, Restrict, Live
  <2>3. /\ pqueues' \in [Live \ {s} -> Seq(R)]
        /\ Total(pqueues') = IF q = <<>> THEN Total(pqueues) ELSE Total(pqueues) - 1
    <3>1. Lessened(R, Live, pqueues, s, pqueues')
      BY <1>1, <1>2, <1>4, <2>1 DEF Lessened
    <3>2. Total(pqueues') = IF q = <<>> THEN Total(pqueues) ELSE Total(pqueues) - 1
      BY <3>1, TotalOmit
    <3>3. pqueues' \in [Live \ {s} -> Seq(R)]
      BY <1>2, <2>1 DEF Omit, Restrict
    <3> QED
      BY <3>2, <3>3
  <2>4. popped' \in [Slot -> Seq(R)]
    <3>1. <<>> \in Seq(R)
      BY EmptySeq
    <3> QED
      BY <1>2, <2>1, <3>1
  <2> QED
    BY <1>1, <1>4, <2>2, <2>3, <2>4
<1>5. CASE Len(q) > 1
  <2>1. pqueues' = [pqueues EXCEPT ![s] = Tail(q)] /\ popped' = [popped EXCEPT ![s] = Append(@, Head(q))]
    BY <1>3, <1>5 DEF NextRequest
  <2>2. q # <<>>
    BY <1>5, EmptySeq
  <2>3. Head(q) \in R /\ Tail(q) \in Seq(R)
    BY <1>3, <2>2, HeadTailProperties
  <2>4. popped' \in [Slot -> Seq(R)]
    <3>1. Append(popped[s], Head(q)) \in Seq(R)
      BY <1>2, <2>3, AppendProperties
    <3>2. popped' = [popped EXCEPT ![s] = Append(popped[s], Head(q))]
      BY <2>1
    <3> QED
      BY <1>2, <3>1, <3>2
  <2>5. /\ pqueues' \in [Live -> Seq(R)] /\ pqueues'[s] = Tail(q)
        /\ \A t \in Live \ {s} : pqueues'[t] = pqueues[t]
    BY <1>1, <1>2, <2>1, <2>3
  <2>6. Total(pqueues') = Total(pqueues) - 1
    <3>1. Shrunk(R, Live, pqueues, s, pqueues')
      BY <1>1, <1>2, <1>5, <2>5 DEF Shrunk
    <3> QED
      BY <3>1, TotalTail
  <2>7. DOMAIN pqueues' = Live
    BY <2>5
  <2> QED
    BY <1>1, <1>5, <2>2, <2>4, <2>5, <2>6, <2>7
<1> QED
  BY <1>3, <1>4, <1>5

LEMMA OpenedQueues ==
  ASSUME NEW R, Kept(R), Opened
  PROVE  /\ DOMAIN pqueues' = Listed /\ pqueues' \in [Listed -> Seq(R)]
         /\ IsFiniteSet(Listed) /\ Listed \subseteq Slot
         /\ \A s \in Listed : IF s \in OnDisk THEN pqueues'[s] \in Replays(s)
                                              ELSE pqueues'[s] = <<>>
         /\ size' = Total(pqueues')
<1>1. PICK q : /\ \A s \in OnDisk : q[s] \in Replays(s)
               /\ pqueues' = [s \in Listed |-> IF s \in OnDisk THEN q[s] ELSE <<>>]
               /\ size' = Total(pqueues')
  BY DEF Opened
<1>2. OnDisk \subseteq Live /\ IsFiniteSet(OnDisk)
  BY FS_Subset DEF OnDisk, Kept
<1>3. IsFiniteSet(Listed) /\ Listed \subseteq Slot
  BY <1>2 DEF Listed, Kept
<1>4. ASSUME NEW s \in OnDisk, NEW t \in Replays(s)
      PROVE  t \in Seq(R)
  <2>1. pqueues[s] \in Seq(R) /\ popped[s] \in Seq(R)
    BY <1>2 DEF Kept
  <2>2. PICK i \in 1 .. Len(popped[s]) + 1 : t = SubSeq(popped[s], i, Len(popped[s])) \o pqueues[s]
    BY DEF Replays
  <2>3. Len(popped[s]) \in Nat /\ \A j \in 1 .. Len(popped[s]) : popped[s][j] \in R
    BY <2>1, LenProperties, ElementOfSeq
  <2>4. \A j \in i .. Len(popped[s]) : popped[s][j] \in R
    BY <2>3
  <2>5. SubSeq(popped[s], i, Len(popped[s])) \in Seq(R)
    BY <2>3, <2>4, SubSeqProperties
  <2> QED
    BY <2>1, <2>2, <2>5, ConcatProperties
<1>5. \A s \in Listed : IF s \in OnDisk THEN pqueues'[s] \in Replays(s) ELSE pqueues'[s] = <<>>
  BY <1>1
<1>6. \A s \in Listed : pqueues'[s] \in Seq(R)
  BY <1>4, <1>5, EmptySeq
<1> QED
  BY <1>1, <1>3, <1>5, <1>6

-------------------------------------------------------------------------------
(* What they do to the ring. *)

LEMMA EnqueueRing ==
  ASSUME NEW R, Kept(R), RingComplete, isOpen, NEW s \in Slot, NEW r \in R, Enqueue(s, r)
  PROVE  ring' \in Seq(Slot) /\ RingComplete'
<1>1. DOMAIN pqueues' = Live \cup {s} /\ isOpen' = isOpen
  BY EnqueueQueues DEF Enqueue
<1>2. /\ ring \in Seq(Slot) /\ Live \subseteq members /\ members = InRing
      /\ \A i, j \in DOMAIN ring : ring[i] = ring[j] => i = j
  BY DEF Kept, RingComplete, InRing
<1>3. CASE s \in members
  <2>1. ring' = ring /\ members' = members
    BY <1>3 DEF Enqueue, RingAdd
  <2> QED
    BY <1>1, <1>2, <1>3, <2>1 DEF RingComplete, InRing, Live
<1>4. CASE s \notin members
  <2> DEFINE n == Len(ring)
  <2>1. ring' = Append(ring, s) /\ members' = members \cup {s}
    BY <1>4 DEF Enqueue, RingAdd
  <2>2. /\ ring' \in Seq(Slot) /\ Len(ring') = n + 1
        /\ \A i \in 1 .. n : ring'[i] = ring[i]
        /\ ring'[n + 1] = s
    BY <1>2, <2>1, AppendProperties
  <2>3. DOMAIN ring = 1 .. n /\ DOMAIN ring' = 1 .. n + 1
    BY <1>2, <2>2, LenProperties
  <2>4. n \in Nat
    BY <1>2, LenProperties
  <2> HIDE DEF n
  <2>5. \A i \in DOMAIN ring' : (i \in DOMAIN ring /\ ring'[i] = ring[i]) \/ (i = n + 1 /\ ring'[i] = s)
    BY <2>2, <2>3, <2>4
  <2>6. DOMAIN ring \subseteq DOMAIN ring' /\ n + 1 \in DOMAIN ring'
    BY <2>3, <2>4
  <2>7. \A i \in DOMAIN ring : ring[i] # s
    BY <1>2, <1>4 DEF InRing
  <2>8. \A i, j \in DOMAIN ring' : ring'[i] = ring'[j] => i = j
    BY <1>2, <2>5, <2>7
  <2>9. members' = {ring'[i] : i \in DOMAIN ring'}
    <3>1. \A i \in DOMAIN ring' : ring'[i] \in members \cup {s}
      BY <1>2, <2>5 DEF InRing
    <3>2. \A t \in members \cup {s} : \E i \in DOMAIN ring' : ring'[i] = t
      BY <1>2, <2>2, <2>3, <2>6 DEF InRing
    <3> QED
      BY <2>1, <3>1, <3>2
  <2> QED
    BY <1>1, <1>2, <2>1, <2>2, <2>8, <2>9 DEF RingComplete, Live
<1> QED
  BY <1>3, <1>4

LEMMA NextRing ==
  ASSUME NEW R, Kept(R), RingComplete, isOpen, NextRequest
  PROVE  ring' \in Seq(Slot) /\ RingComplete'
<1>1. DOMAIN pqueues' \subseteq Live
  BY NextQueues
<1>2. /\ ring \in Seq(Slot) /\ Live \subseteq members /\ members = InRing
      /\ \A i, j \in DOMAIN ring : ring[i] = ring[j] => i = j
  BY DEF Kept, RingComplete, InRing
<1>3. ring' = Rotated /\ members' = members \ Forgotten
  BY DEF NextRequest
<1>4. /\ ring' \in Seq(Slot)
      /\ \A i, j \in DOMAIN ring' : ring'[i] = ring'[j] => i = j
      /\ {ring'[i] : i \in DOMAIN ring'} = InRing \ Forgotten
  BY <1>2, <1>3, RotatedEntries, RotatedOnce
<1>5. Live \cap Forgotten = {}
  BY DEF Forgotten
<1> QED
  BY <1>1, <1>2, <1>3, <1>4, <1>5 DEF RingComplete, Live

LEMMA OpenedRing ==
  ASSUME NEW R, Kept(R), Opened
  PROVE  ring' \in Seq(Slot) /\ RingComplete'
<1>1. DOMAIN pqueues' = Listed /\ IsFiniteSet(Listed) /\ Listed \subseteq Slot
  BY OpenedQueues
<1>2. /\ ring' \in [1 .. Cardinality(Listed) -> Listed] /\ members' = Listed
      /\ \A s \in Listed : \E i \in DOMAIN ring' :
           ring'[i] = s /\ \A j \in DOMAIN ring' : ring'[j] = s => j = i
  BY DEF Opened, Orders
<1>3. Cardinality(Listed) \in Nat
  BY <1>1, FS_CardinalityType
<1>4. ring' \in Seq(Slot)
  BY <1>1, <1>2, <1>3
<1>5. \A i \in DOMAIN ring' : ring'[i] \in Listed
  BY <1>2
<1>6. \A i, j \in DOMAIN ring' : ring'[i] = ring'[j] => i = j
  BY <1>2, <1>5
<1>7. Listed = {ring'[i] : i \in DOMAIN ring'}
  BY <1>2, <1>5
<1> QED
  BY <1>1, <1>2, <1>4, <1>6, <1>7 DEF RingComplete, Live

-------------------------------------------------------------------------------
(* Turns. *)

\* A domain that waits is not walked past.
LEMMA WaitsBehind ==
  ASSUME ring \in Seq(Slot), NEW i \in DOMAIN ring, Waiting(ring[i])
  PROVE  /\ i - Walked \in 1 .. Len(Behind) /\ i - Walked \in DOMAIN Turned
         /\ Turned[i - Walked] = ring[i] /\ Behind # <<>>
<1>1. DOMAIN ring = 1 .. Len(ring)
  BY LenProperties
<1>2. Walked \in Nat /\ Passed = 1 .. Walked /\ Len(ring) \in Nat
  BY WalkedFront, LenProperties
<1>3. i \in Nat /\ i >= 1 /\ i <= Len(ring)
  BY <1>1, <1>2
<1>4. i \notin Passed
  <2>1. i \in 1 .. i
    BY <1>3
  <2> QED
    BY <2>1 DEF Waiting, Passed
<1>5. i > Walked
  BY <1>2, <1>3, <1>4
<1>6. /\ Len(Behind) = Len(ring) - Walked
      /\ \A j \in 1 .. Len(ring) - Walked : Turned[j] = ring[Walked + j]
      /\ Len(Turned) = (Len(ring) - Walked) + Len(Busy) /\ DOMAIN Turned = 1 .. Len(Turned)
  BY BehindEntries, TurnedEntries
<1>7. Len(Busy) \in Nat
  BY BusyEntries
<1>8. i - Walked \in 1 .. Len(ring) - Walked /\ Walked + (i - Walked) = i
  BY <1>2, <1>3, <1>5
<1>9. i - Walked \in DOMAIN Turned
  BY <1>2, <1>6, <1>7, <1>8
<1>10. Behind # <<>>
  <2>1. Len(Behind) >= 1
    BY <1>2, <1>6, <1>8
  <2> QED
    BY <2>1
<1> QED
  BY <1>6, <1>8, <1>9, <1>10

\* One turn: who waits keeps its place, and who is served goes behind it.
LEMMA NextFair ==
  ASSUME NEW R, Kept(R), RingComplete, isOpen, NextRequest,
         NEW s \in Live, NEW t \in Live \cap DOMAIN pqueues',
         s \in DOMAIN pqueues', s # t, Waiting(s), pqueues'[s] = pqueues[s]
  PROVE  /\ Ahead(s, t) => Ahead(s, t)'
         /\ Len(pqueues'[t]) < Len(pqueues[t]) => Ahead(s, t)'
<1>1. /\ ring \in Seq(Slot) /\ Live \subseteq InRing
      /\ \A i, j \in DOMAIN ring : ring[i] = ring[j] => i = j
      /\ pqueues \in [Live -> Seq(R)] /\ Live \subseteq Slot
  BY DEF Kept, RingComplete, InRing
<1>2. /\ Winner \in Live
      /\ \/ Len(pqueues[Winner]) <= 1 /\ DOMAIN pqueues' = Live \ {Winner}
         \/ Len(pqueues[Winner]) > 1 /\ pqueues'[Winner] = Tail(pqueues[Winner])
      /\ \A u \in Live \ {Winner} : pqueues'[u] = pqueues[u]
  BY NextQueues
<1>3. s # Winner
  <2> SUFFICES ASSUME s = Winner
               PROVE  FALSE
    OBVIOUS
  <2>1. Len(pqueues[s]) > 1 /\ pqueues[s] = Tail(pqueues[s]) /\ pqueues[s] \in Seq(R)
    BY <1>1, <1>2
  <2>2. pqueues[s] # <<>>
    BY <2>1, EmptySeq
  <2>3. Len(pqueues[s]) = Len(pqueues[s]) - 1 /\ Len(pqueues[s]) \in Nat
    BY <2>1, <2>2, HeadTailProperties, LenProperties
  <2> QED
    BY <2>3
<1>4. /\ DOMAIN Turned = 1 .. Len(Turned) /\ Len(Turned) \in Nat
      /\ Walked \in Nat
      /\ ring' = Rotated /\ DOMAIN ring' = DOMAIN Turned
      /\ \/ Rotated = Turned /\ (Turned # <<>> => Turned[1] # Winner)
         \/ /\ Turned[1] = Winner
            /\ \A i \in 1 .. Len(Turned) - 1 : Rotated[i] = Turned[i + 1]
            /\ Rotated[Len(Turned)] = Winner
  BY <1>1, WalkedFront, TurnedEntries, RotatedEntries DEF NextRequest
<1>5. ASSUME NEW i \in DOMAIN Turned, NEW j \in DOMAIN Turned, i < j,
             Turned[i] = s, Turned[j] = t
      PROVE  Ahead(s, t)'
  <2>1. CASE Rotated = Turned
    BY <1>4, <1>5, <2>1 DEF Ahead
  <2>2. CASE /\ Turned[1] = Winner
             /\ \A k \in 1 .. Len(Turned) - 1 : Rotated[k] = Turned[k + 1]
    <3>1. i # 1
      BY <1>3, <1>5, <2>2
    <3>2. /\ i - 1 \in 1 .. Len(Turned) - 1 /\ (i - 1) + 1 = i
          /\ j - 1 \in 1 .. Len(Turned) - 1 /\ (j - 1) + 1 = j
          /\ i - 1 < j - 1 /\ i - 1 \in DOMAIN Turned /\ j - 1 \in DOMAIN Turned
      BY <1>4, <1>5, <3>1
    <3>3. ring'[i - 1] = s /\ ring'[j - 1] = t
      BY <1>4, <1>5, <2>2, <3>2
    <3> QED
      BY <1>4, <3>2, <3>3 DEF Ahead
  <2> QED
    BY <1>4, <2>1, <2>2
<1>6. ASSUME Ahead(s, t)
      PROVE  Ahead(s, t)'
  <2>1. PICK i, j \in DOMAIN ring : i < j /\ ring[i] = s /\ ring[j] = t
    BY <1>6 DEF Ahead
  <2>2. i - Walked \in 1 .. Len(Behind) /\ i - Walked \in DOMAIN Turned /\ Turned[i - Walked] = s
    BY <1>1, <2>1, WaitsBehind
  <2>3. DOMAIN ring = 1 .. Len(ring) /\ Len(ring) \in Nat /\ Walked <= Len(ring)
    BY <1>1, LenProperties, WalkedFront
  <2>4. /\ \A k \in 1 .. Len(ring) - Walked : Turned[k] = ring[Walked + k]
        /\ Len(Turned) = (Len(ring) - Walked) + Len(Busy) /\ Len(Busy) \in Nat
    BY <1>1, TurnedEntries, BusyEntries
  <2>5. i \in Nat /\ j \in Nat /\ i - Walked >= 1 /\ j <= Len(ring)
    BY <2>1, <2>2, <2>3
  <2>6. /\ j - Walked \in 1 .. Len(ring) - Walked /\ Walked + (j - Walked) = j
        /\ i - Walked < j - Walked
    BY <1>4, <2>1, <2>3, <2>5
  <2>7. j - Walked \in DOMAIN Turned /\ Turned[j - Walked] = t
    BY <1>4, <2>1, <2>3, <2>4, <2>6
  <2> QED
    BY <1>5, <2>2, <2>6, <2>7
<1>7. ASSUME Len(pqueues'[t]) < Len(pqueues[t])
      PROVE  Ahead(s, t)'
  <2>1. t = Winner
    <3> SUFFICES ASSUME t # Winner
                 PROVE  FALSE
      OBVIOUS
    <3>1. pqueues'[t] = pqueues[t] /\ pqueues[t] \in Seq(R)
      BY <1>1, <1>2
    <3>2. Len(pqueues[t]) \in Nat
      BY <3>1, LenProperties
    <3> QED
      BY <1>7, <3>1, <3>2
  <2>2. PICK p \in DOMAIN ring : ring[p] = s
    BY <1>1 DEF InRing
  <2>3. /\ p - Walked \in 1 .. Len(Behind) /\ p - Walked \in DOMAIN Turned
        /\ Turned[p - Walked] = s /\ Behind # <<>>
    BY <1>1, <2>2, WaitsBehind
  <2> DEFINE i == p - Walked
  <2>4. CASE Rotated = Turned /\ (Turned # <<>> => Turned[1] # Winner)
    <3>1. ~ Hit
      <4> SUFFICES ASSUME Hit
                   PROVE  FALSE
        OBVIOUS
      <4>1. Winner = Head(Behind)
        BY DEF Winner
      <4>2. Head(Behind) = Behind[1] /\ Len(Behind) \in Nat
        BY <1>1, <2>3, BehindEntries
      <4>3. 1 \in 1 .. Len(Behind)
        BY <2>3, <4>2
      <4>4. Len(Behind) = Len(ring) - Walked /\ Behind[1] = ring[Walked + 1]
        BY <1>1, <4>3, BehindEntries
      <4>5. Turned[1] = ring[Walked + 1]
        BY <1>1, <4>3, <4>4, TurnedEntries
      <4>6. Turned # <<>>
        BY <2>3
      <4> QED
        BY <2>4, <4>1, <4>2, <4>4, <4>5, <4>6
    <3>2. Len(Busy) \in Nat /\ DOMAIN Busy = 1 .. Len(Busy)
      BY <1>1, BusyEntries
    <3>3. Busy # <<>>
      <4>1. ~ (Len(Busy) < ScanLimit)
        BY <2>3, <3>1 DEF Hit
      <4>2. Len(Busy) >= 1
        BY <3>2, <4>1
      <4> QED
        BY <4>2
    <3>4. PICK k \in DOMAIN Busy : LeastBusy = Busy[k]
      BY <3>3, LeastBusyThere
    <3>5. t = Busy[k]
      BY <2>1, <3>1, <3>4 DEF Winner
    <3>6. /\ Turned[(Len(ring) - Walked) + k] = Busy[k]
          /\ Len(Behind) = Len(ring) - Walked /\ Len(Behind) \in Nat
          /\ Len(Turned) = (Len(ring) - Walked) + Len(Busy)
      BY <1>1, <3>2, TurnedEntries, BehindEntries
    <3>7. Len(Behind) + k \in DOMAIN Turned /\ i < Len(Behind) + k
      BY <1>4, <2>3, <3>2, <3>6
    <3> QED
      BY <1>5, <2>3, <3>5, <3>6, <3>7
  <2>5. CASE /\ Turned[1] = Winner
             /\ \A k \in 1 .. Len(Turned) - 1 : Rotated[k] = Turned[k + 1]
             /\ Rotated[Len(Turned)] = Winner
    <3>1. i # 1
      BY <1>3, <2>3, <2>5
    <3>2. /\ i - 1 \in 1 .. Len(Turned) - 1 /\ (i - 1) + 1 = i
          /\ i - 1 < Len(Turned) /\ i - 1 \in DOMAIN Turned /\ Len(Turned) \in DOMAIN Turned
      BY <1>4, <2>3, <3>1
    <3>3. ring'[i - 1] = s /\ ring'[Len(Turned)] = t
      BY <1>4, <2>1, <2>3, <2>5, <3>2
    <3> QED
      BY <1>4, <3>2, <3>3 DEF Ahead
  <2> QED
    BY <1>4, <2>4, <2>5
<1> QED
  BY <1>6, <1>7

-------------------------------------------------------------------------------
(* The frontier under any callers, module FrontierAlone: the invariant its  *)
(* actions keep, and the properties that follow.                           *)

AloneInv ==
  /\ Kept(AnyRequest)
  /\ RingComplete
  /\ Counted
  /\ opens \in Nat

\* An empty frontier, open.
LEMMA AloneInitInv == AloneInit => AloneInv
<1> SUFFICES ASSUME AloneInit
             PROVE  AloneInv
  OBVIOUS
<1> USE DEF AloneInit, FrontierInit
<1>1. Live = {} /\ IsFiniteSet(Live) /\ IsFiniteSet(activeJson)
  BY FS_EmptySet DEF Live
<1>2. pqueues \in [Live -> Seq(AnyRequest)]
  BY <1>1 DEF Live
<1>3. popped \in [Slot -> Seq(AnyRequest)] /\ ring \in Seq(Slot)
  BY EmptySeq DEF NothingPopped
<1>4. active \in [Slot -> SUBSET AnyRequest] /\ \A s \in Slot : IsFiniteSet(active[s])
  BY FS_EmptySet DEF NoneActive
<1>5. Kept(AnyRequest)
  BY <1>1, <1>2, <1>3, <1>4 DEF Kept
<1>6. RingComplete
  BY <1>1 DEF RingComplete
<1>7. Counted
  <2>1. Places(pqueues) = {}
    BY DEF Places
  <2> QED
    BY <2>1, FS_EmptySet DEF Counted, Total
<1> QED
  BY <1>5, <1>6, <1>7 DEF AloneInv

\* enqueue_request
LEMMA EnqueueInv ==
  ASSUME AloneInv, NEW s \in Slot, NEW r \in AnyRequest, EnqueueRequest(s, r)
  PROVE  AloneInv'
<1>1. /\ Kept(AnyRequest) /\ RingComplete /\ isOpen /\ Enqueue(s, r)
      /\ active' = active /\ opens' = opens
  BY DEF EnqueueRequest, AloneInv
<1>2. /\ DOMAIN pqueues' = Live \cup {s} /\ pqueues' \in [Live \cup {s} -> Seq(AnyRequest)]
      /\ IsFiniteSet(Live \cup {s})
      /\ Total(pqueues') = Total(pqueues) + 1
  BY <1>1, EnqueueQueues
<1>3. ring' \in Seq(Slot) /\ RingComplete'
  BY <1>1, EnqueueRing
<1>4. /\ popped' = popped /\ activeJson' = activeJson /\ isOpen' = isOpen
      /\ size' = size + 1
  BY <1>1 DEF Enqueue
<1>5. Kept(AnyRequest)'
  BY <1>1, <1>2, <1>3, <1>4 DEF Kept, Live
<1>6. Counted'
  BY <1>1, <1>2, <1>4 DEF AloneInv, Counted, Total, Places
<1> QED
  BY <1>1, <1>3, <1>5, <1>6 DEF AloneInv

\* next_request
LEMMA PopInv ==
  ASSUME AloneInv, PopRequest
  PROVE  AloneInv'
<1>1. Kept(AnyRequest) /\ RingComplete /\ isOpen /\ NextRequest /\ opens' = opens
  BY DEF PopRequest, AloneInv
<1>2. /\ Winner \in Live /\ DOMAIN pqueues' \subseteq Live
      /\ pqueues' \in [DOMAIN pqueues' -> Seq(AnyRequest)]
      /\ popped' \in [Slot -> Seq(AnyRequest)]
      /\ Total(pqueues') = IF pqueues[Winner] = <<>> THEN Total(pqueues) ELSE Total(pqueues) - 1
  BY <1>1, NextQueues
<1>3. ring' \in Seq(Slot) /\ RingComplete'
  BY <1>1, NextRing
<1>4. /\ active' = active /\ activeJson' = activeJson /\ isOpen' = isOpen
      /\ size' = IF pqueues[Winner] = <<>> THEN size ELSE size - 1
  BY <1>1 DEF NextRequest, Remaining
<1>5. IsFiniteSet(DOMAIN pqueues')
  BY <1>1, <1>2, FS_Subset DEF Kept
<1>6. Kept(AnyRequest)'
  BY <1>1, <1>2, <1>3, <1>4, <1>5 DEF Kept, Live
<1>7. Counted'
  BY <1>1, <1>2, <1>4 DEF AloneInv, Counted, Total, Places
<1> QED
  BY <1>1, <1>3, <1>6, <1>7 DEF AloneInv

\* The downloader's slots come and go without the frontier's knowledge.
LEMMA DownloadInv ==
  ASSUME AloneInv, NEW s \in Slot, NEW r \in AnyRequest, DownloadStarts(s, r) \/ DownloadEnds(s, r)
  PROVE  AloneInv'
<1>1. /\ pqueues' = pqueues /\ popped' = popped /\ ring' = ring /\ members' = members
      /\ size' = size /\ activeJson' = activeJson /\ isOpen' = isOpen /\ opens' = opens
  BY DEF DownloadStarts, DownloadEnds, frontier
<1>2. active' = [active EXCEPT ![s] = active[s] \cup {r}]
      \/ active' = [active EXCEPT ![s] = active[s] \ {r}]
  BY DEF DownloadStarts, DownloadEnds, Sent, Left
<1>3. active \in [Slot -> SUBSET AnyRequest] /\ \A t \in Slot : IsFiniteSet(active[t])
  BY DEF AloneInv, Kept
<1>4. active' \in [Slot -> SUBSET AnyRequest]
  BY <1>2, <1>3
<1>5. IsFiniteSet(active[s] \cup {r}) /\ IsFiniteSet(active[s] \ {r})
  <2>1. IsFiniteSet(active[s])
    BY <1>3
  <2> QED
    BY <2>1, FS_AddElement, FS_RemoveElement
<1>6. \A t \in Slot : IsFiniteSet(active'[t])
  BY <1>2, <1>3, <1>5
<1>7. Kept(AnyRequest)'
  BY <1>1, <1>4, <1>6 DEF AloneInv, Kept, Live
<1> QED
  BY <1>1, <1>7 DEF AloneInv, RingComplete, Counted, Total, Places, Live

\* A slice only forgets what it has saved.
LEMMA CheckpointInv ==
  ASSUME AloneInv, Checkpoint
  PROVE  AloneInv'
<1>1. PICK slots \in SUBSET Live : CheckpointSlice(slots)
  BY DEF Checkpoint
<1>2. /\ pqueues' = pqueues /\ ring' = ring /\ members' = members /\ active' = active
      /\ size' = size /\ activeJson' = activeJson /\ isOpen' = isOpen /\ opens' = opens
      /\ popped' = [s \in Slot |-> IF s \in slots THEN <<>> ELSE popped[s]]
  BY <1>1 DEF CheckpointSlice, Checkpoint
<1>3. popped' \in [Slot -> Seq(AnyRequest)]
  BY <1>2, EmptySeq DEF AloneInv, Kept
<1>4. Kept(AnyRequest)'
  BY <1>2, <1>3 DEF AloneInv, Kept, Live
<1> QED
  BY <1>2, <1>4 DEF AloneInv, RingComplete, Counted, Total, Places, Live

\* A process ends with nothing in memory, killed or closed.
LEMMA EndInv ==
  ASSUME AloneInv, End
  PROVE  AloneInv'
<1>1. /\ ring' = <<>> /\ members' = {} /\ size' = 0 /\ active' = NoneActive
      /\ isOpen' = FALSE /\ pqueues' = pqueues /\ opens' = opens
      /\ popped' = popped \/ popped' = NothingPopped
      /\ activeJson' = activeJson \/ activeJson' = Live
  BY DEF End, Killed, Closed, Volatile
<1>2. popped' \in [Slot -> Seq(AnyRequest)] /\ ring' \in Seq(Slot)
  BY <1>1, EmptySeq DEF AloneInv, Kept, NothingPopped
<1>3. active' \in [Slot -> SUBSET AnyRequest] /\ \A s \in Slot : IsFiniteSet(active'[s])
  BY <1>1, FS_EmptySet DEF NoneActive
<1>4. Kept(AnyRequest)'
  BY <1>1, <1>2, <1>3 DEF AloneInv, Kept, Live
<1>5. RingComplete' /\ Counted'
  BY <1>1 DEF RingComplete, Counted
<1> QED
  BY <1>1, <1>4, <1>5 DEF AloneInv

\* A new process has what the files tell it.
LEMMA RestartInv ==
  ASSUME AloneInv, Restart
  PROVE  AloneInv'
<1>1. Kept(AnyRequest) /\ Opened /\ opens' = opens + 1
  BY DEF Restart, AloneInv
<1>2. /\ DOMAIN pqueues' = Listed /\ pqueues' \in [Listed -> Seq(AnyRequest)]
      /\ IsFiniteSet(Listed) /\ Listed \subseteq Slot
      /\ size' = Total(pqueues')
  BY <1>1, OpenedQueues
<1>3. ring' \in Seq(Slot) /\ RingComplete'
  BY <1>1, OpenedRing
<1>4. /\ activeJson' = Listed /\ popped' = NothingPopped /\ active' = NoneActive
      /\ isOpen' = TRUE
  BY <1>1 DEF Opened
<1>5. popped' \in [Slot -> Seq(AnyRequest)]
  BY <1>4, EmptySeq DEF NothingPopped
<1>6. active' \in [Slot -> SUBSET AnyRequest] /\ \A s \in Slot : IsFiniteSet(active'[s])
  BY <1>4, FS_EmptySet DEF NoneActive
<1>7. Kept(AnyRequest)'
  BY <1>2, <1>3, <1>4, <1>5, <1>6 DEF Kept, Live
<1>8. Counted'
  BY <1>2, <1>4 DEF Counted, Total, Places
<1> QED
  BY <1>1, <1>3, <1>7, <1>8 DEF AloneInv

LEMMA AloneStepInv == AloneInv /\ [AloneNext]_avars => AloneInv'
<1> SUFFICES ASSUME AloneInv, [AloneNext]_avars
             PROVE  AloneInv'
  OBVIOUS
<1>1. ASSUME NEW s \in Slot, NEW r \in AnyRequest, EnqueueRequest(s, r)
      PROVE  AloneInv'
  BY <1>1, EnqueueInv
<1>2. ASSUME NEW s \in Slot, NEW r \in AnyRequest, DownloadStarts(s, r) \/ DownloadEnds(s, r)
      PROVE  AloneInv'
  BY <1>2, DownloadInv
<1>3. CASE PopRequest
  BY <1>3, PopInv
<1>4. CASE Checkpoint
  BY <1>4, CheckpointInv
<1>5. CASE End
  BY <1>5, EndInv
<1>6. CASE Restart
  BY <1>6, RestartInv
<1>7. CASE UNCHANGED avars
  BY <1>7 DEF avars, frontier, AloneInv, Kept, RingComplete, Counted, Total, Places, Live
<1> QED
  BY <1>1, <1>2, <1>3, <1>4, <1>5, <1>6, <1>7 DEF AloneNext

\* AloneInv holds throughout.
LEMMA AloneInvariant == AloneSpec => []AloneInv
BY AloneInitInv, AloneStepInv, PTL DEF AloneSpec

\* The frontier's variables are of their types, through pops, kills and restarts.
THEOREM AloneTypeCorrect == AloneSpec => []AloneTypeOK
<1>1. AloneInv => AloneTypeOK
  <2> SUFFICES ASSUME AloneInv
               PROVE  AloneTypeOK
    OBVIOUS
  <2>1. size \in Nat
    <3>1. Total(pqueues) \in Nat
      BY PlacesFinite DEF AloneInv, Kept
    <3> QED
      BY <3>1 DEF AloneInv, Counted
  <2>2. \A i \in DOMAIN ring : ring[i] \in Slot
    BY ElementOfSeq, LenProperties DEF AloneInv, Kept
  <2>3. members \subseteq Slot
    BY <2>2 DEF AloneInv, RingComplete
  <2> QED
    BY <2>1, <2>2, <2>3 DEF AloneInv, Kept, AloneTypeOK
<1> QED
  BY <1>1, AloneInvariant, PTL

\* However many queues are emptied, refilled and reopened, the ring holds every
\* live slot once: the rebuild at pqueue.py:135-144 is never needed.
THEOREM RingIsComplete == AloneSpec => []RingComplete
<1>1. AloneInv => RingComplete
  BY DEF AloneInv
<1> QED
  BY <1>1, AloneInvariant, PTL

\* _size is the number of requests in the queues, for every opens of the JOBDIR.
THEOREM SizeIsExact == AloneSpec => []SizeExact
<1>1. AloneInv => SizeExact
  BY DEF AloneInv, Counted, SizeExact
<1> QED
  BY <1>1, AloneInvariant, PTL

\* What enqueue_request lets in stays under the caps.
LEMMA EnqueueBounded ==
  ASSUME AloneInv, NEW s \in Slot, NEW r \in AnyRequest, EnqueueRequest(s, r)
  PROVE  /\ size' <= ExemptCap
         /\ Cardinality(DOMAIN pqueues') > Cardinality(Live) =>
              Cardinality(DOMAIN pqueues') <= QueueCap
<1>1. /\ Kept(AnyRequest) /\ Enqueue(s, r) /\ size' = size + 1
      /\ ~OverQueues(s) /\ \E isNew \in BOOLEAN : ~OverCapacity(isNew)
  BY DEF EnqueueRequest, AloneInv, Enqueue
<1>2. size \in Nat
  BY PlacesFinite DEF AloneInv, Kept, Counted
<1>3. size' <= ExemptCap
  <2>1. size < Cap \/ size < ExemptCap
    BY <1>1, <1>2 DEF OverCapacity
  <2> QED
    BY <1>1, <1>2, <2>1
<1>4. DOMAIN pqueues' = Live \cup {s} /\ IsFiniteSet(Live)
  BY <1>1, EnqueueQueues DEF Kept
<1>5. Cardinality(Live) \in Nat
  BY <1>4, FS_CardinalityType
<1>6. CASE s \in Live
  <2>1. DOMAIN pqueues' = Live
    BY <1>4, <1>6
  <2> QED
    BY <1>3, <1>5, <2>1
<1>7. CASE s \notin Live
  <2>1. Cardinality(DOMAIN pqueues') = Cardinality(Live) + 1
    BY <1>4, <1>7, FS_AddElement
  <2>2. Cardinality(Live) < QueueCap
    BY <1>1, <1>5, <1>7 DEF OverQueues
  <2> QED
    BY <1>3, <1>5, <2>1, <2>2
<1> QED
  BY <1>6, <1>7

\* Every other step of an open frontier leaves it as large, or makes it smaller.
LEMMA OthersSmaller ==
  ASSUME AloneInv, PopRequest
  PROVE  size' <= size /\ Cardinality(DOMAIN pqueues') <= Cardinality(Live)
<1>1. Kept(AnyRequest) /\ RingComplete /\ isOpen /\ NextRequest
  BY DEF PopRequest, AloneInv
<1>2. size \in Nat /\ IsFiniteSet(Live)
  BY PlacesFinite DEF AloneInv, Kept, Counted
<1>3. size' = size \/ size' = size - 1
  BY <1>1 DEF NextRequest, Remaining
<1>4. DOMAIN pqueues' \subseteq Live
  BY <1>1, NextQueues
<1> QED
  BY <1>2, <1>3, <1>4, FS_Subset

\* Whatever is let in, the frontier grows neither past the cap of the exempt nor
\* past its number of queues: scheduler.py:300-352.
THEOREM Bounded == AloneSpec => FrontierBounded
<1> DEFINE Bound ==
      isOpen /\ isOpen' =>
        /\ size' > size => size' <= ExemptCap
        /\ Cardinality(DOMAIN pqueues') > Cardinality(Live) =>
             Cardinality(DOMAIN pqueues') <= QueueCap
<1>1. AloneInv /\ [AloneNext]_avars => [Bound]_fvars
  <2> SUFFICES ASSUME AloneInv, [AloneNext]_avars, isOpen, isOpen'
               PROVE  Bound
    OBVIOUS
  <2> USE DEF Bound
  <2>1. size \in Nat /\ Cardinality(Live) \in Nat
    BY PlacesFinite, FS_CardinalityType DEF AloneInv, Kept, Counted
  <2>2. ASSUME NEW s \in Slot, NEW r \in AnyRequest, EnqueueRequest(s, r)
        PROVE  Bound
    BY <2>2, EnqueueBounded
  <2>3. CASE PopRequest
    <3>1. size' <= size /\ Cardinality(DOMAIN pqueues') <= Cardinality(Live)
      BY <2>3, OthersSmaller
    <3>2. size' \in Nat /\ Cardinality(DOMAIN pqueues') \in Nat
      <4>1. AloneInv'
        BY <2>3, PopInv
      <4> QED
        BY <4>1, PlacesFinite, FS_CardinalityType DEF AloneInv, Kept, Counted, Live
    <3> QED
      BY <2>1, <3>1, <3>2
  <2>4. CASE size' = size /\ pqueues' = pqueues
    BY <2>1, <2>4 DEF Live
  <2>5. ASSUME NEW s \in Slot, NEW r \in AnyRequest, DownloadStarts(s, r) \/ DownloadEnds(s, r)
        PROVE  size' = size /\ pqueues' = pqueues
    BY <2>5 DEF DownloadStarts, DownloadEnds, frontier
  <2>6. Checkpoint => size' = size /\ pqueues' = pqueues
    BY DEF Checkpoint, CheckpointSlice
  <2>7. ~ End /\ ~ Restart
    BY DEF End, Killed, Closed, Volatile, Restart
  <2>8. UNCHANGED avars => size' = size /\ pqueues' = pqueues
    BY DEF avars, frontier
  <2> QED
    BY <2>2, <2>3, <2>4, <2>5, <2>6, <2>7, <2>8 DEF AloneNext
<1>2. AloneSpec => [][Bound]_fvars
  BY <1>1, AloneInvariant, PTL DEF AloneSpec
<1> QED
  BY <1>2 DEF FrontierBounded

\* enqueue_request changes no place, and no queue but the one it adds to.
LEMMA EnqueueFair ==
  ASSUME AloneInv, NEW u \in Slot, NEW r \in AnyRequest, EnqueueRequest(u, r),
         NEW s \in Live, NEW t \in Live
  PROVE  /\ Ahead(s, t) => Ahead(s, t)'
         /\ ~ (Len(pqueues'[t]) < Len(pqueues[t]))
<1>1. Kept(AnyRequest) /\ RingComplete /\ isOpen /\ Enqueue(u, r)
  BY DEF EnqueueRequest, AloneInv
<1>2. pqueues' = With(pqueues, u, IF u \in Live THEN Append(pqueues[u], r) ELSE <<r>>)
  BY <1>1 DEF Enqueue
<1>3. ring \in Seq(Slot) /\ pqueues[t] \in Seq(AnyRequest)
  BY <1>1 DEF Kept
<1>4. ring' = ring \/ ring' = Append(ring, u)
  BY <1>1 DEF Enqueue, RingAdd
<1>5. \A i \in DOMAIN ring : i \in DOMAIN ring' /\ ring'[i] = ring[i]
  <2>1. CASE ring' = Append(ring, u)
    <3>1. /\ DOMAIN Append(ring, u) = 1 .. Len(ring) + 1 /\ DOMAIN ring = 1 .. Len(ring)
          /\ Len(ring) \in Nat
      BY <1>3, Longer
    <3>2. \A i \in 1 .. Len(ring) : Append(ring, u)[i] = ring[i]
      BY <1>3, AppendProperties
    <3> QED
      BY <2>1, <3>1, <3>2
  <2> QED
    BY <1>4, <2>1
<1>6. Ahead(s, t) => Ahead(s, t)'
  BY <1>5 DEF Ahead
<1>7. ~ (Len(pqueues'[t]) < Len(pqueues[t]))
  <2>1. Len(pqueues[t]) \in Nat
    BY <1>3, LenProperties
  <2>2. pqueues'[t] = IF t = u THEN Append(pqueues[t], r) ELSE pqueues[t]
    BY <1>2 DEF With, Live
  <2>3. Len(Append(pqueues[t], r)) = Len(pqueues[t]) + 1
    BY <1>3, AppendProperties
  <2> QED
    BY <2>1, <2>2, <2>3
<1> QED
  BY <1>6, <1>7

\* No slot is starved (pqueue.py:92-94): a domain with requests and nothing in
\* flight keeps its place, and a domain that is served goes behind it, whatever
\* its callers and the downloader do in between.
THEOREM Fair == AloneSpec => FairTurns
<1> DEFINE Turn(s, t) ==
      s # t /\ Waiting(s) /\ Waiting(s)' /\ pqueues'[s] = pqueues[s] =>
        /\ Ahead(s, t) => Ahead(s, t)'
        /\ Len(pqueues'[t]) < Len(pqueues[t]) => Ahead(s, t)'
    Turns == isOpen /\ isOpen' => \A s, t \in Live \cap DOMAIN pqueues' : Turn(s, t)
<1>1. AloneInv /\ [AloneNext]_avars => [Turns]_fvars
  <2> SUFFICES ASSUME AloneInv, [AloneNext]_avars, isOpen, isOpen',
                      NEW s \in Live \cap DOMAIN pqueues', NEW t \in Live \cap DOMAIN pqueues'
               PROVE  Turn(s, t)
    OBVIOUS
  <2>1. ASSUME NEW u \in Slot, NEW r \in AnyRequest, EnqueueRequest(u, r)
        PROVE  Turn(s, t)
    BY <2>1, EnqueueFair
  <2>2. CASE PopRequest
    <3>1. Kept(AnyRequest) /\ RingComplete /\ NextRequest
      BY <2>2 DEF AloneInv, PopRequest
    <3> QED
      BY <3>1, NextFair
  <2>3. CASE ring' = ring /\ pqueues' = pqueues
    <3>1. pqueues[t] \in Seq(AnyRequest)
      BY DEF AloneInv, Kept
    <3>2. Len(pqueues[t]) \in Nat
      BY <3>1, LenProperties
    <3> QED
      BY <2>3, <3>2 DEF Ahead
  <2>4. ASSUME NEW u \in Slot, NEW r \in AnyRequest, DownloadStarts(u, r) \/ DownloadEnds(u, r)
        PROVE  ring' = ring /\ pqueues' = pqueues
    BY <2>4 DEF DownloadStarts, DownloadEnds, frontier
  <2>5. Checkpoint => ring' = ring /\ pqueues' = pqueues
    BY DEF Checkpoint, CheckpointSlice
  <2>6. ~ End /\ ~ Restart
    BY DEF End, Killed, Closed, Volatile, Restart
  <2>7. UNCHANGED avars => ring' = ring /\ pqueues' = pqueues
    BY DEF avars, frontier
  <2> QED
    BY <2>1, <2>2, <2>3, <2>4, <2>5, <2>6, <2>7 DEF AloneNext
<1>2. AloneSpec => [][Turns]_fvars
  BY <1>1, AloneInvariant, PTL DEF AloneSpec
<1> QED
  BY <1>2 DEF FairTurns
===============================================================================
