------------------------------ MODULE Inbox_proofs ------------------------------
(***************************************************************************)
(* The proofs about modules Handoff and Inbox, for any senders, segments   *)
(* and chunks of any length, any limit of a poll and any bounds.           *)
(***************************************************************************)
EXTENDS Inbox, TLAPS, FiniteSetTheorems, SequenceTheorems

Name == Sender \X Nat

\* What the next process takes a segment's offset to be.
SavedAt(f) == IF f \in DOMAIN saved THEN saved[f] ELSE 0

InHand == ToSet(collected) \cup ToSet(urls)
OnceEach(q) == \A i, j \in DOMAIN q : q[i] = q[j] => i = j

\* The segment files, and what is remembered of them.
Files ==
  /\ DOMAIN segment \subseteq Name /\ IsFiniteSet(DOMAIN segment)
  /\ segment \in [DOMAIN segment -> Seq(Line)]
  /\ fragment \subseteq DOMAIN segment
  /\ seq \in [Sender -> Nat \cup {-1}]
  /\ DOMAIN offsets \subseteq Name /\ offsets \in [DOMAIN offsets -> Nat]
  /\ DOMAIN saved \subseteq Name /\ saved \in [DOMAIN saved -> Nat]
  /\ sent \in 0 .. MaxSent
  /\ kills \in Nat /\ failures \in Nat

\* The poll and the loop that follows it.
Turn ==
  /\ polling \in BOOLEAN /\ dirty \in BOOLEAN /\ cut \in BOOLEAN
  /\ todo \in Seq(Name) /\ newest \subseteq Name /\ waiting \subseteq Name
  /\ out \in 0 .. Limit
  /\ collected \in Seq(Line) /\ Len(collected) = out
  /\ urls \in Seq(Line) /\ Len(urls) <= Limit
  /\ polling => urls = <<>>
  /\ ~ polling => todo = <<>> /\ collected = <<>>
  /\ ~ dirty => out = 0
  /\ taken \in [Line -> Nat] /\ injected \in [Line -> Nat]

\* A segment's name is not given again once it is deleted: of each sender's
\* names in use anywhere, the highest is in the directory.
Names ==
  /\ \E b \in Nat : \A f \in DOMAIN segment : f[2] <= b
  /\ \A f \in DOMAIN offsets \cup DOMAIN saved \cup waiting :
       \E g \in DOMAIN segment : g[1] = f[1] /\ g[2] >= f[2]
  /\ \A s \in Sender : seq[s] # -1 =>
       /\ <<s, seq[s]>> \in DOMAIN segment
       /\ \A g \in DOMAIN segment : g[1] = s => g[2] <= seq[s]

\* What a poll has listed is there until it comes to it.
Listed ==
  /\ newest \subseteq DOMAIN segment
  /\ OnceEach(todo)
  /\ \A i \in DOMAIN todo :
       /\ todo[i] \in DOMAIN segment
       /\ \E g \in newest : g[1] = todo[i][1] /\ g[2] >= todo[i][2]

\* Every line is in one place.
Apart ==
  /\ \A f, g \in DOMAIN segment : \A i \in DOMAIN segment[f] : \A j \in DOMAIN segment[g] :
       segment[f][i] = segment[g][j] => f = g /\ i = j
  /\ \A f \in DOMAIN segment : \A i \in DOMAIN segment[f] : segment[f][i] <= sent
  /\ OnceEach(collected) /\ OnceEach(urls)
  /\ \A l \in Line : l > sent => l \notin InHand /\ injected[l] = 0

Offsets ==
  \A f \in DOMAIN segment : SavedAt(f) <= At(f) /\ At(f) <= Len(segment[f])

\* A line that was read is on its way, or has arrived, or went with a kill.
Reads ==
  /\ \A f \in DOMAIN segment : \A i \in DOMAIN segment[f] :
       i <= At(f) => taken[segment[f][i]] > 0
  /\ \A l \in Line : taken[l] > 0 => injected[l] > 0 \/ l \in InHand \/ l \in killed

\* What a line can have been injected, by where it is: it comes back only from
\* above the saved offset.
Few(l) == injected[l] <= failures /\ injected[l] <= kills

Back(f, i) ==
  LET l == segment[f][i] IN
  /\ i > At(f) => Few(l) /\ l \notin InHand
  /\ i > SavedAt(f) /\ i <= At(f) /\ l \notin ToSet(collected) =>
       /\ injected[l] <= failures
       /\ l \in ToSet(urls) => injected[l] + 1 <= failures

Again ==
  /\ \A l \in Line : injected[l] <= 1 + failures /\ injected[l] <= 1 + kills
  /\ \A l \in InHand : Few(l)
  /\ \A f \in DOMAIN segment : \A i \in DOMAIN segment[f] : Back(f, i)

\* What a poll with room left has still to visit.
Passed ==
  polling /\ out < Limit =>
    \A f \in waiting \cap DOMAIN segment : f \in ToSet(todo) /\ Len(segment[f]) > At(f)

Shape == Files /\ Turn /\ Names /\ Listed /\ Apart /\ Offsets
Inv == Shape /\ Reads /\ Again /\ Passed /\ IsFiniteSet(killed) /\ LossBounded

LEMMA Setting ==
  /\ Sender \subseteq Nat
  /\ SegmentLines \in Nat /\ SegmentLines >= 1
  /\ ReadLines \in Nat /\ ReadLines >= 1 /\ Limit \in Nat /\ Limit >= 1
  /\ MaxSent \in Nat /\ MaxKills \in Nat /\ MaxFailures \in Nat /\ MaxRestarts \in Nat
BY HandoffAssumption

USE Setting

-------------------------------------------------------------------------------
(* Numbers and sequences. *)

LEMMA LeastNumber ==
  ASSUME NEW T, T \subseteq Nat, T # {}
  PROVE  \E m \in T : \A k \in T : m <= k
<1>1. \A x, y \in Nat : y < x => <<y, x>> \in OpToRel(<, Nat)
  BY DEF OpToRel
<1>2. PICK R : IsWellFoundedOn(R, Nat) /\ \A x, y \in Nat : y < x => <<y, x>> \in R
  BY <1>1, NatLessThanWellFounded
<1>3. PICK m \in T : \A y \in T : ~ (<<y, m>> \in R)
  BY <1>2, WFMin
<1>4. ASSUME NEW k \in T
      PROVE  m <= k
  <2>1. ~ (k < m)
    BY <1>2, <1>3
  <2> QED
    BY <2>1
<1> QED
  BY <1>4

LEMMA Highest ==
  ASSUME NEW T, T \subseteq Nat, T # {}, NEW b \in Nat, \A t \in T : t <= b
  PROVE  Max(T) \in T /\ \A t \in T : t <= Max(T)
<1> DEFINE U == {n \in Nat : \A t \in T : t <= n}
<1>1. PICK m \in U : \A n \in U : m <= n
  <2>1. b \in U
    OBVIOUS
  <2> QED
    BY <2>1, LeastNumber
<1>2. m \in T
  <2> SUFFICES ASSUME m \notin T
               PROVE  FALSE
    OBVIOUS
  <2>1. m \in Nat /\ \A t \in T : t \in Nat /\ t < m
    BY <1>1
  <2>2. PICK t \in T : TRUE
    OBVIOUS
  <2>3. t \in Nat /\ t < m /\ m \in Nat
    BY <2>1
  <2>4. m - 1 \in Nat
    BY <2>3
  <2>5. \A k \in T : k <= m - 1
    BY <2>1
  <2> QED
    BY <1>1, <2>1, <2>4, <2>5
<1>3. \A t \in T : m >= t
  BY <1>1
<1>4. Max(T) \in T /\ \A t \in T : Max(T) >= t
  BY <1>2, <1>3 DEF Max
<1> QED
  BY <1>4

LEMMA Lesser ==
  ASSUME NEW a \in Int, NEW b \in Int
  PROVE  Min({a, b}) = IF a <= b THEN a ELSE b
<1>1. CASE a <= b
  <2>1. \E x \in {a, b} : \A y \in {a, b} : x <= y
    BY <1>1
  <2>2. Min({a, b}) \in {a, b} /\ \A y \in {a, b} : Min({a, b}) <= y
    BY <2>1 DEF Min
  <2> QED
    BY <1>1, <2>2
<1>2. CASE b < a
  <2>1. \E x \in {a, b} : \A y \in {a, b} : x <= y
    BY <1>2
  <2>2. Min({a, b}) \in {a, b} /\ \A y \in {a, b} : Min({a, b}) <= y
    BY <2>1 DEF Min
  <2> QED
    BY <1>2, <2>2
<1> QED
  BY <1>1, <1>2

LEMMA Entry ==
  ASSUME NEW R, NEW q \in Seq(R)
  PROVE  /\ \E n \in Nat : n = Len(q) /\ DOMAIN q = 1 .. n
         /\ \A i \in DOMAIN q : q[i] \in R
         /\ ToSet(q) \subseteq R /\ \A i \in DOMAIN q : q[i] \in ToSet(q)
         /\ \A l \in ToSet(q) : \E i \in DOMAIN q : q[i] = l
<1>1. \A i \in DOMAIN q : q[i] \in R
  BY ElementOfSeq, LenProperties
<1> QED
  BY <1>1, LenProperties DEF ToSet

\* One entry more.
LEMMA Longer ==
  ASSUME NEW R, NEW q \in Seq(R), NEW r \in R
  PROVE  /\ Append(q, r) \in Seq(R)
         /\ Len(q) \in Nat /\ Len(Append(q, r)) = Len(q) + 1
         /\ DOMAIN q = 1 .. Len(q) /\ DOMAIN Append(q, r) = 1 .. Len(q) + 1
         /\ \A i \in 1 .. Len(q) : Append(q, r)[i] = q[i]
         /\ Append(q, r)[Len(q) + 1] = r
BY AppendProperties, LenProperties

\* The rest of a sequence.
LEMMA Shorter ==
  ASSUME NEW R, NEW q \in Seq(R), q # <<>>
  PROVE  /\ Head(q) = q[1] /\ Head(q) \in R /\ Tail(q) \in Seq(R)
         /\ \E n \in Nat : /\ Len(q) = n + 1 /\ Len(Tail(q)) = n
                           /\ DOMAIN q = 1 .. n + 1 /\ DOMAIN Tail(q) = 1 .. n
                           /\ \A i \in 1 .. n : Tail(q)[i] = q[i + 1]
<1> DEFINE n == Len(q) - 1
<1>1. /\ Head(q) = q[1] /\ Head(q) \in R /\ Tail(q) \in Seq(R) /\ Len(q) \in Nat
      /\ Len(Tail(q)) = Len(q) - 1 /\ \A i \in 1 .. Len(Tail(q)) : Tail(q)[i] = q[i + 1]
  BY HeadTailProperties, LenProperties
<1>2. Len(q) # 0
  BY EmptySeq
<1>3. n \in Nat /\ Len(q) = n + 1 /\ Len(Tail(q)) = n
  BY <1>1, <1>2
<1>4. DOMAIN q = 1 .. Len(q) /\ DOMAIN Tail(q) = 1 .. Len(Tail(q))
  BY <1>1, LenProperties
<1>5. DOMAIN q = 1 .. n + 1 /\ DOMAIN Tail(q) = 1 .. n
  BY <1>3, <1>4
<1> HIDE DEF n
<1> QED
  BY <1>1, <1>3, <1>5

LEMMA RestOnce ==
  ASSUME NEW R, NEW q \in Seq(R), q # <<>>, OnceEach(q)
  PROVE  /\ OnceEach(Tail(q))
         /\ Head(q) \in ToSet(q) /\ Head(q) \notin ToSet(Tail(q))
         /\ ToSet(q) = ToSet(Tail(q)) \cup {Head(q)}
<1> DEFINE t == Tail(q)
           h == Head(q)
<1>1. PICK n \in Nat : /\ DOMAIN q = 1 .. n + 1 /\ DOMAIN t = 1 .. n
                       /\ \A i \in 1 .. n : t[i] = q[i + 1]
  BY Shorter
<1>2. h = q[1]
  BY Shorter
<1> HIDE DEF t, h
<1>3. ASSUME NEW i \in 1 .. n
      PROVE  i + 1 \in DOMAIN q /\ i + 1 # 1 /\ t[i] = q[i + 1]
  BY <1>1
<1>4. ASSUME NEW i \in DOMAIN q, i # 1
      PROVE  i - 1 \in DOMAIN t /\ t[i - 1] = q[i]
  <2>1. i - 1 \in 1 .. n /\ (i - 1) + 1 = i
    BY <1>1, <1>4
  <2> QED
    BY <1>1, <2>1
<1>5. OnceEach(t)
  <2> SUFFICES ASSUME NEW i \in 1 .. n, NEW j \in 1 .. n, t[i] = t[j]
               PROVE  i = j
    BY <1>1 DEF OnceEach
  <2>1. i + 1 \in DOMAIN q /\ j + 1 \in DOMAIN q /\ q[i + 1] = q[j + 1]
    BY <1>3
  <2>2. i + 1 = j + 1
    BY <2>1 DEF OnceEach
  <2> QED
    BY <2>2
<1>6. 1 \in DOMAIN q
  BY <1>1
<1>7. h \notin ToSet(t)
  <2> SUFFICES ASSUME NEW i \in 1 .. n, t[i] = h PROVE FALSE
    BY <1>1 DEF ToSet
  <2>1. i + 1 \in DOMAIN q /\ i + 1 # 1 /\ q[i + 1] = q[1]
    BY <1>2, <1>3
  <2> QED
    BY <1>6, <2>1 DEF OnceEach
<1>8. ToSet(q) = ToSet(t) \cup {h}
  <2>1. ToSet(q) \subseteq ToSet(t) \cup {h}
    BY <1>2, <1>4 DEF ToSet
  <2>2. ToSet(t) \cup {h} \subseteq ToSet(q)
    BY <1>1, <1>2, <1>3, <1>6 DEF ToSet
  <2> QED
    BY <2>1, <2>2
<1> QED
  BY <1>2, <1>5, <1>6, <1>7, <1>8 DEF ToSet, t, h

\* Two sequences with no entry in common, one after the other.
LEMMA Joined ==
  ASSUME NEW R, NEW p \in Seq(R), NEW q \in Seq(R)
  PROVE  /\ p \o q \in Seq(R) /\ Len(p \o q) = Len(p) + Len(q)
         /\ ToSet(p \o q) = ToSet(p) \cup ToSet(q)
         /\ OnceEach(p) /\ OnceEach(q) /\ ToSet(p) \cap ToSet(q) = {} => OnceEach(p \o q)
<1> DEFINE f == p \o q
<1>1. /\ f \in Seq(R) /\ Len(f) = Len(p) + Len(q)
      /\ \A i \in 1 .. Len(p) + Len(q) : f[i] = IF i <= Len(p) THEN p[i] ELSE q[i - Len(p)]
  BY ConcatProperties
<1>2. PICK n \in Nat : n = Len(p) /\ DOMAIN p = 1 .. n
  BY Entry
<1>3. PICK m \in Nat : m = Len(q) /\ DOMAIN q = 1 .. m
  BY Entry
<1>4. PICK k \in Nat : k = Len(f) /\ DOMAIN f = 1 .. k
  BY <1>1, Entry
<1>5. k = n + m /\ \A i \in 1 .. n + m : f[i] = IF i <= n THEN p[i] ELSE q[i - n]
  BY <1>1, <1>2, <1>3, <1>4
<1> HIDE DEF f
<1>6. DOMAIN f = 1 .. n + m
  BY <1>4, <1>5
<1>7. \A i \in 1 .. n : i \in 1 .. n + m /\ f[i] = p[i]
  BY <1>5
<1>8. ASSUME NEW j \in 1 .. m
      PROVE  n + j \in 1 .. n + m /\ f[n + j] = q[j]
  <2>1. n + j \in 1 .. n + m /\ ~ (n + j <= n) /\ (n + j) - n = j
    OBVIOUS
  <2> QED
    BY <1>5, <2>1
<1>9. ASSUME NEW i \in 1 .. n + m
      PROVE  \/ i \in 1 .. n /\ f[i] = p[i]
             \/ i - n \in 1 .. m /\ f[i] = q[i - n]
  <2>1. CASE i <= n
    BY <1>5, <2>1
  <2>2. CASE i > n
    BY <1>5, <2>2
  <2> QED
    BY <2>1, <2>2
<1>10. ToSet(f) = ToSet(p) \cup ToSet(q)
  <2>1. ToSet(f) \subseteq ToSet(p) \cup ToSet(q)
    BY <1>2, <1>3, <1>6, <1>9 DEF ToSet
  <2>2. ToSet(p) \cup ToSet(q) \subseteq ToSet(f)
    BY <1>2, <1>3, <1>6, <1>7, <1>8 DEF ToSet
  <2> QED
    BY <2>1, <2>2
<1>11. ASSUME OnceEach(p), OnceEach(q), ToSet(p) \cap ToSet(q) = {}
       PROVE  OnceEach(f)
  <2> SUFFICES ASSUME NEW i \in 1 .. n + m, NEW j \in 1 .. n + m, f[i] = f[j]
               PROVE  i = j
    BY <1>6 DEF OnceEach
  <2>1. CASE i \in 1 .. n /\ f[i] = p[i] /\ j \in 1 .. n /\ f[j] = p[j]
    BY <1>2, <1>11, <2>1 DEF OnceEach
  <2>2. CASE i - n \in 1 .. m /\ f[i] = q[i - n] /\ j - n \in 1 .. m /\ f[j] = q[j - n]
    <3>1. i - n = j - n
      BY <1>3, <1>11, <2>2 DEF OnceEach
    <3> QED
      BY <3>1
  <2>3. CASE i \in 1 .. n /\ f[i] = p[i] /\ j - n \in 1 .. m /\ f[j] = q[j - n]
    BY <1>2, <1>3, <1>11, <2>3 DEF ToSet
  <2>4. CASE i - n \in 1 .. m /\ f[i] = q[i - n] /\ j \in 1 .. n /\ f[j] = p[j]
    BY <1>2, <1>3, <1>11, <2>4 DEF ToSet
  <2> QED
    BY <1>9, <2>1, <2>2, <2>3, <2>4
<1> QED
  BY <1>1, <1>10, <1>11 DEF f

\* A stretch of a sequence.
LEMMA Stretch ==
  ASSUME NEW R, NEW q \in Seq(R), NEW a \in Nat, NEW c \in Nat, a + c <= Len(q)
  PROVE  /\ SubSeq(q, a + 1, a + c) \in Seq(R) /\ Len(SubSeq(q, a + 1, a + c)) = c
         /\ \A i \in 1 .. c : SubSeq(q, a + 1, a + c)[i] = q[a + i]
<1> DEFINE t == SubSeq(q, a + 1, a + c)
<1>1. PICK n \in Nat : n = Len(q) /\ DOMAIN q = 1 .. n /\ \A j \in 1 .. n : q[j] \in R
  BY Entry
<1>2. \A j \in a + 1 .. a + c : q[j] \in R
  BY <1>1
<1>3. /\ t \in Seq(R)
      /\ Len(t) = IF a + 1 <= a + c THEN a + c - (a + 1) + 1 ELSE 0
      /\ \A i \in 1 .. a + c - (a + 1) + 1 : t[i] = q[a + 1 + i - 1]
  BY <1>2, SubSeqProperties
<1> HIDE DEF t
<1>4. Len(t) = c
  BY <1>3
<1>5. \A i \in 1 .. c : t[i] = q[a + i]
  <2>1. \A i \in 1 .. c : i \in 1 .. a + c - (a + 1) + 1 /\ a + 1 + i - 1 = a + i
    OBVIOUS
  <2> QED
    BY <1>3, <2>1
<1> QED
  BY <1>3, <1>4, <1>5 DEF t

\* A sequence has no more members than entries.
LEMMA FewMembers ==
  ASSUME NEW R, NEW q \in Seq(R)
  PROVE  IsFiniteSet(ToSet(q)) /\ Cardinality(ToSet(q)) <= Len(q)
<1>1. PICK n \in Nat : n = Len(q) /\ DOMAIN q = 1 .. n
  BY Entry
<1>2. IsFiniteSet(1 .. n) /\ Cardinality(1 .. n) = n
  BY FS_Interval
<1>3. q \in Surjection(1 .. n, ToSet(q))
  BY <1>1, Entry DEF Surjection, ToSet
<1> QED
  BY <1>1, <1>2, <1>3, FS_Surjection

-------------------------------------------------------------------------------
(* What a visit to a segment does. *)

\* The lines a visit to the file takes, c of them.
Coming(file, c) == {segment[file][At(file) + i] : i \in 1 .. c}

\* A visit to the file that takes c lines, and deletes it or not.
Moves(file, c, deleted) ==
  /\ polling /\ out < Limit
  /\ out' = out + c /\ out + c <= Limit
  /\ At(file) + c <= Len(segment[file])
  /\ At(file) < Len(segment[file]) => c > 0
  /\ deleted => file \notin newest
  /\ deleted /\ At(file) + c < Len(segment[file]) => cut'
  /\ cut' \in BOOLEAN /\ (cut => cut')
  /\ dirty' \in BOOLEAN /\ (~ dirty' => ~ dirty /\ c = 0)
  /\ DOMAIN segment' = IF deleted THEN DOMAIN segment \ {file} ELSE DOMAIN segment
  /\ segment' = [f \in DOMAIN segment' |-> segment[f]]
  /\ fragment' = fragment \cap DOMAIN segment'
  /\ DOMAIN offsets' \subseteq DOMAIN offsets \cup {file}
  /\ offsets' \in [DOMAIN offsets' -> Nat]
  /\ \A f \in DOMAIN segment' : At(f)' = IF f = file THEN At(file) + c ELSE At(f)
  /\ taken' = [l \in Line |-> IF l \in Coming(file, c) THEN taken[l] + 1 ELSE taken[l]]
  /\ discarded' = discarded \cup
       {l \in 1 .. sent : /\ \E f \in DOMAIN segment \ DOMAIN segment' : l \in ToSet(segment[f])
                          /\ taken'[l] = 0}
  /\ UNCHANGED <<saved, kills, failures, polling, newest, seq, sent, restarts,
                 urls, injected, killed>>

Collects(file, c) ==
  /\ todo # <<>> /\ file = Head(todo) /\ todo' = Tail(todo)
  /\ \E t \in Seq(Line) : /\ Len(t) = c /\ \A i \in 1 .. c : t[i] = segment[file][At(file) + i]
                          /\ collected' = collected \o t
                          /\ waiting' = IF t # <<>> THEN waiting \ {file} ELSE waiting

Visit(file, c, deleted) == Moves(file, c, deleted) /\ Collects(file, c)

\* The file a poll comes to next.
LEMMA HeadListed ==
  ASSUME Shape, todo # <<>>
  PROVE  /\ Head(todo) \in DOMAIN segment /\ Head(todo) \in Name
         /\ segment[Head(todo)] \in Seq(Line) /\ Len(segment[Head(todo)]) \in Nat
         /\ At(Head(todo)) \in Nat /\ At(Head(todo)) <= Len(segment[Head(todo)])
<1>1. todo \in Seq(Name) /\ \A i \in DOMAIN todo : todo[i] \in DOMAIN segment
  BY DEF Shape, Turn, Listed
<1>2. Head(todo) = todo[1] /\ 1 \in DOMAIN todo /\ Head(todo) \in Name
  BY <1>1, Shorter
<1>3. Head(todo) \in DOMAIN segment
  BY <1>1, <1>2
<1>4. segment[Head(todo)] \in Seq(Line) /\ At(Head(todo)) <= Len(segment[Head(todo)])
  BY <1>3 DEF Shape, Files, Offsets
<1>5. At(Head(todo)) \in Nat
  BY DEF At, Shape, Files
<1> QED
  BY <1>2, <1>3, <1>4, <1>5, LenProperties

LEMMA SegmentVisit ==
  ASSUME Shape, DrainSegment
  PROVE  \E file \in DOMAIN segment, c \in Nat, deleted \in BOOLEAN : Visit(file, c, deleted)
<1> DEFINE file == Head(todo)
           n == Len(segment[file])
           a == At(file)
           chunk == Min({Unread(file), ReadLines})
           c == Consumed(file, chunk)
           deleted == Deletable(file)
<1>1. /\ polling /\ out < Limit /\ todo # <<>> /\ PollSegment /\ out \in 0 .. Limit
      /\ cut \in BOOLEAN /\ dirty \in BOOLEAN
  BY DEF DrainSegment, PollSegment, Shape, Turn
<1>2. file \in DOMAIN segment /\ segment[file] \in Seq(Line) /\ n \in Nat /\ a \in Nat /\ a <= n
  BY <1>1, HeadListed
<1>3. /\ out' = out + c
      /\ cut' = (cut \/ c < chunk)
      /\ taken' = [l \in Line |->
           IF \E i \in DOMAIN segment[file] :
                i > At(file) /\ i <= At(file) + c /\ segment[file][i] = l
           THEN taken[l] + 1 ELSE taken[l]]
      /\ offsets' = OffsetsAfter(file, c, deleted)
      /\ segment' = IF deleted THEN Restrict(segment, DOMAIN segment \ {file}) ELSE segment
      /\ fragment' = IF deleted THEN fragment \ {file} ELSE fragment
      /\ dirty' = (dirty \/ c > 0 \/ deleted)
      /\ todo' = Tail(todo)
      /\ UNCHANGED <<saved, kills, failures, polling, newest, senderVars>>
  BY <1>1 DEF PollSegment
<1>4. Unread(file) = n - a
  BY DEF Unread
<1>5. chunk = IF n - a <= ReadLines THEN n - a ELSE ReadLines
  BY <1>2, <1>4, Lesser
<1>6. c = IF chunk <= Limit - out THEN chunk ELSE Limit - out
  <2>1. chunk \in Int /\ Limit - out \in Int
    BY <1>1, <1>2, <1>5
  <2> HIDE DEF chunk
  <2> QED
    BY <2>1, Lesser DEF Consumed
<1>7. deleted = (n - a < ReadLines /\ file \notin newest)
  BY <1>4 DEF Deletable, WholeRest
<1> HIDE DEF chunk, c, deleted, n, a
<1>8. /\ c \in Nat /\ out + c <= Limit /\ a + c <= n /\ (a < n => c > 0)
      /\ n - a < ReadLines /\ a + c < n => c < chunk
  BY <1>1, <1>2, <1>5, <1>6
<1>9. /\ DOMAIN segment' = IF deleted THEN DOMAIN segment \ {file} ELSE DOMAIN segment
      /\ segment' = [f \in DOMAIN segment' |-> segment[f]]
      /\ fragment' = fragment \cap DOMAIN segment'
  <2>1. segment = [f \in DOMAIN segment |-> segment[f]] /\ fragment \subseteq DOMAIN segment
    BY DEF Shape, Files
  <2>2. CASE deleted
    BY <1>3, <2>1, <2>2 DEF Restrict
  <2>3. CASE ~ deleted
    BY <1>3, <2>1, <2>3
  <2> QED
    BY <2>2, <2>3
<1>10. /\ DOMAIN offsets' \subseteq DOMAIN offsets \cup {file}
       /\ offsets' \in [DOMAIN offsets' -> Nat]
       /\ \A f \in DOMAIN segment' : At(f)' = IF f = file THEN a + c ELSE At(f)
  <2>1. offsets \in [DOMAIN offsets -> Nat] /\ a = At(file)
    BY DEF Shape, Files, a
  <2>2. CASE deleted
    <3>1. offsets' = [f \in DOMAIN offsets \ {file} |-> offsets[f]] /\ file \notin DOMAIN segment'
      BY <1>3, <1>9, <2>2 DEF OffsetsAfter, Restrict
    <3> QED
      BY <2>1, <3>1 DEF At
  <2>3. CASE ~ deleted /\ c = 0
    <3>1. offsets' = offsets
      BY <1>3, <2>3 DEF OffsetsAfter
    <3>2. a + c = At(file)
      BY <1>2, <2>1, <2>3
    <3> QED
      BY <2>1, <3>1, <3>2 DEF At
  <2>4. CASE ~ deleted /\ c # 0
    <3>1. offsets' = [f \in DOMAIN offsets \cup {file} |-> IF f = file THEN a + c ELSE offsets[f]]
      BY <1>3, <2>1, <2>4 DEF OffsetsAfter
    <3>2. a + c \in Nat
      BY <1>2, <1>8
    <3> QED
      BY <2>1, <3>1, <3>2 DEF At
  <2> QED
    BY <2>2, <2>3, <2>4
<1>11. taken' = [l \in Line |-> IF l \in Coming(file, c) THEN taken[l] + 1 ELSE taken[l]]
  <2>1. DOMAIN segment[file] = 1 .. n
    BY <1>2, LenProperties DEF n
  <2>2. ASSUME NEW l
        PROVE  (\E i \in DOMAIN segment[file] :
                  i > At(file) /\ i <= At(file) + c /\ segment[file][i] = l)
                 <=> l \in Coming(file, c)
    <3>1. ASSUME NEW i \in 1 .. n, i > a, i <= a + c, segment[file][i] = l
          PROVE  l \in Coming(file, c)
      <4>1. i - a \in 1 .. c /\ a + (i - a) = i
        BY <1>2, <1>8, <3>1
      <4> QED
        BY <3>1, <4>1 DEF Coming, a
    <3>2. ASSUME NEW i \in 1 .. c, segment[file][a + i] = l
          PROVE  \E j \in 1 .. n : j > a /\ j <= a + c /\ segment[file][j] = l
      <4>1. a + i \in 1 .. n /\ a + i > a /\ a + i <= a + c
        BY <1>2, <1>8
      <4> QED
        BY <3>2, <4>1
    <3> QED
      BY <2>1, <3>1, <3>2 DEF Coming, a
  <2> QED
    BY <1>3, <2>2
<1>12. /\ Taken \in Seq(Line) /\ Len(Taken) = c
       /\ \A i \in 1 .. c : Taken[i] = segment[file][a + i]
  <2>1. Taken = SubSeq(segment[file], a + 1, a + c)
    <3>1. out' - out = c
      BY <1>1, <1>3, <1>8
    <3> QED
      BY <3>1 DEF Taken, a
  <2>2. a + c <= Len(segment[file])
    BY <1>8 DEF n
  <2>3. /\ SubSeq(segment[file], a + 1, a + c) \in Seq(Line)
        /\ Len(SubSeq(segment[file], a + 1, a + c)) = c
        /\ \A i \in 1 .. c : SubSeq(segment[file], a + 1, a + c)[i] = segment[file][a + i]
    BY <1>2, <1>8, <2>2, Stretch
  <2> QED
    BY <2>1, <2>3
<1>13. /\ collected' = collected \o Taken
       /\ waiting' = IF Taken # <<>> THEN waiting \ {file} ELSE waiting
       /\ discarded' = discarded \cup
            {l \in 1 .. sent : /\ \E f \in DOMAIN segment \ DOMAIN segment' : l \in ToSet(segment[f])
                               /\ taken'[l] = 0}
       /\ UNCHANGED <<urls, injected, killed>>
  BY DEF DrainSegment
<1>14. deleted \in BOOLEAN /\ deleted => file \notin newest
  BY <1>7
<1>15. deleted /\ a + c < n => cut'
  BY <1>3, <1>7, <1>8
<1>16. /\ cut' \in BOOLEAN /\ (cut => cut')
       /\ dirty' \in BOOLEAN /\ (~ dirty' => ~ dirty /\ c = 0)
  <2>1. (c > 0) \in BOOLEAN /\ (c < chunk) \in BOOLEAN /\ deleted \in BOOLEAN /\ (~ (c > 0) => c = 0)
    BY <1>7, <1>8
  <2> QED
    BY <1>1, <1>3, <2>1
<1>17. Visit(file, c, deleted)
  BY <1>1, <1>3, <1>8, <1>9, <1>10, <1>11, <1>12, <1>13, <1>14, <1>15, <1>16
     DEF Visit, Moves, Collects, a, n, senderVars
<1> QED
  BY <1>2, <1>7, <1>8, <1>17

\* What a visit leaves of the files ...
LEMMA VisitFiles ==
  ASSUME Shape, NEW file \in DOMAIN segment, NEW c \in Nat, NEW deleted \in BOOLEAN,
         Visit(file, c, deleted)
  PROVE  /\ \A f \in DOMAIN segment' : f \in DOMAIN segment /\ segment'[f] = segment[f]
         /\ \A f \in newest : f \in DOMAIN segment'
         /\ \A i \in 1 .. c : /\ At(file) + i \in DOMAIN segment[file]
                               /\ At(file) + i > At(file) /\ At(file) + i <= At(file) + c
         /\ \A i, j \in 1 .. c : At(file) + i = At(file) + j => i = j
         /\ Coming(file, c) \subseteq Line
<1>1. segment[file] \in Seq(Line) /\ newest \subseteq DOMAIN segment
  BY DEF Shape, Listed, Files
<1>2. \A f \in DOMAIN segment' : f \in DOMAIN segment /\ segment'[f] = segment[f]
  BY DEF Visit, Moves
<1>3. \A f \in newest : f \in DOMAIN segment'
  BY <1>1 DEF Visit, Moves
<1>4. At(file) \in Nat /\ Len(segment[file]) \in Nat /\ At(file) + c <= Len(segment[file])
  BY HeadListed DEF Visit, Moves, Collects
<1>5. /\ \A i \in 1 .. c : At(file) + i \in DOMAIN segment[file]
      /\ \A i \in 1 .. c : At(file) + i > At(file) /\ At(file) + i <= At(file) + c
      /\ \A i, j \in 1 .. c : At(file) + i = At(file) + j => i = j
  <2>1. DOMAIN segment[file] = 1 .. Len(segment[file])
    BY <1>1, LenProperties
  <2>2. ASSUME NEW n \in Nat, NEW a \in Nat, a + c <= n
        PROVE  /\ \A i \in 1 .. c : a + i \in 1 .. n /\ a + i > a /\ a + i <= a + c
               /\ \A i, j \in 1 .. c : a + i = a + j => i = j
    BY <2>2
  <2> QED
    BY <1>4, <2>1, <2>2
<1>6. Coming(file, c) \subseteq Line
  BY <1>1, <1>5, Entry DEF Coming
<1> QED
  BY <1>2, <1>3, <1>5, <1>6

\* ... of the list ...
LEMMA VisitList ==
  ASSUME Shape, NEW file, NEW c, Collects(file, c)
  PROVE  /\ todo' \in Seq(Name) /\ OnceEach(todo')
         /\ file \notin ToSet(todo') /\ ToSet(todo) = ToSet(todo') \cup {file}
         /\ \A i \in DOMAIN todo' : todo'[i] # file
         /\ \A i \in DOMAIN todo' : \E j \in DOMAIN todo : todo'[i] = todo[j]
         /\ \E j \in DOMAIN todo : file = todo[j]
<1>1. /\ todo \in Seq(Name) /\ OnceEach(todo) /\ todo # <<>> /\ file = Head(todo)
      /\ todo' = Tail(todo)
  BY DEF Shape, Turn, Listed, Collects
<1>2. /\ todo' \in Seq(Name) /\ OnceEach(todo') /\ file \notin ToSet(todo')
      /\ ToSet(todo) = ToSet(todo') \cup {file}
  BY <1>1, RestOnce, Shorter
<1>3. \A q : /\ \A i \in DOMAIN q : q[i] \in ToSet(q)
             /\ \A l \in ToSet(q) : \E i \in DOMAIN q : q[i] = l
  BY DEF ToSet
<1> QED
  BY <1>2, <1>3

\* ... and of what is in hand.
LEMMA VisitLines ==
  ASSUME Shape, Again, NEW file \in DOMAIN segment, NEW c \in Nat, NEW deleted \in BOOLEAN,
         Visit(file, c, deleted)
  PROVE  /\ collected' \in Seq(Line) /\ Len(collected') = out' /\ OnceEach(collected')
         /\ ToSet(collected') = ToSet(collected) \cup Coming(file, c)
         /\ waiting' = IF c > 0 THEN waiting \ {file} ELSE waiting
         /\ Coming(file, c) \cap InHand = {}
<1>1. /\ collected \in Seq(Line) /\ Len(collected) = out /\ OnceEach(collected)
  BY DEF Shape, Turn, Apart
<1>2. PICK t \in Seq(Line) :
        /\ Len(t) = c /\ \A i \in 1 .. c : t[i] = segment[file][At(file) + i]
        /\ collected' = collected \o t
        /\ waiting' = IF t # <<>> THEN waiting \ {file} ELSE waiting
  BY DEF Visit, Collects
<1>3. DOMAIN t = 1 .. c /\ Len(t) = c
  BY <1>2, LenProperties
<1>4. ToSet(t) = Coming(file, c)
  BY <1>2, <1>3 DEF ToSet, Coming
<1>5. t # <<>> <=> c > 0
  <2>1. t = <<>> <=> c = 0
    BY <1>3, EmptySeq
  <2> QED
    BY <2>1
<1>6. Coming(file, c) \cap InHand = {}
  <2> SUFFICES ASSUME NEW i \in 1 .. c
               PROVE  segment[file][At(file) + i] \notin InHand
    BY DEF Coming
  <2>1. At(file) + i \in DOMAIN segment[file] /\ At(file) + i > At(file)
    BY VisitFiles
  <2> QED
    BY <2>1 DEF Again, Back
<1>7. OnceEach(t)
  <2> SUFFICES ASSUME NEW i \in 1 .. c, NEW j \in 1 .. c, t[i] = t[j]
               PROVE  i = j
    BY <1>3 DEF OnceEach
  <2>1. At(file) + i \in DOMAIN segment[file] /\ At(file) + j \in DOMAIN segment[file]
    BY VisitFiles
  <2>2. segment[file][At(file) + i] = segment[file][At(file) + j]
    BY <1>2
  <2>3. At(file) + i = At(file) + j
    BY <2>1, <2>2 DEF Shape, Apart
  <2> QED
    BY <2>3, VisitFiles
<1>8. ToSet(collected) \cap ToSet(t) = {}
  BY <1>4, <1>6 DEF InHand
<1>9. /\ collected \o t \in Seq(Line) /\ Len(collected \o t) = Len(collected) + Len(t)
      /\ ToSet(collected \o t) = ToSet(collected) \cup ToSet(t)
      /\ OnceEach(collected \o t)
  BY <1>1, <1>7, <1>8, Joined
<1>10. out' = out + c
  BY DEF Visit, Moves
<1>11. Len(collected') = out'
  <2>1. Len(collected') = Len(collected) + Len(t)
    BY <1>2, <1>9
  <2> QED
    BY <1>1, <1>3, <1>10, <2>1
<1> QED
  BY <1>2, <1>4, <1>5, <1>6, <1>9, <1>11

LEMMA VisitShape ==
  ASSUME Shape, Again, NEW file \in DOMAIN segment, NEW c \in Nat, NEW deleted \in BOOLEAN,
         Visit(file, c, deleted)
  PROVE  Shape'
<1>1. Files'
  <2>1. DOMAIN segment' \subseteq Name /\ IsFiniteSet(DOMAIN segment')
    <3>1. DOMAIN segment' \subseteq DOMAIN segment
      BY DEF Visit, Moves
    <3> QED
      BY <3>1, FS_Subset DEF Shape, Files
  <2>2. segment' \in [DOMAIN segment' -> Seq(Line)] /\ fragment' \subseteq DOMAIN segment'
    BY <2>1 DEF Visit, Moves, Shape, Files
  <2>3. DOMAIN offsets' \subseteq Name /\ offsets' \in [DOMAIN offsets' -> Nat]
    BY DEF Visit, Moves, Shape, Files
  <2> QED
    BY <2>1, <2>2, <2>3 DEF Visit, Moves, Shape, Files
<1>2. Turn'
  <2>1. /\ todo' \in Seq(Name) /\ collected' \in Seq(Line) /\ Len(collected') = out'
        /\ waiting' \subseteq waiting
    BY VisitList, VisitLines DEF Visit, Moves
  <2>2. /\ out \in 0 .. Limit /\ (~ dirty => out = 0) /\ waiting \subseteq Name
        /\ urls \in Seq(Line) /\ Len(urls) <= Limit /\ urls = <<>> /\ newest \subseteq Name
        /\ taken \in [Line -> Nat] /\ injected \in [Line -> Nat]
    BY DEF Visit, Moves, Shape, Turn
  <2>3. /\ out' = out + c /\ out + c <= Limit /\ (~ dirty' => ~ dirty /\ c = 0)
        /\ polling' = TRUE /\ dirty' \in BOOLEAN /\ cut' \in BOOLEAN
        /\ urls' = urls /\ newest' = newest /\ injected' = injected
        /\ taken' = [l \in Line |-> IF l \in Coming(file, c) THEN taken[l] + 1 ELSE taken[l]]
    <3>1. polling \in BOOLEAN
      BY DEF Shape, Turn
    <3> QED
      BY <3>1 DEF Visit, Moves
  <2>4. out' \in 0 .. Limit /\ (~ dirty' => out' = 0)
    BY <2>2, <2>3
  <2>5. taken' \in [Line -> Nat]
    BY <2>2, <2>3
  <2> QED
    BY <2>1, <2>2, <2>3, <2>4, <2>5 DEF Turn
<1>3. Names'
  <2>1. \E b \in Nat : \A f \in DOMAIN segment' : f[2] <= b
    <3>1. \A f \in DOMAIN segment' : f \in DOMAIN segment
      BY VisitFiles
    <3> QED
      BY <3>1 DEF Shape, Names
  <2>2. \A f \in DOMAIN segment : \E g \in DOMAIN segment' : g[1] = f[1] /\ g[2] >= f[2]
    <3> SUFFICES ASSUME NEW f \in DOMAIN segment
                 PROVE  \E g \in DOMAIN segment' : g[1] = f[1] /\ g[2] >= f[2]
      OBVIOUS
    <3>1. CASE f = file
      <4>1. PICK i \in DOMAIN todo : file = todo[i]
        BY VisitList DEF Visit
      <4>2. PICK g \in newest : g[1] = file[1] /\ g[2] >= file[2]
        BY <4>1 DEF Shape, Listed
      <4> QED
        BY <3>1, <4>2, VisitFiles
    <3>2. CASE f # file
      <4>1. f \in DOMAIN segment'
        BY <3>2 DEF Visit, Moves
      <4>2. f[2] \in Nat
        BY DEF Shape, Files, Name
      <4>3. f[2] >= f[2]
        BY <4>2
      <4> QED
        BY <4>1, <4>3
    <3> QED
      BY <3>1, <3>2
  <2>3. ASSUME NEW f \in DOMAIN offsets' \cup DOMAIN saved' \cup waiting'
        PROVE  \E g \in DOMAIN segment' : g[1] = f[1] /\ g[2] >= f[2]
    <3>1. f \in DOMAIN offsets \cup DOMAIN saved \cup waiting \cup {file}
      <4>1. waiting' \subseteq waiting
        BY VisitLines
      <4> QED
        BY <4>1 DEF Visit, Moves
    <3>2. PICK g \in DOMAIN segment : g[1] = f[1] /\ g[2] >= f[2]
      <4>1. CASE f = file
        <5>1. file[2] >= file[2]
          BY DEF Shape, Files, Name
        <5> QED
          BY <4>1, <5>1
      <4>2. CASE f # file
        BY <3>1, <4>2 DEF Shape, Names
      <4> QED
        BY <4>1, <4>2
    <3>3. PICK h \in DOMAIN segment' : h[1] = g[1] /\ h[2] >= g[2]
      BY <2>2
    <3>4. f \in Name /\ g \in Name /\ h \in Name
      BY <3>1, VisitFiles DEF Shape, Files, Turn
    <3>5. h[2] >= f[2]
      BY <3>2, <3>3, <3>4 DEF Name
    <3> QED
      BY <3>2, <3>3, <3>5
  <2>4. ASSUME NEW s \in Sender, seq'[s] # -1
        PROVE  /\ <<s, seq'[s]>> \in DOMAIN segment'
               /\ \A g \in DOMAIN segment' : g[1] = s => g[2] <= seq'[s]
    <3>1. /\ seq' = seq /\ seq[s] \in Nat
          /\ <<s, seq[s]>> \in DOMAIN segment
          /\ \A g \in DOMAIN segment : g[1] = s => g[2] <= seq[s]
      BY <2>4 DEF Visit, Moves, Shape, Names, Files
    <3>2. PICK g \in DOMAIN segment' : g[1] = s /\ g[2] >= seq[s]
      BY <2>2, <3>1
    <3>3. g \in DOMAIN segment /\ g \in Name
      BY <3>2, VisitFiles DEF Shape, Files
    <3>4. g[2] = seq[s] /\ g = <<s, seq[s]>>
      BY <3>1, <3>2, <3>3 DEF Name
    <3> QED
      BY <3>1, <3>2, <3>4, VisitFiles
  <2> QED
    BY <2>1, <2>3, <2>4 DEF Names
<1>4. Listed'
  <2>1. newest' = newest /\ OnceEach(todo')
    BY VisitList DEF Visit, Moves
  <2>2. newest \subseteq DOMAIN segment'
    BY VisitFiles
  <2>3. ASSUME NEW i \in DOMAIN todo'
        PROVE  /\ todo'[i] \in DOMAIN segment'
               /\ \E g \in newest : g[1] = todo'[i][1] /\ g[2] >= todo'[i][2]
    <3>1. PICK j \in DOMAIN todo : todo'[i] = todo[j]
      BY VisitList DEF Visit
    <3>2. todo'[i] \in DOMAIN segment /\ \E g \in newest : g[1] = todo'[i][1] /\ g[2] >= todo'[i][2]
      BY <3>1 DEF Shape, Listed
    <3>3. todo'[i] # file
      BY VisitList DEF Visit
    <3> QED
      BY <3>2, <3>3 DEF Visit, Moves
  <2> QED
    BY <2>1, <2>2, <2>3 DEF Listed
<1>5. Apart'
  <2>1. /\ \A f, g \in DOMAIN segment' :
             \A i \in DOMAIN segment'[f] : \A j \in DOMAIN segment'[g] :
               segment'[f][i] = segment'[g][j] => f = g /\ i = j
        /\ \A f \in DOMAIN segment' : \A i \in DOMAIN segment'[f] : segment'[f][i] <= sent'
    BY VisitFiles DEF Visit, Moves, Shape, Apart
  <2>3. OnceEach(collected')
    BY VisitLines
  <2>4. ASSUME NEW l \in Line, l > sent'
        PROVE  l \notin InHand' /\ injected'[l] = 0
    <3>1. sent' = sent /\ injected' = injected /\ urls' = urls
      BY DEF Visit, Moves
    <3>2. l \notin Coming(file, c)
      <4> SUFFICES ASSUME NEW i \in 1 .. c, l = segment[file][At(file) + i]
                   PROVE  FALSE
        BY DEF Coming
      <4>1. l <= sent
        BY VisitFiles DEF Shape, Apart
      <4> QED
        BY <2>4, <3>1, <4>1 DEF Line, Shape, Files
    <3> QED
      BY <2>4, <3>1, <3>2, VisitLines DEF InHand, Shape, Apart
  <2>5. OnceEach(urls')
    BY DEF Visit, Moves, Shape, Apart
  <2> QED
    BY <2>1, <2>3, <2>4, <2>5 DEF Apart, OnceEach
<1>6. Offsets'
  <2> SUFFICES ASSUME NEW f \in DOMAIN segment'
               PROVE  SavedAt(f)' <= At(f)' /\ At(f)' <= Len(segment'[f])
    BY DEF Offsets
  <2>1. /\ f \in DOMAIN segment /\ segment'[f] = segment[f] /\ SavedAt(f)' = SavedAt(f)
        /\ At(f)' = IF f = file THEN At(file) + c ELSE At(f)
    BY VisitFiles DEF Visit, Moves, SavedAt
  <2>2. /\ SavedAt(f) \in Nat /\ At(f) \in Nat /\ SavedAt(f) <= At(f) /\ At(f) <= Len(segment[f])
        /\ At(file) + c <= Len(segment[file]) /\ Len(segment[f]) \in Nat
    <3>1. segment[f] \in Seq(Line)
      BY <2>1 DEF Shape, Files
    <3>2. SavedAt(f) \in Nat /\ At(f) \in Nat
      BY DEF SavedAt, At, Shape, Files
    <3> QED
      BY <2>1, <3>1, <3>2, LenProperties DEF Visit, Moves, Shape, Offsets
  <2> QED
    BY <2>1, <2>2
<1> QED
  BY <1>1, <1>2, <1>3, <1>4, <1>5, <1>6 DEF Shape

-------------------------------------------------------------------------------
(* Where a line is. *)

LEMMA AheadEntry ==
  /\ Shape => \A l : l \in Ahead <=>
       \E f \in DOMAIN segment : \E i \in DOMAIN segment[f] : i > At(f) /\ segment[f][i] = l
  /\ Shape' => \A l : l \in Ahead' <=>
       \E f \in DOMAIN segment' : \E i \in DOMAIN segment'[f] : i > At(f)' /\ segment'[f][i] = l
<1>1. ASSUME NEW q \in Seq(Line), NEW a \in Nat, NEW l
      PROVE  (\E i \in a + 1 .. Len(q) : q[i] = l) <=> \E i \in DOMAIN q : i > a /\ q[i] = l
  <2>1. PICK n \in Nat : n = Len(q) /\ DOMAIN q = 1 .. n
    BY <1>1, Entry
  <2>2. \A i : i \in a + 1 .. n <=> i \in 1 .. n /\ i > a
    BY <1>1
  <2> QED
    BY <2>1, <2>2
<1>2. ASSUME Shape, NEW l
      PROVE  l \in Ahead <=>
       \E f \in DOMAIN segment : \E i \in DOMAIN segment[f] : i > At(f) /\ segment[f][i] = l
  <2>1. ASSUME NEW f \in DOMAIN segment PROVE segment[f] \in Seq(Line) /\ At(f) \in Nat
    BY <1>2, <2>1 DEF At, Shape, Files
  <2>2. l \in Ahead <=>
          \E f \in DOMAIN segment : \E i \in At(f) + 1 .. Len(segment[f]) : segment[f][i] = l
    BY DEF Ahead
  <2> QED
    BY <1>1, <2>1, <2>2
<1>3. ASSUME Shape', NEW l
      PROVE  l \in Ahead' <=>
       \E f \in DOMAIN segment' : \E i \in DOMAIN segment'[f] : i > At(f)' /\ segment'[f][i] = l
  <2>1. ASSUME NEW f \in DOMAIN segment' PROVE segment'[f] \in Seq(Line) /\ At(f)' \in Nat
    BY <1>3, <2>1 DEF At, Shape, Files
  <2>2. l \in Ahead' <=>
          \E f \in DOMAIN segment' : \E i \in At(f)' + 1 .. Len(segment'[f]) : segment'[f][i] = l
    BY DEF Ahead
  <2> QED
    BY <1>1, <2>1, <2>2
<1> QED
  BY <1>2, <1>3

\* Each line that was sent is somewhere, or was lost as it may be.
Somewhere ==
  \A l \in 1 .. sent :
    injected[l] > 0 \/ l \in Ahead \/ l \in InHand \/ l \in discarded \cup killed

Losses ==
  /\ Cardinality(killed) <= kills * Limit
  /\ discarded # {} => cut

LEMMA LossParts ==
  /\ Shape => (LossBounded <=> Somewhere /\ Losses)
  /\ Shape' => (LossBounded' <=> Somewhere' /\ Losses')
<1>1. ASSUME NEW n \in 0 .. MaxSent, NEW f \in [Line -> Nat]
      PROVE  \A l \in 1 .. n : f[l] = 0 <=> ~ (f[l] > 0)
  <2>1. 1 .. n \subseteq Line
    BY DEF Line
  <2> QED
    BY <2>1
<1>2. /\ Shape => \A l \in 1 .. sent : injected[l] = 0 <=> ~ (injected[l] > 0)
      /\ Shape' => \A l \in 1 .. sent' : injected'[l] = 0 <=> ~ (injected'[l] > 0)
  <2>1. /\ Shape => sent \in 0 .. MaxSent /\ injected \in [Line -> Nat]
        /\ Shape' => sent' \in 0 .. MaxSent /\ injected' \in [Line -> Nat]
    BY DEF Shape, Files, Turn
  <2> QED
    BY <1>1, <2>1
<1>3. LossBounded <=> Losses /\ \A l \in 1 .. sent :
        injected[l] = 0 => l \in Ahead \/ l \in InHand \/ l \in discarded \cup killed
  BY DEF LossBounded, Losses, Lost, InHand
<1>4. LossBounded' <=> Losses' /\ \A l \in 1 .. sent' :
        injected'[l] = 0 => l \in Ahead' \/ l \in InHand' \/ l \in discarded' \cup killed'
  BY DEF LossBounded, Losses, Lost, InHand
<1> QED
  BY <1>2, <1>3, <1>4 DEF Somewhere

Kept == Reads /\ Again /\ Passed /\ IsFiniteSet(killed) /\ Somewhere /\ Losses

LEMMA InvParts ==
  /\ Inv <=> Shape /\ Kept
  /\ Inv' <=> Shape' /\ Kept'
BY LossParts DEF Inv, Kept

LEMMA VisitReads ==
  ASSUME Shape, Again, Reads, NEW file \in DOMAIN segment, NEW c \in Nat, NEW deleted \in BOOLEAN,
         Visit(file, c, deleted)
  PROVE  Reads'
<1>1. \A l \in Line : taken[l] \in Nat /\ (l \notin Coming(file, c) => taken'[l] = taken[l])
                      /\ (l \in Coming(file, c) => taken'[l] > 0) /\ (taken[l] > 0 => taken'[l] > 0)
  <2>1. taken \in [Line -> Nat]
    BY DEF Shape, Turn
  <2>2. taken' = [l \in Line |-> IF l \in Coming(file, c) THEN taken[l] + 1 ELSE taken[l]]
    BY DEF Visit, Moves
  <2> QED
    BY <2>1, <2>2
<1>2. ASSUME NEW f \in DOMAIN segment', NEW i \in DOMAIN segment'[f], i <= At(f)'
      PROVE  taken'[segment'[f][i]] > 0
  <2>1. /\ f \in DOMAIN segment /\ segment'[f] = segment[f] /\ segment[f] \in Seq(Line)
        /\ At(f)' = IF f = file THEN At(file) + c ELSE At(f)
    BY VisitFiles DEF Visit, Moves, Shape, Files
  <2>2. segment[f][i] \in Line /\ i \in Nat
    BY <2>1, Entry
  <2>3. CASE i <= At(f)
    BY <1>1, <2>1, <2>2, <2>3 DEF Reads
  <2>4. CASE ~ (i <= At(f))
    <3>1. f = file /\ i <= At(file) + c
      BY <1>2, <2>1, <2>4
    <3>2. At(file) \in Nat
      BY DEF At, Shape, Files
    <3>3. i - At(file) \in 1 .. c /\ At(file) + (i - At(file)) = i
      BY <2>2, <2>4, <3>1, <3>2
    <3>4. segment[f][i] \in Coming(file, c)
      BY <3>1, <3>3 DEF Coming
    <3> QED
      BY <1>1, <2>1, <2>2, <3>4
  <2> QED
    BY <2>3, <2>4
<1>3. ASSUME NEW l \in Line, taken'[l] > 0
      PROVE  injected'[l] > 0 \/ l \in InHand' \/ l \in killed'
  <2>1. /\ injected' = injected /\ killed' = killed /\ urls' = urls
        /\ ToSet(collected') = ToSet(collected) \cup Coming(file, c)
    BY VisitLines DEF Visit, Moves
  <2>2. l \in Coming(file, c) \/ taken[l] > 0
    BY <1>1, <1>3
  <2> QED
    BY <2>1, <2>2 DEF Reads, InHand
<1> QED
  BY <1>2, <1>3 DEF Reads

LEMMA VisitAgain ==
  ASSUME Shape, Again, NEW file \in DOMAIN segment, NEW c \in Nat, NEW deleted \in BOOLEAN,
         Visit(file, c, deleted)
  PROVE  Again'
<1>1. /\ injected' = injected /\ urls' = urls /\ failures' = failures /\ kills' = kills
      /\ ToSet(collected') = ToSet(collected) \cup Coming(file, c)
      /\ InHand' = InHand \cup Coming(file, c)
  BY VisitLines DEF Visit, Moves, InHand
<1>2. ASSUME NEW l \in Coming(file, c)
      PROVE  Few(l)
  <2>1. PICK i \in 1 .. c : l = segment[file][At(file) + i]
    BY DEF Coming
  <2> QED
    BY <2>1, VisitFiles DEF Again, Back
<1>3. \A l : Few(l)' <=> Few(l)
  BY <1>1 DEF Few
<1>4. ASSUME NEW f \in DOMAIN segment', NEW i \in DOMAIN segment'[f]
      PROVE  /\ f \in DOMAIN segment /\ i \in DOMAIN segment[f] /\ segment'[f] = segment[f]
             /\ SavedAt(f)' = SavedAt(f)
             /\ i > At(f)' => i > At(f) /\ segment[f][i] \notin Coming(file, c)
             /\ i <= At(f)' => i <= At(f) \/ segment[f][i] \in Coming(file, c)
  <2>1. /\ f \in DOMAIN segment /\ segment'[f] = segment[f] /\ segment[f] \in Seq(Line)
        /\ At(f)' = IF f = file THEN At(file) + c ELSE At(f)
        /\ SavedAt(f)' = SavedAt(f)
    BY VisitFiles DEF Visit, Moves, Shape, Files, SavedAt
  <2>2. i \in Nat /\ At(f) \in Nat /\ At(file) \in Nat
    <3>1. i \in Nat
      BY <2>1, Entry
    <3>2. DOMAIN offsets \subseteq Name /\ offsets \in [DOMAIN offsets -> Nat]
      BY DEF Shape, Files
    <3> QED
      BY <3>1, <3>2 DEF At
  <2>3. ASSUME i > At(f)', segment[f][i] \in Coming(file, c)
        PROVE  FALSE
    <3>1. PICK k \in 1 .. c : segment[f][i] = segment[file][At(file) + k]
      BY <2>3 DEF Coming
    <3>2. At(file) + k \in DOMAIN segment[file] /\ At(file) + k <= At(file) + c
      BY VisitFiles
    <3>3. f = file /\ i = At(file) + k
      BY <2>1, <3>1, <3>2 DEF Shape, Apart
    <3> QED
      BY <2>1, <2>3, <3>2, <3>3, <2>2
  <2>4. ASSUME i <= At(f)', ~ (i <= At(f))
        PROVE  segment[f][i] \in Coming(file, c)
    <3>1. f = file /\ i <= At(file) + c
      BY <2>1, <2>4
    <3>2. i - At(file) \in 1 .. c /\ At(file) + (i - At(file)) = i
      BY <2>2, <2>4, <3>1
    <3> QED
      BY <3>1, <3>2 DEF Coming
  <2>5. i > At(f)' => i > At(f)
    BY <2>1, <2>2
  <2> QED
    BY <2>1, <2>3, <2>4, <2>5
<1>5. ASSUME NEW f \in DOMAIN segment', NEW i \in DOMAIN segment'[f]
      PROVE  Back(f, i)'
  <2>0. PICK l : l = segment[f][i]
    OBVIOUS
  <2>1. /\ segment'[f][i] = l /\ Back(f, i) /\ SavedAt(f)' = SavedAt(f)
        /\ i > At(f)' => i > At(f) /\ l \notin Coming(file, c)
        /\ i <= At(f)' => i <= At(f) \/ l \in Coming(file, c)
    BY <1>4, <2>0 DEF Again
  <2>2. i > At(f)' => Few(l)' /\ l \notin InHand'
    BY <1>1, <1>3, <2>0, <2>1 DEF Back
  <2>3. i > SavedAt(f)' /\ i <= At(f)' /\ l \notin ToSet(collected') =>
          /\ injected'[l] <= failures'
          /\ l \in ToSet(urls') => injected'[l] + 1 <= failures'
    <3>1. i > SavedAt(f)' /\ i <= At(f)' /\ l \notin ToSet(collected') =>
            i > SavedAt(f) /\ i <= At(f) /\ l \notin ToSet(collected)
      BY <1>1, <2>1
    <3>2. i > SavedAt(f) /\ i <= At(f) /\ l \notin ToSet(collected) =>
            /\ injected[l] <= failures
            /\ l \in ToSet(urls) => injected[l] + 1 <= failures
      BY <2>0, <2>1 DEF Back
    <3> QED
      BY <1>1, <3>1, <3>2
  <2>4. segment'[f][i] = l
    BY <2>1
  <2> QED
    BY <2>2, <2>3, <2>4 DEF Back
<1>6. \A l \in Line : injected'[l] <= 1 + failures' /\ injected'[l] <= 1 + kills'
  BY <1>1 DEF Again
<1>7. \A l \in InHand' : Few(l)'
  BY <1>1, <1>2, <1>3 DEF Again
<1> QED
  BY <1>5, <1>6, <1>7 DEF Again

\* A line of the file that the visit has left unread.
LEMMA VisitLeft ==
  ASSUME Shape, NEW file \in DOMAIN segment, NEW c \in Nat, NEW deleted \in BOOLEAN,
         Visit(file, c, deleted), NEW i \in DOMAIN segment[file], i > At(file),
         segment[file][i] \notin Coming(file, c)
  PROVE  i > At(file) + c /\ At(file) + c < Len(segment[file])
<1>1. segment[file] \in Seq(Line)
  BY DEF Shape, Files
<1>2. PICK n \in Nat : n = Len(segment[file]) /\ DOMAIN segment[file] = 1 .. n
  BY <1>1, Entry
<1>3. At(file) \in Nat /\ i \in 1 .. n
  BY <1>2 DEF At, Shape, Files
<1>4. i > At(file) + c
  <2> SUFFICES ASSUME ~ (i > At(file) + c)
               PROVE  FALSE
    OBVIOUS
  <2>1. i - At(file) \in 1 .. c /\ At(file) + (i - At(file)) = i
    BY <1>3
  <2> QED
    BY <2>1 DEF Coming
<1> QED
  BY <1>2, <1>3, <1>4

LEMMA VisitPassed ==
  ASSUME Shape, Again, Passed, NEW file \in DOMAIN segment, NEW c \in Nat,
         NEW deleted \in BOOLEAN, Visit(file, c, deleted)
  PROVE  Passed'
<1> SUFFICES ASSUME NEW f \in waiting', f \in DOMAIN segment'
             PROVE  f \in ToSet(todo') /\ Len(segment'[f]) > At(f)'
  BY DEF Passed
<1>1. polling /\ out < Limit /\ (At(file) < Len(segment[file]) => c > 0)
  BY DEF Visit, Moves
<1>2. waiting' = IF c > 0 THEN waiting \ {file} ELSE waiting
  BY VisitLines
<1>3. f \in DOMAIN segment /\ segment'[f] = segment[f]
  BY VisitFiles
<1>4. f \in ToSet(todo) /\ Len(segment[f]) > At(f)
  BY <1>1, <1>2, <1>3 DEF Passed
<1>5. f # file
  <2> SUFFICES ASSUME f = file
               PROVE  FALSE
    OBVIOUS
  <2>1. At(file) \in Nat /\ Len(segment[file]) \in Nat
    <3>1. segment[file] \in Seq(Line)
      BY DEF Shape, Files
    <3> QED
      BY <3>1, LenProperties DEF At, Shape, Files
  <2>2. c > 0
    BY <1>1, <1>4, <2>1
  <2> QED
    BY <1>2, <2>2
<1>6. At(f)' = At(f)
  BY <1>5 DEF Visit, Moves
<1>7. f \in ToSet(todo')
  BY <1>4, <1>5, VisitList DEF Visit
<1> QED
  BY <1>3, <1>4, <1>6, <1>7

LEMMA VisitSomewhere ==
  ASSUME Shape, Shape', Again, Reads', Somewhere, NEW file \in DOMAIN segment, NEW c \in Nat,
         NEW deleted \in BOOLEAN, Visit(file, c, deleted)
  PROVE  Somewhere'
<1>1. /\ injected' = injected /\ sent' = sent /\ killed' = killed /\ discarded \subseteq discarded'
      /\ InHand' = InHand \cup Coming(file, c)
  BY VisitLines DEF Visit, Moves, InHand
<1> SUFFICES ASSUME NEW l \in 1 .. sent, l \in Ahead, l \notin Coming(file, c)
             PROVE  injected'[l] > 0 \/ l \in Ahead' \/ l \in InHand' \/ l \in discarded' \cup killed'
  BY <1>1 DEF Somewhere
<1>0. PICK f \in DOMAIN segment : \E i \in DOMAIN segment[f] : i > At(f) /\ segment[f][i] = l
  BY AheadEntry
<1>2. PICK i \in DOMAIN segment[f] : i > At(f) /\ segment[f][i] = l
  BY <1>0
<1>3. CASE f \in DOMAIN segment'
  <2>1. segment'[f] = segment[f] /\ At(f)' = IF f = file THEN At(file) + c ELSE At(f)
    BY <1>3, VisitFiles DEF Visit, Moves
  <2>2. i > At(f)'
    BY <1>2, <2>1, VisitLeft
  <2>3. i \in DOMAIN segment'[f] /\ segment'[f][i] = l
    BY <1>2, <2>1
  <2>4. l \in Ahead'
    BY <1>3, <2>2, <2>3, AheadEntry
  <2> QED
    BY <2>4
<1>4. CASE f \notin DOMAIN segment'
  <2>1. l \in Line
    BY DEF Line, Shape, Files
  <2>2. CASE taken'[l] = 0
    <3>1. l \in ToSet(segment[f])
      BY <1>2 DEF ToSet
    <3> QED
      BY <1>4, <2>2, <3>1 DEF Visit, Moves
  <2>3. CASE taken'[l] # 0
    <3>1. taken'[l] > 0
      BY <2>1, <2>3 DEF Shape, Turn
    <3> QED
      BY <2>1, <3>1 DEF Reads
  <2> QED
    BY <2>2, <2>3
<1> QED
  BY <1>3, <1>4

LEMMA VisitLosses ==
  ASSUME Shape, Shape', Reads, Losses, NEW file \in DOMAIN segment, NEW c \in Nat,
         NEW deleted \in BOOLEAN, Visit(file, c, deleted)
  PROVE  Losses'
<1>1. killed' = killed /\ kills' = kills /\ (cut => cut') /\ (discarded # {} => cut)
  BY DEF Visit, Moves, Losses
<1>2. ASSUME NEW l \in discarded', l \notin discarded
      PROVE  cut'
  <2>1. /\ l \in 1 .. sent /\ taken'[l] = 0
        /\ \E f \in DOMAIN segment \ DOMAIN segment' : l \in ToSet(segment[f])
    BY <1>2 DEF Visit, Moves
  <2>2. deleted /\ l \in ToSet(segment[file])
    BY <2>1 DEF Visit, Moves
  <2>3. PICK i \in DOMAIN segment[file] : segment[file][i] = l
    BY <2>2 DEF ToSet
  <2>4. l \in Line /\ taken[l] \in Nat
    <3>1. sent \in 0 .. MaxSent /\ taken \in [Line -> Nat]
      BY DEF Shape, Files, Turn
    <3> QED
      BY <2>1, <3>1 DEF Line
  <2>5. taken'[l] = IF l \in Coming(file, c) THEN taken[l] + 1 ELSE taken[l]
    BY <2>4 DEF Visit, Moves
  <2>6. l \notin Coming(file, c) /\ taken[l] = 0
    BY <2>1, <2>4, <2>5
  <2>7. i > At(file)
    <3>1. ~ (i <= At(file))
      BY <2>3, <2>6 DEF Reads
    <3>2. i \in Nat /\ At(file) \in Nat
      <4>1. segment[file] \in Seq(Line) /\ offsets \in [DOMAIN offsets -> Nat]
        BY DEF Shape, Files
      <4>2. i \in Nat
        BY <4>1, Entry
      <4> QED
        BY <4>1, <4>2 DEF At
    <3> QED
      BY <3>1, <3>2
  <2>8. At(file) + c < Len(segment[file])
    BY <2>3, <2>6, <2>7, VisitLeft
  <2> QED
    BY <2>2, <2>8 DEF Visit, Moves
<1> QED
  BY <1>1, <1>2 DEF Losses

LEMMA DrainSegmentKeeps ==
  ASSUME Shape, Kept, DrainSegment
  PROVE  Shape' /\ Kept'
<1>1. PICK file \in DOMAIN segment, c \in Nat, deleted \in BOOLEAN : Visit(file, c, deleted)
  BY SegmentVisit
<1>2. Shape'
  BY <1>1, VisitShape DEF Kept
<1>3. Reads' /\ Again' /\ Passed'
  BY <1>1, VisitReads, VisitAgain, VisitPassed DEF Kept
<1>4. Somewhere' /\ Losses'
  BY <1>1, <1>2, <1>3, VisitSomewhere, VisitLosses DEF Kept
<1>5. killed' = killed
  BY <1>1 DEF Visit, Moves
<1> QED
  BY <1>2, <1>3, <1>4, <1>5 DEF Kept

-------------------------------------------------------------------------------
(* What a sender does. *)

\* The receiver does nothing.
Reader == <<offsets, saved, taken, kills, failures, cut, pollVars, drainVars>>

\* The segment a sender writes to is its last, or a new one that no offset
\* is remembered for.
LEMMA StartedFile ==
  ASSUME Shape, NEW s \in Sender, StartLine(s)
  PROVE  \E n \in Nat :
           /\ seq' = [seq EXCEPT ![s] = n] /\ fragment' = fragment \cup {<<s, n>>}
           /\ DOMAIN segment' = DOMAIN segment \cup {<<s, n>>}
           /\ segment' \in [DOMAIN segment' -> Seq(Line)]
           /\ \A f \in DOMAIN segment : segment'[f] = segment[f]
           /\ \A f \in DOMAIN segment : f[1] = s => f[2] <= n
           /\ <<s, n>> \notin DOMAIN segment =>
                /\ segment'[<<s, n>>] = <<>> /\ At(<<s, n>>) = 0 /\ SavedAt(<<s, n>>) = 0
                /\ <<s, n>> \notin waiting
<1> DEFINE n == WriterSeq(s)
<1>1. /\ seq' = [seq EXCEPT ![s] = n] /\ fragment' = fragment \cup {<<s, n>>}
      /\ segment' = [f \in DOMAIN segment \cup {<<s, n>>} |->
                       IF f \in DOMAIN segment THEN segment[f] ELSE <<>>]
  BY DEF StartLine
<1>2. \A f \in DOMAIN segment : f \in Name /\ f[2] \in Nat
  BY DEF Shape, Files, Name
<1>3. /\ n \in Nat
      /\ \A f \in DOMAIN segment : f[1] = s => f[2] <= n
      /\ <<s, n>> \notin DOMAIN segment => \A f \in DOMAIN segment : f[1] = s => f[2] < n
  <2>1. CASE seq[s] = -1 /\ Sends(s) = {}
    <3>1. n = 0
      BY <2>1 DEF WriterSeq, NextSeq
    <3> QED
      BY <2>1, <3>1 DEF Sends
  <2>2. CASE seq[s] = -1 /\ Sends(s) # {}
    <3> DEFINE T == {f[2] : f \in Sends(s)}
    <3>1. n = Max(T) + 1
      BY <2>2 DEF WriterSeq, NextSeq
    <3>2. T \subseteq Nat /\ T # {}
      BY <1>2, <2>2 DEF Sends
    <3>3. PICK b \in Nat : \A t \in T : t <= b
      BY DEF Shape, Names, Sends
    <3>4. Max(T) \in T /\ \A t \in T : t <= Max(T)
      <4> HIDE DEF T
      <4> QED
        BY <3>2, <3>3, Highest
    <3>5. \A f \in DOMAIN segment : f[1] = s => f[2] \in T
      BY DEF Sends
    <3> HIDE DEF T
    <3>6. Max(T) \in Nat
      BY <3>2, <3>4
    <3>7. \A f \in DOMAIN segment : f[1] = s => f[2] \in Nat /\ f[2] <= Max(T)
      BY <1>2, <3>4, <3>5
    <3> QED
      BY <3>1, <3>6, <3>7
  <2>3. CASE seq[s] # -1
    <3>1. /\ seq[s] \in Nat /\ <<s, seq[s]>> \in DOMAIN segment
          /\ \A g \in DOMAIN segment : g[1] = s => g[2] <= seq[s]
      BY <2>3 DEF Shape, Files, Names
    <3>2. n = seq[s] + 1 \/ n = seq[s]
      BY <2>3 DEF WriterSeq
    <3> QED
      BY <1>2, <3>1, <3>2
  <2> QED
    BY <2>1, <2>2, <2>3
<1> HIDE DEF n
<1>4. \A f : DOMAIN segment' = DOMAIN segment \cup {<<s, n>>}
  BY <1>1
<1>5. segment' \in [DOMAIN segment' -> Seq(Line)]
  <2>1. segment \in [DOMAIN segment -> Seq(Line)]
    BY DEF Shape, Files
  <2>2. <<>> \in Seq(Line)
    BY EmptySeq
  <2> QED
    BY <1>1, <2>1, <2>2
<1>6. ASSUME <<s, n>> \notin DOMAIN segment
      PROVE  <<s, n>> \notin DOMAIN offsets \cup DOMAIN saved \cup waiting
  <2> SUFFICES ASSUME <<s, n>> \in DOMAIN offsets \cup DOMAIN saved \cup waiting
               PROVE  FALSE
    OBVIOUS
  <2>1. PICK g \in DOMAIN segment : g[1] = s /\ g[2] >= n
    BY DEF Shape, Names
  <2> QED
    BY <1>2, <1>3, <1>6, <2>1
<1> QED
  BY <1>1, <1>3, <1>4, <1>5, <1>6 DEF At, SavedAt

LEMMA StartLineShape ==
  ASSUME Shape, NEW s \in Sender, StartLine(s), UNCHANGED Reader
  PROVE  Shape'
<1>1. PICK n \in Nat :
        /\ seq' = [seq EXCEPT ![s] = n] /\ fragment' = fragment \cup {<<s, n>>}
        /\ DOMAIN segment' = DOMAIN segment \cup {<<s, n>>}
        /\ segment' \in [DOMAIN segment' -> Seq(Line)]
        /\ \A f \in DOMAIN segment : segment'[f] = segment[f]
        /\ \A f \in DOMAIN segment : f[1] = s => f[2] <= n
        /\ <<s, n>> \notin DOMAIN segment =>
             /\ segment'[<<s, n>>] = <<>> /\ At(<<s, n>>) = 0 /\ SavedAt(<<s, n>>) = 0
             /\ <<s, n>> \notin waiting
  BY StartedFile
<1>2. /\ sent' = sent /\ offsets' = offsets /\ saved' = saved /\ waiting' = waiting
      /\ newest' = newest /\ todo' = todo /\ collected' = collected /\ urls' = urls
      /\ injected' = injected
  BY DEF StartLine, Reader, pollVars, drainVars
<1>3. \A f \in DOMAIN segment : f \in Name /\ f[2] \in Nat
  BY DEF Shape, Files, Name
<1>4. DOMAIN <<>> = {} /\ Len(<<>>) = 0
  BY EmptySeq
<1>5. \A f : At(f)' = At(f) /\ SavedAt(f)' = SavedAt(f)
  BY <1>2 DEF At, SavedAt
<1>6. Files'
  <2>1. DOMAIN segment' \subseteq Name
    BY <1>1, <1>3 DEF Name
  <2>2. IsFiniteSet(DOMAIN segment')
    <3>1. IsFiniteSet(DOMAIN segment)
      BY DEF Shape, Files
    <3>2. IsFiniteSet(DOMAIN segment \cup {<<s, n>>})
      BY <3>1, FS_AddElement
    <3> QED
      BY <1>1, <3>2
  <2>3. seq' \in [Sender -> Nat \cup {-1}]
    BY <1>1 DEF Shape, Files
  <2>4. fragment' \subseteq DOMAIN segment'
    BY <1>1 DEF Shape, Files
  <2>5. kills' = kills /\ failures' = failures
    BY DEF Reader
  <2> QED
    BY <1>1, <1>2, <2>1, <2>2, <2>3, <2>4, <2>5 DEF Shape, Files
<1>7. Turn'
  BY DEF Shape, Turn, Reader, pollVars, drainVars
<1>8. Names'
  <2>1. \E b \in Nat : \A f \in DOMAIN segment' : f[2] <= b
    <3>1. PICK b \in Nat : \A f \in DOMAIN segment : f[2] <= b
      BY DEF Shape, Names
    <3>2. PICK d \in Nat : b <= d /\ n <= d
      <4>1. b <= b + n /\ n <= b + n /\ b + n \in Nat
        OBVIOUS
      <4> QED
        BY <4>1
    <3>3. ASSUME NEW f \in DOMAIN segment' PROVE f[2] <= d
      <4>1. CASE f = <<s, n>>
        BY <3>2, <4>1
      <4>2. CASE f # <<s, n>>
        <5>1. f \in DOMAIN segment /\ f[2] \in Nat
          BY <1>1, <4>2 DEF Shape, Files, Name
        <5>2. f[2] <= b
          BY <3>1, <5>1
        <5> QED
          BY <3>2, <5>1, <5>2
      <4> QED
        BY <4>1, <4>2
    <3> QED
      BY <3>3
  <2>2. \A f \in DOMAIN offsets' \cup DOMAIN saved' \cup waiting' :
          \E g \in DOMAIN segment' : g[1] = f[1] /\ g[2] >= f[2]
    BY <1>1, <1>2 DEF Shape, Names
  <2>3. ASSUME NEW r \in Sender, seq'[r] # -1
        PROVE  /\ <<r, seq'[r]>> \in DOMAIN segment'
               /\ \A g \in DOMAIN segment' : g[1] = r => g[2] <= seq'[r]
    <3>1. seq \in [Sender -> Nat \cup {-1}]
      BY DEF Shape, Files
    <3>2. CASE r = s
      BY <1>1, <3>1, <3>2
    <3>3. CASE r # s
      <4>1. seq'[r] = seq[r] /\ \A g \in DOMAIN segment' : g[1] = r => g \in DOMAIN segment
        BY <1>1, <3>1, <3>3
      <4> QED
        BY <1>1, <2>3, <4>1 DEF Shape, Names
    <3> QED
      BY <3>2, <3>3
  <2> QED
    BY <2>1, <2>2, <2>3 DEF Names
<1>9. Listed'
  BY <1>1, <1>2 DEF Shape, Listed, OnceEach
<1>10. Apart'
  <2>1. ASSUME NEW f \in DOMAIN segment', NEW i \in DOMAIN segment'[f]
        PROVE  f \in DOMAIN segment /\ segment'[f] = segment[f]
    BY <1>1, <1>4
  <2>2. /\ \A f, g \in DOMAIN segment' :
             \A i \in DOMAIN segment'[f] : \A j \in DOMAIN segment'[g] :
               segment'[f][i] = segment'[g][j] => f = g /\ i = j
        /\ \A f \in DOMAIN segment' : \A i \in DOMAIN segment'[f] : segment'[f][i] <= sent'
    BY <1>2, <2>1 DEF Shape, Apart
  <2> QED
    BY <1>2, <2>2 DEF Shape, Apart, OnceEach, InHand
<1>11. Offsets'
  <2> SUFFICES ASSUME NEW f \in DOMAIN segment'
               PROVE  SavedAt(f)' <= At(f)' /\ At(f)' <= Len(segment'[f])
    BY DEF Offsets
  <2>1. CASE f \in DOMAIN segment
    BY <1>1, <1>5, <2>1 DEF Shape, Offsets
  <2>2. CASE f \notin DOMAIN segment
    <3>1. f = <<s, n>>
      BY <1>1, <2>2
    <3>2. segment'[f] = <<>> /\ At(f)' = 0 /\ SavedAt(f)' = 0
      BY <1>1, <1>5, <2>2, <3>1
    <3> QED
      BY <1>4, <3>2
  <2> QED
    BY <2>1, <2>2
<1> QED
  BY <1>6, <1>7, <1>8, <1>9, <1>10, <1>11 DEF Shape

\* Every line that is in a segment is where it was.
LEMMA StartLineKeeps ==
  ASSUME Shape, Kept, NEW s \in Sender, StartLine(s), UNCHANGED Reader
  PROVE  Shape' /\ Kept'
<1>1. PICK n \in Nat :
        /\ DOMAIN segment' = DOMAIN segment \cup {<<s, n>>}
        /\ \A f \in DOMAIN segment : segment'[f] = segment[f]
        /\ <<s, n>> \notin DOMAIN segment =>
             segment'[<<s, n>>] = <<>> /\ <<s, n>> \notin waiting
  BY StartedFile
<1>2. /\ sent' = sent /\ offsets' = offsets /\ saved' = saved /\ waiting' = waiting
      /\ todo' = todo /\ collected' = collected /\ urls' = urls /\ taken' = taken
      /\ injected' = injected /\ kills' = kills /\ failures' = failures /\ cut' = cut
      /\ killed' = killed /\ discarded' = discarded /\ polling' = polling /\ out' = out
  BY DEF StartLine, Reader, pollVars, drainVars
<1>3. Shape'
  BY StartLineShape
<1>4. \A f : At(f)' = At(f) /\ SavedAt(f)' = SavedAt(f)
  BY <1>2 DEF At, SavedAt
<1>5. DOMAIN <<>> = {}
  BY EmptySeq
<1>6. ASSUME NEW f \in DOMAIN segment', NEW i \in DOMAIN segment'[f]
      PROVE  f \in DOMAIN segment /\ segment'[f] = segment[f]
  BY <1>1, <1>5
<1>7. \A f \in DOMAIN segment : f \in DOMAIN segment' /\ segment'[f] = segment[f]
  BY <1>1
<1>8. Reads'
  BY <1>2, <1>4, <1>6 DEF Kept, Reads, InHand
<1>9. Again'
  <2>1. \A l : Few(l)' <=> Few(l)
    BY <1>2 DEF Few
  <2>2. InHand' = InHand
    BY <1>2 DEF InHand
  <2>3. ASSUME NEW f \in DOMAIN segment', NEW i \in DOMAIN segment'[f]
        PROVE  Back(f, i)'
    <3>1. Back(f, i) /\ segment'[f][i] = segment[f][i]
      BY <1>6 DEF Kept, Again
    <3>2. At(f)' = At(f) /\ SavedAt(f)' = SavedAt(f)
      BY <1>4
    <3> QED
      BY <1>2, <2>1, <2>2, <3>1, <3>2 DEF Back
  <2> QED
    BY <1>2, <2>1, <2>2, <2>3 DEF Kept, Again
<1>10. Passed'
  <2>1. ASSUME NEW f \in waiting, f \in DOMAIN segment'
        PROVE  f \in DOMAIN segment /\ segment'[f] = segment[f]
    BY <1>1, <2>1
  <2> QED
    BY <1>2, <1>4, <2>1 DEF Kept, Passed
<1>11. Somewhere'
  <2>1. \A l : l \in Ahead => l \in Ahead'
    BY <1>3, <1>4, <1>7, AheadEntry
  <2> QED
    BY <1>2, <2>1 DEF Kept, Somewhere, InHand
<1> QED
  BY <1>2, <1>3, <1>8, <1>9, <1>10, <1>11 DEF Kept, Losses

\* A line is the last of its segment when it is complete.
LEMMA FinishedFile ==
  ASSUME Shape, NEW s \in Sender, FinishLine(s)
  PROVE  \E file \in DOMAIN segment, n \in Nat :
           /\ sent' = sent + 1 /\ sent + 1 \in Line
           /\ Len(segment[file]) = n /\ DOMAIN segment[file] = 1 .. n
           /\ DOMAIN segment' = DOMAIN segment
           /\ segment' \in [DOMAIN segment -> Seq(Line)]
           /\ \A f \in DOMAIN segment : f # file => segment'[f] = segment[f]
           /\ Len(segment'[file]) = n + 1 /\ DOMAIN segment'[file] = 1 .. n + 1
           /\ \A i \in 1 .. n : segment'[file][i] = segment[file][i]
           /\ segment'[file][n + 1] = sent + 1
           /\ fragment' \subseteq fragment /\ seq' = seq
<1> DEFINE file == <<s, seq[s]>>
           n == Len(segment[file])
<1>1. /\ file \in fragment /\ sent < MaxSent /\ sent' = sent + 1
      /\ segment' = [segment EXCEPT ![file] = Append(segment[file], sent + 1)]
      /\ fragment' = fragment \ {file} /\ seq' = seq
  BY DEF FinishLine
<1>2. file \in DOMAIN segment /\ segment \in [DOMAIN segment -> Seq(Line)] /\ sent \in 0 .. MaxSent
  BY <1>1 DEF Shape, Files
<1> HIDE DEF file
<1>3. sent + 1 \in Line /\ segment[file] \in Seq(Line)
  BY <1>1, <1>2 DEF Line
<1>4. /\ Append(segment[file], sent + 1) \in Seq(Line)
      /\ n \in Nat /\ Len(Append(segment[file], sent + 1)) = n + 1
      /\ DOMAIN segment[file] = 1 .. n /\ DOMAIN Append(segment[file], sent + 1) = 1 .. n + 1
      /\ \A i \in 1 .. n : Append(segment[file], sent + 1)[i] = segment[file][i]
      /\ Append(segment[file], sent + 1)[n + 1] = sent + 1
  BY <1>3, Longer
<1>5. segment'[file] = Append(segment[file], sent + 1)
  BY <1>1, <1>2
<1>6. /\ DOMAIN segment' = DOMAIN segment /\ segment' \in [DOMAIN segment -> Seq(Line)]
      /\ \A f \in DOMAIN segment : f # file => segment'[f] = segment[f]
  BY <1>1, <1>2, <1>4
<1>7. Len(segment[file]) = n
  OBVIOUS
<1> HIDE DEF n
<1> QED
  BY <1>1, <1>2, <1>3, <1>4, <1>5, <1>6, <1>7

LEMMA FinishLineShape ==
  ASSUME Shape, NEW s \in Sender, FinishLine(s), UNCHANGED Reader
  PROVE  Shape'
<1>1. PICK file \in DOMAIN segment, n \in Nat :
        /\ sent' = sent + 1 /\ sent + 1 \in Line
        /\ Len(segment[file]) = n /\ DOMAIN segment[file] = 1 .. n
        /\ DOMAIN segment' = DOMAIN segment
        /\ segment' \in [DOMAIN segment -> Seq(Line)]
        /\ \A f \in DOMAIN segment : f # file => segment'[f] = segment[f]
        /\ Len(segment'[file]) = n + 1 /\ DOMAIN segment'[file] = 1 .. n + 1
        /\ \A i \in 1 .. n : segment'[file][i] = segment[file][i]
        /\ segment'[file][n + 1] = sent + 1
        /\ fragment' \subseteq fragment /\ seq' = seq
  BY FinishedFile
<1>2. /\ offsets' = offsets /\ saved' = saved /\ waiting' = waiting
      /\ newest' = newest /\ todo' = todo /\ collected' = collected /\ urls' = urls
      /\ injected' = injected /\ kills' = kills /\ failures' = failures
  BY DEF Reader, pollVars, drainVars
<1>3. \A f : At(f)' = At(f) /\ SavedAt(f)' = SavedAt(f)
  BY <1>2 DEF At, SavedAt
<1>4. sent \in Nat /\ sent' = sent + 1
  BY <1>1 DEF Shape, Files
<1>5. Files'
  <2>1. sent' \in 0 .. MaxSent
    BY <1>1 DEF Line
  <2>2. segment' \in [DOMAIN segment' -> Seq(Line)] /\ fragment' \subseteq DOMAIN segment'
    BY <1>1 DEF Shape, Files
  <2> QED
    BY <1>1, <1>2, <2>1, <2>2 DEF Shape, Files
<1>6. Turn'
  BY DEF Shape, Turn, Reader, pollVars, drainVars
<1>7. Names'
  BY <1>1, <1>2 DEF Shape, Names
<1>8. Listed'
  BY <1>1, <1>2 DEF Shape, Listed, OnceEach
<1>9. Apart'
  <2>1. ASSUME NEW f \in DOMAIN segment', NEW i \in DOMAIN segment'[f]
        PROVE  \/ f = file /\ i = n + 1 /\ segment'[f][i] = sent + 1
               \/ i \in DOMAIN segment[f] /\ segment'[f][i] = segment[f][i]
    <3>1. CASE f = file
      <4>1. i \in 1 .. n \/ i = n + 1
        BY <1>1, <3>1
      <4> QED
        BY <1>1, <3>1, <4>1
    <3>2. CASE f # file
      BY <1>1, <3>2
    <3> QED
      BY <3>1, <3>2
  <2>2. \A f \in DOMAIN segment : \A i \in DOMAIN segment[f] :
          segment[f][i] \in Line /\ segment[f][i] <= sent
    <3>1. \A f \in DOMAIN segment : segment[f] \in Seq(Line)
      BY DEF Shape, Files
    <3> QED
      BY <3>1, Entry DEF Shape, Apart
  <2>3. ASSUME NEW f \in DOMAIN segment', NEW g \in DOMAIN segment',
               NEW i \in DOMAIN segment'[f], NEW j \in DOMAIN segment'[g],
               segment'[f][i] = segment'[g][j]
        PROVE  f = g /\ i = j
    <3>1. f \in DOMAIN segment /\ g \in DOMAIN segment
      BY <1>1
    <3>2. CASE /\ i \in DOMAIN segment[f] /\ segment'[f][i] = segment[f][i]
               /\ j \in DOMAIN segment[g] /\ segment'[g][j] = segment[g][j]
      <4>1. segment[f][i] = segment[g][j]
        BY <2>3, <3>2
      <4>2. Apart
        BY DEF Shape
      <4> QED
        BY <3>1, <3>2, <4>1, <4>2 DEF Apart
    <3>3. CASE /\ f = file /\ i = n + 1 /\ segment'[f][i] = sent + 1
               /\ g = file /\ j = n + 1 /\ segment'[g][j] = sent + 1
      BY <3>3
    <3>4. ASSUME NEW l \in Line, l <= sent
          PROVE  l # sent + 1
      BY <1>4, <3>4 DEF Line
    <3>5. CASE /\ f = file /\ i = n + 1 /\ segment'[f][i] = sent + 1
               /\ j \in DOMAIN segment[g] /\ segment'[g][j] = segment[g][j]
      BY <2>2, <2>3, <3>1, <3>4, <3>5
    <3>6. CASE /\ i \in DOMAIN segment[f] /\ segment'[f][i] = segment[f][i]
               /\ g = file /\ j = n + 1 /\ segment'[g][j] = sent + 1
      BY <2>2, <2>3, <3>1, <3>4, <3>6
    <3> QED
      BY <2>1, <3>2, <3>3, <3>5, <3>6
  <2>4. ASSUME NEW f \in DOMAIN segment', NEW i \in DOMAIN segment'[f]
        PROVE  segment'[f][i] <= sent'
    <3>1. f \in DOMAIN segment
      BY <1>1
    <3>2. ASSUME NEW l \in Line, l <= sent
          PROVE  l <= sent + 1
      BY <1>4, <3>2 DEF Line
    <3>3. CASE i \in DOMAIN segment[f] /\ segment'[f][i] = segment[f][i]
      BY <1>4, <2>2, <3>1, <3>2, <3>3
    <3>4. CASE segment'[f][i] = sent + 1
      BY <1>4, <3>4
    <3> QED
      BY <2>1, <3>3, <3>4
  <2>5. \A l \in Line : l > sent' => l \notin InHand' /\ injected'[l] = 0
    <3>1. \A l \in Line : l > sent + 1 => l > sent
      BY <1>4 DEF Line
    <3> QED
      BY <1>2, <1>4, <3>1 DEF Shape, Apart, InHand
  <2>6. OnceEach(collected') /\ OnceEach(urls')
    BY <1>2 DEF Shape, Apart
  <2> QED
    BY <2>3, <2>4, <2>5, <2>6 DEF Apart, OnceEach
<1>10. Offsets'
  <2> SUFFICES ASSUME NEW f \in DOMAIN segment
               PROVE  SavedAt(f)' <= At(f)' /\ At(f)' <= Len(segment'[f])
    BY <1>1 DEF Offsets
  <2>1. SavedAt(f)' <= At(f)' /\ At(f)' <= Len(segment[f]) /\ At(f)' \in Nat
    BY <1>3 DEF Shape, Offsets, At, Files
  <2>2. CASE f = file
    BY <1>1, <2>1, <2>2
  <2>3. CASE f # file
    BY <1>1, <2>1, <2>3
  <2> QED
    BY <2>2, <2>3
<1> QED
  BY <1>5, <1>6, <1>7, <1>8, <1>9, <1>10 DEF Shape

LEMMA FinishLineKeeps ==
  ASSUME Shape, Kept, NEW s \in Sender, FinishLine(s), UNCHANGED Reader
  PROVE  Shape' /\ Kept'
<1>1. PICK file \in DOMAIN segment, n \in Nat :
        /\ sent' = sent + 1 /\ sent + 1 \in Line
        /\ Len(segment[file]) = n /\ DOMAIN segment[file] = 1 .. n
        /\ DOMAIN segment' = DOMAIN segment
        /\ segment' \in [DOMAIN segment -> Seq(Line)]
        /\ \A f \in DOMAIN segment : f # file => segment'[f] = segment[f]
        /\ Len(segment'[file]) = n + 1 /\ DOMAIN segment'[file] = 1 .. n + 1
        /\ \A i \in 1 .. n : segment'[file][i] = segment[file][i]
        /\ segment'[file][n + 1] = sent + 1
        /\ fragment' \subseteq fragment /\ seq' = seq
  BY FinishedFile
<1>2. /\ offsets' = offsets /\ saved' = saved /\ waiting' = waiting
      /\ todo' = todo /\ collected' = collected /\ urls' = urls /\ taken' = taken
      /\ injected' = injected /\ kills' = kills /\ failures' = failures /\ cut' = cut
      /\ killed' = killed /\ discarded' = discarded /\ polling' = polling /\ out' = out
  BY DEF Reader, pollVars, drainVars
<1>3. Shape'
  BY FinishLineShape
<1>4. \A f : At(f)' = At(f) /\ SavedAt(f)' = SavedAt(f)
  BY <1>2 DEF At, SavedAt
<1>5. sent \in Nat /\ At(file) \in Nat /\ At(file) <= n /\ SavedAt(file) \in Nat
  BY <1>1 DEF Shape, Files, Offsets, At, SavedAt
<1>6. ASSUME NEW f \in DOMAIN segment', NEW i \in DOMAIN segment'[f]
      PROVE  \/ f = file /\ i = n + 1 /\ segment'[f][i] = sent + 1 /\ i > At(f)
             \/ i \in DOMAIN segment[f] /\ segment'[f][i] = segment[f][i]
  <2>1. CASE f = file
    <3>1. i \in 1 .. n \/ i = n + 1
      BY <1>1, <2>1
    <3> QED
      BY <1>1, <1>5, <2>1, <3>1
  <2>2. CASE f # file
    BY <1>1, <2>2
  <2> QED
    BY <2>1, <2>2
<1>7. \A f \in DOMAIN segment : \A i \in DOMAIN segment[f] :
        f \in DOMAIN segment' /\ i \in DOMAIN segment'[f] /\ segment'[f][i] = segment[f][i]
  <2>1. \A i \in 1 .. n : i \in 1 .. n + 1
    BY <1>1
  <2> QED
    BY <1>1, <2>1
<1>8. Reads'
  <2>1. ASSUME NEW f \in DOMAIN segment', NEW i \in DOMAIN segment'[f], i <= At(f)'
        PROVE  taken'[segment'[f][i]] > 0
    <3>1. ~ (f = file /\ i = n + 1)
      BY <1>4, <1>5, <2>1
    <3>2. /\ f \in DOMAIN segment /\ i \in DOMAIN segment[f] /\ segment'[f][i] = segment[f][i]
          /\ i <= At(f)
      BY <1>1, <1>4, <1>6, <2>1, <3>1
    <3> QED
      BY <1>2, <3>2 DEF Kept, Reads
  <2> QED
    BY <1>2, <2>1 DEF Kept, Reads, InHand
<1>9. sent + 1 \notin InHand /\ injected[sent + 1] = 0
  <2>1. sent + 1 > sent
    BY <1>5
  <2> QED
    BY <1>1, <2>1 DEF Shape, Apart
<1>10. Again'
  <2>1. \A l : Few(l)' <=> Few(l)
    BY <1>2 DEF Few
  <2>2. InHand' = InHand
    BY <1>2 DEF InHand
  <2>3. ASSUME NEW f \in DOMAIN segment', NEW i \in DOMAIN segment'[f]
        PROVE  Back(f, i)'
    <3>1. At(f)' = At(f) /\ SavedAt(f)' = SavedAt(f)
      BY <1>4
    <3>2. CASE i \in DOMAIN segment[f] /\ segment'[f][i] = segment[f][i]
      <4>1. Back(f, i)
        BY <1>1, <3>2 DEF Kept, Again
      <4> QED
        BY <1>2, <2>1, <2>2, <3>1, <3>2, <4>1 DEF Back
    <3>3. CASE f = file /\ i = n + 1 /\ segment'[f][i] = sent + 1
      <4>1. ~ (i <= At(f)')
        BY <1>4, <1>5, <3>3
      <4>2. Few(sent + 1)
        BY <1>9 DEF Few, Shape, Files
      <4> QED
        BY <1>9, <2>1, <2>2, <3>3, <4>1, <4>2 DEF Back
    <3> QED
      BY <1>6, <3>2, <3>3
  <2> QED
    BY <1>2, <2>1, <2>2, <2>3 DEF Kept, Again
<1>11. Passed'
  <2>1. ASSUME NEW f \in DOMAIN segment, Len(segment[f]) > At(f)
        PROVE  Len(segment'[f]) > At(f)'
    <3>1. CASE f = file
      BY <1>1, <1>4, <1>5, <3>1
    <3>2. CASE f # file
      BY <1>1, <1>4, <2>1, <3>2
    <3> QED
      BY <3>1, <3>2
  <2> QED
    BY <1>1, <1>2, <2>1 DEF Kept, Passed
<1>12. Somewhere'
  <2>1. \A l : l \in Ahead => l \in Ahead'
    BY <1>3, <1>4, <1>7, AheadEntry
  <2>2. sent + 1 \in Ahead'
    <3>1. n + 1 \in DOMAIN segment'[file] /\ n + 1 > At(file)'
      BY <1>1, <1>4, <1>5
    <3> QED
      BY <1>1, <1>3, <3>1, AheadEntry
  <2>3. \A l \in 1 .. sent' : l \in 1 .. sent \/ l = sent + 1
    BY <1>1, <1>5
  <2> QED
    BY <1>2, <2>1, <2>2, <2>3 DEF Kept, Somewhere, InHand
<1> QED
  BY <1>2, <1>3, <1>8, <1>10, <1>11, <1>12 DEF Kept, Losses

\* What the receiver holds is as it was.
LEMMA Untouched ==
  ASSUME UNCHANGED <<segment, offsets, saved, taken, kills, failures, cut, sent, pollVars, drainVars>>
  PROVE  /\ Turn => Turn'
         /\ Listed => Listed'
         /\ Apart => Apart'
         /\ Offsets => Offsets'
         /\ Kept => Kept'
<1>1. /\ segment' = segment /\ offsets' = offsets /\ saved' = saved /\ taken' = taken
      /\ kills' = kills /\ failures' = failures /\ cut' = cut /\ sent' = sent
      /\ polling' = polling /\ todo' = todo /\ newest' = newest /\ out' = out /\ dirty' = dirty
      /\ collected' = collected /\ urls' = urls /\ injected' = injected
      /\ discarded' = discarded /\ killed' = killed /\ waiting' = waiting
  BY DEF pollVars, drainVars
<1>2. \A f : At(f)' = At(f) /\ SavedAt(f)' = SavedAt(f)
  BY <1>1 DEF At, SavedAt
<1>3. InHand' = InHand /\ \A l : Few(l)' <=> Few(l)
  BY <1>1 DEF InHand, Few
<1>4. \A f, i : Back(f, i)' <=> Back(f, i)
  <2> SUFFICES ASSUME NEW f, NEW i
               PROVE  Back(f, i)' <=> Back(f, i)
    OBVIOUS
  <2> QED
    BY <1>1, <1>2, <1>3 DEF Back
<1>5. Ahead' = Ahead
  BY <1>1, <1>2 DEF Ahead
<1>6. Turn => Turn'
  BY <1>1 DEF Turn
<1>7. Listed => Listed'
  BY <1>1 DEF Listed, OnceEach
<1>8. Apart => Apart'
  BY <1>1, <1>3 DEF Apart, OnceEach
<1>9. Offsets => Offsets'
  BY <1>1, <1>2 DEF Offsets
<1>10. Reads => Reads'
  BY <1>1, <1>2, <1>3 DEF Reads
<1>11. Again => Again'
  BY <1>1, <1>3, <1>4 DEF Again
<1>12. Passed => Passed'
  BY <1>1, <1>2 DEF Passed
<1>13. (Somewhere => Somewhere') /\ (Losses => Losses')
  BY <1>1, <1>3, <1>5 DEF Somewhere, Losses
<1> QED
  BY <1>1, <1>6, <1>7, <1>8, <1>9, <1>10, <1>11, <1>12, <1>13 DEF Kept

LEMMA SenderRestartKeeps ==
  ASSUME Shape, Kept, NEW s \in Sender, SenderRestart(s), UNCHANGED drainVars
  PROVE  Shape' /\ Kept'
<1>1. /\ seq' = [seq EXCEPT ![s] = -1] /\ fragment' = fragment
      /\ UNCHANGED <<segment, offsets, saved, taken, kills, failures, cut, sent, pollVars, drainVars>>
  BY DEF SenderRestart
<1>2. Turn' /\ Listed' /\ Apart' /\ Offsets' /\ Kept'
  BY <1>1, Untouched DEF Shape
<1>3. /\ segment' = segment /\ offsets' = offsets /\ saved' = saved /\ sent' = sent
      /\ kills' = kills /\ failures' = failures /\ waiting' = waiting
  BY <1>1 DEF drainVars
<1>4. seq \in [Sender -> Nat \cup {-1}]
  BY DEF Shape, Files
<1>5. Files'
  <2>1. seq' \in [Sender -> Nat \cup {-1}]
    BY <1>1, <1>4
  <2> QED
    BY <1>1, <1>3, <2>1 DEF Shape, Files
<1>6. Names'
  <2>1. \A r \in Sender : seq'[r] # -1 => seq'[r] = seq[r]
    BY <1>1, <1>4
  <2> QED
    BY <1>3, <2>1 DEF Shape, Names
<1> QED
  BY <1>2, <1>5, <1>6 DEF Shape

-------------------------------------------------------------------------------
(* What a poll lists. *)

LEMMA ListingsList ==
  ASSUME Files, NEW q \in Listings
  PROVE  q \in Seq(Name) /\ OnceEach(q) /\ ToSet(q) = DOMAIN segment
<1>1. PICK n \in Nat : n = Cardinality(DOMAIN segment)
  BY FS_CardinalityType DEF Files
<1>2. /\ q \in [1 .. n -> DOMAIN segment] /\ ToSet(q) = DOMAIN segment
      /\ \A i, j \in DOMAIN q : i < j => Earlier(q[i], q[j])
  BY <1>1 DEF Listings
<1>3. q \in Seq(Name)
  <2>1. q \in [1 .. n -> Name]
    BY <1>2 DEF Files
  <2> QED
    BY <2>1, SeqDef
<1>4. OnceEach(q)
  <2> SUFFICES ASSUME NEW i \in DOMAIN q, NEW j \in DOMAIN q, q[i] = q[j], i < j
               PROVE  FALSE
    <3>1. \A i, j \in DOMAIN q : i < j \/ j < i \/ i = j
      BY <1>2
    <3> QED
      BY <3>1 DEF OnceEach
  <2>1. q[j] \in Name /\ Earlier(q[j], q[j])
    BY <1>2 DEF Files
  <2>2. PICK f : f = q[j]
    OBVIOUS
  <2>3. f[1] \in Nat /\ f[2] \in Nat
    BY <2>1, <2>2 DEF Name
  <2> QED
    BY <2>1, <2>2, <2>3 DEF Earlier
<1> QED
  BY <1>2, <1>3, <1>4

\* Each sender's newest segment is among them.
LEMMA NewestThere ==
  ASSUME Files, Names, NEW f \in DOMAIN segment
  PROVE  \E g \in DOMAIN segment : /\ g[1] = f[1] /\ g[2] >= f[2]
                                   /\ \A h \in Sends(g[1]) : h[2] <= g[2]
<1> DEFINE T == {g[2] : g \in Sends(f[1])}
<1>1. \A g \in DOMAIN segment : g \in Name /\ g[2] \in Nat
  BY DEF Files, Name
<1>2. f[2] \in T /\ T \subseteq Nat
  BY <1>1 DEF Sends
<1>3. PICK b \in Nat : \A t \in T : t <= b
  BY DEF Names, Sends
<1>4. Max(T) \in T /\ \A t \in T : t <= Max(T)
  <2> HIDE DEF T
  <2> QED
    BY <1>2, <1>3, Highest
<1>5. PICK g \in Sends(f[1]) : g[2] = Max(T)
  BY <1>4
<1>6. \A h \in Sends(f[1]) : h[2] <= g[2]
  BY <1>4, <1>5
<1>7. g \in DOMAIN segment /\ g[1] = f[1]
  BY DEF Sends
<1>8. g[2] >= f[2]
  BY <1>1, <1>2, <1>4, <1>5, <1>7
<1> QED
  BY <1>6, <1>7, <1>8

LEMMA DrainStartKeeps ==
  ASSUME Shape, Kept, DrainStart
  PROVE  Shape' /\ Kept'
<1>1. /\ urls = <<>> /\ ~ polling /\ polling' = TRUE /\ todo' \in Listings
      /\ newest' = {f \in DOMAIN segment : \A g \in Sends(f[1]) : g[2] <= f[2]}
      /\ out' = 0 /\ dirty' = FALSE
      /\ waiting' = {f \in DOMAIN segment : Unread(f) > 0}
      /\ segment' = segment /\ fragment' = fragment /\ offsets' = offsets /\ saved' = saved
      /\ taken' = taken /\ kills' = kills /\ failures' = failures /\ cut' = cut
      /\ seq' = seq /\ sent' = sent /\ collected' = collected /\ urls' = urls
      /\ injected' = injected /\ discarded' = discarded /\ killed' = killed
  BY DEF DrainStart, PollStart, senderVars
<1>2. todo' \in Seq(Name) /\ OnceEach(todo') /\ ToSet(todo') = DOMAIN segment
  BY <1>1, ListingsList DEF Shape
<1>3. \A f : At(f)' = At(f) /\ SavedAt(f)' = SavedAt(f)
  BY <1>1 DEF At, SavedAt
<1>4. InHand' = InHand /\ \A l : Few(l)' <=> Few(l)
  BY <1>1 DEF InHand, Few
<1>5. DOMAIN segment \subseteq Name /\ waiting' \subseteq DOMAIN segment /\ newest' \subseteq DOMAIN segment
  BY <1>1 DEF Shape, Files
<1>6. Files'
  BY <1>1 DEF Shape, Files
<1>7. Turn'
  <2>1. collected = <<>> /\ Len(collected) = 0 /\ 0 \in 0 .. Limit
    BY <1>1, EmptySeq DEF Shape, Turn
  <2>2. newest' \subseteq Name /\ waiting' \subseteq Name
    BY <1>5
  <2> QED
    BY <1>1, <1>2, <2>1, <2>2 DEF Shape, Turn
<1>8. Names'
  <2>1. \A f \in waiting' : f \in DOMAIN segment /\ f[2] >= f[2]
    BY <1>5 DEF Name
  <2> QED
    BY <1>1, <2>1 DEF Shape, Names
<1>9. Listed'
  <2>1. ASSUME NEW i \in DOMAIN todo'
        PROVE  /\ todo'[i] \in DOMAIN segment
               /\ \E g \in newest' : g[1] = todo'[i][1] /\ g[2] >= todo'[i][2]
    <3>1. todo'[i] \in DOMAIN segment
      BY <1>2 DEF ToSet
    <3> QED
      BY <1>1, <3>1, NewestThere DEF Shape
  <2> QED
    BY <1>1, <1>2, <1>5, <2>1 DEF Listed, OnceEach
<1>10. Apart' /\ Offsets'
  BY <1>1, <1>3, <1>4 DEF Shape, Apart, Offsets, OnceEach
<1>11. Reads'
  BY <1>1, <1>3, <1>4 DEF Kept, Reads
<1>12. Again'
  <2>1. \A f \in DOMAIN segment : \A i \in DOMAIN segment[f] : Back(f, i)'
    <3> SUFFICES ASSUME NEW f \in DOMAIN segment, NEW i \in DOMAIN segment[f]
                 PROVE  Back(f, i)'
      OBVIOUS
    <3>1. Back(f, i)
      BY DEF Kept, Again
    <3> QED
      BY <1>1, <1>3, <1>4, <3>1 DEF Back
  <2> QED
    BY <1>1, <1>4, <2>1 DEF Kept, Again
<1>13. Passed'
  <2>1. ASSUME NEW f \in waiting'
        PROVE  f \in ToSet(todo') /\ Len(segment[f]) > At(f)
    <3>1. f \in DOMAIN segment /\ Len(segment[f]) - At(f) > 0
      BY <1>1 DEF Unread
    <3>2. segment[f] \in Seq(Line) /\ At(f) \in Nat
      BY <3>1 DEF Shape, Files, At
    <3>3. Len(segment[f]) \in Nat
      BY <3>2, LenProperties
    <3> QED
      BY <1>2, <3>1, <3>2, <3>3
  <2> QED
    BY <1>1, <1>3, <2>1 DEF Passed
<1>14. Ahead' = Ahead
  BY <1>1, <1>3 DEF Ahead
<1>15. Somewhere' /\ Losses'
  BY <1>1, <1>4, <1>14 DEF Kept, Somewhere, Losses
<1> QED
  BY <1>1, <1>6, <1>7, <1>8, <1>9, <1>10, <1>11, <1>12, <1>13, <1>15 DEF Shape, Kept

-------------------------------------------------------------------------------
(* What the receiver has in hand, and what becomes of it. *)

LEMMA Empty == /\ <<>> \in Seq(Line) /\ <<>> \in Seq(Name) /\ Len(<<>>) = 0
               /\ DOMAIN <<>> = {} /\ ToSet(<<>>) = {} /\ OnceEach(<<>>)
<1>1. <<>> \in Seq(Line) /\ <<>> \in Seq(Name) /\ Len(<<>>) = 0 /\ DOMAIN <<>> = {}
  BY EmptySeq
<1> QED
  BY <1>1 DEF ToSet, OnceEach

LEMMA PolledSaved ==
  ASSUME Shape, DrainPolled
  PROVE  /\ polling /\ urls = <<>> /\ polling' = FALSE /\ todo' = <<>> /\ newest' = {}
         /\ out' = 0 /\ dirty' = FALSE /\ waiting' = {} /\ collected' = <<>> /\ urls' = collected
         /\ segment' = segment /\ fragment' = fragment /\ offsets' = offsets
         /\ taken' = taken /\ kills' = kills /\ cut' = cut /\ seq' = seq /\ sent' = sent
         /\ injected' = injected /\ discarded' = discarded /\ killed' = killed
         /\ \/ failures' = failures /\ saved' = offsets
            \/ failures' = failures /\ saved' = saved /\ collected = <<>>
            \/ failures' = failures + 1 /\ saved' = saved
<1>1. polling /\ urls = <<>> /\ collected \in Seq(Line) /\ Len(collected) = out
  BY DEF DrainPolled, PollEnd, PollEndUnsaved, Shape, Turn
<1>2. ~ dirty => collected = <<>>
  <2>1. ~ dirty => out = 0
    BY DEF Shape, Turn
  <2> QED
    BY <1>1, <2>1, EmptySeq
<1>3. \/ failures' = failures /\ saved' = offsets
      \/ failures' = failures /\ saved' = saved /\ collected = <<>>
      \/ failures' = failures + 1 /\ saved' = saved
  BY <1>2 DEF DrainPolled, PollEnd, PollEndUnsaved
<1> QED
  BY <1>1, <1>3 DEF DrainPolled, PollEnd, PollEndUnsaved, senderVars

LEMMA DrainPolledKeeps ==
  ASSUME Shape, Kept, DrainPolled
  PROVE  Shape' /\ Kept'
<1>1. /\ polling /\ urls = <<>> /\ polling' = FALSE /\ todo' = <<>> /\ newest' = {}
      /\ out' = 0 /\ dirty' = FALSE /\ waiting' = {} /\ collected' = <<>> /\ urls' = collected
      /\ segment' = segment /\ fragment' = fragment /\ offsets' = offsets
      /\ taken' = taken /\ kills' = kills /\ cut' = cut /\ seq' = seq /\ sent' = sent
      /\ injected' = injected /\ discarded' = discarded /\ killed' = killed
  BY PolledSaved
<1>2. \/ failures' = failures /\ saved' = offsets
      \/ failures' = failures /\ saved' = saved /\ collected = <<>>
      \/ failures' = failures + 1 /\ saved' = saved
  BY PolledSaved
<1>3. \A f : At(f)' = At(f) /\ At(f) \in Nat /\ SavedAt(f) \in Nat
  BY <1>1 DEF At, SavedAt, Shape, Files
<1>4. InHand' = InHand
  BY <1>1, Empty DEF InHand
<1>5. failures \in Nat /\ failures' \in Nat /\ failures' >= failures /\ kills \in Nat
  BY <1>2 DEF Shape, Files
<1>6. \A l \in Line : injected[l] \in Nat
  BY DEF Shape, Turn
<1>7. Files'
  BY <1>1, <1>2, <1>5 DEF Shape, Files
<1>8. Turn'
  <2>1. /\ collected \in Seq(Line) /\ Len(collected) <= Limit /\ 0 \in 0 .. Limit
        /\ cut \in BOOLEAN /\ taken \in [Line -> Nat] /\ injected \in [Line -> Nat]
    BY DEF Shape, Turn
  <2> QED
    BY <1>1, <2>1, Empty DEF Turn
<1>9. Names'
  BY <1>1, <1>2 DEF Shape, Names
<1>10. Listed'
  BY <1>1, Empty DEF Listed
<1>11. Apart'
  BY <1>1, <1>4, Empty DEF Shape, Apart, OnceEach
<1>12. Offsets'
  <2>1. \A f : SavedAt(f)' = At(f) \/ SavedAt(f)' = SavedAt(f)
    BY <1>1, <1>2 DEF At, SavedAt
  <2> QED
    BY <1>1, <1>3, <2>1 DEF Shape, Offsets
<1>13. Reads'
  BY <1>1, <1>3, <1>4 DEF Kept, Reads
<1>14. Again'
  <2>1. \A l \in Line : Few(l) => Few(l)'
    BY <1>1, <1>5, <1>6 DEF Few
  <2>2. InHand \subseteq Line /\ \A f \in DOMAIN segment : \A i \in DOMAIN segment[f] : segment[f][i] \in Line
    BY Entry DEF InHand, Shape, Files, Turn
  <2>3. \A l \in InHand' : Few(l)'
    BY <1>4, <2>1, <2>2 DEF Kept, Again
  <2>4. \A l \in Line : injected'[l] <= 1 + failures' /\ injected'[l] <= 1 + kills'
    BY <1>1, <1>5, <1>6 DEF Kept, Again
  <2>5. ASSUME NEW f \in DOMAIN segment, NEW i \in DOMAIN segment[f]
        PROVE  Back(f, i)'
    <3>0. PICK l : l = segment[f][i]
      OBVIOUS
    <3>1. Back(f, i) /\ l \in Line /\ segment'[f][i] = l
      BY <1>1, <2>2, <3>0 DEF Kept, Again
    <3>2. i > At(f)' => Few(l)' /\ l \notin InHand'
      BY <1>3, <1>4, <2>1, <3>0, <3>1 DEF Back
    <3>3. ASSUME i > SavedAt(f)', i <= At(f)', l \notin ToSet(collected')
          PROVE  injected'[l] <= failures' /\ (l \in ToSet(urls') => injected'[l] + 1 <= failures')
      <4>1. CASE failures' = failures /\ saved' = offsets
        <5>1. SavedAt(f)' = At(f)
          BY <4>1 DEF SavedAt, At
        <5>2. i \in Nat
          <6>1. segment[f] \in Seq(Line)
            BY DEF Shape, Files
          <6> QED
            BY <6>1, Entry
        <5> QED
          BY <1>3, <3>3, <5>1, <5>2
      <4>2. CASE failures' = failures /\ saved' = saved /\ collected = <<>>
        <5>1. SavedAt(f)' = SavedAt(f) /\ l \notin ToSet(collected) /\ l \notin ToSet(urls')
          BY <1>1, <4>2, Empty DEF SavedAt
        <5>2. injected[l] <= failures
          BY <1>3, <3>0, <3>1, <3>3, <5>1 DEF Back
        <5> QED
          BY <1>1, <4>2, <5>1, <5>2
      <4>3. CASE failures' = failures + 1 /\ saved' = saved
        <5>1. SavedAt(f)' = SavedAt(f)
          BY <4>3 DEF SavedAt
        <5>2. injected[l] <= failures
          <6>1. CASE l \in ToSet(collected)
            BY <6>1 DEF Kept, Again, InHand, Few
          <6>2. CASE l \notin ToSet(collected)
            BY <1>3, <3>0, <3>1, <3>3, <5>1, <6>2 DEF Back
          <6> QED
            BY <6>1, <6>2
        <5> QED
          BY <1>1, <1>5, <1>6, <3>1, <4>3, <5>2
      <4> QED
        BY <1>2, <4>1, <4>2, <4>3
    <3>4. segment'[f][i] = l
      BY <3>1
    <3> QED
      BY <3>2, <3>3, <3>4 DEF Back
  <2> QED
    BY <1>1, <2>3, <2>4, <2>5 DEF Again
<1>15. Ahead' = Ahead
  BY <1>1, <1>3 DEF Ahead
<1>16. Somewhere' /\ Losses' /\ Passed'
  BY <1>1, <1>4, <1>15 DEF Kept, Somewhere, Losses, Passed
<1> QED
  BY <1>1, <1>7, <1>8, <1>9, <1>10, <1>11, <1>12, <1>13, <1>14, <1>16 DEF Shape, Kept

LEMMA InjectKeeps ==
  ASSUME Shape, Kept, InjectHandoff
  PROVE  Shape' /\ Kept'
<1> DEFINE h == Head(urls)
<1>1. /\ urls # <<>> /\ urls \in Seq(Line) /\ OnceEach(urls) /\ Len(urls) <= Limit
      /\ ~ polling /\ collected = <<>> /\ injected \in [Line -> Nat]
  BY DEF InjectHandoff, Shape, Turn, Apart
<1>2. /\ h \in Line /\ Tail(urls) \in Seq(Line) /\ OnceEach(Tail(urls)) /\ Len(Tail(urls)) <= Limit
      /\ h \in ToSet(urls) /\ h \notin ToSet(Tail(urls))
      /\ ToSet(urls) = ToSet(Tail(urls)) \cup {h}
  <2>1. PICK n \in Nat : Len(urls) = n + 1 /\ Len(Tail(urls)) = n
    BY <1>1, Shorter
  <2> QED
    BY <1>1, <2>1, Shorter, RestOnce
<1>3. /\ injected' = [injected EXCEPT ![h] = injected[h] + 1] /\ urls' = Tail(urls)
      /\ UNCHANGED <<vars, collected, discarded, killed, waiting>>
  BY DEF InjectHandoff, Others
<1> HIDE DEF h
<1>4. /\ segment' = segment /\ fragment' = fragment /\ offsets' = offsets /\ saved' = saved
      /\ taken' = taken /\ kills' = kills /\ failures' = failures /\ cut' = cut
      /\ seq' = seq /\ sent' = sent /\ polling' = polling /\ todo' = todo /\ newest' = newest
      /\ out' = out /\ dirty' = dirty /\ collected' = collected /\ discarded' = discarded
      /\ killed' = killed /\ waiting' = waiting
  BY <1>3 DEF vars, senderVars, pollVars
<1>5. /\ injected' \in [Line -> Nat] /\ injected[h] \in Nat /\ injected'[h] = injected[h] + 1
      /\ \A l \in Line : l # h => injected'[l] = injected[l]
  BY <1>1, <1>2, <1>3
<1>6. \A f : At(f)' = At(f) /\ SavedAt(f)' = SavedAt(f)
  BY <1>4 DEF At, SavedAt
<1>7. InHand = ToSet(urls) /\ InHand' = InHand \ {h} /\ h \in InHand
  BY <1>1, <1>2, <1>3, <1>4, Empty DEF InHand
<1>8. kills \in Nat /\ failures \in Nat
  BY DEF Shape, Files
<1>9. Files'
  BY <1>4 DEF Shape, Files
<1>10. Turn'
  BY <1>1, <1>2, <1>3, <1>4, <1>5 DEF Shape, Turn
<1>11. Names' /\ Listed' /\ Offsets'
  BY <1>4, <1>6 DEF Shape, Names, Listed, Offsets, OnceEach
<1>12. Apart'
  <2>1. \A l \in Line : l > sent => l \notin InHand' /\ injected'[l] = 0
    <3>1. \A l \in Line : l > sent => l # h
      BY <1>7 DEF Shape, Apart
    <3> QED
      BY <1>5, <1>7, <3>1 DEF Shape, Apart
  <2>2. OnceEach(collected') /\ OnceEach(urls')
    BY <1>2, <1>3, <1>4 DEF Shape, Apart
  <2> QED
    BY <1>4, <2>1, <2>2 DEF Shape, Apart, OnceEach
<1>13. \A l \in Line : injected[l] > 0 => injected'[l] > 0
  BY <1>5
<1>14. injected'[h] > 0
  BY <1>5
<1>15. Reads'
  BY <1>4, <1>6, <1>7, <1>13, <1>14 DEF Kept, Reads
<1>16. Again'
  <2>1. \A l \in Line : l # h => (Few(l)' <=> Few(l))
    BY <1>4, <1>5 DEF Few
  <2>2. InHand \subseteq Line /\ \A f \in DOMAIN segment : \A i \in DOMAIN segment[f] : segment[f][i] \in Line
    BY Entry DEF InHand, Shape, Files, Turn
  <2>3. injected[h] <= failures /\ injected[h] <= kills
    BY <1>7 DEF Kept, Again, Few
  <2>4. ASSUME NEW l \in Line
        PROVE  injected'[l] <= 1 + failures' /\ injected'[l] <= 1 + kills'
    <3>1. CASE l = h
      BY <1>4, <1>5, <1>8, <2>3, <3>1
    <3>2. CASE l # h
      BY <1>4, <1>5, <3>2 DEF Kept, Again
    <3> QED
      BY <3>1, <3>2
  <2>5. \A l \in InHand' : Few(l)'
    BY <1>7, <2>1, <2>2 DEF Kept, Again
  <2>6. ASSUME NEW f \in DOMAIN segment, NEW i \in DOMAIN segment[f]
        PROVE  Back(f, i)'
    <3>0. PICK l : l = segment[f][i]
      OBVIOUS
    <3>1. Back(f, i) /\ l \in Line /\ segment'[f][i] = l
      BY <1>4, <2>2, <3>0 DEF Kept, Again
    <3>2. i > At(f)' => Few(l)' /\ l \notin InHand'
      <4>1. i > At(f)' => Few(l) /\ l \notin InHand
        BY <1>6, <3>0, <3>1 DEF Back
      <4> QED
        BY <1>7, <2>1, <3>1, <4>1
    <3>3. ASSUME i > SavedAt(f)', i <= At(f)'
          PROVE  injected'[l] <= failures' /\ (l \in ToSet(urls') => injected'[l] + 1 <= failures')
      <4>1. l \notin ToSet(collected)
        BY <1>1, Empty
      <4>2. /\ injected[l] <= failures
            /\ l \in ToSet(urls) => injected[l] + 1 <= failures
        BY <1>6, <3>0, <3>1, <3>3, <4>1 DEF Back
      <4>3. CASE l = h
        BY <1>2, <1>3, <1>4, <1>5, <4>2, <4>3
      <4>4. CASE l # h
        BY <1>2, <1>3, <1>4, <1>5, <3>1, <4>2, <4>4
      <4> QED
        BY <4>3, <4>4
    <3>4. segment'[f][i] = l
      BY <3>1
    <3> QED
      BY <3>2, <3>3, <3>4 DEF Back
  <2> QED
    BY <1>4, <2>4, <2>5, <2>6 DEF Again
<1>17. Ahead' = Ahead
  BY <1>4, <1>6 DEF Ahead
<1>18. Passed' /\ Losses'
  BY <1>1, <1>4 DEF Kept, Passed, Losses
<1>19. Somewhere'
  <2>1. \A l \in 1 .. sent : l \in Line
    BY DEF Line, Shape, Files
  <2> QED
    BY <1>4, <1>7, <1>13, <1>14, <1>17, <2>1 DEF Kept, Somewhere
<1> QED
  BY <1>4, <1>9, <1>10, <1>11, <1>12, <1>15, <1>16, <1>18, <1>19 DEF Shape, Kept

LEMMA DrainClosedKeeps ==
  ASSUME Shape, Kept, DrainClosed
  PROVE  Shape' /\ Kept'
<1>1. /\ saved' = offsets
      /\ segment' = segment /\ fragment' = fragment /\ offsets' = offsets
      /\ taken' = taken /\ kills' = kills /\ failures' = failures /\ cut' = cut
      /\ seq' = seq /\ sent' = sent /\ polling' = polling /\ todo' = todo /\ newest' = newest
      /\ out' = out /\ dirty' = dirty /\ collected' = collected /\ urls' = urls
      /\ injected' = injected /\ discarded' = discarded /\ killed' = killed /\ waiting' = waiting
  BY DEF DrainClosed, ReceiverClose, senderVars, pollVars, drainVars
<1>2. \A f : At(f)' = At(f) /\ SavedAt(f)' = At(f) /\ At(f) \in Nat
  BY <1>1 DEF At, SavedAt, Shape, Files
<1>3. InHand' = InHand /\ \A l : Few(l)' <=> Few(l)
  BY <1>1 DEF InHand, Few
<1>4. Files' /\ Turn' /\ Listed'
  BY <1>1 DEF Shape, Files, Turn, Listed, OnceEach
<1>5. Names'
  BY <1>1 DEF Shape, Names
<1>6. Apart'
  BY <1>1, <1>3 DEF Shape, Apart, OnceEach
<1>7. Offsets'
  BY <1>1, <1>2 DEF Shape, Offsets
<1>8. Reads' /\ Passed'
  BY <1>1, <1>2, <1>3 DEF Kept, Reads, Passed
<1>9. Again'
  <2>1. ASSUME NEW f \in DOMAIN segment, NEW i \in DOMAIN segment[f]
        PROVE  Back(f, i)'
    <3>1. Back(f, i)
      BY DEF Kept, Again
    <3>2. i \in Nat
      <4>1. segment[f] \in Seq(Line)
        BY DEF Shape, Files
      <4> QED
        BY <4>1, Entry
    <3>3. ~ (i > SavedAt(f)' /\ i <= At(f)')
      BY <1>2, <3>2
    <3> QED
      BY <1>1, <1>2, <1>3, <3>1, <3>3 DEF Back
  <2> QED
    BY <1>1, <1>3, <2>1 DEF Kept, Again
<1>10. Ahead' = Ahead
  BY <1>1, <1>2 DEF Ahead
<1>11. Somewhere' /\ Losses'
  BY <1>1, <1>3, <1>10 DEF Kept, Somewhere, Losses
<1> QED
  BY <1>1, <1>4, <1>5, <1>6, <1>7, <1>8, <1>9, <1>11 DEF Shape, Kept

\* A kill takes one poll's lines at most.
LEMMA KilledFew ==
  ASSUME Shape, IsFiniteSet(killed), Cardinality(killed) <= kills * Limit
  PROVE  /\ IsFiniteSet(killed \cup ToSet(collected \o urls))
         /\ Cardinality(killed \cup ToSet(collected \o urls)) <= (kills + 1) * Limit
         /\ ToSet(collected \o urls) = InHand
<1>1. /\ collected \in Seq(Line) /\ urls \in Seq(Line) /\ Len(collected) = out /\ out \in 0 .. Limit
      /\ Len(urls) <= Limit /\ (collected = <<>> \/ urls = <<>>) /\ kills \in Nat
  BY DEF Shape, Files, Turn
<1>2. /\ collected \o urls \in Seq(Line)
      /\ Len(collected \o urls) = Len(collected) + Len(urls)
      /\ ToSet(collected \o urls) = InHand
  BY <1>1, Joined DEF InHand
<1>3. Len(urls) \in Nat /\ Len(collected) \in Nat
  BY <1>1, LenProperties
<1>4. Len(collected \o urls) <= Limit
  <2>1. Len(collected) = 0 \/ Len(urls) = 0
    BY <1>1, Empty
  <2> QED
    BY <1>1, <1>2, <1>3, <2>1
<1>5. /\ IsFiniteSet(ToSet(collected \o urls))
      /\ Cardinality(ToSet(collected \o urls)) <= Len(collected \o urls)
  BY <1>2, FewMembers
<1> DEFINE S == ToSet(collected \o urls)
           n == Cardinality(killed)
           m == Cardinality(S)
           u == Cardinality(killed \cup S)
<1>6. n \in Nat /\ m \in Nat /\ IsFiniteSet(S) /\ m <= Limit
  <2>1. Len(collected \o urls) \in Nat
    BY <1>2, <1>3
  <2> QED
    BY <1>4, <1>5, <2>1, FS_CardinalityType
<1> HIDE DEF S
<1>7. /\ IsFiniteSet(killed \cup S) /\ u \in Nat /\ u <= n + m
  <2>1. IsFiniteSet(killed \cup S) /\ u = n + m - Cardinality(killed \cap S)
    BY <1>6, FS_Union
  <2>2. Cardinality(killed \cap S) \in Nat
    BY FS_Intersection, FS_CardinalityType
  <2>3. u \in Nat
    BY <2>1, FS_CardinalityType
  <2> HIDE DEF u, n, m
  <2> QED
    BY <1>6, <2>1, <2>2, <2>3
<1>8. n <= kills * Limit
  OBVIOUS
<1> HIDE DEF u, n, m
<1>9. ASSUME NEW k \in Nat, NEW b \in Nat
      PROVE  k * b \in Nat /\ (k + 1) * b = k * b + b
  OBVIOUS
<1>10. kills * Limit \in Nat /\ (kills + 1) * Limit = kills * Limit + Limit
  BY <1>1, <1>9
<1>11. u <= (kills + 1) * Limit
  <2>1. ASSUME NEW p \in Nat, n <= p
        PROVE  u <= p + Limit
    BY <1>6, <1>7, <2>1
  <2> QED
    BY <1>8, <1>10, <2>1
<1> QED
  BY <1>2, <1>7, <1>11 DEF S, u

LEMMA DrainKilledKeeps ==
  ASSUME Shape, Kept, DrainKilled
  PROVE  Shape' /\ Kept'
<1>1. /\ kills' = kills + 1 /\ offsets' = saved /\ polling' = FALSE /\ todo' = <<>>
      /\ newest' = {} /\ out' = 0 /\ dirty' = FALSE /\ collected' = <<>> /\ urls' = <<>>
      /\ waiting' = {} /\ killed' = killed \cup ToSet(collected \o urls)
      /\ segment' = segment /\ fragment' = fragment /\ saved' = saved
      /\ taken' = taken /\ failures' = failures /\ cut' = cut
      /\ seq' = seq /\ sent' = sent /\ injected' = injected /\ discarded' = discarded
  BY DEF DrainKilled, ReceiverKill, senderVars
<1>2. /\ \A f : At(f)' = SavedAt(f) /\ SavedAt(f)' = SavedAt(f)
      /\ \A f : At(f) \in Nat /\ SavedAt(f) \in Nat
  BY <1>1 DEF At, SavedAt, Shape, Files
<1>3. IsFiniteSet(killed') /\ Cardinality(killed') <= kills' * Limit /\ killed' = killed \cup InHand
  BY <1>1, KilledFew DEF Kept, Losses
<1>4. InHand' = {}
  BY <1>1, Empty DEF InHand
<1>5. failures \in Nat /\ kills \in Nat /\ kills' \in Nat /\ \A l \in Line : injected[l] \in Nat
  <2>1. kills \in Nat /\ failures \in Nat
    BY DEF Shape, Files
  <2>2. injected \in [Line -> Nat]
    BY DEF Shape, Turn
  <2> QED
    BY <1>1, <2>1, <2>2
<1>6. \A f \in DOMAIN segment :
        segment[f] \in Seq(Line) /\ Len(segment[f]) \in Nat
        /\ \A i \in DOMAIN segment[f] : i \in Nat /\ segment[f][i] \in Line
  <2>1. \A f \in DOMAIN segment : segment[f] \in Seq(Line)
    BY DEF Shape, Files
  <2> QED
    BY <2>1, Entry, LenProperties
<1>7. Files'
  BY <1>1, <1>5 DEF Shape, Files
<1>8. Turn'
  <2>1. /\ 0 \in 0 .. Limit /\ 0 <= Limit
        /\ cut \in BOOLEAN /\ taken \in [Line -> Nat] /\ injected \in [Line -> Nat]
    BY DEF Shape, Turn
  <2> QED
    BY <1>1, <2>1, Empty DEF Turn
<1>9. Names'
  BY <1>1 DEF Shape, Names
<1>10. Listed'
  BY <1>1, Empty DEF Listed
<1>11. Apart'
  BY <1>1, <1>4, Empty DEF Shape, Apart, OnceEach
<1>12. Offsets'
  BY <1>1, <1>2, <1>6 DEF Shape, Offsets
<1>13. Reads'
  <2>1. ASSUME NEW f \in DOMAIN segment, NEW i \in DOMAIN segment[f], i <= SavedAt(f)
        PROVE  i <= At(f)
    BY <1>2, <1>6, <2>1 DEF Shape, Offsets
  <2> QED
    BY <1>1, <1>2, <1>3, <2>1 DEF Kept, Reads
<1>14. Again'
  <2>1. \A l \in Line : injected'[l] <= 1 + failures' /\ injected'[l] <= 1 + kills'
    BY <1>1, <1>5 DEF Kept, Again
  <2>2. ASSUME NEW f \in DOMAIN segment, NEW i \in DOMAIN segment[f]
        PROVE  Back(f, i)'
    <3>0. PICK l : l = segment[f][i]
      OBVIOUS
    <3>1. Back(f, i) /\ l \in Line /\ segment'[f][i] = l
      BY <1>1, <1>6, <3>0 DEF Kept, Again
    <3>2. ASSUME i > SavedAt(f)
          PROVE  injected[l] <= failures
      <4>1. CASE i > At(f)
        BY <3>0, <3>1, <4>1 DEF Back, Few
      <4>2. CASE i <= At(f) /\ l \notin ToSet(collected)
        BY <3>0, <3>1, <3>2, <4>2 DEF Back
      <4>3. CASE l \in ToSet(collected)
        BY <4>3 DEF Kept, Again, Few, InHand
      <4> QED
        BY <1>2, <1>6, <4>1, <4>2, <4>3
    <3>3. injected[l] <= kills'
      BY <1>1, <1>5, <3>1 DEF Kept, Again
    <3>4. i > At(f)' => Few(l)' /\ l \notin InHand'
      BY <1>1, <1>2, <1>4, <3>2, <3>3 DEF Few
    <3>5. ~ (i > SavedAt(f)' /\ i <= At(f)')
      BY <1>2, <1>6
    <3>6. segment'[f][i] = l
      BY <3>1
    <3> QED
      BY <3>4, <3>5, <3>6 DEF Back
  <2> QED
    BY <1>1, <1>4, <2>1, <2>2 DEF Again
<1>15. Somewhere'
  <2>1. \A l : l \in Ahead => l \in Ahead'
    <3>1. ASSUME NEW l, l \in Ahead
          PROVE  l \in Ahead'
      <4>1. PICK f \in DOMAIN segment : \E i \in DOMAIN segment[f] : i > At(f) /\ segment[f][i] = l
        BY <3>1, AheadEntry
      <4>2. PICK i \in DOMAIN segment[f] : i > At(f) /\ segment[f][i] = l
        BY <4>1
      <4>3. i > At(f)'
        BY <1>2, <1>6, <4>2 DEF Shape, Offsets
      <4>4. Shape'
        BY <1>7, <1>8, <1>9, <1>10, <1>11, <1>12 DEF Shape
      <4> QED
        BY <1>1, <4>2, <4>3, <4>4, AheadEntry
    <3> QED
      BY <3>1
  <2> QED
    BY <1>1, <1>3, <2>1 DEF Kept, Somewhere
<1>16. Passed' /\ Losses'
  BY <1>1, <1>3 DEF Kept, Passed, Losses
<1> QED
  BY <1>3, <1>7, <1>8, <1>9, <1>10, <1>11, <1>12, <1>13, <1>14, <1>15, <1>16 DEF Shape, Kept

-------------------------------------------------------------------------------
(* The invariant. *)

LEMMA InitInv == InboxInit => Shape /\ Kept
<1> SUFFICES ASSUME InboxInit
             PROVE  Shape /\ Kept
  OBVIOUS
<1>1. /\ segment = <<>> /\ fragment = {} /\ seq = [s \in Sender |-> -1]
      /\ offsets = <<>> /\ saved = <<>>
      /\ polling = FALSE /\ todo = <<>> /\ newest = {} /\ out = 0 /\ dirty = FALSE
      /\ sent = 0 /\ taken = [l \in Line |-> 0]
      /\ kills = 0 /\ failures = 0 /\ cut = FALSE
      /\ collected = <<>> /\ urls = <<>> /\ waiting = {}
      /\ injected = [l \in Line |-> 0] /\ discarded = {} /\ killed = {}
  BY DEF InboxInit, Init
<1>2. DOMAIN segment = {} /\ DOMAIN offsets = {} /\ DOMAIN saved = {}
  BY <1>1, Empty
<1>3. InHand = {}
  BY <1>1, Empty DEF InHand
<1>4. Files
  <2>1. IsFiniteSet(DOMAIN segment)
    BY <1>2, FS_EmptySet
  <2>2. segment \in [DOMAIN segment -> Seq(Line)] /\ offsets \in [DOMAIN offsets -> Nat]
        /\ saved \in [DOMAIN saved -> Nat]
    BY <1>1, <1>2
  <2>3. seq \in [Sender -> Nat \cup {-1}] /\ sent \in 0 .. MaxSent
    BY <1>1
  <2> QED
    BY <1>1, <1>2, <2>1, <2>2, <2>3 DEF Files
<1>5. Turn
  <2>1. taken \in [Line -> Nat] /\ injected \in [Line -> Nat]
    BY <1>1
  <2>2. 0 \in 0 .. Limit /\ 0 <= Limit
    OBVIOUS
  <2> QED
    BY <1>1, <2>1, <2>2, Empty DEF Turn
<1>6. Names
  <2>1. 0 \in Nat /\ \A s \in Sender : seq[s] = -1
    BY <1>1
  <2> QED
    BY <1>1, <1>2, <2>1 DEF Names
<1>7. Listed /\ Apart /\ Offsets
  <2>1. \A l \in Line : injected[l] = 0
    BY <1>1
  <2> QED
    BY <1>1, <1>2, <1>3, <2>1, Empty DEF Listed, Apart, Offsets
<1>8. Reads /\ Again /\ Passed
  <2>1. \A l \in Line : injected[l] = 0 /\ taken[l] = 0
    BY <1>1
  <2> QED
    BY <1>1, <1>2, <1>3, <2>1 DEF Reads, Again, Passed
<1>9. Somewhere
  <2>1. \A l \in 1 .. sent : FALSE
    BY <1>1
  <2> QED
    BY <2>1 DEF Somewhere
<1>10. Losses /\ IsFiniteSet(killed)
  <2>1. 0 * Limit = 0 /\ 0 <= 0
    OBVIOUS
  <2> QED
    BY <1>1, <2>1, FS_EmptySet DEF Losses
<1> QED
  BY <1>4, <1>5, <1>6, <1>7, <1>8, <1>9, <1>10 DEF Shape, Kept

LEMMA StepInv == Shape /\ Kept /\ [InboxNext]_ivars => Shape' /\ Kept'
<1> SUFFICES ASSUME Shape, Kept, [InboxNext]_ivars
             PROVE  Shape' /\ Kept'
  OBVIOUS
<1>1. ASSUME NEW s \in Sender, StartLine(s), UNCHANGED drainVars
      PROVE  Shape' /\ Kept'
  <2>1. UNCHANGED Reader
    BY <1>1 DEF StartLine, Reader
  <2> QED
    BY <1>1, <2>1, StartLineKeeps
<1>2. ASSUME NEW s \in Sender, FinishLine(s), UNCHANGED drainVars
      PROVE  Shape' /\ Kept'
  <2>1. UNCHANGED Reader
    BY <1>2 DEF FinishLine, Reader
  <2> QED
    BY <1>2, <2>1, FinishLineKeeps
<1>3. ASSUME NEW s \in Sender, SenderRestart(s), UNCHANGED drainVars
      PROVE  Shape' /\ Kept'
  BY <1>3, SenderRestartKeeps
<1>4. CASE DrainStart
  BY <1>4, DrainStartKeeps
<1>5. CASE DrainSegment
  BY <1>5, DrainSegmentKeeps
<1>6. CASE DrainPolled
  BY <1>6, DrainPolledKeeps
<1>7. CASE InjectHandoff
  BY <1>7, InjectKeeps
<1>8. CASE DrainClosed
  BY <1>8, DrainClosedKeeps
<1>9. CASE DrainKilled
  BY <1>9, DrainKilledKeeps
<1>10. CASE UNCHANGED ivars
  <2>1. UNCHANGED <<segment, offsets, saved, taken, kills, failures, cut, sent, pollVars, drainVars>>
    BY <1>10 DEF ivars, vars, senderVars
  <2>2. Turn' /\ Listed' /\ Apart' /\ Offsets' /\ Kept'
    BY <2>1, Untouched DEF Shape
  <2>3. Files' /\ Names'
    BY <1>10 DEF ivars, vars, senderVars, drainVars, Shape, Files, Names
  <2> QED
    BY <2>2, <2>3 DEF Shape
<1> QED
  BY <1>1, <1>2, <1>3, <1>4, <1>5, <1>6, <1>7, <1>8, <1>9, <1>10 DEF InboxNext

\* The invariant holds in every reachable state, whatever the bounds.
THEOREM Invariant == InboxSpec => []Inv
<1>1. InboxInit => Inv
  BY InitInv, InvParts
<1>2. Inv /\ [InboxNext]_ivars => Inv'
  BY StepInv, InvParts
<1> QED
  BY <1>1, <1>2, PTL DEF InboxSpec

-------------------------------------------------------------------------------
(* What follows. *)

\* Each sent line has been injected, or is in a segment still to be read or in
\* hand, or was in hand when the receiver was killed, or went with a segment
\* deleted after a poll stopped in one at its limit; and each kill takes one
\* poll's lines at most.
THEOREM LossIsBounded == InboxSpec => []LossBounded
<1>1. Inv => LossBounded
  BY DEF Inv
<1> QED
  BY <1>1, Invariant, PTL

\* No line is injected more often than once, and once more for each save of
\* the offsets that failed and for each kill, whichever are fewer.
THEOREM SecondTimeNeedsBoth == InboxSpec => []TwiceOnlyUnsaved
<1>1. Inv => TwiceOnlyUnsaved
  <2> SUFFICES ASSUME Inv, NEW l \in Line
               PROVE  injected[l] <= 1 + Min({failures, kills})
    BY DEF TwiceOnlyUnsaved
  <2>1. /\ injected[l] <= 1 + failures /\ injected[l] <= 1 + kills
        /\ failures \in Nat /\ kills \in Nat
    BY DEF Inv, Again, Shape, Files
  <2>2. Min({failures, kills}) = IF failures <= kills THEN failures ELSE kills
    BY <2>1, Lesser
  <2> QED
    BY <2>1, <2>2
<1> QED
  BY <1>1, Invariant, PTL

\* A poll that returns less than its limit has taken lines from every segment
\* that had unread ones when it was listed.
THEOREM NonePassedOver == InboxSpec => PassedOverOnlyAtLimit
<1>1. Inv /\ [InboxNext]_ivars
        => [DrainPolled => out >= Limit \/ waiting \cap DOMAIN segment = {}]_ivars
  <2> SUFFICES ASSUME Inv, DrainPolled, ~ (out >= Limit)
               PROVE  waiting \cap DOMAIN segment = {}
    OBVIOUS
  <2>1. polling /\ (todo = <<>> \/ out >= Limit)
    BY DEF DrainPolled, PollEnd, PollEndUnsaved
  <2>2. out < Limit
    BY DEF Inv, Shape, Turn
  <2>3. \A f \in waiting \cap DOMAIN segment : f \in ToSet(todo)
    BY <2>1, <2>2 DEF Inv, Passed
  <2> QED
    BY <2>1, <2>3, Empty
<1> QED
  BY <1>1, Invariant, PTL DEF InboxSpec, PassedOverOnlyAtLimit

\* The offset of a segment lies within it, a poll collects as many lines as it
\* has counted, and what it returns is not longer than its limit.
THEOREM TypeCorrect == InboxSpec => []InboxTypeOK
<1>1. Inv => InboxTypeOK
  <2> SUFFICES ASSUME Inv
               PROVE  InboxTypeOK
    OBVIOUS
  <2>1. /\ Shape /\ collected \in Seq(Line) /\ Len(collected) = out /\ urls \in Seq(Line)
        /\ Len(urls) <= Limit /\ waiting \subseteq Name /\ out \in 0 .. Limit /\ newest \subseteq Name
    BY DEF Inv, Shape, Turn
  <2>2. \A f \in DOMAIN segment : f \in Sender \X Nat /\ segment[f] \in Seq(Line)
    BY <2>1 DEF Shape, Files, Name
  <2>3. ASSUME NEW f \in DOMAIN offsets \cap DOMAIN segment
        PROVE  offsets[f] \in 0 .. Len(segment[f])
    <3>1. offsets[f] \in Nat /\ offsets[f] <= Len(segment[f])
      BY <2>1 DEF Shape, Files, Offsets, At
    <3>2. Len(segment[f]) \in Nat
      BY <2>2, LenProperties
    <3> QED
      BY <3>1, <3>2
  <2>4. fragment \subseteq DOMAIN segment
    BY <2>1 DEF Shape, Files
  <2> QED
    BY <2>1, <2>2, <2>3, <2>4 DEF InboxTypeOK, TypeOK, Name
<1> QED
  BY <1>1, Invariant, PTL
===============================================================================
