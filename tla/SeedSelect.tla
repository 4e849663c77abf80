------------------------------ MODULE SeedSelect ------------------------------
(***************************************************************************)
(* select of seeds/build_seeds.py: candidates are drawn from a ranked pool *)
(* TLD by TLD, first each TLD's quota and then, while there is room, one   *)
(* from each in turn.  A candidate is its TLD and its place in that TLD's  *)
(* list; infrastructure hosts and second hosts of a registered domain are  *)
(* gone from the lists.                                                    *)
(***************************************************************************)
EXTENDS Integers, FiniteSetsExt, SequencesExt

CONSTANTS
  Tld,
  MaxShare,   \* max_share, in percent
  MaxPool,    \* bound: candidates of a TLD
  MaxCount    \* bound: count

ASSUME SeedSelectAssumption ==
  /\ IsFiniteSet(Tld)
  /\ MaxShare \in 1 .. 100
  /\ {MaxPool, MaxCount} \subseteq Nat \ {0}

VARIABLES
  pool,     \* how many candidates a TLD has: len(by_tld[tld])
  count,
  order,    \* the TLDs, those with most candidates first
  visit,    \* the TLDs the running loop has yet to visit
  stage,    \* "quota", "top up", "done"
  picked,
  taken,    \* how far each TLD's list has been taken in the second loop
  depthExhausted

selectingVars == <<pool, count, order, visit, stage, picked, taken, depthExhausted>>

Present == {t \in Tld : pool[t] > 0}
Total == Cardinality(UNION {{t} \X (1 .. pool[t]) : t \in Tld})

\* round(a / b): a half goes to the even side.
Round(a, b) ==
  LET q == a \div b IN
  IF 2 * (a % b) > b \/ (2 * (a % b) = b /\ q % 2 = 1) THEN q + 1 ELSE q

Cap == Max({1, (count * MaxShare) \div 100})

Quota(t) == Min({Cap, Max({1, Round(count * pool[t], Total)})})

Candidates(t, from, to) == [i \in 1 .. to - from + 1 |-> <<t, from + i - 1>>]

\* picked[:count]
FirstCount(picks) == SubSeq(picks, 1, Min({count, Len(picks)}))

\* One turn of the first loop.
TakeQuota ==
  /\ stage = "quota" /\ visit # <<>>
  /\ LET t == Head(visit)
         more == picked \o Candidates(t, 1, Min({Quota(t), pool[t]}))
     IN IF Len(more) >= count
        THEN picked' = FirstCount(more) /\ stage' = "done"
        ELSE picked' = more /\ UNCHANGED stage
  /\ visit' = Tail(visit)
  /\ UNCHANGED <<pool, count, order, taken, depthExhausted>>

\* Fault: the second loop begins at the head of each list.
FromTheTop == [t \in Tld |-> 0]

FromQuota == [t \in Tld |-> Quota(t)]

TopUpStart ==
  /\ stage = "quota" /\ visit = <<>>
  /\ stage' = "top up"
  /\ taken' = FromQuota
  /\ depthExhausted' = TRUE
  /\ visit' = order
  /\ UNCHANGED <<pool, count, order, picked>>

\* Fault: a list is exhausted before its last candidate.
NotTheLast(t) == taken[t] < pool[t] - 1

Remains(t) == taken[t] < pool[t]

\* One turn of the second loop's inner loop ...
TopUp ==
  /\ stage = "top up" /\ visit # <<>>
  /\ LET t == Head(visit) IN
     IF Remains(t)
     THEN /\ picked' = Append(picked, <<t, taken[t] + 1>>)
          /\ taken' = [taken EXCEPT ![t] = @ + 1]
          /\ depthExhausted' = FALSE
          /\ stage' = IF Len(picked) + 1 = count THEN "done" ELSE stage
     ELSE UNCHANGED <<picked, taken, depthExhausted, stage>>
  /\ visit' = Tail(visit)
  /\ UNCHANGED <<pool, count, order>>

Exhausted == depthExhausted

\* ... and the outer one's condition.
NextRound ==
  /\ stage = "top up" /\ visit = <<>>
  /\ IF Exhausted THEN stage' = "done" /\ UNCHANGED <<visit, depthExhausted>>
     ELSE depthExhausted' = TRUE /\ visit' = order /\ UNCHANGED stage
  /\ UNCHANGED <<pool, count, order, picked, taken>>

SelectingInit ==
  /\ pool \in [Tld -> 0 .. MaxPool] /\ Present # {}
  /\ count \in 1 .. MaxCount
  /\ order \in {s \in SetToSeqs(Present) :
                  \A i, j \in DOMAIN s : i < j => pool[s[i]] >= pool[s[j]]}
  /\ visit = order
  /\ stage = "quota" /\ picked = <<>> /\ taken = [t \in Tld |-> 0]
  /\ depthExhausted = FALSE

SelectingNext ==
  \/ TakeQuota
  \/ TopUpStart
  \/ TopUp
  \/ NextRound

-------------------------------------------------------------------------------
(* Properties. *)

SelectingTypeOK ==
  /\ stage \in {"quota", "top up", "done"}
  /\ \A i \in DOMAIN picked : picked[i][1] \in Present /\ picked[i][2] \in 1 .. pool[picked[i][1]]
  /\ Len(picked) <= count

Picks(t) == {i \in DOMAIN picked : picked[i][1] = t}

\* The candidates of a TLD are its best ones, each picked once, whichever loop
\* has picked them.
BestOfEach ==
  \A t \in Tld : {picked[i][2] : i \in Picks(t)} = 1 .. Cardinality(Picks(t))

\* In the end there are as many as were asked for, or all.
AsManyAsAsked == stage = "done" => Len(picked) = Min({count, Total})

===============================================================================
