---------------------------- MODULE Supervisor_proofs ----------------------------
(***************************************************************************)
(* Proofs about module Supervisor, for every number of shards, every       *)
(* setting of the script's times and every restart budget.                 *)
(*                                                                         *)
(* Three arguments, none of which mentions another.  Counters relates what *)
(* a loop counts to what happened: its restarts to the short rounds it has *)
(* had.  Timely bounds the age of a crawl that can still stop by itself    *)
(* while its script samples.  OwnDump and OwnCount relate a loop to the    *)
(* file and the directory its shard leaves between two rounds, and need    *)
(* those to be its own: they are invariants of a script that is alone.     *)
(***************************************************************************)
EXTENDS Supervisor, TLAPS

Phase == {"idle", "sampling", "stopping", "over", "reaped", "killed"}
At == {"none", "running", "closing", "stuck", "pausing", "returned", "gaveup", "killed"}

ScriptRec == [phase : Phase, begun : Nat, since : Nat,
              cause : {"none", "alone", "deadline", "gaveup", "disk"}]
LoopRec == [at : At, since : Nat, why : Reason \cup {NoReason},
            restarts : 0 .. MaxRestarts, fast : 0 .. 2]

\* The restarts are used up exactly when the loop gives up, and all of them
\* but the first followed a short round.
Counted(rec, short) ==
  /\ rec.at = "gaveup" <=> rec.restarts = MaxRestarts
  /\ rec.restarts <= short + 1

Counters == \A l \in Loops : Counted(loop[l], shorts[l]) /\ shorts[l] <= MaxRestarts

\* While its script samples, a crawl that can stop by itself is not overdue.
TimelyRec(rec, begun) ==
  /\ rec.at = "running" => now <= begun + Duration
  /\ rec.at = "closing" => now <= begun + Duration + Drain /\ rec.why # "shutdown"

Timely == \A l \in Loops :
  script[l[1]].phase = "sampling" => TimelyRec(loop[l], script[l[1]].begun)

\* No reason of an earlier round is there to be read while a loop lives.
OwnDump == \A l \in Loops :
  /\ Alive(l) => stats[l[2]] # "memusage_exceeded"
  /\ loop[l].at = "pausing" => ended[l] \in {"crash", "memusage_exceeded"}

\* The directory has seen the fast crashes that its loop counts.
OwnCount == \A l \in Loops : loop[l].fast <= dir[l[2]].crashes

Inv == TypeOK /\ Counters

\* What SupervisorAssumption says of the script's settings.
LEMMA Settings ==
  /\ Duration \in Nat /\ LeastRound \in Nat /\ Drain \in Nat /\ Grace \in Nat
  /\ Drain < Grace
  /\ FastCrash \in Nat /\ BudgetReset \in Nat
  /\ MaxRestarts \in Nat /\ MaxRestarts > 0 /\ MaxTime \in Nat
BY SupervisorAssumption

USE Settings

-------------------------------------------------------------------------------
(* The records. *)

\* TypeOK in terms of the records above.
LEMMA Types ==
  TypeOK <=>
    /\ now \in 0 .. MaxTime
    /\ script \in [Script -> ScriptRec]
    /\ loop \in [Loops -> LoopRec]
    /\ stats \in [Shard -> Reason \cup {NoReason}]
    /\ dir \in [Shard -> [crashes : Nat, aside : Nat \cup {-1}]]
    /\ shorts \in [Loops -> Nat]
    /\ ended \in [Loops -> Reason \cup {"crash", NoReason}]
BY DEF TypeOK, ScriptRec, LoopRec, Phase, At

\* The same, for one loop and one script.
LEMMA LoopTypes ==
  ASSUME TypeOK, NEW l \in Loops
  PROVE  /\ loop[l] \in LoopRec
         /\ loop[l].at \in At /\ loop[l].since \in Nat /\ loop[l].why \in Reason \cup {NoReason}
         /\ loop[l].restarts \in 0 .. MaxRestarts /\ loop[l].fast \in 0 .. 2
         /\ shorts[l] \in Nat
<1>1. loop[l] \in LoopRec /\ shorts[l] \in Nat
  BY Types
<1> QED
  BY <1>1 DEF LoopRec

LEMMA ScriptTypes ==
  ASSUME TypeOK, NEW k \in Script
  PROVE  /\ script[k] \in ScriptRec
         /\ script[k].phase \in Phase
         /\ script[k].begun \in Nat /\ script[k].since \in Nat
<1>1. script[k] \in ScriptRec
  BY Types
<1> QED
  BY <1>1 DEF ScriptRec

LEMMA ClockTypes ==
  ASSUME TypeOK
  PROVE  now \in Nat
BY DEF TypeOK

\* The smaller of two numbers.
LEMMA MinOfTwo ==
  ASSUME NEW a \in Int, NEW b \in Int
  PROVE  Min({a, b}) = IF a <= b THEN a ELSE b
<1> DEFINE m == IF a <= b THEN a ELSE b
<1>1. m \in {a, b} /\ \A y \in {a, b} : m <= y
  OBVIOUS
<1>2. ASSUME NEW x \in {a, b}, \A y \in {a, b} : x <= y
      PROVE  x = m
  BY <1>2
<1> QED
  BY <1>1, <1>2 DEF Min

\* What each operator makes of the record of a loop.
LEMMA LeaveRec ==
  ASSUME NEW rec \in LoopRec, NEW how \in At
  PROVE  /\ Leave(rec, how) \in LoopRec
         /\ Leave(rec, how).at = how
         /\ Leave(rec, how).restarts = rec.restarts /\ Leave(rec, how).fast = rec.fast
BY DEF Leave, LoopRec

LEMMA BudgetRec ==
  ASSUME TypeOK, NEW l \in Loops
  PROVE  LET b == Budget(l) IN
         /\ b \in LoopRec /\ b.at = loop[l].at
         /\ b.restarts = 0 \/ b.restarts = loop[l].restarts
         /\ b.fast = 0 \/ b.fast = loop[l].fast
         /\ now - loop[l].since >= BudgetReset => b.restarts = 0
<1>1. /\ loop[l] \in LoopRec /\ now \in Nat /\ loop[l].since \in Nat
      /\ loop[l].restarts \in 0 .. MaxRestarts
  BY LoopTypes, ClockTypes
<1>2. CASE now - loop[l].since >= BudgetReset /\ loop[l].restarts > 0
  <2>1. Budget(l) = [loop[l] EXCEPT !.restarts = 0, !.fast = 0]
    BY <1>2 DEF Budget
  <2>2. Budget(l) = [at |-> loop[l].at, since |-> loop[l].since, why |-> loop[l].why,
                     restarts |-> 0, fast |-> 0]
    BY <1>1, <2>1 DEF LoopRec
  <2>3. Budget(l) \in LoopRec
    BY <1>1, <2>2 DEF LoopRec
  <2> QED
    BY <2>2, <2>3
<1>3. CASE ~ (now - loop[l].since >= BudgetReset /\ loop[l].restarts > 0)
  <2>1. Budget(l) = loop[l]
    BY <1>3 DEF Budget
  <2> QED
    BY <1>1, <1>3, <2>1
<1> QED
  BY <1>2, <1>3

LEMMA RetryRec ==
  ASSUME TypeOK, NEW rec \in LoopRec, rec.restarts # MaxRestarts
  PROVE  LET r == Retry(rec) IN
         /\ r \in LoopRec
         /\ r.restarts = rec.restarts + 1 /\ r.fast = rec.fast
         /\ r.at = IF rec.restarts + 1 = MaxRestarts THEN "gaveup" ELSE "pausing"
<1> DEFINE one == [rec EXCEPT !.restarts = @ + 1, !.since = now, !.at = "pausing", !.why = NoReason]
<1>1. rec.restarts + 1 \in 0 .. MaxRestarts /\ now \in Nat
  BY ClockTypes DEF LoopRec
<1>2. /\ [rec EXCEPT !.restarts = rec.restarts + 1, !.since = now] \in LoopRec
      /\ [rec EXCEPT !.restarts = rec.restarts + 1, !.since = now].restarts = rec.restarts + 1
      /\ [rec EXCEPT !.restarts = rec.restarts + 1, !.since = now].fast = rec.fast
  BY <1>1 DEF LoopRec
<1>3. ASSUME NEW r \in LoopRec
      PROVE  /\ [r EXCEPT !.at = "pausing", !.why = NoReason] \in LoopRec
             /\ [r EXCEPT !.at = "pausing", !.why = NoReason].at = "pausing"
             /\ [r EXCEPT !.at = "pausing", !.why = NoReason].restarts = r.restarts
             /\ [r EXCEPT !.at = "pausing", !.why = NoReason].fast = r.fast
  BY DEF LoopRec, At
<1>4. one \in LoopRec /\ one.restarts = rec.restarts + 1 /\ one.fast = rec.fast
      /\ one.at = "pausing"
  BY <1>2, <1>3
<1>5. Retry(rec) = IF one.restarts >= MaxRestarts THEN Leave(one, "gaveup") ELSE one
  BY DEF Retry
<1> HIDE DEF one
<1>6. CASE rec.restarts + 1 = MaxRestarts
  <2>1. Retry(rec) = Leave(one, "gaveup")
    BY <1>4, <1>5, <1>6
  <2> QED
    BY <1>4, <1>6, <2>1, LeaveRec DEF At
<1>7. CASE rec.restarts + 1 # MaxRestarts
  <2>1. Retry(rec) = one
    BY <1>1, <1>4, <1>5, <1>7
  <2> QED
    BY <1>4, <1>7, <2>1
<1> QED
  BY <1>6, <1>7

LEMMA CountFastRec ==
  ASSUME NEW rec \in LoopRec, NEW short \in BOOLEAN
  PROVE  LET c == CountFast(rec, short) IN
         /\ c \in LoopRec
         /\ c.at = rec.at /\ c.restarts = rec.restarts
         /\ \/ c.fast = 0
            \/ c.fast = rec.fast
            \/ short /\ ~ Condemned(rec, short) /\ c.fast = rec.fast + 1
         /\ Condemned(rec, short) => c.fast = 0
<1>1. CASE rec.at # "pausing"
  BY <1>1 DEF CountFast, Condemned
<1>2. CASE rec.at = "pausing" /\ (~ short \/ rec.fast + 1 >= 3)
  <2>1. CountFast(rec, short) = [rec EXCEPT !.fast = 0]
    BY <1>2 DEF CountFast
  <2> QED
    BY <2>1 DEF LoopRec
<1>3. CASE rec.at = "pausing" /\ short /\ ~ (rec.fast + 1 >= 3)
  <2>1. CountFast(rec, short) = [rec EXCEPT !.fast = rec.fast + 1]
    BY <1>3 DEF CountFast
  <2>2. rec.fast + 1 \in 0 .. 2
    BY <1>3 DEF LoopRec
  <2>3. CountFast(rec, short) \in LoopRec /\ CountFast(rec, short).fast = rec.fast + 1
        /\ CountFast(rec, short).at = rec.at
        /\ CountFast(rec, short).restarts = rec.restarts
    BY <2>1, <2>2 DEF LoopRec
  <2> QED
    BY <1>3, <2>3 DEF Condemned
<1> QED
  BY <1>1, <1>2, <1>3

LEMMA AfterCrashType ==
  ASSUME NEW d \in [crashes : Nat, aside : Nat \cup {-1}], NEW rec, NEW short
  PROVE  AfterCrash(d, rec, short) \in [crashes : Nat, aside : Nat \cup {-1}]
<1>1. d.crashes \in Nat /\ d.crashes + 1 \in Nat /\ d.aside \in Nat \cup {-1}
  OBVIOUS
<1>2. Min({d.crashes + 1, 3}) \in Nat
  BY <1>1, MinOfTwo
<1>3. [d EXCEPT !.crashes = Min({d.crashes + 1, 3})] \in [crashes : Nat, aside : Nat \cup {-1}]
  BY <1>2
<1> QED
  BY <1>1, <1>3 DEF AfterCrash

LEMMA TopOfLoopRec ==
  ASSUME TypeOK, NEW rec \in LoopRec, NEW k \in Script
  PROVE  LET t == TopOfLoop(rec, k) IN
         /\ t \in LoopRec
         /\ t.restarts = rec.restarts /\ t.fast = rec.fast
         /\ t.at \in {"running", "returned"}
         /\ t.at = "running" => now < script[k].begun + Duration
<1>1. now \in Nat /\ script[k].begun \in Nat
  BY ClockTypes, ScriptTypes
<1>2. CASE Duration - (now - script[k].begun) <= LeastRound
  <2>1. TopOfLoop(rec, k) = Leave(rec, "returned")
    BY <1>2 DEF TopOfLoop
  <2> QED
    BY <2>1, LeaveRec DEF At
<1>3. CASE ~ (Duration - (now - script[k].begun) <= LeastRound)
  <2>1. TopOfLoop(rec, k) = [rec EXCEPT !.at = "running", !.since = now, !.why = NoReason]
    BY <1>3 DEF TopOfLoop
  <2>2. now < script[k].begun + Duration
    BY <1>1, <1>3
  <2>3. TopOfLoop(rec, k) \in LoopRec
    BY <1>1, <2>1 DEF LoopRec, At
  <2> QED
    BY <2>1, <2>2, <2>3 DEF LoopRec
<1> QED
  BY <1>2, <1>3

\* A process has restarts left.
LEMMA RestartsLeft ==
  ASSUME Inv, NEW l \in Loops, loop[l].at # "gaveup"
  PROVE  loop[l].restarts # MaxRestarts
BY DEF Inv, Counters, Counted

-------------------------------------------------------------------------------
(* The counters. *)

\* A change to one loop that starts nothing over keeps the loops' types and
\* their counters.
LEMMA OneLoop ==
  ASSUME Inv, NEW l \in Loops, NEW rec \in LoopRec,
         loop' = [loop EXCEPT ![l] = rec],
         rec.restarts = loop[l].restarts,
         rec.at = "gaveup" <=> loop[l].at = "gaveup",
         UNCHANGED <<now, script, stats, history>>
  PROVE  Inv'
<1>1. loop' \in [Loops -> LoopRec] /\ loop'[l] = rec
      /\ \A m \in Loops : m # l => loop'[m] = loop[m]
  BY Types DEF Inv
<1>2. TypeOK'
  BY <1>1, Types DEF Inv, TypeOK, LoopRec, At, history
<1>3. Counters'
  BY <1>1 DEF Inv, Counters, Counted, history
<1> QED
  BY <1>2, <1>3 DEF Inv

\* The end of a round counts it, as a short one or as the last long one.
LEMMA RoundCounted ==
  ASSUME Inv, NEW l \in Loops, Process(l), NEW rec \in LoopRec, NEW how,
         loop' = [loop EXCEPT ![l] = rec],
         \/ rec.restarts = Budget(l).restarts /\ rec.at # "gaveup"
         \/ /\ rec.restarts = Budget(l).restarts + 1
            /\ rec.at = "gaveup" <=> rec.restarts = MaxRestarts,
         RoundEnds(l, how)
  PROVE  /\ Counters'
         /\ shorts' \in [Loops -> Nat]
         /\ loop' \in [Loops -> LoopRec]
<1> DEFINE b == Budget(l)
           n == IF now - loop[l].since >= BudgetReset THEN 0 ELSE Min({shorts[l] + 1, MaxRestarts})
<1>1. /\ b.restarts = 0 \/ b.restarts = loop[l].restarts
      /\ now - loop[l].since >= BudgetReset => b.restarts = 0
      /\ b.restarts \in 0 .. MaxRestarts
  BY BudgetRec DEF Inv, LoopRec
<1>2. loop[l].restarts # MaxRestarts /\ loop[l].restarts \in 0 .. MaxRestarts
  BY RestartsLeft, LoopTypes DEF Inv, Process
<1>3. shorts[l] \in 0 .. MaxRestarts /\ loop[l].restarts <= shorts[l] + 1
  BY LoopTypes DEF Inv, Counters, Counted
<1>4. n \in 0 .. MaxRestarts /\ b.restarts <= n
  <2>1. CASE now - loop[l].since >= BudgetReset
    BY <1>1, <2>1
  <2>2. CASE ~ (now - loop[l].since >= BudgetReset)
    <3>1. n = IF shorts[l] + 1 <= MaxRestarts THEN shorts[l] + 1 ELSE MaxRestarts
      BY <1>3, <2>2, MinOfTwo
    <3> QED
      BY <1>1, <1>2, <1>3, <3>1
  <2> QED
    BY <2>1, <2>2
<1>5. shorts' = [shorts EXCEPT ![l] = n]
  BY DEF RoundEnds
<1> HIDE DEF b, n
<1>6. rec.restarts <= n + 1
  BY <1>1, <1>4 DEF LoopRec, b
<1>7. rec.at = "gaveup" <=> rec.restarts = MaxRestarts
  BY <1>1, <1>2 DEF b
<1>8. /\ loop \in [Loops -> LoopRec] /\ shorts \in [Loops -> Nat]
  BY Types DEF Inv
<1>9. /\ loop' \in [Loops -> LoopRec] /\ loop'[l] = rec
      /\ \A m \in Loops : m # l => loop'[m] = loop[m]
  BY <1>8
<1>10. /\ shorts' \in [Loops -> Nat] /\ shorts'[l] = n
       /\ \A m \in Loops : m # l => shorts'[m] = shorts[m]
  BY <1>4, <1>5, <1>8
<1>11. Counters'
  <2> SUFFICES ASSUME NEW m \in Loops
               PROVE  (Counted(loop[m], shorts[m]) /\ shorts[m] <= MaxRestarts)'
    BY DEF Counters
  <2>1. CASE m = l
    BY <1>4, <1>6, <1>7, <1>9, <1>10, <2>1 DEF Counted
  <2>2. CASE m # l
    BY <1>9, <1>10, <2>2 DEF Inv, Counters, Counted
  <2> QED
    BY <2>1, <2>2
<1> QED
  BY <1>9, <1>10, <1>11

\* One lemma per action.
LEMMA ExitInv ==
  ASSUME Inv, NEW l \in Loops, Exit(l)
  PROVE  Inv'
<1>1. Process(l) /\ loop[l].why \in Reason \cup {NoReason} /\ l[2] \in Shard
  BY LoopTypes DEF Exit, Process, Inv, Loops
<1>2. PICK dump \in Dump(l) :
        IF dump = "memusage_exceeded"
        THEN LET rec == Retry(Budget(l)) IN
             /\ loop' = [loop EXCEPT ![l] = rec]
             /\ stats' = [stats EXCEPT ![l[2]] = KeepStats(rec, dump)]
        ELSE /\ loop' = [loop EXCEPT ![l] = Leave(Budget(l), "returned")]
             /\ stats' = [stats EXCEPT ![l[2]] = dump]
  BY DEF Exit
<1>3. RoundEnds(l, loop[l].why) /\ UNCHANGED dir
  BY DEF Exit
<1>4. Budget(l) \in LoopRec /\ Budget(l).restarts # MaxRestarts
  BY <1>1, BudgetRec, RestartsLeft DEF Inv, Process
<1>5. stats \in [Shard -> Reason \cup {NoReason}] /\ dump \in Reason \cup {NoReason}
  BY <1>1, Types DEF Inv, Dump
<1>6. /\ Counters' /\ shorts' \in [Loops -> Nat] /\ loop' \in [Loops -> LoopRec]
      /\ stats' \in [Shard -> Reason \cup {NoReason}]
  <2>1. CASE dump = "memusage_exceeded"
    <3> DEFINE rec == Retry(Budget(l))
    <3>1. /\ rec \in LoopRec /\ rec.restarts = Budget(l).restarts + 1
          /\ rec.at = "gaveup" <=> rec.restarts = MaxRestarts
      BY <1>4, RetryRec DEF Inv
    <3>2. loop' = [loop EXCEPT ![l] = rec] /\ stats' = [stats EXCEPT ![l[2]] = KeepStats(rec, dump)]
      BY <1>2, <2>1
    <3>3. stats' \in [Shard -> Reason \cup {NoReason}]
      BY <1>5, <3>2 DEF KeepStats
    <3> HIDE DEF rec
    <3> QED
      BY <1>1, <1>3, <3>1, <3>2, <3>3, RoundCounted
  <2>2. CASE dump # "memusage_exceeded"
    <3> DEFINE rec == Leave(Budget(l), "returned")
    <3>1. rec \in LoopRec /\ rec.restarts = Budget(l).restarts /\ rec.at = "returned"
      BY <1>4, LeaveRec DEF At
    <3>2. loop' = [loop EXCEPT ![l] = rec] /\ stats' = [stats EXCEPT ![l[2]] = dump]
      BY <1>2, <2>2
    <3>3. stats' \in [Shard -> Reason \cup {NoReason}]
      BY <1>5, <3>2
    <3> HIDE DEF rec
    <3> QED
      BY <1>1, <1>3, <3>1, <3>2, <3>3, RoundCounted
  <2> QED
    BY <2>1, <2>2
<1>7. ended' \in [Loops -> Reason \cup {"crash", NoReason}]
  BY <1>1, <1>3, Types DEF Inv, RoundEnds
<1>8. UNCHANGED <<now, script, dir>>
  BY <1>3 DEF RoundEnds
<1> QED
  BY <1>6, <1>7, <1>8, Types DEF Inv, TypeOK, LoopRec, At

LEMMA CrashInv ==
  ASSUME Inv, NEW l \in Loops, Crash(l)
  PROVE  Inv'
<1> DEFINE short == now - loop[l].since < FastCrash
           retry == Retry(Budget(l))
           rec   == CountFast(retry, short)
<1>1. Process(l) /\ l[2] \in Shard
  BY DEF Crash, Loops
<1>2. Budget(l) \in LoopRec /\ Budget(l).restarts # MaxRestarts
  BY <1>1, BudgetRec, RestartsLeft DEF Inv, Process
<1>3. /\ retry \in LoopRec /\ retry.restarts = Budget(l).restarts + 1
      /\ retry.at = "gaveup" <=> retry.restarts = MaxRestarts
  BY <1>2, RetryRec DEF Inv
<1>4. /\ rec \in LoopRec /\ rec.restarts = Budget(l).restarts + 1
      /\ rec.at = "gaveup" <=> rec.restarts = MaxRestarts
  <2>1. short \in BOOLEAN
    OBVIOUS
  <2> HIDE DEF short, retry
  <2> QED
    BY <1>3, <2>1, CountFastRec
<1>5. /\ loop' = [loop EXCEPT ![l] = rec]
      /\ stats' = [stats EXCEPT ![l[2]] = KeepStats(retry, stats[l[2]])]
      /\ dir' = [dir EXCEPT ![l[2]] = AfterCrash(dir[l[2]], retry, short)]
      /\ RoundEnds(l, "crash")
  BY DEF Crash
<1> HIDE DEF rec
<1>6. Counters' /\ shorts' \in [Loops -> Nat] /\ loop' \in [Loops -> LoopRec]
  BY <1>1, <1>4, <1>5, RoundCounted
<1>7. stats' \in [Shard -> Reason \cup {NoReason}]
  BY <1>1, <1>5, Types DEF Inv, KeepStats
<1>8. dir' \in [Shard -> [crashes : Nat, aside : Nat \cup {-1}]]
  <2>1. dir \in [Shard -> [crashes : Nat, aside : Nat \cup {-1}]]
    BY Types DEF Inv
  <2> HIDE DEF short, retry
  <2>2. AfterCrash(dir[l[2]], retry, short) \in [crashes : Nat, aside : Nat \cup {-1}]
    BY <1>1, <2>1, AfterCrashType
  <2> QED
    BY <1>1, <1>5, <2>1, <2>2
<1>9. ended' \in [Loops -> Reason \cup {"crash", NoReason}] /\ UNCHANGED <<now, script>>
  BY <1>5, Types DEF Inv, RoundEnds
<1> QED
  BY <1>6, <1>7, <1>8, <1>9, Types DEF Inv, TypeOK, LoopRec, At

LEMMA WakeInv ==
  ASSUME Inv, NEW l \in Loops, Wake(l)
  PROVE  Inv'
<1>1. l[1] \in Script
  BY DEF Loops
<1>2. loop[l] \in LoopRec /\ loop[l].at = "pausing"
  BY LoopTypes DEF Inv, Wake
<1>3. loop' = [loop EXCEPT ![l] = TopOfLoop(loop[l], l[1])]
      /\ UNCHANGED <<now, script, stats, history>>
  BY DEF Wake
<1>4. /\ TopOfLoop(loop[l], l[1]) \in LoopRec
      /\ TopOfLoop(loop[l], l[1]).restarts = loop[l].restarts
      /\ TopOfLoop(loop[l], l[1]).at \in {"running", "returned"}
  BY <1>1, <1>2, TopOfLoopRec DEF Inv
<1> QED
  BY <1>2, <1>3, <1>4, OneLoop

LEMMA CloseSelfInv ==
  ASSUME Inv, NEW l \in Loops, CloseSelf(l)
  PROVE  Inv'
<1>1. PICK why \in {"memusage_exceeded", "finished"} :
        loop' = [loop EXCEPT ![l].at = "closing", ![l].why = why]
  BY DEF CloseSelf, BeginClose
<1>2. loop[l] \in LoopRec /\ loop[l].at = "running"
  BY LoopTypes DEF Inv, CloseSelf
<1> DEFINE rec == [loop[l] EXCEPT !.at = "closing", !.why = why]
<1>3. rec \in LoopRec /\ rec.at = "closing" /\ rec.restarts = loop[l].restarts
  BY <1>2 DEF LoopRec, At, Reason
<1>4. loop' = [loop EXCEPT ![l] = rec]
  BY <1>1, Types DEF Inv
<1>5. UNCHANGED <<now, script, stats, history>>
  BY DEF CloseSelf
<1> HIDE DEF rec
<1> QED
  BY <1>2, <1>3, <1>4, <1>5, OneLoop

LEMMA DeadlineInv ==
  ASSUME Inv, NEW l \in Loops, Deadline(l)
  PROVE  Inv'
<1>1. loop[l] \in LoopRec /\ loop[l].at = "running" /\ UNCHANGED <<now, script, stats, history>>
  BY LoopTypes DEF Inv, Deadline
<1>2. CASE BeginClose(l, "run_duration")
  <2> DEFINE rec == [loop[l] EXCEPT !.at = "closing", !.why = "run_duration"]
  <2>1. rec \in LoopRec /\ rec.at = "closing" /\ rec.restarts = loop[l].restarts
    BY <1>1 DEF LoopRec, At, Reason
  <2>2. loop' = [loop EXCEPT ![l] = rec]
    BY <1>2, Types DEF Inv, BeginClose
  <2> HIDE DEF rec
  <2> QED
    BY <1>1, <2>1, <2>2, OneLoop
<1>3. CASE loop' = [loop EXCEPT ![l].at = "stuck"]
  <2> DEFINE rec == [loop[l] EXCEPT !.at = "stuck"]
  <2>1. rec \in LoopRec /\ rec.at = "stuck" /\ rec.restarts = loop[l].restarts
    BY <1>1 DEF LoopRec, At
  <2>2. loop' = [loop EXCEPT ![l] = rec]
    BY <1>3, Types DEF Inv
  <2> HIDE DEF rec
  <2> QED
    BY <1>1, <2>1, <2>2, OneLoop
<1> QED
  BY <1>2, <1>3 DEF Deadline

LEMMA StartInv ==
  ASSUME Inv, NEW k \in Script, Start(k)
  PROVE  Inv'
<1>1. script' \in [Script -> ScriptRec]
  <2>1. [phase |-> "sampling", begun |-> now, since |-> now, cause |-> "none"] \in ScriptRec
    BY ClockTypes DEF Inv, ScriptRec, Phase
  <2> QED
    BY <2>1, Types DEF Inv, Start
<1> DEFINE first == [Idle EXCEPT !.at = "running", !.since = now]
<1>2. first \in LoopRec /\ first.at = "running" /\ first.restarts = 0
  <2>1. now \in Nat
    BY ClockTypes DEF Inv
  <2>2. Idle \in LoopRec /\ Idle.restarts = 0
    BY DEF Idle, LoopRec, At
  <2> QED
    BY <2>1, <2>2 DEF LoopRec, At
<1>3. loop' = [l \in Loops |-> IF l[1] = k THEN first ELSE loop[l]]
  BY DEF Start
<1> HIDE DEF first
<1>4. loop' \in [Loops -> LoopRec]
  BY <1>2, <1>3, LoopTypes DEF Inv
<1>5. /\ stats' \in [Shard -> Reason \cup {NoReason}]
      /\ dir' \in [Shard -> [crashes : Nat, aside : Nat \cup {-1}]]
  <2>1. PICK resume \in BOOLEAN :
          /\ stats' = [i \in Shard |-> IF resume THEN stats[i] ELSE NoReason]
          /\ dir' = [i \in Shard |-> IF resume THEN dir[i] ELSE [dir[i] EXCEPT !.crashes = 0]]
    BY DEF Start
  <2>2. /\ stats \in [Shard -> Reason \cup {NoReason}]
        /\ dir \in [Shard -> [crashes : Nat, aside : Nat \cup {-1}]]
    BY Types DEF Inv
  <2> QED
    BY <2>1, <2>2
<1>6. UNCHANGED <<now, shorts, ended>>
  BY DEF Start
<1>7. Counters'
  <2> SUFFICES ASSUME NEW l \in Loops
               PROVE  (Counted(loop[l], shorts[l]) /\ shorts[l] <= MaxRestarts)'
    BY DEF Counters
  <2>1. Counted(loop[l], shorts[l]) /\ shorts[l] <= MaxRestarts /\ shorts[l] \in Nat
    BY LoopTypes DEF Inv, Counters
  <2>2. loop'[l] = first \/ loop'[l] = loop[l]
    BY <1>3
  <2> QED
    BY <1>2, <1>6, <2>1, <2>2 DEF Counted
<1> QED
  BY <1>1, <1>4, <1>5, <1>6, <1>7, Types DEF Inv, TypeOK, ScriptRec, Phase, LoopRec, At

\* What a script does to its loops keeps their counters.
LEMMA AllLoops ==
  ASSUME Inv, NEW k \in Script, NEW f \in [Loops -> LoopRec], NEW s \in ScriptRec,
         \A l \in Loops : /\ f[l].restarts = loop[l].restarts
                          /\ f[l].at = "gaveup" <=> loop[l].at = "gaveup",
         loop' = f, script' = [script EXCEPT ![k] = s],
         UNCHANGED <<now, stats, history>>
  PROVE  Inv'
<1>1. loop' \in [Loops -> LoopRec] /\ script' \in [Script -> ScriptRec]
  BY Types DEF Inv
<1>2. Counters'
  BY DEF Inv, Counters, Counted, history
<1> QED
  BY <1>1, <1>2, Types DEF Inv, TypeOK, ScriptRec, Phase, LoopRec, At, history

\* What SIGTERM may make of a loop: nothing of one that has ended or does not
\* hear it, a closing crawl, or an end.
Signalled(rec, to) ==
  \/ to = rec
  \/ rec.at \in {"running", "stuck"} /\ to = [rec EXCEPT !.at = "closing", !.why = "shutdown"]
  \/ rec.at = "pausing" /\ to = Leave(rec, "killed")

LEMMA StopSignals ==
  ASSUME NEW k \in Script, Stop(k)
  PROVE  /\ loop' = [l \in Loops |-> loop'[l]]
         /\ \A l \in Loops : Signalled(loop[l], loop'[l])
         /\ \A l \in Loops : l[1] # k => loop'[l] = loop[l]
<1>1. PICK deaf \in SUBSET {l \in LoopsOf(k) : loop[l].at = "stuck"} :
        loop' = [l \in Loops |->
          IF l[1] # k \/ l \in deaf THEN loop[l]
          ELSE CASE loop[l].at \in {"running", "stuck"} ->
                      [loop[l] EXCEPT !.at = "closing", !.why = "shutdown"]
                 [] loop[l].at = "pausing" -> Leave(loop[l], "killed")
                 [] OTHER -> loop[l]]
  BY DEF Stop
<1>2. loop' = [l \in Loops |-> loop'[l]]
  BY <1>1
<1>3. ASSUME NEW l \in Loops
      PROVE  Signalled(loop[l], loop'[l]) /\ (l[1] # k => loop'[l] = loop[l])
  <2>1. CASE l[1] # k \/ l \in deaf
    BY <1>1, <2>1 DEF Signalled
  <2>2. CASE ~ (l[1] # k \/ l \in deaf) /\ loop[l].at \in {"running", "stuck"}
    <3>1. loop'[l] = [loop[l] EXCEPT !.at = "closing", !.why = "shutdown"]
      BY <1>1, <2>2
    <3> QED
      BY <2>2, <3>1 DEF Signalled
  <2>3. CASE ~ (l[1] # k \/ l \in deaf) /\ loop[l].at = "pausing"
    <3>1. loop'[l] = Leave(loop[l], "killed")
      BY <1>1, <2>3
    <3> QED
      BY <2>3, <3>1 DEF Signalled
  <2>4. CASE ~ (l[1] # k \/ l \in deaf) /\ loop[l].at \notin {"running", "stuck", "pausing"}
    <3>1. loop'[l] = loop[l]
      BY <1>1, <2>4
    <3> QED
      BY <2>4, <3>1 DEF Signalled
  <2> QED
    BY <2>1, <2>2, <2>3, <2>4
<1> QED
  BY <1>2, <1>3

LEMMA StopInv ==
  ASSUME Inv, NEW k \in Script, Stop(k)
  PROVE  Inv'
<1>1. ASSUME NEW l \in Loops
      PROVE  /\ loop'[l] \in LoopRec /\ loop'[l].restarts = loop[l].restarts
             /\ loop'[l].at = "gaveup" <=> loop[l].at = "gaveup"
  <2>1. loop[l] \in LoopRec /\ Signalled(loop[l], loop'[l])
    BY StopSignals, LoopTypes DEF Inv
  <2>2. CASE loop'[l] = loop[l]
    BY <2>1, <2>2
  <2>3. CASE /\ loop[l].at \in {"running", "stuck"}
             /\ loop'[l] = [loop[l] EXCEPT !.at = "closing", !.why = "shutdown"]
    BY <2>1, <2>3 DEF LoopRec, At, Reason
  <2>4. CASE loop[l].at = "pausing" /\ loop'[l] = Leave(loop[l], "killed")
    BY <2>1, <2>4, LeaveRec DEF At
  <2> QED
    BY <2>1, <2>2, <2>3, <2>4 DEF Signalled
<1>2. PICK cause \in {"alone", "deadline", "gaveup", "disk"} :
        script' = [script EXCEPT ![k].phase = "stopping", ![k].since = now, ![k].cause = cause]
  BY DEF Stop
<1> DEFINE s == [script[k] EXCEPT !.phase = "stopping", !.since = now, !.cause = cause]
<1>3. s \in ScriptRec
  BY ScriptTypes, ClockTypes DEF Inv, ScriptRec, Phase
<1>4. script' = [script EXCEPT ![k] = s]
  BY <1>2, Types DEF Inv
<1>5. UNCHANGED <<now, stats, history>>
  BY DEF Stop
<1>6. loop' \in [Loops -> LoopRec]
  BY <1>1, StopSignals
<1> HIDE DEF s
<1> QED
  BY <1>1, <1>3, <1>4, <1>5, <1>6, AllLoops

LEMMA ReapInv ==
  ASSUME Inv, NEW k \in Script, NEW phase \in Phase, Reap(k, phase)
  PROVE  Inv'
<1>1. loop' = [l \in Loops |-> IF l[1] = k /\ Alive(l) THEN Leave(loop[l], "killed")
                               ELSE loop[l]]
  BY DEF Reap
<1>2. ASSUME NEW l \in Loops
      PROVE  /\ loop'[l] \in LoopRec /\ loop'[l].restarts = loop[l].restarts
             /\ loop'[l].at = "gaveup" <=> loop[l].at = "gaveup"
  <2>1. loop[l] \in LoopRec
    BY LoopTypes DEF Inv
  <2>2. Alive(l) => loop[l].at # "gaveup"
    BY DEF Alive, Process
  <2> QED
    BY <1>1, <2>1, <2>2, LeaveRec DEF At
<1>3. loop' \in [Loops -> LoopRec]
  BY <1>1, <1>2
<1> DEFINE s == [script[k] EXCEPT !.phase = phase]
<1>4. s \in ScriptRec
  BY ScriptTypes DEF Inv, ScriptRec
<1>5. script' = [script EXCEPT ![k] = s] /\ UNCHANGED <<now, stats, history>>
  BY Types DEF Inv, Reap
<1> HIDE DEF s
<1> QED
  BY <1>2, <1>3, <1>4, <1>5, AllLoops

LEMMA KilledInv ==
  ASSUME Inv, NEW k \in Script, Killed(k)
  PROVE  Inv'
<1> DEFINE s == [script[k] EXCEPT !.phase = "killed"]
<1>1. s \in ScriptRec
  BY ScriptTypes DEF Inv, ScriptRec, Phase
<1>2. script' = [script EXCEPT ![k] = s] /\ UNCHANGED <<now, loop, stats, history>>
  BY Types DEF Inv, Killed
<1>3. loop \in [Loops -> LoopRec]
  BY Types DEF Inv
<1> HIDE DEF s
<1> QED
  BY <1>1, <1>2, <1>3, AllLoops

LEMMA TickInv ==
  ASSUME Inv, Tick
  PROVE  Inv'
<1>1. now' \in 0 .. MaxTime /\ UNCHANGED <<script, loop, stats, history>>
  BY Types DEF Inv, Tick
<1>2. TypeOK'
  BY <1>1 DEF Inv, TypeOK, history
<1>3. Counters'
  BY <1>1 DEF Inv, Counters, history
<1> QED
  BY <1>2, <1>3 DEF Inv

\* What the two ways in which a script kills its loops have in common.
LEMMA ReapingSteps ==
  ASSUME NEW k \in Script, Finish(k) \/ Interrupted(k)
  PROVE  \E phase \in {"over", "reaped"} : Reap(k, phase)
BY DEF Finish, Interrupted

\* The invariant holds at the start and is kept by every step.
LEMMA InitInv == Init => Inv
<1> SUFFICES ASSUME Init
             PROVE  Inv
  OBVIOUS
<1>1. [phase |-> "idle", begun |-> 0, since |-> 0, cause |-> "none"] \in ScriptRec
  BY DEF ScriptRec, Phase
<1>2. Idle \in LoopRec /\ Idle.at = "none" /\ Idle.restarts = 0
  BY DEF Idle, LoopRec, At
<1>3. TypeOK
  <2>1. script \in [Script -> ScriptRec] /\ loop \in [Loops -> LoopRec]
    BY <1>1, <1>2 DEF Init
  <2>2. /\ now \in 0 .. MaxTime /\ stats \in [Shard -> Reason \cup {NoReason}]
        /\ dir \in [Shard -> [crashes : Nat, aside : Nat \cup {-1}]]
        /\ shorts \in [Loops -> Nat] /\ ended \in [Loops -> Reason \cup {"crash", NoReason}]
    BY DEF Init
  <2> QED
    BY <2>1, <2>2, Types
<1>4. Counters
  BY <1>2 DEF Init, Counters, Counted
<1> QED
  BY <1>3, <1>4 DEF Inv

LEMMA NextInv == Inv /\ [Next]_vars => Inv'
<1> SUFFICES ASSUME Inv, [Next]_vars
             PROVE  Inv'
  OBVIOUS
<1>1. ASSUME NEW l \in Loops, Exit(l) \/ Wake(l) \/ Deadline(l) \/ Crash(l) \/ CloseSelf(l)
      PROVE  Inv'
  BY <1>1, ExitInv, WakeInv, DeadlineInv, CrashInv, CloseSelfInv
<1>2. ASSUME NEW k \in Script, Stop(k) \/ Start(k) \/ Killed(k)
      PROVE  Inv'
  BY <1>2, StopInv, StartInv, KilledInv
<1>3. ASSUME NEW k \in Script, Finish(k) \/ Interrupted(k)
      PROVE  Inv'
  BY <1>3, ReapingSteps, ReapInv DEF Phase
<1>4. CASE UNCHANGED vars
  BY <1>4 DEF vars, history, Inv, TypeOK, Counters
<1> QED
  BY <1>1, <1>2, <1>3, <1>4, TickInv DEF Next, Progress

LEMMA SpecInv == Spec => []Inv
BY InitInv, NextInv, PTL DEF Spec

\* Every reachable state is well typed: no loop counts more restarts than it
\* has, nor a third fast crash (run_hour.sh:216-219, 294-325).
THEOREM TypeCorrect == Spec => []TypeOK
<1>1. Inv => TypeOK
  BY DEF Inv
<1> QED
  BY <1>1, SpecInv, PTL

\* A loop that gives up is in a crash loop: the rounds that used up its
\* restarts, but for the first, were short (run_hour.sh:240-244).
THEOREM CrashLoopOnly == Spec => []GaveUpOnlyInCrashLoop
<1>1. Inv => GaveUpOnlyInCrashLoop
  <2> SUFFICES ASSUME Inv, NEW l \in Loops, loop[l].at = "gaveup"
               PROVE  shorts[l] >= MaxRestarts - 1
    BY DEF GaveUpOnlyInCrashLoop
  <2>1. Counted(loop[l], shorts[l]) /\ shorts[l] \in Nat
    BY LoopTypes DEF Inv, Counters
  <2> QED
    BY <2>1 DEF Counted
<1> QED
  BY <1>1, SpecInv, PTL

-------------------------------------------------------------------------------
(* What a script stops. *)

\* A change to one loop keeps Timely if it is so afterwards.
LEMMA OneLoopTimely ==
  ASSUME Inv, Timely, NEW l \in Loops, NEW rec, loop' = [loop EXCEPT ![l] = rec],
         script[l[1]].phase = "sampling" => TimelyRec(rec, script[l[1]].begun),
         UNCHANGED <<now, script>>
  PROVE  Timely'
<1>1. loop \in [Loops -> LoopRec]
  BY Types DEF Inv
<1>2. loop'[l] = rec /\ \A m \in Loops : m # l => loop'[m] = loop[m]
  BY <1>1
<1> QED
  BY <1>2 DEF Timely, TimelyRec

\* A loop that has just been left, retried or crashed is neither running nor
\* closing.
LEMMA RoundEndsTimely ==
  ASSUME Inv, Timely, NEW l \in Loops, Exit(l) \/ Crash(l)
  PROVE  Timely'
<1>1. Budget(l) \in LoopRec /\ Budget(l).restarts # MaxRestarts
  BY BudgetRec, RestartsLeft DEF Inv, Exit, Crash, Process
<1>2. UNCHANGED <<now, script>>
  BY DEF Exit, Crash, RoundEnds
<1>3. /\ Retry(Budget(l)) \in LoopRec
      /\ Retry(Budget(l)).at \in {"gaveup", "pausing"}
  BY <1>1, RetryRec DEF Inv
<1>4. Leave(Budget(l), "returned").at = "returned"
  BY <1>1, LeaveRec DEF At
<1>5. ASSUME NEW short \in BOOLEAN
      PROVE  CountFast(Retry(Budget(l)), short).at \in {"gaveup", "pausing"}
  BY <1>3, CountFastRec
<1>6. CASE Exit(l)
  <2>1. \/ loop' = [loop EXCEPT ![l] = Retry(Budget(l))]
        \/ loop' = [loop EXCEPT ![l] = Leave(Budget(l), "returned")]
    BY <1>6 DEF Exit
  <2> QED
    BY <1>2, <1>3, <1>4, <2>1, OneLoopTimely DEF TimelyRec
<1>7. CASE Crash(l)
  <2> DEFINE short == now - loop[l].since < FastCrash
  <2>1. loop' = [loop EXCEPT ![l] = CountFast(Retry(Budget(l)), short)]
    BY <1>7 DEF Crash
  <2>2. short \in BOOLEAN
    OBVIOUS
  <2> HIDE DEF short
  <2> QED
    BY <1>2, <1>5, <2>1, <2>2, OneLoopTimely DEF TimelyRec
<1> QED
  BY <1>6, <1>7

LEMMA WakeTimely ==
  ASSUME Inv, Timely, NEW l \in Loops, Wake(l)
  PROVE  Timely'
<1>1. l[1] \in Script /\ loop[l] \in LoopRec /\ now \in Nat
  BY LoopTypes, ClockTypes DEF Inv, Loops
<1>2. script[l[1]].begun \in Nat
  BY <1>1, ScriptTypes DEF Inv
<1> DEFINE t == TopOfLoop(loop[l], l[1])
<1>3. /\ t.at \in {"running", "returned"}
      /\ t.at = "running" => now < script[l[1]].begun + Duration
  BY <1>1, TopOfLoopRec DEF Inv
<1>4. loop' = [loop EXCEPT ![l] = t] /\ UNCHANGED <<now, script>>
  BY DEF Wake
<1> HIDE DEF t
<1>5. TimelyRec(t, script[l[1]].begun)
  BY <1>1, <1>2, <1>3 DEF TimelyRec
<1> QED
  BY <1>4, <1>5, OneLoopTimely

LEMMA CloseTimely ==
  ASSUME Inv, Timely, NEW l \in Loops, CloseSelf(l) \/ Deadline(l)
  PROVE  Timely'
<1>1. l[1] \in Script /\ loop[l] \in LoopRec /\ now \in Nat
  BY LoopTypes, ClockTypes DEF Inv, Loops
<1>2. script[l[1]].begun \in Nat /\ loop \in [Loops -> LoopRec]
  BY <1>1, ScriptTypes, Types DEF Inv
<1>3. script[l[1]].phase = "sampling" => now <= script[l[1]].begun + Duration
  BY DEF CloseSelf, Deadline, Timely, TimelyRec
<1>4. UNCHANGED <<now, script>>
  BY DEF CloseSelf, Deadline
<1>5. PICK rec : /\ loop' = [loop EXCEPT ![l] = rec]
                 /\ \/ rec.at = "closing" /\ rec.why # "shutdown"
                    \/ rec.at = "stuck"
  <2>1. ASSUME NEW why \in {"memusage_exceeded", "finished", "run_duration"}, BeginClose(l, why)
        PROVE  \E rec : /\ loop' = [loop EXCEPT ![l] = rec]
                        /\ rec.at = "closing" /\ rec.why # "shutdown"
    <3> DEFINE rec == [loop[l] EXCEPT !.at = "closing", !.why = why]
    <3>1. loop' = [loop EXCEPT ![l] = rec]
      BY <1>2, <2>1 DEF BeginClose
    <3>2. rec.at = "closing" /\ rec.why # "shutdown"
      BY <1>1 DEF LoopRec
    <3> HIDE DEF rec
    <3> QED
      BY <3>1, <3>2
  <2>2. ASSUME loop' = [loop EXCEPT ![l].at = "stuck"]
        PROVE  \E rec : loop' = [loop EXCEPT ![l] = rec] /\ rec.at = "stuck"
    <3> DEFINE rec == [loop[l] EXCEPT !.at = "stuck"]
    <3>1. loop' = [loop EXCEPT ![l] = rec]
      BY <1>2, <2>2
    <3>2. rec.at = "stuck"
      BY <1>1 DEF LoopRec
    <3> HIDE DEF rec
    <3> QED
      BY <3>1, <3>2
  <2> QED
    BY <2>1, <2>2 DEF CloseSelf, Deadline
<1>6. script[l[1]].phase = "sampling" => TimelyRec(rec, script[l[1]].begun)
  BY <1>1, <1>2, <1>3, <1>5 DEF TimelyRec
<1> QED
  BY <1>4, <1>5, <1>6, OneLoopTimely

\* A script that has left its sampling is not asked, and the others are as
\* they were.
LEMMA ScriptTimely ==
  ASSUME Inv, Timely, NEW k \in Script, script'[k].phase # "sampling",
         \A j \in Script : j # k => script'[j] = script[j],
         \A l \in Loops : l[1] # k => loop'[l] = loop[l],
         UNCHANGED now
  PROVE  Timely'
<1>1. ASSUME NEW l \in Loops, script'[l[1]].phase = "sampling"
      PROVE  loop'[l] = loop[l] /\ script'[l[1]] = script[l[1]]
  BY <1>1 DEF Loops
<1> QED
  BY <1>1 DEF Timely, TimelyRec

LEMMA StepsOfScriptTimely ==
  ASSUME Inv, Timely, NEW k \in Script, Stop(k) \/ Finish(k) \/ Interrupted(k) \/ Killed(k)
  PROVE  Timely'
<1>1. script \in [Script -> ScriptRec]
  BY Types DEF Inv
<1>2. CASE Stop(k)
  <2>1. PICK cause \in {"alone", "deadline", "gaveup", "disk"} :
          script' = [script EXCEPT ![k].phase = "stopping", ![k].since = now, ![k].cause = cause]
    BY <1>2 DEF Stop
  <2>2. script'[k].phase = "stopping" /\ \A j \in Script : j # k => script'[j] = script[j]
    BY <1>1, <2>1 DEF ScriptRec
  <2>3. \A l \in Loops : l[1] # k => loop'[l] = loop[l]
    BY <1>2, StopSignals
  <2>4. UNCHANGED now
    BY <1>2 DEF Stop
  <2> QED
    BY <2>2, <2>3, <2>4, ScriptTimely
<1>3. CASE Finish(k) \/ Interrupted(k)
  <2>1. PICK phase \in {"over", "reaped"} : Reap(k, phase)
    BY <1>3, ReapingSteps
  <2>2. script'[k].phase = phase /\ \A j \in Script : j # k => script'[j] = script[j]
    BY <1>1, <2>1 DEF ScriptRec, Reap
  <2>3. (\A l \in Loops : l[1] # k => loop'[l] = loop[l]) /\ UNCHANGED now
    BY <2>1 DEF Reap
  <2> QED
    BY <2>2, <2>3, ScriptTimely
<1>4. CASE Killed(k)
  <2>1. script'[k].phase = "killed" /\ \A j \in Script : j # k => script'[j] = script[j]
    BY <1>1, <1>4 DEF ScriptRec, Killed
  <2>2. UNCHANGED <<now, loop>>
    BY <1>4 DEF Killed
  <2> QED
    BY <2>1, <2>2, ScriptTimely
<1> QED
  BY <1>2, <1>3, <1>4

LEMMA StartTimely ==
  ASSUME Inv, Timely, NEW k \in Script, Start(k)
  PROVE  Timely'
<1>1. script \in [Script -> ScriptRec] /\ now \in Nat
  BY Types, ClockTypes DEF Inv
<1>2. script'[k].begun = now /\ \A j \in Script : j # k => script'[j] = script[j]
  BY <1>1 DEF Start
<1>3. ASSUME NEW l \in Loops, l[1] = k
      PROVE  loop'[l].at = "running"
  BY <1>3 DEF Start, Idle
<1>4. \A l \in Loops : l[1] # k => loop'[l] = loop[l]
  BY DEF Start
<1>5. UNCHANGED now
  BY DEF Start
<1> SUFFICES ASSUME NEW l \in Loops, script'[l[1]].phase = "sampling"
             PROVE  TimelyRec(loop[l], script[l[1]].begun)'
  BY DEF Timely
<1>6. CASE l[1] = k
  BY <1>1, <1>2, <1>3, <1>5, <1>6 DEF TimelyRec
<1>7. CASE l[1] # k
  <2>1. loop'[l] = loop[l] /\ script'[l[1]] = script[l[1]]
    BY <1>2, <1>4, <1>7 DEF Loops
  <2> QED
    BY <1>5, <2>1 DEF Timely, TimelyRec
<1> QED
  BY <1>6, <1>7

LEMMA TickTimely ==
  ASSUME Inv, Timely, Tick
  PROVE  Timely'
<1> SUFFICES ASSUME NEW l \in Loops, script'[l[1]].phase = "sampling"
             PROVE  TimelyRec(loop[l], script[l[1]].begun)'
  BY DEF Timely
<1>1. l[1] \in Script /\ now \in Nat
  BY ClockTypes DEF Inv, Loops
<1>2. script[l[1]].begun \in Nat
  BY <1>1, ScriptTypes DEF Inv
<1>3. now' = now + 1 /\ UNCHANGED <<script, loop>>
  BY DEF Tick
<1>4. TimelyRec(loop[l], script[l[1]].begun)
  BY <1>3 DEF Timely
<1>5. /\ loop[l].at = "running" => now < script[l[1]].begun + Duration
      /\ loop[l].at = "closing" =>
           now < script[l[1]].begun + Duration + Drain \/ loop[l].why = "shutdown"
  BY DEF Tick, CrawlDeadline
<1> QED
  BY <1>1, <1>2, <1>3, <1>4, <1>5 DEF TimelyRec

LEMMA NextTimely == Inv /\ Timely /\ [Next]_vars => Timely'
<1> SUFFICES ASSUME Inv, Timely, [Next]_vars
             PROVE  Timely'
  OBVIOUS
<1>1. ASSUME NEW l \in Loops, Exit(l) \/ Wake(l) \/ Deadline(l) \/ Crash(l) \/ CloseSelf(l)
      PROVE  Timely'
  BY <1>1, RoundEndsTimely, WakeTimely, CloseTimely
<1>2. ASSUME NEW k \in Script, Stop(k) \/ Finish(k) \/ Interrupted(k) \/ Killed(k)
      PROVE  Timely'
  BY <1>2, StepsOfScriptTimely
<1>3. ASSUME NEW k \in Script, Start(k)
      PROVE  Timely'
  BY <1>3, StartTimely
<1>4. CASE UNCHANGED vars
  BY <1>4 DEF vars, Timely, TimelyRec
<1> QED
  BY <1>1, <1>2, <1>3, <1>4, TickTimely DEF Next, Progress

LEMMA SpecTimely == Spec => []Timely
<1>1. Init => Timely
  BY DEF Init, Timely, Loops
<1> QED
  BY <1>1, InitInv, NextInv, NextTimely, PTL DEF Spec

\* The one action that begins to stop a script, and what its cause says of a
\* loop that is at work.
LEMMA StopIsForDisk ==
  ASSUME Inv, Timely, NEW k \in Script, NEW l \in LoopsOf(k), Stop(k),
         \/ loop[l].at \in {"running", "closing"}
         \/ loop[l].at = "pausing" /\ now < CrawlDeadline(l)
  PROVE  script'[k].cause = "disk"
<1>1. PICK cause \in {"alone", "deadline", "gaveup", "disk"} :
        /\ cause = "alone" => \A m \in LoopsOf(k) : ~ Alive(m)
        /\ cause = "deadline" => now - script[k].begun >= Duration + Grace
        /\ cause = "gaveup" => AllGaveUp(k)
        /\ script' = [script EXCEPT ![k].phase = "stopping", ![k].since = now, ![k].cause = cause]
  BY DEF Stop
<1>2. script \in [Script -> ScriptRec] /\ script[k].begun \in Nat /\ now \in Nat
  BY Types, ScriptTypes, ClockTypes DEF Inv
<1>3. script'[k].cause = cause
  BY <1>1, <1>2 DEF ScriptRec
<1>4. l \in Loops /\ l[1] = k /\ script[k].phase = "sampling"
  BY DEF LoopsOf, Loops, Stop
<1>5. TimelyRec(loop[l], script[k].begun)
  BY <1>4 DEF Timely
<1>6. now < script[k].begun + Duration + Grace
  BY <1>2, <1>4, <1>5 DEF TimelyRec, CrawlDeadline
<1>7. Alive(l) /\ loop[l].at # "gaveup"
  BY DEF Alive, Process
<1>8. cause # "alone" /\ cause # "gaveup"
  BY <1>1, <1>7 DEF AllGaveUp
<1>9. cause # "deadline"
  BY <1>1, <1>2, <1>6
<1> QED
  BY <1>3, <1>8, <1>9

\* No other step leaves the sampling for the wait after SIGTERM.
LEMMA OnlyStopStops ==
  ASSUME Inv, [Next]_vars, NEW k \in Script,
         script[k].phase = "sampling", script'[k].phase = "stopping"
  PROVE  Stop(k)
<1>1. script \in [Script -> ScriptRec]
  BY Types DEF Inv
<1>2. ASSUME UNCHANGED script
      PROVE  FALSE
  BY <1>2
<1>3. ASSUME NEW l \in Loops, Exit(l) \/ Wake(l) \/ Deadline(l) \/ Crash(l) \/ CloseSelf(l)
      PROVE  FALSE
  BY <1>2, <1>3 DEF Exit, Wake, Deadline, Crash, CloseSelf, RoundEnds
<1>4. ASSUME NEW j \in Script, Start(j) \/ Finish(j) \/ Interrupted(j) \/ Killed(j)
      PROVE  FALSE
  <2>1. PICK s : script' = [script EXCEPT ![j] = s] /\ s.phase # "stopping"
    <3>1. CASE Start(j)
      <4> DEFINE s == [phase |-> "sampling", begun |-> now, since |-> now, cause |-> "none"]
      <4>1. script' = [script EXCEPT ![j] = s] /\ s.phase # "stopping"
        BY <3>1 DEF Start
      <4> HIDE DEF s
      <4> QED
        BY <4>1
    <3>2. ASSUME NEW phase \in {"over", "reaped", "killed"},
                 script' = [script EXCEPT ![j].phase = phase]
          PROVE  \E s : script' = [script EXCEPT ![j] = s] /\ s.phase # "stopping"
      <4> DEFINE s == [script[j] EXCEPT !.phase = phase]
      <4>1. script' = [script EXCEPT ![j] = s] /\ s.phase # "stopping"
        BY <1>1, <3>2 DEF ScriptRec
      <4> HIDE DEF s
      <4> QED
        BY <4>1
    <3> QED
      BY <1>4, <3>1, <3>2 DEF Finish, Interrupted, Reap, Killed
  <2> QED
    BY <1>1, <2>1
<1>5. ASSUME NEW j \in Script, Stop(j)
      PROVE  Stop(k)
  <2>1. j # k => script'[k] = script[k]
    BY <1>1, <1>5 DEF Stop
  <2> QED
    BY <1>5, <2>1
<1>6. Tick => UNCHANGED script
  BY DEF Tick
<1> QED
  BY <1>2, <1>3, <1>4, <1>5, <1>6 DEF Next, Progress, vars

\* Neither another shard's giving up nor the sampler's own deadline reaches a
\* loop that can go on or stop by itself (run_hour.sh:419-434).
THEOREM HealthyKept == Spec => HealthyShardKept
<1>1. Inv /\ Timely /\ [Next]_vars =>
        [\A k \in Script :
           /\ script[k].phase = "sampling"
           /\ script'[k].phase = "stopping"
           /\ \E l \in LoopsOf(k) :
                \/ loop[l].at \in {"running", "closing"}
                \/ loop[l].at = "pausing" /\ now < CrawlDeadline(l)
           => script'[k].cause = "disk"]_vars
  BY OnlyStopStops, StopIsForDisk
<1> QED
  BY <1>1, SpecInv, SpecTimely, PTL DEF Spec, HealthyShardKept

-------------------------------------------------------------------------------
(* A script that is alone. *)

\* One loop has the file and the directory of a shard.
LEMMA LoopOfShard ==
  ASSUME Script = {1}, NEW l \in Loops, NEW m \in Loops, l[2] = m[2]
  PROVE  l = m
BY DEF Loops

\* Whatever ends, kills or starts no loop keeps OwnDump.
LEMMA QuietDump ==
  ASSUME OwnDump, UNCHANGED <<stats, ended>>,
         \A l \in Loops : /\ Alive(l)' => Alive(l)
                          /\ loop'[l].at = "pausing" => loop[l].at = "pausing"
  PROVE  OwnDump'
BY DEF OwnDump

LEMMA RoundEndsDump ==
  ASSUME Script = {1}, Inv, OwnDump, NEW l \in Loops, Exit(l) \/ Crash(l)
  PROVE  OwnDump'
<1>1. Process(l) /\ Alive(l) /\ l[2] \in Shard
  BY DEF Exit, Crash, Process, Alive, Loops
<1>2. /\ loop \in [Loops -> LoopRec] /\ stats \in [Shard -> Reason \cup {NoReason}]
      /\ ended \in [Loops -> Reason \cup {"crash", NoReason}]
  BY Types DEF Inv
<1>3. stats[l[2]] # "memusage_exceeded"
  BY <1>1 DEF OwnDump
<1>4. Budget(l) \in LoopRec /\ Budget(l).restarts # MaxRestarts
  BY <1>1, BudgetRec, RestartsLeft DEF Inv, Process
<1>5. /\ Retry(Budget(l)) \in LoopRec
      /\ Retry(Budget(l)).at \in {"gaveup", "pausing"}
  BY <1>4, RetryRec DEF Inv
<1>6. PICK rec, how, st :
        /\ loop' = [loop EXCEPT ![l] = rec]
        /\ ended' = [ended EXCEPT ![l] = how]
        /\ stats' = [stats EXCEPT ![l[2]] = st]
        /\ \/ rec.at \in {"gaveup", "returned"}
           \/ /\ rec.at = "pausing" /\ st = NoReason
              /\ how \in {"crash", "memusage_exceeded"}
  <2>1. CASE Exit(l)
    <3>1. PICK dump \in Dump(l) :
            IF dump = "memusage_exceeded"
            THEN LET rec == Retry(Budget(l)) IN
                 /\ loop' = [loop EXCEPT ![l] = rec]
                 /\ stats' = [stats EXCEPT ![l[2]] = KeepStats(rec, dump)]
            ELSE /\ loop' = [loop EXCEPT ![l] = Leave(Budget(l), "returned")]
                 /\ stats' = [stats EXCEPT ![l[2]] = dump]
      BY <2>1 DEF Exit
    <3>2. ended' = [ended EXCEPT ![l] = loop[l].why]
      BY <2>1 DEF Exit, RoundEnds
    <3>3. CASE dump = "memusage_exceeded"
      <4>1. loop[l].why = "memusage_exceeded"
        BY <1>3, <3>3 DEF Dump, NoReason
      <4>2. /\ loop' = [loop EXCEPT ![l] = Retry(Budget(l))]
            /\ stats' = [stats EXCEPT ![l[2]] = KeepStats(Retry(Budget(l)), dump)]
        BY <3>1, <3>3
      <4> QED
        BY <1>5, <3>2, <4>1, <4>2 DEF KeepStats
    <3>4. CASE dump # "memusage_exceeded"
      <4>1. Leave(Budget(l), "returned").at = "returned"
        BY <1>4, LeaveRec DEF At
      <4>2. /\ loop' = [loop EXCEPT ![l] = Leave(Budget(l), "returned")]
            /\ stats' = [stats EXCEPT ![l[2]] = dump]
        BY <3>1, <3>4
      <4> QED
        BY <3>2, <4>1, <4>2
    <3> QED
      BY <3>3, <3>4
  <2>2. CASE Crash(l)
    <3> DEFINE short == now - loop[l].since < FastCrash
               rec == CountFast(Retry(Budget(l)), short)
               st == KeepStats(Retry(Budget(l)), stats[l[2]])
    <3>1. short \in BOOLEAN
      OBVIOUS
    <3>2. /\ loop' = [loop EXCEPT ![l] = rec]
          /\ ended' = [ended EXCEPT ![l] = "crash"]
          /\ stats' = [stats EXCEPT ![l[2]] = st]
      BY <2>2 DEF Crash, RoundEnds
    <3> HIDE DEF short
    <3>3. rec.at = Retry(Budget(l)).at
      BY <1>5, <3>1, CountFastRec
    <3>4. rec.at = "gaveup" \/ (rec.at = "pausing" /\ st = NoReason)
      BY <1>5, <3>3 DEF KeepStats
    <3> HIDE DEF rec, st
    <3> QED
      BY <3>2, <3>4
  <2> QED
    BY <2>1, <2>2
<1> SUFFICES ASSUME NEW m \in Loops
             PROVE  /\ Alive(m)' => stats'[m[2]] # "memusage_exceeded"
                    /\ loop'[m].at = "pausing" => ended'[m] \in {"crash", "memusage_exceeded"}
  BY DEF OwnDump
<1>7. CASE m = l
  <2>1. loop'[m] = rec /\ ended'[m] = how /\ stats'[m[2]] = st
    BY <1>1, <1>2, <1>6, <1>7
  <2> QED
    BY <1>6, <2>1 DEF Alive, Process, NoReason
<1>8. CASE m # l
  <2>1. m[2] # l[2] /\ m[2] \in Shard
    BY <1>8, LoopOfShard DEF Loops
  <2>2. loop'[m] = loop[m] /\ ended'[m] = ended[m] /\ stats'[m[2]] = stats[m[2]]
    BY <1>2, <1>6, <1>8, <2>1
  <2> QED
    BY <2>2 DEF OwnDump, Alive, Process
<1> QED
  BY <1>7, <1>8

\* Start(1) clears the dumps and begins on fresh directories: only a later
\* script may resume.
LEMMA FreshStart ==
  ASSUME Script = {1}, Inv, Start(1)
  PROVE  /\ \A l \in Loops : loop'[l].at = "running" /\ loop'[l].fast = 0
         /\ stats' = [i \in Shard |-> NoReason]
         /\ dir' = [i \in Shard |-> [dir[i] EXCEPT !.crashes = 0]]
<1>1. \A l \in Loops : l[1] = 1
  BY DEF Loops
<1>2. ~ (1 > 1)
  OBVIOUS
<1>3. loop' = [l \in Loops |-> [Idle EXCEPT !.at = "running", !.since = now]]
  BY <1>1 DEF Start
<1>4. Idle \in LoopRec /\ Idle.fast = 0
  BY DEF Idle, LoopRec, At
<1>5. [Idle EXCEPT !.at = "running", !.since = now].at = "running"
      /\ [Idle EXCEPT !.at = "running", !.since = now].fast = 0
  BY <1>4 DEF LoopRec
<1> QED
  BY <1>2, <1>3, <1>5 DEF Start

\* What the other steps of a loop and of its script make of the loops.
LEMMA OtherSteps ==
  ASSUME Inv, NEW l \in Loops, NEW k \in Script,
         \/ Wake(l) \/ CloseSelf(l) \/ Deadline(l)
         \/ Stop(k) \/ Finish(k) \/ Interrupted(k) \/ Killed(k)
  PROVE  /\ UNCHANGED <<stats, dir, shorts, ended>>
         /\ \A m \in Loops : /\ Alive(m)' => Alive(m)
                             /\ loop'[m].at = "pausing" => loop[m].at = "pausing"
                             /\ loop'[m].fast = loop[m].fast
<1>1. loop \in [Loops -> LoopRec]
  BY Types DEF Inv
<1>2. CASE Wake(l)
  <2>1. l[1] \in Script /\ loop[l] \in LoopRec
    BY <1>1 DEF Loops
  <2>2. /\ TopOfLoop(loop[l], l[1]).at \in {"running", "returned"}
        /\ TopOfLoop(loop[l], l[1]).fast = loop[l].fast
    BY <2>1, TopOfLoopRec DEF Inv
  <2>3. loop' = [loop EXCEPT ![l] = TopOfLoop(loop[l], l[1])]
    BY <1>2 DEF Wake
  <2>4. Alive(l)
    BY <1>2 DEF Wake, Alive
  <2> QED
    BY <1>1, <1>2, <2>2, <2>3, <2>4 DEF Wake, history, Alive, Process
<1>3. ASSUME NEW why, BeginClose(l, why), Process(l)
      PROVE  \A m \in Loops : /\ Alive(m)' => Alive(m)
                              /\ loop'[m].at = "pausing" => loop[m].at = "pausing"
                              /\ loop'[m].fast = loop[m].fast
  BY <1>1, <1>3 DEF BeginClose, Alive, Process, LoopRec
<1>4. CASE CloseSelf(l)
  BY <1>3, <1>4 DEF CloseSelf, Process, history
<1>5. CASE Deadline(l)
  <2>1. ASSUME loop' = [loop EXCEPT ![l].at = "stuck"], Process(l)
        PROVE  \A m \in Loops : /\ Alive(m)' => Alive(m)
                                /\ loop'[m].at = "pausing" => loop[m].at = "pausing"
                                /\ loop'[m].fast = loop[m].fast
    BY <1>1, <2>1 DEF Alive, Process, LoopRec
  <2> QED
    BY <1>3, <1>5, <2>1 DEF Deadline, Process, history
<1>6. CASE Stop(k)
  <2> SUFFICES ASSUME NEW m \in Loops
               PROVE  /\ Alive(m)' => Alive(m)
                      /\ loop'[m].at = "pausing" => loop[m].at = "pausing"
                      /\ loop'[m].fast = loop[m].fast
    BY <1>6 DEF Stop, history
  <2>1. loop[m] \in LoopRec /\ Signalled(loop[m], loop'[m])
    BY <1>1, <1>6, StopSignals
  <2>2. CASE loop'[m] = loop[m]
    BY <2>2 DEF Alive, Process
  <2>3. CASE /\ loop[m].at \in {"running", "stuck"}
             /\ loop'[m] = [loop[m] EXCEPT !.at = "closing", !.why = "shutdown"]
    <3>1. loop'[m].at = "closing" /\ loop'[m].fast = loop[m].fast
      BY <2>1, <2>3 DEF LoopRec
    <3> QED
      BY <2>3, <3>1 DEF Alive, Process
  <2>4. CASE loop[m].at = "pausing" /\ loop'[m] = Leave(loop[m], "killed")
    <3>1. loop'[m].at = "killed" /\ loop'[m].fast = loop[m].fast
      BY <2>1, <2>4, LeaveRec DEF At
    <3> QED
      BY <2>4, <3>1 DEF Alive, Process
  <2> QED
    BY <2>1, <2>2, <2>3, <2>4 DEF Signalled
<1>7. CASE Finish(k) \/ Interrupted(k)
  <2>1. PICK phase \in {"over", "reaped"} : Reap(k, phase)
    BY <1>7, ReapingSteps
  <2>2. ASSUME NEW m \in Loops
        PROVE  loop'[m] = loop[m] \/ loop'[m] = Leave(loop[m], "killed")
    BY <2>1 DEF Reap
  <2>3. ASSUME NEW m \in Loops
        PROVE  Leave(loop[m], "killed").at = "killed" /\ Leave(loop[m], "killed").fast = loop[m].fast
    BY <1>1, LeaveRec DEF At
  <2>4. UNCHANGED <<stats, dir, shorts, ended>>
    BY <2>1 DEF Reap, history
  <2> QED
    BY <2>2, <2>3, <2>4 DEF Alive, Process
<1>8. CASE Killed(k)
  BY <1>8 DEF Killed, history, Alive, Process
<1> QED
  BY <1>2, <1>4, <1>5, <1>6, <1>7, <1>8

LEMMA NextOwnDump ==
  ASSUME Script = {1}, Inv, OwnDump, [Next]_vars
  PROVE  OwnDump'
<1>1. ASSUME NEW l \in Loops, Exit(l) \/ Crash(l)
      PROVE  OwnDump'
  BY <1>1, RoundEndsDump
<1>2. ASSUME NEW l \in Loops, Wake(l) \/ CloseSelf(l) \/ Deadline(l)
      PROVE  OwnDump'
  <2>1. 1 \in Script
    OBVIOUS
  <2> QED
    BY <1>2, <2>1, OtherSteps, QuietDump
<1>3. ASSUME NEW k \in Script, Stop(k) \/ Finish(k) \/ Interrupted(k) \/ Killed(k)
      PROVE  OwnDump'
  <2>1. CASE Loops = {}
    BY <2>1 DEF OwnDump
  <2>2. CASE Loops # {}
    BY <1>3, <2>2, OtherSteps, QuietDump
  <2> QED
    BY <2>1, <2>2
<1>4. CASE Start(1)
  <2>1. ASSUME NEW l \in Loops
        PROVE  stats'[l[2]] = NoReason /\ loop'[l].at = "running"
    BY <1>4, FreshStart DEF Loops
  <2> QED
    BY <2>1 DEF OwnDump, NoReason
<1>5. CASE Tick \/ UNCHANGED vars
  BY <1>5 DEF Tick, vars, history, OwnDump, Alive, Process
<1> QED
  BY <1>1, <1>2, <1>3, <1>4, <1>5 DEF Next, Progress

\* A crawl of a script that has the shards' files to itself is followed by
\* another only if it crashed or closed for memory: no dump left by a failed
\* write of its own, or by an earlier round, says otherwise
\* (run_hour.sh:196-204, 260-268).
THEOREM FinishedStays == Script = {1} => (Spec => []FinishedStaysFinished)
<1> SUFFICES ASSUME Script = {1}
             PROVE  Spec => []FinishedStaysFinished
  OBVIOUS
<1>1. Init => OwnDump
  BY DEF Init, OwnDump, Alive, Process, Idle
<1>2. Inv /\ OwnDump /\ [Next]_vars => OwnDump'
  BY NextOwnDump
<1>3. OwnDump => FinishedStaysFinished
  BY DEF OwnDump, FinishedStaysFinished
<1> QED
  BY <1>1, <1>2, <1>3, SpecInv, PTL DEF Spec

\* A directory after a crash, as a bound on the loop's count.
LEMMA AfterCrashCount ==
  ASSUME NEW d \in [crashes : Nat, aside : Nat \cup {-1}],
         NEW rec \in LoopRec, NEW short \in BOOLEAN, rec.fast <= d.crashes
  PROVE  LET a == AfterCrash(d, rec, short) IN
         /\ CountFast(rec, short).fast <= a.crashes
         /\ a.aside = d.aside \/ a.aside >= 3
<1> DEFINE c == CountFast(rec, short)
<1>1. /\ c.fast = 0 \/ c.fast = rec.fast
         \/ (short /\ ~ Condemned(rec, short) /\ c.fast = rec.fast + 1)
      /\ Condemned(rec, short) => c.fast = 0
      /\ c.fast \in 0 .. 2 /\ rec.fast \in 0 .. 2
  BY CountFastRec DEF LoopRec
<1>2. d.crashes \in Nat /\ d.crashes + 1 \in Nat
  OBVIOUS
<1> HIDE DEF c
<1>3. CASE Condemned(rec, short)
  <2>1. AfterCrash(d, rec, short) = [crashes |-> 0, aside |-> d.crashes + 1]
    BY <1>3 DEF AfterCrash
  <2>2. rec.fast >= 2
    BY <1>1, <1>3 DEF Condemned
  <2> QED
    BY <1>1, <1>2, <1>3, <2>1, <2>2 DEF c
<1>4. CASE ~ Condemned(rec, short) /\ short
  <2>1. AfterCrash(d, rec, short) = [d EXCEPT !.crashes = Min({d.crashes + 1, 3})]
    BY <1>4 DEF AfterCrash
  <2>2. Min({d.crashes + 1, 3}) = IF d.crashes + 1 <= 3 THEN d.crashes + 1 ELSE 3
    BY <1>2, MinOfTwo
  <2>3. c.fast <= Min({d.crashes + 1, 3})
    BY <1>1, <1>2, <2>2
  <2> QED
    BY <2>1, <2>3 DEF c
<1>5. CASE ~ Condemned(rec, short) /\ ~ short
  BY <1>1, <1>2, <1>5 DEF AfterCrash, c
<1> QED
  BY <1>3, <1>4, <1>5

\* OwnCount, with what it is for.
CountInv == OwnCount /\ AsideTakesThree

LEMMA CrashCount ==
  ASSUME Script = {1}, Inv, CountInv, NEW l \in Loops, Crash(l)
  PROVE  CountInv'
<1> DEFINE short == now - loop[l].since < FastCrash
           retry == Retry(Budget(l))
<1>1. /\ loop \in [Loops -> LoopRec]
      /\ dir \in [Shard -> [crashes : Nat, aside : Nat \cup {-1}]]
      /\ l[2] \in Shard
  BY Types DEF Inv, Loops
<1>2. Budget(l) \in LoopRec /\ Budget(l).restarts # MaxRestarts
      /\ (Budget(l).fast = 0 \/ Budget(l).fast = loop[l].fast)
  BY BudgetRec, RestartsLeft DEF Inv, Crash, Process
<1>3. retry \in LoopRec /\ retry.fast = Budget(l).fast
  BY <1>2, RetryRec DEF Inv
<1>4. retry.fast <= dir[l[2]].crashes
  BY <1>1, <1>2, <1>3 DEF CountInv, OwnCount
<1>5. /\ loop' = [loop EXCEPT ![l] = CountFast(retry, short)]
      /\ dir' = [dir EXCEPT ![l[2]] = AfterCrash(dir[l[2]], retry, short)]
  BY DEF Crash
<1>6. short \in BOOLEAN
  OBVIOUS
<1> HIDE DEF short, retry
<1>7. /\ CountFast(retry, short).fast <= AfterCrash(dir[l[2]], retry, short).crashes
      /\ \/ AfterCrash(dir[l[2]], retry, short).aside = dir[l[2]].aside
         \/ AfterCrash(dir[l[2]], retry, short).aside >= 3
  BY <1>1, <1>3, <1>4, <1>6, AfterCrashCount
<1>8. AfterCrash(dir[l[2]], retry, short) \in [crashes : Nat, aside : Nat \cup {-1}]
  BY <1>1, AfterCrashType
<1>9. OwnCount'
  <2> SUFFICES ASSUME NEW m \in Loops
               PROVE  loop'[m].fast <= dir'[m[2]].crashes
    BY DEF OwnCount
  <2>1. CASE m = l
    BY <1>1, <1>5, <1>7, <2>1
  <2>2. CASE m # l
    <3>1. m[2] # l[2] /\ m[2] \in Shard
      BY <2>2, LoopOfShard DEF Loops
    <3>2. loop'[m] = loop[m] /\ dir'[m[2]] = dir[m[2]]
      BY <1>1, <1>5, <2>2, <3>1
    <3> QED
      BY <3>2 DEF CountInv, OwnCount
  <2> QED
    BY <2>1, <2>2
<1>10. AsideTakesThree'
  <2> SUFFICES ASSUME NEW i \in Shard
               PROVE  dir'[i].aside \in {-1} \cup {n \in Nat : n >= 3}
    BY DEF AsideTakesThree
  <2>1. dir[i].aside \in {-1} \cup {n \in Nat : n >= 3}
    BY DEF CountInv, AsideTakesThree
  <2>2. CASE i = l[2]
    <3>1. dir'[i] = AfterCrash(dir[i], retry, short)
      BY <1>1, <1>5, <2>2
    <3> QED
      BY <1>7, <1>8, <2>1, <2>2, <3>1
  <2>3. CASE i # l[2]
    BY <1>1, <1>5, <2>1, <2>3
  <2> QED
    BY <2>2, <2>3
<1> QED
  BY <1>9, <1>10 DEF CountInv

LEMMA NextCount ==
  ASSUME Script = {1}, Inv, CountInv, [Next]_vars
  PROVE  CountInv'
<1>1. /\ loop \in [Loops -> LoopRec]
      /\ dir \in [Shard -> [crashes : Nat, aside : Nat \cup {-1}]]
      /\ \A l \in Loops : l[2] \in Shard /\ loop[l].fast \in 0 .. 2
  BY Types, LoopTypes DEF Inv, Loops
<1>2. ASSUME UNCHANGED dir, \A l \in Loops : loop'[l].fast <= loop[l].fast /\ loop'[l].fast \in 0 .. 2
      PROVE  CountInv'
  BY <1>1, <1>2 DEF CountInv, OwnCount, AsideTakesThree
<1>3. Inv'
  BY NextInv
<1>4. \A l \in Loops : loop'[l].fast \in 0 .. 2
  <2>1. loop' \in [Loops -> LoopRec]
    BY <1>3 DEF Inv, TypeOK, LoopRec, At
  <2> QED
    BY <2>1 DEF LoopRec
<1>5. ASSUME NEW l \in Loops, Exit(l)
      PROVE  CountInv'
  <2>1. Budget(l) \in LoopRec /\ Budget(l).restarts # MaxRestarts
        /\ (Budget(l).fast = 0 \/ Budget(l).fast = loop[l].fast)
    BY <1>5, BudgetRec, RestartsLeft DEF Inv, Exit
  <2>2. /\ Retry(Budget(l)).fast = Budget(l).fast
        /\ Leave(Budget(l), "returned").fast = Budget(l).fast
    BY <2>1, RetryRec, LeaveRec DEF Inv, At
  <2>3. \/ loop' = [loop EXCEPT ![l] = Retry(Budget(l))]
        \/ loop' = [loop EXCEPT ![l] = Leave(Budget(l), "returned")]
    BY <1>5 DEF Exit
  <2>4. loop'[l].fast <= loop[l].fast /\ \A m \in Loops : m # l => loop'[m] = loop[m]
    BY <1>1, <2>1, <2>2, <2>3
  <2>5. \A m \in Loops : loop'[m].fast <= loop[m].fast
    BY <1>1, <2>4
  <2> QED
    BY <1>2, <1>4, <1>5, <2>5 DEF Exit
<1>6. ASSUME NEW l \in Loops, Wake(l) \/ CloseSelf(l) \/ Deadline(l)
      PROVE  CountInv'
  <2>1. 1 \in Script
    OBVIOUS
  <2>2. UNCHANGED dir /\ \A m \in Loops : loop'[m].fast = loop[m].fast
    BY <1>6, <2>1, OtherSteps
  <2> QED
    BY <1>1, <1>2, <2>2
<1>7. ASSUME NEW k \in Script, Stop(k) \/ Finish(k) \/ Interrupted(k) \/ Killed(k)
      PROVE  CountInv'
  <2>1. CASE Loops = {}
    <3>1. UNCHANGED dir
      BY <1>7, ReapingSteps DEF Stop, Reap, Killed, history
    <3> QED
      BY <1>2, <2>1, <3>1
  <2>2. CASE Loops # {}
    <3>1. UNCHANGED dir /\ \A m \in Loops : loop'[m].fast = loop[m].fast
      BY <1>7, <2>2, OtherSteps
    <3> QED
      BY <1>1, <1>2, <3>1
  <2> QED
    BY <2>1, <2>2
<1>8. CASE Start(1)
  <2>1. \A i \in Shard : dir'[i].crashes = 0 /\ dir'[i].aside = dir[i].aside
    BY <1>1, <1>8, FreshStart
  <2>2. \A l \in Loops : loop'[l].fast = 0
    BY <1>8, FreshStart
  <2> QED
    BY <1>1, <2>1, <2>2 DEF CountInv, OwnCount, AsideTakesThree
<1>9. CASE Tick \/ UNCHANGED vars
  BY <1>1, <1>2, <1>9 DEF Tick, vars, history
<1> QED
  BY <1>5, <1>6, <1>7, <1>8, <1>9, CrashCount DEF Next, Progress

\* A script that has the job directories to itself moves none aside before it
\* has seen three fast crashes itself (run_hour.sh:311-325).
THEOREM AsideTakesThreeCrashes == Script = {1} => (Spec => []AsideTakesThree)
<1> SUFFICES ASSUME Script = {1}
             PROVE  Spec => []AsideTakesThree
  OBVIOUS
<1>1. Init => CountInv
  <2> SUFFICES ASSUME Init
               PROVE  CountInv
    OBVIOUS
  <2>1. \A l \in Loops : loop[l].fast = 0
    BY DEF Init, Idle
  <2>2. \A i \in Shard : dir[i].crashes = 0 /\ dir[i].aside = -1
    BY DEF Init
  <2> QED
    BY <2>1, <2>2 DEF CountInv, OwnCount, AsideTakesThree, Loops
<1>2. Inv /\ CountInv /\ [Next]_vars => CountInv'
  BY NextCount
<1>3. CountInv => AsideTakesThree
  BY DEF CountInv
<1> QED
  BY <1>1, <1>2, <1>3, SpecInv, PTL DEF Spec
===============================================================================
