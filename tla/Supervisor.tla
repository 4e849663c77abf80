------------------------------ MODULE Supervisor ------------------------------
(***************************************************************************)
(* ops/run_hour.sh: a script starts one loop per shard in a subshell of    *)
(* its own; each loop runs a crawl, decides from its exit code and from    *)
(* the finish reason in stats-N.json whether to run another, and pauses    *)
(* before it does.  The script itself samples until no loop is left, its   *)
(* deadline has come, every loop has given up or the disk is low; then it  *)
(* sends SIGTERM, waits, and kills what is left.  A script that is itself  *)
(* killed leaves its loops behind.                                         *)
(*                                                                         *)
(* The crawl is seen from outside: it closes at RUN_DURATION, or before    *)
(* that for memory, for want of work or on a signal, or it crashes, or the *)
(* shutdown timer fails and it does not stop.                              *)
(***************************************************************************)
EXTENDS Integers, FiniteSetsExt

CONSTANTS
  Script,         \* invocations of run_hour.sh, in this order: 1 .. n
  Shard,          \* 0 .. SHARDS - 1
  Duration,       \* DURATION
  LeastRound,     \* a loop starts no round with so little time left (30 s)
  Drain,          \* how long a crawl may take to close after its deadline
  Pause,          \* RESTART_PAUSE
  Grace,          \* SHUTDOWN_GRACE and GRACE
  FastCrash,      \* a crash before this age is a fast one (120 s)
  BudgetReset,    \* RESTART_BUDGET_RESET_S
  MaxRestarts,    \* MAX_RESTARTS
  Steady,         \* bound: shards whose crawls neither crash nor close themselves
  MaxTime         \* bound: the clock

ASSUME SupervisorAssumption ==
  /\ Script = 1 .. Cardinality(Script)
  /\ Duration \in Nat /\ LeastRound \in Nat /\ LeastRound < Duration
  /\ Pause \in Nat \ {0} /\ Drain \in Nat /\ Grace \in Nat /\ Drain + Pause < Grace
  /\ FastCrash \in Nat /\ BudgetReset \in Nat /\ FastCrash <= BudgetReset
  /\ MaxRestarts \in Nat \ {0} /\ MaxTime \in Nat
  /\ Steady \subseteq Shard

VARIABLES
  now,
  script,     \* phase, time it began, and since when it is in its phase
  loop,       \* run_shard, per script and shard
  stats,      \* the finish reason in data/stats-N.json
  \* history
  dir,        \* the job directory as it is: the fast crashes on it, and how
              \* many its predecessor had seen when it was moved aside
  shorts,     \* rounds of a loop since its last long one
  ended       \* how its last round ended

history == <<dir, shorts, ended>>
vars == <<now, script, loop, stats, history>>

Loops == Script \X Shard
Reason == {"run_duration", "memusage_exceeded", "finished", "shutdown"}

\* Whether a crawl is running on the job directory.
Process(l) == loop[l].at \in {"running", "closing", "stuck"}
\* Whether the subshell is: any_alive asks for its pid.
Alive(l) == Process(l) \/ loop[l].at = "pausing"
LoopsOf(k) == {k} \X Shard

\* No finish reason: no dump, or one of a crawl that was still running.
NoReason == "none"

Idle == [at |-> "none", since |-> 0, why |-> NoReason, restarts |-> 0, fast |-> 0]

-------------------------------------------------------------------------------
(* The loop. *)

\* RUN_DURATION is what remains of the script's duration: when the timer of
\* the crawl in l fires.
CrawlDeadline(l) == script[l[1]].begun + Duration

\* The subshell ends.
Leave(rec, how) == [rec EXCEPT !.at = how, !.since = 0, !.why = NoReason]

\* The top of the loop: a round, unless too little time is left for one.
TopOfLoop(rec, k) ==
  IF Duration - (now - script[k].begun) <= LeastRound
  THEN Leave(rec, "returned")
  ELSE [rec EXCEPT !.at = "running", !.since = now, !.why = NoReason]

\* Fault: the restart count is never reset.
NeverReset(l) == loop[l]

\* The counters as they stand after a round that lasted long enough to show
\* that the shard is healthy.
Budget(l) ==
  IF now - loop[l].since >= BudgetReset /\ loop[l].restarts > 0
  THEN [loop[l] EXCEPT !.restarts = 0, !.fast = 0] ELSE loop[l]

\* gave_up, or the pause before the next round.
Retry(rec) ==
  LET one == [rec EXCEPT !.restarts = @ + 1, !.since = now, !.at = "pausing", !.why = NoReason]
  IN IF one.restarts >= MaxRestarts THEN Leave(one, "gaveup") ELSE one

\* Fault: the dump of the last round stays where it is.
StatsLeft(rec, st) == st

\* keep_stats moves the dump aside; a loop that gives up leaves it.
KeepStats(rec, st) == IF rec.at = "pausing" THEN NoReason ELSE st

\* Fault: the counter survives the directory it has condemned.
CountOn(rec, short) ==
  IF rec.at # "pausing" THEN rec
  ELSE [rec EXCEPT !.fast = IF short THEN @ + 1 ELSE 0]

\* A round that crashed counts as fast or clears the count; at three the
\* count starts again, on a fresh directory.
CountFast(rec, short) ==
  IF rec.at # "pausing" THEN rec
  ELSE [rec EXCEPT !.fast = IF ~ short THEN 0 ELSE IF @ + 1 >= 3 THEN 0 ELSE @ + 1]

\* Whether that crash moves the job directory aside.
Condemned(rec, short) == rec.at = "pausing" /\ short /\ rec.fast + 1 >= 3

\* The directory in the place of d: d with the crash, or a fresh one.
AfterCrash(d, rec, short) ==
  IF Condemned(rec, short) THEN [crashes |-> 0, aside |-> d.crashes + 1]
  ELSE IF short THEN [d EXCEPT !.crashes = Min({d.crashes + 1, 3})] ELSE d

RoundEnds(l, how) ==
  /\ ended' = [ended EXCEPT ![l] = how]
  /\ shorts' = [shorts EXCEPT ![l] = IF now - loop[l].since >= BudgetReset THEN 0 ELSE Min({@ + 1, MaxRestarts})]
  /\ UNCHANGED <<now, script>>

\* What the dump of a crawl that closed itself says.  The last dump may fail,
\* which is logged and leaves the file as an earlier one of this crawl wrote
\* it, without a reason, or as it was before the crawl.
Dump(l) == {loop[l].why, NoReason, stats[l[2]]}

\* The crawl exits with 0.  Only a close for memory is followed by another
\* round.
Exit(l) ==
  /\ loop[l].at = "closing"
  /\ \E dump \in Dump(l) :
       IF dump = "memusage_exceeded"
       THEN LET rec == Retry(Budget(l)) IN
            /\ loop' = [loop EXCEPT ![l] = rec]
            /\ stats' = [stats EXCEPT ![l[2]] = KeepStats(rec, dump)]
       ELSE /\ loop' = [loop EXCEPT ![l] = Leave(Budget(l), "returned")]
            /\ stats' = [stats EXCEPT ![l[2]] = dump]
  /\ RoundEnds(l, loop[l].why)
  /\ UNCHANGED dir

\* The crawl ends with another exit code.
Crash(l) ==
  /\ Process(l) /\ l[2] \notin Steady
  /\ LET rec   == Retry(Budget(l))
         short == now - loop[l].since < FastCrash
     IN /\ loop' = [loop EXCEPT ![l] = CountFast(rec, short)]
        /\ stats' = [stats EXCEPT ![l[2]] = KeepStats(rec, @)]
        /\ dir' = [dir EXCEPT ![l[2]] = AfterCrash(@, rec, short)]
        /\ RoundEnds(l, "crash")

\* The pause is over.
Wake(l) ==
  /\ loop[l].at = "pausing"
  /\ now - loop[l].since >= Pause
  /\ loop' = [loop EXCEPT ![l] = TopOfLoop(@, l[1])]
  /\ UNCHANGED <<now, script, stats, history>>

-------------------------------------------------------------------------------
(* The crawl. *)

BeginClose(l, why) == loop' = [loop EXCEPT ![l].at = "closing", ![l].why = why]

\* The crawl closes itself, for memory or for want of work.
CloseSelf(l) ==
  /\ loop[l].at = "running" /\ l[2] \notin Steady
  /\ \E why \in {"memusage_exceeded", "finished"} : BeginClose(l, why)
  /\ UNCHANGED <<now, script, stats, history>>

\* The timer of TimedShutdown fires; _stop may raise, and then nothing closes.
Deadline(l) ==
  /\ loop[l].at = "running" /\ now >= CrawlDeadline(l)
  /\ \/ BeginClose(l, "run_duration")
     \/ loop' = [loop EXCEPT ![l].at = "stuck"]
  /\ UNCHANGED <<now, script, stats, history>>

-------------------------------------------------------------------------------
(* The script. *)

\* pgrep for JOBDIR= finds no crawl.
NoLiveCrawl == \A l \in Loops : ~ Process(l)

\* A script starts, on the frontier there is (RESUME=1, which needs one) or
\* after clearing it with the logs.
Start(k) ==
  /\ script[k].phase = "idle" /\ now + Duration + 2 * Grace <= MaxTime
  /\ \A j \in 1 .. k - 1 : script[j].phase # "idle"
  /\ NoLiveCrawl
  /\ script' = [script EXCEPT ![k] = [phase |-> "sampling", begun |-> now, since |-> now, cause |-> "none"]]
  /\ loop' = [l \in Loops |-> IF l[1] = k THEN [Idle EXCEPT !.at = "running", !.since = now]
                              ELSE loop[l]]
  /\ \E resume \in {b \in BOOLEAN : b => k > 1} :
       /\ stats' = [i \in Shard |-> IF resume THEN stats[i] ELSE NoReason]
       /\ dir' = [i \in Shard |-> IF resume THEN dir[i] ELSE [dir[i] EXCEPT !.crashes = 0]]
  /\ UNCHANGED <<now, shorts, ended>>

\* Fault: one marker stops the run.
SomeGaveUp(k) == \E l \in LoopsOf(k) : loop[l].at = "gaveup"

\* As many markers as shards.
AllGaveUp(k) == \A l \in LoopsOf(k) : loop[l].at = "gaveup"

\* The sampler leaves its loop.  SIGTERM goes to every descendant of a live
\* subshell: to the crawl, which closes if it still can, or to the sleep of a
\* pause, whose failure ends the subshell (set -e).
Stop(k) ==
  /\ script[k].phase = "sampling"
  /\ \E cause \in {"alone", "deadline", "gaveup", "disk"} :
       /\ cause = "alone" => \A l \in LoopsOf(k) : ~ Alive(l)
       /\ cause = "deadline" => now - script[k].begun >= Duration + Grace
       /\ cause = "gaveup" => AllGaveUp(k)
       /\ script' = [script EXCEPT ![k].phase = "stopping", ![k].since = now, ![k].cause = cause]
  /\ \E deaf \in SUBSET {l \in LoopsOf(k) : loop[l].at = "stuck"} :
       loop' = [l \in Loops |->
         IF l[1] # k \/ l \in deaf THEN loop[l]
         ELSE CASE loop[l].at \in {"running", "stuck"} ->
                     [loop[l] EXCEPT !.at = "closing", !.why = "shutdown"]
                [] loop[l].at = "pausing" -> Leave(loop[l], "killed")
                [] OTHER -> loop[l]]
  /\ UNCHANGED <<now, stats, history>>

\* kill -9 for every live loop of k and all below it.
Reap(k, phase) ==
  /\ script' = [script EXCEPT ![k].phase = phase]
  /\ loop' = [l \in Loops |-> IF l[1] = k /\ Alive(l) THEN Leave(loop[l], "killed")
                              ELSE loop[l]]
  /\ UNCHANGED <<now, stats, history>>

\* Fault: the script waits for its loops however long they take.
AllThrough(k) == \A l \in LoopsOf(k) : ~ Alive(l)

\* The wait after SIGTERM ends with the last loop or the grace.
WaitOver(k) == AllThrough(k) \/ now - script[k].since >= Grace

Finish(k) == script[k].phase = "stopping" /\ WaitOver(k) /\ Reap(k, "over")

\* Ctrl-C, or an error under set -e: the trap.
Interrupted(k) == script[k].phase = "sampling" /\ Reap(k, "reaped")

\* A SIGKILL runs no trap.
Killed(k) ==
  /\ script[k].phase \in {"sampling", "stopping"}
  /\ script' = [script EXCEPT ![k].phase = "killed"]
  /\ UNCHANGED <<now, loop, stats, history>>

-------------------------------------------------------------------------------

Init ==
  /\ now = 0
  /\ script = [k \in Script |-> [phase |-> "idle", begun |-> 0, since |-> 0, cause |-> "none"]]
  /\ loop = [l \in Loops |-> Idle]
  /\ stats = [i \in Shard |-> NoReason]
  /\ dir = [i \in Shard |-> [crashes |-> 0, aside |-> -1]]
  /\ shorts = [l \in Loops |-> 0]
  /\ ended = [l \in Loops |-> NoReason]

\* What is due by now happens before time goes on: sleeps end, timers fire,
\* a closing crawl is through within Drain of its deadline, the sampler sees
\* its deadline and the wait after SIGTERM its end.
Tick ==
  /\ now < MaxTime /\ script[1].phase # "idle"
  /\ \A l \in Loops :
       /\ loop[l].at = "pausing" => now - loop[l].since < Pause
       /\ loop[l].at = "running" => now < CrawlDeadline(l)
       /\ loop[l].at = "closing" => now < script[l[1]].begun + Duration + Drain \/ loop[l].why = "shutdown"
  /\ \A k \in Script :
       /\ script[k].phase = "sampling" => now - script[k].begun < Duration + Grace
       /\ script[k].phase = "stopping" => now - script[k].since < Grace
  /\ now' = now + 1
  /\ UNCHANGED <<script, loop, stats, history>>

Progress ==
  \/ Tick
  \/ \E l \in Loops : Exit(l) \/ Wake(l) \/ Deadline(l)
  \/ \E k \in Script : Stop(k) \/ Finish(k)

Next ==
  \/ Progress
  \/ \E l \in Loops : Crash(l) \/ CloseSelf(l)
  \/ \E k \in Script : Start(k) \/ Interrupted(k) \/ Killed(k)

Spec == Init /\ [][Next]_vars /\ WF_vars(Progress)

-------------------------------------------------------------------------------
(* Properties. *)

TypeOK ==
  /\ now \in 0 .. MaxTime
  /\ script \in [Script -> [phase : {"idle", "sampling", "stopping", "over", "reaped", "killed"},
                            begun : Nat, since : Nat,
                            cause : {"none", "alone", "deadline", "gaveup", "disk"}]]
  /\ loop \in [Loops -> [at : {"none", "running", "closing", "stuck", "pausing", "returned",
                               "gaveup", "killed"},
                         since : Nat, why : Reason \cup {NoReason},
                         restarts : 0 .. MaxRestarts, fast : 0 .. 2]]
  /\ stats \in [Shard -> Reason \cup {NoReason}]
  /\ dir \in [Shard -> [crashes : Nat, aside : Nat \cup {-1}]]
  /\ shorts \in [Loops -> Nat]
  /\ ended \in [Loops -> Reason \cup {"crash", NoReason}]

\* A loop gives up only in a crash loop: every round but the first of those
\* that used up its restarts was shorter than BudgetReset, however long the
\* run has lasted (run_hour.sh:240-244).
GaveUpOnlyInCrashLoop ==
  \A l \in Loops : loop[l].at = "gaveup" => shorts[l] >= MaxRestarts - 1

\* No frontier is moved aside before it has itself seen three fast crashes,
\* whatever happened on the one before it (run_hour.sh:311-325).
AsideTakesThree == \A i \in Shard : dir[i].aside \in {-1} \cup {n \in Nat : n >= 3}

\* A crawl is followed by another only if it crashed or closed for memory: one
\* that is finished stays so, although the reason is read from a file that a
\* failed dump leaves as it was (run_hour.sh:260-268).
FinishedStaysFinished ==
  \A l \in Loops : loop[l].at = "pausing" =>
    ended[l] \in {"crash", "memusage_exceeded"}

\* The script stops crawls that go on, and loops about to start one, only when
\* the disk is low: neither another shard's giving up nor the deadline of the
\* sampler reaches a crawl that can stop by itself (run_hour.sh:419-434).
HealthyShardKept ==
  [][\A k \in Script :
       /\ script[k].phase = "sampling"
       /\ script'[k].phase = "stopping"
       /\ \E l \in LoopsOf(k) :
            \/ loop[l].at \in {"running", "closing"}
            \/ loop[l].at = "pausing" /\ now < CrawlDeadline(l)
       => script'[k].cause = "disk"]_vars

\* A script ends, with its loops, even if a crawl does not stop
\* (extensions/shutdown.py:99, run_hour.sh:507-521).
RunEnds ==
  \A k \in Script :
    script[k].phase = "sampling" ~>
      \/ script[k].phase = "killed"
      \/ script[k].phase \in {"over", "reaped"} /\ \A l \in LoopsOf(k) : ~ Alive(l)

\* What run_hour.sh:105 wants of the check: no start on top of a live crawl,
\* so that no two crawls have one job directory open.
OneCrawlPerJobdir == \A i \in Shard : Cardinality({k \in Script : Process(<<k, i>>)}) <= 1

===============================================================================
