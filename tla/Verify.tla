-------------------------------- MODULE Verify --------------------------------
(***************************************************************************)
(* ops/verify_politeness.py: the check of a run's politeness from its      *)
(* logs, over what processes of any kind may have written to them: polite  *)
(* or not, one domain in several files, with a wall clock that is stepped. *)
(* Whether requests are polite is the question here and not assumed: the   *)
(* timer and the guard are module Downloader's.                            *)
(***************************************************************************)
EXTENDS Integers, FiniteSets, Sequences

CONSTANTS
  Key,        \* slot keys
  Log,        \* the log files, numbered: one per shard
  Limit,      \* required_min_gap
  Tolerance,  \* TOLERANCE_SECONDS
  Source,     \* the values of --source
  Step,       \* what the wall clock may be stepped by, either way
  NA,
  MaxTime,    \* bound: the true time
  MaxRows,    \* bound: dispatches
  MaxSteps    \* bound: steps of the wall clock

ASSUME VerifyAssumption ==
  /\ Log \subseteq Nat /\ Log # {} /\ IsFiniteSet(Log)
  /\ NA \notin Int
  /\ Tolerance \in Nat /\ Limit \in Nat /\ Tolerance < Limit
  /\ Source \subseteq {"dispatched", "crawled"}
  /\ Step \subseteq Nat
  /\ {MaxTime, MaxRows, MaxSteps} \subseteq Nat

VARIABLES
  phase,      \* "crawl", "load", "judge", "done"
  now,        \* true time, and time.monotonic()
  wall,       \* what time.time() is ahead of it
  steps,
  rows,       \* the rows of each log
  source,     \* args.source
  todo,       \* the rows of each log that load_events has yet to read
  byDomain,   \* by_domain
  skipped, monotonicRows, wallRows,
  exit        \* the exit code, -1 while there is none

clock == <<now, wall, steps>>
loaded == <<byDomain, skipped, monotonicRows, wallRows>>
checkingVars == <<phase, clock, rows, source, todo, loaded, exit>>

Dispatches == Cardinality(UNION {{l} \X DOMAIN rows[l] : l \in Log})

-------------------------------------------------------------------------------
(* What is in the logs. *)

ClockTick == phase = "crawl" /\ now < MaxTime /\ now' = now + 1
        /\ UNCHANGED <<phase, wall, steps, rows, source, todo, loaded, exit>>

WallStep(by) ==
  /\ phase = "crawl" /\ steps < MaxSteps
  /\ steps' = steps + 1
  /\ wall' \in {wall + by, wall - by}
  /\ UNCHANGED <<phase, now, rows, source, todo, loaded, exit>>

\* A row of the dispatch log has both clocks, one of an older log only the wall
\* clock, one of a crawl log the wall clock's stamp or none.  at is the true time,
\* which no row has.
Row(k) ==
  {[key |-> k, sent |-> s, monotonic |-> m, at |-> now] :
     s \in {now + wall} \cup (IF source = "crawled" THEN {NA} ELSE {}),
     m \in {NA} \cup (IF source = "crawled" THEN {} ELSE {now})}

Dispatch(l, k) ==
  /\ phase = "crawl" /\ Dispatches < MaxRows
  /\ \E row \in Row(k) : rows' = [rows EXCEPT ![l] = Append(@, row)]
  /\ UNCHANGED <<phase, clock, source, todo, loaded, exit>>

-------------------------------------------------------------------------------
(* load_events *)

Start ==
  /\ phase = "crawl"
  /\ phase' = "load"
  /\ todo' = rows
  /\ UNCHANGED <<clock, rows, source, loaded, exit>>

\* Fault: the first column, as the logs of earlier runs were read.
WallStamp(row) == row.sent

\* The monotonic column where there is one.
Stamp(row) == IF row.monotonic # NA THEN row.monotonic ELSE row.sent

Checkable(row) == row.sent # NA

\* The files are read one after the other.
FileAtHand(l) == todo[l] # <<>> /\ \A m \in Log : m < l => todo[m] = <<>>

LoadRow(l) ==
  /\ phase = "load" /\ FileAtHand(l)
  /\ LET row == Head(todo[l]) IN
     IF Checkable(row)
     THEN /\ byDomain' = [byDomain EXCEPT ![row.key] = Append(@, Stamp(row))]
          /\ monotonicRows' = monotonicRows + (IF row.monotonic # NA THEN 1 ELSE 0)
          /\ wallRows' = wallRows + (IF row.monotonic = NA THEN 1 ELSE 0)
          /\ UNCHANGED skipped
     ELSE skipped' = skipped + 1 /\ UNCHANGED <<byDomain, monotonicRows, wallRows>>
  /\ todo' = [todo EXCEPT ![l] = Tail(@)]
  /\ UNCHANGED <<phase, clock, rows, source, exit>>

\* The warning about a mix of clocks changes nothing else.
LoadEnd ==
  /\ phase = "load" /\ \A l \in Log : todo[l] = <<>>
  /\ phase' = "judge"
  /\ UNCHANGED <<clock, rows, source, todo, loaded, exit>>

-------------------------------------------------------------------------------
(* main *)

\* Fault: the rows are compared in the order of the files.
AsRead(stamps) == stamps

\* events.sort: in each place the stamp that so many are before.
Before(stamps, j) ==
  {i \in DOMAIN stamps : stamps[i] < stamps[j] \/ (stamps[i] = stamps[j] /\ i < j)}

Sorted(stamps) ==
  [i \in DOMAIN stamps |->
     stamps[CHOOSE j \in DOMAIN stamps : Cardinality(Before(stamps, j)) = i - 1]]

Short(gap) == gap < Limit - Tolerance

Violations(stamps) ==
  {i \in 1 .. Len(stamps) - 1 : Short(Sorted(stamps)[i + 1] - Sorted(stamps)[i])}

\* Fault: rows that could not be checked are only reported.
SkippedIgnored(violated) == IF violated THEN 1 ELSE 0

ExitCode(violated) == IF violated \/ skipped > 0 THEN 1 ELSE 0

Judge ==
  /\ phase = "judge"
  /\ phase' = "done"
  /\ exit' = ExitCode(\E k \in Key : Violations(byDomain[k]) # {})
  /\ UNCHANGED <<clock, rows, source, todo, loaded>>

CheckingInit ==
  /\ phase = "crawl"
  /\ now = 0 /\ wall = 0 /\ steps = 0
  /\ rows = [l \in Log |-> <<>>]
  /\ source \in Source
  /\ todo = [l \in Log |-> <<>>]
  /\ byDomain = [k \in Key |-> <<>>]
  /\ skipped = 0 /\ monotonicRows = 0 /\ wallRows = 0
  /\ exit = -1

CheckingNext ==
  \/ ClockTick
  \/ \E by \in Step : WallStep(by)
  \/ \E l \in Log, k \in Key : Dispatch(l, k)
  \/ Start
  \/ \E l \in Log : LoadRow(l)
  \/ LoadEnd
  \/ Judge

-------------------------------------------------------------------------------
(* Properties. *)

CheckingTypeOK ==
  /\ phase \in {"crawl", "load", "judge", "done"}
  /\ \A k \in Key : \A i \in DOMAIN byDomain[k] : byDomain[k][i] \in Int
  /\ {skipped, monotonicRows, wallRows} \subseteq Nat
  /\ exit \in -1 .. 1

\* Two dispatches of a domain too close together, of one process or of two.
Breach ==
  \E l, m \in Log : \E i \in DOMAIN rows[l], j \in DOMAIN rows[m] :
    /\ <<l, i>> # <<m, j>>
    /\ rows[l][i].key = rows[m][j].key
    /\ rows[m][j].at >= rows[l][i].at
    /\ rows[m][j].at - rows[l][i].at < Limit - Tolerance

\* "Exit code 0 means zero violations" (verify_politeness.py:7) and 1 that there
\* is one, which nothing may fabricate (45-49), two shards on one domain and steps
\* of the wall clock included, if every row has the monotonic clock.
ExitTells == exit # -1 /\ source = "dispatched" /\ wallRows = 0 => (exit = 1 <=> Breach)

\* Of any log, 0 means that every row was compared: "Reporting zero violations
\* over an incomplete check would overstate what was verified" (178-183).
ZeroIsComplete ==
  exit = 0 => Cardinality(UNION {{k} \X DOMAIN byDomain[k] : k \in Key}) = Dispatches

===============================================================================
