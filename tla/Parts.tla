--------------------------------- MODULE Parts ---------------------------------
(***************************************************************************)
(* The parts of the system that share no state with one another, side by   *)
(* side: the savers of a crawl, its domain bookkeeping, its log files, the *)
(* check of those logs, and the two tools that prepare the seeds.  One of  *)
(* them runs, from its own initial states; the state of the others is NA.  *)
(* A behaviour of this module is thus one of the part that runs, and its   *)
(* properties are those of the parts.                                      *)
(***************************************************************************)
EXTENDS Checkpoint, Domains, LogFile, Verify, SeedSelect, SeedProbe

VARIABLE part   \* which part it is

vars == <<part, savingVars, countingVars, loggingVars, checkingVars, selectingVars, probingVars>>

-------------------------------------------------------------------------------
(* The state of a part that does not run. *)

NoSaving == /\ queues = NA /\ cursor = NA /\ sliceIn = NA /\ bloomIn = NA
            /\ age = NA /\ delays = NA /\ quiet = NA
NoCounting == /\ crawledPer = NA /\ seenDomains = NA /\ seenTotal = NA /\ queuedPer = NA
              /\ held = NA /\ carrying = NA /\ parsing = NA /\ seedsLeft = NA
              /\ requests = NA /\ pages = NA /\ uncounted = NA /\ admitted = NA
              /\ exempt = NA /\ forgotten = NA /\ unseen = NA
NoLogging == /\ disk = NA /\ buffer = NA /\ writing = NA /\ since = NA
             /\ written = NA /\ member = NA /\ members = NA /\ intact = NA
NoChecking == /\ phase = NA /\ now = NA /\ wall = NA /\ steps = NA /\ rows = NA
              /\ source = NA /\ todo = NA /\ byDomain = NA /\ skipped = NA
              /\ monotonicRows = NA /\ wallRows = NA /\ exit = NA
NoSelecting == /\ pool = NA /\ count = NA /\ order = NA /\ visit = NA
               /\ stage = NA /\ picked = NA /\ taken = NA /\ depthExhausted = NA
NoProbing == /\ waiting = NA /\ fetching = NA /\ results = NA /\ kept = NA
             /\ finished = NA

Init ==
  \/ /\ part = "saving" /\ SavingInit
     /\ NoCounting /\ NoLogging /\ NoChecking /\ NoSelecting /\ NoProbing
  \/ /\ part = "counting" /\ CountingInit
     /\ NoSaving /\ NoLogging /\ NoChecking /\ NoSelecting /\ NoProbing
  \/ /\ part = "logging" /\ LoggingInit
     /\ NoSaving /\ NoCounting /\ NoChecking /\ NoSelecting /\ NoProbing
  \/ /\ part = "checking" /\ CheckingInit
     /\ NoSaving /\ NoCounting /\ NoLogging /\ NoSelecting /\ NoProbing
  \/ /\ part = "selecting" /\ SelectingInit
     /\ NoSaving /\ NoCounting /\ NoLogging /\ NoChecking /\ NoProbing
  \/ /\ part = "probing" /\ ProbingInit
     /\ NoSaving /\ NoCounting /\ NoLogging /\ NoChecking /\ NoSelecting

SavingRuns ==
  /\ part = "saving" /\ SavingNext
  /\ UNCHANGED <<part, countingVars, loggingVars, checkingVars, selectingVars, probingVars>>

CountingRuns ==
  /\ part = "counting" /\ CountingNext
  /\ UNCHANGED <<part, savingVars, loggingVars, checkingVars, selectingVars, probingVars>>

LoggingRuns ==
  /\ part = "logging" /\ LoggingNext
  /\ UNCHANGED <<part, savingVars, countingVars, checkingVars, selectingVars, probingVars>>

CheckingRuns ==
  /\ part = "checking" /\ CheckingNext
  /\ UNCHANGED <<part, savingVars, countingVars, loggingVars, selectingVars, probingVars>>

SelectingRuns ==
  /\ part = "selecting" /\ SelectingNext
  /\ UNCHANGED <<part, savingVars, countingVars, loggingVars, checkingVars, probingVars>>

ProbingRuns ==
  /\ part = "probing" /\ ProbingNext
  /\ UNCHANGED <<part, savingVars, countingVars, loggingVars, checkingVars, selectingVars>>

Next ==
  \/ SavingRuns
  \/ CountingRuns
  \/ LoggingRuns
  \/ CheckingRuns
  \/ SelectingRuns
  \/ ProbingRuns

Spec == Init /\ [][Next]_vars

-------------------------------------------------------------------------------
(* Properties: those of the part that runs. *)

TypeOK ==
  /\ part = "saving" => SavingTypeOK
  /\ part = "counting" => CountingTypeOK
  /\ part = "logging" => LoggingTypeOK
  /\ part = "checking" => CheckingTypeOK
  /\ part = "selecting" => SelectingTypeOK
  /\ part = "probing" => ProbingTypeOK

\* Every queue is saved in the Slices ticks after the last disturbance of the
\* sweep, and in a disturbed pass no later than what disturbed it accounts for
\* (scheduler.py:242-245, 258-262).
SavesSpread == part = "saving" => SweepComplete /\ LateByDisturbances

\* The page limit of a domain is passed by no more than what was on its way when
\* it was reached, once per eviction of the count (broad.py:115-116), and by what
\* took no place or gave one back for a robots.txt.
PagesBounded == part = "counting" => PagesWithinLimits

\* A domain evicted from seen_domains is let past a full frontier once more, and
\* counted once more, and no domain that a seed, a link or the inbox brought goes
\* uncounted (broad.py:115-127).
EvictionCostsOne == part = "counting" => ExemptOncePerEviction /\ TotalWithinEvictions

\* A kill loses less than one buffer of lines, and the reader returns the rest,
\* whole and in order (logwriter.py:6-7, 97-100, 109-111, 176-178).
LogsSurvive ==
  part = "logging" =>
    /\ KillLosesOneBuffer /\ IntactMembersRead
    /\ OnlyRealLines /\ DamagedRecoveredInBlock

\* The exit code of the politeness check tells whether the run was polite, and
\* is 0 only if every row was compared (verify_politeness.py:7, 45-49, 178-183).
VerdictTrue == part = "checking" => ExitTells /\ ZeroIsComplete

\* The seeds are each TLD's best candidates, each once, and as many as asked for
\* or all there are (build_seeds.py:150-168).
BestSelected == part = "selecting" => BestOfEach /\ AsManyAsAsked

\* The seeds kept are the best that answered, in the order of the file, whatever
\* order the answers came in (probe.py:123).
BestKept == part = "probing" => BestWritten

===============================================================================
