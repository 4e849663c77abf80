------------------------------- MODULE SeedProbe -------------------------------
(***************************************************************************)
(* seeds/probe.py: one task per registered domain of the candidates file   *)
(* fetches its first URL, no more than --concurrency at once, and the      *)
(* candidates that answered with enough links are kept in their order,     *)
(* which is their rank.  Redirects are the HTTP client's own affair.       *)
(***************************************************************************)
EXTENDS Integers, FiniteSetsExt, SequencesExt

CONSTANTS
  Candidate,     \* the candidates file: the domain of each line
  Concurrency,
  MaxKept        \* --count

ASSUME SeedProbeAssumption ==
  /\ Candidate \in Seq(STRING)
  /\ {Concurrency, MaxKept} \subseteq Nat \ {0}

VARIABLES
  waiting,    \* the tasks that wait for the semaphore
  fetching,   \* the tasks that hold it
  results,    \* the candidates that answered, in that order: <<candidate, kept>>
  kept,       \* what is written
  finished

probingVars == <<waiting, fetching, results, kept, finished>>

\* The lines are named by their place in the file.
Place == DOMAIN Candidate

\* by_domain.setdefault: the first line of each domain.
Urls == {i \in Place : \A j \in Place : j < i => Candidate[j] # Candidate[i]}

HasPermit == Cardinality(fetching) < Concurrency

ProbeStart(u) ==
  /\ u \in waiting /\ HasPermit
  /\ waiting' = waiting \ {u}
  /\ fetching' = fetching \cup {u}
  /\ UNCHANGED <<results, kept, finished>>

\* The answer has enough links; or it has not, is no HTML, or there is none.
Probed(u, enough) ==
  /\ u \in fetching
  /\ fetching' = fetching \ {u}
  /\ results' = Append(results, <<u, enough>>)
  /\ UNCHANGED <<waiting, kept, finished>>

Good == {u \in Urls : <<u, TRUE>> \in ToSet(results)}

\* Fault: the candidates are kept as they answer.
AsAnswered ==
  LET good == SelectSeq(results, LAMBDA r : r[2])
  IN SubSeq([i \in DOMAIN good |-> good[i][1]], 1, Min({MaxKept, Len(good)}))

\* sorted: in each place the candidate that so many are before.
Ranked(S) ==
  [i \in 1 .. Cardinality(S) |-> CHOOSE u \in S : Cardinality({v \in S : v < u}) = i - 1]

Kept == SubSeq(Ranked(Good), 1, Min({MaxKept, Cardinality(Good)}))

WriteSeeds ==
  /\ waiting = {} /\ fetching = {} /\ ~ finished
  /\ finished' = TRUE
  /\ kept' = Kept
  /\ UNCHANGED <<waiting, fetching, results>>

ProbingInit ==
  /\ waiting = Urls /\ fetching = {}
  /\ results = <<>> /\ kept = <<>> /\ finished = FALSE

ProbingNext ==
  \/ \E u \in Place : ProbeStart(u)
  \/ \E u \in Place, enough \in BOOLEAN : Probed(u, enough)
  \/ WriteSeeds

-------------------------------------------------------------------------------
(* Properties. *)

ProbingTypeOK ==
  /\ waiting \subseteq Place /\ fetching \subseteq Place
  /\ Cardinality(fetching) <= Concurrency
  /\ kept \in Seq(Place) /\ Len(kept) <= MaxKept

\* probe.py:123: the order of the file, "which is Tranco rank", decides which
\* seeds are kept and how they are written, however late their answers came.
BestWritten ==
  finished =>
    \A u \in Good :
      \/ \E i \in DOMAIN kept : kept[i] = u /\ \A j \in 1 .. i - 1 : kept[j] < u
      \/ Len(kept) = MaxKept /\ \A i \in DOMAIN kept : kept[i] < u

===============================================================================
