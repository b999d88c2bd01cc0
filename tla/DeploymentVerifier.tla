-------------------------- MODULE DeploymentVerifier --------------------------
(***************************************************************************)
(* deployment-verifier.py: verify() takes samples of all expected          *)
(* applications until enough of them in a row are clean or the deadline    *)
(* passes.  A sample is one request for the list of applications and then  *)
(* one for the resource tree of each, while the rollout goes on: Argo CD   *)
(* may answer each request with any state, late, malformed or not at all.  *)
(*                                                                         *)
(* Time passes while a request is under way, while the verifier sleeps,    *)
(* and, at most Lag in all, wherever its process is not scheduled.         *)
(***************************************************************************)
EXTENDS ArgoApplication, Integers, FiniteSets

CONSTANTS
    Apps,            \* names of the expected applications
    AppStates,       \* what the list may report of an application
    TreeStates,      \* what a resource tree may report of an application
    Absent,          \* the list does not have the application
    NoTree,          \* no resource tree was read
    Samples,         \* SAMPLES
    Interval,        \* INTERVAL
    Timeout,         \* TIMEOUT
    RequestTimeout,  \* REQUEST_TIMEOUT
    Lag              \* bound: time in which the process is not scheduled

ASSUME VerifierAssumption ==
    /\ Apps # {} /\ IsFiniteSet(Apps)
    /\ AppStates \subseteq Application /\ Absent \notin AppStates
    /\ TreeStates \subseteq [Hooks -> Healths] /\ NoTree \notin TreeStates
    /\ Samples \in Nat \ {0}
    /\ Interval \in Nat \ {0}
    /\ Timeout \in Nat \ {0}
    /\ RequestTimeout \in Nat
    /\ Lag \in Nat

VARIABLES
    now,      \* time since the verifier started
    late,     \* time so far in which its process was not scheduled
    busy,     \* history: time its requests have taken since trouble
    at,       \* where verify() is
    items,    \* items[a]: what the list reported of application a
    odd,      \* the list has a malformed or a duplicate item
    todo,     \* listed applications whose tree is still to be requested
    trees,    \* trees[a]: the tree of application a in this sample
    report,   \* the last report: "none", "clean" or "unclean"
    streak,   \* clean samples in a row
    began,    \* history: when the sample in hand began
    sound,    \* history: all that this sample has read is there and converged
    proven,   \* history: samples in a row that were sound and in time
    ended,    \* history: when the last of them ended
    spaced,   \* history: none of them began within Interval of another
    trouble   \* history: when the last sample with an issue of its own ended

clockVars == <<now, late, busy>>
sampleVars == <<items, odd, todo, trees>>
historyVars == <<began, sound, proven, ended, spaced, trouble>>
vars == <<clockVars, at, sampleVars, report, streak, historyVars>>

Running == {"check", "list", "trees", "judge"}
Answers == {"passed", "timeout", "denied"}

TypeOK ==
    /\ now \in Nat
    /\ late \in 0..Lag
    /\ busy \in Nat
    /\ at \in Running \cup Answers
    /\ items \in [Apps -> AppStates \cup {Absent}]
    /\ odd \in BOOLEAN
    /\ todo \in SUBSET Apps
    /\ trees \in [Apps -> TreeStates \cup {NoTree}]
    /\ report \in {"none", "clean", "unclean"}
    /\ streak \in Nat
    /\ began \in Nat
    /\ sound \in BOOLEAN
    /\ proven \in Nat
    /\ ended \in Nat
    /\ spaced \in BOOLEAN
    /\ trouble \in Int

NoItems == [a \in Apps |-> Absent]
NoTrees == [a \in Apps |-> NoTree]

Init ==
    /\ now = 0 /\ late = 0 /\ busy = 0
    /\ at = "check"
    /\ items = NoItems /\ odd = FALSE
    /\ todo = {} /\ trees = NoTrees
    /\ report = "none" /\ streak = 0
    /\ began = 0 /\ sound = FALSE
    /\ proven = 0 /\ ended = 0 /\ spaced = TRUE
    /\ trouble = -Interval

-----------------------------------------------------------------------------

Least(x, y) == IF x <= y THEN x ELSE y

\* A request takes any time up to its own limit and the deadline; after the
\* deadline it is not made at all.
RequestTakesTime ==
    \/ /\ now < Timeout
       /\ \E d \in 0..Least(RequestTimeout, Timeout - now) :
              now' = now + d /\ busy' = busy + d
    \/ now >= Timeout /\ UNCHANGED <<now, busy>>

BeginSample ==
    /\ at = "check"
    /\ now < Timeout
    /\ at' = "list"
    /\ began' = now /\ sound' = FALSE
    /\ UNCHANGED <<clockVars, sampleVars, report, streak, proven, ended,
                   spaced, trouble>>

TimeOut ==
    /\ at = "check"
    /\ now >= Timeout
    /\ at' = "timeout"
    /\ UNCHANGED <<clockVars, sampleVars, report, streak, historyVars>>

\* The list of applications, read in one answer.
ListApplications ==
    /\ at = "list"
    /\ now < Timeout
    /\ RequestTakesTime
    /\ items' \in [Apps -> AppStates \cup {Absent}]
    /\ odd' \in BOOLEAN
    /\ todo' = {a \in Apps : items'[a] # Absent}
    /\ sound' = \A a \in Apps : items'[a] # Absent
    /\ at' = "trees"
    /\ UNCHANGED <<late, trees, report, streak, began, proven, ended, spaced,
                   trouble>>

\* The list is not a list: a report without applications, and an issue.
ListMalformed ==
    /\ at = "list"
    /\ now < Timeout
    /\ RequestTakesTime
    /\ report' = "unclean"
    /\ at' = "judge"
    /\ UNCHANGED <<late, sampleVars, streak, historyVars>>

\* Mutant: an error leaves the report of the sample before it.
ListFailsSilently ==
    /\ at = "list"
    /\ RequestTakesTime
    /\ report' = IF report = "none" THEN "unclean" ELSE report
    /\ at' = "judge"
    /\ UNCHANGED <<late, sampleVars, streak, historyVars>>

\* ApiError: the request fails or the deadline has passed.  The report of the
\* sample before keeps its applications and gets an issue.
ListFails ==
    /\ at = "list"
    /\ RequestTakesTime
    /\ report' = "unclean"
    /\ at' = "judge"
    /\ UNCHANGED <<late, sampleVars, streak, historyVars>>

\* FatalApiError: 401 or 403, to the list or to a tree, ends the run.
Denied ==
    /\ at = "list" \/ (at = "trees" /\ todo # {})
    /\ now < Timeout
    /\ RequestTakesTime
    /\ at' = "denied"
    /\ UNCHANGED <<late, sampleVars, report, streak, historyVars>>

\* Mutant: a tree that could not be read is requested again.
FetchTreeAgain(a) ==
    /\ at = "trees"
    /\ a \in todo
    /\ RequestTakesTime
    /\ \E t \in TreeStates \cup {NoTree} :
           /\ t # NoTree => now < Timeout
           /\ trees' = [trees EXCEPT ![a] = t]
           /\ todo' = IF t = NoTree THEN todo ELSE todo \ {a}
    /\ sound' = FALSE
    /\ UNCHANGED <<late, at, items, odd, report, streak, began, proven, ended,
                   spaced, trouble>>

\* A tree is NoTree if the request fails, if the deadline has passed, or if
\* the answer is empty or malformed.
FetchTree(a) ==
    /\ at = "trees"
    /\ a \in todo
    /\ RequestTakesTime
    /\ \E t \in TreeStates \cup {NoTree} :
           /\ t # NoTree => now < Timeout
           /\ trees' = [trees EXCEPT ![a] = t]
           /\ sound' = (sound /\ t # NoTree /\ ConvergedToPins(items[a], t))
    /\ todo' = todo \ {a}
    /\ UNCHANGED <<late, at, items, odd, report, streak, began, proven, ended,
                   spaced, trouble>>

\* evaluate_snapshot: every expected application is there, and clean.
Assemble ==
    /\ at = "trees"
    /\ todo = {}
    /\ LET clean == /\ ~odd
                    /\ \A a \in Apps : /\ items[a] # Absent
                                       /\ trees[a] # NoTree
                                       /\ Clean(items[a], trees[a]) IN
           report' = IF clean THEN "clean" ELSE "unclean"
    /\ items' = NoItems /\ odd' = FALSE /\ trees' = NoTrees
    /\ at' = "judge"
    /\ UNCHANGED <<clockVars, todo, streak, historyVars>>

InTime == report = "clean" /\ now < Timeout

\* The verdict on a sample that makes the streak n, and a sleep unless the run
\* is over.  A clean report after the deadline gets an issue.
Conclude(n, sleep) ==
    /\ at = "judge"
    /\ streak' = n
    /\ report' = IF InTime THEN "clean" ELSE "unclean"
    /\ \/ /\ n >= Samples
          /\ at' = "passed"
          /\ now' = now
       \/ /\ n < Samples
          /\ now >= Timeout
          /\ at' = "timeout"
          /\ now' = now
       \/ /\ n < Samples
          /\ now < Timeout
          /\ at' = "check"
          /\ now' = now + sleep
    /\ proven' = IF sound /\ now < Timeout THEN proven + 1 ELSE 0
    /\ ended' = now
    /\ spaced' = (proven = 0 \/ (spaced /\ began >= ended + Interval))
    /\ trouble' = IF report = "clean" THEN trouble ELSE now
    /\ busy' = IF report = "clean" THEN busy ELSE 0
    /\ UNCHANGED <<late, sampleVars, began, sound>>

\* Mutant: the sleep is not cut at the deadline.
JudgeAndOversleep ==
    Conclude(IF InTime THEN streak + 1 ELSE 0, Interval)

\* Mutant: the verifier sleeps all the time that remains.
JudgeAndSleepOn ==
    Conclude(IF InTime THEN streak + 1 ELSE 0, Timeout - now)

\* Samples clean reports in a row pass; any other report starts anew.
Judge ==
    Conclude(IF InTime THEN streak + 1 ELSE 0, Least(Interval, Timeout - now))

\* The process is not scheduled for a while.
Delay ==
    /\ at \in Running
    /\ late < Lag
    /\ now' = now + 1 /\ late' = late + 1
    /\ UNCHANGED <<busy, at, sampleVars, report, streak, historyVars>>

Step ==
    \/ BeginSample \/ TimeOut
    \/ ListApplications \/ ListMalformed \/ ListFails
    \/ \E a \in Apps : FetchTree(a)
    \/ Denied
    \/ Assemble
    \/ Judge

Next == Step \/ Delay

Spec == Init /\ [][Next]_vars

\* A request returns or is cut off, and the process goes on.
LiveSpec == Spec /\ WF_vars(Step)

-----------------------------------------------------------------------------

\* A run passes only after Samples samples in a row, each begun Interval or
\* more after the one before and the last ended before the deadline, that saw
\* every expected application, read its tree, and found it converged in the
\* words of the README, but for pinned sources: no error, no missing
\* application, no older green state, no failure taken for an old one and no
\* late answer is between.
PassIsEarned ==
    at = "passed" => proven >= Samples /\ spaced /\ ended < Timeout

\* The run reports by its deadline, up to the time its process was kept from
\* running: no request, sleep or sample carries it further.
EndsByDeadline == now <= Timeout + late

\* A run that times out has seen an issue too late to recover from it: from
\* then on, Samples intervals and the time that its requests took, and that its
\* process was kept from running, reach the deadline.  The verifier wastes no
\* time of its own, and asks for no sample more than Samples.
NoFalseTimeout ==
    at = "timeout" => trouble + Samples * Interval + busy + late >= Timeout

\* The steps of a sample: its begin, the list, each tree, and two for the
\* report and the verdict.
SampleSteps == 4 + Cardinality(Apps)

\* How many steps a run may still take: a sample for each unit of the time
\* that is left, what is left of the sample in hand, and the delays.
StepsLeft ==
    LET samples == IF now < Timeout THEN Timeout - now ELSE 0
        inSample == [check   |-> SampleSteps,
                     list    |-> SampleSteps - 1,
                     trees   |-> 2 + Cardinality(todo),
                     judge   |-> 1,
                     passed  |-> 0, timeout |-> 0, denied |-> 0] IN
    samples * SampleSteps + inSample[at] + (Lag - late)

\* Whatever the API answers and however slow it is, a run uses up its steps:
\* no answer is awaited twice, and no sample follows another without time
\* having passed in between.
StepsRunOut == [][StepsLeft' \in 0..(StepsLeft - 1)]_vars

\* Every run passes, times out or is denied.
EveryRunAnswers == <>(at \in Answers)

-----------------------------------------------------------------------------
(* Why a pass is earned and a timeout deserved: what every step preserves.  *)

\* What the sample in hand has seen of application a is as it should be.
WellSoFar(a) ==
    /\ items[a] # Absent
    /\ a \in todo \/ (trees[a] # NoTree /\ ConvergedToPins(items[a], trees[a]))

\* The streak never runs ahead of what the samples have shown.
StreakIsProven ==
    /\ streak <= proven
    /\ spaced
    /\ proven > 0 => ended < Timeout
    /\ at = "check" /\ proven > 0 => now >= Least(ended + Interval, Timeout)
    /\ at \in {"list", "trees", "judge"} /\ proven > 0 => began >= ended + Interval
    /\ at = "trees" /\ (\A a \in Apps : WellSoFar(a)) => sound
    /\ at = "judge" /\ report = "clean" => sound
    /\ at \in Running => streak < Samples
    /\ at = "passed" => streak >= Samples

\* The time since the last trouble went into requests, an interval before each
\* sample, the clean ones and the one in hand, and the delays.
TimeIsAccounted ==
    LET spent == trouble + (streak + 1) * Interval + busy + late IN
    /\ at \in {"check", "list", "trees"} => now <= spent
    /\ at = "judge" /\ report = "clean" => now <= spent
    /\ at = "timeout" => trouble + Samples * Interval + busy + late >= Timeout

Discipline ==
    /\ TypeOK
    /\ EndsByDeadline
    /\ StreakIsProven
    /\ TimeIsAccounted
=============================================================================
