---------------------- MODULE DeploymentVerifier_proofs ----------------------
(***************************************************************************)
(* A pass is earned, the deadline is kept and a timeout is deserved, for   *)
(* every number of applications, samples and hooks and every timing.       *)
(***************************************************************************)
EXTENDS DeploymentVerifier, Evaluation, FiniteSetTheorems, TLAPS

\* The shorter of two times is one of them and exceeds neither.
LEMMA LeastFacts ==
    ASSUME NEW x \in Int, NEW y \in Int
    PROVE  /\ Least(x, y) \in {x, y}
           /\ Least(x, y) <= x
           /\ Least(x, y) <= y
BY DEF Least

\* A request ends no earlier than it began, within its own limit, and by the
\* deadline unless that had passed before.
LEMMA RequestFacts ==
    ASSUME TypeOK, RequestTakesTime
    PROVE  /\ now' \in Nat
           /\ now <= now' /\ now' <= now + RequestTimeout
           /\ now' <= Timeout \/ now' = now
           /\ busy' \in Nat /\ now' - now = busy' - busy
<1>1. busy \in Nat /\ RequestTimeout \in Nat /\ Timeout \in Nat /\ now \in Nat
    BY VerifierAssumption DEF TypeOK
<1>2. CASE now < Timeout
    <2>1. PICK d \in 0..Least(RequestTimeout, Timeout - now) :
              now' = now + d /\ busy' = busy + d
        BY <1>2, <1>1 DEF RequestTakesTime
    <2>2. /\ Least(RequestTimeout, Timeout - now) <= RequestTimeout
          /\ Least(RequestTimeout, Timeout - now) <= Timeout - now
          /\ Least(RequestTimeout, Timeout - now) \in Int
        BY <1>1 DEF Least
    <2> QED
        BY <2>1, <2>2, <1>1
<1>3. CASE now >= Timeout
    BY <1>1, <1>3 DEF RequestTakesTime
<1> QED
    BY <1>1, <1>2, <1>3

\* A sample requests finitely many trees.
LEMMA SampleFacts ==
    /\ Cardinality(Apps) \in Nat
    /\ \A S \in SUBSET Apps :
           /\ IsFiniteSet(S)
           /\ Cardinality(S) \in Nat
           /\ Cardinality(S) <= Cardinality(Apps)
<1>1. IsFiniteSet(Apps)
    BY VerifierAssumption
<1>2. \A S \in SUBSET Apps : IsFiniteSet(S) /\ Cardinality(S) <= Cardinality(Apps)
    BY <1>1, FS_Subset
<1>3. Cardinality(Apps) \in Nat
    BY <1>1, FS_CardinalityType
<1>4. \A S \in SUBSET Apps : Cardinality(S) \in Nat
    BY <1>2, FS_CardinalityType
<1> QED
    BY <1>2, <1>3, <1>4

\* The product of a natural number and a time grows by that time with it.
LEMMA OneMore ==
    ASSUME NEW n \in Nat, NEW w \in Nat
    PROVE  (n + 1) * w = n * w + w /\ n * w \in Nat
OBVIOUS

\* Fewer samples take less time.
LEMMA FewerTakeLess ==
    ASSUME NEW n \in Nat, NEW m \in Nat, NEW w \in Nat, n < m
    PROVE  n * w + w <= m * w
<1>1. PICK k \in Nat : m = (n + 1) + k
    <2>1. m - (n + 1) \in Nat /\ m = (n + 1) + (m - (n + 1))
        OBVIOUS
    <2> QED
        BY <2>1
<1>2. m * w = (n + 1) * w + k * w
    BY <1>1
<1>3. (n + 1) * w = n * w + w /\ k * w \in Nat /\ n * w \in Nat
    BY OneMore
<1> QED
    BY <1>2, <1>3

-----------------------------------------------------------------------------
(* What evaluate_app decides, in the words of README.md.                    *)

\* The revision of a source is the expected one exactly if it is wanted, with
\* pinned sources at their pins.
LEMMA WantedIsExpected ==
    ASSUME NEW kind \in SourceKinds, NEW revision \in Revisions
    PROVE  /\ Expectation(kind) # "none" /\ revision = Expectation(kind)
                  <=> revision \in Wanted("commit")[kind]
           /\ Expectation(kind) = "none" <=> Wanted("commit")[kind] = {}
BY DEF SourceKinds, Revisions, Expectation, Wanted

\* The revisions of an application match exactly if each one is wanted.
LEMMA RevisionsAreWanted ==
    ASSUME NEW a \in Application
    PROVE  RevisionsMatch(a) <=> ExpectedRevision(a, "commit")
<1>1. /\ a.sources \in Seq(SourceKinds) /\ a.observed \in Seq(Revisions)
      /\ Len(a.sources) \in Nat /\ Len(a.observed) \in Nat
      /\ DOMAIN a.sources = 1..Len(a.sources)
      /\ DOMAIN a.observed = 1..Len(a.observed)
    BY DEF Application
<1>2. /\ \A i \in 1..Len(a.sources) : a.sources[i] \in SourceKinds
      /\ \A i \in 1..Len(a.observed) : a.observed[i] \in Revisions
    BY <1>1
<1>3. /\ DOMAIN Expected(a) = 1..Len(a.sources)
      /\ \A i \in 1..Len(a.sources) : Expected(a)[i] = Expectation(a.sources[i])
      /\ Expected(a) = [i \in 1..Len(a.sources) |-> Expected(a)[i]]
    BY <1>1 DEF Expected
<1>4. ASSUME RevisionsMatch(a) PROVE ExpectedRevision(a, "commit")
    <2>1. a.observed = Expected(a) /\ AllTold(a)
        BY <1>4 DEF RevisionsMatch
    <2>2. 1..Len(a.observed) = 1..Len(a.sources)
        BY <1>1, <1>3, <2>1
    <2>3. Len(a.observed) = Len(a.sources)
        BY <1>1, <2>2
    <2>4. ASSUME NEW i \in 1..Len(a.sources)
          PROVE  a.observed[i] \in Wanted("commit")[a.sources[i]]
        <3>1. /\ a.observed[i] = Expectation(a.sources[i])
              /\ Expectation(a.sources[i]) # "none"
            BY <1>1, <1>3, <2>1 DEF AllTold
        <3> QED
            BY <1>2, <2>3, <3>1, WantedIsExpected
    <2> QED
        BY <2>3, <2>4 DEF ExpectedRevision
<1>5. ASSUME ExpectedRevision(a, "commit") PROVE RevisionsMatch(a)
    <2>1. Len(a.observed) = Len(a.sources)
        BY <1>5 DEF ExpectedRevision
    <2>2. ASSUME NEW i \in 1..Len(a.sources)
          PROVE  Expectation(a.sources[i]) # "none"
                     /\ a.observed[i] = Expectation(a.sources[i])
        <3>1. a.observed[i] \in Wanted("commit")[a.sources[i]]
            BY <1>5 DEF ExpectedRevision
        <3> QED
            BY <1>2, <2>1, <3>1, WantedIsExpected
    <2>3. AllTold(a)
        BY <1>1, <1>3, <2>2 DEF AllTold
    <2>4. a.observed = [i \in 1..Len(a.observed) |-> a.observed[i]]
        BY <1>1
    <2>5. a.observed = Expected(a)
        BY <1>3, <2>1, <2>2, <2>4
    <2> QED
        BY <2>3, <2>5 DEF RevisionsMatch
<1> QED
    BY <1>4, <1>5

\* On the expected revisions, the last operation leaves no issue exactly if
\* none is requested or runs and none of this deployment has failed.
LEMMA OperationIsWell ==
    ASSUME NEW a \in Application, RevisionsMatch(a)
    PROVE  ~OperationIssue(a) <=> NoRunningOrFailedOperation(a)
<1>1. a.phase \in OperationPhases
    BY DEF Application
<1>2. AllTold(a) /\ a.observed = Expected(a)
    BY DEF RevisionsMatch
<1>3. a.phase \in {"Failed", "Error"} => (Historical(a) <=> AboutAnother(a))
    BY <1>2 DEF Historical, AboutAnother
<1> QED
    BY <1>1, <1>3 DEF OperationIssue, NoRunningOrFailedOperation, OperationPhases

\* With the operation as it should be, a hook raises no issue exactly if it is
\* well.
LEMMA NoIssueIsWell ==
    ASSUME NEW a \in Application, NEW t \in [Hooks -> Healths], NEW h \in Hooks,
           RevisionsMatch(a), NoRunningOrFailedOperation(a)
    PROVE  ~HookIssue(a, t, h) <=> HookIsWell(a, t, h)
<1> DEFINE past == a.phase = "" \/ (a.phase # "none" /\ AboutAnother(a))
<1>1. AllTold(a) /\ a.observed = Expected(a)
    BY DEF RevisionsMatch
<1>2. Historical(a) <=> past
    BY <1>1 DEF Historical, AboutAnother, NoRunningOrFailedOperation
<1>3. a.hooks[h] \in HookReport
    BY DEF Application
<1>4. /\ a.hooks[h].phase \in HookPhases /\ a.hooks[h].health \in Healths
      /\ a.hooks[h].result \in BOOLEAN /\ a.hooks[h].listed \in BOOLEAN
    BY <1>3 DEF HookReport
<1> DEFINE live == Live(a, t, h)
<1>5. live \in Healths /\ live = IF t[h] = "" THEN a.hooks[h].health ELSE t[h]
    BY <1>4 DEF Live
<1>6. /\ live \in BadHealth <=> live \notin {"", "Healthy"}
      /\ live \in Lost => live \in BadHealth
    BY <1>5 DEF Healths, BadHealth, Lost
<1>7. HookIsWell(a, t, h) <=>
          (a.hooks[h].result \/ a.hooks[h].listed =>
              /\ live \notin Lost
              /\ past \/ live \in {"", "Healthy"}
              /\ a.hooks[h].result /\ ~past =>
                     \/ a.hooks[h].phase = "Succeeded"
                     \/ a.hooks[h].phase = "" /\ live = "Healthy")
    BY <1>5, Zenon DEF HookIsWell
<1>8. ResultIssue(a, t, h) <=>
          \/ live \in Lost
          \/ /\ ~past
             /\ \/ a.hooks[h].phase \notin {"", "Succeeded"}
                \/ live \in BadHealth
                \/ live = "" /\ a.hooks[h].phase # "Succeeded"
    BY <1>2, Zenon DEF ResultIssue
<1>9. ResourceIssue(a, t, h) <=> live \in Lost \/ (live \in BadHealth /\ ~past)
    BY <1>2, Zenon DEF ResourceIssue
<1> HIDE DEF live, past
<1> QED
    BY <1>4, <1>6, <1>7, <1>8, <1>9 DEF HookIssue

\* Where no source is pinned, it does not matter what a pin would be.
LEMMA NoPinNoMatter ==
    ASSUME NEW a \in Application, ~Pinned(a)
    PROVE  ExpectedRevision(a, "commit") <=> ExpectedRevision(a, "release")
<1>1. a.sources \in Seq(SourceKinds)
    BY DEF Application
<1>2. \A i \in 1..Len(a.sources) : a.sources[i] \in SourceKinds \ {"commit"}
    BY <1>1 DEF Pinned
<1>3. \A kind \in SourceKinds \ {"commit"} :
          Wanted("commit")[kind] = Wanted("release")[kind]
    BY DEF SourceKinds, Wanted
<1>4. \A i \in 1..Len(a.sources) :
          Wanted("commit")[a.sources[i]] = Wanted("release")[a.sources[i]]
    BY <1>2, <1>3
<1> QED
    BY <1>4 DEF ExpectedRevision

\* evaluate_app finds no issue exactly in the applications that README.md
\* calls converged, for any number of sources and hooks, if none is pinned; of
\* pinned repository sources it asks for the pinned commit, in place of the
\* triggering one that README.md names, and for all the rest.
THEOREM CleanMeansConverged ==
    ASSUME NEW a \in Application, NEW t \in [Hooks -> Healths]
    PROVE  /\ ~Pinned(a) => (Clean(a, t) <=> Converged(a, t))
           /\ Clean(a, t) <=> ConvergedToPins(a, t)
<1>1. RevisionsMatch(a) <=> ExpectedRevision(a, "commit")
    BY RevisionsAreWanted
<1>2. RevisionsMatch(a) => (~OperationIssue(a) <=> NoRunningOrFailedOperation(a))
    BY OperationIsWell
<1>3. ASSUME RevisionsMatch(a), NoRunningOrFailedOperation(a)
      PROVE  \A h \in Hooks : ~HookIssue(a, t, h) <=> HookIsWell(a, t, h)
    BY <1>3, NoIssueIsWell
<1>4. Clean(a, t) <=> ConvergedToPins(a, t)
    BY <1>1, <1>2, <1>3, Zenon DEF Clean, ConvergedToPins, ConvergedBut
<1>5. ~Pinned(a) => (ConvergedToPins(a, t) <=> Converged(a, t))
    BY NoPinNoMatter, Zenon DEF ConvergedToPins, Converged, ConvergedBut
<1> QED
    BY <1>4, <1>5, Zenon

-----------------------------------------------------------------------------

\* Each step of the verifier keeps the type of every variable.
LEMMA TypeStep ==
    ASSUME TypeOK, [Next]_vars
    PROVE  TypeOK'
<1> USE VerifierAssumption
<1>1. CASE BeginSample
    BY <1>1 DEF BeginSample, TypeOK, Running, clockVars, sampleVars
<1>2. CASE TimeOut
    BY <1>2 DEF TimeOut, TypeOK, Running, Answers, clockVars, sampleVars, historyVars
<1>3. CASE ListApplications
    <2>1. now' \in Nat /\ busy' \in Nat
        BY <1>3, RequestFacts DEF ListApplications
    <2> QED
        BY <1>3, <2>1 DEF ListApplications, TypeOK, Running
<1>4. CASE ListMalformed
    <2>1. now' \in Nat /\ busy' \in Nat
        BY <1>4, RequestFacts DEF ListMalformed
    <2> QED
        BY <1>4, <2>1 DEF ListMalformed, TypeOK, Running, sampleVars, historyVars
<1>5. CASE ListFails
    <2>1. now' \in Nat /\ busy' \in Nat
        BY <1>5, RequestFacts DEF ListFails
    <2> QED
        BY <1>5, <2>1 DEF ListFails, TypeOK, Running, sampleVars, historyVars
<1>6. ASSUME NEW a \in Apps, FetchTree(a) PROVE TypeOK'
    <2>1. now' \in Nat /\ busy' \in Nat
        BY <1>6, RequestFacts DEF FetchTree
    <2>2. trees' \in [Apps -> TreeStates \cup {NoTree}] /\ sound' \in BOOLEAN
        BY <1>6 DEF FetchTree, TypeOK
    <2> QED
        BY <1>6, <2>1, <2>2 DEF FetchTree, TypeOK
<1>7. CASE Denied
    <2>1. now' \in Nat /\ busy' \in Nat
        BY <1>7, RequestFacts DEF Denied
    <2> QED
        BY <1>7, <2>1 DEF Denied, TypeOK, Answers, sampleVars, historyVars
<1>8. CASE Assemble
    BY <1>8 DEF Assemble, TypeOK, Running, NoItems, NoTrees, clockVars, historyVars
<1>9. CASE Judge
    <2>1. Least(Interval, Timeout - now) \in Int
        BY DEF Least, TypeOK
    <2>2. now < Timeout => Least(Interval, Timeout - now) >= 0
        BY DEF Least, TypeOK
    <2>3. now' \in Nat /\ at' \in Running \cup Answers /\ streak' \in Nat
        BY <1>9, <2>1, <2>2 DEF Judge, Conclude, TypeOK, Running, Answers
    <2> QED
        BY <1>9, <2>3 DEF Judge, Conclude, TypeOK, sampleVars
<1>10. CASE Delay
    BY <1>10 DEF Delay, TypeOK, sampleVars, historyVars
<1>11. CASE UNCHANGED vars
    BY <1>11 DEF TypeOK, vars, clockVars, sampleVars, historyVars
<1> QED
    BY <1>1, <1>2, <1>3, <1>4, <1>5, <1>6, <1>7, <1>8, <1>9, <1>10, <1>11
    DEF Next, Step

\* A run begins with every variable in its type.
LEMMA InitTypes == Init => TypeOK
<1> SUFFICES ASSUME Init PROVE TypeOK
    OBVIOUS
<1>1. /\ items \in [Apps -> AppStates \cup {Absent}]
      /\ trees \in [Apps -> TreeStates \cup {NoTree}]
    BY DEF Init, NoItems, NoTrees
<1>2. Interval \in Nat /\ Lag \in Nat
    BY VerifierAssumption
<1>3. -Interval \in Int /\ 0 \in 0..Lag
    BY <1>2
<1> QED
    BY <1>1, <1>3 DEF Init, TypeOK, Running

-----------------------------------------------------------------------------

\* What the conclusion of a sample leaves behind.
LEMMA JudgeFacts ==
    ASSUME TypeOK, Judge
    PROVE  /\ at = "judge"
           /\ now' = now \/ (at' = "check" /\ now < Timeout /\ now' <= Timeout)
           /\ at' = "check" => now' = now + Least(Interval, Timeout - now)
           /\ at' = "check" => now' <= now + Interval
           /\ streak' = IF InTime THEN streak + 1 ELSE 0
           /\ late' = late
           /\ trouble' = IF report = "clean" THEN trouble ELSE now
           /\ busy' = IF report = "clean" THEN busy ELSE 0
           /\ at' \in {"passed", "timeout", "check"}
           /\ at' = "passed" => streak' >= Samples
           /\ at' = "timeout" => streak' < Samples /\ now >= Timeout /\ now' = now
           /\ at' = "check" => streak' < Samples /\ now < Timeout
<1> USE VerifierAssumption
<1>1. /\ Least(Interval, Timeout - now) \in Int
      /\ Least(Interval, Timeout - now) <= Interval
      /\ Least(Interval, Timeout - now) <= Timeout - now
    BY LeastFacts DEF TypeOK, Least
<1>2. now \in Nat /\ streak \in Nat
    BY DEF TypeOK
<1>3. streak' \in Nat
    BY <1>2 DEF Judge, Conclude
<1> QED
    BY <1>1, <1>2, <1>3 DEF Judge, Conclude

\* No step carries a run beyond its deadline, but for its own delays.
LEMMA DeadlineStep ==
    ASSUME TypeOK, EndsByDeadline, [Next]_vars
    PROVE  EndsByDeadline'
<1> USE VerifierAssumption DEF EndsByDeadline
<1>1. now \in Nat /\ late \in Nat /\ Timeout \in Nat /\ now' \in Nat
    BY TypeStep DEF TypeOK
<1>2. ASSUME RequestTakesTime, late' = late PROVE EndsByDeadline'
    BY <1>1, <1>2, RequestFacts
<1>3. CASE ListApplications \/ ListMalformed \/ ListFails \/ Denied
    BY <1>2, <1>3 DEF ListApplications, ListMalformed, ListFails, Denied
<1>4. CASE \E a \in Apps : FetchTree(a)
    BY <1>2, <1>4 DEF FetchTree
<1>5. CASE BeginSample \/ TimeOut \/ Assemble \/ UNCHANGED vars
    BY <1>1, <1>5 DEF BeginSample, TimeOut, Assemble, vars, clockVars
<1>6. CASE Judge
    <2>1. now' = now \/ now' <= Timeout
        BY <1>6, JudgeFacts
    <2>2. late' = late
        BY <1>6, JudgeFacts
    <2> QED
        BY <1>1, <2>1, <2>2
<1>7. CASE Delay
    BY <1>1, <1>7 DEF Delay
<1> QED
    BY <1>3, <1>4, <1>5, <1>6, <1>7 DEF Next, Step

\* The streak stays proven through every step.
LEMMA StreakStep ==
    ASSUME TypeOK, StreakIsProven, [Next]_vars
    PROVE  StreakIsProven'
<1> USE VerifierAssumption
<1>0. /\ now \in Nat /\ ended \in Nat /\ began \in Nat /\ proven \in Nat
      /\ streak \in Nat /\ Timeout \in Nat /\ Interval \in Nat \ {0}
    BY DEF TypeOK
<1>1. CASE BeginSample
    <2>1. proven > 0 => now >= ended + Interval
        BY <1>0, <1>1 DEF BeginSample, StreakIsProven, Least
    <2> QED
        BY <1>0, <1>1, <2>1
        DEF BeginSample, StreakIsProven, Running, clockVars, sampleVars
<1>2. CASE TimeOut
    BY <1>2 DEF TimeOut, StreakIsProven, Running, historyVars, clockVars, sampleVars
<1>3. CASE ListApplications
    <2>1. (\A a \in Apps : WellSoFar(a))' => sound'
        BY <1>3 DEF ListApplications, WellSoFar
    <2> QED
        BY <1>3, <2>1 DEF ListApplications, StreakIsProven, Running
<1>4. CASE ListMalformed
    BY <1>4 DEF ListMalformed, StreakIsProven, Running, historyVars
<1>5. CASE ListFails
    BY <1>5 DEF ListFails, StreakIsProven, Running, historyVars
<1>6. ASSUME NEW a \in Apps, FetchTree(a) PROVE StreakIsProven'
    <2>1. ASSUME \A b \in Apps : WellSoFar(b)'  PROVE sound'
        <3>1. PICK t \in TreeStates \cup {NoTree} :
                  /\ trees' = [trees EXCEPT ![a] = t]
                  /\ sound' = (sound /\ t # NoTree /\ ConvergedToPins(items[a], t))
            BY <1>6 DEF FetchTree
        <3>2. trees'[a] = t /\ items' = items /\ a \notin todo' /\ a \in todo
            BY <1>6, <3>1 DEF FetchTree, TypeOK
        <3>3. WellSoFar(a)'
            BY <2>1
        <3>4. t # NoTree /\ ConvergedToPins(items[a], t)
            BY <3>2, <3>3 DEF WellSoFar
        <3>5. ASSUME NEW b \in Apps PROVE WellSoFar(b)
            <4>1. CASE b = a
                BY <3>2, <3>3, <4>1 DEF WellSoFar
            <4>2. CASE b # a
                <5>1. trees'[b] = trees[b] /\ (b \in todo' <=> b \in todo)
                    BY <1>6, <3>1, <4>2 DEF FetchTree, TypeOK
                <5>2. WellSoFar(b)'
                    BY <2>1
                <5> QED
                    BY <3>2, <5>1, <5>2 DEF WellSoFar
            <4> QED
                BY <4>1, <4>2
        <3>6. at = "trees"
            BY <1>6 DEF FetchTree
        <3>7. sound
            BY <3>5, <3>6 DEF StreakIsProven
        <3> QED
            BY <3>1, <3>4, <3>7
    <2>2. at = "trees" /\ at' = at
        BY <1>6 DEF FetchTree
    <2> QED
        BY <1>6, <2>1, <2>2 DEF FetchTree, StreakIsProven, Running
<1>7. CASE Denied
    BY <1>7 DEF Denied, StreakIsProven, Running, historyVars, sampleVars
<1>8. CASE Assemble
    <2>1. ASSUME report' = "clean" PROVE sound
        <3>1. \A a \in Apps : /\ items[a] # Absent
                              /\ trees[a] # NoTree
                              /\ Clean(items[a], trees[a])
            BY <1>8, <2>1 DEF Assemble
        <3>2. ASSUME NEW a \in Apps PROVE WellSoFar(a)
            <4>1. items[a] \in Application /\ trees[a] \in [Hooks -> Healths]
                BY <3>1, VerifierAssumption DEF TypeOK
            <4> QED
                BY <3>1, <4>1, CleanMeansConverged DEF WellSoFar
        <3> QED
            BY <1>8, <3>2 DEF Assemble, StreakIsProven
    <2> QED
        BY <1>8, <2>1
        DEF Assemble, StreakIsProven, Running, clockVars, historyVars
<1>9. CASE Judge
    <2>1. proven' = (IF sound /\ now < Timeout THEN proven + 1 ELSE 0)
        BY <1>9 DEF Judge, Conclude
    <2>2. ended' = now /\ spaced' = (proven = 0 \/ (spaced /\ began >= ended + Interval))
        BY <1>9 DEF Judge, Conclude
    <2>3. /\ at = "judge"
          /\ streak' = IF InTime THEN streak + 1 ELSE 0
          /\ at' \in {"passed", "timeout", "check"}
          /\ at' = "passed" => streak' >= Samples
          /\ at' = "check" => streak' < Samples
          /\ at' = "check" => now' = now + Least(Interval, Timeout - now)
        BY <1>9, JudgeFacts
    <2>4. streak' <= proven'
        BY <1>0, <2>1, <2>3 DEF StreakIsProven, InTime
    <2>5. spaced'
        <3>1. proven = 0 \/ (spaced /\ began >= ended + Interval)
            BY <1>0, <2>3 DEF StreakIsProven
        <3> QED
            BY <2>2, <3>1, Zenon
    <2>6. proven' > 0 => ended' < Timeout
        BY <1>0, <2>1, <2>2
    <2>7. at' = "check" => now' >= Least(ended' + Interval, Timeout)
        BY <1>0, <2>2, <2>3 DEF Least
    <2> QED
        BY <2>3, <2>4, <2>5, <2>6, <2>7 DEF StreakIsProven, Running
<1>10. CASE Delay
    <2>1. at = "check" /\ proven > 0 => now' >= Least(ended + Interval, Timeout)
        BY <1>0, <1>10 DEF Delay, StreakIsProven, Least
    <2>2. (\A a \in Apps : WellSoFar(a))' <=> (\A a \in Apps : WellSoFar(a))
        BY <1>10 DEF Delay, WellSoFar, sampleVars
    <2> QED
        BY <1>10, <2>1, <2>2 DEF Delay, StreakIsProven, Running, historyVars
<1>11. CASE UNCHANGED vars
    BY <1>11 DEF StreakIsProven, WellSoFar, vars, clockVars, sampleVars, historyVars
<1> QED
    BY <1>1, <1>2, <1>3, <1>4, <1>5, <1>6, <1>7, <1>8, <1>9, <1>10, <1>11
    DEF Next, Step

\* All time is accounted for through every step.
LEMMA TimeStep ==
    ASSUME TypeOK, StreakIsProven, TimeIsAccounted, [Next]_vars
    PROVE  TimeIsAccounted'
<1> DEFINE w == Interval
           spent == trouble + (streak + 1) * w + busy + late
           enough == Samples * w
<1>0. /\ now \in Nat /\ late \in Nat /\ busy \in Nat /\ streak \in Nat
      /\ trouble \in Int /\ Samples \in Nat /\ Timeout \in Nat /\ w \in Nat
      /\ now' \in Nat /\ late' \in Nat /\ busy' \in Nat
    BY TypeStep, VerifierAssumption DEF TypeOK
<1>1. /\ (streak + 1) * w = streak * w + w /\ streak * w \in Nat
      /\ enough \in Nat /\ 0 * w = 0 /\ (0 + 1) * w = w
    BY <1>0, OneMore
<1>2. spent \in Int /\ spent = trouble + streak * w + w + busy + late
    BY <1>0, <1>1
<1>A. /\ at \in {"check", "list", "trees"} => now <= spent
      /\ at = "judge" /\ report = "clean" => now <= spent
      /\ at = "timeout" => trouble + enough + busy + late >= Timeout
    BY DEF TimeIsAccounted
<1>B. ASSUME NEW n \in Nat, streak' = n, NEW e \in Int, trouble' = e,
             NEW f \in Nat, f = (n + 1) * w,
             /\ at' \in {"check", "list", "trees"} => now' <= e + f + busy' + late'
             /\ at' = "judge" /\ report' = "clean" => now' <= e + f + busy' + late'
             /\ at' = "timeout" => e + enough + busy' + late' >= Timeout
      PROVE  TimeIsAccounted'
    BY <1>B DEF TimeIsAccounted
<1> HIDE DEF w, enough
<1>C. ASSUME streak' = streak, trouble' = trouble,
             \/ at' \notin {"check", "list", "trees", "judge", "timeout"}
             \/ at' = "judge" /\ report' # "clean"
             \/ now' - now = (busy' - busy) + (late' - late) /\ now <= spent /\ at' # "timeout"
      PROVE  TimeIsAccounted'
    <2>1. (streak + 1) * w \in Nat
        BY <1>0, <1>1
    <2>2. CASE at' \notin {"check", "list", "trees", "judge", "timeout"}
        BY <1>0, <1>B, <1>C, <2>1, <2>2
    <2>3. CASE at' = "judge" /\ report' # "clean"
        BY <1>0, <1>B, <1>C, <2>1, <2>3
    <2>4. CASE /\ now' - now = (busy' - busy) + (late' - late)
               /\ now <= spent /\ at' # "timeout"
        <3>1. PICK f \in Nat : f = (streak + 1) * w
            BY <2>1
        <3>2. /\ now <= trouble + f + busy + late
              /\ now' - now = (busy' - busy) + (late' - late)
            BY <2>4, <3>1
        <3>3. PICK n \in Nat, b \in Nat, l \in Nat :
                  n = now' /\ b = busy' /\ l = late'
            BY <1>0
        <3>4. n - now = (b - busy) + (l - late)
            BY <3>2, <3>3
        <3>5. n <= trouble + f + b + l
            BY <1>0, <3>2, <3>4
        <3>6. now' <= trouble + f + busy' + late'
            BY <3>3, <3>5
        <3> QED
            BY <1>0, <1>B, <1>C, <2>4, <3>1, <3>6
    <2> QED
        BY <1>C, <2>2, <2>3, <2>4
<1> HIDE DEF spent
<1>3. CASE BeginSample
    BY <1>0, <1>3, <1>A, <1>C DEF BeginSample, clockVars
<1>4. CASE TimeOut
    <2>1. /\ streak < Samples /\ now <= spent /\ now >= Timeout
          /\ UNCHANGED <<busy, late, streak, trouble>> /\ at' = "timeout"
        BY <1>4, <1>A DEF TimeOut, StreakIsProven, Running, clockVars, historyVars
    <2>2. streak * w + w <= enough
        BY <1>0, <2>1, FewerTakeLess DEF enough
    <2>3. trouble + enough + busy + late >= Timeout
        BY <1>0, <1>1, <1>2, <2>1, <2>2
    <2>4. (streak + 1) * w \in Nat
        BY <1>0, <1>1
    <2> QED
        BY <1>0, <2>1, <2>3, <2>4, <1>B
<1>5. CASE ListApplications
    <2>1. now' - now = busy' - busy /\ now <= spent
        BY <1>5, <1>A, RequestFacts DEF ListApplications
    <2> QED
        BY <1>0, <1>5, <2>1, <1>C DEF ListApplications
<1>6. CASE ListMalformed \/ ListFails
    BY <1>6, <1>C DEF ListMalformed, ListFails, historyVars
<1>7. ASSUME NEW a \in Apps, FetchTree(a) PROVE TimeIsAccounted'
    <2>1. now' - now = busy' - busy /\ now <= spent
        BY <1>7, <1>A, RequestFacts DEF FetchTree
    <2> QED
        BY <1>0, <1>7, <2>1, <1>C DEF FetchTree
<1>8. CASE Denied
    BY <1>8, <1>C DEF Denied, historyVars
<1>9. CASE Assemble
    BY <1>0, <1>9, <1>A, <1>C DEF Assemble, clockVars, historyVars
<1>10. CASE Judge
    <2>1. /\ at = "judge" /\ late' = late
          /\ streak' = IF InTime THEN streak + 1 ELSE 0
          /\ trouble' = IF report = "clean" THEN trouble ELSE now
          /\ busy' = IF report = "clean" THEN busy ELSE 0
          /\ at' \in {"passed", "timeout", "check"}
          /\ at' = "timeout" => streak' < Samples /\ now >= Timeout
          /\ at' = "check" => now' <= now + w /\ now < Timeout
        BY <1>10, JudgeFacts DEF w
    <2>2. streak < Samples
        BY <2>1 DEF StreakIsProven, Running
    <2>3. streak * w + w <= enough
        BY <1>0, <2>2, FewerTakeLess DEF enough
    <2>4. /\ streak + 1 \in Nat /\ (streak + 1) * w \in Nat
          /\ ((streak + 1) + 1) * w = (streak + 1) * w + w
        BY <1>0, OneMore
    <2>5. CASE report = "clean" /\ at' = "check"
        <3>1. /\ streak' = streak + 1 /\ trouble' = trouble /\ busy' = busy
              /\ now <= spent
            BY <2>1, <2>5, <1>A DEF InTime
        <3> DEFINE f == ((streak + 1) + 1) * w
        <3>2. f \in Nat /\ f = streak * w + w + w
            BY <1>0, <1>1, <2>4
        <3>3. now' <= trouble + f + busy' + late'
            <4> HIDE DEF f
            <4> QED
                BY <1>0, <1>1, <1>2, <2>1, <2>5, <3>1, <3>2
        <3> QED
            BY <1>0, <2>4, <2>5, <3>1, <3>2, <3>3, <1>B
    <2>6. CASE report = "clean" /\ at' # "check"
        <3>1. now <= spent /\ trouble' = trouble /\ busy' = busy
            BY <2>1, <2>6, <1>A
        <3>2. at' = "timeout" => trouble + enough + busy' + late' >= Timeout
            BY <1>0, <1>1, <1>2, <2>1, <2>3, <3>1
        <3>3. /\ streak' \in {0, streak + 1}
              /\ 0 * w \in Nat /\ (0 + 1) * w \in Nat
              /\ ((streak + 1) + 1) * w \in Nat
            BY <1>0, <1>1, <2>1, <2>4
        <3>4. CASE streak' = 0
            BY <1>0, <2>1, <2>6, <3>1, <3>2, <3>3, <3>4, <1>B
        <3>5. CASE streak' = streak + 1
            BY <1>0, <2>1, <2>4, <2>6, <3>1, <3>2, <3>3, <3>5, <1>B
        <3> QED
            BY <3>3, <3>4, <3>5
    <2>7. CASE report # "clean"
        <3>1. streak' = 0 /\ trouble' = now /\ busy' = 0
            BY <2>1, <2>7 DEF InTime
        <3>2. at' = "check" => now' <= now + (0 + 1) * w + busy' + late'
            BY <1>0, <1>1, <2>1, <3>1
        <3>3. at' = "timeout" => now + enough + busy' + late' >= Timeout
            BY <1>0, <1>1, <2>1, <3>1
        <3>4. (0 + 1) * w \in Nat
            BY <1>0, <1>1
        <3> QED
            BY <1>0, <2>1, <3>1, <3>2, <3>3, <3>4, <1>B
    <2> QED
        BY <2>5, <2>6, <2>7
<1>11. CASE Delay
    <2>1. /\ now' = now + 1 /\ late' = late + 1 /\ at' = at /\ at \in Running
          /\ UNCHANGED <<busy, report, streak, trouble>>
        BY <1>11 DEF Delay, historyVars
    <2>2. now' - now = (busy' - busy) + (late' - late) /\ at' # "timeout"
        BY <1>0, <2>1 DEF Running
    <2>3. CASE at = "judge" /\ report # "clean"
        BY <2>1, <2>3, <1>C
    <2>4. CASE ~(at = "judge" /\ report # "clean")
        <3>1. now <= spent
            BY <2>1, <2>4, <1>A DEF Running
        <3> QED
            BY <2>1, <2>2, <3>1, <1>C
    <2> QED
        BY <2>3, <2>4
<1>12. CASE UNCHANGED vars
    BY <1>12 DEF TimeIsAccounted, vars, clockVars, historyVars
<1> QED
    BY <1>3, <1>4, <1>5, <1>6, <1>7, <1>8, <1>9, <1>10, <1>11, <1>12
    DEF Next, Step

-----------------------------------------------------------------------------

\* The inductive invariant holds in every run.
THEOREM DisciplineHolds == Spec => []Discipline
<1>1. ASSUME Init PROVE Discipline
    <2>1. /\ Timeout \in Nat /\ Interval \in Nat /\ Samples \in Nat \ {0}
        BY VerifierAssumption
    <2>2. EndsByDeadline /\ StreakIsProven
        BY <1>1, <2>1 DEF Init, EndsByDeadline, StreakIsProven, Running
    <2>3. (0 + 1) * Interval = Interval
        BY <2>1
    <2>4. TimeIsAccounted
        BY <1>1, <2>1, <2>3 DEF Init, TimeIsAccounted
    <2> QED
        BY <1>1, <2>2, <2>4, InitTypes DEF Discipline
<1>2. Discipline /\ [Next]_vars => Discipline'
    BY TypeStep, DeadlineStep, StreakStep, TimeStep DEF Discipline
<1> QED
    BY <1>1, <1>2, PTL DEF Spec

\* A run passes only after enough clean samples in a row, spaced and in time.
THEOREM PassIsAlwaysEarned == Spec => []PassIsEarned
<1>1. Discipline => PassIsEarned
    <2> SUFFICES ASSUME Discipline, at = "passed"
                 PROVE  proven >= Samples /\ spaced /\ ended < Timeout
        BY DEF PassIsEarned
    <2>1. /\ streak \in Nat /\ proven \in Nat /\ Samples \in Nat \ {0}
        BY VerifierAssumption DEF Discipline, TypeOK
    <2>2. streak >= Samples /\ streak <= proven /\ spaced
        BY DEF Discipline, StreakIsProven
    <2>3. proven >= Samples /\ proven > 0
        BY <2>1, <2>2
    <2> QED
        BY <2>2, <2>3 DEF Discipline, StreakIsProven
<1> QED
    BY <1>1, DisciplineHolds, PTL

\* A run never outlives its deadline by more than its own delays.
THEOREM DeadlineIsKept == Spec => []EndsByDeadline
<1>1. Discipline => EndsByDeadline
    BY DEF Discipline
<1> QED
    BY <1>1, DisciplineHolds, PTL

\* A run that times out had no time left for enough clean samples, with the
\* time its requests took and its process was not scheduled.
THEOREM TimeoutIsDeserved == Spec => []NoFalseTimeout
<1>1. Discipline => NoFalseTimeout
    BY DEF Discipline, TimeIsAccounted, NoFalseTimeout
<1> QED
    BY <1>1, DisciplineHolds, PTL

-----------------------------------------------------------------------------
(* A run uses up its steps.                                                  *)

\* The samples for which there is still time.
LEMMA TimeOnlyRunsOut ==
    ASSUME TypeOK, NEW t \in Nat, t >= now
    PROVE  /\ (IF now < Timeout THEN Timeout - now ELSE 0) \in Nat
           /\ (IF t < Timeout THEN Timeout - t ELSE 0) \in Nat
           /\ (IF t < Timeout THEN Timeout - t ELSE 0)
                  <= (IF now < Timeout THEN Timeout - now ELSE 0)
           /\ now < Timeout /\ t > now =>
                  (IF t < Timeout THEN Timeout - t ELSE 0)
                      < (IF now < Timeout THEN Timeout - now ELSE 0)
BY VerifierAssumption DEF TypeOK

\* A step that costs no sample costs one of the steps in it; a step that
\* costs a sample may start another one.
LEMMA Spent ==
    ASSUME NEW n \in Nat, NEW m \in Nat, NEW w \in Nat, NEW x \in Nat,
           NEW y \in Nat, n <= m, x <= w,
           (n < m /\ y > 0) \/ x < y
    PROVE  n * w + x \in Nat /\ n * w + x < m * w + y
<1>1. n * w \in Nat /\ m * w \in Nat
    BY OneMore
<1>2. CASE n < m /\ y > 0
    <2>1. n * w + w <= m * w
        BY <1>2, FewerTakeLess
    <2> HIDE DEF OneMore
    <2> QED
        BY <1>1, <1>2, <2>1
<1>3. CASE n = m
    BY <1>1, <1>3
<1>4. CASE n < m /\ x < y
    BY <1>2, <1>4
<1> QED
    BY <1>2, <1>3, <1>4

\* What is left of a sample at each point of it.
LEMMA PlaceInSample ==
    ASSUME NEW s \in Running \cup Answers, NEW w, NEW n
    PROVE  LET left == [check |-> w, list |-> w - 1, trees |-> 2 + n, judge |-> 1,
                        passed |-> 0, timeout |-> 0, denied |-> 0][s] IN
           /\ s = "check" => left = w
           /\ s = "list" => left = w - 1
           /\ s = "trees" => left = 2 + n
           /\ s = "judge" => left = 1
           /\ s \in Answers => left = 0
BY DEF Running, Answers

\* Each step uses up one of the steps that are left.
LEMMA StepCounts ==
    ASSUME TypeOK, Next
    PROVE  StepsLeft' \in 0..(StepsLeft - 1)
<1> DEFINE samples == IF now < Timeout THEN Timeout - now ELSE 0
           inSample == [check   |-> SampleSteps,
                        list    |-> SampleSteps - 1,
                        trees   |-> 2 + Cardinality(todo),
                        judge   |-> 1,
                        passed  |-> 0, timeout |-> 0, denied |-> 0][at]
           w == SampleSteps
           c == Cardinality(Apps)
<1>1. TypeOK'
    BY TypeStep
<1>2. /\ c \in Nat /\ w = 4 + c /\ w \in Nat
      /\ Cardinality(todo) \in Nat /\ Cardinality(todo) <= c
      /\ Cardinality(todo') \in Nat /\ Cardinality(todo') <= c
    BY <1>1, SampleFacts DEF TypeOK, SampleSteps
<1>3. /\ at = "check" => inSample = w
      /\ at = "list" => inSample = w - 1
      /\ at = "trees" => inSample = 2 + Cardinality(todo)
      /\ at = "judge" => inSample = 1
      /\ at \in Answers => inSample = 0
    BY PlaceInSample, Zenon DEF TypeOK
<1>4. /\ at' = "check" => inSample' = w
      /\ at' = "list" => inSample' = w - 1
      /\ at' = "trees" => inSample' = 2 + Cardinality(todo')
      /\ at' = "judge" => inSample' = 1
      /\ at' \in Answers => inSample' = 0
    BY <1>1, PlaceInSample, Zenon DEF TypeOK, SampleSteps
<1>5. /\ inSample \in Nat /\ inSample <= w
      /\ inSample' \in Nat /\ inSample' <= w
      /\ at \in Running => inSample > 0
    <2> HIDE DEF w, c, inSample
    <2>1. /\ at \in Running \cup Answers
          /\ at' \in Running \cup Answers
        BY <1>1 DEF TypeOK
    <2> QED
        BY <1>2, <1>3, <1>4, <2>1 DEF Running
<1>6. StepsLeft = samples * w + inSample + (Lag - late)
    BY DEF StepsLeft
<1>7. StepsLeft' = samples' * w + inSample' + (Lag - late')
    BY DEF StepsLeft, SampleSteps
<1>8. /\ late \in 0..Lag /\ late' \in 0..Lag /\ Lag \in Nat
      /\ now \in Nat /\ now' \in Nat /\ Timeout \in Nat /\ Interval \in Nat \ {0}
    BY <1>1, VerifierAssumption DEF TypeOK
<1>9. ASSUME now' >= now
      PROVE  /\ samples \in Nat /\ samples' \in Nat /\ samples' <= samples
             /\ now < Timeout /\ now' > now => samples' < samples
    BY <1>8, <1>9, TimeOnlyRunsOut
<1> HIDE DEF samples, inSample, w, c
<1>10. ASSUME now' >= now, late' = late,
              inSample' < inSample \/ (samples' < samples /\ inSample > 0)
       PROVE  StepsLeft' \in 0..(StepsLeft - 1)
    <2>1. /\ samples' * w + inSample' \in Nat
          /\ samples' * w + inSample' < samples * w + inSample
        BY <1>2, <1>5, <1>9, <1>10, Spent
    <2>2. samples * w \in Nat
        BY <1>2, <1>9, <1>10, OneMore
    <2> QED
        BY <1>5, <1>6, <1>7, <1>8, <1>10, <2>1, <2>2
<1>11. ASSUME RequestTakesTime PROVE now' >= now
    BY <1>8, <1>11, RequestFacts
<1>12. CASE BeginSample
    BY <1>2, <1>3, <1>4, <1>8, <1>10, <1>12 DEF BeginSample, clockVars
<1>13. CASE TimeOut
    BY <1>2, <1>3, <1>4, <1>8, <1>10, <1>13 DEF TimeOut, clockVars, Answers
<1>14. CASE ListApplications
    <2>1. inSample' < inSample
        BY <1>2, <1>3, <1>4, <1>14 DEF ListApplications
    <2> QED
        BY <1>10, <1>11, <1>14, <2>1 DEF ListApplications
<1>15. CASE ListMalformed \/ ListFails
    <2>1. inSample' < inSample
        BY <1>2, <1>3, <1>4, <1>15 DEF ListMalformed, ListFails
    <2> QED
        BY <1>10, <1>11, <1>15, <2>1 DEF ListMalformed, ListFails
<1>16. ASSUME NEW a \in Apps, FetchTree(a) PROVE StepsLeft' \in 0..(StepsLeft - 1)
    <2>1. /\ todo' = todo \ {a} /\ a \in todo /\ IsFiniteSet(todo)
          /\ at = "trees" /\ at' = "trees"
        BY <1>16, SampleFacts DEF FetchTree, TypeOK
    <2>2. Cardinality(todo') = Cardinality(todo) - 1
        BY <2>1, FS_RemoveElement
    <2>3. inSample' < inSample
        BY <1>2, <1>3, <1>4, <2>1, <2>2
    <2> QED
        BY <1>10, <1>11, <1>16, <2>3 DEF FetchTree
<1>17. CASE Denied
    <2>1. inSample' < inSample
        BY <1>2, <1>3, <1>4, <1>17 DEF Denied, Answers
    <2> QED
        BY <1>10, <1>11, <1>17, <2>1 DEF Denied
<1>18. CASE Assemble
    <2>1. inSample' < inSample
        BY <1>2, <1>3, <1>4, <1>18 DEF Assemble
    <2> QED
        BY <1>8, <1>10, <1>18, <2>1 DEF Assemble, clockVars
<1>19. CASE Judge
    <2>1. /\ at = "judge" /\ late' = late
          /\ now' = now \/ (at' = "check" /\ now < Timeout /\ now' <= Timeout)
          /\ at' \in {"passed", "timeout", "check"}
          /\ at' = "check" => now' = now + Least(Interval, Timeout - now)
          /\ at' = "check" => now < Timeout
        BY <1>19, JudgeFacts
    <2>2. CASE at' = "check"
        <3>1. now' > now /\ now < Timeout
            BY <1>8, <2>1, <2>2 DEF Least
        <3>2. now' >= now
            BY <1>8, <3>1
        <3> QED
            BY <1>3, <1>9, <1>10, <2>1, <3>1, <3>2
    <2>3. CASE at' # "check"
        BY <1>3, <1>4, <1>8, <1>10, <2>1, <2>3 DEF Answers
    <2> QED
        BY <2>2, <2>3
<1>20. CASE Delay
    <2>1. /\ at \in Running /\ at' = at /\ todo' = todo
          /\ now' = now + 1 /\ late' = late + 1
        BY <1>20 DEF Delay, sampleVars
    <2>2. inSample' = inSample /\ now' >= now
        BY <1>8, <2>1 DEF inSample, SampleSteps
    <2>3. /\ samples' * w + inSample' \in Nat
          /\ samples' * w + inSample' < samples * w + (inSample + 1)
        BY <1>2, <1>5, <1>9, <2>2, Spent
    <2>4. samples * w \in Nat
        BY <1>2, <1>9, <2>2, OneMore
    <2> QED
        BY <1>5, <1>6, <1>7, <1>8, <2>1, <2>3, <2>4
<1> QED
    BY <1>12, <1>13, <1>14, <1>15, <1>16, <1>17, <1>18, <1>19, <1>20
    DEF Next, Step

\* Every step of a run leaves fewer to take: no run goes on for ever.
THEOREM RunsAreFinite == Spec => StepsRunOut
<1>1. TypeOK /\ [Next]_vars => [StepsLeft' \in 0..(StepsLeft - 1)]_vars
    BY StepCounts
<1>2. Discipline => TypeOK
    BY DEF Discipline
<1> QED
    BY <1>1, <1>2, DisciplineHolds, PTL DEF Spec, StepsRunOut

-----------------------------------------------------------------------------
(* One call of evaluate_app.                                                 *)

\* Every verdict of an evaluation is what README.md says of the application, up
\* to its pinned sources.
THEOREM VerdictsAreConverged == EvaluationSpec => []CleanIsConverged
<1> DEFINE IInv ==
        /\ app \in Application
        /\ tree \in [Hooks -> Healths]
        /\ CleanIsConverged
<1>1. EvaluationInit => IInv
    BY DEF EvaluationInit, CleanIsConverged
<1>2. IInv /\ [Evaluate]_evaluation => IInv'
    <2> SUFFICES ASSUME IInv, [Evaluate]_evaluation PROVE IInv'
        OBVIOUS
    <2>1. CASE UNCHANGED evaluation
        BY <2>1 DEF evaluation, CleanIsConverged
    <2>2. CASE Evaluate
        <3>1. /\ app' = app /\ tree' = tree
              /\ verdict' = IF Clean(app, tree) THEN "clean" ELSE "unclean"
            BY <2>2 DEF Evaluate
        <3>2. /\ ~Pinned(app) => (Clean(app, tree) <=> Converged(app, tree))
              /\ Clean(app, tree) <=> ConvergedToPins(app, tree)
            BY CleanMeansConverged
        <3>3. CleanIsConverged'
            BY <3>1, <3>2 DEF CleanIsConverged
        <3> QED
            BY <3>1, <3>3
    <2> QED
        BY <2>1, <2>2
<1> QED
    BY <1>1, <1>2, PTL DEF EvaluationSpec
=============================================================================
