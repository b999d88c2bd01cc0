--------------------------- MODULE ArgoApplication ---------------------------
(***************************************************************************)
(* evaluate_app of deployment-verifier.py: what one application, as the    *)
(* Argo CD API reports it, says about the deployment of a commit.  An      *)
(* application has one or several sources, the last operation on it and    *)
(* hooks; the resource tree is a second answer that tells the health of    *)
(* resources.  The triggering commit is "release".  The last part says     *)
(* what README.md calls converged, without a look at how it is decided.    *)
(***************************************************************************)
EXTENDS Sequences, Naturals

CONSTANT Hooks  \* hook resources

\* A Helm chart, this repository at a branch or at a commit, and anything
\* whose revision cannot be told: another repository, no target revision.
SourceKinds == {"chart", "branch", "commit", "other"}

\* "older" is a revision that no source expects; "" is no health at all.
Revisions == {"release", "chart", "commit", "older"}
BadHealth == {"Degraded", "Missing", "Progressing", "Unknown", "Suspended"}
Lost == {"Degraded", "Missing"}
Healths == {"", "Healthy"} \cup BadHealth
HookPhases == {"", "Running", "Succeeded", "Failed", "Error"}

\* "none" is an application without an operation state, "malformed" one whose
\* state is no object, "" one whose state has no phase, "odd" any phase that
\* Argo CD does not have.
OperationPhases == {"none", "malformed", "", "Running", "Terminating",
                    "Succeeded", "Failed", "Error", "odd"}

HookReport == [
    result : BOOLEAN,     \* it is in the result of the last operation ...
    phase  : HookPhases,  \* ... in this phase
    listed : BOOLEAN,     \* it is among the application's own resources ...
    health : Healths ]    \* ... with this health

Application == [
    sources   : Seq(SourceKinds) \ {<<>>},  \* no source at all is an "other"
    observed  : Seq(Revisions),     \* the revisions it is synced to
    sync      : {"Synced", "OutOfSync"},
    health    : Healths,
    requested : BOOLEAN,            \* an operation is requested, not started
    phase     : OperationPhases,
    finished  : BOOLEAN,            \* the operation has a time of finishing
    targets   : Seq(Revisions),     \* what it deployed; <<>> if unknown
    hooks     : [Hooks -> HookReport] ]

-----------------------------------------------------------------------------

\* _source_expectation: the revision a source must have, "none" if untold.
Expectation(kind) ==
    [chart |-> "chart", branch |-> "release", commit |-> "commit",
     other |-> "none"][kind]

Expected(app) == [i \in DOMAIN app.sources |-> Expectation(app.sources[i])]

AllTold(app) == \A i \in DOMAIN app.sources : Expected(app)[i] # "none"

RevisionsMatch(app) == AllTold(app) /\ app.observed = Expected(app)

\* Mutant: an operation of unknown target is taken for an older one.
HistoricalOrUnknown(app) ==
    \/ /\ app.phase \in {"Succeeded", "Failed", "Error"}
       /\ AllTold(app)
       /\ app.targets # Expected(app)
    \/ app.phase = "" /\ app.finished
    \/ app.phase = "malformed"

\* The last operation is not about the expected revisions.
Historical(app) ==
    \/ /\ app.phase \in {"Succeeded", "Failed", "Error"}
       /\ app.targets # <<>>
       /\ AllTold(app)
       /\ app.targets # Expected(app)
    \/ app.phase = "" /\ app.finished
    \/ app.phase = "malformed"

OperationIssue(app) ==
    \/ app.requested
    \/ app.phase \in {"malformed", "Running", "Terminating", "odd"}
    \/ app.phase \in {"Failed", "Error"} /\ ~Historical(app)
    \/ app.phase = "" /\ ~app.finished

\* The tree's health of a hook goes before the one in the resource list.
Live(app, tree, h) == IF tree[h] # "" THEN tree[h] ELSE app.hooks[h].health

\* _hook_state, for a hook of the last operation.
ResultIssue(app, tree, h) ==
    LET phase == app.hooks[h].phase
        live  == Live(app, tree, h) IN
    \/ live \in Lost
    \/ /\ ~Historical(app)
       /\ \/ phase \notin {"", "Succeeded"}
          \/ live \in BadHealth
          \/ live = "" /\ phase # "Succeeded"

\* _hook_state, for a hook that is only among the resources.
ResourceIssue(app, tree, h) ==
    LET live == Live(app, tree, h) IN
    live \in Lost \/ (live \in BadHealth /\ ~Historical(app))

HookIssue(app, tree, h) ==
    \/ app.hooks[h].result /\ ResultIssue(app, tree, h)
    \/ ~app.hooks[h].result /\ app.hooks[h].listed /\ ResourceIssue(app, tree, h)

\* An application without issues, once its resource tree has been read.
Clean(app, tree) ==
    /\ app.sync = "Synced"
    /\ app.health = "Healthy"
    /\ RevisionsMatch(app)
    /\ ~OperationIssue(app)
    /\ \A h \in Hooks : ~HookIssue(app, tree, h)

-----------------------------------------------------------------------------
(* README.md:143-158 in its own words and, for hooks, the cases that          *)
(* scripts/tests/test_deployment_verifier.py:249-428 settles.                 *)

\* "the triggering commit for repository sources and the declared chart
\* version for Helm charts": pin is what a source pinned to a commit must be at.
Wanted(pin) == [chart |-> {"chart"}, branch |-> {"release"}, commit |-> {pin},
                other |-> {}]

ExpectedRevision(a, pin) ==
    /\ Len(a.observed) = Len(a.sources)
    /\ \A i \in 1..Len(a.sources) : a.observed[i] \in Wanted(pin)[a.sources[i]]

Pinned(a) == \E i \in 1..Len(a.sources) : a.sources[i] = "commit"

\* "A terminal operation whose recorded target differs from the expected
\* revision is reported as historical evidence".
AboutAnother(a) ==
    /\ a.targets # <<>>
    /\ a.targets # a.observed

\* "no running or failed operation"; "an Error or Failed operation with no
\* provable target fails closed".
NoRunningOrFailedOperation(a) ==
    /\ ~a.requested
    /\ \/ a.phase \in {"none", "Succeeded"}
       \/ a.phase = "" /\ a.finished
       \/ a.phase \in {"Failed", "Error"} /\ AboutAnother(a)

\* A hook that is lost counts whatever the operation was about; a hook that
\* has failed, runs, or is not known to be well counts unless the operation
\* was about another revision.
HookIsWell(a, t, h) ==
    LET hook == a.hooks[h]
        now  == IF t[h] = "" THEN hook.health ELSE t[h]
        past == a.phase = "" \/ (a.phase # "none" /\ AboutAnother(a)) IN
    hook.result \/ hook.listed =>
        /\ now \notin Lost
        /\ past \/ now \in {"", "Healthy"}
        /\ hook.result /\ ~past =>
               \/ hook.phase = "Succeeded"
               \/ hook.phase = "" /\ now = "Healthy"

ConvergedBut(a, t, pin) ==
    /\ a.sync = "Synced"
    /\ a.health = "Healthy"
    /\ ExpectedRevision(a, pin)
    /\ NoRunningOrFailedOperation(a)
    /\ \A h \in Hooks : HookIsWell(a, t, h)

\* An application has converged to the release.
Converged(a, t) == ConvergedBut(a, t, "release")

\* It has, but for repository sources that are pinned to another commit, and
\* are at that one: more than the README allows.
ConvergedToPins(a, t) == ConvergedBut(a, t, "commit")
=============================================================================
