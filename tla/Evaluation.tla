------------------------------ MODULE Evaluation ------------------------------
(***************************************************************************)
(* One call of evaluate_app: any application that the Argo CD API may      *)
(* report, with any resource tree that was read for it.                    *)
(***************************************************************************)
EXTENDS ArgoApplication

VARIABLES app, tree, verdict

evaluation == <<app, tree, verdict>>

\* Argo CD keeps the result of an operation inside the operation's state.
ResultsAreOfOperation(a) ==
    a.phase \in {"none", "malformed"} => \A h \in Hooks : ~a.hooks[h].result

EvaluationInit ==
    /\ app \in Application
    /\ ResultsAreOfOperation(app)
    /\ tree \in [Hooks -> Healths]
    /\ verdict = "none"

Evaluate ==
    /\ verdict = "none"
    /\ verdict' = IF Clean(app, tree) THEN "clean" ELSE "unclean"
    /\ UNCHANGED <<app, tree>>

EvaluationSpec == EvaluationInit /\ [][Evaluate]_evaluation

\* An application is clean exactly if the README calls it converged: whatever
\* its operation, its hooks and the number of its sources, no failure of this
\* deployment is excused as history, and no old failure blocks it.  Where a
\* repository source is pinned the code departs from the README: it asks for
\* the pinned commit in place of the triggering one, and for all the rest.
CleanIsConverged ==
    verdict # "none" =>
        /\ ~Pinned(app) => (verdict = "clean" <=> Converged(app, tree))
        /\ Pinned(app) => (verdict = "clean" <=> ConvergedToPins(app, tree))
=============================================================================
