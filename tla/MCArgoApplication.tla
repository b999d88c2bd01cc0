-------------------------- MODULE MCArgoApplication --------------------------
(* Every application with one or two sources and no hooks, and every          *)
(* application with one source and one hook, against the words of README.md.  *)
EXTENDS Evaluation

NoHook == [result |-> FALSE, phase |-> "", listed |-> FALSE, health |-> ""]
HookReports == {r \in HookReport :
    /\ r.result \/ r.phase = ""
    /\ r.listed \/ r.health = ""}

SomeHealth == {"", "Healthy", "Degraded", "Progressing"}

\* The code treats all ways of being bad alike; two of them, and two of being
\* healthy, are enough for the application itself.
Deployments(sources, revisions, reports) ==
    [sources   : sources,
     observed  : revisions,
     sync      : {"Synced", "OutOfSync"},
     health    : {"Healthy", "Progressing"},
     requested : BOOLEAN,
     phase     : OperationPhases,
     finished  : BOOLEAN,
     targets   : revisions,
     hooks     : [Hooks -> reports]]

One(S) == {<<x>> : x \in S}

Shapes ==
    Deployments(One(SourceKinds), One(Revisions) \cup {<<>>}, {NoHook})
        \cup Deployments({<<"branch", "chart">>, <<"commit", "other">>},
                 {<<>>, <<"release">>} \cup ({"release", "older"} \X {"chart", "older"}),
                 {NoHook})

Hooked ==
    {a \in Deployments({<<"branch">>}, {<<>>, <<"release">>, <<"older">>},
                       HookReports) :
        /\ a.sync = "Synced"
        /\ a.health = "Healthy"
        /\ a.observed = <<"release">>
        /\ ~a.requested
        /\ ResultsAreOfOperation(a)}

MCInit ==
    /\ \/ app \in Shapes /\ tree = [h \in Hooks |-> ""]
       \/ app \in Hooked /\ tree \in [Hooks -> SomeHealth]
    /\ EvaluationInit

MCSpec == MCInit /\ [][Evaluate]_evaluation
=============================================================================
