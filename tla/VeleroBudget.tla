---------------------------- MODULE VeleroBudget ----------------------------
(***************************************************************************)
(* The resource budget of the namespace velero.  The validation script     *)
(* accepts a revision of the repository if the worst case it computes from *)
(* the manifests fits velero-quota; only accepted revisions are merged.    *)
(* The cluster is not the repository: the quota and Velero belong to two   *)
(* Argo CD applications, which are synced at different moments, and pods   *)
(* of the revision before run on while those of the new one are made.      *)
(*                                                                         *)
(* A pod that does not fit the quota is refused, and its controller tries  *)
(* again.  Quantities are numbers of the smallest unit in which Kubernetes *)
(* accounts for a resource.                                                *)
(***************************************************************************)
EXTENDS Naturals

CONSTANTS
    Revisions,  \* revisions of the repository
    Manifests,  \* Manifests[v]: what the script reads in revision v
    Unit,       \* Unit[r]: size of the script's unit of resource r (MiB, m)
    Default,    \* Default[r]: what the LimitRange gives an unsized container
    MoverLimit  \* MoverLimit[r]: the reviewed limits of a data mover

Kinds == {"server", "agent", "mover", "maintenance"}

Requests == {"requests.cpu", "requests.memory"}
Limits == {"limits.cpu", "limits.memory"}
Sizes == Requests \cup Limits
Resources == Sizes \cup {"pods"}

\* What the manifests say: the sizes of each kind of container, 0 for one
\* that is left out; movers per node; namespaces in the schedule; the quota.
Manifest == [size : [Kinds -> [Sizes -> Nat]],
             perNode : Nat, namespaces : Nat,
             hard : [Resources -> Nat]]

ASSUME BudgetAssumption ==
    /\ Manifests \in [Revisions -> Manifest]
    /\ Unit \in [Resources -> Nat \ {0}] /\ Unit["pods"] = 1
    /\ Default \in [Sizes -> Nat]
    /\ \A r \in Sizes : Default[r] % Unit[r] = 0
    /\ MoverLimit \in [Limits -> Nat]

Larger(x, y) == IF x > y THEN x ELSE y

-----------------------------------------------------------------------------
(* The script. *)

SCHEDULABLE_NODES == 2

\* Mutant: the pod that a rollout adds is not counted.
CountedPodsWithoutSurge(m) == [
    server |-> 1, agent |-> 2,
    mover |-> SCHEDULABLE_NODES * m.perNode,
    maintenance |-> m.namespaces ]

\* How many pods of each kind the worst case has.
CountedPods(m) == [
    server |-> 2, agent |-> 2,
    mover |-> SCHEDULABLE_NODES * m.perNode,
    maintenance |-> m.namespaces ]

\* Conversion to whole units rounds down.
InUnits(r, x) == x \div Unit[r]

\* What one pod counts.  The server's init container has the default sizes,
\* and needs them when they are larger.
CountedSize(m, k, r) ==
    IF r = "pods" THEN 1
    ELSE IF k = "server"
         THEN Larger(InUnits(r, m.size[k][r]), InUnits(r, Default[r]))
    ELSE InUnits(r, m.size[k][r])

CountedFor(m, k, r) == CountedPods(m)[k] * CountedSize(m, k, r)

Budget(m, r) ==
    CountedFor(m, "server", r) + CountedFor(m, "agent", r)
    + CountedFor(m, "mover", r) + CountedFor(m, "maintenance", r)

Hard(m, r) == InUnits(r, m.hard[r])

Accepted(m) ==
    /\ \E r \in Sizes : m.size["agent"][r] > 0
    /\ \E r \in Sizes : m.size["maintenance"][r] > 0
    /\ \A k \in {"mover", "maintenance"} :
           m.size[k]["requests.memory"] = m.size[k]["limits.memory"]
    /\ \A r \in Limits : m.size["mover"][r] = MoverLimit[r]
    /\ m.perNode = 2
    /\ \A r \in Resources : Budget(m, r) <= Hard(m, r)

\* Only what the script accepts is merged.
AcceptedRevisions == {v \in Revisions : Accepted(Manifests[v])}

-----------------------------------------------------------------------------
(* The cluster. *)

VARIABLES
    main,    \* the revision that is merged
    velero,  \* the revision of Velero that is synced
    quota,   \* the revision whose quota is synced
    past,    \* the revision of the older pods
    now,     \* now[k]: pods with the sizes of velero
    before   \* before[k]: older pods

vars == <<main, velero, quota, past, now, before>>

V == Manifests[velero]
None == [k \in Kinds |-> 0]

\* What the controllers make: one server and one more during its rollout, a
\* node agent on each node, movers on each node, a job for each repository.
Wanted(k) ==
    now[k] + before[k] <
        CASE k = "server"      -> 2
          [] k = "agent"       -> SCHEDULABLE_NODES
          [] k = "mover"       -> SCHEDULABLE_NODES * V.perNode
          [] k = "maintenance" -> V.namespaces

LimitOf == [r \in Sizes |->
    IF r \in {"requests.cpu", "limits.cpu"} THEN "limits.cpu" ELSE "limits.memory"]

\* A request that is left out is the limit; a limit, and a request without
\* one, is the default.
ContainerSize(m, k, r) ==
    IF m.size[k][r] > 0 THEN m.size[k][r]
    ELSE IF m.size[k][LimitOf[r]] > 0 THEN m.size[k][LimitOf[r]]
    ELSE Default[r]

PodSize == [v \in Revisions |-> [k \in Kinds |-> [r \in Resources |->
    IF r = "pods" THEN 1
    ELSE IF k = "server" THEN Larger(ContainerSize(Manifests[v], k, r), Default[r])
    ELSE ContainerSize(Manifests[v], k, r) ]]]

UsedBy(k, r) == now[k] * PodSize[velero][k][r] + before[k] * PodSize[past][k][r]

Used(r) == UsedBy("server", r) + UsedBy("agent", r)
           + UsedBy("mover", r) + UsedBy("maintenance", r)

Fits(k) == \A r \in Resources :
    Used(r) + PodSize[velero][k][r] <= Manifests[quota].hard[r]

TypeOK ==
    /\ {main, velero, quota, past} \subseteq AcceptedRevisions
    /\ now \in [Kinds -> Nat] /\ before \in [Kinds -> Nat]

Init ==
    /\ main \in AcceptedRevisions
    /\ velero = main /\ quota = main /\ past = main
    /\ now = None /\ before = None

Merge(v) ==
    /\ main' = v
    /\ UNCHANGED <<velero, quota, past, now, before>>

SyncQuota ==
    /\ quota # main
    /\ quota' = main
    /\ UNCHANGED <<main, velero, past, now, before>>

\* Pods whose sizes the new revision leaves alone are not replaced.  Bound:
\* pods of two revisions at a time.
SyncVelero ==
    /\ velero # main /\ before = None
    /\ velero' = main /\ past' = velero
    /\ LET same(k) == Manifests[main].size[k] = V.size[k]
       IN  /\ now' = [k \in Kinds |-> IF same(k) THEN now[k] ELSE 0]
           /\ before' = [k \in Kinds |-> IF same(k) THEN 0 ELSE now[k]]
    /\ UNCHANGED <<main, quota>>

Admit(k) ==
    /\ Wanted(k) /\ Fits(k)
    /\ now' = [now EXCEPT ![k] = @ + 1]
    /\ UNCHANGED <<main, velero, quota, past, before>>

\* Mutant: the end of a pod is counted twice.
EndTwice(k) ==
    /\ \/ now' = [now EXCEPT ![k] = @ - 1] /\ UNCHANGED before
       \/ before' = [before EXCEPT ![k] = @ - 1] /\ UNCHANGED now
    /\ UNCHANGED <<main, velero, quota, past>>

\* A pod ends, is replaced, or is lost with its node.
End(k) ==
    /\ \/ now[k] > 0 /\ now' = [now EXCEPT ![k] = @ - 1] /\ UNCHANGED before
       \/ before[k] > 0 /\ before' = [before EXCEPT ![k] = @ - 1] /\ UNCHANGED now
    /\ UNCHANGED <<main, velero, quota, past>>

Next ==
    \/ \E v \in AcceptedRevisions : Merge(v)
    \/ SyncQuota \/ SyncVelero
    \/ \E k \in Kinds : Admit(k) \/ End(k)

Spec == Init /\ [][Next]_vars

-----------------------------------------------------------------------------

\* A size that the script does not count in full: left out, or not a whole
\* number of its units.
Uncounted(m) == \E k \in Kinds, r \in Sizes :
    m.size[k][r] = 0 \/ m.size[k][r] % Unit[r] # 0

\* Pods of an earlier revision that are larger, or more, than this one has.
Overhang ==
    \E k \in Kinds :
        \/ now[k] + before[k] > CountedPods(V)[k]
        \/ before[k] > 0 /\ \E r \in Resources :
               PodSize[past][k][r] > PodSize[velero][k][r]

\* The synced quota is smaller than the one the revision was accepted with.
QuotaBehind == \E r \in Resources : Manifests[quota].hard[r] < V.hard[r]

\* In the cluster a pod of an accepted revision is refused only for a cause
\* that the repository does not show: the two applications are at different
\* revisions, or pods of an earlier revision are in the way.  And one that it
\* does: a size that is not counted in full.
RefusedOnlyForCause ==
    \A k \in Kinds :
        Wanted(k) => Fits(k) \/ QuotaBehind \/ Overhang \/ Uncounted(V)
=============================================================================
