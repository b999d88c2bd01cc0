------------------------ MODULE VeleroBudget_proofs -------------------------
(* The budget, for any revisions, sizes, units, quotas and number of         *)
(* namespaces.                                                               *)
EXTENDS VeleroBudget, TLAPS

-----------------------------------------------------------------------------
(* Arithmetic. *)

LEMMA Product ==
    ASSUME NEW x \in Nat, NEW y \in Nat
    PROVE  x * y \in Nat
OBVIOUS

LEMMA Monotone ==
    ASSUME NEW x \in Nat, NEW y \in Nat, NEW z \in Nat, x <= y
    PROVE  x * z <= y * z
<1>1. PICK d \in Nat : y = x + d
    <2>1. y - x \in Nat /\ y = x + (y - x)
        OBVIOUS
    <2> QED
        BY <2>1
<1>2. y * z = x * z + d * z
    BY <1>1
<1>3. d * z \in Nat /\ x * z \in Nat
    OBVIOUS
<1> QED
    BY <1>2, <1>3

\* Whole units are counted in full, and conversion never counts more than
\* there is.
LEMMA Division ==
    ASSUME NEW x \in Nat, NEW u \in Nat \ {0}
    PROVE  /\ x \div u \in Nat
           /\ u * (x \div u) <= x
           /\ x % u = 0 => u * (x \div u) = x
<1>1. x = u * (x \div u) + (x % u)
    OBVIOUS
<1>2. x % u \in 0..(u - 1)
    OBVIOUS
<1>3. x \div u \in Nat
    OBVIOUS
<1> QED
    BY <1>1, <1>2, <1>3

-----------------------------------------------------------------------------
(* Sizes. *)

LEMMA ManifestType ==
    ASSUME NEW v \in Revisions
    PROVE  /\ \A k \in Kinds, r \in Sizes : Manifests[v].size[k][r] \in Nat
           /\ Manifests[v].perNode \in Nat /\ Manifests[v].namespaces \in Nat
           /\ \A r \in Resources : Manifests[v].hard[r] \in Nat
    BY BudgetAssumption DEF Manifest

\* A pod has a size.
LEMMA PodSizeType ==
    ASSUME NEW v \in Revisions, NEW k \in Kinds, NEW r \in Resources
    PROVE  PodSize[v][k][r] \in Nat
<1>1. CASE r = "pods"
    BY <1>1 DEF PodSize
<1>2. CASE r # "pods"
    <2>1. r \in Sizes /\ LimitOf[r] \in Sizes
        BY <1>2 DEF Resources, LimitOf, Sizes, Requests, Limits
    <2>2. ContainerSize(Manifests[v], k, r) \in Nat /\ Default[r] \in Nat
        BY <2>1, ManifestType, BudgetAssumption DEF ContainerSize
    <2> QED
        BY <1>2, <2>2 DEF PodSize, Larger
<1> QED
    BY <1>1, <1>2

\* A pod whose sizes are given in whole units is counted in full.
LEMMA CountedInFull ==
    ASSUME NEW v \in Revisions, ~Uncounted(Manifests[v]),
           NEW k \in Kinds, NEW r \in Resources
    PROVE  /\ CountedSize(Manifests[v], k, r) \in Nat
           /\ PodSize[v][k][r] = Unit[r] * CountedSize(Manifests[v], k, r)
<1>1. CASE r = "pods"
    BY <1>1, BudgetAssumption DEF CountedSize, PodSize
<1>2. CASE r # "pods"
    <2> DEFINE x == Manifests[v].size[k][r]
               d == Default[r]
               u == Unit[r]
    <2>1. r \in Sizes /\ u \in Nat \ {0}
        BY <1>2, BudgetAssumption DEF Resources
    <2>2. x \in Nat /\ x > 0 /\ x % u = 0
        BY <2>1, ManifestType DEF Uncounted
    <2>3. d \in Nat /\ d % u = 0
        BY <2>1, BudgetAssumption
    <2>4. ContainerSize(Manifests[v], k, r) = x
        BY <2>2 DEF ContainerSize
    <2>5. x \div u \in Nat /\ u * (x \div u) = x
        BY <2>1, <2>2, Division
    <2>6. d \div u \in Nat /\ u * (d \div u) = d
        BY <2>1, <2>3, Division
    <2>7. CASE k # "server"
        BY <1>2, <2>4, <2>5, <2>7 DEF PodSize, CountedSize, InUnits
    <2>8. CASE k = "server"
        <3>1. x \div u <= d \div u => x <= d
            BY <2>1, <2>5, <2>6, Monotone
        <3>2. d \div u <= x \div u => d <= x
            BY <2>1, <2>5, <2>6, Monotone
        <3>3. PodSize[v][k][r] = Larger(x, d)
            BY <1>2, <2>4, <2>8 DEF PodSize
        <3>4. CountedSize(Manifests[v], k, r) = Larger(x \div u, d \div u)
            BY <1>2, <2>8 DEF CountedSize, InUnits
        <3>5. CASE x \div u > d \div u
            <4>1. Larger(x, d) = x
                BY <2>2, <2>3, <2>5, <2>6, <3>2, <3>5 DEF Larger
            <4> QED
                BY <3>3, <3>4, <3>5, <2>5, <4>1 DEF Larger
        <3>6. CASE ~(x \div u > d \div u)
            <4>1. Larger(x, d) = d
                BY <2>2, <2>3, <2>5, <2>6, <3>1, <3>6 DEF Larger
            <4> QED
                BY <3>3, <3>4, <3>6, <2>6, <4>1 DEF Larger
        <3> QED
            BY <3>5, <3>6
    <2> QED
        BY <2>7, <2>8
<1> QED
    BY <1>1, <1>2

-----------------------------------------------------------------------------

\* Only accepted revisions reach the cluster, and pods are counted right.
THEOREM TypeCorrect == Spec => []TypeOK
<1>1. Init => TypeOK
    BY DEF Init, TypeOK, None
<1>2. TypeOK /\ [Next]_vars => TypeOK'
    <2> SUFFICES ASSUME TypeOK, [Next]_vars
                 PROVE  TypeOK'
        OBVIOUS
    <2> USE DEF TypeOK
    <2>1. CASE \E v \in AcceptedRevisions : Merge(v)
        BY <2>1 DEF Merge
    <2>2. CASE SyncQuota
        BY <2>2 DEF SyncQuota
    <2>3. CASE SyncVelero
        BY <2>3 DEF SyncVelero
    <2>4. ASSUME NEW k \in Kinds, Admit(k) PROVE TypeOK'
        BY <2>4 DEF Admit
    <2>5. ASSUME NEW k \in Kinds, End(k) PROVE TypeOK'
        <3>1. \A n \in Nat : n > 0 => n - 1 \in Nat
            OBVIOUS
        <3>2. now' \in [Kinds -> Nat] /\ before' \in [Kinds -> Nat]
            BY <2>5, <3>1 DEF End
        <3> QED
            BY <2>5, <3>2 DEF End
    <2>6. CASE UNCHANGED vars
        BY <2>6 DEF vars
    <2> QED
        BY <2>1, <2>2, <2>3, <2>4, <2>5, <2>6 DEF Next
<1> QED
    BY <1>1, <1>2, PTL DEF Spec

\* What the pods of a kind use is within what the script counts for them,
\* and so is what they use with one more that is wanted.
LEMMA KindFits ==
    ASSUME TypeOK, ~Overhang, ~Uncounted(V),
           NEW k \in Kinds, NEW r \in Resources
    PROVE  /\ CountedFor(V, k, r) \in Nat
           /\ UsedBy(k, r) \in Nat
           /\ UsedBy(k, r) <= Unit[r] * CountedFor(V, k, r)
           /\ Wanted(k) => UsedBy(k, r) + PodSize[velero][k][r]
                               <= Unit[r] * CountedFor(V, k, r)
<1> DEFINE n == now[k]
           b == before[k]
           p == PodSize[velero][k][r]
           q == PodSize[past][k][r]
           c == CountedPods(V)[k]
           s == CountedSize(V, k, r)
           u == Unit[r]
<1>1. n \in Nat /\ b \in Nat /\ velero \in Revisions /\ past \in Revisions
    BY DEF TypeOK, AcceptedRevisions
<1>2. p \in Nat /\ q \in Nat
    BY <1>1, PodSizeType
<1>3. c \in Nat
    BY <1>1, ManifestType DEF CountedPods, V, SCHEDULABLE_NODES, Kinds
<1>4. s \in Nat /\ p = u * s /\ u \in Nat
    BY <1>1, CountedInFull, BudgetAssumption DEF V
<1>5. n + b <= c
    BY <1>1, <1>3 DEF Overhang
<1>6. b * q <= b * p
    <2>1. CASE b = 0
        BY <2>1, <1>2
    <2>2. CASE b > 0
        <3>1. q <= p
            BY <2>2, <1>2 DEF Overhang
        <3>2. q * b <= p * b
            BY <3>1, <1>1, <1>2, Monotone
        <3> QED
            BY <3>2, <1>1, <1>2
    <2> QED
        BY <2>1, <2>2, <1>1
<1>7. /\ UsedBy(k, r) = n * p + b * q
      /\ n * p \in Nat /\ b * q \in Nat /\ b * p \in Nat
    BY <1>1, <1>2, Product DEF UsedBy
<1>8. (n + b) * p = n * p + b * p
    BY <1>1, <1>2
<1>9. (n + b) * p <= c * p
    BY <1>1, <1>2, <1>3, <1>5, Monotone
<1>10. c * s \in Nat /\ CountedFor(V, k, r) = c * s /\ c * p = u * (c * s)
    <2>1. c * (u * s) = u * (c * s)
        BY <1>3, <1>4
    <2> QED
        BY <2>1, <1>3, <1>4, Product DEF CountedFor
<1>11. c * p \in Nat /\ (n + b) * p \in Nat
    BY <1>1, <1>2, <1>3, Product
<1>12. ASSUME Wanted(k)
       PROVE  UsedBy(k, r) + p <= c * p
    <2>1. n + b + 1 <= c
        BY <1>12, <1>1, <1>3 DEF Wanted, CountedPods, SCHEDULABLE_NODES, Kinds
    <2>2. (n + b + 1) * p <= c * p
        BY <2>1, <1>1, <1>2, <1>3, Monotone
    <2>3. (n + b + 1) * p = (n + b) * p + p
        BY <1>1, <1>2
    <2> QED
        BY <2>2, <2>3, <1>6, <1>7, <1>8, <1>11, <1>2
<1>13. UsedBy(k, r) <= c * p
    BY <1>6, <1>7, <1>8, <1>9, <1>11
<1>14. UsedBy(k, r) \in Nat
    BY <1>7
<1> QED
    BY <1>10, <1>12, <1>13, <1>14

\* An accepted revision fits, but for the causes that are named.
LEMMA AcceptedFits ==
    ASSUME TypeOK, ~QuotaBehind, ~Overhang, ~Uncounted(V),
           NEW k \in Kinds, Wanted(k)
    PROVE  Fits(k)
<1> SUFFICES ASSUME NEW r \in Resources
             PROVE  Used(r) + PodSize[velero][k][r] <= Manifests[quota].hard[r]
    BY DEF Fits
<1> DEFINE u == Unit[r]
           C(j) == CountedFor(V, j, r)
           U(j) == UsedBy(j, r)
           p == PodSize[velero][k][r]
<1>1. velero \in Revisions /\ quota \in Revisions /\ Accepted(V)
    BY DEF TypeOK, AcceptedRevisions, V
<1>2. u \in Nat \ {0}
    BY BudgetAssumption
<1>3. \A j \in Kinds : /\ C(j) \in Nat /\ U(j) \in Nat /\ U(j) <= u * C(j)
                       /\ u * C(j) \in Nat
    BY KindFits, <1>2, Product
<1>4. U(k) + p <= u * C(k) /\ p \in Nat
    BY KindFits, PodSizeType, <1>1
<1>5. V.hard[r] \in Nat /\ Manifests[quota].hard[r] \in Nat
    BY <1>1, ManifestType DEF V
<1>6. V.hard[r] <= Manifests[quota].hard[r]
    BY <1>5 DEF QuotaBehind
<1>7. Hard(V, r) \in Nat /\ u * Hard(V, r) <= V.hard[r]
    BY <1>2, <1>5, Division DEF Hard, InUnits
<1>8. Budget(V, r) = C("server") + C("agent") + C("mover") + C("maintenance")
      /\ Budget(V, r) \in Nat
    BY <1>3 DEF Budget, Kinds
<1>9. u * Budget(V, r) <= u * Hard(V, r)
    <2>1. Budget(V, r) <= Hard(V, r)
        BY <1>1 DEF Accepted
    <2>2. Budget(V, r) * u <= Hard(V, r) * u
        BY <2>1, <1>2, <1>7, <1>8, Monotone
    <2> QED
        BY <2>2, <1>2, <1>7, <1>8
<1>10. u * Budget(V, r) = u * C("server") + u * C("agent") + u * C("mover")
                          + u * C("maintenance")
    <2>1. \A a, x, y, z, w \in Nat :
              a * (x + y + z + w) = a * x + a * y + a * z + a * w
        OBVIOUS
    <2> HIDE DEF C
    <2>2. C("server") \in Nat /\ C("agent") \in Nat /\ C("mover") \in Nat
          /\ C("maintenance") \in Nat
        BY <1>3 DEF Kinds
    <2> QED
        BY <2>1, <2>2, <1>2, <1>8
<1>11. Used(r) + p <= u * C("server") + u * C("agent") + u * C("mover")
                      + u * C("maintenance")
    <2> DEFINE W(j) == u * C(j)
    <2>1. Used(r) = U("server") + U("agent") + U("mover") + U("maintenance")
        BY DEF Used
    <2>2. \A j \in Kinds : U(j) \in Nat /\ W(j) \in Nat /\ U(j) <= W(j)
        BY <1>3
    <2>3. U(k) + p <= W(k) /\ p \in Nat
        BY <1>4
    <2> HIDE DEF U, W, C, p, u
    <2>4. Used(r) + p <= W("server") + W("agent") + W("mover") + W("maintenance")
        BY <2>1, <2>2, <2>3 DEF Kinds
    <2> QED
        BY <2>4 DEF W
<1>12. Used(r) \in Nat /\ u * Budget(V, r) \in Nat /\ u * Hard(V, r) \in Nat
    <2>1. Used(r) = U("server") + U("agent") + U("mover") + U("maintenance")
        BY DEF Used
    <2>2. Used(r) \in Nat
        BY <2>1, <1>3 DEF Kinds
    <2> QED
        BY <2>2, <1>2, <1>7, <1>8, Product
<1> QED
    BY <1>4, <1>5, <1>6, <1>7, <1>9, <1>10, <1>11, <1>12

\* The quota refuses a pod of an accepted revision only for a cause.
THEOREM BudgetHolds == Spec => []RefusedOnlyForCause
<1>1. TypeOK => RefusedOnlyForCause
    BY AcceptedFits DEF RefusedOnlyForCause
<1> QED
    BY <1>1, TypeCorrect, PTL
=============================================================================
