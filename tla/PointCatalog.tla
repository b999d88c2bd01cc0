---------------------------- MODULE PointCatalog ----------------------------
(***************************************************************************)
(* What the file backup promises to the operator who relies on it: a point *)
(* is certified once, and a certified point is only withdrawn when it is   *)
(* older than the retention period and a strictly newer point is certified *)
(* at that very moment.  Nothing else ever withdraws one: not a crash, not *)
(* a concurrent run, not a host whose clock is wrong.                      *)
(***************************************************************************)
EXTENDS Integers

CONSTANTS
    Points,     \* snapshot identities
    Retention,  \* the retention period
    Skew        \* how wrong a clock may be

VARIABLES
    time,       \* the reference clock
    captured,   \* captured[p]: capture time of point p
    certified,  \* points that carry a completion marker
    known       \* points that have ever carried one

catalogVars == <<time, captured, certified, known>>

CatalogInit ==
    /\ time = 0
    /\ captured = [p \in Points |-> 0]
    /\ certified = {}
    /\ known = {}

Pass ==
    /\ time' = time + 1
    /\ UNCHANGED <<captured, certified, known>>

\* A run takes its identity before it can be certified.
Begin(p) ==
    /\ p \notin known
    /\ \E t \in (time - Skew)..(time + Skew) :
           captured' = [captured EXCEPT ![p] = t]
    /\ UNCHANGED <<time, certified, known>>

Certify(p) ==
    /\ p \notin known
    /\ certified' = certified \cup {p}
    /\ known' = known \cup {p}
    /\ UNCHANGED <<time, captured>>

Withdraw(p) ==
    /\ p \in certified
    /\ captured[p] + Retention < time + Skew
    /\ \E r \in certified : captured[r] > captured[p]
    /\ certified' = certified \ {p}
    /\ UNCHANGED <<time, captured, known>>

CatalogNext == Pass \/ \E p \in Points : Begin(p) \/ Certify(p) \/ Withdraw(p)

CatalogSpec == CatalogInit /\ [][CatalogNext]_catalogVars
=============================================================================
