------------------------------ MODULE FilePrune ------------------------------
(***************************************************************************)
(* s3-file-backup.py prune: load every point, hash every object of the     *)
(* points that load, audit the keys of each and, only if nothing was       *)
(* reported, delete the expired points, oldest first.  Each point loses    *)
(* its marker before its manifest and its manifest before its objects.     *)
(*                                                                         *)
(* A prune is started by hand.  Nothing stops it from overlapping a backup *)
(* or another prune, and what it verified may change before it deletes.    *)
(***************************************************************************)
EXTENDS SnapshotStore

CONSTANTS
    Prunes,     \* prune runs
    NoPoint,    \* no point is in hand
    Retention,  \* retention_days
    Tolerance,  \* how far ahead of the prune's clock a capture time may be
    BatchSize   \* keys in one delete_objects call

ASSUME PruneAssumption ==
    /\ NoPoint \notin Points
    /\ Retention \in Nat \ {0}
    /\ Tolerance \in Nat
    /\ BatchSize \in Nat \ {0}

VARIABLES
    stage,      \* stage[q]: the next call of prune q
    job,        \* job[q]: what q remembers until it ends
    spoiled,    \* history: published points that were not sound when q listed
    unfinished  \* history: prefixes that were unpublished when q listed

pruneVars == <<stage, job, spoiled, unfinished>>

Deleting == {"delete", "manifest-key", "object-keys"}
InHand == {"manifest", "manifest-key", "object-keys"}
PruneStages == {"marker", "manifest", "verify", "audit"} \cup Deleting
PruneStates == PruneStages \cup {"idle", "ok", "attention", "failed"}

Job == [
    now      : Int,                        \* the clock it read at the start
    todo     : SUBSET Points,              \* points this stage has to reach
    target   : Points \cup {NoPoint},      \* the point in hand
    left     : SUBSET Objects,             \* its objects still to be reached
    complete : SUBSET Points,              \* the points that loaded
    reported : BOOLEAN ]                   \* something was reported

NoJob == [
    now      |-> 0,
    todo     |-> {},
    target   |-> NoPoint,
    left     |-> {},
    complete |-> {},
    reported |-> FALSE ]

PruneTypeOK ==
    /\ stage \in [Prunes -> PruneStates]
    /\ job \in [Prunes -> Job]
    /\ \A q \in Prunes : stage[q] \in InHand => job[q].target \in Points
    /\ spoiled \in [Prunes -> SUBSET Points]
    /\ unfinished \in [Prunes -> SUBSET Points]

PruneInit ==
    /\ stage = [q \in Prunes |-> "idle"]
    /\ job = [q \in Prunes |-> NoJob]
    /\ spoiled = [q \in Prunes |-> {}]
    /\ unfinished = [q \in Prunes |-> {}]

-----------------------------------------------------------------------------

Enter(q, s) == stage' = [stage EXCEPT ![q] = s]
Recall(q, j) == job' = [job EXCEPT ![q] = j]
Stop(q, state) == Enter(q, state) /\ Recall(q, NoJob)
historyVars == <<spoiled, unfinished>>

\* Points are walked by capture time and, among peers, in any order.
Oldest(p, S) == p \in S /\ \A r \in S : stamp[p] <= stamp[r]

\* Mutant: every point but the first of the newest may be deleted, as if a
\* point of the same capture time counted as newer.
ExpiredBesidePeer(j) ==
    {p \in j.complete : /\ stamp[p] < j.now - Retention
                        /\ \E r \in j.complete \ {p} : stamp[r] >= stamp[p]}

\* Which of the points that loaded the prune may delete.
Expired(j) ==
    {p \in j.complete : /\ stamp[p] < j.now - Retention
                        /\ \E r \in j.complete : stamp[r] > stamp[p]}

\* The keys under the prefix are the marker, the manifest and its objects.
ExactlyItsKeys(p) ==
    /\ marker[p] # "absent"
    /\ manifest[p] # "absent"
    /\ Stored(p) = Listed(p)
    /\ ~foreign[p]

\* _snapshot_prefixes: one listing of the root.
ListPrefixes(q) ==
    /\ stage[q] = "idle"
    /\ LET found == {p \in Points : HasKeys(p)} IN
           /\ \E t \in Readings :
                  Recall(q, [NoJob EXCEPT !.now = t, !.todo = found,
                                          !.reported = stray])
           /\ spoiled' = [spoiled EXCEPT ![q] =
                  {p \in found : p \in published /\ ~Sound(p)}]
           /\ unfinished' = [unfinished EXCEPT ![q] = found \ published]
    /\ Enter(q, "marker")
    /\ UNCHANGED storeVars

\* Mutant: a prefix without a marker is passed over in silence.
ReadMarkerSilently(q) ==
    /\ stage[q] = "marker"
    /\ \E p \in job[q].todo :
           /\ Oldest(p, job[q].todo)
           /\ \/ /\ marker[p] = "whole"
                 /\ Recall(q, [job[q] EXCEPT !.todo = @ \ {p}, !.target = p])
                 /\ Enter(q, "manifest")
              \/ /\ marker[p] # "whole"
                 /\ Recall(q, [job[q] EXCEPT !.todo = @ \ {p}])
                 /\ UNCHANGED stage
    /\ UNCHANGED <<storeVars, historyVars>>

\* First half of _load_snapshot.
ReadMarker(q) ==
    /\ stage[q] = "marker"
    /\ \E p \in job[q].todo :
           /\ Oldest(p, job[q].todo)
           /\ \/ /\ marker[p] = "whole"
                 /\ Recall(q, [job[q] EXCEPT !.todo = @ \ {p}, !.target = p])
                 /\ Enter(q, "manifest")
              \/ /\ marker[p] # "whole"
                 /\ Recall(q, [job[q] EXCEPT !.todo = @ \ {p},
                                             !.reported = TRUE])
                 /\ UNCHANGED stage
    /\ UNCHANGED <<storeVars, historyVars>>

\* Second half of _load_snapshot, and the refusal of a capture in the future.
ReadManifest(q) ==
    /\ stage[q] = "manifest"
    /\ LET p == job[q].target
           loads == /\ manifest[p] = "whole"
                    /\ stamp[p] <= job[q].now + Tolerance IN
           \/ loads /\ Recall(q, [job[q] EXCEPT !.complete = @ \cup {p}])
           \/ ~loads /\ Recall(q, [job[q] EXCEPT !.reported = TRUE])
    /\ Enter(q, "marker")
    /\ UNCHANGED <<storeVars, historyVars>>

BeginVerify(q) ==
    /\ stage[q] = "marker"
    /\ job[q].todo = {}
    /\ Recall(q, [job[q] EXCEPT !.todo = job[q].complete])
    /\ Enter(q, "verify")
    /\ UNCHANGED <<storeVars, historyVars>>

\* The next point of _verify_snapshot_objects: the entries its manifest lists.
TakePoint(q) ==
    /\ stage[q] = "verify"
    /\ job[q].left = {}
    /\ \E p \in job[q].todo :
           /\ Oldest(p, job[q].todo)
           /\ Recall(q, [job[q] EXCEPT !.todo = @ \ {p}, !.target = p,
                                       !.left = Listed(p)])
    /\ UNCHANGED <<storeVars, stage, historyVars>>

\* Mutant: an object that does not verify is read again and again.
VerifyObjectForever(q) ==
    /\ stage[q] = "verify"
    /\ LET p == job[q].target IN
       \E o \in job[q].left :
           /\ \A r \in job[q].left : o <= r
           /\ body[p][o] = entries[p][o]
           /\ Recall(q, [job[q] EXCEPT !.left = @ \ {o}])
    /\ UNCHANGED <<storeVars, stage, historyVars>>

\* An object that is missing or does not hash as recorded ends the prune.
VerifyObject(q) ==
    /\ stage[q] = "verify"
    /\ LET p == job[q].target IN
       \E o \in job[q].left :
           /\ \A r \in job[q].left : o <= r
           /\ \/ /\ body[p][o] = entries[p][o]
                 /\ Recall(q, [job[q] EXCEPT !.left = @ \ {o}])
                 /\ UNCHANGED stage
              \/ /\ body[p][o] # entries[p][o]
                 /\ Stop(q, "failed")
    /\ UNCHANGED <<storeVars, historyVars>>

BeginAudit(q) ==
    /\ stage[q] = "verify"
    /\ job[q].left = {}
    /\ job[q].todo = {}
    /\ Recall(q, [job[q] EXCEPT !.todo = job[q].complete])
    /\ Enter(q, "audit")
    /\ UNCHANGED <<storeVars, historyVars>>

AuditKeys(q) ==
    /\ stage[q] = "audit"
    /\ \E p \in job[q].todo :
           /\ Oldest(p, job[q].todo)
           /\ Recall(q, [job[q] EXCEPT !.todo = @ \ {p},
                                       !.reported = @ \/ ~ExactlyItsKeys(p)])
    /\ UNCHANGED <<storeVars, stage, historyVars>>

\* Anything reported turns the whole prune into a report.
Decide(q) ==
    /\ stage[q] = "audit"
    /\ job[q].todo = {}
    /\ \/ /\ job[q].reported
          /\ Stop(q, "attention")
       \/ /\ ~job[q].reported
          /\ Recall(q, [job[q] EXCEPT !.todo = Expired(job[q])])
          /\ Enter(q, "delete")
    /\ UNCHANGED <<storeVars, historyVars>>

\* Mutant: the marker is left for the end of the deletion.
DeleteMarkerLater(q) ==
    /\ stage[q] = "delete"
    /\ \E p \in job[q].todo :
           /\ Oldest(p, job[q].todo)
           /\ Recall(q, [job[q] EXCEPT !.todo = @ \ {p}, !.target = p,
                                       !.left = Listed(p)])
    /\ Enter(q, "manifest-key")
    /\ UNCHANGED <<storeVars, historyVars>>

\* First call of _delete_point.  The answer to a deletion may be lost.
DeleteMarker(q) ==
    /\ stage[q] = "delete"
    /\ \E p \in job[q].todo :
           /\ Oldest(p, job[q].todo)
           /\ marker' = [marker EXCEPT ![p] = "absent"]
           /\ \/ /\ Recall(q, [job[q] EXCEPT !.todo = @ \ {p}, !.target = p,
                                             !.left = Listed(p)])
                 /\ Enter(q, "manifest-key")
              \/ Stop(q, "failed")
    /\ UNCHANGED <<clock, stamp, body, entries, manifest, foreign, stray,
                   faults, published, historyVars>>

DeleteManifest(q) ==
    /\ stage[q] = "manifest-key"
    /\ manifest' = [manifest EXCEPT ![job[q].target] = "absent"]
    /\ \/ /\ Enter(q, IF job[q].left = {} THEN "delete" ELSE "object-keys")
          /\ UNCHANGED job
       \/ Stop(q, "failed")
    /\ UNCHANGED <<clock, stamp, body, entries, marker, foreign, stray, faults,
                   published, historyVars>>

\* The next BatchSize keys of the point in hand, in key order.
Batch(j) == {o \in j.left : Cardinality({r \in j.left : r <= o}) <= BatchSize}

Remove(p, gone) ==
    body' = [body EXCEPT ![p] = [o \in Objects |->
                                    IF o \in gone THEN Missing ELSE body[p][o]]]

\* Mutant: a batch that reports errors is sent again, as it was.
DeleteBatchAgain(q) ==
    /\ stage[q] = "object-keys"
    /\ LET p == job[q].target
           rest == job[q].left \ Batch(job[q]) IN
           \/ /\ Remove(p, Batch(job[q]))
              /\ Recall(q, [job[q] EXCEPT !.left = rest])
              /\ Enter(q, IF rest = {} THEN "delete" ELSE "object-keys")
           \/ /\ \E gone \in SUBSET Batch(job[q]) : Remove(p, gone)
              /\ UNCHANGED <<stage, job>>
    /\ UNCHANGED <<clock, stamp, entries, manifest, marker, foreign, stray,
                   faults, published, historyVars>>

\* A batch may be deleted in part and report an error for the other keys.
DeleteBatch(q) ==
    /\ stage[q] = "object-keys"
    /\ LET p == job[q].target
           rest == job[q].left \ Batch(job[q]) IN
           \/ /\ Remove(p, Batch(job[q]))
              /\ Recall(q, [job[q] EXCEPT !.left = rest])
              /\ Enter(q, IF rest = {} THEN "delete" ELSE "object-keys")
           \/ /\ \E gone \in SUBSET Batch(job[q]) : Remove(p, gone)
              /\ Stop(q, "failed")
    /\ UNCHANGED <<clock, stamp, entries, manifest, marker, foreign, stray,
                   faults, published, historyVars>>

FinishPrune(q) ==
    /\ stage[q] = "delete"
    /\ job[q].todo = {}
    /\ Stop(q, "ok")
    /\ UNCHANGED <<storeVars, historyVars>>

\* An S3 error before the next call has an effect, or the process is killed.
AbandonPrune(q) ==
    /\ stage[q] \in PruneStages
    /\ Stop(q, "failed")
    /\ UNCHANGED <<storeVars, historyVars>>

PruneStep(q) ==
    \/ ReadMarker(q)     \/ ReadManifest(q) \/ BeginVerify(q)
    \/ TakePoint(q)      \/ VerifyObject(q) \/ BeginAudit(q)
    \/ AuditKeys(q)      \/ Decide(q)       \/ DeleteMarker(q)
    \/ DeleteManifest(q) \/ DeleteBatch(q)  \/ FinishPrune(q)

-----------------------------------------------------------------------------

\* How many calls a started prune may still make: each point it found is
\* loaded in two, each one that loaded is hashed object by object, audited in
\* one and deleted in two and as many batches as it has objects.
PruneLeft(q) ==
    LET N == NumObjects
        todo == Cardinality(job[q].todo)
        loaded == Cardinality(job[q].complete)
        objects == Cardinality(job[q].left)
        deletion == todo * (N + 2) + objects
        loading == todo * (2 * N + 6) + loaded * (2 * N + 4) + objects IN
    CASE stage[q] = "marker"       -> loading + 4
      [] stage[q] = "manifest"     -> loading + (2 * N + 9)
      [] stage[q] = "verify"       ->
             todo * (N + 1) + loaded * (N + 3) + objects + 3
      [] stage[q] = "audit"        -> todo + loaded * (N + 2) + objects + 2
      [] stage[q] = "manifest-key" -> deletion + 2
      [] stage[q] \in {"delete", "object-keys"} -> deletion + 1
      [] OTHER                     -> 0
=============================================================================
