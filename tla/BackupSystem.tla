---------------------------- MODULE BackupSystem ----------------------------
(***************************************************************************)
(* The file backup as a whole: backups, prunes and restores on one bucket, *)
(* in any interleaving.  The CronJob's Forbid policy keeps one scheduled   *)
(* run at a time, and nothing keeps the runs an operator starts by hand    *)
(* apart from it or from each other.                                       *)
(***************************************************************************)
EXTENDS FileBackup, FilePrune, FileRestore

vars == <<storeVars, backupVars, pruneVars, restoreVars>>

TypeOK ==
    /\ StoreTypeOK
    /\ BackupTypeOK
    /\ PruneTypeOK
    /\ RestoreTypeOK

Init ==
    /\ StoreInit
    /\ BackupInit
    /\ PruneInit
    /\ RestoreInit

BackupRun(p) ==
    /\ Start(p) \/ RunStep(p) \/ Abandon(p)
    /\ UNCHANGED <<pruneVars, restoreVars>>

PruneRun(q) ==
    /\ ListPrefixes(q) \/ PruneStep(q) \/ AbandonPrune(q)
    /\ UNCHANGED <<backupVars, restoreVars>>

RestoreRun(x) ==
    /\ StartRestore(x) \/ RestoreStep(x) \/ AbandonRestore(x)
    /\ UNCHANGED <<backupVars, pruneVars>>

World ==
    \/ Application /\ UNCHANGED <<pruneVars, restoreVars>>
    \/ StoreEnvironment /\ UNCHANGED <<backupVars, pruneVars, restoreVars>>

Next ==
    \/ \E p \in Points : BackupRun(p)
    \/ \E q \in Prunes : PruneRun(q)
    \/ \E x \in Restores : RestoreRun(x)
    \/ World

\* Each started process is scheduled; an abandoned one is not fairly so.
Fairness ==
    /\ \A p \in Points : WF_vars(RunStep(p) /\ UNCHANGED <<pruneVars, restoreVars>>)
    /\ \A q \in Prunes : WF_vars(PruneStep(q) /\ UNCHANGED <<backupVars, restoreVars>>)
    /\ \A x \in Restores :
           WF_vars(RestoreStep(x) /\ UNCHANGED <<backupVars, pruneVars>>)

Spec == Init /\ [][Next]_vars
LiveSpec == Spec /\ Fairness

-----------------------------------------------------------------------------

\* A marker never certifies a point that has lost its manifest or an object,
\* at no moment of a backup or of a deletion and however either ends: what is
\* listed is stored, with the listed bytes unless they were damaged since.
CertifiedIsEntire ==
    \A p \in Points :
        marker[p] # "absent" =>
            /\ manifest[p] # "absent"
            /\ \A o \in Objects : Holds(p, o, entries[p][o])

\* A newest point that was ever certified keeps its marker, its manifest and
\* every object, and so do its peers of the same capture time, whatever
\* prunes overlap, fail half-way or run on a wrong clock.
NewestIsKept ==
    \A p \in published :
        (\A r \in published : stamp[r] <= stamp[p]) =>
            marker[p] # "absent" /\ Entire(p)

\* A prune deletes nothing while the bucket is unsound: once it deletes, every
\* certified point it had found was sound, and every prefix it had found
\* uncertified belonged to a backup that has certified it since.
RefusesUnsoundBucket ==
    \A q \in Prunes :
        stage[q] \in Deleting =>
            spoiled[q] = {} /\ unfinished[q] \subseteq published

\* No other restore writes into the drill prefix of x, or only the same: one
\* of the same point that has not failed, nor opened a copy it will fail on.
Alone(x) ==
    \A y \in Restores \ {x} :
        \/ step[y] = "idle" \/ into[y] # into[x]
        \/ step[y] # "failed" /\ from[y] = from[x] /\ hand[y] # Damaged

\* A restore that completes has restored a certified point exactly, and every
\* object as it was at one instant of the sources, even if the point is damaged
\* or deleted meanwhile.  Its drill prefix must be its own, or shared only with
\* restores of the same point that have neither failed nor opened a damaged
\* copy: such a copy is stored before it is compared with the manifest, so that
\* another restore may complete over it.
RestoreIsFaithful ==
    \A x \in Restores :
        /\ step[x] = "complete"
        /\ Alone(x)
        => /\ from[x] \in published
           /\ drill[into[x]] = entries[from[x]]
           /\ \A o \in Objects :
                  drill[into[x]][o] # Missing =>
                      drill[into[x]][o] = truth[from[x]][o]

\* The bucket as the operator relies on it.
Catalog == INSTANCE PointCatalog WITH
    time <- clock,
    captured <- stamp,
    certified <- {p \in Points : marker[p] # "absent"},
    known <- published

\* Backups, prunes, restores, damage and crashes only ever certify a new point
\* or withdraw one that is expired and has a newer certified point.
RefinesCatalog == Catalog!CatalogSpec

\* Every backup, prune and restore that starts comes to an end.
EveryCommandEnds ==
    /\ \A p \in Points : pc[p] \in RunStages ~> pc[p] \in {"complete", "failed"}
    /\ \A q \in Prunes :
           stage[q] \in PruneStages ~> stage[q] \in {"ok", "attention", "failed"}
    /\ \A x \in Restores :
           step[x] \in RestoreStages ~> step[x] \in {"complete", "failed"}

\* A command that has started uses up its calls, whatever fails, is lost or is
\* changed by others meanwhile, and no step of another command or of the world
\* gives it more: no walk over buckets, points, objects or batches goes on for
\* ever, and nothing is tried twice.
CommandsRunOut ==
    [][ /\ \A p \in Points :
               /\ RunLeft(p)' \in 0..RunLeft(p)
               /\ BackupRun(p) => RunLeft(p)' # RunLeft(p)
        /\ \A q \in Prunes :
               stage[q] # "idle" =>
                   /\ PruneLeft(q)' \in 0..PruneLeft(q)
                   /\ PruneRun(q) => PruneLeft(q)' # PruneLeft(q)
        /\ \A x \in Restores :
               /\ RestoreLeft(x)' \in 0..RestoreLeft(x)
               /\ RestoreRun(x) => RestoreLeft(x)' # RestoreLeft(x)]_vars

-----------------------------------------------------------------------------
(* Why the points are safe: an invariant that every step preserves.         *)

Certified(p) == marker[p] # "absent"

\* A strictly newer point is certified now.
Superseded(p) == \E r \in Points : Certified(r) /\ stamp[r] > stamp[p]

\* A point loses its marker only when it is superseded, and a chain of points
\* that supersede each other ends in one that is certified.
CertifiedOrSuperseded ==
    \A p \in Points :
        /\ Certified(p) => p \in published
        /\ p \in published => Certified(p) \/ Superseded(p)

\* What the run of p has stored agrees with what it remembers of the sources.
RunIsHonest(p) ==
    /\ pc[p] \in RunStages \cup {"idle"} => p \notin published
    /\ \A o \in Objects :
           LET listed == mem[p].listing[o] IN
           /\ pc[p] = "inventory" => Holds(p, o, Missing)
           /\ pc[p] \in {"copy", "store"} =>
                  Holds(p, o, IF o < mem[p].slot THEN listed ELSE Missing)
           /\ pc[p] = "verify" =>
                  Holds(p, o, IF o <= mem[p].slot THEN listed ELSE Missing)
           /\ pc[p] \in {"recheck", "manifest"} => Holds(p, o, listed)
           /\ pc[p] \in {"readback", "marker"} => Holds(p, o, entries[p][o])
    /\ pc[p] \in {"readback", "marker"} => manifest[p] # "absent"

\* A prune loads only published points, and what it is about to delete is
\* expired, superseded and, once a key of it is gone, no longer certified.
PruneIsRight(q) ==
    /\ job[q].complete \subseteq published
    /\ stage[q] = "manifest" => job[q].target \in published
    /\ stage[q] \in PruneStages => job[q].now <= clock + Skew
    /\ stage[q] \in Deleting =>
           \A p \in job[q].todo :
               /\ p \in published
               /\ stamp[p] < job[q].now - Retention
               /\ Superseded(p)
    /\ stage[q] \in {"manifest-key", "object-keys"} =>
           /\ job[q].target \in published
           /\ ~Certified(job[q].target)

Safety ==
    /\ CertifiedOrSuperseded
    /\ CertifiedIsEntire
    /\ \A p \in Points : RunIsHonest(p)
    /\ \A q \in Prunes : PruneIsRight(q)
-----------------------------------------------------------------------------
(* Why what is certified, pruned and restored is what it seems to be.       *)

\* A published point never holds anything but its entries, damaged ones, or
\* what a deletion has left of them.
NothingIsAdded(p) ==
    \A o \in Objects :
        \/ body[p][o] \in {entries[p][o], Missing}
        \/ body[p][o] = Damaged /\ entries[p][o] # Missing

Mismatched(p) == {o \in Objects : body[p][o] # entries[p][o]}

\* A flaw that q found is still ahead of q, at a check that will report it:
\* the marker or the manifest does not load, a copy does not verify, or the
\* audit finds a key too many.
FlawIsAhead(q, p) ==
    LET ahead == p \in job[q].todo
        loaded == p \in job[q].complete
        inHand == p = job[q].target
        unverified == Mismatched(p) # {} \/ foreign[p] IN
    \/ stage[q] \in {"marker", "manifest"} /\ ahead /\ ~Sound(p)
    \/ stage[q] \in {"marker", "manifest"} /\ loaded /\ unverified
    \/ stage[q] = "manifest" /\ inHand /\ (manifest[p] # "whole" \/ unverified)
    \/ stage[q] = "verify" /\ loaded /\ foreign[p]
    \/ stage[q] = "verify" /\ ahead /\ Mismatched(p) # {}
    \/ stage[q] = "verify" /\ inHand /\ Mismatched(p) \cap job[q].left # {}
    \/ stage[q] = "audit" /\ ahead /\ foreign[p]

VerdictIsRight(q) ==
    /\ spoiled[q] \subseteq published
    /\ stage[q] \in {"marker", "manifest", "verify", "audit"} /\ ~job[q].reported =>
           \A p \in spoiled[q] : FlawIsAhead(q, p)
    /\ stage[q] \in {"marker", "manifest"} /\ ~job[q].reported =>
           unfinished[q] \subseteq published \cup job[q].todo
    /\ stage[q] \in {"verify", "audit"} /\ ~job[q].reported =>
           unfinished[q] \subseteq published
    /\ stage[q] \in Deleting =>
           spoiled[q] = {} /\ unfinished[q] \subseteq published

\* A restore reads a published point, and what it has dealt with is in place.
DrillIsRight(x) ==
    /\ step[x] \in {"manifest", "empty", "copy", "store", "compare", "complete"} =>
           from[x] \in published
    /\ step[x] = "empty" => rest[x] = Listed(from[x])
    /\ step[x] = "complete" => rest[x] = {}
    /\ step[x] \in {"copy", "store", "compare", "complete"} /\ Alone(x) =>
           \A o \in Objects \ rest[x] :
               drill[into[x]][o] = entries[from[x]][o]
    /\ step[x] \notin {"store", "compare"} => hand[x] = Missing
    /\ step[x] = "store" =>
           \A o \in Objects :
               NextItem(x, o) => hand[x] \in {entries[from[x]][o], Damaged}

\* Each step leaves keys under at most one more prefix, so that a prune only
\* ever has to do with finitely many points, and with a batch that has keys.
UsedPoints == {p \in Points : HasKeys(p)}

WorkIsFinite ==
    /\ IsFiniteSet(UsedPoints)
    /\ \A q \in Prunes :
           /\ IsFiniteSet(job[q].todo) /\ IsFiniteSet(job[q].complete)
           /\ stage[q] = "object-keys" => job[q].left # {}

CapturesAreRight == \A p \in Points : CaptureIsRight(p)
PointsAreIntact == \A p \in published : NothingIsAdded(p)
VerdictsAreRight == \A q \in Prunes : VerdictIsRight(q)
DrillsAreRight == \A x \in Restores : DrillIsRight(x)

BackupInv ==
    /\ TypeOK
    /\ Safety
    /\ CapturesAreRight
    /\ PointsAreIntact
    /\ VerdictsAreRight
    /\ DrillsAreRight
    /\ WorkIsFinite
=============================================================================
