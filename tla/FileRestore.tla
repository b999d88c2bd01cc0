----------------------------- MODULE FileRestore -----------------------------
(***************************************************************************)
(* s3-file-backup.py restore: load a point, see that the drill prefix is   *)
(* empty, and copy every listed object into it, reading each copy back.    *)
(* The check of the prefix and the writes that follow it are separate      *)
(* calls, and the point is not held while it is read.                      *)
(***************************************************************************)
EXTENDS SnapshotStore

CONSTANTS
    Restores,  \* restore runs
    Prefixes   \* isolated drill prefixes

VARIABLES
    step,    \* step[x]: the next call of restore x
    from,    \* from[x]: the point it was asked for
    into,    \* into[x]: the drill prefix it was asked for
    rest,    \* rest[x]: listed objects it has still to restore
    hand,    \* hand[x]: version of the copy it has opened
    drill    \* drill[d][o]: what drill prefix d holds for object o

restoreVars == <<step, from, into, rest, hand, drill>>

RestoreStages == {"marker", "manifest", "empty", "copy", "store", "compare"}
RestoreStates == RestoreStages \cup {"idle", "complete", "failed"}

RestoreTypeOK ==
    /\ step \in [Restores -> RestoreStates]
    /\ from \in [Restores -> Points]
    /\ into \in [Restores -> Prefixes]
    /\ rest \in [Restores -> SUBSET Objects]
    /\ hand \in [Restores -> Int]
    /\ drill \in [Prefixes -> [Objects -> Int]]

RestoreInit ==
    /\ step = [x \in Restores |-> "idle"]
    /\ \E p \in Points : from = [x \in Restores |-> p]
    /\ \E d \in Prefixes : into = [x \in Restores |-> d]
    /\ rest = [x \in Restores |-> {}]
    /\ hand = [x \in Restores |-> Missing]
    /\ drill = [d \in Prefixes |-> NoObjects]

-----------------------------------------------------------------------------

Proceed(x, s) == step' = [step EXCEPT ![x] = s]
PutDown(x) == hand' = [hand EXCEPT ![x] = Missing]
Quit(x, state) ==
    /\ Proceed(x, state)
    /\ rest' = [rest EXCEPT ![x] = {}]
    /\ PutDown(x)

\* A confirmed command line names any identity and any approved drill prefix.
StartRestore(x) ==
    /\ step[x] = "idle"
    /\ \E p \in Points : from' = [from EXCEPT ![x] = p]
    /\ \E d \in Prefixes : into' = [into EXCEPT ![x] = d]
    /\ Proceed(x, "marker")
    /\ UNCHANGED <<storeVars, rest, hand, drill>>

LoadMarker(x) ==
    /\ step[x] = "marker"
    /\ Proceed(x, IF marker[from[x]] = "whole" THEN "manifest" ELSE "failed")
    /\ UNCHANGED <<storeVars, from, into, rest, hand, drill>>

LoadManifest(x) ==
    /\ step[x] = "manifest"
    /\ \/ /\ manifest[from[x]] = "whole"
          /\ rest' = [rest EXCEPT ![x] = Listed(from[x])]
          /\ Proceed(x, "empty")
          /\ UNCHANGED hand
       \/ /\ manifest[from[x]] # "whole"
          /\ Quit(x, "failed")
    /\ UNCHANGED <<storeVars, from, into, drill>>

\* head_bucket and _prefix_has_objects.
CheckEmpty(x) ==
    /\ step[x] = "empty"
    /\ \/ /\ drill[into[x]] = NoObjects
          /\ Proceed(x, "copy")
          /\ UNCHANGED <<rest, hand>>
       \/ drill[into[x]] # NoObjects /\ Quit(x, "failed")
    /\ UNCHANGED <<storeVars, from, into, drill>>

NextItem(x, o) == o \in rest[x] /\ \A r \in rest[x] : o <= r

\* get_object opens the copy under the point: what the manifest lists, or
\* damage that has kept its size.
OpenCopy(x) ==
    /\ step[x] = "copy"
    /\ \E o \in Objects :
           /\ NextItem(x, o)
           /\ body[from[x]][o] \in {entries[from[x]][o], Damaged}
           /\ hand' = [hand EXCEPT ![x] = body[from[x]][o]]
    /\ Proceed(x, "store")
    /\ UNCHANGED <<storeVars, from, into, rest, drill>>

\* A copy that is missing or has another size ends the restore unwritten.
RestoreRefused(x) ==
    /\ step[x] = "copy"
    /\ \E o \in Objects :
           /\ NextItem(x, o)
           /\ body[from[x]][o] # entries[from[x]][o]
    /\ Quit(x, "failed")
    /\ UNCHANGED <<storeVars, from, into, drill>>

\* What was opened becomes an object of the drill prefix, whatever has become
\* of the point since; the answer to the write may be lost.
RestoreObject(x) ==
    /\ step[x] = "store"
    /\ \E o \in Objects :
           /\ NextItem(x, o)
           /\ drill' = [drill EXCEPT ![into[x]][o] = hand[x]]
    /\ \/ Proceed(x, "compare") /\ UNCHANGED <<rest, hand>>
       \/ Quit(x, "failed")
    /\ UNCHANGED <<storeVars, from, into>>

\* Mutant: the manifest's digest is not compared with that of the copy.
CompareWithCopy(x) ==
    /\ step[x] = "compare"
    /\ \E o \in Objects :
           /\ NextItem(x, o)
           /\ \/ /\ drill[into[x]][o] = hand[x]
                 /\ rest' = [rest EXCEPT ![x] = @ \ {o}]
                 /\ PutDown(x)
                 /\ Proceed(x, "copy")
              \/ drill[into[x]][o] # hand[x] /\ Quit(x, "failed")
    /\ UNCHANGED <<storeVars, from, into, drill>>

\* _verify_stream reads the drill object back against the digest of what was
\* copied, and only then is that digest compared with the manifest's.
CompareObject(x) ==
    /\ step[x] = "compare"
    /\ \E o \in Objects :
           /\ NextItem(x, o)
           /\ \/ /\ drill[into[x]][o] = hand[x]
                 /\ hand[x] = entries[from[x]][o]
                 /\ rest' = [rest EXCEPT ![x] = @ \ {o}]
                 /\ PutDown(x)
                 /\ Proceed(x, "copy")
              \/ /\ \/ drill[into[x]][o] # hand[x]
                    \/ hand[x] # entries[from[x]][o]
                 /\ Quit(x, "failed")
    /\ UNCHANGED <<storeVars, from, into, drill>>

FinishRestore(x) ==
    /\ step[x] = "copy"
    /\ rest[x] = {}
    /\ Proceed(x, "complete")
    /\ UNCHANGED <<storeVars, from, into, rest, hand, drill>>

AbandonRestore(x) ==
    /\ step[x] \in RestoreStages
    /\ Quit(x, "failed")
    /\ UNCHANGED <<storeVars, from, into, drill>>

RestoreStep(x) ==
    \/ LoadMarker(x)     \/ LoadManifest(x)  \/ CheckEmpty(x)
    \/ OpenCopy(x)       \/ RestoreObject(x) \/ RestoreRefused(x)
    \/ CompareObject(x)  \/ FinishRestore(x)

\* How many calls a restore may still make: three for each object.
RestoreLeft(x) ==
    LET objects == 3 * Cardinality(rest[x])
        left == [idle     |-> 3 * NumObjects + 7,
                 marker   |-> 3 * NumObjects + 6,
                 manifest |-> 3 * NumObjects + 5,
                 empty    |-> objects + 4, copy    |-> objects + 3,
                 store    |-> objects + 2, compare |-> objects + 1,
                 complete |-> 0,           failed  |-> 0] IN
    left[step[x]]

=============================================================================
