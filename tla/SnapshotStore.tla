---------------------------- MODULE SnapshotStore ----------------------------
(***************************************************************************)
(* The private backup bucket, as the three modes of s3-file-backup.py see  *)
(* it.  A point owns one key prefix, which holds a copy of every captured  *)
(* object, a manifest and a completion marker.  The modes share nothing    *)
(* but this bucket: no lock, no lease, no conditional write.               *)
(*                                                                         *)
(* Data is abstracted to what the code compares.  A version number stands  *)
(* for an object's bytes together with the identity the listing reports    *)
(* (ETag, size and second-granular LastModified); a copy whose bytes no    *)
(* longer hash to the recorded SHA-256 is Damaged.                         *)
(***************************************************************************)
EXTENDS Integers, FiniteSets

CONSTANTS
    Points,      \* snapshot identities, one for every backup run
    NumObjects,  \* key slots of the source buckets, in the order the code walks
    Skew,        \* how far a host's clock is from the reference clock
    MaxClock,    \* bound: ticks of the reference clock
    MaxFaults    \* bound: damaged, foreign and stray keys

ASSUME StoreAssumption ==
    /\ NumObjects \in Nat
    /\ Skew \in Nat
    /\ MaxClock \in Nat
    /\ MaxFaults \in Nat

VARIABLES
    clock,      \* reference clock, in the units of the retention period
    stamp,      \* stamp[p]: capture time in the identity of p (created_at)
    body,       \* body[p][o]: version in the copy of object o under prefix p
    entries,    \* entries[p][o]: version the manifest of p lists, or Missing
    manifest,   \* manifest[p]: state of the key manifest.json
    marker,     \* marker[p]: state of the key COMPLETE.json
    foreign,    \* foreign[p]: the prefix holds a key no run of the code wrote
    stray,      \* the root holds an object or a prefix that is no identity
    faults,     \* faults so far
    published   \* history: points whose marker has ever been stored

storeVars == <<clock, stamp, body, entries, manifest, marker, foreign, stray,
               faults, published>>

Objects == 1..NumObjects
Missing == 0
Damaged == -1
KeyStates == {"absent", "whole", "damaged"}
NoObjects == [o \in Objects |-> Missing]

StoreTypeOK ==
    /\ clock \in Nat
    /\ stamp \in [Points -> Int]
    /\ body \in [Points -> [Objects -> Int]]
    /\ entries \in [Points -> [Objects -> Int]]
    /\ manifest \in [Points -> KeyStates]
    /\ marker \in [Points -> KeyStates]
    /\ foreign \in [Points -> BOOLEAN]
    /\ stray \in BOOLEAN
    /\ faults \in Nat
    /\ published \in SUBSET Points

StoreInit ==
    /\ clock = 0
    /\ stamp = [p \in Points |-> 0]
    /\ body = [p \in Points |-> NoObjects]
    /\ entries = [p \in Points |-> NoObjects]
    /\ manifest = [p \in Points |-> "absent"]
    /\ marker = [p \in Points |-> "absent"]
    /\ foreign = [p \in Points |-> FALSE]
    /\ stray = FALSE
    /\ faults = 0
    /\ published = {}

-----------------------------------------------------------------------------
(* What a caller finds in the bucket. *)

\* A reading of some host's clock: now of a backup or of a prune.
Readings == (clock - Skew)..(clock + Skew)

Listed(p) == {o \in Objects : entries[p][o] # Missing}
Stored(p) == {o \in Objects : body[p][o] # Missing}

HasKeys(p) ==
    \/ marker[p] # "absent"
    \/ manifest[p] # "absent"
    \/ foreign[p]
    \/ Stored(p) # {}

\* The copy of object o under p is version v, or what damage has left of it.
Holds(p, o, v) ==
    \/ body[p][o] = v
    \/ v # Missing /\ body[p][o] = Damaged

\* Every key of a complete point is there, whatever the state of its bytes.
Entire(p) ==
    /\ manifest[p] # "absent"
    /\ Listed(p) = Stored(p)

\* The prefix is exactly a complete point and all of it verifies.
Sound(p) ==
    /\ marker[p] = "whole"
    /\ manifest[p] = "whole"
    /\ body[p] = entries[p]
    /\ ~foreign[p]

-----------------------------------------------------------------------------
(* What happens to the bucket that no mode of the program does. *)

Tick ==
    /\ clock < MaxClock
    /\ clock' = clock + 1
    /\ UNCHANGED <<stamp, body, entries, manifest, marker, foreign, stray,
                   faults, published>>

DamageCopy(p, o) ==
    /\ faults < MaxFaults
    /\ body[p][o] \notin {Missing, Damaged}
    /\ body' = [body EXCEPT ![p][o] = Damaged]
    /\ faults' = faults + 1
    /\ UNCHANGED <<clock, stamp, entries, manifest, marker, foreign, stray,
                   published>>

DamageManifest(p) ==
    /\ faults < MaxFaults
    /\ manifest[p] = "whole"
    /\ manifest' = [manifest EXCEPT ![p] = "damaged"]
    /\ faults' = faults + 1
    /\ UNCHANGED <<clock, stamp, body, entries, marker, foreign, stray,
                   published>>

DamageMarker(p) ==
    /\ faults < MaxFaults
    /\ marker[p] = "whole"
    /\ marker' = [marker EXCEPT ![p] = "damaged"]
    /\ faults' = faults + 1
    /\ UNCHANGED <<clock, stamp, body, entries, manifest, foreign, stray,
                   published>>

\* Somebody stores a key of their own under the prefix of a point.
AddForeignKey(p) ==
    /\ faults < MaxFaults
    /\ HasKeys(p)
    /\ ~foreign[p]
    /\ foreign' = [foreign EXCEPT ![p] = TRUE]
    /\ faults' = faults + 1
    /\ UNCHANGED <<clock, stamp, body, entries, manifest, marker, stray,
                   published>>

\* Somebody stores a key beside the points.
AddStrayKey ==
    /\ faults < MaxFaults
    /\ ~stray
    /\ stray' = TRUE
    /\ faults' = faults + 1
    /\ UNCHANGED <<clock, stamp, body, entries, manifest, marker, foreign,
                   published>>

StoreEnvironment ==
    \/ Tick
    \/ \E p \in Points, o \in Objects : DamageCopy(p, o)
    \/ \E p \in Points : \/ DamageManifest(p)
                         \/ DamageMarker(p)
                         \/ AddForeignKey(p)
    \/ AddStrayKey
=============================================================================
