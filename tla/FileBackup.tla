----------------------------- MODULE FileBackup -----------------------------
(***************************************************************************)
(* s3-file-backup.py backup: the capture of every object of the source     *)
(* buckets into a new point.  The application keeps writing while the run  *)
(* lists the sources, copies what it listed, lists them again and, only if *)
(* nothing it can see has changed, stores the manifest and the marker.     *)
(*                                                                         *)
(* One action is one call to the object store.  A run may stop before any  *)
(* of them: an S3 error, the Job's activeDeadlineSeconds, an eviction.  A  *)
(* call whose effect lands and whose answer is lost also ends the run,     *)
(* which writes nothing more and removes nothing.                          *)
(***************************************************************************)
EXTENDS SnapshotStore

CONSTANTS
    NumSources,  \* source buckets, walked in the order of config["sources"]
    SourceOf,    \* SourceOf[o]: the source bucket of slot o
    MaxEntries,  \* how many entries fit in MAX_MANIFEST_BYTES
    MaxChanges   \* bound: writes, deletions and reconfigurations of the sources

Buckets == 1..NumSources

ASSUME BackupAssumption ==
    /\ NumSources \in Nat \ {0}
    /\ SourceOf \in [Objects -> Buckets]
    /\ \A o, r \in Objects : o <= r => SourceOf[o] <= SourceOf[r]
    /\ MaxEntries \in Nat
    /\ MaxChanges \in Nat

\* Versioning unconfigured without and with lifecycle rules, or configured.
SettingValues == {"plain", "rules", "versioned"}

VARIABLES
    source,     \* source[o]: the version the application keeps in slot o
    version,    \* the last version written; no identity is ever reused
    changes,    \* changes of the sources so far
    settings,   \* settings[b]: versioning and lifecycle of source bucket b
    pc,         \* pc[p]: the next call of the run that makes p
    mem,        \* mem[p]: what that run remembers until it ends
    truth       \* history: the sources at the moment p's last copy was made

sourceVars == <<source, version, changes, settings>>
backupVars == <<sourceVars, pc, mem, truth>>

RunStages == {"inventory", "copy", "store", "verify", "recheck", "manifest",
              "readback", "marker"}
RunStates == RunStages \cup {"idle", "complete", "failed"}

\* The object slots, and the end of a walk over them.
Slots == 1..(NumObjects + 1)

Memory == [
    bucket  : Buckets,                     \* the source bucket in hand
    slot    : Slots,                       \* the object slot in hand
    listing : [Objects -> Nat],            \* what the first inventory saw
    seen    : [Buckets -> SettingValues],  \* the settings it saw
    drift   : BOOLEAN ]                    \* the second inventory differs

Blank == [
    bucket  |-> 1,
    slot    |-> 1,
    listing |-> NoObjects,
    seen    |-> [b \in Buckets |-> "plain"],
    drift   |-> FALSE ]

BackupTypeOK ==
    /\ source \in [Objects -> Nat]
    /\ version \in Nat
    /\ changes \in Nat
    /\ settings \in [Buckets -> SettingValues]
    /\ pc \in [Points -> RunStates]
    /\ mem \in [Points -> Memory]
    /\ \A p \in Points : pc[p] \in {"store", "verify"} => mem[p].slot \in Objects
    /\ truth \in [Points -> [Objects -> Nat]]

\* The sources hold any selection of objects, each with a version of its own.
BackupInit ==
    /\ \E S \in SUBSET Objects :
           source = [o \in Objects |-> IF o \in S THEN o ELSE Missing]
    /\ version = NumObjects
    /\ changes = 0
    /\ settings = [b \in Buckets |-> "plain"]
    /\ pc = [p \in Points |-> "idle"]
    /\ mem = [p \in Points |-> Blank]
    /\ truth = [p \in Points |-> NoObjects]

-----------------------------------------------------------------------------
(* The application and the bucket administrators. *)

SourceWrite(o) ==
    /\ version' = version + 1
    /\ source' = [source EXCEPT ![o] = version + 1]
    /\ UNCHANGED settings

SourceDelete(o) ==
    /\ source[o] # Missing
    /\ source' = [source EXCEPT ![o] = Missing]
    /\ UNCHANGED <<version, settings>>

AlterSettings(b) ==
    /\ \E s \in SettingValues \ {settings[b]} :
           settings' = [settings EXCEPT ![b] = s]
    /\ UNCHANGED <<source, version>>

Application ==
    /\ changes < MaxChanges
    /\ changes' = changes + 1
    /\ \/ \E o \in Objects : SourceWrite(o) \/ SourceDelete(o)
       \/ \E b \in Buckets : AlterSettings(b)
    /\ UNCHANGED <<pc, mem, truth, storeVars>>

-----------------------------------------------------------------------------
(* One run. *)

Goto(p, stage) == pc' = [pc EXCEPT ![p] = stage]
Remember(p, m) == mem' = [mem EXCEPT ![p] = m]

\* The run ends, and what it remembered is gone.
End(p, state) == Goto(p, state) /\ Remember(p, Blank)

\* The slots of the bucket in hand that the inventory has not reached.
Unlisted(p) ==
    {o \in Objects : o >= mem[p].slot /\ SourceOf[o] = mem[p].bucket}

\* The captured objects that still have to be copied.
Uncopied(p) ==
    {o \in Objects : o >= mem[p].slot /\ mem[p].listing[o] # Missing}

IsFirst(o, S) == o \in S /\ \A r \in S : o <= r

\* Take the clock and an identity that is new, see that the prefix is empty.
Start(p) ==
    /\ pc[p] = "idle"
    /\ ~HasKeys(p)
    /\ \E now \in Readings : stamp' = [stamp EXCEPT ![p] = now]
    /\ Goto(p, "inventory")
    /\ UNCHANGED <<clock, body, entries, manifest, marker, foreign, stray,
                   faults, published, sourceVars, mem, truth>>

\* One page of list_objects_v2: what the slot holds when the page is read.
ListObject(p) ==
    /\ pc[p] = "inventory"
    /\ \E o \in Objects :
           /\ IsFirst(o, Unlisted(p))
           /\ Remember(p, [mem[p] EXCEPT !.listing[o] = source[o],
                                         !.slot = o + 1])
    /\ UNCHANGED <<storeVars, sourceVars, pc, truth>>

\* A walk goes on with the next source bucket or, after the last one, with
\* the next stage.
NextBucket(p, m, stage) ==
    \/ /\ m.bucket < NumSources
       /\ Remember(p, [m EXCEPT !.bucket = @ + 1])
       /\ UNCHANGED pc
    \/ /\ m.bucket = NumSources
       /\ Remember(p, [m EXCEPT !.bucket = 1, !.slot = 1])
       /\ Goto(p, stage)

\* Configured versioning ends the run before anything is copied.
ReadSettings(p) ==
    /\ pc[p] = "inventory"
    /\ Unlisted(p) = {}
    /\ LET b == mem[p].bucket IN
           \/ /\ settings[b] # "versioned"
              /\ NextBucket(p, [mem[p] EXCEPT !.seen[b] = settings[b]], "copy")
           \/ /\ settings[b] = "versioned"
              /\ End(p, "failed")
    /\ UNCHANGED <<storeVars, sourceVars, truth>>

\* get_object with If-Match: the bytes that follow are those that were listed,
\* whatever happens to the source while they are copied.
OpenObject(p) ==
    /\ pc[p] = "copy"
    /\ \E o \in Objects :
           /\ IsFirst(o, Uncopied(p))
           /\ source[o] = mem[p].listing[o]
           /\ Remember(p, [mem[p] EXCEPT !.slot = o])
    /\ Goto(p, "store")
    /\ UNCHANGED <<storeVars, sourceVars, truth>>

\* The rest of _copy_stream up to the stored copy (AtomicCopy, CopyStream).
\* The answer to the write may be lost.
CopyObject(p) ==
    /\ pc[p] = "store"
    /\ LET o == mem[p].slot IN
           body' = [body EXCEPT ![p][o] = mem[p].listing[o]]
    /\ \/ Goto(p, "verify") /\ UNCHANGED mem
       \/ End(p, "failed")
    /\ UNCHANGED <<clock, stamp, entries, manifest, marker, foreign, stray,
                   faults, published, sourceVars, truth>>

\* PreconditionFailed or NoSuchKey: the object changed since it was listed.
CopyRefused(p) ==
    /\ pc[p] = "copy"
    /\ \E o \in Objects :
           IsFirst(o, Uncopied(p)) /\ source[o] # mem[p].listing[o]
    /\ End(p, "failed")
    /\ UNCHANGED <<storeVars, sourceVars, truth>>

\* _verify_stream: read the copy back and compare size and SHA-256.
VerifyCopy(p) ==
    /\ pc[p] = "verify"
    /\ LET o == mem[p].slot IN
           \/ /\ body[p][o] = mem[p].listing[o]
              /\ Remember(p, [mem[p] EXCEPT !.slot = o + 1])
              /\ Goto(p, "copy")
           \/ /\ body[p][o] # mem[p].listing[o]
              /\ End(p, "failed")
    /\ UNCHANGED <<storeVars, sourceVars, truth>>

FinishCopy(p) ==
    /\ pc[p] = "copy"
    /\ Uncopied(p) = {}
    /\ truth' = [truth EXCEPT ![p] = source]
    /\ Remember(p, [mem[p] EXCEPT !.slot = 1])
    /\ Goto(p, "recheck")
    /\ UNCHANGED <<storeVars, sourceVars>>

\* One page of the second listing, compared with the first.
RelistObject(p) ==
    /\ pc[p] = "recheck"
    /\ \E o \in Objects :
           /\ IsFirst(o, Unlisted(p))
           /\ Remember(p, [mem[p] EXCEPT
                              !.drift = @ \/ source[o] # mem[p].listing[o],
                              !.slot = o + 1])
    /\ UNCHANGED <<storeVars, sourceVars, pc, truth>>

\* Mutant: only the settings are compared again.
AssertSettingsOnly(p) ==
    /\ pc[p] = "recheck"
    /\ Unlisted(p) = {}
    /\ LET b == mem[p].bucket
           stable == settings[b] = mem[p].seen[b] IN
           \/ stable /\ NextBucket(p, mem[p], "manifest")
           \/ ~stable /\ End(p, "failed")
    /\ UNCHANGED <<storeVars, sourceVars, truth>>

\* _assert_stable, after the second reading of the bucket's settings.
AssertStable(p) ==
    /\ pc[p] = "recheck"
    /\ Unlisted(p) = {}
    /\ LET b == mem[p].bucket
           stable == ~mem[p].drift /\ settings[b] = mem[p].seen[b] IN
           \/ stable /\ NextBucket(p, mem[p], "manifest")
           \/ ~stable /\ End(p, "failed")
    /\ UNCHANGED <<storeVars, sourceVars, truth>>

PutManifest(p) ==
    /\ pc[p] = "manifest"
    /\ manifest' = [manifest EXCEPT ![p] = "whole"]
    /\ entries' = [entries EXCEPT ![p] = mem[p].listing]
    /\ \/ Goto(p, "readback") /\ UNCHANGED mem
       \/ End(p, "failed")
    /\ UNCHANGED <<clock, stamp, body, marker, foreign, stray, faults,
                   published, sourceVars, truth>>

\* Mutant: the manifest is read back without the limit of a reader.
ReadBackUnlimited(p) ==
    /\ pc[p] = "readback"
    /\ \/ manifest[p] = "whole" /\ Goto(p, "marker") /\ UNCHANGED mem
       \/ manifest[p] # "whole" /\ End(p, "failed")
    /\ UNCHANGED <<storeVars, sourceVars, truth>>

\* The manifest must read back equal, within the limit a reader will apply.
ReadBackManifest(p) ==
    /\ pc[p] = "readback"
    /\ LET readable == /\ manifest[p] = "whole"
                       /\ Cardinality(Listed(p)) <= MaxEntries IN
           \/ readable /\ Goto(p, "marker") /\ UNCHANGED mem
           \/ ~readable /\ End(p, "failed")
    /\ UNCHANGED <<storeVars, sourceVars, truth>>

PutMarker(p) ==
    /\ pc[p] = "marker"
    /\ marker' = [marker EXCEPT ![p] = "whole"]
    /\ published' = published \cup {p}
    /\ End(p, "complete") \/ End(p, "failed")
    /\ UNCHANGED <<clock, stamp, body, entries, manifest, foreign, stray,
                   faults, sourceVars, truth>>

\* An S3 error before the next call has an effect, or the process is killed.
Abandon(p) ==
    /\ pc[p] \in RunStages
    /\ End(p, "failed")
    /\ UNCHANGED <<storeVars, sourceVars, truth>>

RunStep(p) ==
    \/ ListObject(p)  \/ ReadSettings(p) \/ OpenObject(p) \/ CopyRefused(p)
    \/ CopyObject(p)  \/ VerifyCopy(p)   \/ FinishCopy(p) \/ RelistObject(p)
    \/ AssertStable(p) \/ PutManifest(p) \/ ReadBackManifest(p)
    \/ PutMarker(p)

BackupNext ==
    \/ \E p \in Points : Start(p) \/ RunStep(p) \/ Abandon(p)
    \/ Application
    \/ StoreEnvironment /\ UNCHANGED backupVars

captureVars == <<storeVars, backupVars>>

CaptureInit == StoreInit /\ BackupInit

BackupSpec == CaptureInit /\ [][BackupNext]_captureVars

-----------------------------------------------------------------------------

\* A point that was certified holds one instant of the sources, although the
\* run listed, copied and listed again while the application kept writing:
\* everything it lists was there, in that version, at the moment the last copy
\* was made, and what it misses of that moment was removed again before the
\* run looked a second time.
CaptureIsAnInstant ==
    \A p \in published, o \in Objects :
        IF entries[p][o] # Missing
        THEN truth[p][o] = entries[p][o]
        ELSE truth[p][o] = Missing \/ source[o] # truth[p][o]

\* A point that was certified can be loaded again: its manifest is within the
\* limit that restore and prune apply when they read it.
CertifiedIsReadable ==
    \A p \in published : Cardinality(Listed(p)) <= MaxEntries

\* How many calls the run of p may still make: both walks take every slot and
\* every bucket once, and each object is opened, stored and read back.
RunLeft(p) ==
    LET N == NumObjects
        slots == (N + 1) - mem[p].slot
        walk == (NumSources - mem[p].bucket) + slots
        left == [idle      |-> 5 * N + 2 * NumSources + 7,
                 inventory |-> walk + 4 * N + NumSources + 7,
                 copy      |-> 3 * slots + N + NumSources + 6,
                 store     |-> 3 * slots + N + NumSources + 5,
                 verify    |-> 3 * slots + N + NumSources + 4,
                 recheck   |-> walk + 4,
                 manifest  |-> 3, readback |-> 2, marker |-> 1,
                 complete  |-> 0, failed |-> 0] IN
    left[pc[p]]

-----------------------------------------------------------------------------
(* Why a certified point is an instant: an invariant of every run.          *)

\* An object listed in version v (or not listed) is the t of the last copy,
\* unless it was there then and is gone or replaced by now.
AgreesAt(t, v, now) == IF v # Missing THEN t = v ELSE t = Missing \/ now # t

\* Nothing that is remembered is newer than the last version written.
VersionsAreKnown(p) ==
    \A o \in Objects :
        /\ source[o] <= version
        /\ mem[p].listing[o] <= version
        /\ truth[p][o] <= version

\* The second walk has passed every slot of the buckets before the one in
\* hand.  A slot that it found unchanged agrees with the last copy; one that
\* it has not reached may disagree, and then it will be found changed.
RecheckIsRight(p) ==
    \A o \in Objects :
        LET listed == mem[p].listing[o] IN
        /\ SourceOf[o] < mem[p].bucket => o < mem[p].slot
        /\ listed # Missing => truth[p][o] = listed \/ source[o] # listed
        /\ o < mem[p].slot /\ ~mem[p].drift =>
               AgreesAt(truth[p][o], listed, source[o])

CaptureIsRight(p) ==
    /\ VersionsAreKnown(p)
    /\ pc[p] \in {"copy", "store", "verify"} => mem[p].bucket = 1
    /\ pc[p] = "recheck" => RecheckIsRight(p)
    /\ pc[p] \in {"manifest", "readback", "marker"} =>
           \A o \in Objects :
               AgreesAt(truth[p][o], mem[p].listing[o], source[o])
    /\ pc[p] \in {"readback", "marker"} => entries[p] = mem[p].listing
    /\ pc[p] = "marker" => Cardinality(Listed(p)) <= MaxEntries
    /\ p \in published =>
           /\ entries[p] \in [Objects -> Nat]
           /\ Cardinality(Listed(p)) <= MaxEntries
           /\ \A o \in Objects :
                  AgreesAt(truth[p][o], entries[p][o], source[o])
=============================================================================
