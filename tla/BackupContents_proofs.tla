----------------------- MODULE BackupContents_proofs -----------------------
(***************************************************************************)
(* Proofs about what the points of BackupSystem hold: that a certified     *)
(* point is one instant of the sources, that a prune deletes nothing while *)
(* the bucket is unsound, that a restore gives back what was captured, and *)
(* that no command goes on for ever.                                       *)
(* They rest on the type correctness and on the safety invariant of        *)
(* BackupSystem_proofs.                                                    *)
(***************************************************************************)
EXTENDS BackupSystem_proofs, FiniteSetTheorems

-----------------------------------------------------------------------------
(* What a step may do to a published point: its run has ended, what its     *)
(* manifest lists never changes, and each of its keys can only be damaged   *)
(* or deleted.                                                              *)

OnlyDecays(p) ==
    /\ UNCHANGED <<pc[p], mem[p], truth[p], entries[p]>>
    /\ marker[p] # "whole" => marker'[p] # "whole"
    /\ manifest[p] # "whole" => manifest'[p] # "whole"
    /\ foreign[p] => foreign'[p]
    /\ \A o \in Objects :
           \/ body'[p][o] \in {body[p][o], Missing}
           \/ body'[p][o] = Damaged /\ body[p][o] \notin {Missing, Damaged}

LEMMA RunTouchesItsPrefix ==
    ASSUME TypeOK, NEW p \in Points, BackupRun(p)
    PROVE  /\ \A r \in Points \ {p} :
                  UNCHANGED <<pc[r], mem[r], truth[r], entries[r], body[r],
                              marker[r], manifest[r], foreign[r]>>
           /\ UNCHANGED <<source, version>>
           /\ published' \in {published, published \cup {p}}
           /\ published' # published => PutMarker(p)
           /\ pc[p] \in RunStages \cup {"idle"}
<1> USE DEF TypeOK, StoreTypeOK, BackupTypeOK, storeVars, sourceVars, Goto,
            Remember, End, RunStages
<1>1. CASE Start(p)
    BY <1>1 DEF Start
<1>2. CASE ListObject(p) \/ OpenObject(p) \/ CopyRefused(p) \/ Abandon(p)
    BY <1>2 DEF ListObject, OpenObject, CopyRefused, Abandon
<1>3. CASE ReadSettings(p) \/ AssertStable(p)
    BY <1>3 DEF ReadSettings, AssertStable, NextBucket
<1>4. CASE CopyObject(p)
    BY <1>4 DEF CopyObject
<1>5. CASE VerifyCopy(p) \/ FinishCopy(p) \/ RelistObject(p) \/ ReadBackManifest(p)
    BY <1>5 DEF VerifyCopy, FinishCopy, RelistObject, ReadBackManifest
<1>6. CASE PutManifest(p)
    BY <1>6 DEF PutManifest
<1>7. CASE PutMarker(p)
    BY <1>7 DEF PutMarker
<1> QED
    BY <1>1, <1>2, <1>3, <1>4, <1>5, <1>6, <1>7 DEF BackupRun, RunStep

LEMMA PruneOnlyRemoves ==
    ASSUME TypeOK, NEW q \in Prunes, PruneRun(q)
    PROVE  /\ \A p \in Points : OnlyDecays(p)
           /\ UNCHANGED <<source, version, published, entries>>
<1> USE DEF OnlyDecays, backupVars, sourceVars, TypeOK, StoreTypeOK
<1>0. UNCHANGED backupVars
    BY DEF PruneRun
<1>1. CASE DeleteMarker(q)
    BY <1>0, <1>1 DEF DeleteMarker
<1>2. CASE DeleteManifest(q)
    BY <1>0, <1>2 DEF DeleteManifest
<1>3. CASE DeleteBatch(q)
    <2>1. ASSUME NEW t, NEW gone, Remove(t, gone)
          PROVE  \A p \in Points, o \in Objects : body'[p][o] \in {body[p][o], Missing}
        BY <2>1 DEF Remove
    <2>2. \A p \in Points, o \in Objects : body'[p][o] \in {body[p][o], Missing}
        BY <1>3, <2>1 DEF DeleteBatch
    <2> QED
        BY <1>0, <1>3, <2>2 DEF DeleteBatch
<1>4. CASE UNCHANGED storeVars
    BY <1>0, <1>4 DEF storeVars
<1> QED
    BY <1>1, <1>2, <1>3, <1>4
    DEF PruneRun, PruneStep, ListPrefixes, ReadMarker, ReadManifest,
        BeginVerify, TakePoint, VerifyObject, BeginAudit, AuditKeys, Decide,
        FinishPrune, AbandonPrune

LEMMA WorldOnlyDamages ==
    ASSUME TypeOK, World
    PROVE  /\ \A p \in Points : OnlyDecays(p)
           /\ UNCHANGED <<published, entries>>
           /\ Application \/ UNCHANGED <<source, version>>
<1> USE DEF OnlyDecays, TypeOK, StoreTypeOK
<1>1. CASE Application
    BY <1>1 DEF Application, storeVars
<1>2. CASE StoreEnvironment /\ UNCHANGED backupVars
    <2>0. UNCHANGED <<pc, mem, truth, source, version>>
        BY <1>2 DEF backupVars, sourceVars
    <2>1. CASE Tick \/ AddStrayKey
        BY <2>0, <2>1 DEF Tick, AddStrayKey
    <2>2. ASSUME NEW r \in Points, NEW i \in Objects, DamageCopy(r, i)
          PROVE  /\ \A p \in Points : OnlyDecays(p)
                 /\ UNCHANGED <<published, entries>>
        BY <2>0, <2>2 DEF DamageCopy
    <2>3. ASSUME NEW r \in Points,
                 DamageManifest(r) \/ DamageMarker(r) \/ AddForeignKey(r)
          PROVE  /\ \A p \in Points : OnlyDecays(p)
                 /\ UNCHANGED <<published, entries>>
        BY <2>0, <2>3 DEF DamageManifest, DamageMarker, AddForeignKey
    <2> QED
        BY <1>2, <2>0, <2>1, <2>2, <2>3 DEF StoreEnvironment
<1> QED
    BY <1>1, <1>2 DEF World

LEMMA RestoreOnlyReads ==
    ASSUME TypeOK, NEW x \in Restores, RestoreRun(x)
    PROVE  /\ \A p \in Points : OnlyDecays(p)
           /\ UNCHANGED <<storeVars, backupVars, pruneVars>>
BY RestoreType DEF RestoreRun, OnlyDecays, storeVars, backupVars

LEMMA PublishedOnlyDecays ==
    ASSUME TypeOK, Safety, [Next]_vars
    PROVE  /\ published \subseteq published'
           /\ \A p \in published : OnlyDecays(p)
<1>0. published \subseteq Points
    BY DEF TypeOK, StoreTypeOK
<1>1. ASSUME NEW p \in Points, BackupRun(p)
      PROVE  /\ published \subseteq published'
             /\ \A r \in published : OnlyDecays(r)
    <2>1. p \notin published
        BY <1>1, RunTouchesItsPrefix DEF Safety, RunIsHonest
    <2> QED
        BY <1>0, <1>1, <2>1, RunTouchesItsPrefix DEF OnlyDecays
<1>2. CASE UNCHANGED vars
    BY <1>2 DEF vars, storeVars, backupVars, OnlyDecays
<1> QED
    BY <1>0, <1>1, <1>2, PruneOnlyRemoves, RestoreOnlyReads, WorldOnlyDamages
    DEF Next, storeVars

-----------------------------------------------------------------------------
(* A capture is an instant of the sources. *)

LEMMA InitCaptures == Init => CapturesAreRight
<1> SUFFICES ASSUME Init, NEW p \in Points PROVE CaptureIsRight(p)
    BY DEF CapturesAreRight
<1>1. VersionsAreKnown(p)
    BY StoreAssumption
    DEF Init, BackupInit, Blank, NoObjects, Missing, Objects, VersionsAreKnown
<1>2. pc[p] = "idle" /\ p \notin published
    BY DEF Init, BackupInit, StoreInit
<1> QED
    BY <1>1, <1>2 DEF CaptureIsRight

\* A capture stays right while nothing it depends on changes.
LEMMA CaptureFrame ==
    ASSUME NEW p \in Points, CaptureIsRight(p),
           UNCHANGED <<pc[p], mem[p], truth[p], entries[p], source, version>>,
           p \in published' => p \in published
    PROVE  CaptureIsRight(p)'
BY DEF CaptureIsRight, VersionsAreKnown, RecheckIsRight, Listed


\* What the application writes is newer than anything a capture remembers.
LEMMA CaptureApplication ==
    ASSUME TypeOK, NEW p \in Points, CaptureIsRight(p), Application
    PROVE  CaptureIsRight(p)'
<1> DEFINE m == mem[p]
<1>0. /\ m.listing \in [Objects -> Nat] /\ truth[p] \in [Objects -> Nat]
      /\ source \in [Objects -> Nat] /\ version \in Nat
      /\ UNCHANGED <<pc, mem, truth, entries, published>>
    BY DEF Application, TypeOK, BackupTypeOK, Memory, storeVars
<1>1. \A o \in Objects :
          /\ m.listing[o] \in Nat /\ m.listing[o] <= version
          /\ truth[p][o] \in Nat /\ truth[p][o] <= version
          /\ source[o] \in Nat /\ source[o] <= version
    BY <1>0 DEF CaptureIsRight, VersionsAreKnown
<1>2. /\ version' \in {version, version + 1}
      /\ \A o \in Objects : source'[o] \in {source[o], version', Missing}
      /\ \A o \in Objects :
             source'[o] # source[o] => source'[o] = Missing \/ source'[o] > version
    BY <1>0 DEF Application, SourceWrite, SourceDelete, AlterSettings
<1>3. \A o \in Objects :
          /\ source'[o] <= version' /\ version <= version'
          /\ source'[o] = source[o] \/ source'[o] = Missing \/ source'[o] > version
    BY <1>0, <1>1, <1>2 DEF Missing
<1>4. VersionsAreKnown(p)'
    BY <1>0, <1>1, <1>2, <1>3 DEF VersionsAreKnown
<1>5. ASSUME NEW o \in Objects, NEW v \in Nat, AgreesAt(truth[p][o], v, source[o])
      PROVE  AgreesAt(truth[p][o], v, source'[o])
    BY <1>0, <1>1, <1>3, <1>5 DEF AgreesAt, Missing
<1>6. ASSUME RecheckIsRight(p)
      PROVE  RecheckIsRight(p)'
    <2> SUFFICES ASSUME NEW o \in Objects
                 PROVE  /\ SourceOf[o] < m.bucket => o < m.slot
                        /\ m.listing[o] # Missing =>
                               truth[p][o] = m.listing[o] \/ source'[o] # m.listing[o]
                        /\ o < m.slot /\ ~m.drift =>
                               AgreesAt(truth[p][o], m.listing[o], source'[o])
        BY <1>0 DEF RecheckIsRight
    <2>1. m.listing[o] # Missing => truth[p][o] = m.listing[o] \/ source[o] # m.listing[o]
        BY <1>6 DEF RecheckIsRight
    <2>2. m.listing[o] # Missing => truth[p][o] = m.listing[o] \/ source'[o] # m.listing[o]
        BY <1>0, <1>1, <1>3, <2>1
    <2> QED
        BY <1>1, <1>5, <1>6, <2>2 DEF RecheckIsRight
<1>7. entries[p] \in [Objects -> Nat] => \A o \in Objects : entries[p][o] \in Nat
    OBVIOUS
<1> QED
    BY <1>0, <1>1, <1>4, <1>5, <1>6, <1>7 DEF CaptureIsRight, Listed


\* The walk of the second inventory passes the first slot of the bucket in hand.
LEMMA RelistRight ==
    ASSUME TypeOK, NEW p \in Points, CaptureIsRight(p), RelistObject(p)
    PROVE  RecheckIsRight(p)'
<1> DEFINE m == mem[p]
<1>0. /\ m \in Memory /\ m.listing \in [Objects -> Nat] /\ m.slot \in Nat
      /\ m.bucket \in Buckets /\ m.drift \in BOOLEAN
      /\ UNCHANGED <<truth, source>> /\ RecheckIsRight(p)
    BY SlotFacts DEF TypeOK, BackupTypeOK, Memory, RelistObject, sourceVars, CaptureIsRight
<1>1. PICK o \in Objects :
          /\ IsFirst(o, Unlisted(p))
          /\ Remember(p, [m EXCEPT !.drift = @ \/ source[o] # m.listing[o],
                                   !.slot = o + 1])
    BY DEF RelistObject
<1> DEFINE d == m.drift \/ source[o] # m.listing[o]
           n == [m EXCEPT !.drift = d, !.slot = o + 1]
<1>2. /\ n.listing = m.listing /\ n.bucket = m.bucket /\ n.slot = o + 1
      /\ n.drift = d
    <2> HIDE DEF d
    <2> QED
        BY <1>0 DEF Memory
<1>3. mem'[p] = n
    BY <1>1, Zenon DEF Remember, TypeOK, BackupTypeOK
<1> HIDE DEF n
<1>4. o >= m.slot /\ SourceOf[o] = m.bucket
    BY <1>1 DEF IsFirst, Unlisted
<1>5. ASSUME NEW r \in Objects PROVE SourceOf[r] < m.bucket => r < o + 1
    <2>1. SourceOf[r] < m.bucket => r < m.slot
        BY <1>0 DEF RecheckIsRight
    <2> QED
        BY <1>0, <1>4, <2>1 DEF Objects
<1>6. ASSUME NEW r \in Objects, r < o + 1, r # o
      PROVE  r < m.slot
    <2>1. SourceOf[r] <= SourceOf[o] /\ SourceOf[r] \in Int /\ SourceOf[o] \in Int
        BY <1>6, BackupAssumption DEF Objects, Buckets
    <2>2. CASE SourceOf[r] < m.bucket
        BY <1>0, <2>2 DEF RecheckIsRight
    <2>3. CASE SourceOf[r] = m.bucket
        <3>1. r \notin Unlisted(p)
            BY <1>1, <1>6 DEF IsFirst, Objects
        <3> QED
            BY <1>0, <2>3, <3>1 DEF Unlisted, Objects
    <2> QED
        BY <1>4, <2>1, <2>2, <2>3
<1>7. ASSUME NEW r \in Objects, r < o + 1, ~d
      PROVE  AgreesAt(truth[p][r], m.listing[r], source[r])
    <2>1. CASE r = o
        <3>1. source[o] = m.listing[o] /\ ~m.drift
            BY <1>7
        <3>2. m.listing[o] # Missing => truth[p][o] = m.listing[o] \/ source[o] # m.listing[o]
            BY <1>0 DEF RecheckIsRight
        <3> QED
            BY <2>1, <3>1, <3>2 DEF AgreesAt
    <2>2. CASE r # o
        <3>1. r < m.slot /\ ~m.drift
            BY <1>6, <1>7, <2>2
        <3> QED
            BY <1>0, <3>1 DEF RecheckIsRight
    <2> QED
        BY <2>1, <2>2
<1>8. \A r \in Objects : m.listing[r] # Missing =>
          truth[p][r] = m.listing[r] \/ source[r] # m.listing[r]
    BY <1>0 DEF RecheckIsRight
<1> HIDE DEF d
<1> QED
    BY <1>0, <1>2, <1>3, <1>5, <1>7, <1>8 DEF RecheckIsRight

\* Past the last slot of a bucket, the walk goes on or has seen every slot.
LEMMA AssertStableRight ==
    ASSUME TypeOK, NEW p \in Points, CaptureIsRight(p), AssertStable(p),
           NextBucket(p, mem[p], "manifest"), ~mem[p].drift
    PROVE  \/ UNCHANGED pc /\ RecheckIsRight(p)'
           \/ /\ pc'[p] = "manifest"
              /\ \A o \in Objects :
                     AgreesAt(truth[p][o], mem[p].listing[o], source[o])
<1> DEFINE m == mem[p]
<1>0. /\ m \in Memory /\ m.slot \in Nat /\ m.bucket \in Buckets
      /\ UNCHANGED <<truth, source>> /\ RecheckIsRight(p)
      /\ Unlisted(p) = {}
    BY SlotFacts DEF TypeOK, BackupTypeOK, Memory, AssertStable, sourceVars, CaptureIsRight
<1>1. ASSUME NEW o \in Objects, SourceOf[o] <= m.bucket
      PROVE  o < m.slot
    <2>1. SourceOf[o] \in Int /\ m.bucket \in Int
        BY <1>0, BackupAssumption DEF Buckets
    <2>2. CASE SourceOf[o] < m.bucket
        BY <1>0, <2>2 DEF RecheckIsRight
    <2>3. CASE SourceOf[o] = m.bucket
        BY <1>0, <2>3 DEF Unlisted, Objects
    <2> QED
        BY <1>1, <2>1, <2>2, <2>3
<1>2. CASE m.bucket < NumSources /\ Remember(p, [m EXCEPT !.bucket = @ + 1]) /\ UNCHANGED pc
    <2> DEFINE n == [m EXCEPT !.bucket = m.bucket + 1]
    <2>1. /\ n.listing = m.listing /\ n.bucket = m.bucket + 1
          /\ n.slot = m.slot /\ n.drift = m.drift
        BY <1>0 DEF Memory
    <2>2. mem'[p] = n
        BY <1>2, Zenon DEF Remember, TypeOK, BackupTypeOK
    <2> HIDE DEF n
    <2>3. \A o \in Objects : SourceOf[o] < m.bucket + 1 => o < m.slot
        BY <1>0, <1>1, BackupAssumption DEF Buckets
    <2> QED
        BY <1>0, <1>2, <2>1, <2>2, <2>3 DEF RecheckIsRight
<1>3. CASE m.bucket = NumSources /\ Goto(p, "manifest")
    <2>1. pc'[p] = "manifest"
        BY <1>3 DEF Goto, TypeOK, BackupTypeOK
    <2>2. \A o \in Objects : o < m.slot
        BY <1>1, <1>3, BackupAssumption DEF Buckets
    <2> QED
        BY <1>0, <2>1, <2>2 DEF RecheckIsRight
<1> QED
    BY <1>2, <1>3 DEF NextBucket


\* A run remembers versions that it has seen in the sources.
LEMMA VersionsStayKnown ==
    ASSUME TypeOK, NEW p \in Points, CaptureIsRight(p), BackupRun(p)
    PROVE  VersionsAreKnown(p)'
<1> DEFINE m == mem[p]
<1>0. /\ m \in Memory /\ version \in Nat
      /\ UNCHANGED <<source, version>>
      /\ VersionsAreKnown(p)
    BY RunTouchesItsPrefix DEF TypeOK, BackupTypeOK, CaptureIsRight
<1>1. truth'[p] \in {truth[p], source}
    BY DEF BackupRun, Start, RunStep, ListObject, ReadSettings, OpenObject,
           CopyRefused, CopyObject, VerifyCopy, FinishCopy, RelistObject,
           AssertStable, PutManifest, ReadBackManifest, PutMarker, Abandon,
           TypeOK, BackupTypeOK
<1> DEFINE Recalls(n) ==
        \A o \in Objects : n.listing[o] \in {m.listing[o], source[o], Missing}
<1>2. Recalls(mem'[p])
    <2>1. ASSUME NEW n, Remember(p, n), Recalls(n) PROVE Recalls(mem'[p])
        BY <2>1, Zenon DEF Remember, TypeOK, BackupTypeOK
    <2>2. Recalls(Blank)
        BY DEF Blank, NoObjects
    <2>3. Recalls(m)
        OBVIOUS
    <2>4. ASSUME NEW state, End(p, state) PROVE Recalls(mem'[p])
        BY <2>1, <2>2, <2>4 DEF End
    <2>5. CASE UNCHANGED mem
        BY <2>3, <2>5
    <2>6. ASSUME NEW s PROVE Recalls([m EXCEPT !.slot = s])
        BY <1>0 DEF Memory
    <2>7. ASSUME NEW n \in Memory, NEW stg, n.listing = m.listing, NextBucket(p, n, stg)
          PROVE  Recalls(mem'[p])
        <3>1. /\ [n EXCEPT !.bucket = @ + 1].listing = m.listing
              /\ [n EXCEPT !.bucket = 1, !.slot = 1].listing = m.listing
            BY <2>7 DEF Memory
        <3>2. /\ Recalls([n EXCEPT !.bucket = @ + 1])
              /\ Recalls([n EXCEPT !.bucket = 1, !.slot = 1])
            BY <3>1
        <3> QED
            BY <2>1, <2>7, <3>2 DEF NextBucket
    <2>8. CASE ListObject(p)
        <3>1. PICK o \in Objects :
                  Remember(p, [m EXCEPT !.listing[o] = source[o], !.slot = o + 1])
            BY <2>8 DEF ListObject
        <3>2. Recalls([m EXCEPT !.listing[o] = source[o], !.slot = o + 1])
            BY <1>0 DEF Memory
        <3> QED
            BY <2>1, <3>1, <3>2
    <2>9. CASE ReadSettings(p)
        <3> DEFINE n == [m EXCEPT !.seen[m.bucket] = settings[m.bucket]]
        <3>1. n \in Memory /\ n.listing = m.listing
            <4>1. m.bucket \in Buckets
                BY <1>0 DEF Memory
            <4>2. settings[m.bucket] \in SettingValues
                BY <4>1 DEF TypeOK, BackupTypeOK
            <4> QED
                BY <1>0, <4>1, <4>2, SeenType DEF Memory
        <3>2. NextBucket(p, n, "copy") \/ End(p, "failed")
            BY <2>9 DEF ReadSettings
        <3> HIDE DEF n
        <3> QED
            BY <2>4, <2>7, <3>1, <3>2
    <2>10. CASE OpenObject(p) \/ FinishCopy(p) \/ VerifyCopy(p)
        <3>1. End(p, "failed") \/ \E s : Remember(p, [m EXCEPT !.slot = s])
            BY <2>10 DEF OpenObject, FinishCopy, VerifyCopy
        <3> QED
            BY <2>1, <2>4, <2>6, <3>1
    <2>11. CASE RelistObject(p)
        <3>1. PICK o \in Objects :
                  Remember(p, [m EXCEPT !.drift = @ \/ source[o] # m.listing[o],
                                        !.slot = o + 1])
            BY <2>11 DEF RelistObject
        <3>2. [m EXCEPT !.drift = @ \/ source[o] # m.listing[o],
                        !.slot = o + 1].listing = m.listing
            BY <1>0, Zenon DEF Memory
        <3> QED
            BY <2>1, <3>1, <3>2
    <2>12. CASE AssertStable(p)
        <3>1. NextBucket(p, m, "manifest") \/ End(p, "failed")
            BY <2>12 DEF AssertStable
        <3> QED
            BY <1>0, <2>4, <2>7, <3>1
    <2>13. CASE CopyRefused(p) \/ PutMarker(p) \/ Abandon(p)
        BY <2>4, <2>13 DEF CopyRefused, PutMarker, Abandon
    <2>14. CASE Start(p) \/ CopyObject(p) \/ PutManifest(p) \/ ReadBackManifest(p)
        BY <2>4, <2>5, <2>14 DEF Start, CopyObject, PutManifest, ReadBackManifest
    <2> HIDE DEF Recalls
    <2> QED
        BY <2>8, <2>9, <2>10, <2>11, <2>12, <2>13, <2>14 DEF BackupRun, RunStep
<1>3. \A o \in Objects : mem'[p].listing[o] <= version /\ truth'[p][o] <= version
    BY <1>0, <1>1, <1>2 DEF VersionsAreKnown, Missing
<1> QED
    BY <1>0, <1>3 DEF VersionsAreKnown

LEMMA CaptureRun ==
    ASSUME TypeOK, Safety, NEW p \in Points, CaptureIsRight(p), BackupRun(p)
    PROVE  CaptureIsRight(p)'
<1> DEFINE m == mem[p]
<1>0. /\ m \in Memory /\ m.slot \in Nat /\ m.bucket \in Buckets
      /\ m.listing \in [Objects -> Nat] /\ source \in [Objects -> Nat]
      /\ UNCHANGED <<source, version>>
      /\ VersionsAreKnown(p)'
      /\ p \notin published
    BY RunTouchesItsPrefix, VersionsStayKnown, SlotFacts
    DEF TypeOK, BackupTypeOK, Memory, Safety, RunIsHonest
<1>1. ASSUME NEW st, Goto(p, st) PROVE pc'[p] = st
    BY <1>1 DEF Goto, TypeOK, BackupTypeOK
<1>2. ASSUME NEW n, Remember(p, n) PROVE mem'[p] = n
    BY <1>2, Zenon DEF Remember, TypeOK, BackupTypeOK
<1>3. ~PutMarker(p) => p \notin published'
    BY <1>0, RunTouchesItsPrefix
<1>4. ASSUME ~PutMarker(p), pc'[p] \in {"inventory", "complete", "failed"}
      PROVE  CaptureIsRight(p)'
    BY <1>0, <1>3, <1>4 DEF CaptureIsRight
<1>5. ASSUME NEW s, s \in {"complete", "failed"}, End(p, s)
      PROVE  pc'[p] \in {"inventory", "complete", "failed"}
    BY <1>1, <1>5 DEF End
<1>6. ASSUME pc'[p] \in {"copy", "store", "verify"}, ~PutMarker(p), mem'[p].bucket = 1
      PROVE  CaptureIsRight(p)'
    BY <1>0, <1>3, <1>6 DEF CaptureIsRight
<1>7. ASSUME NEW s \in Nat
      PROVE  /\ [m EXCEPT !.slot = s].bucket = m.bucket
             /\ [m EXCEPT !.slot = s].slot = s
             /\ [m EXCEPT !.slot = s].listing = m.listing
    BY <1>0 DEF Memory
<1>8. CASE Start(p) \/ ListObject(p) \/ CopyRefused(p) \/ Abandon(p)
    <2>1. CASE Start(p) \/ ListObject(p)
        BY <1>1, <1>4, <2>1 DEF Start, ListObject, PutMarker
    <2>2. CASE CopyRefused(p) \/ Abandon(p)
        <3>1. End(p, "failed") /\ UNCHANGED published
            BY <2>2 DEF CopyRefused, Abandon, storeVars
        <3>2. pc'[p] = "failed"
            BY <1>1, <3>1 DEF End
        <3> QED
            BY <1>0, <3>1, <3>2 DEF CaptureIsRight
    <2> QED
        BY <1>8, <2>1, <2>2
<1>9. CASE ReadSettings(p)
    <2> DEFINE n == [m EXCEPT !.seen[m.bucket] = settings[m.bucket]]
    <2>0. ~PutMarker(p)
        BY <1>9 DEF ReadSettings, PutMarker
    <2>1. NextBucket(p, n, "copy") \/ End(p, "failed")
        BY <1>9 DEF ReadSettings
    <2>2. n \in Memory
        <3>1. settings[m.bucket] \in SettingValues
            BY <1>0 DEF TypeOK, BackupTypeOK
        <3> QED
            BY <1>0, <3>1, SeenType
    <2> HIDE DEF n
    <2>3. [n EXCEPT !.bucket = 1, !.slot = 1].bucket = 1
        BY <2>2 DEF Memory
    <2>4. CASE UNCHANGED pc
        BY <1>4, <1>9, <2>0, <2>4 DEF ReadSettings
    <2>5. CASE Remember(p, [n EXCEPT !.bucket = 1, !.slot = 1]) /\ Goto(p, "copy")
        BY <1>1, <1>2, <1>6, <2>0, <2>3, <2>5
    <2> QED
        BY <1>4, <1>5, <2>0, <2>1, <2>4, <2>5 DEF NextBucket
<1>10. CASE OpenObject(p)
    <2>1. PICK o \in Objects : Remember(p, [m EXCEPT !.slot = o])
        BY <1>10 DEF OpenObject
    <2>2. pc'[p] = "store" /\ m.bucket = 1 /\ ~PutMarker(p)
        BY <1>1, <1>10 DEF OpenObject, CaptureIsRight, PutMarker
    <2>3. mem'[p].bucket = 1
        <3>1. mem'[p] = [m EXCEPT !.slot = o] /\ o \in Nat
            BY <1>2, <2>1 DEF Objects
        <3> QED
            BY <1>7, <2>2, <3>1
    <2> QED
        BY <1>6, <2>2, <2>3
<1>11. CASE CopyObject(p)
    <2>1. m.bucket = 1 /\ ~PutMarker(p)
        BY <1>11 DEF CopyObject, CaptureIsRight, PutMarker
    <2>2. CASE Goto(p, "verify") /\ UNCHANGED mem
        BY <1>1, <1>6, <2>1, <2>2
    <2>3. CASE End(p, "failed")
        BY <1>4, <1>5, <2>1, <2>3
    <2> QED
        BY <1>11, <2>2, <2>3 DEF CopyObject
<1>12. CASE VerifyCopy(p)
    <2>1. m.bucket = 1 /\ ~PutMarker(p)
        BY <1>12 DEF VerifyCopy, CaptureIsRight, PutMarker
    <2>2. CASE Remember(p, [m EXCEPT !.slot = m.slot + 1]) /\ Goto(p, "copy")
        <3>1. mem'[p] = [m EXCEPT !.slot = m.slot + 1] /\ m.slot + 1 \in Nat
            BY <1>0, <1>2, <2>2
        <3>2. mem'[p].bucket = 1
            BY <1>7, <2>1, <3>1
        <3> QED
            BY <1>1, <1>6, <2>1, <2>2, <3>2
    <2>3. CASE End(p, "failed")
        BY <1>4, <1>5, <2>1, <2>3
    <2> QED
        BY <1>12, <2>2, <2>3 DEF VerifyCopy
<1>13. CASE FinishCopy(p)
    <2>1. m.bucket = 1 /\ ~PutMarker(p)
        BY <1>13 DEF FinishCopy, CaptureIsRight, PutMarker
    <2>2. pc'[p] = "recheck" /\ mem'[p] = [m EXCEPT !.slot = 1]
        BY <1>1, <1>2, <1>13 DEF FinishCopy
    <2>3. mem'[p].bucket = 1 /\ mem'[p].slot = 1
        BY <1>7, <2>1, <2>2
    <2>4. truth'[p] = source'
        BY <1>0, <1>13 DEF FinishCopy, TypeOK, BackupTypeOK
    <2>5. \A o \in Objects : ~(o < 1) /\ ~(SourceOf[o] < 1)
        BY BackupAssumption DEF Objects, Buckets
    <2>6. RecheckIsRight(p)'
        BY <2>3, <2>4, <2>5 DEF RecheckIsRight
    <2> QED
        BY <1>0, <1>3, <2>1, <2>2, <2>6 DEF CaptureIsRight
<1>14. CASE RelistObject(p)
    <2>1. pc'[p] = "recheck" /\ ~PutMarker(p)
        BY <1>14 DEF RelistObject, PutMarker
    <2>2. RecheckIsRight(p)'
        BY <1>14, RelistRight
    <2> QED
        BY <1>0, <1>3, <2>1, <2>2 DEF CaptureIsRight
<1>15. CASE AssertStable(p)
    <2>0. pc[p] = "recheck" /\ ~PutMarker(p) /\ UNCHANGED truth
        BY <1>15 DEF AssertStable, PutMarker
    <2>1. CASE NextBucket(p, m, "manifest") /\ ~m.drift
        <3>1. CASE UNCHANGED pc /\ RecheckIsRight(p)'
            BY <1>0, <1>3, <2>0, <3>1 DEF CaptureIsRight
        <3>2. CASE /\ pc'[p] = "manifest"
                   /\ \A o \in Objects :
                          AgreesAt(truth[p][o], m.listing[o], source[o])
            <4>1. /\ [m EXCEPT !.bucket = @ + 1].listing = m.listing
                  /\ [m EXCEPT !.bucket = 1, !.slot = 1].listing = m.listing
                BY <1>0 DEF Memory
            <4>2. mem'[p].listing = m.listing
                BY <1>2, <2>1, <4>1 DEF NextBucket
            <4> QED
                BY <1>0, <1>3, <2>0, <3>2, <4>2 DEF CaptureIsRight
        <3> QED
            BY <1>15, <2>1, <3>1, <3>2, AssertStableRight
    <2>2. CASE End(p, "failed")
        BY <1>4, <1>5, <2>0, <2>2
    <2> QED
        BY <1>15, <2>1, <2>2 DEF AssertStable
<1>16. CASE PutManifest(p)
    <2>0. /\ ~PutMarker(p) /\ UNCHANGED truth
          /\ \A o \in Objects : AgreesAt(truth[p][o], m.listing[o], source[o])
          /\ entries'[p] = m.listing
        BY <1>16 DEF PutManifest, PutMarker, CaptureIsRight, TypeOK, StoreTypeOK
    <2>1. CASE Goto(p, "readback") /\ UNCHANGED mem
        <3>1. pc'[p] = "readback"
            BY <1>1, <2>1
        <3> QED
            BY <1>0, <1>3, <2>0, <2>1, <3>1 DEF CaptureIsRight
    <2>2. CASE End(p, "failed")
        BY <1>4, <1>5, <2>0, <2>2
    <2> QED
        BY <1>16, <2>1, <2>2 DEF PutManifest
<1>17. CASE ReadBackManifest(p)
    <2>0. /\ ~PutMarker(p) /\ UNCHANGED <<truth, entries>>
          /\ \A o \in Objects : AgreesAt(truth[p][o], m.listing[o], source[o])
          /\ entries[p] = m.listing
        BY <1>17 DEF ReadBackManifest, PutMarker, CaptureIsRight, storeVars
    <2>1. CASE /\ Goto(p, "marker") /\ UNCHANGED mem
               /\ Cardinality(Listed(p)) <= MaxEntries
        <3>1. pc'[p] = "marker" /\ Listed(p)' = Listed(p)
            BY <1>1, <2>0, <2>1 DEF Listed
        <3> QED
            BY <1>0, <1>3, <2>0, <2>1, <3>1 DEF CaptureIsRight
    <2>2. CASE End(p, "failed")
        BY <1>4, <1>5, <2>0, <2>2
    <2> QED
        BY <1>17, <2>1, <2>2 DEF ReadBackManifest
<1>18. CASE PutMarker(p)
    <2>1. /\ UNCHANGED <<truth, entries>>
          /\ \A o \in Objects : AgreesAt(truth[p][o], entries[p][o], source[o])
          /\ entries[p] \in [Objects -> Nat]
          /\ Cardinality(Listed(p)) <= MaxEntries
        BY <1>0, <1>18 DEF PutMarker, CaptureIsRight
    <2>2. pc'[p] \in {"complete", "failed"} /\ Listed(p)' = Listed(p)
        BY <1>1, <1>18, <2>1 DEF PutMarker, End, Listed
    <2> QED
        BY <1>0, <2>1, <2>2 DEF CaptureIsRight
<1> QED
    BY <1>8, <1>9, <1>10, <1>11, <1>12, <1>13, <1>14, <1>15, <1>16, <1>17, <1>18
    DEF BackupRun, RunStep

LEMMA NextCaptures ==
    TypeOK /\ Safety /\ CapturesAreRight /\ [Next]_vars => CapturesAreRight'
<1> SUFFICES ASSUME TypeOK, Safety, CapturesAreRight, [Next]_vars,
                    NEW p \in Points
             PROVE  CaptureIsRight(p)'
    BY DEF CapturesAreRight
<1>0. CaptureIsRight(p)
    BY DEF CapturesAreRight
<1>1. ASSUME NEW r \in Points, BackupRun(r) PROVE CaptureIsRight(p)'
    <2>1. CASE r = p
        BY <1>0, <1>1, <2>1, CaptureRun
    <2>2. CASE r # p
        BY <1>0, <1>1, <2>2, CaptureFrame, RunTouchesItsPrefix
    <2> QED
        BY <2>1, <2>2
<1>2. ASSUME NEW q \in Prunes, PruneRun(q) PROVE CaptureIsRight(p)'
    BY <1>0, <1>2, CaptureFrame, PruneOnlyRemoves DEF OnlyDecays
<1>3. ASSUME NEW x \in Restores, RestoreRun(x) PROVE CaptureIsRight(p)'
    BY <1>0, <1>3, CaptureFrame, RestoreOnlyReads
    DEF OnlyDecays, storeVars, backupVars, sourceVars
<1>4. CASE World
    BY <1>0, <1>4, CaptureApplication, CaptureFrame, WorldOnlyDamages DEF OnlyDecays
<1>5. CASE UNCHANGED vars
    BY <1>0, <1>5, CaptureFrame DEF vars, storeVars, backupVars, sourceVars
<1> QED
    BY <1>1, <1>2, <1>3, <1>4, <1>5 DEF Next

\* What a run remembers, and what its point then lists, stays in step with the
\* sources whatever the application does meanwhile.
THEOREM CapturesAreAlwaysRight == Spec => []CapturesAreRight
BY InitCaptures, NextCaptures, TypeCorrect, SafetyHolds, PTL DEF Spec

\* A certified point is one instant of the sources, for any number of objects,
\* buckets and runs and for any sequence of changes of the sources.
THEOREM CaptureIsAlwaysAnInstant == Spec => []CaptureIsAnInstant
<1>1. TypeOK /\ CapturesAreRight => CaptureIsAnInstant
    BY DEF TypeOK, StoreTypeOK, CapturesAreRight, CaptureIsRight, AgreesAt,
           CaptureIsAnInstant
<1> QED
    BY <1>1, TypeCorrect, CapturesAreAlwaysRight, PTL

\* A certified point lists no more than a reader of its manifest accepts.
THEOREM CertifiedIsAlwaysReadable == Spec => []CertifiedIsReadable
<1>1. TypeOK /\ CapturesAreRight => CertifiedIsReadable
    BY DEF TypeOK, StoreTypeOK, CapturesAreRight, CaptureIsRight,
           CertifiedIsReadable
<1> QED
    BY <1>1, TypeCorrect, CapturesAreAlwaysRight, PTL


-----------------------------------------------------------------------------
(* A published point is never anything but decayed. *)

LEMMA NextIntact ==
    TypeOK /\ Safety /\ PointsAreIntact /\ [Next]_vars => PointsAreIntact'
<1> SUFFICES ASSUME TypeOK, Safety, PointsAreIntact, [Next]_vars,
                    NEW p \in published'
             PROVE  NothingIsAdded(p)'
    BY DEF PointsAreIntact
<1>1. CASE p \in published
    <2>1. NothingIsAdded(p) /\ OnlyDecays(p)
        BY <1>1, PublishedOnlyDecays DEF PointsAreIntact
    <2> QED
        BY <2>1 DEF NothingIsAdded, OnlyDecays
<1>2. CASE p \notin published
    <2>1. PICK r \in Points : BackupRun(r)
        BY <1>2, PruneOnlyRemoves, RestoreOnlyReads, WorldOnlyDamages
        DEF Next, vars, storeVars
    <2>2. PutMarker(p) /\ p \in Points
        BY <1>2, <2>1, RunTouchesItsPrefix
    <2>3. \A o \in Objects : Holds(p, o, entries[p][o])
        BY <2>2 DEF PutMarker, Safety, RunIsHonest
    <2>4. UNCHANGED <<body, entries>>
        BY <2>2 DEF PutMarker
    <2> QED
        BY <2>3, <2>4 DEF Holds, NothingIsAdded
<1> QED
    BY <1>1, <1>2

LEMMA PointsAreAlwaysIntact == Spec => []PointsAreIntact
<1>1. Init => PointsAreIntact
    BY DEF Init, StoreInit, PointsAreIntact
<1> QED
    BY <1>1, NextIntact, TypeCorrect, SafetyHolds, PTL DEF Spec

-----------------------------------------------------------------------------
(* A prune deletes nothing while the bucket is unsound. *)

LEMMA SoundMeans ==
    ASSUME TypeOK, NEW p \in Points
    PROVE  Sound(p) <=> /\ marker[p] = "whole" /\ manifest[p] = "whole"
                        /\ Mismatched(p) = {} /\ ~foreign[p]
BY DEF TypeOK, StoreTypeOK, Sound, Mismatched

\* What is wrong with a published point is never put right.
FlawsStay(p) ==
    /\ Mismatched(p) \subseteq Mismatched(p)'
    /\ Sound(p)' => Sound(p)
    /\ foreign[p] => foreign'[p]
    /\ manifest[p] # "whole" => manifest'[p] # "whole"

LEMMA DecayIsNoRepair ==
    ASSUME TypeOK, TypeOK', CapturesAreRight, NEW p \in published,
           NothingIsAdded(p), OnlyDecays(p)
    PROVE  FlawsStay(p)
<1>0. p \in Points
    BY DEF TypeOK, StoreTypeOK
<1>1. entries[p] \in [Objects -> Nat]
    BY <1>0 DEF CapturesAreRight, CaptureIsRight
<1>2. Mismatched(p) \subseteq Mismatched(p)'
    <2> SUFFICES ASSUME NEW o \in Objects, body[p][o] # entries[p][o]
                 PROVE  body'[p][o] # entries[p][o]
        BY DEF OnlyDecays, Mismatched
    <2>1. entries[p][o] \in Nat
        BY <1>1
    <2>2. /\ entries[p][o] # Missing /\ entries[p][o] # Damaged
          /\ body[p][o] \in {Missing, Damaged}
        BY <2>1 DEF NothingIsAdded, Missing, Damaged
    <2>3. body'[p][o] \in {Missing, Damaged}
        BY <2>2 DEF OnlyDecays
    <2> QED
        BY <2>2, <2>3
<1>3. Sound(p)' <=> /\ marker'[p] = "whole" /\ manifest'[p] = "whole"
                    /\ Mismatched(p)' = {} /\ ~foreign'[p]
    BY <1>0 DEF TypeOK, StoreTypeOK, Sound, Mismatched
<1> QED
    BY <1>0, <1>2, <1>3, SoundMeans DEF OnlyDecays, FlawsStay

\* A prune that takes no step may rely on what it found.
LEMMA VerdictFrame ==
    ASSUME NEW q \in Prunes, VerdictIsRight(q),
           UNCHANGED <<stage[q], job[q], spoiled[q], unfinished[q]>>,
           published \subseteq published',
           \A p \in published : FlawsStay(p)
    PROVE  VerdictIsRight(q)'
<1>1. ASSUME NEW p \in spoiled[q], FlawIsAhead(q, p)
      PROVE  FlawIsAhead(q, p)'
    <2>1. FlawsStay(p)
        BY DEF VerdictIsRight
    <2> QED
        BY <1>1, <2>1 DEF FlawIsAhead, FlawsStay
<1> QED
    BY <1>1 DEF VerdictIsRight


\* A prune that reads keeps every flaw ahead of it or reports it.
LEMMA PruneReadVerdict ==
    ASSUME TypeOK, Safety, PointsAreIntact, NEW q \in Prunes, VerdictIsRight(q),
           UNCHANGED storeVars,
           \/ ReadMarker(q) \/ ReadManifest(q) \/ BeginVerify(q) \/ TakePoint(q)
           \/ VerifyObject(q) \/ BeginAudit(q) \/ AuditKeys(q) \/ Decide(q)
    PROVE  VerdictIsRight(q)'
<1> DEFINE j == job[q]
           S == spoiled[q]
           U == unfinished[q]
<1>0. /\ j \in Job /\ S \subseteq published /\ published \subseteq Points
      /\ stage \in [Prunes -> PruneStates] /\ job \in [Prunes -> Job]
    BY DEF TypeOK, StoreTypeOK, PruneTypeOK, VerdictIsRight
<1>1. /\ UNCHANGED <<published, spoiled, unfinished>>
      /\ \A p : Sound(p)' = Sound(p) /\ Mismatched(p)' = Mismatched(p)
      /\ UNCHANGED <<foreign, manifest>>
    BY DEF storeVars, Sound, Mismatched, ReadMarker, ReadManifest, BeginVerify,
           TakePoint, VerifyObject, BeginAudit, AuditKeys, Decide, historyVars
<1>2. ASSUME NEW s, Enter(q, s) PROVE stage'[q] = s
    BY <1>0, <1>2 DEF Enter
<1>3. ASSUME NEW i, Recall(q, i) PROVE job'[q] = i
    BY <1>0, <1>3, Zenon DEF Recall
<1>4. ASSUME NEW s \in {"ok", "attention", "failed"}, Stop(q, s)
      PROVE  VerdictIsRight(q)'
    <2>1. stage'[q] = s
        BY <1>2, <1>4 DEF Stop
    <2> QED
        BY <1>0, <1>1, <2>1 DEF VerdictIsRight, Deleting
<1>5. ASSUME job'[q].reported, stage'[q] \notin Deleting
      PROVE  VerdictIsRight(q)'
    BY <1>0, <1>1, <1>5 DEF VerdictIsRight
<1>6. CASE ReadMarker(q)
    <2>0. stage[q] = "marker"
        BY <1>6 DEF ReadMarker
    <2>1. PICK p \in j.todo :
              \/ /\ marker[p] = "whole"
                 /\ Recall(q, [j EXCEPT !.todo = @ \ {p}, !.target = p])
                 /\ Enter(q, "manifest")
              \/ /\ Recall(q, [j EXCEPT !.todo = @ \ {p}, !.reported = TRUE])
                 /\ UNCHANGED stage
        BY <1>6 DEF ReadMarker
    <2>2. CASE /\ marker[p] = "whole"
               /\ Recall(q, [j EXCEPT !.todo = @ \ {p}, !.target = p])
               /\ Enter(q, "manifest")
        <3>1. stage'[q] = "manifest" /\ job'[q] = [j EXCEPT !.todo = @ \ {p}, !.target = p]
            BY <1>2, <1>3, <2>2
        <3>2. /\ job'[q].todo = j.todo \ {p} /\ job'[q].target = p
              /\ job'[q].complete = j.complete /\ job'[q].reported = j.reported
            BY <1>0, <3>1 DEF Job
        <3>3. p \in published
            <4>1. p \in Points
                BY <1>0 DEF Job
            <4> QED
                BY <2>2, <4>1 DEF Safety, CertifiedOrSuperseded, Certified
        <3>4. ASSUME ~j.reported, NEW r \in S
              PROVE  FlawIsAhead(q, r)'
            <4>1. FlawIsAhead(q, r)
                BY <2>0, <3>4 DEF VerdictIsRight
            <4>2. \/ r \in j.todo /\ ~Sound(r)
                  \/ r \in j.complete /\ (Mismatched(r) # {} \/ foreign[r])
                BY <2>0, <4>1 DEF FlawIsAhead
            <4>3. CASE r = p
                <5>1. Sound(p) \/ manifest[p] # "whole" \/ Mismatched(p) # {} \/ foreign[p]
                    BY <1>0, <2>2, <3>3, SoundMeans
                <5> QED
                    BY <1>1, <3>1, <3>2, <4>2, <4>3, <5>1 DEF FlawIsAhead
            <4>4. CASE r # p
                BY <1>1, <3>1, <3>2, <4>2, <4>4 DEF FlawIsAhead
            <4> QED
                BY <4>3, <4>4
        <3>5. ~j.reported => U \subseteq published \cup (j.todo \ {p})
            BY <2>0, <3>3 DEF VerdictIsRight
        <3> QED
            BY <1>0, <1>1, <3>1, <3>2, <3>4, <3>5 DEF VerdictIsRight, Deleting
    <2>3. CASE /\ Recall(q, [j EXCEPT !.todo = @ \ {p}, !.reported = TRUE])
               /\ UNCHANGED stage
        <3>1. job'[q] = [j EXCEPT !.todo = @ \ {p}, !.reported = TRUE]
            BY <1>3, <2>3
        <3>2. job'[q].reported
            BY <1>0, <3>1 DEF Job
        <3> QED
            BY <1>5, <2>0, <2>3, <3>2 DEF Deleting
    <2> QED
        BY <2>1, <2>2, <2>3
<1>7. CASE ReadManifest(q)
    <2> DEFINE p == j.target
    <2>0. stage[q] = "manifest" /\ stage'[q] = "marker"
        BY <1>2, <1>7 DEF ReadManifest
    <2>1. CASE manifest[p] = "whole" /\ Recall(q, [j EXCEPT !.complete = @ \cup {p}])
        <3>1. job'[q] = [j EXCEPT !.complete = @ \cup {p}]
            BY <1>3, <2>1
        <3>2. /\ job'[q].todo = j.todo /\ job'[q].complete = j.complete \cup {p}
              /\ job'[q].reported = j.reported
            BY <1>0, <3>1 DEF Job
        <3>3. ASSUME ~j.reported, NEW r \in S
              PROVE  FlawIsAhead(q, r)'
            <4>1. FlawIsAhead(q, r)
                BY <2>0, <3>3 DEF VerdictIsRight
            <4> QED
                BY <1>1, <2>0, <2>1, <3>2, <4>1 DEF FlawIsAhead
        <3>4. ~j.reported => U \subseteq published \cup j.todo
            BY <2>0 DEF VerdictIsRight
        <3> QED
            BY <1>0, <1>1, <2>0, <3>2, <3>3, <3>4 DEF VerdictIsRight, Deleting
    <2>2. CASE Recall(q, [j EXCEPT !.reported = TRUE])
        <3>1. job'[q] = [j EXCEPT !.reported = TRUE]
            BY <1>3, <2>2
        <3>2. job'[q].reported
            BY <1>0, <3>1 DEF Job
        <3> QED
            BY <1>5, <2>0, <3>2 DEF Deleting
    <2> QED
        BY <1>7, <2>1, <2>2 DEF ReadManifest
<1>8. CASE BeginVerify(q)
    <2>0. stage[q] = "marker" /\ j.todo = {} /\ stage'[q] = "verify"
          /\ job'[q] = [j EXCEPT !.todo = j.complete]
        BY <1>2, <1>3, <1>8 DEF BeginVerify
    <2>1. /\ job'[q].todo = j.complete /\ job'[q].complete = j.complete
          /\ job'[q].reported = j.reported
        BY <1>0, <2>0 DEF Job
    <2>2. ASSUME ~j.reported, NEW r \in S
          PROVE  FlawIsAhead(q, r)'
        <3>1. FlawIsAhead(q, r)
            BY <2>0, <2>2 DEF VerdictIsRight
        <3> QED
            BY <1>1, <2>0, <2>1, <3>1 DEF FlawIsAhead
    <2>3. ~j.reported => U \subseteq published
        BY <2>0 DEF VerdictIsRight
    <2> QED
        BY <1>0, <1>1, <2>0, <2>1, <2>2, <2>3 DEF VerdictIsRight, Deleting
<1>9. CASE TakePoint(q)
    <2>0. stage[q] = "verify" /\ stage'[q] = "verify" /\ j.left = {}
        BY <1>9 DEF TakePoint
    <2>1. PICK p \in j.todo :
              job'[q] = [j EXCEPT !.todo = j.todo \ {p}, !.target = p, !.left = Listed(p)]
        BY <1>3, <1>9 DEF TakePoint
    <2>2. /\ job'[q].todo = j.todo \ {p} /\ job'[q].target = p
          /\ job'[q].left = Listed(p) /\ job'[q].complete = j.complete
          /\ job'[q].reported = j.reported
        BY <1>0, <2>1 DEF Job
    <2>3. ASSUME ~j.reported, NEW r \in S
          PROVE  FlawIsAhead(q, r)'
        <3>1. FlawIsAhead(q, r) /\ NothingIsAdded(r)
            BY <1>0, <2>0, <2>3 DEF VerdictIsRight, PointsAreIntact
        <3>2. Mismatched(r) \subseteq Listed(r)
            BY <3>1 DEF NothingIsAdded, Mismatched, Listed
        <3> QED
            BY <1>1, <2>0, <2>2, <3>1, <3>2 DEF FlawIsAhead
    <2>4. ~j.reported => U \subseteq published
        BY <2>0 DEF VerdictIsRight
    <2> QED
        BY <1>0, <1>1, <2>0, <2>2, <2>3, <2>4 DEF VerdictIsRight, Deleting
<1>10. CASE VerifyObject(q)
    <2>0. stage[q] = "verify"
        BY <1>10 DEF VerifyObject
    <2>1. PICK o \in j.left :
              \/ /\ body[j.target][o] = entries[j.target][o]
                 /\ Recall(q, [j EXCEPT !.left = @ \ {o}])
                 /\ UNCHANGED stage
              \/ Stop(q, "failed")
        BY <1>10 DEF VerifyObject
    <2>2. CASE /\ body[j.target][o] = entries[j.target][o]
               /\ Recall(q, [j EXCEPT !.left = @ \ {o}])
               /\ UNCHANGED stage
        <3>1. job'[q] = [j EXCEPT !.left = @ \ {o}]
            BY <1>3, <2>2
        <3>2. /\ job'[q].todo = j.todo /\ job'[q].target = j.target
              /\ job'[q].left = j.left \ {o} /\ job'[q].complete = j.complete
              /\ job'[q].reported = j.reported
            BY <1>0, <3>1 DEF Job
        <3>3. ASSUME ~j.reported, NEW r \in S
              PROVE  FlawIsAhead(q, r)'
            <4>1. FlawIsAhead(q, r) /\ o \notin Mismatched(j.target)
                BY <2>0, <2>2, <3>3 DEF VerdictIsRight, Mismatched
            <4> QED
                BY <1>1, <2>0, <2>2, <3>2, <4>1 DEF FlawIsAhead
        <3>4. ~j.reported => U \subseteq published
            BY <2>0 DEF VerdictIsRight
        <3> QED
            BY <1>0, <1>1, <2>0, <2>2, <3>2, <3>3, <3>4 DEF VerdictIsRight, Deleting
    <2> QED
        BY <1>4, <2>1, <2>2
<1>11. CASE BeginAudit(q)
    <2>0. stage[q] = "verify" /\ j.todo = {} /\ j.left = {} /\ stage'[q] = "audit"
          /\ job'[q] = [j EXCEPT !.todo = j.complete]
        BY <1>2, <1>3, <1>11 DEF BeginAudit
    <2>1. job'[q].todo = j.complete /\ job'[q].reported = j.reported
        BY <1>0, <2>0 DEF Job
    <2>2. ASSUME ~j.reported, NEW r \in S
          PROVE  FlawIsAhead(q, r)'
        <3>1. FlawIsAhead(q, r)
            BY <2>0, <2>2 DEF VerdictIsRight
        <3> QED
            BY <1>1, <2>0, <2>1, <3>1 DEF FlawIsAhead
    <2>3. ~j.reported => U \subseteq published
        BY <2>0 DEF VerdictIsRight
    <2> QED
        BY <1>0, <1>1, <2>0, <2>1, <2>2, <2>3 DEF VerdictIsRight, Deleting
<1>12. CASE AuditKeys(q)
    <2>0. stage[q] = "audit" /\ stage'[q] = "audit"
        BY <1>12 DEF AuditKeys
    <2>1. PICK p \in j.todo :
              Recall(q, [j EXCEPT !.todo = @ \ {p},
                                  !.reported = @ \/ ~ExactlyItsKeys(p)])
        BY <1>12 DEF AuditKeys
    <2> DEFINE b == j.reported \/ ~ExactlyItsKeys(p)
    <2>2. job'[q] = [j EXCEPT !.todo = @ \ {p}, !.reported = b]
        BY <1>3, <2>1
    <2> HIDE DEF b
    <2>3. job'[q].todo = j.todo \ {p} /\ job'[q].reported = b
        BY <1>0, <2>2 DEF Job
    <2>4. ~b => ~j.reported /\ ~foreign[p]
        BY DEF b, ExactlyItsKeys
    <2>5. ASSUME ~b, NEW r \in S
          PROVE  FlawIsAhead(q, r)'
        <3>1. FlawIsAhead(q, r)
            BY <2>0, <2>4, <2>5 DEF VerdictIsRight
        <3> QED
            BY <1>1, <2>0, <2>3, <2>4, <2>5, <3>1 DEF FlawIsAhead
    <2>6. ~b => U \subseteq published
        BY <2>0, <2>4 DEF VerdictIsRight
    <2> QED
        BY <1>0, <1>1, <2>0, <2>3, <2>5, <2>6 DEF VerdictIsRight, Deleting
<1>13. CASE Decide(q)
    <2>0. stage[q] = "audit" /\ j.todo = {}
        BY <1>13 DEF Decide
    <2>1. CASE ~j.reported /\ Enter(q, "delete")
        <3>1. S = {}
            <4> SUFFICES ASSUME NEW r \in S PROVE FALSE
                OBVIOUS
            <4>1. FlawIsAhead(q, r)
                BY <2>0, <2>1 DEF VerdictIsRight
            <4> QED
                BY <2>0, <4>1 DEF FlawIsAhead
        <3>2. U \subseteq published
            BY <2>0, <2>1 DEF VerdictIsRight
        <3>3. stage'[q] = "delete"
            BY <1>2, <2>1
        <3> QED
            BY <1>0, <1>1, <3>1, <3>2, <3>3 DEF VerdictIsRight
    <2> QED
        BY <1>4, <1>13, <2>1 DEF Decide
<1> QED
    BY <1>6, <1>7, <1>8, <1>9, <1>10, <1>11, <1>12, <1>13

LEMMA PruneVerdict ==
    ASSUME TypeOK, Safety, PointsAreIntact, NEW q \in Prunes, VerdictIsRight(q),
           PruneRun(q)
    PROVE  VerdictIsRight(q)'
<1>0. published' = published /\ published \subseteq Points
    BY PruneOnlyRemoves DEF TypeOK, StoreTypeOK
<1>1. CASE ListPrefixes(q)
    <2> DEFINE found == {p \in Points : HasKeys(p)}
    <2>1. PICK t \in Readings :
              job'[q] = [NoJob EXCEPT !.now = t, !.todo = found, !.reported = stray]
        BY <1>1, Zenon DEF ListPrefixes, Recall, TypeOK, PruneTypeOK
    <2>2. job'[q].todo = found
        BY <2>1 DEF NoJob
    <2>3. /\ stage'[q] = "marker"
          /\ spoiled'[q] = {p \in found : p \in published /\ ~Sound(p)}
          /\ unfinished'[q] = found \ published
        BY <1>1 DEF ListPrefixes, Enter, TypeOK, PruneTypeOK
    <2>4. \A p : Sound(p)' = Sound(p)
        BY <1>1 DEF ListPrefixes, storeVars, Sound
    <2> HIDE DEF found
    <2>5. \A p \in spoiled'[q] : FlawIsAhead(q, p)'
        BY <2>2, <2>3, <2>4 DEF FlawIsAhead
    <2> QED
        BY <1>0, <2>2, <2>3, <2>5 DEF VerdictIsRight, Deleting
<1>2. CASE DeleteMarker(q) \/ DeleteManifest(q) \/ DeleteBatch(q)
    <2>1. /\ stage[q] \in Deleting
          /\ stage'[q] \in Deleting \cup {"failed"}
          /\ UNCHANGED <<spoiled, unfinished>>
        BY <1>2 DEF DeleteMarker, DeleteManifest, DeleteBatch, Enter, Stop,
                    Deleting, historyVars, TypeOK, PruneTypeOK
    <2> QED
        BY <1>0, <2>1 DEF VerdictIsRight, Deleting
<1>3. CASE FinishPrune(q) \/ AbandonPrune(q)
    <2>1. stage'[q] \in {"ok", "failed"} /\ UNCHANGED <<spoiled, unfinished>>
        BY <1>3 DEF FinishPrune, AbandonPrune, Enter, Stop, historyVars, TypeOK,
                    PruneTypeOK
    <2> QED
        BY <1>0, <2>1 DEF VerdictIsRight, Deleting
<1>4. CASE \/ ReadMarker(q) \/ ReadManifest(q) \/ BeginVerify(q) \/ TakePoint(q)
           \/ VerifyObject(q) \/ BeginAudit(q) \/ AuditKeys(q) \/ Decide(q)
    <2>1. UNCHANGED storeVars
        BY <1>4 DEF ReadMarker, ReadManifest, BeginVerify, TakePoint,
                    VerifyObject, BeginAudit, AuditKeys, Decide
    <2> QED
        BY <1>4, <2>1, PruneReadVerdict
<1> QED
    BY <1>1, <1>2, <1>3, <1>4 DEF PruneRun, PruneStep

\* A prune leaves what another one remembers alone.
LEMMA OtherPrune ==
    ASSUME TypeOK, NEW r \in Prunes, PruneRun(r), NEW q \in Prunes, r # q
    PROVE  UNCHANGED <<stage[q], job[q], spoiled[q], unfinished[q]>>
BY DEF PruneRun, PruneStep, ListPrefixes, ReadMarker, ReadManifest,
       BeginVerify, TakePoint, VerifyObject, BeginAudit, AuditKeys,
       Decide, DeleteMarker, DeleteManifest, DeleteBatch, FinishPrune,
       AbandonPrune, Enter, Recall, Stop, historyVars, TypeOK, PruneTypeOK

LEMMA NextVerdicts ==
    TypeOK /\ TypeOK' /\ Safety /\ CapturesAreRight /\ PointsAreIntact
        /\ VerdictsAreRight /\ [Next]_vars => VerdictsAreRight'
<1> SUFFICES ASSUME TypeOK, TypeOK', Safety, CapturesAreRight, PointsAreIntact,
                    VerdictsAreRight, [Next]_vars, NEW q \in Prunes
             PROVE  VerdictIsRight(q)'
    BY DEF VerdictsAreRight
<1>0. /\ VerdictIsRight(q)
      /\ published \subseteq published'
      /\ \A p \in published : FlawsStay(p)
    BY PublishedOnlyDecays, DecayIsNoRepair DEF VerdictsAreRight, PointsAreIntact
<1>1. ASSUME UNCHANGED <<stage[q], job[q], spoiled[q], unfinished[q]>>
      PROVE  VerdictIsRight(q)'
    BY <1>0, <1>1, VerdictFrame
<1>2. ASSUME NEW r \in Prunes, PruneRun(r) PROVE VerdictIsRight(q)'
    <2>1. CASE r = q
        BY <1>0, <1>2, <2>1, PruneVerdict
    <2>2. CASE r # q
        BY <1>1, <1>2, <2>2, OtherPrune
    <2> QED
        BY <2>1, <2>2
<1>3. CASE UNCHANGED pruneVars
    BY <1>1, <1>3 DEF pruneVars
<1> QED
    BY <1>2, <1>3 DEF Next, vars, BackupRun, RestoreRun, World

\* A prune keeps every flaw it found ahead of a check that reports it, until
\* it has reported something.
LEMMA VerdictsAreAlwaysRight == Spec => []VerdictsAreRight
<1>1. Init => VerdictsAreRight
    BY DEF Init, PruneInit, VerdictsAreRight, VerdictIsRight, Deleting
<1> QED
    BY <1>1, NextVerdicts, TypeCorrect, SafetyHolds, CapturesAreAlwaysRight,
       PointsAreAlwaysIntact, PTL DEF Spec

\* A prune deletes only from a bucket in which every point it had found was
\* sound, or certified since, whatever else runs or decays meanwhile.
THEOREM UnsoundBucketIsAlwaysRefused == Spec => []RefusesUnsoundBucket
<1>1. VerdictsAreRight => RefusesUnsoundBucket
    BY DEF VerdictsAreRight, VerdictIsRight, RefusesUnsoundBucket
<1> QED
    BY <1>1, VerdictsAreAlwaysRight, PTL

-----------------------------------------------------------------------------
(* A restore gives back what was captured. *)

\* A restore that takes no step keeps what it has put in place, if the other
\* steps leave its drill prefix alone whenever it is alone there.
LEMMA DrillFrame ==
    ASSUME NEW x \in Restores, DrillIsRight(x),
           UNCHANGED <<step[x], from[x], into[x], rest[x], hand[x]>>,
           published \subseteq published',
           \A p \in published : entries'[p] = entries[p],
           /\ Alone(x)'
           /\ step[x] \in {"copy", "store", "compare", "complete"}
           => /\ Alone(x)
              /\ \A o \in Objects :
                     \/ drill'[into[x]][o] = drill[into[x]][o]
                     \/ drill'[into[x]][o] = entries[from[x]][o]
    PROVE  DrillIsRight(x)'
<1>1. step[x] = "empty" => rest'[x] = Listed(from[x])'
    BY DEF DrillIsRight, Listed
<1>2. step[x] = "store" =>
          \A o \in Objects :
              NextItem(x, o)' => hand[x] \in {entries'[from[x]][o], Damaged}
    BY DEF DrillIsRight, NextItem
<1> QED
    BY <1>1, <1>2 DEF DrillIsRight

\* Another restore in the same prefix writes the same, has opened a damaged
\* copy, or has failed.
LEMMA OtherRestore ==
    ASSUME TypeOK, TypeOK', NEW x \in Restores, NEW y \in Restores \ {x},
           CapturesAreRight, DrillIsRight(x), DrillIsRight(y), RestoreRun(y)
    PROVE  DrillIsRight(x)'
<1>0. /\ UNCHANGED <<published, entries>>
      /\ UNCHANGED <<step[x], from[x], into[x], rest[x], hand[x]>>
    BY RestoreOnlyReads
    DEF storeVars, RestoreRun, StartRestore, RestoreStep, LoadMarker,
        LoadManifest, CheckEmpty, OpenCopy, RestoreObject, RestoreRefused,
        CompareObject, FinishRestore, AbandonRestore, Proceed, Quit, PutDown,
        TypeOK, RestoreTypeOK
<1>1. /\ step[y] # "idle" => UNCHANGED <<from[y], into[y]>>
      /\ step[y] # "failed" /\ step'[y] # "idle"
      /\ \A z \in Restores \ {y} : UNCHANGED <<step[z], from[z], into[z], hand[z]>>
    BY DEF RestoreRun, StartRestore, RestoreStep, LoadMarker,
        LoadManifest, CheckEmpty, OpenCopy, RestoreObject, RestoreRefused,
        CompareObject, FinishRestore, AbandonRestore, Proceed, Quit, PutDown,
        TypeOK, RestoreTypeOK, RestoreStages
<1>4. hand[y] = Damaged => step'[y] = "failed" \/ hand'[y] = Damaged
    <2> SUFFICES ASSUME hand[y] = Damaged
                 PROVE  step'[y] = "failed" \/ hand'[y] = Damaged
        OBVIOUS
    <2>1. step[y] \in {"store", "compare"} /\ from[y] \in published
        BY DEF DrillIsRight, Missing, Damaged
    <2>2. CASE CompareObject(y)
        <3>1. \A o \in Objects : entries[from[y]][o] # Damaged
            BY <2>1 DEF CapturesAreRight, CaptureIsRight, Damaged, TypeOK,
                RestoreTypeOK
        <3>2. Quit(y, "failed")
            BY <2>2, <3>1 DEF CompareObject
        <3> QED
            BY <3>2 DEF Quit, Proceed, TypeOK, RestoreTypeOK
    <2>3. CASE RestoreObject(y)
        BY <2>3 DEF RestoreObject, Quit, Proceed, TypeOK, RestoreTypeOK
    <2>4. CASE AbandonRestore(y)
        BY <2>4 DEF AbandonRestore, Quit, Proceed, TypeOK, RestoreTypeOK
    <2> QED
        BY <2>1, <2>2, <2>3, <2>4
        DEF RestoreRun, StartRestore, RestoreStep, LoadMarker, LoadManifest,
            CheckEmpty, OpenCopy, RestoreRefused, FinishRestore
<1>2. Alone(x)' => Alone(x)
    BY <1>0, <1>1, <1>4 DEF Alone
<1>3. ASSUME Alone(x)', NEW o \in Objects
      PROVE  \/ drill'[into[x]][o] = drill[into[x]][o]
             \/ drill'[into[x]][o] = entries[from[x]][o]
    <2>1. CASE RestoreObject(y)
        <3>1. PICK i \in Objects :
                  /\ step[y] = "store" /\ NextItem(y, i)
                  /\ drill' = [drill EXCEPT ![into[y]][i] = hand[y]]
            BY <2>1 DEF RestoreObject
        <3>2. CASE into[y] = into[x]
            <4>1. from[y] = from[x] /\ hand[y] # Damaged
                BY <1>2, <1>3, <3>1, <3>2 DEF Alone
            <4>2. hand[y] = entries[from[x]][i]
                BY <3>1, <4>1 DEF DrillIsRight
            <4> QED
                BY <3>1, <4>2 DEF TypeOK, RestoreTypeOK
        <3>3. CASE into[y] # into[x]
            BY <3>1, <3>3
        <3> QED
            BY <3>2, <3>3
    <2>3. CASE UNCHANGED drill
        BY <2>3
    <2> QED
        BY <2>1, <2>3
        DEF RestoreRun, StartRestore, RestoreStep, LoadMarker, LoadManifest,
            CheckEmpty, OpenCopy, RestoreRefused, CompareObject, FinishRestore,
            AbandonRestore
<1> QED
    BY <1>0, <1>2, <1>3, DrillFrame

\* The restore itself.
LEMMA OwnRestore ==
    ASSUME TypeOK, TypeOK', Safety, NEW x \in Restores, DrillIsRight(x),
           RestoreRun(x)
    PROVE  DrillIsRight(x)'
<1> DEFINE d == into[x]
           p == from[x]
<1>0. /\ UNCHANGED <<published, entries>>
      /\ p \in Points /\ d \in Prefixes
      /\ step \in [Restores -> RestoreStates]
      /\ rest \in [Restores -> SUBSET Objects]
      /\ hand \in [Restores -> Int]
      /\ drill \in [Prefixes -> [Objects -> Int]]
    BY RestoreOnlyReads DEF storeVars, TypeOK, RestoreTypeOK
<1>1. ASSUME NEW s, Proceed(x, s) PROVE step'[x] = s
    BY <1>0, <1>1 DEF Proceed
<1>2. ASSUME NEW s, Quit(x, s) PROVE /\ step'[x] = s /\ rest'[x] = {}
                                              /\ hand'[x] = Missing
    BY <1>0, <1>2 DEF Quit, Proceed, PutDown
<1>3. ASSUME step'[x] \in {"marker", "failed"}, hand'[x] = Missing
      PROVE  DrillIsRight(x)'
    BY <1>3 DEF DrillIsRight, Missing
<1>4. \A o : Listed(o)' = Listed(o)
    BY <1>0 DEF Listed
<1>5. /\ UNCHANGED <<from, into>>
      /\ \A y \in Restores \ {x} : UNCHANGED <<step[y], hand[y]>>
      => (Alone(x)' <=> Alone(x))
    BY DEF Alone
<1>6. CASE StartRestore(x)
    BY <1>1, <1>3, <1>6 DEF StartRestore, DrillIsRight
<1>7. CASE LoadMarker(x)
    <2>1. CASE marker[p] = "whole"
        <3>1. /\ step[x] = "marker" /\ step'[x] = "manifest"
              /\ UNCHANGED <<from, hand>>
            BY <1>1, <1>7, <2>1 DEF LoadMarker
        <3>2. p \in published
            BY <1>0, <2>1 DEF Safety, CertifiedOrSuperseded, Certified
        <3> QED
            BY <1>0, <3>1, <3>2 DEF DrillIsRight
    <2>2. CASE marker[p] # "whole"
        BY <1>1, <1>3, <1>7, <2>2 DEF LoadMarker, DrillIsRight
    <2> QED
        BY <2>1, <2>2
<1>8. CASE LoadManifest(x)
    <2>1. CASE /\ rest' = [rest EXCEPT ![x] = Listed(p)]
               /\ Proceed(x, "empty") /\ UNCHANGED hand
        <3>1. /\ step[x] = "manifest" /\ step'[x] = "empty"
              /\ rest'[x] = Listed(p) /\ UNCHANGED <<from, hand>>
            BY <1>0, <1>1, <1>8, <2>1 DEF LoadManifest
        <3>2. p \in published
            BY <1>8 DEF LoadManifest, DrillIsRight
        <3> QED
            BY <1>0, <1>4, <3>1, <3>2 DEF DrillIsRight
    <2>2. CASE Quit(x, "failed")
        BY <1>2, <1>3, <2>2
    <2> QED
        BY <1>8, <2>1, <2>2 DEF LoadManifest
<1>9. CASE CheckEmpty(x)
    <2>1. CASE drill[d] = NoObjects /\ Proceed(x, "copy") /\ UNCHANGED <<rest, hand>>
        <3>1. /\ step[x] = "empty" /\ step'[x] = "copy"
              /\ UNCHANGED <<from, into, hand, drill>>
            BY <1>1, <1>9, <2>1 DEF CheckEmpty
        <3>2. p \in published /\ rest[x] = Listed(p)
            BY <1>9 DEF CheckEmpty, DrillIsRight
        <3>3. \A o \in Objects \ rest[x] : drill[d][o] = entries[p][o]
            BY <2>1, <3>2 DEF Listed, NoObjects
        <3> QED
            BY <1>0, <2>1, <3>1, <3>2, <3>3 DEF DrillIsRight
    <2>2. CASE Quit(x, "failed")
        BY <1>2, <1>3, <2>2
    <2> QED
        BY <1>9, <2>1, <2>2 DEF CheckEmpty
<1>10. ASSUME step[x] \in {"copy", "store", "compare"},
              step'[x] \in {"copy", "store", "compare", "complete"},
              UNCHANGED <<from, into>>,
              \A y \in Restores \ {x} : UNCHANGED <<step[y], hand[y]>>,
              step'[x] = "complete" => rest'[x] = {},
              step'[x] \notin {"store", "compare"} => hand'[x] = Missing,
              step'[x] = "store" =>
                  \A o \in Objects :
                      NextItem(x, o)' => hand'[x] \in {entries[p][o], Damaged},
              \A o \in Objects \ rest'[x] :
                  \/ o \notin rest[x] /\ drill'[d][o] = drill[d][o]
                  \/ drill'[d][o] = entries[p][o]
       PROVE  DrillIsRight(x)'
    BY <1>0, <1>5, <1>10 DEF DrillIsRight
<1>11. CASE OpenCopy(x)
    <2>1. /\ step[x] = "copy" /\ step'[x] = "store"
          /\ UNCHANGED <<from, into, rest, drill>>
        BY <1>1, <1>11 DEF OpenCopy
    <2>2. PICK o \in Objects :
              /\ NextItem(x, o)
              /\ body[p][o] \in {entries[p][o], Damaged}
              /\ hand' = [hand EXCEPT ![x] = body[p][o]]
        BY <1>11 DEF OpenCopy
    <2>3. \A y \in Restores \ {x} : UNCHANGED <<step[y], hand[y]>>
        BY <1>0, <1>11, <2>2 DEF OpenCopy, Proceed
    <2>4. hand'[x] \in {entries[p][o], Damaged}
        BY <1>0, <2>2
    <2>5. \A i \in Objects : NextItem(x, i)' => i = o
        BY <1>0, <2>1, <2>2 DEF NextItem, Objects
    <2> QED
        BY <1>10, <2>1, <2>3, <2>4, <2>5
<1>12. CASE RestoreObject(x)
    <2>1. PICK o \in Objects :
              NextItem(x, o) /\ drill' = [drill EXCEPT ![d][o] = hand[x]]
        BY <1>12 DEF RestoreObject
    <2>2. CASE Proceed(x, "compare") /\ UNCHANGED <<rest, hand>>
        <3>1. step[x] = "store" /\ step'[x] = "compare" /\ UNCHANGED <<from, into>>
            BY <1>1, <1>12, <2>2 DEF RestoreObject
        <3>2. \A y \in Restores \ {x} : UNCHANGED <<step[y], hand[y]>>
            BY <1>0, <2>2 DEF Proceed
        <3>3. \A i \in Objects \ rest[x] : drill'[d][i] = drill[d][i]
            BY <1>0, <2>1 DEF NextItem
        <3> QED
            BY <1>10, <2>2, <3>1, <3>2, <3>3
    <2>3. CASE Quit(x, "failed")
        BY <1>2, <1>3, <2>3
    <2> QED
        BY <1>12, <2>2, <2>3 DEF RestoreObject
<1>13. CASE RestoreRefused(x)
    BY <1>2, <1>3, <1>13 DEF RestoreRefused
<1>14. CASE CompareObject(x)
    <2>1. PICK o \in Objects :
              \/ /\ drill[d][o] = entries[p][o]
                 /\ rest' = [rest EXCEPT ![x] = @ \ {o}]
                 /\ PutDown(x)
                 /\ Proceed(x, "copy")
              \/ Quit(x, "failed")
        BY <1>14 DEF CompareObject
    <2>2. CASE /\ drill[d][o] = entries[p][o]
               /\ rest' = [rest EXCEPT ![x] = @ \ {o}]
               /\ PutDown(x)
               /\ Proceed(x, "copy")
        <3>1. /\ step[x] = "compare" /\ step'[x] = "copy"
              /\ UNCHANGED <<from, into, drill>>
              /\ rest'[x] = rest[x] \ {o}
            BY <1>0, <1>1, <1>14, <2>2 DEF CompareObject
        <3>2. \A y \in Restores \ {x} : UNCHANGED <<step[y], hand[y]>>
            BY <1>0, <2>2 DEF Proceed, PutDown
        <3>3. hand'[x] = Missing
            BY <1>0, <2>2 DEF PutDown
        <3> QED
            BY <1>10, <2>2, <3>1, <3>2, <3>3
    <2> QED
        BY <1>2, <1>3, <2>1, <2>2
<1>15. CASE FinishRestore(x)
    <2>1. /\ step[x] = "copy" /\ step'[x] = "complete" /\ rest[x] = {}
          /\ UNCHANGED <<from, into, rest, hand, drill>>
        BY <1>1, <1>15 DEF FinishRestore
    <2>2. \A y \in Restores \ {x} : UNCHANGED <<step[y], hand[y]>>
        BY <1>0, <1>15, <2>1 DEF FinishRestore, Proceed
    <2>3. hand'[x] = Missing
        BY <2>1 DEF DrillIsRight
    <2> QED
        BY <1>10, <2>1, <2>2, <2>3
<1>16. CASE AbandonRestore(x)
    BY <1>2, <1>3, <1>16 DEF AbandonRestore
<1> QED
    BY <1>6, <1>7, <1>8, <1>9, <1>11, <1>12, <1>13, <1>14, <1>15, <1>16
    DEF RestoreRun, RestoreStep

LEMMA NextDrills ==
    TypeOK /\ TypeOK' /\ Safety /\ CapturesAreRight /\ DrillsAreRight /\ [Next]_vars
        => DrillsAreRight'
<1> SUFFICES ASSUME TypeOK, TypeOK', Safety, CapturesAreRight, DrillsAreRight,
                    [Next]_vars, NEW x \in Restores
             PROVE  DrillIsRight(x)'
    BY DEF DrillsAreRight
<1>0. /\ DrillIsRight(x)
      /\ published \subseteq published'
      /\ \A p \in published : entries'[p] = entries[p]
    BY PublishedOnlyDecays DEF DrillsAreRight, OnlyDecays
<1>1. ASSUME NEW y \in Restores, RestoreRun(y) PROVE DrillIsRight(x)'
    BY <1>0, <1>1, OtherRestore, OwnRestore DEF DrillsAreRight
<1>2. CASE UNCHANGED restoreVars
    BY <1>0, <1>2, DrillFrame DEF restoreVars, Alone
<1> QED
    BY <1>1, <1>2 DEF Next, vars, BackupRun, PruneRun, World

LEMMA DrillsAreAlwaysRight == Spec => []DrillsAreRight
<1>1. Init => DrillsAreRight
    BY DEF Init, RestoreInit, DrillsAreRight, DrillIsRight
<1> QED
    BY <1>1, NextDrills, TypeCorrect, SafetyHolds, CapturesAreAlwaysRight, PTL
    DEF Spec

\* A restore that completes, and shares its prefix with nothing but restores of
\* the same point that have neither failed nor opened a damaged copy, has
\* restored one instant of the sources, for any number of restores, prunes and
\* backups beside it.
THEOREM RestoreIsAlwaysFaithful == Spec => []RestoreIsFaithful
<1>1. ASSUME TypeOK, CaptureIsAnInstant, DrillsAreRight
      PROVE  RestoreIsFaithful
    <2> SUFFICES ASSUME NEW x \in Restores, step[x] = "complete", Alone(x)
                 PROVE  /\ from[x] \in published
                        /\ drill[into[x]] = entries[from[x]]
                        /\ \A o \in Objects :
                               drill[into[x]][o] # Missing =>
                                   drill[into[x]][o] = truth[from[x]][o]
        BY DEF RestoreIsFaithful
    <2>1. /\ from[x] \in published /\ rest[x] = {}
          /\ \A o \in Objects \ rest[x] :
                 drill[into[x]][o] = entries[from[x]][o]
        BY <1>1 DEF DrillsAreRight, DrillIsRight
    <2>2. \A o \in Objects : drill[into[x]][o] = entries[from[x]][o]
        BY <2>1
    <2>3. /\ drill[into[x]] \in [Objects -> Int]
          /\ entries[from[x]] \in [Objects -> Int]
        BY <1>1 DEF TypeOK, RestoreTypeOK, StoreTypeOK
    <2>4. drill[into[x]] = entries[from[x]]
        BY <2>2, <2>3
    <2> QED
        BY <1>1, <2>1, <2>2, <2>4 DEF CaptureIsAnInstant
<1> QED
    BY <1>1, TypeCorrect, CaptureIsAlwaysAnInstant, DrillsAreAlwaysRight, PTL

-----------------------------------------------------------------------------
(* Every command is finite. *)

\* RunLeft, for a run at stage s, in bucket b and at slot k.
RunCalls(s, b, k) ==
    LET N == NumObjects
        slots == (N + 1) - k
        walk == (NumSources - b) + slots
        left == [idle      |-> 5 * N + 2 * NumSources + 7,
                 inventory |-> walk + 4 * N + NumSources + 7,
                 copy      |-> 3 * slots + N + NumSources + 6,
                 store     |-> 3 * slots + N + NumSources + 5,
                 verify    |-> 3 * slots + N + NumSources + 4,
                 recheck   |-> walk + 4,
                 manifest  |-> 3, readback |-> 2, marker |-> 1,
                 complete  |-> 0, failed |-> 0] IN
    left[s]

LEMMA RunCallsAt ==
    ASSUME NEW b, NEW k
    PROVE  /\ RunCalls("idle", b, k) = 5 * NumObjects + 2 * NumSources + 7
           /\ RunCalls("inventory", b, k) =
                  (NumSources - b) + ((NumObjects + 1) - k) + 4 * NumObjects
                      + NumSources + 7
           /\ RunCalls("copy", b, k) =
                  3 * ((NumObjects + 1) - k) + NumObjects + NumSources + 6
           /\ RunCalls("store", b, k) =
                  3 * ((NumObjects + 1) - k) + NumObjects + NumSources + 5
           /\ RunCalls("verify", b, k) =
                  3 * ((NumObjects + 1) - k) + NumObjects + NumSources + 4
           /\ RunCalls("recheck", b, k) =
                  (NumSources - b) + ((NumObjects + 1) - k) + 4
           /\ RunCalls("manifest", b, k) = 3
           /\ RunCalls("readback", b, k) = 2
           /\ RunCalls("marker", b, k) = 1
           /\ RunCalls("complete", b, k) = 0
           /\ RunCalls("failed", b, k) = 0
BY DEF RunCalls

LEMMA RunCallsType ==
    ASSUME NEW s \in RunStates, NEW b \in Buckets, NEW k \in Slots
    PROVE  /\ RunCalls(s, b, k) \in Nat
           /\ s \in RunStages => RunCalls(s, b, k) > 0
<1>1. /\ NumObjects \in Nat /\ NumSources \in Nat
      /\ b \in Nat /\ b <= NumSources
      /\ k \in Nat /\ k <= NumObjects + 1
    BY StoreAssumption, BackupAssumption DEF Buckets, Slots
<1> QED
    BY <1>1, RunCallsAt DEF RunStates, RunStages

\* A step of the run of p makes one of its calls, or ends it.
LEMMA RunCounts ==
    ASSUME TypeOK, TypeOK', NEW p \in Points, BackupRun(p)
    PROVE  RunLeft(p)' \in 0..(RunLeft(p) - 1)
<1> DEFINE m == mem[p]
<1>0. /\ m \in Memory /\ pc[p] \in RunStates /\ m.bucket \in Buckets /\ m.slot \in Slots
      /\ mem'[p] \in Memory /\ pc'[p] \in RunStates
      /\ mem'[p].bucket \in Buckets /\ mem'[p].slot \in Slots
    BY DEF TypeOK, BackupTypeOK, Memory
<1>1. /\ RunLeft(p) = RunCalls(pc[p], m.bucket, m.slot)
      /\ RunLeft(p)' = RunCalls(pc'[p], mem'[p].bucket, mem'[p].slot)
    BY DEF RunLeft, RunCalls
<1>2. /\ RunLeft(p) \in Nat /\ RunLeft(p)' \in Nat
      /\ pc[p] \in RunStages => RunLeft(p) > 0
    BY <1>0, <1>1, RunCallsType
<1>3. /\ NumObjects \in Nat /\ NumSources \in Nat
      /\ m.bucket \in Nat /\ m.bucket >= 1 /\ m.bucket <= NumSources
      /\ m.slot \in Nat /\ m.slot >= 1 /\ m.slot <= NumObjects + 1
      /\ mem'[p].slot <= NumObjects + 1 /\ mem'[p].slot \in Nat
      /\ mem'[p].bucket \in Nat /\ mem'[p].bucket >= 1
    BY <1>0, StoreAssumption, BackupAssumption DEF Buckets, Slots
<1>4. SUFFICES RunLeft(p)' < RunLeft(p)
    BY <1>2
<1>5. ASSUME NEW s, Goto(p, s) PROVE pc'[p] = s
    BY <1>5 DEF Goto, TypeOK, BackupTypeOK
<1>6. ASSUME NEW n, Remember(p, n) PROVE mem'[p] = n
    BY <1>6, Zenon DEF Remember, TypeOK, BackupTypeOK
<1>7. ASSUME NEW s \in {"complete", "failed"}, End(p, s), pc[p] \in RunStages
      PROVE  RunLeft(p)' < RunLeft(p)
    <2>1. RunLeft(p)' = 0
        BY <1>1, <1>5, <1>7, RunCallsAt DEF End
    <2> QED
        BY <1>2, <1>7, <2>1
<1> HIDE DEF m
<1> USE DEF RunStages
<1>8. CASE Start(p)
    <2>1. pc[p] = "idle" /\ pc'[p] = "inventory" /\ mem'[p] = m
        BY <1>8, <1>5 DEF Start, m
    <2> QED
        BY <1>1, <1>3, <2>1, RunCallsAt
<1>9. CASE ListObject(p)
    <2>1. PICK o \in Objects :
              /\ o >= m.slot
              /\ Remember(p, [m EXCEPT !.listing[o] = source[o], !.slot = o + 1])
        BY <1>9 DEF ListObject, IsFirst, Unlisted, m
    <2>2. pc[p] = "inventory" /\ pc'[p] = "inventory"
        BY <1>9 DEF ListObject
    <2>3. mem'[p] = [m EXCEPT !.listing[o] = source[o], !.slot = o + 1]
        BY <1>6, <2>1
    <2>4. mem'[p].bucket = m.bucket /\ mem'[p].slot = o + 1 /\ o \in Nat
        BY <1>0, <2>3 DEF Memory, Objects
    <2> QED
        BY <1>1, <1>3, <2>1, <2>2, <2>4, RunCallsAt
<1>10. ASSUME NEW n \in Memory, n.bucket = m.bucket, n.slot = m.slot,
              \/ pc[p] = "inventory" /\ NextBucket(p, n, "copy")
              \/ pc[p] = "recheck" /\ NextBucket(p, n, "manifest")
       PROVE  RunLeft(p)' < RunLeft(p)
    <2>1. CASE /\ n.bucket < NumSources
               /\ Remember(p, [n EXCEPT !.bucket = @ + 1])
               /\ UNCHANGED pc
        <3>1. mem'[p] = [n EXCEPT !.bucket = n.bucket + 1]
            BY <1>6, <2>1
        <3>2. mem'[p].bucket = m.bucket + 1 /\ mem'[p].slot = m.slot
            BY <1>10, <3>1 DEF Memory
        <3> QED
            BY <1>1, <1>3, <1>10, <2>1, <3>2, RunCallsAt
    <2>2. ASSUME Remember(p, [n EXCEPT !.bucket = 1, !.slot = 1]),
                 \/ pc[p] = "inventory" /\ pc'[p] = "copy"
                 \/ pc[p] = "recheck" /\ pc'[p] = "manifest"
          PROVE  RunLeft(p)' < RunLeft(p)
        <3>1. mem'[p] = [n EXCEPT !.bucket = 1, !.slot = 1]
            BY <1>6, <2>2
        <3>2. mem'[p].bucket = 1 /\ mem'[p].slot = 1
            BY <3>1 DEF Memory
        <3>3. CASE pc[p] = "inventory" /\ pc'[p] = "copy"
            BY <1>1, <1>3, <3>2, <3>3, RunCallsAt
        <3>4. CASE pc[p] = "recheck" /\ pc'[p] = "manifest"
            BY <1>1, <1>3, <3>2, <3>4, RunCallsAt
        <3> QED
            BY <2>2, <3>3, <3>4
    <2>3. CASE pc[p] = "inventory" /\ NextBucket(p, n, "copy")
        BY <1>5, <2>1, <2>2, <2>3 DEF NextBucket
    <2>4. CASE pc[p] = "recheck" /\ NextBucket(p, n, "manifest")
        BY <1>5, <2>1, <2>2, <2>4 DEF NextBucket
    <2> QED
        BY <1>10, <2>3, <2>4
<1>11. CASE ReadSettings(p)
    <2> DEFINE n == [m EXCEPT !.seen[m.bucket] = settings[m.bucket]]
    <2>1. pc[p] = "inventory" /\ (NextBucket(p, n, "copy") \/ End(p, "failed"))
        BY <1>11 DEF ReadSettings, m
    <2>2. settings[m.bucket] \in SettingValues
        BY <1>0 DEF TypeOK, BackupTypeOK
    <2>3. n \in Memory
        BY <1>0, <2>2, SeenType
    <2>4. n.bucket = m.bucket /\ n.slot = m.slot
        BY <1>0 DEF Memory
    <2> HIDE DEF n
    <2> QED
        BY <1>7, <1>10, <2>1, <2>3, <2>4
<1>12. CASE OpenObject(p)
    <2>1. PICK o \in Objects :
              o >= m.slot /\ Remember(p, [m EXCEPT !.slot = o])
        BY <1>12 DEF OpenObject, IsFirst, Uncopied, m
    <2>2. pc[p] = "copy" /\ pc'[p] = "store"
        BY <1>12, <1>5 DEF OpenObject
    <2>3. mem'[p] = [m EXCEPT !.slot = o]
        BY <1>6, <2>1
    <2>4. mem'[p].bucket = m.bucket /\ mem'[p].slot = o /\ o \in Nat
        BY <1>0, <2>3 DEF Memory, Objects
    <2> QED
        BY <1>1, <1>3, <2>1, <2>2, <2>4, RunCallsAt
<1>13. CASE CopyObject(p)
    <2>1. CASE Goto(p, "verify") /\ UNCHANGED mem
        <3>1. pc[p] = "store" /\ pc'[p] = "verify" /\ mem'[p] = m
            BY <1>13, <1>5, <2>1 DEF CopyObject, m
        <3> QED
            BY <1>1, <1>3, <3>1, RunCallsAt
    <2> QED
        BY <1>13, <1>7, <2>1 DEF CopyObject
<1>14. CASE CopyRefused(p) \/ PutMarker(p) \/ Abandon(p)
    BY <1>14, <1>7 DEF CopyRefused, PutMarker, Abandon
<1>15. CASE VerifyCopy(p)
    <2>1. CASE /\ Remember(p, [m EXCEPT !.slot = m.slot + 1])
               /\ Goto(p, "copy")
        <3>1. pc[p] = "verify" /\ pc'[p] = "copy"
            BY <1>15, <1>5, <2>1 DEF VerifyCopy
        <3>2. mem'[p] = [m EXCEPT !.slot = m.slot + 1]
            BY <1>6, <2>1
        <3>3. mem'[p].bucket = m.bucket /\ mem'[p].slot = m.slot + 1
            BY <1>0, <3>2 DEF Memory
        <3> QED
            BY <1>1, <1>3, <3>1, <3>3, RunCallsAt
    <2> QED
        BY <1>15, <1>7, <2>1 DEF VerifyCopy, m
<1>16. CASE FinishCopy(p)
    <2>1. pc[p] = "copy" /\ pc'[p] = "recheck"
        BY <1>16, <1>5 DEF FinishCopy
    <2>2. mem'[p] = [m EXCEPT !.slot = 1]
        BY <1>16, <1>6 DEF FinishCopy, m
    <2>3. mem'[p].bucket = m.bucket /\ mem'[p].slot = 1
        BY <1>0, <2>2 DEF Memory
    <2> QED
        BY <1>1, <1>3, <2>1, <2>3, RunCallsAt
<1>17. CASE RelistObject(p)
    <2>1. PICK o \in Objects :
              /\ o >= m.slot
              /\ Remember(p, [m EXCEPT
                                !.drift = @ \/ source[o] # m.listing[o],
                                !.slot = o + 1])
        BY <1>17 DEF RelistObject, IsFirst, Unlisted, m
    <2>2. pc[p] = "recheck" /\ pc'[p] = "recheck"
        BY <1>17 DEF RelistObject
    <2>3. mem'[p] = [m EXCEPT !.drift = @ \/ source[o] # m.listing[o],
                              !.slot = o + 1]
        BY <1>6, <2>1
    <2>4. mem'[p].bucket = m.bucket /\ mem'[p].slot = o + 1
        BY <1>0, <2>3, Zenon DEF Memory
    <2>5. o \in Nat
        BY DEF Objects
    <2> QED
        BY <1>1, <1>3, <2>1, <2>2, <2>4, <2>5, RunCallsAt
<1>18. CASE AssertStable(p)
    <2>1. pc[p] = "recheck" /\ (NextBucket(p, m, "manifest") \/ End(p, "failed"))
        BY <1>18 DEF AssertStable, m
    <2> QED
        BY <1>0, <1>7, <1>10, <2>1
<1>19. CASE PutManifest(p)
    <2>1. CASE Goto(p, "readback") /\ UNCHANGED mem
        <3>1. pc[p] = "manifest" /\ pc'[p] = "readback"
            BY <1>19, <1>5, <2>1 DEF PutManifest
        <3> QED
            BY <1>1, <3>1, RunCallsAt
    <2> QED
        BY <1>19, <1>7, <2>1 DEF PutManifest
<1>20. CASE ReadBackManifest(p)
    <2>1. CASE Goto(p, "marker") /\ UNCHANGED mem
        <3>1. pc[p] = "readback" /\ pc'[p] = "marker"
            BY <1>20, <1>5, <2>1 DEF ReadBackManifest
        <3> QED
            BY <1>1, <3>1, RunCallsAt
    <2> QED
        BY <1>20, <1>7, <2>1 DEF ReadBackManifest
<1> QED
    BY <1>8, <1>9, <1>11, <1>12, <1>13, <1>14, <1>15, <1>16, <1>17, <1>18,
       <1>19, <1>20
    DEF BackupRun, RunStep

\* The slots of one point are finitely many.
LEMMA ObjectsAreFew ==
    ASSUME NEW S \in SUBSET Objects
    PROVE  IsFiniteSet(S) /\ Cardinality(S) \in Nat /\ Cardinality(S) <= NumObjects
<1>1. IsFiniteSet(Objects) /\ Cardinality(Objects) = NumObjects
    BY StoreAssumption, FS_Interval DEF Objects
<1>2. IsFiniteSet(S) /\ Cardinality(S) <= NumObjects
    BY <1>1, FS_Subset
<1> QED
    BY <1>2, FS_CardinalityType

\* RestoreLeft, for a restore at step s with n objects to come.
RestoreCalls(s, n) ==
    LET objects == 3 * n
        left == [idle     |-> 3 * NumObjects + 7,
                 marker   |-> 3 * NumObjects + 6,
                 manifest |-> 3 * NumObjects + 5,
                 empty    |-> objects + 4, copy    |-> objects + 3,
                 store    |-> objects + 2, compare |-> objects + 1,
                 complete |-> 0,           failed  |-> 0] IN
    left[s]

LEMMA RestoreCallsAt ==
    ASSUME NEW n
    PROVE  /\ RestoreCalls("idle", n) = 3 * NumObjects + 7
           /\ RestoreCalls("marker", n) = 3 * NumObjects + 6
           /\ RestoreCalls("manifest", n) = 3 * NumObjects + 5
           /\ RestoreCalls("empty", n) = 3 * n + 4
           /\ RestoreCalls("copy", n) = 3 * n + 3
           /\ RestoreCalls("store", n) = 3 * n + 2
           /\ RestoreCalls("compare", n) = 3 * n + 1
           /\ RestoreCalls("complete", n) = 0
           /\ RestoreCalls("failed", n) = 0
BY DEF RestoreCalls

\* A step of a restore makes one of its calls, or ends it.
LEMMA RestoreCounts ==
    ASSUME TypeOK, TypeOK', NEW x \in Restores, RestoreRun(x)
    PROVE  RestoreLeft(x)' \in 0..(RestoreLeft(x) - 1)
<1> DEFINE n == Cardinality(rest[x])
           k == Cardinality(rest'[x])
<1>0. /\ rest[x] \in SUBSET Objects /\ rest'[x] \in SUBSET Objects
      /\ step[x] \in RestoreStates /\ step'[x] \in RestoreStates
    BY DEF TypeOK, RestoreTypeOK
<1>1. /\ RestoreLeft(x) = RestoreCalls(step[x], n)
      /\ RestoreLeft(x)' = RestoreCalls(step'[x], k)
    BY DEF RestoreLeft, RestoreCalls
<1>2. /\ n \in Nat /\ k \in Nat /\ k <= NumObjects /\ NumObjects \in Nat
      /\ IsFiniteSet(rest[x])
    BY <1>0, ObjectsAreFew, StoreAssumption
<1> HIDE DEF n, k
<1>3. RestoreLeft(x) \in Nat /\ RestoreLeft(x)' \in Nat
    BY <1>0, <1>1, <1>2, RestoreCallsAt DEF RestoreStates, RestoreStages
<1>4. SUFFICES RestoreLeft(x)' < RestoreLeft(x)
    BY <1>3
<1>5. ASSUME NEW s, Proceed(x, s) PROVE step'[x] = s
    BY <1>5 DEF Proceed, TypeOK, RestoreTypeOK
<1>6. ASSUME Quit(x, "failed"), RestoreLeft(x) > 0
      PROVE  RestoreLeft(x)' < RestoreLeft(x)
    <2>1. step'[x] = "failed"
        BY <1>5, <1>6 DEF Quit
    <2> QED
        BY <1>1, <1>6, <2>1, RestoreCallsAt
<1>7. CASE StartRestore(x)
    <2>1. step[x] = "idle" /\ step'[x] = "marker"
        BY <1>5, <1>7 DEF StartRestore
    <2> QED
        BY <1>1, <1>2, <2>1, RestoreCallsAt
<1>8. CASE LoadMarker(x)
    <2>1. step[x] = "marker" /\ step'[x] \in {"manifest", "failed"}
        BY <1>5, <1>8 DEF LoadMarker
    <2> QED
        BY <1>1, <1>2, <2>1, RestoreCallsAt
<1>9. CASE LoadManifest(x)
    <2>1. step[x] = "manifest" /\ (step'[x] = "empty" \/ Quit(x, "failed"))
        BY <1>5, <1>9 DEF LoadManifest
    <2>2. RestoreLeft(x) > 0
        BY <1>1, <1>2, <2>1, RestoreCallsAt
    <2>3. CASE step'[x] = "empty"
        BY <1>1, <1>2, <2>1, <2>3, RestoreCallsAt
    <2> QED
        BY <1>6, <2>1, <2>2, <2>3
<1>10. CASE CheckEmpty(x)
    <2>1. /\ step[x] = "empty"
          /\ (step'[x] = "copy" /\ k = n) \/ Quit(x, "failed")
        BY <1>5, <1>10 DEF CheckEmpty, k, n
    <2>2. RestoreLeft(x) > 0
        BY <1>1, <1>2, <2>1, RestoreCallsAt
    <2>3. CASE step'[x] = "copy" /\ k = n
        BY <1>1, <1>2, <2>1, <2>3, RestoreCallsAt
    <2> QED
        BY <1>6, <2>1, <2>2, <2>3
<1>11. CASE OpenCopy(x)
    <2>1. step[x] = "copy" /\ step'[x] = "store" /\ k = n
        BY <1>5, <1>11 DEF OpenCopy, k, n
    <2> QED
        BY <1>1, <1>2, <2>1, RestoreCallsAt
<1>12. CASE RestoreObject(x)
    <2>1. /\ step[x] = "store"
          /\ (step'[x] = "compare" /\ k = n) \/ Quit(x, "failed")
        BY <1>5, <1>12 DEF RestoreObject, k, n
    <2>2. RestoreLeft(x) > 0
        BY <1>1, <1>2, <2>1, RestoreCallsAt
    <2>3. CASE step'[x] = "compare" /\ k = n
        BY <1>1, <1>2, <2>1, <2>3, RestoreCallsAt
    <2> QED
        BY <1>6, <2>1, <2>2, <2>3
<1>13. CASE RestoreRefused(x)
    <2>1. step[x] = "copy" /\ Quit(x, "failed")
        BY <1>13 DEF RestoreRefused
    <2>2. RestoreLeft(x) > 0
        BY <1>1, <1>2, <2>1, RestoreCallsAt
    <2> QED
        BY <1>6, <2>1, <2>2
<1>14. CASE CompareObject(x)
    <2>1. PICK o \in Objects :
              /\ step[x] = "compare"
              /\ NextItem(x, o)
              /\ \/ /\ rest' = [rest EXCEPT ![x] = @ \ {o}]
                    /\ Proceed(x, "copy")
                 \/ Quit(x, "failed")
        BY <1>14 DEF CompareObject
    <2>2. CASE rest' = [rest EXCEPT ![x] = @ \ {o}] /\ Proceed(x, "copy")
        <3>1. rest'[x] = rest[x] \ {o} /\ o \in rest[x] /\ step'[x] = "copy"
            BY <1>5, <2>1, <2>2 DEF NextItem, TypeOK, RestoreTypeOK
        <3>2. k = n - 1
            BY <1>2, <3>1, FS_RemoveElement DEF k, n
        <3> QED
            BY <1>1, <1>2, <2>1, <3>1, <3>2, RestoreCallsAt
    <2>3. RestoreLeft(x) > 0
        BY <1>1, <1>2, <2>1, RestoreCallsAt
    <2> QED
        BY <1>6, <2>1, <2>2, <2>3
<1>15. CASE FinishRestore(x)
    <2>1. step[x] = "copy" /\ step'[x] = "complete"
        BY <1>5, <1>15 DEF FinishRestore
    <2> QED
        BY <1>1, <1>2, <2>1, RestoreCallsAt
<1>16. CASE AbandonRestore(x)
    <2>1. step[x] \in RestoreStages /\ Quit(x, "failed")
        BY <1>16 DEF AbandonRestore
    <2>2. RestoreLeft(x) > 0
        BY <1>1, <1>2, <2>1, RestoreCallsAt DEF RestoreStages
    <2> QED
        BY <1>6, <2>1, <2>2
<1> QED
    BY <1>7, <1>8, <1>9, <1>10, <1>11, <1>12, <1>13, <1>14, <1>15, <1>16
    DEF RestoreRun, RestoreStep

\* A set of slots has a first one.
LEMMA FirstSlot ==
    ASSUME NEW S \in SUBSET Objects, S # {}
    PROVE  \E o \in S : \A r \in S : o <= r
<1> DEFINE R == OpToRel(<, Nat)
<1>1. IsWellFoundedOn(R, Nat)
    BY NatLessThanWellFounded
<1>2. S \subseteq Nat
    BY DEF Objects
<1> HIDE DEF R
<1>3. PICK o \in S : \A r \in S : <<r, o>> \notin R
    BY <1>1, <1>2, WFMin
<1>4. \A r \in S : ~(r < o)
    BY <1>2, <1>3 DEF R, OpToRel
<1> QED
    BY <1>2, <1>4

\* A batch is never empty while there are keys to delete.
LEMMA BatchTakesKeys ==
    ASSUME NEW j, j.left \in SUBSET Objects, j.left # {}
    PROVE  Batch(j) # {} /\ Batch(j) \subseteq j.left
<1>1. PICK o \in j.left : \A r \in j.left : o <= r
    BY FirstSlot
<1>2. {r \in j.left : r <= o} = {o}
    <2>1. \A r \in j.left : r \in Nat
        BY DEF Objects
    <2> QED
        BY <1>1, <2>1
<1>3. Cardinality({r \in j.left : r <= o}) <= BatchSize
    BY <1>2, FS_Singleton, PruneAssumption
<1> QED
    BY <1>1, <1>3 DEF Batch

\* What a call of a started prune does to the points and the objects that are
\* still to be reached: from stage s to stage t and from job j to job i.
PruneMove(s, j, t, i) ==
    \/ /\ \/ s = "marker" /\ t \in {"marker", "manifest"}
          \/ s = "audit" /\ t = "audit"
          \/ s = "delete" /\ t = "manifest-key"
       /\ \E p \in j.todo : i.todo = j.todo \ {p}
       /\ i.complete = j.complete
       /\ s # "delete" => i.left = j.left
    \/ /\ s = "manifest" /\ t = "marker"
       /\ \E p : i.complete \in {j.complete, j.complete \cup {p}}
       /\ i.todo = j.todo /\ i.left = j.left
    \/ /\ \/ s = "marker" /\ t = "verify"
          \/ s = "verify" /\ t = "audit"
       /\ j.todo = {}
       /\ i.todo = j.complete
       /\ i.complete = j.complete /\ i.left = j.left
    \/ /\ s = "verify" /\ t = "verify"
       /\ j.left = {}
       /\ \E p \in j.todo : i.todo = j.todo \ {p}
       /\ i.complete = j.complete
    \/ /\ s = "verify" /\ t = "verify"
       /\ \E o \in j.left : i.left = j.left \ {o}
       /\ i.todo = j.todo /\ i.complete = j.complete
    \/ /\ s = "audit" /\ t = "delete"
       /\ i.todo \subseteq j.complete
       /\ i.complete = j.complete /\ i.left = j.left
    \/ /\ s = "manifest-key" /\ i = j
       /\ t = IF j.left = {} THEN "delete" ELSE "object-keys"
    \/ /\ s = "object-keys"
       /\ t = IF i.left = {} THEN "delete" ELSE "object-keys"
       /\ i.left \subseteq j.left
       /\ j.left # {} => i.left # j.left
       /\ i.todo = j.todo /\ i.complete = j.complete
    \/ /\ s \in PruneStages
       /\ t \in {"ok", "attention", "failed"}
       /\ i = NoJob

LEMMA PruneMoves ==
    ASSUME TypeOK, NEW q \in Prunes, PruneStep(q) \/ AbandonPrune(q)
    PROVE  PruneMove(stage[q], job[q], stage'[q], job'[q])
<1> DEFINE j == job[q]
           i == job'[q]
<1>0. /\ j \in Job /\ stage[q] \in PruneStates
      /\ j.left \in SUBSET Objects
    BY DEF TypeOK, PruneTypeOK, Job
<1>1. ASSUME NEW s, Enter(q, s) PROVE stage'[q] = s
    BY <1>1 DEF Enter, TypeOK, PruneTypeOK
<1>2. ASSUME NEW k, Recall(q, k) PROVE i = k
    BY <1>2, Zenon DEF Recall, TypeOK, PruneTypeOK
<1>3. ASSUME NEW s \in {"ok", "attention", "failed"}, Stop(q, s),
             stage[q] \in PruneStages
      PROVE  PruneMove(stage[q], j, stage'[q], i)
    <2>1. stage'[q] = s /\ i = NoJob
        BY <1>1, <1>2, <1>3 DEF Stop
    <2> QED
        BY <1>3, <2>1 DEF PruneMove
<1> SUFFICES PruneMove(stage[q], j, stage'[q], i)
    OBVIOUS
<1> HIDE DEF i
<1>4. CASE ReadMarker(q)
    <2>1. PICK p \in j.todo :
              \/ /\ Recall(q, [j EXCEPT !.todo = @ \ {p}, !.target = p])
                 /\ Enter(q, "manifest")
              \/ /\ Recall(q, [j EXCEPT !.todo = @ \ {p}, !.reported = TRUE])
                 /\ UNCHANGED stage
        BY <1>4 DEF ReadMarker
    <2>2. stage[q] = "marker" /\ stage'[q] \in {"marker", "manifest"}
        BY <1>1, <1>4, <2>1 DEF ReadMarker
    <2>3. \/ i = [j EXCEPT !.todo = j.todo \ {p}, !.target = p]
          \/ i = [j EXCEPT !.todo = j.todo \ {p}, !.reported = TRUE]
        BY <1>2, <2>1
    <2>4. i.todo = j.todo \ {p} /\ i.complete = j.complete /\ i.left = j.left
        BY <1>0, <2>3 DEF Job
    <2> QED
        BY <2>2, <2>4 DEF PruneMove
<1>5. CASE ReadManifest(q)
    <2>1. \/ i = [j EXCEPT !.complete = j.complete \cup {j.target}]
          \/ i = [j EXCEPT !.reported = TRUE]
        BY <1>2, <1>5 DEF ReadManifest
    <2>2. stage[q] = "manifest" /\ stage'[q] = "marker"
        BY <1>1, <1>5 DEF ReadManifest
    <2>3. /\ i.todo = j.todo /\ i.left = j.left
          /\ i.complete \in {j.complete, j.complete \cup {j.target}}
        BY <1>0, <2>1 DEF Job
    <2> QED
        BY <2>2, <2>3 DEF PruneMove
<1>6. CASE BeginVerify(q) \/ BeginAudit(q)
    <2>1. i = [j EXCEPT !.todo = j.complete] /\ j.todo = {}
        BY <1>2, <1>6 DEF BeginVerify, BeginAudit
    <2>2. \/ stage[q] = "marker" /\ stage'[q] = "verify"
          \/ stage[q] = "verify" /\ stage'[q] = "audit"
        BY <1>1, <1>6 DEF BeginVerify, BeginAudit
    <2>3. i.todo = j.complete /\ i.left = j.left /\ i.complete = j.complete
        BY <1>0, <2>1 DEF Job
    <2> QED
        BY <2>1, <2>2, <2>3 DEF PruneMove
<1>7. CASE TakePoint(q)
    <2>1. PICK p \in j.todo :
              Recall(q, [j EXCEPT !.todo = @ \ {p}, !.target = p,
                                  !.left = Listed(p)])
        BY <1>7 DEF TakePoint
    <2>2. i = [j EXCEPT !.todo = j.todo \ {p}, !.target = p, !.left = Listed(p)]
        BY <1>2, <2>1
    <2>3. i.todo = j.todo \ {p} /\ i.complete = j.complete
        BY <1>0, <2>2 DEF Job
    <2>4. stage[q] = "verify" /\ stage'[q] = "verify" /\ j.left = {}
        BY <1>7 DEF TakePoint
    <2> QED
        BY <2>3, <2>4 DEF PruneMove
<1>8. CASE VerifyObject(q)
    <2>1. PICK o \in j.left :
              \/ Recall(q, [j EXCEPT !.left = @ \ {o}]) /\ UNCHANGED stage
              \/ Stop(q, "failed")
        BY <1>8 DEF VerifyObject
    <2>2. stage[q] = "verify"
        BY <1>8 DEF VerifyObject
    <2>3. CASE Recall(q, [j EXCEPT !.left = @ \ {o}]) /\ UNCHANGED stage
        <3>1. i = [j EXCEPT !.left = j.left \ {o}]
            BY <1>2, <2>3
        <3>2. /\ i.left = j.left \ {o}
              /\ i.todo = j.todo /\ i.complete = j.complete
            BY <1>0, <3>1 DEF Job
        <3> QED
            BY <2>2, <2>3, <3>2 DEF PruneMove
    <2> QED
        BY <1>3, <2>1, <2>2, <2>3 DEF PruneStages
<1>9. CASE AuditKeys(q)
    <2>1. PICK p \in j.todo :
              Recall(q, [j EXCEPT !.todo = @ \ {p},
                                  !.reported = @ \/ ~ExactlyItsKeys(p)])
        BY <1>9 DEF AuditKeys
    <2>2. i = [j EXCEPT !.todo = j.todo \ {p},
                        !.reported = j.reported \/ ~ExactlyItsKeys(p)]
        BY <1>2, <2>1
    <2>3. i.todo = j.todo \ {p} /\ i.complete = j.complete /\ i.left = j.left
        BY <1>0, <2>2, Zenon DEF Job
    <2>4. stage[q] = "audit" /\ stage'[q] = "audit"
        BY <1>9 DEF AuditKeys
    <2> QED
        BY <2>3, <2>4 DEF PruneMove
<1>10. CASE Decide(q)
    <2>1. stage[q] = "audit"
        BY <1>10 DEF Decide
    <2>2. CASE Recall(q, [j EXCEPT !.todo = Expired(j)]) /\ Enter(q, "delete")
        <3>1. i = [j EXCEPT !.todo = Expired(j)] /\ stage'[q] = "delete"
            BY <1>1, <1>2, <2>2
        <3>2. i.todo = Expired(j) /\ i.complete = j.complete /\ i.left = j.left
            BY <1>0, <3>1 DEF Job
        <3>3. i.todo \subseteq j.complete
            BY <3>2 DEF Expired
        <3> QED
            BY <2>1, <3>1, <3>2, <3>3 DEF PruneMove
    <2> QED
        BY <1>3, <1>10, <2>1, <2>2 DEF Decide, PruneStages
<1>11. CASE DeleteMarker(q)
    <2>1. PICK p \in j.todo :
              \/ /\ Recall(q, [j EXCEPT !.todo = @ \ {p}, !.target = p,
                                        !.left = Listed(p)])
                 /\ Enter(q, "manifest-key")
              \/ Stop(q, "failed")
        BY <1>11 DEF DeleteMarker
    <2>2. stage[q] = "delete"
        BY <1>11 DEF DeleteMarker
    <2>3. CASE /\ Recall(q, [j EXCEPT !.todo = @ \ {p}, !.target = p,
                                      !.left = Listed(p)])
               /\ Enter(q, "manifest-key")
        <3>1. /\ i = [j EXCEPT !.todo = j.todo \ {p}, !.target = p,
                               !.left = Listed(p)]
              /\ stage'[q] = "manifest-key"
            BY <1>1, <1>2, <2>3
        <3>2. i.todo = j.todo \ {p} /\ i.complete = j.complete
            BY <1>0, <3>1 DEF Job
        <3> QED
            BY <2>2, <3>1, <3>2 DEF PruneMove
    <2> QED
        BY <1>3, <2>1, <2>2, <2>3 DEF PruneStages, Deleting
<1>12. CASE DeleteManifest(q)
    <2>1. stage[q] = "manifest-key"
        BY <1>12 DEF DeleteManifest
    <2>2. CASE /\ Enter(q, IF j.left = {} THEN "delete" ELSE "object-keys")
               /\ UNCHANGED job
        <3>1. /\ stage'[q] = IF j.left = {} THEN "delete" ELSE "object-keys"
              /\ i = j
            BY <1>1, <2>2 DEF i
        <3> QED
            BY <2>1, <3>1 DEF PruneMove
    <2> QED
        BY <1>3, <1>12, <2>1, <2>2 DEF DeleteManifest, PruneStages, Deleting
<1>13. CASE DeleteBatch(q)
    <2> DEFINE more == j.left \ Batch(j)
    <2>1. stage[q] = "object-keys"
        BY <1>13 DEF DeleteBatch
    <2>2. CASE /\ Recall(q, [j EXCEPT !.left = more])
               /\ Enter(q, IF more = {} THEN "delete" ELSE "object-keys")
        <3>1. /\ stage'[q] = IF more = {} THEN "delete" ELSE "object-keys"
              /\ i = [j EXCEPT !.left = more]
            BY <1>1, <1>2, <2>2
        <3>2. i.left = more /\ i.todo = j.todo /\ i.complete = j.complete
            BY <1>0, <3>1 DEF Job
        <3>3. j.left # {} => more # j.left
            BY <1>0, BatchTakesKeys
        <3> QED
            BY <2>1, <3>1, <3>2, <3>3 DEF PruneMove
    <2> QED
        BY <1>3, <1>13, <2>1, <2>2 DEF DeleteBatch, PruneStages, Deleting
<1>14. CASE FinishPrune(q) \/ AbandonPrune(q)
    BY <1>3, <1>14 DEF FinishPrune, AbandonPrune, PruneStages, Deleting
<1> QED
    BY <1>4, <1>5, <1>6, <1>7, <1>8, <1>9, <1>10, <1>11, <1>12, <1>13, <1>14
    DEF PruneStep

\* PruneLeft, for a prune at stage s with t points to reach, c that loaded and
\* l objects to come.
PruneCalls(s, t, c, l) ==
    LET N == NumObjects
        deletion == t * (N + 2) + l
        loading == t * (2 * N + 6) + c * (2 * N + 4) + l IN
    CASE s = "marker"       -> loading + 4
      [] s = "manifest"     -> loading + (2 * N + 9)
      [] s = "verify"       -> t * (N + 1) + c * (N + 3) + l + 3
      [] s = "audit"        -> t + c * (N + 2) + l + 2
      [] s = "manifest-key" -> deletion + 2
      [] s \in {"delete", "object-keys"} -> deletion + 1
      [] OTHER              -> 0

LEMMA Times ==
    ASSUME NEW n \in Nat, NEW N \in Nat
    PROVE  /\ n * (2 * N + 6) = 2 * (n * N) + 6 * n
           /\ n * (2 * N + 4) = 2 * (n * N) + 4 * n
           /\ n * (N + 1) = n * N + n
           /\ n * (N + 2) = n * N + 2 * n
           /\ n * (N + 3) = n * N + 3 * n
           /\ n * N \in Nat
           /\ (n + 1) * N = n * N + N
OBVIOUS

LEMMA FewerTimes ==
    ASSUME NEW n \in Nat, NEW m \in Nat, NEW N \in Nat, n <= m
    PROVE  n * N <= m * N
<1>1. PICK k \in Nat : m = n + k
    <2>1. m - n \in Nat /\ m = n + (m - n)
        OBVIOUS
    <2> QED
        BY <2>1
<1>2. m * N = n * N + k * N
    BY <1>1
<1>3. n * N \in Nat /\ k * N \in Nat
    BY Times
<1> QED
    BY <1>2, <1>3

LEMMA PruneCallsAt ==
    ASSUME NEW s \in PruneStates,
           NEW t \in Nat, NEW c \in Nat, NEW l \in Nat
    PROVE  LET N == NumObjects
               T == t * N
               C == c * N
               load == 2 * T + 6 * t + 2 * C + 4 * c + l
               calls == PruneCalls(s, t, c, l) IN
           /\ s = "marker" => calls = load + 4
           /\ s = "manifest" => calls = load + 2 * N + 9
           /\ s = "verify" => calls = T + t + C + 3 * c + l + 3
           /\ s = "audit" => calls = t + C + 2 * c + l + 2
           /\ s = "manifest-key" => calls = T + 2 * t + l + 2
           /\ s \in {"delete", "object-keys"} => calls = T + 2 * t + l + 1
           /\ s \notin PruneStages => calls = 0
<1> DEFINE N == NumObjects
<1>1. /\ t * (2 * N + 6) = 2 * (t * N) + 6 * t
      /\ t * (N + 1) = t * N + t
      /\ t * (N + 2) = t * N + 2 * t
      /\ t * N \in Nat
    BY StoreAssumption, Times
<1>2. /\ c * (2 * N + 4) = 2 * (c * N) + 4 * c
      /\ c * (N + 2) = c * N + 2 * c
      /\ c * (N + 3) = c * N + 3 * c
      /\ c * N \in Nat
    BY StoreAssumption, Times
<1>3. LET calls == PruneCalls(s, t, c, l) IN
      /\ s = "marker" => calls = t * (2 * N + 6) + c * (2 * N + 4) + l + 4
      /\ s = "manifest" =>
             calls = t * (2 * N + 6) + c * (2 * N + 4) + l + (2 * N + 9)
      /\ s = "verify" => calls = t * (N + 1) + c * (N + 3) + l + 3
      /\ s = "audit" => calls = t + c * (N + 2) + l + 2
      /\ s = "manifest-key" => calls = t * (N + 2) + l + 2
      /\ s \in {"delete", "object-keys"} => calls = t * (N + 2) + l + 1
      /\ s \notin PruneStages => calls = 0
    BY DEF PruneCalls, PruneStates, PruneStages, Deleting
<1> QED
    BY <1>1, <1>2, <1>3, StoreAssumption

\* The prefix of p gains no key.
NothingAppears(p) ==
    /\ marker'[p] # "absent" => marker[p] # "absent"
    /\ manifest'[p] # "absent" => manifest[p] # "absent"
    /\ foreign'[p] => foreign[p]
    /\ \A o \in Objects : body'[p][o] # Missing => body[p][o] # Missing

LEMMA PruneAddsNothing ==
    ASSUME TypeOK, NEW q \in Prunes, PruneRun(q), NEW p \in Points
    PROVE  NothingAppears(p)
<1> USE DEF NothingAppears, TypeOK, StoreTypeOK
<1>1. CASE DeleteMarker(q)
    BY <1>1 DEF DeleteMarker
<1>2. CASE DeleteManifest(q)
    BY <1>2 DEF DeleteManifest
<1>3. CASE DeleteBatch(q)
    <2>1. ASSUME NEW t, NEW gone, Remove(t, gone)
          PROVE  \A o \in Objects : body'[p][o] \in {body[p][o], Missing}
        BY <2>1 DEF Remove
    <2>2. \A o \in Objects : body'[p][o] \in {body[p][o], Missing}
        BY <1>3, <2>1 DEF DeleteBatch
    <2> QED
        BY <1>3, <2>2 DEF DeleteBatch
<1>4. CASE UNCHANGED storeVars
    BY <1>4 DEF storeVars
<1> QED
    BY <1>1, <1>2, <1>3, <1>4
    DEF PruneRun, PruneStep, ListPrefixes, ReadMarker, ReadManifest,
        BeginVerify, TakePoint, VerifyObject, BeginAudit, AuditKeys, Decide,
        FinishPrune, AbandonPrune

\* Only a run adds keys to its prefix, or somebody one of their own.
LEMMA KeysOfOnePoint ==
    ASSUME TypeOK, [Next]_vars
    PROVE  \E r : \A p \in Points \ {r} : NothingAppears(p)
<1> USE DEF NothingAppears
<1>1. ASSUME NEW r \in Points, BackupRun(r)
      PROVE  \A p \in Points \ {r} : NothingAppears(p)
    BY <1>1, RunTouchesItsPrefix
<1>2. ASSUME NEW q \in Prunes, PruneRun(q)
      PROVE  \A p \in Points : NothingAppears(p)
    BY <1>2, PruneAddsNothing
<1>3. CASE UNCHANGED storeVars
    BY <1>3 DEF storeVars
<1>4. CASE Tick \/ AddStrayKey
    BY <1>4 DEF Tick, AddStrayKey
<1>5. ASSUME NEW r \in Points, NEW o \in Objects, DamageCopy(r, o)
      PROVE  \A p \in Points \ {r} : NothingAppears(p)
    BY <1>5 DEF DamageCopy, TypeOK, StoreTypeOK
<1>6. ASSUME NEW r \in Points,
             DamageManifest(r) \/ DamageMarker(r) \/ AddForeignKey(r)
      PROVE  \A p \in Points \ {r} : NothingAppears(p)
    BY <1>6 DEF DamageManifest, DamageMarker, AddForeignKey, TypeOK, StoreTypeOK
<1> HIDE DEF NothingAppears
<1>7. CASE World
    <2>1. UNCHANGED storeVars \/ StoreEnvironment
        BY <1>7 DEF World, Application
    <2> QED
        BY <1>3, <1>4, <1>5, <1>6, <2>1 DEF StoreEnvironment
<1>8. CASE (\E x \in Restores : RestoreRun(x)) \/ UNCHANGED vars
    BY <1>3, <1>8, RestoreOnlyReads DEF vars
<1> QED
    BY <1>1, <1>2, <1>7, <1>8 DEF Next

LEMMA InitFinite == Init => WorkIsFinite
<1> SUFFICES ASSUME Init PROVE WorkIsFinite
    OBVIOUS
<1>1. UsedPoints = {}
    BY DEF Init, StoreInit, UsedPoints, HasKeys, Stored, NoObjects
<1>2. \A q \in Prunes :
          job[q].todo = {} /\ job[q].complete = {} /\ stage[q] = "idle"
    BY DEF Init, PruneInit, NoJob
<1> QED
    BY <1>1, <1>2, FS_EmptySet DEF WorkIsFinite

LEMMA PruneFinite ==
    ASSUME TypeOK, WorkIsFinite, NEW q \in Prunes, PruneRun(q)
    PROVE  /\ IsFiniteSet(job'[q].todo) /\ IsFiniteSet(job'[q].complete)
           /\ stage'[q] = "object-keys" => job'[q].left # {}
<1> DEFINE j == job[q]
           i == job'[q]
           s == stage[q]
           t == stage'[q]
<1>1. /\ IsFiniteSet(j.todo) /\ IsFiniteSet(j.complete) /\ IsFiniteSet({})
      /\ IsFiniteSet(UsedPoints)
    BY FS_EmptySet DEF WorkIsFinite
<1>2. CASE ListPrefixes(q)
    <2>1. PICK n : i = [NoJob EXCEPT !.now = n, !.todo = UsedPoints,
                                     !.reported = stray]
        BY <1>2, Zenon
        DEF ListPrefixes, Recall, UsedPoints, TypeOK, PruneTypeOK
    <2>2. i.todo = UsedPoints /\ i.complete = {} /\ t = "marker"
        BY <1>2, <2>1 DEF NoJob, ListPrefixes, Enter, TypeOK, PruneTypeOK
    <2> QED
        BY <1>1, <2>2
<1>3. CASE PruneStep(q) \/ AbandonPrune(q)
    <2>1. PruneMove(s, j, t, i)
        BY <1>3, PruneMoves
    <2>2. \A p : /\ IsFiniteSet(j.todo \ {p})
                 /\ IsFiniteSet(j.complete \cup {p})
        BY <1>1, FS_AddElement, FS_RemoveElement
    <2>3. \A S \in SUBSET j.complete : IsFiniteSet(S)
        BY <1>1, FS_Subset
    <2>4. NoJob.todo = {} /\ NoJob.complete = {}
        BY DEF NoJob
    <2> HIDE DEF i, j, s, t
    <2>5. IsFiniteSet(i.todo) /\ IsFiniteSet(i.complete)
        BY <1>1, <2>1, <2>2, <2>3, <2>4 DEF PruneMove
    <2>6. t = "object-keys" => i.left # {}
        BY <2>1 DEF PruneMove
    <2> QED
        BY <2>5, <2>6 DEF i, t
<1> QED
    BY <1>2, <1>3 DEF PruneRun

LEMMA NextFinite == TypeOK /\ WorkIsFinite /\ [Next]_vars => WorkIsFinite'
<1> SUFFICES ASSUME TypeOK, WorkIsFinite, [Next]_vars
             PROVE  WorkIsFinite'
    OBVIOUS
<1>1. PICK r : \A p \in Points \ {r} : NothingAppears(p)
    BY KeysOfOnePoint
<1>2. \A p \in Points \ {r} : HasKeys(p)' => HasKeys(p)
    BY <1>1 DEF NothingAppears, HasKeys, Stored
<1>3. UsedPoints' \in SUBSET (UsedPoints \cup {r})
    BY <1>2 DEF UsedPoints
<1>4. IsFiniteSet(UsedPoints \cup {r})
    BY FS_AddElement DEF WorkIsFinite
<1>5. IsFiniteSet(UsedPoints')
    BY <1>3, <1>4, FS_Subset
<1>6. ASSUME NEW q \in Prunes
      PROVE  /\ IsFiniteSet(job'[q].todo) /\ IsFiniteSet(job'[q].complete)
             /\ stage'[q] = "object-keys" => job'[q].left # {}
    <2>1. CASE PruneRun(q)
        BY <2>1, PruneFinite
    <2>2. CASE UNCHANGED <<stage[q], job[q]>>
        BY <2>2 DEF WorkIsFinite
    <2>3. UNCHANGED <<stage[q], job[q]>> \/ PruneRun(q)
        BY OtherPrune DEF Next, vars, pruneVars, BackupRun, RestoreRun, World
    <2> QED
        BY <2>1, <2>2, <2>3
<1> QED
    BY <1>5, <1>6 DEF WorkIsFinite

LEMMA WorkIsAlwaysFinite == Spec => []WorkIsFinite
BY InitFinite, NextFinite, TypeCorrect, PTL DEF Spec

\* A step of a started prune makes one of its calls, or ends it.
LEMMA PruneCounts ==
    ASSUME TypeOK, TypeOK', WorkIsFinite, WorkIsFinite', NEW q \in Prunes,
           PruneRun(q), stage[q] # "idle"
    PROVE  PruneLeft(q)' \in 0..(PruneLeft(q) - 1)
<1> DEFINE j == job[q]
           i == job'[q]
           s == stage[q]
           z == stage'[q]
           N == NumObjects
           t == Cardinality(j.todo)
           c == Cardinality(j.complete)
           l == Cardinality(j.left)
           t1 == Cardinality(i.todo)
           c1 == Cardinality(i.complete)
           l1 == Cardinality(i.left)
<1>1. /\ PruneLeft(q) = PruneCalls(s, t, c, l)
      /\ PruneLeft(q)' = PruneCalls(z, t1, c1, l1)
    BY Zenon DEF PruneLeft, PruneCalls
<1>2. /\ IsFiniteSet(j.todo) /\ IsFiniteSet(j.complete)
      /\ IsFiniteSet(i.todo) /\ IsFiniteSet(i.complete)
      /\ s = "object-keys" => j.left # {}
    BY DEF WorkIsFinite
<1>3. j.left \in SUBSET Objects /\ i.left \in SUBSET Objects
    BY DEF TypeOK, PruneTypeOK, Job
<1>4. /\ IsFiniteSet(j.left) /\ l \in Nat /\ l <= N
      /\ IsFiniteSet(i.left) /\ l1 \in Nat /\ l1 <= N
    BY <1>3, ObjectsAreFew
<1>5. t \in Nat /\ c \in Nat /\ t1 \in Nat /\ c1 \in Nat /\ N \in Nat
    BY <1>2, FS_CardinalityType, StoreAssumption
<1>6. PruneMove(s, j, z, i)
    BY PruneMoves DEF PruneRun, ListPrefixes
<1>7. s \in PruneStates /\ z \in PruneStates
    BY DEF TypeOK, PruneTypeOK
<1>8. ASSUME NEW p, p \in j.todo, i.todo = j.todo \ {p}
      PROVE  t = t1 + 1
    <2>1. t1 = t - 1
        BY <1>2, <1>8, FS_RemoveElement
    <2> QED
        BY <1>5, <2>1
<1>9. ASSUME NEW p, i.complete \in {j.complete, j.complete \cup {p}}
      PROVE  c1 \in {c, c + 1}
    BY <1>2, <1>9, FS_AddElement
<1>10. i.todo \subseteq j.complete => t1 <= c
    BY <1>2, FS_Subset
<1>11. /\ i.todo = j.todo => t1 = t
       /\ i.todo = j.complete => t1 = c
       /\ i.complete = j.complete => c1 = c
       /\ i.left = j.left => l1 = l
       /\ j.left = {} => l = 0
       /\ j.todo = {} => t = 0
    BY FS_EmptySet
<1>12. ASSUME NEW o, o \in j.left, i.left = j.left \ {o}
       PROVE  l = l1 + 1
    <2>1. l1 = l - 1
        BY <1>4, <1>12, FS_RemoveElement
    <2> QED
        BY <1>4, <2>1
<1>13. ASSUME i.left \subseteq j.left, i.left # j.left
       PROVE  l1 < l
    BY <1>4, <1>13, FS_Subset
<1> HIDE DEF t, c, l, t1, c1, l1, z, s, i, j, N
<1>14. /\ t * N \in Nat /\ c * N \in Nat /\ t1 * N \in Nat /\ c1 * N \in Nat
       /\ t = t1 + 1 => t * N = t1 * N + N
       /\ c1 = c + 1 => c1 * N = c * N + N
       /\ t1 <= c => t1 * N <= c * N
       /\ t = 0 => t * N = 0
    BY <1>5, Times, FewerTimes
<1> DEFINE T == t * N
           C == c * N
           T1 == t1 * N
           C1 == c1 * N
<1>15. /\ s = "marker" => PruneLeft(q) = 2 * T + 6 * t + 2 * C + 4 * c + l + 4
       /\ s = "manifest" =>
              PruneLeft(q) = 2 * T + 6 * t + 2 * C + 4 * c + l + 2 * N + 9
       /\ s = "verify" => PruneLeft(q) = T + t + C + 3 * c + l + 3
       /\ s = "audit" => PruneLeft(q) = t + C + 2 * c + l + 2
       /\ s = "manifest-key" => PruneLeft(q) = T + 2 * t + l + 2
       /\ s \in {"delete", "object-keys"} => PruneLeft(q) = T + 2 * t + l + 1
       /\ s \notin PruneStages => PruneLeft(q) = 0
    BY <1>1, <1>4, <1>5, <1>7, PruneCallsAt DEF N
<1>16. /\ z = "marker" =>
              PruneLeft(q)' = 2 * T1 + 6 * t1 + 2 * C1 + 4 * c1 + l1 + 4
       /\ z = "manifest" =>
              PruneLeft(q)' = 2 * T1 + 6 * t1 + 2 * C1 + 4 * c1 + l1 + 2 * N + 9
       /\ z = "verify" => PruneLeft(q)' = T1 + t1 + C1 + 3 * c1 + l1 + 3
       /\ z = "audit" => PruneLeft(q)' = t1 + C1 + 2 * c1 + l1 + 2
       /\ z = "manifest-key" => PruneLeft(q)' = T1 + 2 * t1 + l1 + 2
       /\ z \in {"delete", "object-keys"} =>
              PruneLeft(q)' = T1 + 2 * t1 + l1 + 1
       /\ z \notin PruneStages => PruneLeft(q)' = 0
    BY <1>1, <1>4, <1>5, <1>7, PruneCallsAt DEF N
<1>17. /\ T \in Nat /\ C \in Nat /\ T1 \in Nat /\ C1 \in Nat
       /\ t = t1 + 1 => T = T1 + N
       /\ t1 = t => T1 = T
       /\ t1 = c => T1 = C
       /\ c1 = c => C1 = C
       /\ c1 = c + 1 => C1 = C + N
       /\ t1 <= c => T1 <= C
       /\ t = 0 => T = 0
    BY <1>14
<1> HIDE DEF T, C, T1, C1
<1>18. PruneLeft(q) \in Nat /\ PruneLeft(q)' \in Nat
    <2>1. ASSUME s \in PruneStages PROVE PruneLeft(q) \in Nat
        BY <1>4, <1>5, <1>15, <1>17, <2>1 DEF PruneStages, Deleting
    <2>2. ASSUME z \in PruneStages PROVE PruneLeft(q)' \in Nat
        BY <1>4, <1>5, <1>16, <1>17, <2>2 DEF PruneStages, Deleting
    <2> QED
        BY <1>15, <1>16, <2>1, <2>2
<1>19. SUFFICES PruneLeft(q)' < PruneLeft(q)
    BY <1>18
<1> USE <1>4, <1>5, <1>11, <1>17
<1>20. CASE /\ s = "marker" /\ z \in {"marker", "manifest"}
            /\ t = t1 + 1 /\ c1 = c /\ l1 = l
    BY <1>15, <1>16, <1>20
<1>21. CASE /\ s = "audit" /\ z = "audit"
            /\ t = t1 + 1 /\ c1 = c /\ l1 = l
    BY <1>15, <1>16, <1>21
<1>22. CASE /\ s = "delete" /\ z = "manifest-key" /\ t = t1 + 1
    BY <1>15, <1>16, <1>22
<1>23. CASE /\ s = "manifest" /\ z = "marker"
            /\ t1 = t /\ c1 \in {c, c + 1} /\ l1 = l
    BY <1>15, <1>16, <1>23
<1>24. CASE /\ \/ s = "marker" /\ z = "verify"
               \/ s = "verify" /\ z = "audit"
            /\ t = 0 /\ t1 = c /\ c1 = c /\ l1 = l
    BY <1>15, <1>16, <1>24
<1>25. CASE s = "verify" /\ z = "verify" /\ l = 0 /\ t = t1 + 1 /\ c1 = c
    BY <1>15, <1>16, <1>25
<1>26. CASE s = "verify" /\ z = "verify" /\ l = l1 + 1 /\ t1 = t /\ c1 = c
    BY <1>15, <1>16, <1>26
<1>27. CASE s = "audit" /\ z = "delete" /\ t1 <= c /\ c1 = c /\ l1 = l
    BY <1>15, <1>16, <1>27
<1>28. CASE /\ s = "manifest-key" /\ z \in {"delete", "object-keys"}
            /\ t1 = t /\ l1 = l
    BY <1>15, <1>16, <1>28
<1>29. CASE /\ s = "object-keys" /\ z \in {"delete", "object-keys"}
            /\ t1 = t /\ l1 < l
    BY <1>15, <1>16, <1>29
<1>30. CASE s \in PruneStages /\ z \in {"ok", "attention", "failed"}
    <2>1. PruneLeft(q)' = 0
        BY <1>16, <1>30 DEF PruneStages, Deleting
    <2>2. PruneLeft(q) > 0
        BY <1>15, <1>30 DEF PruneStages, Deleting
    <2> QED
        BY <2>1, <2>2
<1> QED
    BY <1>2, <1>6, <1>8, <1>9, <1>10, <1>12, <1>13, <1>20, <1>21, <1>22, <1>23,
       <1>24, <1>25, <1>26, <1>27, <1>28, <1>29, <1>30
    DEF PruneMove

\* RunLeft(p), PruneLeft(q) and RestoreLeft(x) depend on what the command
\* itself remembers, and on nothing else.
LEMMA CallsFrame ==
    /\ \A p : UNCHANGED <<pc[p], mem[p]>> => UNCHANGED RunLeft(p)
    /\ \A q : UNCHANGED <<stage[q], job[q]>> => UNCHANGED PruneLeft(q)
    /\ \A x : UNCHANGED <<step[x], rest[x]>> => UNCHANGED RestoreLeft(x)
<1>1. ASSUME NEW p, UNCHANGED <<pc[p], mem[p]>>
      PROVE  UNCHANGED RunLeft(p)
    <2>1. /\ RunLeft(p) = RunCalls(pc[p], mem[p].bucket, mem[p].slot)
          /\ RunLeft(p)' = RunCalls(pc'[p], mem'[p].bucket, mem'[p].slot)
        BY DEF RunLeft, RunCalls
    <2> QED
        BY <1>1, <2>1
<1>2. ASSUME NEW q, UNCHANGED <<stage[q], job[q]>>
      PROVE  UNCHANGED PruneLeft(q)
    <2> DEFINE calls(s, j) == PruneCalls(s, Cardinality(j.todo),
                                         Cardinality(j.complete),
                                         Cardinality(j.left))
    <2>1. /\ PruneLeft(q) = calls(stage[q], job[q])
          /\ PruneLeft(q)' = calls(stage'[q], job'[q])
        BY Zenon DEF PruneLeft, PruneCalls
    <2> HIDE DEF calls
    <2> QED
        BY <1>2, <2>1
<1>3. ASSUME NEW x, UNCHANGED <<step[x], rest[x]>>
      PROVE  UNCHANGED RestoreLeft(x)
    <2>1. /\ RestoreLeft(x) = RestoreCalls(step[x], Cardinality(rest[x]))
          /\ RestoreLeft(x)' = RestoreCalls(step'[x], Cardinality(rest'[x]))
        BY DEF RestoreLeft, RestoreCalls
    <2> QED
        BY <1>3, <2>1
<1> QED
    BY <1>1, <1>2, <1>3

\* What a command has left is a number.
LEMMA CallsType ==
    ASSUME TypeOK, WorkIsFinite
    PROVE  /\ \A p \in Points : RunLeft(p) \in Nat
           /\ \A q \in Prunes : PruneLeft(q) \in Nat
           /\ \A x \in Restores : RestoreLeft(x) \in Nat
<1>1. ASSUME NEW p \in Points PROVE RunLeft(p) \in Nat
    <2>1. pc[p] \in RunStates /\ mem[p].bucket \in Buckets /\ mem[p].slot \in Slots
        BY DEF TypeOK, BackupTypeOK, Memory
    <2>2. RunLeft(p) = RunCalls(pc[p], mem[p].bucket, mem[p].slot)
        BY DEF RunLeft, RunCalls
    <2> QED
        BY <2>1, <2>2, RunCallsType
<1>2. ASSUME NEW q \in Prunes PROVE PruneLeft(q) \in Nat
    <2> DEFINE t == Cardinality(job[q].todo)
               c == Cardinality(job[q].complete)
               l == Cardinality(job[q].left)
    <2>1. stage[q] \in PruneStates /\ job[q].left \in SUBSET Objects
        BY DEF TypeOK, PruneTypeOK, Job
    <2>2. t \in Nat /\ c \in Nat /\ l \in Nat
        BY <2>1, ObjectsAreFew, FS_CardinalityType DEF WorkIsFinite
    <2>3. PruneLeft(q) = PruneCalls(stage[q], t, c, l)
        BY Zenon DEF PruneLeft, PruneCalls
    <2>4. NumObjects \in Nat /\ t * NumObjects \in Nat /\ c * NumObjects \in Nat
        BY <2>2, Times, StoreAssumption
    <2> HIDE DEF t, c, l
    <2> DEFINE T == t * NumObjects
               C == c * NumObjects
    <2> HIDE DEF T, C
    <2>5. T \in Nat /\ C \in Nat
        BY <2>4 DEF T, C
    <2> QED
        BY <2>1, <2>2, <2>3, <2>4, <2>5, PruneCallsAt
        DEF T, C, PruneStates, PruneStages, Deleting
<1>3. ASSUME NEW x \in Restores PROVE RestoreLeft(x) \in Nat
    <2>1. step[x] \in RestoreStates /\ Cardinality(rest[x]) \in Nat
        BY ObjectsAreFew DEF TypeOK, RestoreTypeOK
    <2>2. RestoreLeft(x) = RestoreCalls(step[x], Cardinality(rest[x]))
        BY DEF RestoreLeft, RestoreCalls
    <2> QED
        BY <2>1, <2>2, RestoreCallsAt, StoreAssumption
        DEF RestoreStates, RestoreStages
<1> QED
    BY <1>1, <1>2, <1>3

\* A step of one command leaves what every other one remembers alone, and the
\* world leaves what all of them remember.
LEMMA OthersKeepTheirCalls ==
    ASSUME TypeOK, [Next]_vars
    PROVE  /\ \A p \in Points :
                  BackupRun(p) \/ UNCHANGED <<pc[p], mem[p]>>
           /\ \A q \in Prunes :
                  PruneRun(q) \/ UNCHANGED <<stage[q], job[q]>>
           /\ \A x \in Restores :
                  RestoreRun(x) \/ UNCHANGED <<step[x], rest[x]>>
<1>1. ASSUME NEW p \in Points, BackupRun(p)
      PROVE  /\ \A r \in Points \ {p} : UNCHANGED <<pc[r], mem[r]>>
             /\ UNCHANGED <<stage, job, step, rest>>
    BY <1>1, RunTouchesItsPrefix DEF BackupRun, pruneVars, restoreVars
<1>2. ASSUME NEW q \in Prunes, PruneRun(q)
      PROVE  /\ \A r \in Prunes \ {q} : UNCHANGED <<stage[r], job[r]>>
             /\ UNCHANGED <<pc, mem, step, rest>>
    BY <1>2, OtherPrune DEF PruneRun, backupVars, restoreVars
<1>3. ASSUME NEW x \in Restores, RestoreRun(x)
      PROVE  /\ \A y \in Restores \ {x} : UNCHANGED <<step[y], rest[y]>>
             /\ UNCHANGED <<pc, mem, stage, job>>
    <2>1. UNCHANGED <<pc, mem, stage, job>>
        BY <1>3 DEF RestoreRun, backupVars, pruneVars
    <2>2. \A y \in Restores \ {x} : UNCHANGED <<step[y], rest[y]>>
        BY <1>3
        DEF RestoreRun, RestoreStep, StartRestore, LoadMarker, LoadManifest,
            CheckEmpty, OpenCopy, RestoreObject, RestoreRefused, CompareObject,
            FinishRestore, AbandonRestore, Proceed, Quit, TypeOK, RestoreTypeOK
    <2> QED
        BY <2>1, <2>2
<1>4. CASE World \/ UNCHANGED vars
    <2>1. UNCHANGED <<pc, mem, stage, job, step, rest>>
        BY <1>4 DEF World, Application, vars, backupVars, pruneVars, restoreVars
    <2> QED
        BY <2>1
<1> QED
    BY <1>1, <1>2, <1>3, <1>4 DEF Next

\* Every backup, prune and restore uses up its calls, for any number of them,
\* of points, of objects and of source buckets.
THEOREM CommandsAreFinite == Spec => CommandsRunOut
<1>1. ASSUME TypeOK, TypeOK', WorkIsFinite, WorkIsFinite', [Next]_vars
      PROVE  /\ \A p \in Points :
                    /\ RunLeft(p)' \in 0..RunLeft(p)
                    /\ BackupRun(p) => RunLeft(p)' # RunLeft(p)
             /\ \A q \in Prunes :
                    stage[q] # "idle" =>
                        /\ PruneLeft(q)' \in 0..PruneLeft(q)
                        /\ PruneRun(q) => PruneLeft(q)' # PruneLeft(q)
             /\ \A x \in Restores :
                    /\ RestoreLeft(x)' \in 0..RestoreLeft(x)
                    /\ RestoreRun(x) => RestoreLeft(x)' # RestoreLeft(x)
    <2>1. ASSUME NEW a \in Nat, NEW b, b \in 0..(a - 1)
          PROVE  b \in 0..a /\ b # a
        BY <2>1
    <2>2. ASSUME NEW p \in Points
          PROVE  /\ RunLeft(p)' \in 0..RunLeft(p)
                 /\ BackupRun(p) => RunLeft(p)' # RunLeft(p)
        <3>1. RunLeft(p) \in Nat
            BY <1>1, CallsType
        <3>2. CASE BackupRun(p)
            BY <1>1, <2>1, <3>1, <3>2, RunCounts
        <3>3. CASE ~BackupRun(p)
            <4>1. RunLeft(p)' = RunLeft(p)
                BY <1>1, <3>3, OthersKeepTheirCalls, CallsFrame
            <4> QED
                BY <3>1, <3>3, <4>1
        <3> QED
            BY <3>2, <3>3
    <2>3. ASSUME NEW q \in Prunes, stage[q] # "idle"
          PROVE  /\ PruneLeft(q)' \in 0..PruneLeft(q)
                 /\ PruneRun(q) => PruneLeft(q)' # PruneLeft(q)
        <3>1. PruneLeft(q) \in Nat
            BY <1>1, CallsType
        <3>2. CASE PruneRun(q)
            BY <1>1, <2>1, <2>3, <3>1, <3>2, PruneCounts
        <3>3. CASE ~PruneRun(q)
            <4>1. PruneLeft(q)' = PruneLeft(q)
                BY <1>1, <3>3, OthersKeepTheirCalls, CallsFrame
            <4> QED
                BY <3>1, <3>3, <4>1
        <3> QED
            BY <3>2, <3>3
    <2>4. ASSUME NEW x \in Restores
          PROVE  /\ RestoreLeft(x)' \in 0..RestoreLeft(x)
                 /\ RestoreRun(x) => RestoreLeft(x)' # RestoreLeft(x)
        <3>1. RestoreLeft(x) \in Nat
            BY <1>1, CallsType
        <3>2. CASE RestoreRun(x)
            BY <1>1, <2>1, <3>1, <3>2, RestoreCounts
        <3>3. CASE ~RestoreRun(x)
            <4>1. RestoreLeft(x)' = RestoreLeft(x)
                BY <1>1, <3>3, OthersKeepTheirCalls, CallsFrame
            <4> QED
                BY <3>1, <3>3, <4>1
        <3> QED
            BY <3>2, <3>3
    <2> QED
        BY <2>2, <2>3, <2>4
<1> QED
    BY <1>1, TypeCorrect, WorkIsAlwaysFinite, PTL DEF Spec, CommandsRunOut

\* The whole inductive invariant of the file backup.
THEOREM BackupInvHolds == Spec => []BackupInv
BY TypeCorrect, SafetyHolds, CapturesAreAlwaysRight, PointsAreAlwaysIntact,
   VerdictsAreAlwaysRight, DrillsAreAlwaysRight, WorkIsAlwaysFinite, PTL
DEF BackupInv
=============================================================================
