------------------------ MODULE BackupSystem_proofs ------------------------
(***************************************************************************)
(* Proofs about BackupSystem, for every number of points, objects, source  *)
(* buckets and commands.                                                   *)
(***************************************************************************)
EXTENDS BackupSystem, TLAPS

-----------------------------------------------------------------------------
(* What a run remembers keeps its type under every update the code makes. *)

LEMMA SlotFacts ==
    /\ Objects \subseteq Slots /\ Slots \subseteq Nat
    /\ 1 \in Slots
    /\ \A o \in Objects : o + 1 \in Slots
BY StoreAssumption DEF Objects, Slots

LEMMA BlankType == Blank \in Memory
BY BackupAssumption, StoreAssumption, SlotFacts
   DEF Blank, Memory, NoObjects, Missing, Objects, Buckets, SettingValues

LEMMA SlotType ==
    ASSUME NEW m \in Memory, NEW s \in Slots
    PROVE  [m EXCEPT !.slot = s] \in Memory
BY DEF Memory

LEMMA ListingType ==
    ASSUME NEW m \in Memory, NEW o \in Objects, NEW v \in Nat
    PROVE  [m EXCEPT !.listing[o] = v, !.slot = o + 1] \in Memory
<1>1. o + 1 \in Slots
    BY SlotFacts
<1> QED
    BY <1>1 DEF Memory

LEMMA SeenType ==
    ASSUME NEW m \in Memory, NEW b \in Buckets, NEW s \in SettingValues
    PROVE  [m EXCEPT !.seen[b] = s] \in Memory
BY DEF Memory

LEMMA NextBucketType ==
    ASSUME NEW m \in Memory, m.bucket < NumSources
    PROVE  [m EXCEPT !.bucket = @ + 1] \in Memory
<1>1. m.bucket + 1 \in Buckets
    BY BackupAssumption DEF Memory, Buckets
<1> QED
    BY <1>1 DEF Memory

LEMMA FirstBucketType ==
    ASSUME NEW m \in Memory
    PROVE  [m EXCEPT !.bucket = 1, !.slot = 1] \in Memory
<1>1. 1 \in Buckets
    BY BackupAssumption DEF Buckets
<1> QED
    BY <1>1, SlotFacts DEF Memory

LEMMA DriftType ==
    ASSUME NEW m \in Memory, NEW o \in Objects, NEW differs
    PROVE  [m EXCEPT !.drift = @ \/ differs, !.slot = o + 1] \in Memory
<1> DEFINE d == m.drift \/ differs
<1>1. d \in BOOLEAN
    OBVIOUS
<1>2. [m EXCEPT !.drift = @ \/ differs, !.slot = o + 1]
          = [[m EXCEPT !.drift = d] EXCEPT !.slot = o + 1]
    BY Zenon DEF Memory
<1>3. [m EXCEPT !.drift = d] \in Memory
    <2> HIDE DEF d
    <2> QED
        BY <1>1 DEF Memory
<1>4. o + 1 \in Slots
    BY SlotFacts
<1> HIDE DEF d
<1> QED
    BY <1>2, <1>3, <1>4, SlotType

-----------------------------------------------------------------------------
(* Type correctness. *)

LEMMA InitType == Init => TypeOK
<1> SUFFICES ASSUME Init PROVE TypeOK
    OBVIOUS
<1>0. NoObjects \in [Objects -> Int] /\ NoObjects \in [Objects -> Nat]
    BY DEF NoObjects, Missing
<1>1. StoreTypeOK
    <2>1. clock \in Nat /\ faults \in Nat /\ published \in SUBSET Points
        BY DEF Init, StoreInit
    <2>2. /\ stamp \in [Points -> Int]
          /\ body \in [Points -> [Objects -> Int]]
          /\ entries \in [Points -> [Objects -> Int]]
        BY <1>0 DEF Init, StoreInit
    <2>3. /\ stray \in BOOLEAN
          /\ foreign \in [Points -> BOOLEAN]
          /\ manifest \in [Points -> KeyStates]
          /\ marker \in [Points -> KeyStates]
        BY DEF Init, StoreInit, KeyStates
    <2> QED
        BY <2>1, <2>2, <2>3 DEF StoreTypeOK
<1>2. BackupTypeOK
    <2>1. source \in [Objects -> Nat]
        BY DEF Init, BackupInit, Objects, Missing
    <2>2. version \in Nat /\ changes \in Nat
        BY StoreAssumption DEF Init, BackupInit
    <2>3. settings \in [Buckets -> SettingValues] /\ pc \in [Points -> RunStates]
        BY DEF Init, BackupInit, SettingValues, RunStates
    <2>4. mem \in [Points -> Memory] /\ truth \in [Points -> [Objects -> Nat]]
        BY <1>0, BlankType DEF Init, BackupInit
    <2>5. \A p \in Points : pc[p] = "idle"
        BY DEF Init, BackupInit
    <2> QED
        BY <2>1, <2>2, <2>3, <2>4, <2>5 DEF BackupTypeOK
<1>3. PruneTypeOK
    <2>1. NoJob \in Job
        BY DEF NoJob, Job
    <2> QED
        BY <2>1 DEF Init, PruneInit, PruneTypeOK, PruneStates, InHand
<1>4. RestoreTypeOK
    BY <1>0 DEF Init, RestoreInit, RestoreTypeOK, RestoreStates, Missing
<1> QED
    BY <1>1, <1>2, <1>3, <1>4 DEF TypeOK

LEMMA StartType ==
    ASSUME TypeOK, NEW p \in Points, Start(p), UNCHANGED <<pruneVars, restoreVars>>
    PROVE  TypeOK'
<1> USE DEF TypeOK
<1>1. StoreTypeOK'
    BY StoreAssumption DEF StoreTypeOK, Start, Readings
<1>2. BackupTypeOK'
    BY DEF BackupTypeOK, Start, sourceVars, Goto, RunStates, RunStages
<1>3. PruneTypeOK' /\ RestoreTypeOK'
    BY DEF PruneTypeOK, RestoreTypeOK, pruneVars, restoreVars
<1> QED
    BY <1>1, <1>2, <1>3

\* What a step of a run writes to the bucket.
LEMMA RunStepStoreType ==
    ASSUME TypeOK, NEW p \in Points, RunStep(p) \/ Abandon(p)
    PROVE  StoreTypeOK'
<1> USE DEF TypeOK, StoreTypeOK, storeVars
<1>1. CASE CopyObject(p)
    <2> DEFINE o == mem[p].slot
    <2>1. body' = [body EXCEPT ![p][o] = mem[p].listing[o]]
        BY <1>1 DEF CopyObject
    <2>2. o \in Objects => mem[p].listing[o] \in Int
        BY DEF BackupTypeOK, Memory
    <2> HIDE DEF o
    <2>3. body' \in [Points -> [Objects -> Int]]
        BY <2>1, <2>2
    <2> QED
        BY <1>1, <2>3 DEF CopyObject
<1>2. CASE PutManifest(p)
    <2>1. mem[p].listing \in [Objects -> Int]
        BY DEF BackupTypeOK, Memory
    <2> QED
        BY <1>2, <2>1 DEF PutManifest, KeyStates
<1>3. CASE PutMarker(p)
    BY <1>3 DEF PutMarker, KeyStates
<1>4. CASE UNCHANGED storeVars
    BY <1>4
<1> QED
    BY <1>1, <1>2, <1>3, <1>4
    DEF RunStep, ListObject, ReadSettings, OpenObject, CopyRefused, VerifyCopy,
        FinishCopy, RelistObject, AssertStable, ReadBackManifest, Abandon

\* What it makes of its own memory.
LEMMA RunStepMemoryType ==
    ASSUME TypeOK, NEW p \in Points, RunStep(p) \/ Abandon(p)
    PROVE  BackupTypeOK'
<1> DEFINE Moved(m, s) == /\ Remember(p, m) /\ Goto(p, s)
                          /\ s \in {"store", "verify"} => m.slot \in Objects
<1> SUFFICES /\ \E m \in Memory, s \in RunStates : Moved(m, s)
             /\ \/ UNCHANGED truth
                \/ truth' = [truth EXCEPT ![p] = source]
             /\ UNCHANGED sourceVars
    BY DEF TypeOK, BackupTypeOK, sourceVars, Remember, Goto
<1>0. /\ mem[p] \in Memory /\ pc[p] \in RunStates
      /\ pc[p] \in {"store", "verify"} => mem[p].slot \in Objects
    BY DEF TypeOK, BackupTypeOK
<1>A. UNCHANGED pc => Goto(p, pc[p])
    BY DEF TypeOK, BackupTypeOK, Goto
<1>B. UNCHANGED mem => Remember(p, mem[p])
    BY DEF TypeOK, BackupTypeOK, Remember
<1>C. ASSUME NEW s \in {"complete", "failed"}, End(p, s)
      PROVE  \E m \in Memory, t \in RunStates : Moved(m, t)
    BY <1>C, BlankType DEF End, RunStates
<1>D. ASSUME NEW m \in Memory, NEW s \in RunStates, Remember(p, m), Goto(p, s),
             s \in {"store", "verify"} => m.slot \in Objects
      PROVE  \E n \in Memory, t \in RunStates : Moved(n, t)
    BY <1>D
<1> HIDE DEF Moved
<1> USE DEF RunStates, RunStages
<1>1. CASE ListObject(p)
    <2>1. PICK o \in Objects :
              Remember(p, [mem[p] EXCEPT !.listing[o] = source[o], !.slot = o + 1])
        BY <1>1 DEF ListObject
    <2>2. source[o] \in Nat
        BY DEF TypeOK, BackupTypeOK
    <2>3. [mem[p] EXCEPT !.listing[o] = source[o], !.slot = o + 1] \in Memory
        BY <1>0, <2>2, ListingType
    <2>4. pc[p] \notin {"store", "verify"}
        BY <1>1 DEF ListObject
    <2> QED
        BY <1>0, <1>1, <1>A, <1>D, <2>1, <2>3, <2>4 DEF ListObject
<1>2. ASSUME NEW m \in Memory, NEW s \in {"copy", "manifest"}, NextBucket(p, m, s),
             pc[p] \notin {"store", "verify"}
      PROVE  \E n \in Memory, t \in RunStates : Moved(n, t)
    <2>1. CASE /\ m.bucket < NumSources
               /\ Remember(p, [m EXCEPT !.bucket = @ + 1])
               /\ UNCHANGED pc
        BY <1>0, <1>2, <1>A, <1>D, <2>1, NextBucketType
    <2>2. CASE /\ Remember(p, [m EXCEPT !.bucket = 1, !.slot = 1])
               /\ Goto(p, s)
        BY <1>D, <2>2, FirstBucketType
    <2> QED
        BY <1>2, <2>1, <2>2 DEF NextBucket
<1>3. CASE ReadSettings(p)
    <2>1. mem[p].bucket \in Buckets
        BY <1>0 DEF Memory
    <2>2. settings[mem[p].bucket] \in SettingValues
        BY <2>1 DEF TypeOK, BackupTypeOK
    <2>3. [mem[p] EXCEPT !.seen[mem[p].bucket] = settings[mem[p].bucket]] \in Memory
        BY <1>0, <2>1, <2>2, SeenType
    <2>4. CASE settings[mem[p].bucket] = "versioned"
        BY <1>3, <1>C, <2>4 DEF ReadSettings
    <2>5. CASE settings[mem[p].bucket] # "versioned"
        BY <1>2, <1>3, <2>3, <2>5 DEF ReadSettings
    <2> QED
        BY <1>3, <2>4, <2>5 DEF ReadSettings
<1>4. CASE OpenObject(p)
    <2>1. PICK o \in Objects : Remember(p, [mem[p] EXCEPT !.slot = o])
        BY <1>4 DEF OpenObject
    <2>2. [mem[p] EXCEPT !.slot = o] \in Memory
        BY <1>0, SlotFacts, SlotType
    <2>3. [mem[p] EXCEPT !.slot = o].slot = o
        BY <1>0 DEF Memory
    <2> QED
        BY <1>4, <1>D, <2>1, <2>2, <2>3 DEF OpenObject
<1>5. CASE CopyObject(p)
    BY <1>0, <1>5, <1>B, <1>C, <1>D DEF CopyObject
<1>6. CASE CopyRefused(p)
    BY <1>6, <1>C DEF CopyRefused
<1>7. CASE VerifyCopy(p)
    <2>1. mem[p].slot + 1 \in Slots
        BY <1>0, <1>7, SlotFacts DEF VerifyCopy
    <2>2. [mem[p] EXCEPT !.slot = mem[p].slot + 1] \in Memory
        BY <1>0, <2>1, SlotType
    <2> QED
        BY <1>7, <1>C, <1>D, <2>2 DEF VerifyCopy
<1>8. CASE FinishCopy(p)
    <2>1. [mem[p] EXCEPT !.slot = 1] \in Memory
        BY <1>0, SlotFacts, SlotType
    <2> QED
        BY <1>8, <1>D, <2>1 DEF FinishCopy
<1>9. CASE RelistObject(p)
    <2>1. PICK o \in Objects :
              Remember(p, [mem[p] EXCEPT
                             !.drift = @ \/ source[o] # mem[p].listing[o],
                             !.slot = o + 1])
        BY <1>9 DEF RelistObject
    <2>2. [mem[p] EXCEPT !.drift = @ \/ source[o] # mem[p].listing[o],
                         !.slot = o + 1] \in Memory
        BY <1>0, DriftType
    <2>3. pc[p] \notin {"store", "verify"}
        BY <1>9 DEF RelistObject
    <2> QED
        BY <1>0, <1>9, <1>A, <1>D, <2>1, <2>2, <2>3 DEF RelistObject
<1>10. CASE AssertStable(p)
    <2>1. NextBucket(p, mem[p], "manifest") \/ End(p, "failed")
        BY <1>10 DEF AssertStable
    <2>2. CASE NextBucket(p, mem[p], "manifest")
        BY <1>0, <1>2, <1>10, <2>2 DEF AssertStable
    <2>3. CASE End(p, "failed")
        BY <1>10, <1>C, <2>3 DEF AssertStable
    <2>4. UNCHANGED <<sourceVars, truth>>
        BY <1>10 DEF AssertStable
    <2> QED
        BY <2>1, <2>2, <2>3, <2>4
<1>11. CASE PutManifest(p)
    BY <1>0, <1>11, <1>B, <1>C, <1>D DEF PutManifest
<1>12. CASE ReadBackManifest(p)
    BY <1>0, <1>12, <1>B, <1>C, <1>D DEF ReadBackManifest
<1>13. CASE PutMarker(p)
    BY <1>13, <1>C DEF PutMarker
<1>14. CASE Abandon(p)
    BY <1>14, <1>C DEF Abandon
<1> QED
    BY <1>1, <1>3, <1>4, <1>5, <1>6, <1>7, <1>8, <1>9, <1>10, <1>11, <1>12, <1>13,
       <1>14
    DEF RunStep

LEMMA PruneStoreType ==
    ASSUME TypeOK, NEW q \in Prunes,
           ListPrefixes(q) \/ PruneStep(q) \/ AbandonPrune(q)
    PROVE  StoreTypeOK'
<1> USE DEF TypeOK, StoreTypeOK, storeVars
<1>1. CASE DeleteMarker(q)
    BY <1>1 DEF DeleteMarker, KeyStates
<1>2. CASE DeleteManifest(q)
    BY <1>2 DEF DeleteManifest, KeyStates
<1>3. CASE DeleteBatch(q)
    <2>1. job[q].target \in Points
        BY <1>3 DEF DeleteBatch, PruneTypeOK, InHand
    <2>2. ASSUME NEW p \in Points, NEW gone, Remove(p, gone)
          PROVE  body' \in [Points -> [Objects -> Int]]
        <3>1. [o \in Objects |-> IF o \in gone THEN Missing ELSE body[p][o]]
                  \in [Objects -> Int]
            BY DEF Missing
        <3> QED
            BY <2>2, <3>1 DEF Remove
    <2> QED
        BY <1>3, <2>1, <2>2 DEF DeleteBatch
<1>4. CASE UNCHANGED storeVars
    BY <1>4
<1> QED
    BY <1>1, <1>2, <1>3, <1>4
    DEF PruneStep, ListPrefixes, ReadMarker, ReadManifest, BeginVerify,
        TakePoint, VerifyObject, BeginAudit, AuditKeys, Decide, FinishPrune,
        AbandonPrune

LEMMA PruneJobType ==
    ASSUME TypeOK, NEW q \in Prunes,
           ListPrefixes(q) \/ PruneStep(q) \/ AbandonPrune(q)
    PROVE  PruneTypeOK'
<1> DEFINE Move(s, j) == /\ stage' = [stage EXCEPT ![q] = s]
                         /\ job' = [job EXCEPT ![q] = j]
                         /\ s \in InHand => j.target \in Points
<1>0. job[q] \in Job /\ NoJob \in Job /\ stage[q] \in PruneStates
    BY DEF TypeOK, PruneTypeOK, NoJob, Job
<1> SUFFICES /\ \E s \in PruneStates, j \in Job : Move(s, j)
             /\ \/ UNCHANGED historyVars
                \/ \E S, T \in SUBSET Points :
                       /\ spoiled' = [spoiled EXCEPT ![q] = S]
                       /\ unfinished' = [unfinished EXCEPT ![q] = T]
    BY DEF TypeOK, PruneTypeOK, historyVars
<1>A. ASSUME NEW state \in {"ok", "attention", "failed"}, Stop(q, state)
      PROVE  \E s \in PruneStates, j \in Job : Move(s, j)
    BY <1>0, <1>A DEF Stop, Enter, Recall, PruneStates, InHand
<1>B. ASSUME NEW s \in PruneStates, NEW j \in Job, Enter(q, s), Recall(q, j),
             s \notin InHand \/ j.target \in Points
      PROVE  \E t \in PruneStates, i \in Job : Move(t, i)
    BY <1>B DEF Enter, Recall
<1>C. UNCHANGED stage => Enter(q, stage[q])
    BY DEF Enter, TypeOK, PruneTypeOK
<1>D. UNCHANGED job => Recall(q, job[q])
    BY DEF Recall, TypeOK, PruneTypeOK
<1> HIDE DEF Move
<1> USE DEF PruneStates, PruneStages, Deleting, InHand
<1>1. CASE ListPrefixes(q)
    <2> DEFINE found == {p \in Points : HasKeys(p)}
    <2>1. PICK t \in Readings : Recall(q, [NoJob EXCEPT !.now = t, !.todo = found,
                                                       !.reported = stray])
        BY <1>1 DEF ListPrefixes
    <2>2. t \in Int /\ stray \in BOOLEAN
        BY StoreAssumption DEF Readings, TypeOK, StoreTypeOK
    <2>3. [NoJob EXCEPT !.now = t, !.todo = found, !.reported = stray] \in Job
        BY <1>0, <2>2 DEF Job
    <2> QED
        BY <1>1, <1>B, <2>1, <2>3 DEF ListPrefixes
<1>2. CASE ReadMarker(q)
    <2>1. PICK p \in job[q].todo :
              \/ /\ Recall(q, [job[q] EXCEPT !.todo = @ \ {p}, !.target = p])
                 /\ Enter(q, "manifest")
              \/ /\ Recall(q, [job[q] EXCEPT !.todo = @ \ {p}, !.reported = TRUE])
                 /\ UNCHANGED stage
        BY <1>2 DEF ReadMarker
    <2>2. p \in Points
        BY <1>0 DEF Job
    <2>3. CASE /\ Recall(q, [job[q] EXCEPT !.todo = @ \ {p}, !.target = p])
               /\ Enter(q, "manifest")
        <3>1. /\ [job[q] EXCEPT !.todo = @ \ {p}, !.target = p] \in Job
              /\ [job[q] EXCEPT !.todo = @ \ {p}, !.target = p].target = p
            BY <1>0, <2>2 DEF Job
        <3> QED
            BY <1>2, <1>B, <2>2, <2>3, <3>1 DEF ReadMarker
    <2>4. CASE /\ Recall(q, [job[q] EXCEPT !.todo = @ \ {p}, !.reported = TRUE])
               /\ UNCHANGED stage
        <3>1. [job[q] EXCEPT !.todo = @ \ {p}, !.reported = TRUE] \in Job
            BY <1>0 DEF Job
        <3> QED
            BY <1>0, <1>2, <1>B, <1>C, <2>4, <3>1 DEF ReadMarker
    <2> QED
        BY <2>1, <2>3, <2>4
<1>3. CASE ReadManifest(q)
    <2>1. job[q].target \in Points
        BY <1>3 DEF ReadManifest, TypeOK, PruneTypeOK
    <2>2. /\ [job[q] EXCEPT !.reported = TRUE] \in Job
          /\ [job[q] EXCEPT !.complete = @ \cup {job[q].target}] \in Job
        BY <1>0, <2>1 DEF Job
    <2> QED
        BY <1>3, <1>B, <2>2 DEF ReadManifest
<1>4. CASE BeginVerify(q) \/ BeginAudit(q)
    <2>1. [job[q] EXCEPT !.todo = job[q].complete] \in Job
        BY <1>0 DEF Job
    <2> QED
        BY <1>4, <1>B, <2>1 DEF BeginVerify, BeginAudit
<1>5. CASE TakePoint(q)
    <2>1. PICK p \in job[q].todo :
              Recall(q, [job[q] EXCEPT !.todo = @ \ {p}, !.target = p,
                                       !.left = Listed(p)])
        BY <1>5 DEF TakePoint
    <2>2. [job[q] EXCEPT !.todo = @ \ {p}, !.target = p, !.left = Listed(p)] \in Job
        BY <1>0 DEF Job, Listed
    <2> QED
        BY <1>0, <1>5, <1>B, <1>C, <2>1, <2>2 DEF TakePoint
<1>6. CASE VerifyObject(q)
    <2>1. PICK o : \/ Recall(q, [job[q] EXCEPT !.left = @ \ {o}]) /\ UNCHANGED stage
                   \/ Stop(q, "failed")
        BY <1>6 DEF VerifyObject
    <2>2. [job[q] EXCEPT !.left = @ \ {o}] \in Job
        BY <1>0 DEF Job
    <2>3. stage[q] \notin InHand
        BY <1>6 DEF VerifyObject
    <2>4. UNCHANGED historyVars
        BY <1>6 DEF VerifyObject
    <2> QED
        BY <1>0, <1>A, <1>B, <1>C, <2>1, <2>2, <2>3, <2>4
<1>7. CASE AuditKeys(q)
    <2>1. PICK p \in job[q].todo :
              Recall(q, [job[q] EXCEPT !.todo = @ \ {p},
                                       !.reported = @ \/ ~ExactlyItsKeys(p)])
        BY <1>7 DEF AuditKeys
    <2> DEFINE r == job[q].reported \/ ~ExactlyItsKeys(p)
    <2>2. r \in BOOLEAN
        OBVIOUS
    <2>3. [job[q] EXCEPT !.todo = @ \ {p}, !.reported = @ \/ ~ExactlyItsKeys(p)]
              = [job[q] EXCEPT !.todo = @ \ {p}, !.reported = r]
        BY <1>0, Zenon DEF Job
    <2>4. [job[q] EXCEPT !.todo = @ \ {p}, !.reported = r] \in Job
        <3> HIDE DEF r
        <3> QED
            BY <1>0, <2>2 DEF Job
    <2> QED
        BY <1>0, <1>7, <1>B, <1>C, <2>1, <2>3, <2>4 DEF AuditKeys
<1>8. CASE Decide(q)
    <2>1. Expired(job[q]) \in SUBSET Points
        BY <1>0 DEF Job, Expired
    <2>2. [job[q] EXCEPT !.todo = Expired(job[q])] \in Job
        BY <1>0, <2>1 DEF Job
    <2> QED
        BY <1>8, <1>A, <1>B, <2>2 DEF Decide
<1>9. CASE DeleteMarker(q)
    <2>1. PICK p \in job[q].todo :
              \/ /\ Recall(q, [job[q] EXCEPT !.todo = @ \ {p}, !.target = p,
                                             !.left = Listed(p)])
                 /\ Enter(q, "manifest-key")
              \/ Stop(q, "failed")
        BY <1>9 DEF DeleteMarker
    <2>2. p \in Points
        BY <1>0 DEF Job
    <2> DEFINE j == [job[q] EXCEPT !.todo = @ \ {p}, !.target = p, !.left = Listed(p)]
    <2>3. j \in Job /\ j.target = p
        BY <1>0, <2>2 DEF Job, Listed
    <2>4. UNCHANGED historyVars
        BY <1>9 DEF DeleteMarker
    <2> HIDE DEF j
    <2>5. \/ Recall(q, j) /\ Enter(q, "manifest-key")
          \/ Stop(q, "failed")
        BY <2>1 DEF j
    <2> QED
        BY <1>A, <1>B, <2>2, <2>3, <2>4, <2>5
<1>10. CASE DeleteManifest(q)
    <2>1. job[q].target \in Points
        BY <1>10 DEF DeleteManifest, TypeOK, PruneTypeOK
    <2> QED
        BY <1>0, <1>10, <1>A, <1>B, <1>D, <2>1 DEF DeleteManifest
<1>11. CASE DeleteBatch(q)
    <2>1. job[q].target \in Points
        BY <1>11 DEF DeleteBatch, TypeOK, PruneTypeOK
    <2> DEFINE j == [job[q] EXCEPT !.left = job[q].left \ Batch(job[q])]
    <2>2. j \in Job /\ j.target = job[q].target
        BY <1>0 DEF Job
    <2>3. \/ /\ Recall(q, j)
             /\ \E s \in PruneStates : Enter(q, s)
          \/ Stop(q, "failed")
        BY <1>11 DEF DeleteBatch
    <2>4. UNCHANGED historyVars
        BY <1>11 DEF DeleteBatch
    <2> HIDE DEF j
    <2> QED
        BY <1>A, <1>B, <2>1, <2>2, <2>3, <2>4
<1>12. CASE FinishPrune(q) \/ AbandonPrune(q)
    BY <1>12, <1>A DEF FinishPrune, AbandonPrune
<1> QED
    BY <1>1, <1>2, <1>3, <1>4, <1>5, <1>6, <1>7, <1>8, <1>9, <1>10, <1>11, <1>12
    DEF PruneStep

LEMMA RestoreType ==
    ASSUME TypeOK, NEW x \in Restores,
           StartRestore(x) \/ RestoreStep(x) \/ AbandonRestore(x)
    PROVE  RestoreTypeOK' /\ UNCHANGED storeVars
<1> USE DEF TypeOK, RestoreTypeOK, RestoreStates, RestoreStages, Proceed, Quit,
    PutDown, Missing
<1>1. CASE StartRestore(x)
    BY <1>1 DEF StartRestore
<1>2. CASE LoadMarker(x)
    BY <1>2 DEF LoadMarker
<1>3. CASE LoadManifest(x)
    <2>1. Listed(from[x]) \in SUBSET Objects
        BY DEF Listed
    <2>2. step' \in [Restores -> RestoreStates]
        BY <1>3 DEF LoadManifest
    <2>3. rest' \in [Restores -> SUBSET Objects]
        BY <1>3, <2>1 DEF LoadManifest
    <2>4. UNCHANGED <<storeVars, from, into, drill>>
        BY <1>3 DEF LoadManifest
    <2>5. hand' \in [Restores -> Int]
        BY <1>3 DEF LoadManifest
    <2> QED
        BY <2>2, <2>3, <2>4, <2>5
<1>4. CASE CheckEmpty(x)
    <2>1. CASE drill[into[x]] = NoObjects
        BY <1>4, <2>1 DEF CheckEmpty
    <2>2. CASE drill[into[x]] # NoObjects
        <3>1. Quit(x, "failed") /\ UNCHANGED <<storeVars, from, into, drill>>
            BY <1>4, <2>2 DEF CheckEmpty
        <3> QED
            BY <3>1
    <2> QED
        BY <2>1, <2>2
<1>10. CASE OpenCopy(x)
    <2>1. PICK o \in Objects : hand' = [hand EXCEPT ![x] = body[from[x]][o]]
        BY <1>10 DEF OpenCopy
    <2>2. body[from[x]][o] \in Int
        BY DEF StoreTypeOK
    <2>3. hand' \in [Restores -> Int]
        BY <2>1, <2>2
    <2> QED
        BY <1>10, <2>3 DEF OpenCopy
<1>5. CASE RestoreObject(x)
    <2>1. PICK o \in Objects : drill' = [drill EXCEPT ![into[x]][o] = hand[x]]
        BY <1>5 DEF RestoreObject
    <2>2. drill' \in [Prefixes -> [Objects -> Int]]
        BY <2>1
    <2>3. UNCHANGED <<storeVars, from, into>>
        BY <1>5 DEF RestoreObject
    <2>4. step' \in [Restores -> RestoreStates]
        BY <1>5 DEF RestoreObject
    <2>5. rest' \in [Restores -> SUBSET Objects]
        BY <1>5 DEF RestoreObject
    <2>6. hand' \in [Restores -> Int]
        BY <1>5 DEF RestoreObject
    <2> QED
        BY <2>2, <2>3, <2>4, <2>5, <2>6
<1>6. CASE RestoreRefused(x)
    BY <1>6 DEF RestoreRefused
<1>7. CASE CompareObject(x)
    <2>1. step' \in [Restores -> RestoreStates]
        BY <1>7 DEF CompareObject
    <2>2. rest' \in [Restores -> SUBSET Objects]
        BY <1>7 DEF CompareObject
    <2>3. hand' \in [Restores -> Int]
        BY <1>7 DEF CompareObject
    <2>4. UNCHANGED <<storeVars, from, into, drill>>
        BY <1>7 DEF CompareObject
    <2> QED
        BY <2>1, <2>2, <2>3, <2>4
<1>8. CASE FinishRestore(x)
    BY <1>8 DEF FinishRestore
<1>9. CASE AbandonRestore(x)
    BY <1>9 DEF AbandonRestore
<1> QED
    BY <1>1, <1>2, <1>3, <1>4, <1>5, <1>6, <1>7, <1>8, <1>9, <1>10 DEF RestoreStep

LEMMA WorldType ==
    ASSUME TypeOK, World
    PROVE  TypeOK'
<1> USE DEF TypeOK
<1>1. PruneTypeOK' /\ RestoreTypeOK'
    BY DEF World, PruneTypeOK, RestoreTypeOK, pruneVars, restoreVars
<1>2. CASE Application
    <2>1. StoreTypeOK'
        BY <1>2 DEF Application, StoreTypeOK, storeVars
    <2>2. BackupTypeOK'
        <3> USE <1>2 DEF Application, BackupTypeOK
        <3>1. ASSUME NEW o \in Objects, SourceWrite(o) PROVE BackupTypeOK'
            BY <3>1 DEF SourceWrite
        <3>2. ASSUME NEW o \in Objects, SourceDelete(o) PROVE BackupTypeOK'
            BY <3>2 DEF SourceDelete, Missing
        <3>3. ASSUME NEW b \in Buckets, AlterSettings(b) PROVE BackupTypeOK'
            BY <3>3 DEF AlterSettings
        <3> QED
            BY <3>1, <3>2, <3>3
    <2> QED
        BY <1>1, <2>1, <2>2
<1>3. CASE StoreEnvironment /\ UNCHANGED backupVars
    <2>1. BackupTypeOK'
        BY <1>3 DEF BackupTypeOK, backupVars, sourceVars
    <2>2. StoreTypeOK'
        <3> USE DEF StoreTypeOK
        <3>1. Tick => StoreTypeOK'
            BY DEF Tick
        <3>4. AddStrayKey => StoreTypeOK'
            BY DEF AddStrayKey
        <3>2. ASSUME NEW p \in Points, NEW o \in Objects, DamageCopy(p, o)
              PROVE  StoreTypeOK'
            BY <3>2 DEF DamageCopy, Damaged
        <3>3. ASSUME NEW p \in Points, DamageManifest(p) PROVE StoreTypeOK'
            BY <3>3 DEF DamageManifest, KeyStates
        <3>6. ASSUME NEW p \in Points, DamageMarker(p) PROVE StoreTypeOK'
            BY <3>6 DEF DamageMarker, KeyStates
        <3>5. ASSUME NEW p \in Points, AddForeignKey(p) PROVE StoreTypeOK'
            BY <3>5 DEF AddForeignKey
        <3> QED
            BY <1>3, <3>1, <3>2, <3>3, <3>4, <3>5, <3>6 DEF StoreEnvironment
    <2> QED
        BY <1>1, <2>1, <2>2
<1> QED
    BY <1>2, <1>3 DEF World

LEMMA NextType == TypeOK /\ [Next]_vars => TypeOK'
<1> SUFFICES ASSUME TypeOK, [Next]_vars PROVE TypeOK'
    OBVIOUS
<1>1. ASSUME NEW p \in Points, BackupRun(p) PROVE TypeOK'
    <2>1. CASE Start(p)
        BY <1>1, <2>1, StartType DEF BackupRun
    <2>2. CASE RunStep(p) \/ Abandon(p)
        <3>1. StoreTypeOK' /\ BackupTypeOK'
            BY <2>2, RunStepStoreType, RunStepMemoryType
        <3>2. PruneTypeOK' /\ RestoreTypeOK'
            BY <1>1 DEF BackupRun, TypeOK, PruneTypeOK, RestoreTypeOK, pruneVars,
                        restoreVars
        <3> QED
            BY <3>1, <3>2 DEF TypeOK
    <2> QED
        BY <1>1, <2>1, <2>2 DEF BackupRun
<1>2. ASSUME NEW q \in Prunes, PruneRun(q) PROVE TypeOK'
    <2>1. StoreTypeOK' /\ PruneTypeOK'
        BY <1>2, PruneStoreType, PruneJobType DEF PruneRun
    <2>2. BackupTypeOK' /\ RestoreTypeOK'
        BY <1>2 DEF PruneRun, TypeOK, BackupTypeOK, RestoreTypeOK, backupVars,
                    sourceVars, restoreVars
    <2> QED
        BY <2>1, <2>2 DEF TypeOK
<1>3. ASSUME NEW x \in Restores, RestoreRun(x) PROVE TypeOK'
    <2>1. RestoreTypeOK' /\ UNCHANGED storeVars
        BY <1>3, RestoreType DEF RestoreRun
    <2>2. StoreTypeOK' /\ BackupTypeOK' /\ PruneTypeOK'
        BY <1>3, <2>1 DEF RestoreRun, TypeOK, StoreTypeOK, BackupTypeOK,
                          PruneTypeOK, storeVars, backupVars, sourceVars, pruneVars
    <2> QED
        BY <2>1, <2>2 DEF TypeOK
<1>4. CASE World
    BY <1>4, WorldType
<1>5. CASE UNCHANGED vars
    BY <1>5 DEF vars, TypeOK, StoreTypeOK, BackupTypeOK, PruneTypeOK,
                RestoreTypeOK, storeVars, backupVars, sourceVars, pruneVars,
                restoreVars
<1> QED
    BY <1>1, <1>2, <1>3, <1>4, <1>5 DEF Next

\* Every variable keeps its type, whatever the values of the constants.
THEOREM TypeCorrect == Spec => []TypeOK
BY InitType, NextType, PTL DEF Spec
-----------------------------------------------------------------------------
(* Safety.  Every step either leaves the bucket's certified points as they  *)
(* are, or certifies the point of a run that is honest, or withdraws a      *)
(* superseded one.                                                          *)

LEMMA InitSafe == Init => Safety
<1> SUFFICES ASSUME Init PROVE Safety
    OBVIOUS
<1>1. CertifiedOrSuperseded /\ CertifiedIsEntire
    BY DEF Init, StoreInit, CertifiedOrSuperseded, CertifiedIsEntire, Certified
<1>2. \A p \in Points : RunIsHonest(p)
    BY DEF Init, StoreInit, BackupInit, RunIsHonest
<1>3. \A q \in Prunes : PruneIsRight(q)
    BY DEF Init, PruneInit, PruneIsRight, PruneStages, Deleting, NoJob
<1> QED
    BY <1>1, <1>2, <1>3 DEF Safety

\* A run that takes no step, on a prefix that keeps its keys, stays honest.
LEMMA RunFrame ==
    ASSUME NEW p \in Points, RunIsHonest(p),
           pc'[p] = pc[p], mem'[p] = mem[p], body'[p] = body[p],
           entries'[p] = entries[p],
           manifest[p] # "absent" => manifest'[p] # "absent",
           p \in published' => p \in published
    PROVE  RunIsHonest(p)'
BY DEF RunIsHonest, Holds

\* So does the run of a point that is published: it has ended.
LEMMA EndedRun ==
    ASSUME NEW p \in Points, RunIsHonest(p), p \in published, pc'[p] = pc[p]
    PROVE  RunIsHonest(p)'
<1>1. pc[p] \notin RunStages \cup {"idle"}
    BY DEF RunIsHonest
<1> QED
    BY <1>1 DEF RunIsHonest, RunStages

\* A prune that takes no step stays right while points that it relies on stay
\* superseded and what it withdrew is not certified again.
LEMMA PruneFrame ==
    ASSUME TypeOK, TypeOK', NEW q \in Prunes, PruneIsRight(q),
           stage'[q] = stage[q], job'[q] = job[q], clock <= clock',
           published \subseteq published',
           \A p \in published : /\ stamp'[p] = stamp[p]
                                /\ Superseded(p) => Superseded(p)'
                                /\ ~Certified(p) => ~Certified(p)'
    PROVE  PruneIsRight(q)'
<1>1. job[q] \in Job /\ clock \in Nat /\ clock' \in Nat
    BY DEF TypeOK, PruneTypeOK, StoreTypeOK
<1>2. job[q].now \in Int /\ Skew \in Nat
    BY <1>1, StoreAssumption DEF Job
<1>3. stage[q] \in PruneStages => job'[q].now <= clock' + Skew
    BY <1>1, <1>2 DEF PruneIsRight
<1> QED
    BY <1>3 DEF PruneIsRight

\* Damage aside, a certified point keeps what its prefix holds.
LEMMA EntireFrame ==
    ASSUME CertifiedIsEntire,
           \A p \in Points : Certified(p)' =>
               /\ Certified(p)
               /\ body'[p] = body[p]
               /\ entries'[p] = entries[p]
               /\ manifest[p] # "absent" => manifest'[p] # "absent"
    PROVE  CertifiedIsEntire'
BY DEF CertifiedIsEntire, Certified, Holds

\* A step that certifies and withdraws nothing.
LEMMA CalmStep ==
    ASSUME TypeOK, TypeOK', Safety, clock <= clock', stamp' = stamp,
           published' = published,
           \A p \in Points : Certified(p)' <=> Certified(p)
    PROVE  /\ CertifiedOrSuperseded'
           /\ \A q \in Prunes :
                  stage'[q] = stage[q] /\ job'[q] = job[q] => PruneIsRight(q)'
<1>1. \A p \in Points : Superseded(p)' <=> Superseded(p)
    BY DEF Superseded
<1>2. CertifiedOrSuperseded'
    BY <1>1 DEF Safety, CertifiedOrSuperseded
<1>3. ASSUME NEW q \in Prunes, stage'[q] = stage[q], job'[q] = job[q]
      PROVE  PruneIsRight(q)'
    <2>1. PruneIsRight(q) /\ published \subseteq Points
        BY DEF Safety, TypeOK, StoreTypeOK
    <2> QED
        BY <1>1, <1>3, <2>1, PruneFrame
<1> QED
    BY <1>2, <1>3

\* The same, when the bucket is left alone.
LEMMA QuietStep ==
    ASSUME TypeOK, TypeOK', Safety, UNCHANGED storeVars
    PROVE  /\ CertifiedOrSuperseded'
           /\ CertifiedIsEntire'
           /\ \A p \in Points :
                  pc'[p] = pc[p] /\ mem'[p] = mem[p] => RunIsHonest(p)'
           /\ \A q \in Prunes :
                  stage'[q] = stage[q] /\ job'[q] = job[q] => PruneIsRight(q)'
<1>1. clock <= clock'
    BY DEF storeVars, TypeOK, StoreTypeOK
<1>2. \A p \in Points : Certified(p)' <=> Certified(p)
    BY DEF storeVars, Certified
<1>3. CertifiedIsEntire'
    BY <1>2, EntireFrame DEF Safety, storeVars
<1>4. ASSUME NEW p \in Points, pc'[p] = pc[p], mem'[p] = mem[p]
      PROVE  RunIsHonest(p)'
    BY <1>4, RunFrame DEF Safety, storeVars
<1> QED
    BY <1>1, <1>2, <1>3, <1>4, CalmStep DEF storeVars

\* The steps of a run that only change what it remembers.
LEMMA RunMemorySafe ==
    ASSUME TypeOK, Safety, NEW p \in Points, UNCHANGED storeVars,
           \/ ListObject(p) \/ ReadSettings(p) \/ OpenObject(p)
           \/ CopyRefused(p) \/ VerifyCopy(p) \/ FinishCopy(p)
           \/ RelistObject(p) \/ AssertStable(p) \/ ReadBackManifest(p)
           \/ Abandon(p)
    PROVE  RunIsHonest(p)'
<1> DEFINE m == mem[p]
<1>0. /\ RunIsHonest(p)
      /\ m \in Memory /\ pc[p] \in RunStates /\ m.slot \in Nat
      /\ body[p] \in [Objects -> Int]
    BY SlotFacts DEF Safety, TypeOK, BackupTypeOK, StoreTypeOK, Memory
<1>1. \A o \in Objects : \A v : Holds(p, o, v)' <=> Holds(p, o, v)
    BY DEF storeVars, Holds
<1>2. /\ body' = body /\ entries' = entries /\ manifest' = manifest
      /\ published' = published
    BY DEF storeVars
<1>3. ASSUME pc'[p] \in {"failed", "complete"} PROVE RunIsHonest(p)'
    BY <1>3 DEF RunIsHonest, RunStages
<1>4. ASSUME NEW st, Goto(p, st) PROVE pc'[p] = st
    BY <1>4 DEF Goto, TypeOK, BackupTypeOK
<1>5. ASSUME NEW n, Remember(p, n) PROVE mem'[p] = n
    BY <1>5 DEF Remember, TypeOK, BackupTypeOK
<1>6. ASSUME End(p, "failed") PROVE RunIsHonest(p)'
    BY <1>3, <1>4, <1>6 DEF End
<1>7. CASE ListObject(p)
    <2>1. pc'[p] = "inventory" /\ pc[p] = "inventory"
        BY <1>7 DEF ListObject
    <2> QED
        BY <1>0, <1>1, <1>2, <2>1 DEF RunIsHonest
<1>8. CASE ReadSettings(p)
    <2>1. pc[p] = "inventory" /\ (\A o \in Objects : Holds(p, o, Missing))
          /\ p \notin published
        BY <1>0, <1>8 DEF ReadSettings, RunIsHonest, RunStages
    <2>2. CASE settings[m.bucket] = "versioned"
        BY <1>6, <1>8, <2>2 DEF ReadSettings
    <2>3. CASE settings[m.bucket] # "versioned"
        <3> DEFINE n == [m EXCEPT !.seen[m.bucket] = settings[m.bucket]]
        <3>1. NextBucket(p, n, "copy")
            BY <1>8, <2>3 DEF ReadSettings
        <3>2. n \in Memory
            <4>1. m.bucket \in Buckets
                BY <1>0 DEF Memory
            <4>2. settings[m.bucket] \in SettingValues
                BY <4>1 DEF TypeOK, BackupTypeOK
            <4> QED
                BY <1>0, <4>1, <4>2, SeenType
        <3> HIDE DEF n
        <3>3. \/ pc'[p] = "inventory"
              \/ /\ pc'[p] = "copy"
                 /\ mem'[p].slot = 1
            <4>1. CASE UNCHANGED pc
                BY <2>1, <4>1
            <4>2. CASE Goto(p, "copy") /\ Remember(p, [n EXCEPT !.bucket = 1, !.slot = 1])
                <5>1. [n EXCEPT !.bucket = 1, !.slot = 1].slot = 1
                    BY <3>2 DEF Memory
                <5> QED
                    BY <1>4, <1>5, <4>2, <5>1
            <4> QED
                BY <3>1, <4>1, <4>2 DEF NextBucket
        <3>4. CASE pc'[p] = "inventory"
            BY <1>1, <1>2, <2>1, <3>4 DEF RunIsHonest
        <3>5. CASE pc'[p] = "copy" /\ mem'[p].slot = 1
            <4>1. \A o \in Objects : ~(o < mem'[p].slot)
                BY <3>5 DEF Objects
            <4> QED
                BY <1>1, <1>2, <2>1, <3>5, <4>1 DEF RunIsHonest
        <3> QED
            BY <3>3, <3>4, <3>5
    <2> QED
        BY <2>2, <2>3
<1>15. CASE OpenObject(p)
    <2>1. PICK o \in Objects :
              /\ IsFirst(o, Uncopied(p))
              /\ Remember(p, [m EXCEPT !.slot = o])
        BY <1>15 DEF OpenObject
    <2>2. pc[p] = "copy" /\ pc'[p] = "store" /\ p \notin published
        BY <1>0, <1>4, <1>15 DEF OpenObject, RunIsHonest, RunStages
    <2>3. mem'[p].slot = o /\ mem'[p].listing = m.listing
        BY <1>0, <1>5, <2>1 DEF Memory
    <2>4. ASSUME NEW r \in Objects
          PROVE  Holds(p, r, IF r < o THEN m.listing[r] ELSE Missing)
        <3>1. Holds(p, r, IF r < m.slot THEN m.listing[r] ELSE Missing)
            BY <1>0, <2>2 DEF RunIsHonest
        <3>2. r < o /\ ~(r < m.slot) => m.listing[r] = Missing
            BY <1>0, <2>1 DEF IsFirst, Uncopied, Objects
        <3>3. m.slot <= o
            BY <2>1 DEF IsFirst, Uncopied
        <3>4. (IF r < m.slot THEN m.listing[r] ELSE Missing)
                  = (IF r < o THEN m.listing[r] ELSE Missing)
            BY <1>0, <3>2, <3>3 DEF Objects
        <3> QED
            BY <3>1, <3>4
    <2> QED
        BY <1>1, <1>2, <2>2, <2>3, <2>4 DEF RunIsHonest
<1>9. CASE CopyRefused(p) \/ Abandon(p)
    BY <1>6, <1>9 DEF CopyRefused, Abandon
<1>10. CASE VerifyCopy(p)
    <2>1. pc[p] = "verify" /\ p \notin published
        BY <1>0, <1>10 DEF VerifyCopy, RunIsHonest, RunStages
    <2>2. CASE Goto(p, "copy") /\ Remember(p, [m EXCEPT !.slot = m.slot + 1])
        <3>1. /\ pc'[p] = "copy"
              /\ mem'[p].slot = m.slot + 1
              /\ mem'[p].listing = m.listing
            BY <1>0, <1>4, <1>5, <2>2 DEF Memory
        <3>2. \A o \in Objects : o < m.slot + 1 <=> o <= m.slot
            BY <1>0 DEF Objects
        <3> QED
            BY <1>0, <1>1, <1>2, <2>1, <3>1, <3>2 DEF RunIsHonest
    <2> QED
        BY <1>6, <1>10, <2>2 DEF VerifyCopy
<1>11. CASE FinishCopy(p)
    <2>1. pc[p] = "copy" /\ p \notin published
        BY <1>0, <1>11 DEF FinishCopy, RunIsHonest, RunStages
    <2>2. \A o \in Objects : o < m.slot \/ m.listing[o] = Missing
        BY <1>0, <1>11 DEF FinishCopy, Uncopied, Objects
    <2>3. pc'[p] = "recheck" /\ mem'[p].listing = m.listing
        BY <1>0, <1>4, <1>5, <1>11 DEF FinishCopy, Memory
    <2>4. \A o \in Objects : Holds(p, o, m.listing[o])
        BY <1>0, <2>1, <2>2 DEF RunIsHonest
    <2> QED
        BY <1>1, <1>2, <2>1, <2>3, <2>4 DEF RunIsHonest
<1>12. CASE RelistObject(p)
    <2>1. PICK o \in Objects :
              Remember(p, [m EXCEPT !.drift = @ \/ source[o] # m.listing[o],
                                    !.slot = o + 1])
        BY <1>12 DEF RelistObject
    <2>2. [m EXCEPT !.drift = @ \/ source[o] # m.listing[o],
                    !.slot = o + 1].listing = m.listing
        BY <1>0, Zenon DEF Memory
    <2>3. mem'[p].listing = m.listing
        BY <1>5, <2>1, <2>2
    <2>4. pc'[p] = "recheck" /\ pc[p] = "recheck"
        BY <1>12 DEF RelistObject
    <2> QED
        BY <1>0, <1>1, <1>2, <2>3, <2>4 DEF RunIsHonest
<1>13. CASE AssertStable(p)
    <2>1. pc[p] = "recheck" /\ p \notin published
          /\ (\A o \in Objects : Holds(p, o, m.listing[o]))
        BY <1>0, <1>13 DEF AssertStable, RunIsHonest, RunStages
    <2>2. CASE NextBucket(p, m, "manifest")
        <3>1. pc'[p] \in {"recheck", "manifest"}
            BY <1>4, <2>1, <2>2 DEF NextBucket
        <3>2. mem'[p].listing = m.listing
            <4>1. /\ [m EXCEPT !.bucket = @ + 1].listing = m.listing
                  /\ [m EXCEPT !.bucket = 1, !.slot = 1].listing = m.listing
                BY <1>0 DEF Memory
            <4> QED
                BY <1>5, <2>2, <4>1 DEF NextBucket
        <3> QED
            BY <1>1, <1>2, <2>1, <3>1, <3>2 DEF RunIsHonest
    <2> QED
        BY <1>6, <1>13, <2>2 DEF AssertStable
<1>14. CASE ReadBackManifest(p)
    <2>1. CASE Goto(p, "marker") /\ UNCHANGED mem
        <3>1. pc'[p] = "marker" /\ pc[p] = "readback"
            BY <1>4, <1>14, <2>1 DEF ReadBackManifest
        <3> QED
            BY <1>0, <1>1, <1>2, <3>1 DEF RunIsHonest, RunStages
    <2> QED
        BY <1>6, <1>14, <2>1 DEF ReadBackManifest
<1> QED
    BY <1>7, <1>8, <1>9, <1>10, <1>11, <1>12, <1>13, <1>14, <1>15

\* A run that starts takes an identity that no certified point has.
LEMMA StartSafe ==
    ASSUME TypeOK, TypeOK', Safety, NEW p \in Points, Start(p),
           UNCHANGED pruneVars
    PROVE  Safety'
<1> USE DEF Start, sourceVars
<1>0. p \notin published /\ RunIsHonest(p)
    BY DEF Safety, RunIsHonest
<1>1. /\ \A r \in Points : r # p => stamp'[r] = stamp[r]
      /\ \A r \in published : r \in Points /\ r # p
      /\ \A r \in Points : Certified(r)' <=> Certified(r)
      /\ \A r \in Points : Certified(r) => r \in published
    BY <1>0 DEF TypeOK, StoreTypeOK, Certified, Safety, CertifiedOrSuperseded
<1>2. \A r \in published : Superseded(r) => Superseded(r)'
    BY <1>1 DEF Superseded
<1>3. CertifiedOrSuperseded'
    BY <1>1, <1>2 DEF Safety, CertifiedOrSuperseded
<1>4. CertifiedIsEntire'
    BY <1>1, EntireFrame DEF Safety
<1>5. ASSUME NEW r \in Points PROVE RunIsHonest(r)'
    <2>1. CASE r = p
        <3>1. pc'[p] = "inventory"
            BY DEF Goto, TypeOK, BackupTypeOK
        <3>2. \A o \in Objects : Holds(p, o, Missing)'
            BY DEF HasKeys, Stored, Holds
        <3> QED
            BY <1>0, <2>1, <3>1, <3>2 DEF RunIsHonest
    <2>2. CASE r # p
        <3>1. pc'[r] = pc[r]
            BY <2>2 DEF Goto, TypeOK, BackupTypeOK
        <3> QED
            BY <3>1, RunFrame DEF Safety
    <2> QED
        BY <2>1, <2>2
<1>6. ASSUME NEW q \in Prunes PROVE PruneIsRight(q)'
    <2>1. clock <= clock'
        BY DEF TypeOK, StoreTypeOK
    <2> QED
        BY <1>1, <1>2, <2>1, PruneFrame DEF Safety, pruneVars
<1> QED
    BY <1>3, <1>4, <1>5, <1>6 DEF Safety

\* The run of another point is not disturbed by what a run stores.
LEMMA OtherRun ==
    ASSUME TypeOK, Safety, NEW p \in Points, RunStep(p),
           NEW r \in Points, r # p
    PROVE  RunIsHonest(r)'
<1> USE DEF TypeOK, StoreTypeOK, BackupTypeOK
<1>1. \A st : Goto(p, st) => pc'[r] = pc[r]
    BY DEF Goto
<1>2. \A m : Remember(p, m) => mem'[r] = mem[r]
    BY DEF Remember
<1>3. CASE CopyObject(p)
    <2>1. pc'[r] = pc[r] /\ mem'[r] = mem[r] /\ body'[r] = body[r]
        BY <1>1, <1>2, <1>3 DEF CopyObject, End
    <2> QED
        BY <1>3, <2>1, RunFrame DEF CopyObject, Safety
<1>4. CASE PutManifest(p)
    <2>1. pc'[r] = pc[r] /\ mem'[r] = mem[r] /\ entries'[r] = entries[r]
          /\ manifest'[r] = manifest[r]
        BY <1>1, <1>2, <1>4 DEF PutManifest, End
    <2> QED
        BY <1>4, <2>1, RunFrame DEF PutManifest, Safety
<1>5. CASE PutMarker(p)
    <2>1. pc'[r] = pc[r] /\ mem'[r] = mem[r] /\ (r \in published' => r \in published)
        BY <1>1, <1>2, <1>5 DEF PutMarker, End
    <2> QED
        BY <1>5, <2>1, RunFrame DEF PutMarker, Safety
<1>6. CASE UNCHANGED storeVars
    <2>1. pc'[r] = pc[r] /\ mem'[r] = mem[r]
        BY <1>1, <1>2, <1>6
        DEF RunStep, ListObject, ReadSettings, OpenObject, CopyRefused,
            VerifyCopy, FinishCopy, RelistObject, AssertStable, ReadBackManifest, End,
            NextBucket, CopyObject, PutManifest, PutMarker
    <2> QED
        BY <1>6, <2>1, RunFrame DEF Safety, storeVars
<1> QED
    BY <1>3, <1>4, <1>5, <1>6
    DEF RunStep, ListObject, ReadSettings, OpenObject, CopyRefused, VerifyCopy,
        FinishCopy, RelistObject, AssertStable, ReadBackManifest

LEMMA CopyObjectSafe ==
    ASSUME TypeOK, TypeOK', Safety, NEW p \in Points, CopyObject(p),
           UNCHANGED pruneVars
    PROVE  Safety'
<1> USE DEF CopyObject
<1>0. /\ RunIsHonest(p) /\ pc[p] = "store" /\ p \notin published
      /\ mem[p] \in Memory /\ mem[p].slot \in Nat
    BY SlotFacts DEF Safety, RunIsHonest, RunStages, TypeOK, BackupTypeOK, Memory
<1>1. \A r \in Points : Certified(r)' <=> Certified(r)
    BY DEF Certified
<1>2. \A r \in Points : Certified(r) => r # p
    BY <1>0 DEF Safety, CertifiedOrSuperseded
<1>3. \A r \in Points : r # p => body'[r] = body[r]
    BY DEF TypeOK, StoreTypeOK
<1>4. CertifiedIsEntire'
    BY <1>1, <1>2, <1>3, EntireFrame DEF Safety
<1>5. clock <= clock'
    BY DEF TypeOK, StoreTypeOK
<1>6. CertifiedOrSuperseded' /\ \A q \in Prunes : PruneIsRight(q)'
    BY <1>1, <1>5, CalmStep DEF pruneVars
<1>7. RunIsHonest(p)'
    <2> DEFINE o == mem[p].slot
    <2>1. body' = [body EXCEPT ![p][o] = mem[p].listing[o]]
        OBVIOUS
    <2>2. CASE End(p, "failed")
        <3>1. pc'[p] = "failed"
            BY <2>2 DEF End, Goto, TypeOK, BackupTypeOK
        <3> QED
            BY <3>1 DEF RunIsHonest, RunStages
    <2>3. CASE Goto(p, "verify") /\ UNCHANGED mem
        <3>1. pc'[p] = "verify"
            BY <2>3 DEF Goto, TypeOK, BackupTypeOK
        <3>2. ASSUME NEW r \in Objects
              PROVE  Holds(p, r, IF r <= o THEN mem[p].listing[r] ELSE Missing)'
            <4>1. CASE r = o
                <5>1. body'[p][r] = mem[p].listing[r]
                    BY <2>1, <4>1 DEF TypeOK, StoreTypeOK
                <5> QED
                    BY <2>3, <4>1, <5>1 DEF Holds, Objects
            <4>2. CASE r # o
                <5>1. body'[p][r] = body[p][r]
                    BY <2>1, <4>2 DEF TypeOK, StoreTypeOK
                <5>2. r <= o <=> r < o
                    BY <1>0, <4>2 DEF Objects
                <5>3. Holds(p, r, IF r < o THEN mem[p].listing[r] ELSE Missing)
                    BY <1>0 DEF RunIsHonest
                <5> QED
                    BY <2>3, <5>1, <5>2, <5>3 DEF Holds
            <4> QED
                BY <4>1, <4>2
        <3> QED
            BY <1>0, <2>3, <3>1, <3>2 DEF RunIsHonest
    <2> QED
        BY <2>2, <2>3
<1>8. \A r \in Points : r # p => RunIsHonest(r)'
    BY OtherRun DEF RunStep
<1> QED
    BY <1>4, <1>6, <1>7, <1>8 DEF Safety

LEMMA PutManifestSafe ==
    ASSUME TypeOK, TypeOK', Safety, NEW p \in Points, PutManifest(p),
           UNCHANGED pruneVars
    PROVE  Safety'
<1> USE DEF PutManifest
<1>0. RunIsHonest(p) /\ pc[p] = "manifest" /\ p \notin published
    BY DEF Safety, RunIsHonest, RunStages
<1>1. \A r \in Points : Certified(r)' <=> Certified(r)
    BY DEF Certified
<1>2. \A r \in Points : Certified(r) => r # p
    BY <1>0 DEF Safety, CertifiedOrSuperseded
<1>3. \A r \in Points : r # p => entries'[r] = entries[r] /\ manifest'[r] = manifest[r]
    BY DEF TypeOK, StoreTypeOK
<1>4. CertifiedIsEntire'
    BY <1>1, <1>2, <1>3, EntireFrame DEF Safety
<1>5. clock <= clock'
    BY DEF TypeOK, StoreTypeOK
<1>6. CertifiedOrSuperseded' /\ \A q \in Prunes : PruneIsRight(q)'
    BY <1>1, <1>5, CalmStep DEF pruneVars
<1>7. RunIsHonest(p)'
    <2>1. manifest'[p] = "whole" /\ entries'[p] = mem[p].listing
        BY DEF TypeOK, StoreTypeOK
    <2>2. pc'[p] \in {"readback", "failed"}
        BY DEF End, Goto, TypeOK, BackupTypeOK
    <2>3. \A o \in Objects : Holds(p, o, mem[p].listing[o])
        BY <1>0 DEF RunIsHonest
    <2>4. \A o \in Objects : Holds(p, o, entries[p][o])'
        BY <2>1, <2>3 DEF Holds
    <2> QED
        BY <1>0, <2>1, <2>2, <2>4 DEF RunIsHonest, RunStages
<1>8. \A r \in Points : r # p => RunIsHonest(r)'
    BY OtherRun DEF RunStep
<1> QED
    BY <1>4, <1>6, <1>7, <1>8 DEF Safety

LEMMA PutMarkerSafe ==
    ASSUME TypeOK, TypeOK', Safety, NEW p \in Points, PutMarker(p),
           UNCHANGED pruneVars
    PROVE  Safety'
<1> USE DEF PutMarker
<1>0. RunIsHonest(p) /\ pc[p] = "marker" /\ p \notin published
    BY DEF Safety, RunIsHonest, RunStages
<1>1. /\ Certified(p)'
      /\ \A r \in Points : r # p => (Certified(r)' <=> Certified(r))
    BY DEF Certified, TypeOK, StoreTypeOK
<1>2. \A r \in Points : Superseded(r) => Superseded(r)'
    BY <1>1 DEF Superseded
<1>3. CertifiedOrSuperseded'
    BY <1>1, <1>2 DEF Safety, CertifiedOrSuperseded
<1>4. CertifiedIsEntire'
    <2>1. \A o \in Objects : Holds(p, o, entries[p][o])
        BY <1>0 DEF RunIsHonest
    <2>2. manifest[p] # "absent"
        BY <1>0 DEF RunIsHonest
    <2> QED
        BY <1>1, <2>1, <2>2 DEF Safety, CertifiedIsEntire, Certified, Holds
<1>5. ASSUME NEW q \in Prunes PROVE PruneIsRight(q)'
    <2>1. clock <= clock'
        BY DEF TypeOK, StoreTypeOK
    <2>2. \A r \in published : r \in Points /\ r # p
        BY <1>0 DEF TypeOK, StoreTypeOK
    <2> QED
        BY <1>1, <1>2, <2>1, <2>2, PruneFrame DEF Safety, pruneVars
<1>6. RunIsHonest(p)'
    <2>1. pc'[p] \in {"complete", "failed"}
        BY DEF End, Goto, TypeOK, BackupTypeOK
    <2> QED
        BY <2>1 DEF RunIsHonest, RunStages
<1>7. \A r \in Points : r # p => RunIsHonest(r)'
    BY OtherRun DEF RunStep
<1> QED
    BY <1>3, <1>4, <1>5, <1>6, <1>7 DEF Safety

LEMMA BackupRunSafe ==
    ASSUME TypeOK, TypeOK', Safety, NEW p \in Points, BackupRun(p)
    PROVE  Safety'
<1> USE DEF BackupRun
<1>1. CASE Start(p)
    BY <1>1, StartSafe
<1>2. CASE CopyObject(p)
    BY <1>2, CopyObjectSafe
<1>3. CASE PutManifest(p)
    BY <1>3, PutManifestSafe
<1>4. CASE PutMarker(p)
    BY <1>4, PutMarkerSafe
<1>5. CASE \/ ListObject(p) \/ ReadSettings(p) \/ OpenObject(p)
           \/ CopyRefused(p) \/ VerifyCopy(p) \/ FinishCopy(p)
           \/ RelistObject(p) \/ AssertStable(p) \/ ReadBackManifest(p)
           \/ Abandon(p)
    <2>1. UNCHANGED storeVars
        BY <1>5 DEF ListObject, ReadSettings, OpenObject, CopyRefused,
            VerifyCopy, FinishCopy, RelistObject, AssertStable, ReadBackManifest, Abandon
    <2>2. RunIsHonest(p)'
        BY <1>5, <2>1, RunMemorySafe
    <2>3. ASSUME NEW r \in Points, r # p PROVE RunIsHonest(r)'
        <3>1. CASE Abandon(p)
            <4>1. pc'[r] = pc[r] /\ mem'[r] = mem[r]
                BY <2>3, <3>1 DEF Abandon, End, Goto, Remember, TypeOK, BackupTypeOK
            <4> QED
                BY <2>1, <4>1, QuietStep
        <3>2. CASE ~Abandon(p)
            BY <1>5, <2>3, <3>2, OtherRun DEF RunStep
        <3> QED
            BY <3>1, <3>2
    <2>4. \A q \in Prunes : PruneIsRight(q)'
        BY <2>1, QuietStep DEF pruneVars
    <2> QED
        BY <2>1, <2>2, <2>3, <2>4, QuietStep DEF Safety
<1> QED
    BY <1>1, <1>2, <1>3, <1>4, <1>5 DEF RunStep

\* The steps of a prune that delete nothing.
LEMMA PruneReadSafe ==
    ASSUME TypeOK, TypeOK', Safety, NEW q \in Prunes, UNCHANGED storeVars,
           \/ ListPrefixes(q) \/ ReadMarker(q) \/ ReadManifest(q)
           \/ BeginVerify(q)  \/ TakePoint(q)  \/ VerifyObject(q)
           \/ BeginAudit(q)   \/ AuditKeys(q)  \/ Decide(q)
           \/ FinishPrune(q)  \/ AbandonPrune(q)
    PROVE  PruneIsRight(q)'
<1> DEFINE j == job[q]
<1> USE DEF PruneStages, Deleting
<1>0. /\ PruneIsRight(q) /\ j \in Job /\ NoJob \in Job
      /\ clock \in Nat /\ Skew \in Nat /\ j.now \in Int
    BY StoreAssumption DEF Safety, TypeOK, PruneTypeOK, StoreTypeOK, NoJob, Job
<1>1. /\ clock' = clock /\ stamp' = stamp /\ published' = published
      /\ \A p \in Points : /\ Superseded(p)' <=> Superseded(p)
                           /\ Certified(p)' <=> Certified(p)
    BY DEF storeVars, Superseded, Certified
<1>2. ASSUME NEW st, Enter(q, st) PROVE stage'[q] = st
    BY <1>2 DEF Enter, TypeOK, PruneTypeOK
<1>3. ASSUME NEW i, Recall(q, i) PROVE job'[q] = i
    BY <1>3 DEF Recall, TypeOK, PruneTypeOK
<1>4. ASSUME NEW st \in {"ok", "attention", "failed"}, Stop(q, st)
      PROVE  PruneIsRight(q)'
    <2>1. stage'[q] = st /\ job'[q] = NoJob
        BY <1>2, <1>3, <1>4 DEF Stop
    <2> QED
        BY <2>1 DEF PruneIsRight, NoJob
\* A stage before the deletion that keeps the loaded points and the clock.
<1>5. ASSUME stage[q] \in {"marker", "manifest", "verify", "audit"},
             stage'[q] \in {"marker", "verify", "audit"},
             job'[q].complete = j.complete, job'[q].now = j.now
      PROVE  PruneIsRight(q)'
    BY <1>0, <1>1, <1>5 DEF PruneIsRight
<1>6. CASE ListPrefixes(q)
    <2> DEFINE found == {p \in Points : HasKeys(p)}
    <2>1. PICK t \in Readings : Recall(q, [NoJob EXCEPT !.now = t, !.todo = found,
                                                       !.reported = stray])
        BY <1>6 DEF ListPrefixes
    <2>2. t <= clock + Skew
        BY <1>0 DEF Readings
    <2>3. job'[q].complete = {} /\ job'[q].now = t
        BY <1>3, <2>1 DEF NoJob
    <2>4. stage'[q] = "marker"
        BY <1>2, <1>6 DEF ListPrefixes
    <2> QED
        BY <1>1, <2>2, <2>3, <2>4 DEF PruneIsRight
<1>7. CASE ReadMarker(q)
    <2>1. PICK p \in j.todo :
              \/ /\ marker[p] = "whole"
                 /\ Recall(q, [j EXCEPT !.todo = @ \ {p}, !.target = p])
                 /\ Enter(q, "manifest")
              \/ /\ Recall(q, [j EXCEPT !.todo = @ \ {p}, !.reported = TRUE])
                 /\ UNCHANGED stage
        BY <1>7 DEF ReadMarker
    <2>2. CASE /\ marker[p] = "whole"
               /\ Recall(q, [j EXCEPT !.todo = @ \ {p}, !.target = p])
               /\ Enter(q, "manifest")
        <3>1. p \in published
            BY <1>0, <2>2 DEF Job, Safety, CertifiedOrSuperseded, Certified
        <3>2. /\ job'[q].complete = j.complete /\ job'[q].now = j.now
              /\ job'[q].target = p /\ stage'[q] = "manifest"
            BY <1>0, <1>2, <1>3, <2>2 DEF Job
        <3>3. stage[q] = "marker"
            BY <1>7 DEF ReadMarker
        <3> QED
            BY <1>0, <1>1, <3>1, <3>2, <3>3 DEF PruneIsRight
    <2>3. CASE /\ Recall(q, [j EXCEPT !.todo = @ \ {p}, !.reported = TRUE])
               /\ UNCHANGED stage
        <3>1. job'[q].complete = j.complete /\ job'[q].now = j.now
            BY <1>0, <1>3, <2>3 DEF Job
        <3> QED
            BY <1>5, <1>7, <2>3, <3>1 DEF ReadMarker
    <2> QED
        BY <2>1, <2>2, <2>3
<1>8. CASE ReadManifest(q)
    <2>1. stage[q] = "manifest" /\ stage'[q] = "marker"
        BY <1>2, <1>8 DEF ReadManifest
    <2>2. j.target \in published
        BY <1>0, <2>1 DEF PruneIsRight
    <2>3. /\ job'[q].complete \in {j.complete, j.complete \cup {j.target}}
          /\ job'[q].now = j.now
        BY <1>0, <1>3, <1>8 DEF ReadManifest, Job
    <2> QED
        BY <1>0, <1>1, <2>1, <2>2, <2>3 DEF PruneIsRight
<1>9. CASE BeginVerify(q) \/ BeginAudit(q)
    <2>1. job'[q].complete = j.complete /\ job'[q].now = j.now
        BY <1>0, <1>3, <1>9 DEF BeginVerify, BeginAudit, Job
    <2> QED
        BY <1>2, <1>5, <1>9, <2>1 DEF BeginVerify, BeginAudit
<1>10. CASE TakePoint(q)
    <2>1. job'[q].complete = j.complete /\ job'[q].now = j.now
        BY <1>0, <1>3, <1>10 DEF TakePoint, Job
    <2> QED
        BY <1>5, <1>10, <2>1 DEF TakePoint
<1>11. CASE VerifyObject(q)
    <2>1. PICK o : \/ Recall(q, [j EXCEPT !.left = @ \ {o}]) /\ UNCHANGED stage
                   \/ Stop(q, "failed")
        BY <1>11 DEF VerifyObject
    <2>2. [j EXCEPT !.left = @ \ {o}].complete = j.complete
          /\ [j EXCEPT !.left = @ \ {o}].now = j.now
        BY <1>0 DEF Job
    <2>3. stage[q] = "verify"
        BY <1>11 DEF VerifyObject
    <2> QED
        BY <1>3, <1>4, <1>5, <2>1, <2>2, <2>3
<1>12. CASE AuditKeys(q)
    <2>1. PICK p \in j.todo :
              Recall(q, [j EXCEPT !.todo = @ \ {p},
                                  !.reported = @ \/ ~ExactlyItsKeys(p)])
        BY <1>12 DEF AuditKeys
    <2>2. /\ [j EXCEPT !.todo = @ \ {p}, !.reported = @ \/ ~ExactlyItsKeys(p)].complete
                 = j.complete
          /\ [j EXCEPT !.todo = @ \ {p}, !.reported = @ \/ ~ExactlyItsKeys(p)].now
                 = j.now
        BY <1>0, Zenon DEF Job
    <2>3. job'[q].complete = j.complete /\ job'[q].now = j.now
        BY <1>3, <2>1, <2>2
    <2> QED
        BY <1>5, <1>12, <2>3 DEF AuditKeys
<1>13. CASE Decide(q)
    <2>1. CASE j.reported
        BY <1>4, <1>13, <2>1 DEF Decide
    <2>2. CASE ~j.reported
        <3>1. /\ stage[q] = "audit" /\ stage'[q] = "delete"
              /\ job'[q].complete = j.complete /\ job'[q].now = j.now
              /\ job'[q].todo = Expired(j)
            BY <1>0, <1>2, <1>3, <1>13, <2>2 DEF Decide, Job
        <3>2. ASSUME NEW p \in Expired(j)
              PROVE  /\ p \in published /\ p \in Points
                     /\ stamp[p] < j.now - Retention
                     /\ Superseded(p)
            <4>1. PICK r \in j.complete : stamp[r] > stamp[p]
                BY <3>2 DEF Expired
            <4>2. p \in published /\ r \in published /\ p \in Points /\ r \in Points
                BY <1>0, <3>2 DEF Expired, PruneIsRight, TypeOK, StoreTypeOK
            <4>3. Certified(r) \/ Superseded(r)
                BY <4>2 DEF Safety, CertifiedOrSuperseded
            <4>4. Superseded(p)
                BY <4>1, <4>2, <4>3 DEF Superseded, TypeOK, StoreTypeOK
            <4> QED
                BY <3>2, <4>2, <4>4 DEF Expired
        <3> QED
            BY <1>0, <1>1, <3>1, <3>2 DEF PruneIsRight
    <2> QED
        BY <2>1, <2>2
<1>14. CASE FinishPrune(q) \/ AbandonPrune(q)
    BY <1>4, <1>14 DEF FinishPrune, AbandonPrune
<1> QED
    BY <1>6, <1>7, <1>8, <1>9, <1>10, <1>11, <1>12, <1>13, <1>14

LEMMA DeleteMarkerSafe ==
    ASSUME TypeOK, TypeOK', Safety, NEW q \in Prunes, DeleteMarker(q),
           UNCHANGED backupVars
    PROVE  Safety'
<1> DEFINE j == job[q]
<1>0. /\ PruneIsRight(q) /\ j \in Job
      /\ \A r \in published : r \in Points
      /\ \A r \in Points : stamp[r] \in Int
    BY DEF Safety, TypeOK, PruneTypeOK, StoreTypeOK
<1>1. PICK p \in j.todo :
          /\ marker' = [marker EXCEPT ![p] = "absent"]
          /\ \/ /\ Recall(q, [j EXCEPT !.todo = @ \ {p}, !.target = p,
                                       !.left = Listed(p)])
                /\ Enter(q, "manifest-key")
             \/ Stop(q, "failed")
    BY DEF DeleteMarker
<1>2. p \in Points /\ p \in published /\ Superseded(p) /\ stage[q] = "delete"
    BY <1>0, <1>1 DEF DeleteMarker, PruneIsRight, Deleting
<1>3. /\ ~Certified(p)'
      /\ \A r \in Points : r # p => (Certified(r)' <=> Certified(r))
    BY <1>1, <1>2 DEF Certified, TypeOK, StoreTypeOK
<1>4. UNCHANGED <<clock, stamp, body, entries, manifest, published>>
    BY DEF DeleteMarker
\* Whatever p superseded is superseded by what supersedes p.
<1>5. ASSUME NEW s \in Points, Superseded(s) PROVE Superseded(s)'
    <2>1. PICK r \in Points : Certified(r) /\ stamp[r] > stamp[s]
        BY <1>5 DEF Superseded
    <2>2. PICK t \in Points : Certified(t) /\ stamp[t] > stamp[p]
        BY <1>2 DEF Superseded
    <2>3. t # p
        BY <1>0, <2>2
    <2>4. CASE r = p
        <3>1. stamp[t] > stamp[s]
            BY <1>0, <2>1, <2>2, <2>4
        <3> QED
            BY <1>3, <1>4, <2>2, <2>3, <3>1 DEF Superseded
    <2>5. CASE r # p
        BY <1>3, <1>4, <2>1, <2>5 DEF Superseded
    <2> QED
        BY <2>4, <2>5
<1>6. CertifiedOrSuperseded'
    BY <1>2, <1>3, <1>4, <1>5 DEF Safety, CertifiedOrSuperseded
<1>7. CertifiedIsEntire'
    BY <1>3, <1>4, EntireFrame DEF Safety
<1>8. ASSUME NEW r \in Points PROVE RunIsHonest(r)'
    BY <1>4, RunFrame DEF Safety, backupVars
<1>9. ASSUME NEW i \in Prunes, i # q PROVE PruneIsRight(i)'
    <2>1. stage'[i] = stage[i] /\ job'[i] = job[i]
        BY <1>1, <1>9 DEF Stop, Enter, Recall, TypeOK, PruneTypeOK
    <2>2. clock <= clock'
        BY <1>4 DEF TypeOK, StoreTypeOK
    <2> QED
        BY <1>0, <1>3, <1>4, <1>5, <2>1, <2>2, PruneFrame DEF Safety
<1>10. PruneIsRight(q)'
    <2>1. CASE Stop(q, "failed")
        <3>1. stage'[q] = "failed" /\ job'[q] = NoJob
            BY <2>1 DEF Stop, Enter, Recall, TypeOK, PruneTypeOK
        <3> QED
            BY <3>1 DEF PruneIsRight, NoJob, PruneStages, Deleting
    <2>2. CASE /\ Recall(q, [j EXCEPT !.todo = @ \ {p}, !.target = p,
                                      !.left = Listed(p)])
               /\ Enter(q, "manifest-key")
        <3>1. /\ stage'[q] = "manifest-key"
              /\ job'[q].complete = j.complete /\ job'[q].now = j.now
              /\ job'[q].todo = j.todo \ {p} /\ job'[q].target = p
            BY <1>0, <2>2 DEF Enter, Recall, TypeOK, PruneTypeOK, Job
        <3>2. \A s \in j.todo :
                  /\ s \in published /\ s \in Points
                  /\ stamp[s] < j.now - Retention
                  /\ Superseded(s)'
            BY <1>0, <1>2, <1>5 DEF PruneIsRight, Deleting
        <3>3. j.complete \subseteq published /\ j.now <= clock + Skew
            BY <1>0, <1>2 DEF PruneIsRight, PruneStages, Deleting
        <3> QED
            BY <1>2, <1>3, <1>4, <3>1, <3>2, <3>3
            DEF PruneIsRight, PruneStages, Deleting
    <2> QED
        BY <1>1, <2>1, <2>2
<1> QED
    BY <1>6, <1>7, <1>8, <1>9, <1>10 DEF Safety

\* The manifest and the objects of a withdrawn point disturb nobody.
LEMMA DeleteRestSafe ==
    ASSUME TypeOK, TypeOK', Safety, NEW q \in Prunes,
           DeleteManifest(q) \/ DeleteBatch(q), UNCHANGED backupVars
    PROVE  Safety'
<1> DEFINE j == job[q]
           p == j.target
<1>0. /\ PruneIsRight(q) /\ j \in Job
      /\ stage[q] \in {"manifest-key", "object-keys"}
    BY DEF Safety, TypeOK, PruneTypeOK, DeleteManifest, DeleteBatch
<1>1. p \in Points /\ p \in published /\ ~Certified(p)
    BY <1>0 DEF PruneIsRight, TypeOK, PruneTypeOK, InHand
<1>2. UNCHANGED <<clock, stamp, entries, marker, published>>
    BY DEF DeleteManifest, DeleteBatch
<1>3. \A r \in Points : r # p => manifest'[r] = manifest[r] /\ body'[r] = body[r]
    <2>1. CASE DeleteManifest(q)
        BY <1>1, <2>1 DEF DeleteManifest, TypeOK, StoreTypeOK
    <2>2. CASE DeleteBatch(q)
        <3>1. manifest' = manifest /\ \E gone : Remove(p, gone)
            BY <2>2 DEF DeleteBatch
        <3> QED
            BY <1>1, <3>1 DEF Remove, TypeOK, StoreTypeOK
    <2> QED
        BY <2>1, <2>2
<1>4. \A r \in Points : Certified(r)' <=> Certified(r)
    BY <1>2 DEF Certified
<1>5. CertifiedIsEntire'
    BY <1>1, <1>2, <1>3, <1>4, EntireFrame DEF Safety
<1>6. clock <= clock'
    BY <1>2 DEF TypeOK, StoreTypeOK
<1>7. ASSUME NEW r \in Points PROVE RunIsHonest(r)'
    <2>1. RunIsHonest(r) /\ pc'[r] = pc[r] /\ mem'[r] = mem[r]
        BY DEF Safety, backupVars
    <2>2. CASE r = p
        BY <1>1, <2>1, <2>2, EndedRun
    <2>3. CASE r # p
        BY <1>2, <1>3, <2>1, <2>3, RunFrame
    <2> QED
        BY <2>2, <2>3
<1>8. /\ CertifiedOrSuperseded'
      /\ \A i \in Prunes :
             stage'[i] = stage[i] /\ job'[i] = job[i] => PruneIsRight(i)'
    BY <1>2, <1>4, <1>6, CalmStep
<1>9. ASSUME NEW i \in Prunes, i # q PROVE PruneIsRight(i)'
    <2>1. stage'[i] = stage[i] /\ job'[i] = job[i]
        BY <1>9 DEF DeleteManifest, DeleteBatch, Stop, Enter, Recall, TypeOK,
                    PruneTypeOK
    <2> QED
        BY <1>8, <2>1
<1>10. PruneIsRight(q)'
    <2>1. CASE Stop(q, "failed")
        <3>1. stage'[q] = "failed" /\ job'[q] = NoJob
            BY <2>1 DEF Stop, Enter, Recall, TypeOK, PruneTypeOK
        <3> QED
            BY <3>1 DEF PruneIsRight, NoJob, PruneStages, Deleting
    <2>2. CASE ~Stop(q, "failed")
        <3>1. /\ stage'[q] \in {"delete", "object-keys"}
              /\ job'[q].complete = j.complete /\ job'[q].now = j.now
              /\ job'[q].todo = j.todo /\ job'[q].target = p
            <4>1. CASE DeleteManifest(q)
                BY <2>2, <4>1 DEF DeleteManifest, Enter, TypeOK, PruneTypeOK
            <4>2. CASE DeleteBatch(q)
                BY <1>0, <2>2, <4>2
                DEF DeleteBatch, Enter, Recall, TypeOK, PruneTypeOK, Job
            <4> QED
                BY <4>1, <4>2
        <3>2. \A s \in Points : Superseded(s)' <=> Superseded(s)
            BY <1>2, <1>4 DEF Superseded
        <3>3. /\ \A s \in j.todo :
                     /\ s \in published /\ s \in Points
                     /\ stamp[s] < j.now - Retention
                     /\ Superseded(s)
              /\ j.complete \subseteq published /\ j.now <= clock + Skew
            BY <1>0 DEF PruneIsRight, PruneStages, Deleting, TypeOK, StoreTypeOK
        <3> QED
            BY <1>1, <1>2, <1>4, <3>1, <3>2, <3>3
            DEF PruneIsRight, PruneStages, Deleting
    <2> QED
        BY <2>1, <2>2
<1> QED
    BY <1>5, <1>7, <1>8, <1>9, <1>10 DEF Safety

LEMMA PruneRunSafe ==
    ASSUME TypeOK, TypeOK', Safety, NEW q \in Prunes, PruneRun(q)
    PROVE  Safety'
<1> USE DEF PruneRun
<1>1. CASE DeleteMarker(q)
    BY <1>1, DeleteMarkerSafe
<1>2. CASE DeleteManifest(q) \/ DeleteBatch(q)
    BY <1>2, DeleteRestSafe
<1>3. CASE \/ ListPrefixes(q) \/ ReadMarker(q) \/ ReadManifest(q)
           \/ BeginVerify(q)  \/ TakePoint(q)  \/ VerifyObject(q)
           \/ BeginAudit(q)   \/ AuditKeys(q)  \/ Decide(q)
           \/ FinishPrune(q)  \/ AbandonPrune(q)
    <2>1. UNCHANGED storeVars
        BY <1>3 DEF ListPrefixes, ReadMarker, ReadManifest, BeginVerify,
            TakePoint, VerifyObject, BeginAudit, AuditKeys, Decide, FinishPrune,
            AbandonPrune
    <2>2. PruneIsRight(q)'
        BY <1>3, <2>1, PruneReadSafe
    <2>3. ASSUME NEW i \in Prunes, i # q PROVE PruneIsRight(i)'
        <3>1. \A st : Enter(q, st) => stage'[i] = stage[i]
            BY <2>3 DEF Enter, TypeOK, PruneTypeOK
        <3>2. \A k : Recall(q, k) => job'[i] = job[i]
            BY <2>3 DEF Recall, TypeOK, PruneTypeOK
        <3>3. stage'[i] = stage[i] /\ job'[i] = job[i]
            BY <1>3, <3>1, <3>2
            DEF ListPrefixes, ReadMarker, ReadManifest, BeginVerify, TakePoint,
                VerifyObject, BeginAudit, AuditKeys, Decide, FinishPrune,
                AbandonPrune, Stop
        <3> QED
            BY <2>1, <3>3, QuietStep
    <2>4. \A p \in Points : RunIsHonest(p)'
        BY <2>1, QuietStep DEF backupVars
    <2> QED
        BY <2>1, <2>2, <2>3, <2>4, QuietStep DEF Safety
<1> QED
    BY <1>1, <1>2, <1>3 DEF PruneStep

LEMMA WorldSafe ==
    ASSUME TypeOK, TypeOK', Safety, World
    PROVE  Safety'
<1> USE DEF World
<1>1. CASE Application
    <2>1. /\ UNCHANGED storeVars /\ pc' = pc /\ mem' = mem
          /\ stage' = stage /\ job' = job
        BY <1>1 DEF Application, StoreEnvironment, pruneVars
    <2> QED
        BY <2>1, QuietStep DEF Safety
<1>2. CASE StoreEnvironment /\ UNCHANGED <<backupVars, pruneVars, restoreVars>>
    <2>1. /\ pc' = pc /\ mem' = mem /\ stage' = stage /\ job' = job
        BY <1>2 DEF backupVars, pruneVars
    <2>2. ASSUME clock <= clock', stamp' = stamp, published' = published,
                 \A p \in Points : /\ Certified(p)' <=> Certified(p)
                                   /\ manifest[p] # "absent" => manifest'[p] # "absent",
                 \A p \in Points, o \in Objects : \A v : Holds(p, o, v) => Holds(p, o, v)',
                 entries' = entries
          PROVE  Safety'
        <3>1. \A q \in Prunes : PruneIsRight(q)'
            BY <2>1, <2>2, CalmStep
        <3>2. CertifiedOrSuperseded'
            BY <2>2, CalmStep
        <3>3. CertifiedIsEntire'
            BY <2>2 DEF Safety, CertifiedIsEntire, Certified
        <3>4. ASSUME NEW p \in Points PROVE RunIsHonest(p)'
            <4>1. RunIsHonest(p) /\ pc'[p] = pc[p] /\ mem'[p] = mem[p]
                BY <2>1 DEF Safety
            <4> QED
                BY <2>2, <4>1 DEF RunIsHonest
        <3> QED
            BY <3>1, <3>2, <3>3, <3>4 DEF Safety
    <2>3. clock \in Nat /\ clock <= clock
        BY DEF TypeOK, StoreTypeOK
    <2>4. CASE Tick
        <3>1. clock <= clock'
            BY <2>3, <2>4 DEF Tick
        <3> QED
            BY <2>2, <2>4, <3>1 DEF Tick, Certified, Holds
    <2>5. CASE AddStrayKey
        BY <2>2, <2>3, <2>5 DEF AddStrayKey, Certified, Holds
    <2>6. ASSUME NEW p \in Points, NEW o \in Objects, DamageCopy(p, o)
          PROVE  Safety'
        <3>1. \A r \in Points, i \in Objects : \A v :
                  Holds(r, i, v) => Holds(r, i, v)'
            BY <2>6 DEF DamageCopy, Holds, TypeOK, StoreTypeOK
        <3> QED
            BY <2>2, <2>3, <2>6, <3>1 DEF DamageCopy, Certified
    <2>7. ASSUME NEW p \in Points, DamageManifest(p) PROVE Safety'
        <3>1. \A r \in Points : manifest[r] # "absent" => manifest'[r] # "absent"
            BY <2>7 DEF DamageManifest, TypeOK, StoreTypeOK
        <3> QED
            BY <2>2, <2>3, <2>7, <3>1 DEF DamageManifest, Certified, Holds
    <2>8. ASSUME NEW p \in Points, DamageMarker(p) PROVE Safety'
        <3>1. \A r \in Points : Certified(r)' <=> Certified(r)
            BY <2>8 DEF DamageMarker, Certified, TypeOK, StoreTypeOK
        <3> QED
            BY <2>2, <2>3, <2>8, <3>1 DEF DamageMarker, Holds
    <2>9. ASSUME NEW p \in Points, AddForeignKey(p) PROVE Safety'
        BY <2>2, <2>3, <2>9 DEF AddForeignKey, Certified, Holds
    <2> QED
        BY <1>2, <2>4, <2>5, <2>6, <2>7, <2>8, <2>9 DEF StoreEnvironment
<1> QED
    BY <1>1, <1>2

LEMMA NextSafe == TypeOK /\ TypeOK' /\ Safety /\ [Next]_vars => Safety'
<1> SUFFICES ASSUME TypeOK, TypeOK', Safety, [Next]_vars PROVE Safety'
    OBVIOUS
<1>1. ASSUME NEW p \in Points, BackupRun(p) PROVE Safety'
    BY <1>1, BackupRunSafe
<1>2. ASSUME NEW q \in Prunes, PruneRun(q) PROVE Safety'
    BY <1>2, PruneRunSafe
<1>3. ASSUME NEW x \in Restores, RestoreRun(x) PROVE Safety'
    <2>1. UNCHANGED storeVars
        BY <1>3, RestoreType DEF RestoreRun
    <2> QED
        BY <1>3, <2>1, QuietStep DEF Safety, RestoreRun, backupVars, pruneVars
<1>4. CASE World
    BY <1>4, WorldSafe
<1>5. CASE UNCHANGED vars
    BY <1>5, QuietStep DEF vars, Safety, backupVars, pruneVars
<1> QED
    BY <1>1, <1>2, <1>3, <1>4, <1>5 DEF Next

\* Every step keeps what makes the points safe.
THEOREM SafetyHolds == Spec => []Safety
BY TypeCorrect, InitSafe, NextSafe, PTL DEF Spec

\* A marker never certifies a point that lacks its manifest or an object.
THEOREM CertifiedIsAlwaysEntire == Spec => []CertifiedIsEntire
<1>1. Safety => CertifiedIsEntire
    BY DEF Safety
<1> QED
    BY <1>1, SafetyHolds, PTL

\* A newest point that was ever certified is never deleted, nor a part of it.
THEOREM NewestIsAlwaysKept == Spec => []NewestIsKept
<1>1. TypeOK /\ Safety => NewestIsKept
    <2> SUFFICES ASSUME TypeOK, Safety, NEW p \in published,
                        \A r \in published : stamp[r] <= stamp[p]
                 PROVE  marker[p] # "absent" /\ Entire(p)
        BY DEF NewestIsKept
    <2>1. p \in Points /\ stamp \in [Points -> Int]
        BY DEF TypeOK, StoreTypeOK
    <2>2. ~Superseded(p)
        BY <2>1 DEF Superseded, Safety, CertifiedOrSuperseded
    <2>3. Certified(p)
        BY <2>1, <2>2 DEF Safety, CertifiedOrSuperseded
    <2>4. manifest[p] # "absent" /\ \A o \in Objects : Holds(p, o, entries[p][o])
        BY <2>1, <2>3 DEF Safety, CertifiedIsEntire, Certified
    <2>5. Listed(p) = Stored(p)
        BY <2>4 DEF Holds, Listed, Stored, Missing, Damaged
    <2> QED
        BY <2>3, <2>4, <2>5 DEF Certified, Entire
<1> QED
    BY <1>1, TypeCorrect, SafetyHolds, PTL

-----------------------------------------------------------------------------
(* The catalogue: every step of the program begins, certifies or withdraws  *)
(* a point of the abstract specification, passes time or does nothing to it. *)

LEMMA InitMaps == Init => Catalog!CatalogInit
BY DEF Init, StoreInit, Catalog!CatalogInit

LEMMA StepMaps ==
    ASSUME TypeOK, Safety, [Next]_vars
    PROVE  [Catalog!CatalogNext]_Catalog!catalogVars
<1> USE DEF Catalog!catalogVars
<1>1. UNCHANGED storeVars => UNCHANGED Catalog!catalogVars
    BY DEF storeVars
<1>2. ASSUME UNCHANGED <<clock, stamp, published>>,
             \A p \in Points : Certified(p)' <=> Certified(p)
      PROVE  UNCHANGED Catalog!catalogVars
    BY <1>2 DEF Certified
<1>3. ASSUME NEW p \in Points, BackupRun(p)
      PROVE  [Catalog!CatalogNext]_Catalog!catalogVars
    <2>0. RunIsHonest(p)
        BY DEF Safety
    <2>1. CASE Start(p)
        <3>1. Catalog!Begin(p)
            BY <2>0, <2>1 DEF Start, Readings, RunIsHonest, Catalog!Begin
        <3> QED
            BY <3>1 DEF Catalog!CatalogNext
    <2>2. CASE PutMarker(p)
        <3>1. p \notin published
            BY <2>0, <2>2 DEF PutMarker, RunIsHonest, RunStages
        <3>2. {r \in Points : marker[r] # "absent"}'
                  = {r \in Points : marker[r] # "absent"} \cup {p}
            BY <2>2 DEF PutMarker, TypeOK, StoreTypeOK
        <3>3. Catalog!Certify(p)
            BY <2>2, <3>1, <3>2 DEF PutMarker, Catalog!Certify
        <3> QED
            BY <3>3 DEF Catalog!CatalogNext
    <2>3. CASE CopyObject(p) \/ PutManifest(p)
        BY <1>2, <2>3 DEF CopyObject, PutManifest, Certified
    <2>4. CASE UNCHANGED storeVars
        BY <1>1, <2>4
    <2> QED
        BY <1>3, <2>1, <2>2, <2>3, <2>4
        DEF BackupRun, RunStep, ListObject, ReadSettings, OpenObject,
            CopyRefused, VerifyCopy, FinishCopy, RelistObject, AssertStable,
            ReadBackManifest, Abandon
<1>4. ASSUME NEW q \in Prunes, PruneRun(q)
      PROVE  [Catalog!CatalogNext]_Catalog!catalogVars
    <2>1. CASE DeleteMarker(q)
        <3>1. PICK p \in job[q].todo : marker' = [marker EXCEPT ![p] = "absent"]
            BY <2>1 DEF DeleteMarker
        <3>2. job[q] \in Job /\ PruneIsRight(q) /\ stage[q] = "delete"
            BY <2>1 DEF DeleteMarker, Safety, TypeOK, PruneTypeOK
        <3>3. /\ p \in Points
              /\ stamp[p] < job[q].now - Retention
              /\ Superseded(p)
              /\ job[q].now <= clock + Skew
            BY <3>2 DEF Job, PruneIsRight, PruneStages, Deleting
        <3>4. UNCHANGED <<clock, stamp, published>>
            BY <2>1 DEF DeleteMarker
        <3>5. {r \in Points : marker[r] # "absent"}'
                  = {r \in Points : marker[r] # "absent"} \ {p}
            BY <3>1, <3>3 DEF TypeOK, StoreTypeOK
        <3>6. CASE Certified(p)
            <4>1. stamp[p] + Retention < clock + Skew
                <5>1. /\ stamp[p] \in Int /\ job[q].now \in Int /\ clock \in Int
                      /\ Retention \in Int /\ Skew \in Int
                    BY <3>2, <3>3, StoreAssumption, PruneAssumption
                    DEF TypeOK, StoreTypeOK, Job
                <5> QED
                    BY <3>3, <5>1
            <4>2. Catalog!Withdraw(p)
                BY <3>3, <3>4, <3>5, <3>6, <4>1
                DEF Catalog!Withdraw, Certified, Superseded
            <4> QED
                BY <3>3, <4>2 DEF Catalog!CatalogNext
        <3>7. CASE ~Certified(p)
            BY <3>4, <3>5, <3>7 DEF Certified
        <3> QED
            BY <3>6, <3>7
    <2>2. CASE DeleteManifest(q) \/ DeleteBatch(q)
        BY <1>2, <2>2 DEF DeleteManifest, DeleteBatch, Certified
    <2>3. CASE UNCHANGED storeVars
        BY <1>1, <2>3
    <2> QED
        BY <1>4, <2>1, <2>2, <2>3
        DEF PruneRun, PruneStep, ListPrefixes, ReadMarker, ReadManifest,
            BeginVerify, TakePoint, VerifyObject, BeginAudit, AuditKeys, Decide,
            FinishPrune, AbandonPrune
<1>5. ASSUME NEW x \in Restores, RestoreRun(x)
      PROVE  [Catalog!CatalogNext]_Catalog!catalogVars
    BY <1>1, <1>5, RestoreType DEF RestoreRun
<1>6. CASE World
    <2>1. CASE Application
        BY <1>1, <2>1 DEF Application
    <2>2. CASE Tick
        <3>1. Catalog!Pass
            BY <2>2 DEF Tick, Catalog!Pass
        <3> QED
            BY <3>1 DEF Catalog!CatalogNext
    <2>3. CASE AddStrayKey
        BY <1>2, <2>3 DEF AddStrayKey, Certified
    <2>4. ASSUME NEW p \in Points, NEW o \in Objects, DamageCopy(p, o)
          PROVE  UNCHANGED Catalog!catalogVars
        BY <1>2, <2>4 DEF DamageCopy, Certified
    <2>5. ASSUME NEW p \in Points, DamageManifest(p) \/ AddForeignKey(p)
          PROVE  UNCHANGED Catalog!catalogVars
        BY <1>2, <2>5 DEF DamageManifest, AddForeignKey, Certified
    <2>6. ASSUME NEW p \in Points, DamageMarker(p)
          PROVE  UNCHANGED Catalog!catalogVars
        <3>1. \A r \in Points : Certified(r)' <=> Certified(r)
            BY <2>6 DEF DamageMarker, Certified, TypeOK, StoreTypeOK
        <3> QED
            BY <1>2, <2>6, <3>1 DEF DamageMarker
    <2> QED
        BY <1>6, <2>1, <2>2, <2>3, <2>4, <2>5, <2>6 DEF World, StoreEnvironment
<1>7. CASE UNCHANGED vars
    BY <1>1, <1>7 DEF vars
<1> QED
    BY <1>3, <1>4, <1>5, <1>6, <1>7 DEF Next

\* The program implements the catalogue: nothing it does in any interleaving,
\* with any failure, on any clock, withdraws a point that is not expired and
\* superseded, or certifies one twice.
THEOREM ImplementsCatalog == Spec => RefinesCatalog
<1>1. Init => Catalog!CatalogInit
    BY InitMaps
<1>2. TypeOK /\ Safety /\ [Next]_vars => [Catalog!CatalogNext]_Catalog!catalogVars
    BY StepMaps
<1> QED
    BY <1>1, <1>2, TypeCorrect, SafetyHolds, PTL
    DEF Spec, RefinesCatalog, Catalog!CatalogSpec
=============================================================================
