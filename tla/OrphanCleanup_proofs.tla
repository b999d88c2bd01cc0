------------------------- MODULE OrphanCleanup_proofs -------------------------
(***************************************************************************)
(* Files that no open upload overlapped are safe from the cleanup, for any *)
(* number of files, holders, Pods and days.                                *)
(***************************************************************************)
EXTENDS OrphanCleanup, TLAPS

\* Every variable of the cleanup and of the application keeps its type.
THEOREM TypeCorrect == Spec => []TypeOK
<1>1. Init => TypeOK
    BY CleanupAssumption DEF Init, TypeOK
<1>2. TypeOK /\ [Next]_vars => TypeOK'
    <2> SUFFICES ASSUME TypeOK, [Next]_vars
                 PROVE  TypeOK'
        OBVIOUS
    <2> USE CleanupAssumption DEF TypeOK, appVars, jobVars
    <2>1. ASSUME NEW f \in Files, StoreObject(f)
          PROVE  TypeOK'
        BY <2>1 DEF StoreObject
    <2>2. ASSUME NEW f \in Files, FailUpload(f)
          PROVE  TypeOK'
        BY <2>2 DEF FailUpload
    <2>3. ASSUME NEW f \in Files, NEW h \in Holders, CommitUpload(h, f)
          PROVE  TypeOK'
        BY <2>3 DEF CommitUpload
    <2>4. ASSUME NEW f \in Files, NEW h \in Holders, DropReference(h, f)
          PROVE  TypeOK'
        BY <2>4 DEF DropReference
    <2>5. ASSUME NEW f \in Files, NEW g \in Holders, NEW h \in Holders,
                 ShareFile(g, h, f)
          PROVE  TypeOK'
        BY <2>5 DEF ShareFile
    <2>6. CASE Schedule
        BY <2>6 DEF Schedule
    <2>7. CASE ReadReferences
        BY <2>7 DEF ReadReferences, Referenced, Uploading
    <2>8. CASE BeginWalk
        BY <2>8 DEF BeginWalk
    <2>9. ASSUME NEW f \in Files, Visit(f)
          PROVE  TypeOK'
        BY <2>9 DEF Visit
    <2>10. ASSUME NEW f \in Files, ClearRow(f)
           PROVE  TypeOK'
        BY <2>10 DEF ClearRow
    <2>11. CASE EndWalk
        BY <2>11 DEF EndWalk
    <2>12. CASE Finish
        BY <2>12 DEF Finish
    <2>13. CASE Die
        BY <2>13 DEF Die
    <2>14. ASSUME NEW f \in Files, OmitDirectory(f)
           PROVE  TypeOK'
        BY <2>14 DEF OmitDirectory
    <2>15. CASE UNCHANGED vars
        BY <2>15 DEF vars
    <2> QED
        BY <2>1, <2>2, <2>3, <2>4, <2>5, <2>6, <2>7, <2>8, <2>9, <2>10, <2>11,
           <2>12, <2>13, <2>14, <2>15
        DEF Next, Application, Job
<1> QED
    BY <1>1, <1>2, PTL DEF Spec

\* The inductive invariant: references come with a row and a committed upload,
\* and whatever a Pod may still remove was unreferenced when it read the
\* references, or belongs to an upload that overlapped the cleanup.
THEOREM RemovalsAreSafe == Spec => []CleanupInv
<1>1. Init => CleanupInv
    BY DEF Init, CleanupInv, SettledFilesAreKept, RowsAreCommitted,
           RemovalIsSafe, Referenced, Uploading, Active
<1>2. TypeOK /\ CleanupInv /\ [Next]_vars => CleanupInv'
    <2> SUFFICES ASSUME TypeOK, CleanupInv, [Next]_vars
                 PROVE  CleanupInv'
        OBVIOUS
    <2> USE DEF TypeOK, CleanupInv, SettledFilesAreKept, RowsAreCommitted,
                RemovalIsSafe, Referenced, Uploading, Active, appVars, jobVars
    <2>1. ASSUME NEW f \in Files, StoreObject(f)
          PROVE  CleanupInv'
        BY <2>1 DEF StoreObject
    <2>2. ASSUME NEW f \in Files, FailUpload(f)
          PROVE  CleanupInv'
        BY <2>2 DEF FailUpload
    <2>3. ASSUME NEW f \in Files, NEW h \in Holders, CommitUpload(h, f)
          PROVE  CleanupInv'
        BY <2>3 DEF CommitUpload
    <2>4. ASSUME NEW f \in Files, NEW h \in Holders, DropReference(h, f)
          PROVE  CleanupInv'
        BY <2>4 DEF DropReference
    <2>5. ASSUME NEW f \in Files, NEW g \in Holders, NEW h \in Holders,
                 ShareFile(g, h, f)
          PROVE  CleanupInv'
        BY <2>5 DEF ShareFile
    <2>6. CASE Schedule
        BY <2>6 DEF Schedule
    <2>7. CASE ReadReferences
        BY <2>7 DEF ReadReferences
    <2>8. CASE BeginWalk
        BY <2>8 DEF BeginWalk
    <2>9. ASSUME NEW f \in Files, Visit(f)
          PROVE  CleanupInv'
        BY <2>9 DEF Visit
    <2>10. ASSUME NEW f \in Files, ClearRow(f)
           PROVE  CleanupInv'
        BY <2>10 DEF ClearRow
    <2>11. CASE EndWalk
        BY <2>11 DEF EndWalk
    <2>12. CASE Finish
        BY <2>12 DEF Finish
    <2>13. CASE Die
        BY <2>13 DEF Die
    <2>14. ASSUME NEW f \in Files, OmitDirectory(f)
           PROVE  CleanupInv'
        BY <2>14 DEF OmitDirectory
    <2>15. CASE UNCHANGED vars
        BY <2>15 DEF vars
    <2> QED
        BY <2>1, <2>2, <2>3, <2>4, <2>5, <2>6, <2>7, <2>8, <2>9, <2>10, <2>11,
           <2>12, <2>13, <2>14, <2>15
        DEF Next, Application, Job
<1> QED
    BY <1>1, <1>2, TypeCorrect, PTL DEF Spec

\* No file loses its object while it is referenced, unless its upload was open
\* while a Pod acted on references it had read before.
THEOREM SettledFilesAreAlwaysKept == Spec => []SettledFilesAreKept
<1>1. CleanupInv => SettledFilesAreKept
    BY DEF CleanupInv
<1> QED
    BY <1>1, RemovalsAreSafe, PTL

\* What was a leftover when a Pod read the references is visited and removed
\* before that Pod ends its walk, unless its directory could not be listed, and
\* is not stored again.
THEOREM WalksAreComplete == Spec => []WalkIsComplete
<1>1. Init => WalkIsComplete
    BY DEF Init, WalkIsComplete
<1>2. TypeOK /\ WalkIsComplete /\ [Next]_vars => WalkIsComplete'
    <2> SUFFICES ASSUME TypeOK, WalkIsComplete, [Next]_vars
                 PROVE  WalkIsComplete'
        OBVIOUS
    <2> USE DEF TypeOK, WalkIsComplete, Uploading, Active, appVars, jobVars
    <2>1. ASSUME NEW f \in Files, StoreObject(f)
          PROVE  WalkIsComplete'
        BY <2>1 DEF StoreObject
    <2>2. ASSUME NEW f \in Files, FailUpload(f)
          PROVE  WalkIsComplete'
        BY <2>2 DEF FailUpload
    <2>3. ASSUME NEW f \in Files, NEW h \in Holders, CommitUpload(h, f)
          PROVE  WalkIsComplete'
        BY <2>3 DEF CommitUpload
    <2>4. ASSUME NEW f \in Files, NEW h \in Holders, DropReference(h, f)
          PROVE  WalkIsComplete'
        BY <2>4 DEF DropReference
    <2>5. ASSUME NEW f \in Files, NEW g \in Holders, NEW h \in Holders,
                 ShareFile(g, h, f)
          PROVE  WalkIsComplete'
        BY <2>5 DEF ShareFile
    <2>6. CASE Schedule
        BY <2>6 DEF Schedule
    <2>7. CASE ReadReferences
        BY <2>7 DEF ReadReferences
    <2>8. CASE BeginWalk
        BY <2>8 DEF BeginWalk
    <2>9. ASSUME NEW f \in Files, Visit(f)
          PROVE  WalkIsComplete'
        BY <2>9 DEF Visit
    <2>10. ASSUME NEW f \in Files, ClearRow(f)
           PROVE  WalkIsComplete'
        BY <2>10 DEF ClearRow
    <2>11. CASE EndWalk
        BY <2>11 DEF EndWalk
    <2>12. CASE Finish
        BY <2>12 DEF Finish
    <2>13. CASE Die
        BY <2>13 DEF Die
    <2>14. ASSUME NEW f \in Files, OmitDirectory(f)
           PROVE  WalkIsComplete'
        BY <2>14 DEF OmitDirectory
    <2>15. CASE UNCHANGED vars
        BY <2>15 DEF vars
    <2> QED
        BY <2>1, <2>2, <2>3, <2>4, <2>5, <2>6, <2>7, <2>8, <2>9, <2>10, <2>11,
           <2>12, <2>13, <2>14, <2>15
        DEF Next, Application, Job
<1> QED
    BY <1>1, <1>2, TypeCorrect, PTL DEF Spec

\* A Job that completes leaves none of the objects that were leftovers when
\* its last Pod read the references, but in directories that could not be
\* listed.
THEOREM DoneIsAlwaysClean == Spec => []DoneIsClean
<1>1. WalkIsComplete => DoneIsClean
    BY DEF WalkIsComplete, DoneIsClean
<1> QED
    BY <1>1, WalksAreComplete, PTL
=============================================================================
