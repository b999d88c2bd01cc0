---------------------------- MODULE OrphanCleanup ----------------------------
(***************************************************************************)
(* orphan-cleanup-configmap.yaml: a daily Job reads from the database      *)
(* which files are referenced, walks the bucket and removes every object   *)
(* that is not among them, then clears the rows of unreferenced files.     *)
(* The application uploads, publishes and deletes meanwhile: an upload     *)
(* stores its object first and commits the reference to it afterwards.     *)
(***************************************************************************)
EXTENDS Naturals, FiniteSets

CONSTANTS
    Files,         \* stored objects; each has a URI and at most one upload
    Holders,       \* records and drafts that may reference files
    Limit,         \* rows that clear_orphaned_files takes in one run
    BackoffLimit,  \* Pods of a Job after its first
    MaxDays        \* bound: Jobs that the schedule starts

ASSUME CleanupAssumption ==
    /\ IsFiniteSet(Files)
    /\ Limit \in Nat
    /\ BackoffLimit \in Nat
    /\ MaxDays \in Nat

VARIABLES
    bucket,   \* objects under invenio-rdm/files
    rows,     \* files with a FileInstance row
    refs,     \* files_object rows: pairs of a holder and a file
    upload,   \* upload[f]: where the upload of f is
    pc,       \* where the Job is
    attempt,  \* the Job's Pods so far
    live,     \* files that were referenced when the references were read
    pending,  \* what the walk must still visit, or rows still to be cleared
    omitted,  \* files in directories that this walk could not list
    days,     \* Jobs so far
    doomed,   \* history: leftovers when the references were read
    raced     \* history: files whose upload overlapped a cleanup

appVars == <<bucket, rows, refs, upload>>
jobVars == <<attempt, live, pending, omitted>>
vars == <<appVars, pc, jobVars, days, doomed, raced>>

\* The references have been read and are being acted upon.
Active == pc \in {"list", "walk", "clear"}

TypeOK ==
    /\ bucket \in SUBSET Files
    /\ rows \in SUBSET Files
    /\ refs \in SUBSET (Holders \X Files)
    /\ upload \in [Files -> {"unused", "stored", "committed", "failed"}]
    /\ pc \in {"idle", "read", "list", "walk", "clear", "done", "failed"}
    /\ attempt \in 0..(BackoffLimit + 1)
    /\ live \in SUBSET Files
    /\ pending \in SUBSET Files
    /\ omitted \in SUBSET Files
    /\ days \in 0..MaxDays
    /\ doomed \in SUBSET Files
    /\ raced \in SUBSET Files

Referenced == {f \in Files : \E h \in Holders : <<h, f>> \in refs}
Uploading == {f \in Files : upload[f] = "stored"}

Init ==
    /\ bucket = {} /\ rows = {} /\ refs = {}
    /\ upload = [f \in Files |-> "unused"]
    /\ pc = "idle" /\ attempt = 0
    /\ live = {} /\ pending = {} /\ omitted = {}
    /\ days = 0
    /\ doomed = {} /\ raced = {}

-----------------------------------------------------------------------------
(* The application.                                                         *)

StoreObject(f) ==
    /\ upload[f] = "unused"
    /\ upload' = [upload EXCEPT ![f] = "stored"]
    /\ bucket' = bucket \cup {f}
    /\ raced' = IF Active THEN raced \cup {f} ELSE raced
    /\ UNCHANGED <<rows, refs, pc, jobVars, days, doomed>>

CommitUpload(h, f) ==
    /\ upload[f] = "stored"
    /\ upload' = [upload EXCEPT ![f] = "committed"]
    /\ rows' = rows \cup {f}
    /\ refs' = refs \cup {<<h, f>>}
    /\ UNCHANGED <<bucket, pc, jobVars, days, doomed, raced>>

\* The upload fails after its object was stored.
FailUpload(f) ==
    /\ upload[f] = "stored"
    /\ upload' = [upload EXCEPT ![f] = "failed"]
    /\ UNCHANGED <<bucket, rows, refs, pc, jobVars, days, doomed, raced>>

\* A record takes over a file of a draft, or a new version one of the last.
ShareFile(g, h, f) ==
    /\ <<g, f>> \in refs
    /\ refs' = refs \cup {<<h, f>>}
    /\ UNCHANGED <<bucket, rows, upload, pc, jobVars, days, doomed, raced>>

\* A draft is deleted: its objects and their FileInstance rows stay.
DropReference(h, f) ==
    /\ <<h, f>> \in refs
    /\ refs' = refs \ {<<h, f>>}
    /\ UNCHANGED <<bucket, rows, upload, pc, jobVars, days, doomed, raced>>

Application ==
    \E f \in Files :
        \/ StoreObject(f) \/ FailUpload(f)
        \/ \E h \in Holders : CommitUpload(h, f) \/ DropReference(h, f)
        \/ \E g, h \in Holders : ShareFile(g, h, f)

-----------------------------------------------------------------------------
(* The Job.                                                                 *)

\* concurrencyPolicy Forbid: a Job starts when none is running.
Schedule ==
    /\ pc \in {"idle", "done", "failed"}
    /\ days < MaxDays
    /\ days' = days + 1
    /\ attempt' = 1
    /\ pc' = "read"
    /\ UNCHANGED <<appVars, live, pending, omitted, doomed, raced>>

\* Mutant: a later Pod goes on with the references of the one before it.
ReadReferencesOnce ==
    /\ pc = "read"
    /\ live' = IF attempt = 1 THEN Referenced \cap rows ELSE live
    /\ doomed' = bucket \ (live' \cup Uploading)
    /\ raced' = raced \cup Uploading
    /\ pc' = "list"
    /\ UNCHANGED <<appVars, attempt, pending, omitted, days>>

\* One query: the files that have a row and a reference to it.
ReadReferences ==
    /\ pc = "read"
    /\ live' = Referenced \cap rows
    /\ doomed' = bucket \ (live' \cup Uploading)
    /\ raced' = raced \cup Uploading
    /\ pc' = "list"
    /\ UNCHANGED <<appVars, attempt, pending, omitted, days>>

\* The walk lists directory after directory: it visits whatever is there now
\* and may visit what is stored later.
BeginWalk ==
    /\ pc = "list"
    /\ pending' = bucket
    /\ omitted' = {}
    /\ pc' = "walk"
    /\ UNCHANGED <<appVars, attempt, live, days, doomed, raced>>

\* The directory that holds f, or one above it, cannot be listed: the walk,
\* which is told to raise nothing, passes over all that is below it.
OmitDirectory(f) ==
    /\ pc = "walk"
    /\ f \in pending
    /\ pending' = pending \ {f}
    /\ omitted' = omitted \cup {f}
    /\ UNCHANGED <<appVars, pc, attempt, live, days, doomed, raced>>

\* Mutant: a removal that fails is passed over.
VisitPassingErrors(f) ==
    /\ pc = "walk"
    /\ f \in (pending \cup bucket) \ omitted
    /\ \/ f \in live /\ bucket' = bucket
       \/ f \notin live /\ bucket' \in {bucket, bucket \ {f}}
    /\ pending' = pending \ {f}
    /\ UNCHANGED <<rows, refs, upload, pc, attempt, live, omitted, days, doomed,
                   raced>>

\* An object that is not among the files read is removed.
Visit(f) ==
    /\ pc = "walk"
    /\ f \in (pending \cup bucket) \ omitted
    /\ bucket' = IF f \in live THEN bucket ELSE bucket \ {f}
    /\ pending' = pending \ {f}
    /\ UNCHANGED <<rows, refs, upload, pc, attempt, live, omitted, days, doomed,
                   raced>>

\* clear_orphaned_files selects up to Limit rows that nothing references.
EndWalk ==
    /\ pc = "walk"
    /\ pending = {}
    /\ \E chosen \in SUBSET (rows \ Referenced) :
           /\ \/ Cardinality(chosen) = Limit
              \/ Cardinality(chosen) < Limit /\ chosen = rows \ Referenced
           /\ pending' = chosen
    /\ pc' = "clear"
    /\ UNCHANGED <<appVars, attempt, live, omitted, days, doomed, raced>>

\* The row of an unreferenced file goes, with what is left of its object.
ClearRow(f) ==
    /\ pc = "clear"
    /\ f \in pending
    /\ rows' = rows \ {f}
    /\ bucket' = bucket \ {f}
    /\ pending' = pending \ {f}
    /\ UNCHANGED <<refs, upload, pc, attempt, live, omitted, days, doomed, raced>>

Finish ==
    /\ pc = "clear"
    /\ pending = {}
    /\ pc' = "done"
    /\ UNCHANGED <<appVars, jobVars, days, doomed, raced>>

\* Mutant: the Pods of a Job are not counted.
DieUncounted ==
    /\ pc = "read" \/ Active
    /\ \/ /\ attempt' = attempt + 1
          /\ pc' = "read"
       \/ /\ attempt' = attempt
          /\ pc' = "failed"
    /\ UNCHANGED <<appVars, live, pending, omitted, days, doomed, raced>>

\* A Pod dies, or a call of it raises an error: the Job starts another one, unless it has
\* used them all or its deadline has passed.
Die ==
    /\ pc = "read" \/ Active
    /\ \/ /\ attempt <= BackoffLimit
          /\ attempt' = attempt + 1
          /\ pc' = "read"
       \/ /\ attempt' = attempt
          /\ pc' = "failed"
    /\ UNCHANGED <<appVars, live, pending, omitted, days, doomed, raced>>

Job ==
    \/ Schedule \/ ReadReferences \/ BeginWalk
    \/ \E f \in Files : Visit(f) \/ OmitDirectory(f) \/ ClearRow(f)
    \/ EndWalk \/ Finish \/ Die

Next == Application \/ Job

Spec == Init /\ [][Next]_vars

-----------------------------------------------------------------------------

\* Only unreferenced objects are removed: whatever references a file has, the
\* object is there.
ReferencedFilesAreKept == Referenced \subseteq bucket

\* A file loses its object while it is referenced only if its upload was open
\* between the reading of the references and the end of the same Pod: neither
\* deletions of drafts, nor files that several holders share, nor Pods that die
\* and are followed by others put any other file at risk.
SettledFilesAreKept == Referenced \ raced \subseteq bucket

\* A Job that completes has removed every object that was a leftover when its
\* last Pod read the references, although the bucket changed while it walked
\* and other Pods may have died before: none is left but in directories that
\* this Pod could not list, which the Job passes over and completes all the same.
DoneIsClean == pc = "done" => bucket \cap doomed \subseteq omitted

-----------------------------------------------------------------------------
(* What every step preserves, for SettledFilesAreKept and for DoneIsClean.  *)

\* Only an upload that committed has a row, and references only with it.
RowsAreCommitted ==
    /\ Referenced \subseteq rows
    /\ \A f \in rows : upload[f] = "committed"

\* What a Pod would remove is safe to remove.
RemovalIsSafe ==
    /\ Uploading \subseteq bucket \cup raced
    /\ Active => Uploading \subseteq raced
    /\ pc \in {"list", "walk"} => Referenced \subseteq live \cup raced
    /\ pc = "clear" => pending \subseteq rows \ Referenced

CleanupInv == SettledFilesAreKept /\ RowsAreCommitted /\ RemovalIsSafe

\* Leftovers are not stored again, and none escapes the walk but where it could
\* not list.
WalkIsComplete ==
    /\ \A f \in bucket \cup doomed : upload[f] # "unused"
    /\ pc \in {"list", "walk"} => doomed \cap live = {}
    /\ pc = "walk" => bucket \cap doomed \subseteq pending \cup omitted
    /\ pc \in {"clear", "done"} => bucket \cap doomed \subseteq omitted
=============================================================================
