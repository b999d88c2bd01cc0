# Verification of invenio-rdm-gitops

This directory holds TLA+ specifications of the parts of the repository that
run as programs: they keep state, call services that fail, and overlap with each
other. Most of the repository is declarative (Kubernetes, Argo CD and Helm
manifests, Terraform, settings of a third-party application); what those files
do is decided by controllers that are not part of it. The programs are the file
backup command, the deployment verifier, a cleanup job, an initialization job, a
secret generator, health probes, and CI checks.

The file backup, `k8s/infra/minio/resources/s3-file-backup.py`, is the core: it
is the only copy of every uploaded file outside the live bucket, it is the only
program that deletes backups, and a mistake in it shows on the day of a restore.
It is modelled first and completely, and most of the proofs are about it. The
deployment verifier, the cleanup job, the secret generator, the initialization
Job and the resource budget of Velero follow.

Below, `S3` is short for `src/k8s/infra/minio/resources/s3-file-backup.py`.

## 1. Inventory

| Component | State it keeps | Operations | What is hard about it | What makes it correct | Status |
|---|---|---|---|---|---|
| File backup: `backup` (`S3:639`) | inventories, settings, manifest under construction; in the bucket: copies, `manifest.json`, `COMPLETE.json` | list, read settings, copy and read back each object, list again, store manifest, read it back, store marker | the application keeps writing; the Job is killed at `activeDeadlineSeconds`; answers get lost; an inventory is many pages | a marker certifies a complete, readable point that is one instant of the sources | modelled |
| File backup: `prune` (`S3:1061`) | loaded points, reports, points to delete | list prefixes, load each, hash each object, audit keys, decide, delete marker, manifest, objects in batches | overlaps a backup or another prune; clocks disagree; a batch fails in part; what was verified changes before it is deleted | deletes only expired and superseded points, nothing if anything is unsound, and never leaves a marker on a point that lost keys | modelled |
| File backup: `restore` (`S3:936`) | loaded point, objects to go | load, check that the drill prefix is empty, copy and compare each object | a prune deletes the point meanwhile; two restores share a prefix | a restore that completes is exact | modelled |
| File backup: chunked copy (`S3:494`) | multipart upload and its parts | create, upload parts, complete or abort | the SDK repeats calls whose answers are lost; the body is cut or too long; process dies between parts; abort fails | no object appears in part; no upload is left unreported | modelled |
| File backup: configuration (`S3:96`-`200`) | none | validate the JSON settings | a source removed while points of it exist | see hazards | its result is the assumption on the constants |
| Deployment verifier (`scripts/deployment-verifier.py`) | streak, sample count, deadline, last report | list applications, fetch one resource tree each, evaluate, sleep | a sample is several requests in the middle of a rollout; deadlines; errors that keep an old report | passes only after three clean samples of the triggering revision within the deadline, and times out only for cause | modelled, except the reading of the inventory and the command line |
| Orphan cleanup (`k8s/apps/invenio/resources/orphan-cleanup-configmap.yaml`) | set of live references | read references, walk bucket, delete, clear rows | uploads commit while it walks; Pods die and are replaced | removes nothing that is referenced; removes every leftover | modelled |
| Initialization Job and post-sync hook (`invenio-initialize-job.yaml`, `invenio-setup-job.yaml`) | database, index, queue, users | eight guarded steps; read-only verification | killed between or inside steps, then repeated, with another image; the hook's five checks are made at five moments beside a running Job | a Job that completes has made everything; a hook that passes means what it checked | modelled |
| Secret generation (`scripts/generate-sealed-secrets.sh`) | local secret files, sealed manifests | draw, write and seal per component | one credential is sealed in several places, one after another, in separate runs that may die | all sealed copies of one credential agree, and its plaintext is kept | modelled |
| Worker health check (`docker/ugm/worker_healthcheck.py`) | none | ping, wait, exit | its own wait against the kubelet's timeout | a live worker is not restarted | not modelled: see section 8 |
| Cold-start bootstrap (`scripts/bootstrap-infra.sh`) | cluster | ordered `kubectl` calls | stops half-way | repeatable or refused | not modelled: see section 8 |
| Infrastructure check, tunnel bootstrap | none | read-only probes and calls to external services | - | - | not modelled: no state of their own |
| CI check of the Velero budget (`scripts/ci-validate-velero.py`) | none; what it promises is about the namespace's pods | compute a worst case, compare it with the quota | the cluster is at several revisions at once; units are rounded | no pod of an accepted revision is refused by the quota | modelled |
| Other CI validation scripts | none | one pass over static files | - | - | not modelled: sequential functions of their input |
| Manifests, instance configuration, Terraform | none in this repository | - | - | - | not modelled: declarative |

Components interact as follows. The CronJob starts `backup`; an operator starts
`prune` and `restore` by hand (`docs/operations.md`). The three modes share the
private backup bucket and nothing else: there is no lock, no lease, no
conditional write. `backup` reads the buckets that the Invenio application
writes, without coordination. Orphan cleanup deletes from those same buckets.
Argo CD runs the post-sync hook; a workflow run after each push runs the
deployment verifier against the Argo CD API. The initialization Job is created
by hand once per cluster and the hook checks what it did. The CI check of the
Velero budget decides what is merged; the quota it compares with and the pods it
counts belong to two Argo CD applications.

`PROJECT.json` lists every hazard found in this code at the line where it bites,
with the properties that would catch it or the reason why none does yet.

## 2. Modules

| Module | Models | Depends on |
|---|---|---|
| `SnapshotStore` | the private backup bucket as all modes see it, a reference clock with hosts that disagree, damage and foreign keys | - |
| `FileBackup` | `backup`, and the application that writes the sources meanwhile | `SnapshotStore` |
| `FilePrune` | `prune` | `SnapshotStore` |
| `FileRestore` | `restore`, and the drill prefixes | `SnapshotStore` |
| `BackupSystem` | the three modes on one bucket, in any interleaving; its properties and the inductive invariant | all of the above |
| `PointCatalog` | what the operator relies on: an abstract catalogue of certified points | - |
| `BackupSystem_proofs` | theorems and proofs: types, what a prune may delete, the catalogue | `BackupSystem`, TLAPS |
| `BackupContents_proofs` | theorems and proofs: what points and restores hold, what a prune has found, that commands are finite | `BackupSystem_proofs` |
| `MCFileBackup`, `MCBackupSystem`, `MCCatalogue` | values of the constants, symmetry, and a bucket with a history, on which any two commands run | - |
| `CopyStream` | `_copy_stream`, call by call, under the retries of the SDK | - |
| `AtomicCopy` | what `backup` and `restore` rely on: one reading and one later write | - |
| `CopyStream_proofs`, `MCCopyStream` | theorems and proofs; sizes of the versions | `CopyStream` |
| `ArgoApplication` | `evaluate_app` and `_hook_state`: the verdict on one application; beside it README.md's meaning of converged, word by word | - |
| `Evaluation` | one call of `evaluate_app`, on any application and any tree | `ArgoApplication` |
| `MCArgoApplication` | the applications that a run enumerates | `Evaluation` |
| `DeploymentVerifier` | `verify()`: the sampling loop, its requests and its clock | `ArgoApplication` |
| `DeploymentVerifier_proofs` | theorems and proofs, also about `Evaluation` | `DeploymentVerifier`, `Evaluation`, TLAPS |
| `MCDeploymentVerifier` | application states in the middle of a rollout | `DeploymentVerifier` |
| `OrphanCleanup` | the cleanup Job beside the application | - |
| `OrphanCleanup_proofs`, `MCOrphanCleanup` | theorems and proofs; symmetry | `OrphanCleanup` |
| `SealedSecrets` | `generate-sealed-secrets.sh`, run after run | - |
| `SealedSecrets_proofs`, `MCSealedSecrets` | theorems and proofs; requests and exported variables | `SealedSecrets` |
| `Initialization` | the initialization Job, attempt after attempt, and the post-sync hook | - |
| `Initialization_proofs`, `MCInitialization` | theorems and proofs; two images, two schema branches | `Initialization` |
| `VeleroBudget` | the worst case of the CI check, and the namespace whose pods the quota admits | - |
| `VeleroBudget_proofs`, `MCVeleroBudget` | theorems and proofs; revisions | `VeleroBudget` |

The groups (file backup, verifier, cleanup, secrets, initialization, Velero
budget) share no state and are checked apart. The cleanup deletes from buckets that the backup reads: for the
backup that is `SourceDelete`.

### The file backup

**One call is one action.** An action stands for one call to the object store
with the local computation around it; the calls of one copy are two actions,
the reading and the write, and are modelled one by one in `CopyStream`. In a restore
a third one compares what was stored: the code publishes the object of the drill
prefix, reads it back, and refuses it only then if its digest is not the manifest's.
A run may stop before any call (`Abandon`,
`AbandonPrune`): an S3 error, a deadline, an eviction. A write whose effect lands
and whose answer is lost is the second alternative of `CopyObject`,
`PutManifest`, `PutMarker`, `DeleteMarker`, `DeleteManifest`, `DeleteBatch` and
`RestoreObject`: the bucket changes and the run ends as failed. A batch deletion
may take any part of its keys and report an error for the others. A retried
CronJob Pod takes a new snapshot identity, so a retry is another run.

**State and code.** `pc[p]` is the place in `backup()` of the run whose snapshot
identity is `p`, `mem[p]` its local variables (`inventories`), `stage[q]` and
`job[q]` those of a prune (`complete`, `reported`, `now`, the loops' positions),
`step[x]`, `rest[x]` those of a restore, and `hand[x]` what it has opened and
not yet compared. `marker[p]`, `manifest[p]`, `body[p]` and
`entries[p]` are the keys below one snapshot prefix: `COMPLETE.json`,
`manifest.json`, the copies, and what the manifest lists. `stamp[p]` is the
capture time in the identity. `published`, `truth`, `spoiled` and `unfinished` are
history: no action reads them to decide anything.

**Abstractions.**

- A version number stands for an object's bytes and the identity a listing
  shows: ETag, size, `LastModified` in whole seconds. Two writes of the same
  bytes within one second are one version: the code cannot tell them apart, and
  a restore gives the same bytes for both.
- A stored copy whose bytes no longer hash to the recorded SHA-256 is `Damaged`.
- `_copy_stream` is two actions, `OpenObject` and `CopyObject` (in a restore
  `OpenCopy` and `RestoreObject`): the version is fixed when the source is opened,
  and stored at a later moment, when the source or the point may have changed or
  be gone. That the many calls of the code amount to these two is
  `RefinesAtomicCopy` (below).
- `MAX_MANIFEST_BYTES` is `MaxEntries`, in entries.
- Listing all prefixes, and all keys of one prefix, is one action; the inventory
  of a source bucket, where writes race it, is one action per key slot.
- Damage to a marker that leaves invalid UTF-8 ends a prune with an unexpected
  error rather than a report: that is `AbandonPrune`, which is allowed anywhere.
- Command-line and configuration errors end a command before its first call and
  change nothing; the assumptions on the constants say what a valid
  configuration is.

### The chunked copy

`CopyStream` has several copies to one key, as two restores into one prefix make
them, and a source that is overwritten and removed at any moment. `stage[c]` is
the next call, `mem[c]` the arguments (`asked`: what was listed; `matched`: an
ETag was given) and the local variables (`sent` stands for `total`, `digest`
and `parts`, which grow together). A version is its number of chunks and an
identity; a version of the same length with other bytes is another version.
The SDK repeats a call up to `Attempts` times (`retries` in `build_client`), so a
call may have an effect more than once: `Lost` is the effect without its answer,
and a try without effect is no step. `open[c]` are the uploads that the store
keeps, numbered by the try that made them: a repeated creation makes a second
upload, and only the one that is answered has a name. A response need not have
a length (the code allows for that), so a body that is cut looks like its end.
`unanswered` and `reported` are history. The bytes of a part and the metadata are
left out. `DestinationIsACopy` and `CopyIsWhole` say what may be stored of a
version that is longer than was listed: only without an ETag and without a
length, and a restore then compares the digest of the manifest
(`CompareObject`).

### The deployment verifier

`now` is `elapsed`, `at` the place in `verify()`, `items` and `trees` the answers of one
`snapshot()`, `report` whether the last `SnapshotReport` is clean, `streak` the
variable of that name. `busy`, `began`, `sound`, `proven`, `ended`, `spaced` and `trouble`
are history. Argo CD is not assumed to behave: each request may be answered with any
state of a set, late, malformed, with a denial or not at all, so two answers of
one sample may come from different moments of a rollout. Time is counted in
units and passes during requests (at most `RequestTimeout`, and not beyond the
deadline, as `_get` cuts it), sleeps, and delays of the process (`Lag` in all); the
local computation takes none. The progress messages and `taken` are left out.
An application's revisions, health values and phases are members of small
sets that keep what the code tells apart: a Helm chart, the repository at a
branch or at a commit, and a source whose revision cannot be told.
`Converged` is README.md's meaning of the word, by which every repository source is
at the triggering commit. The code lets one that is pinned to a commit be at that
commit (`_source_expectation`); what it then asks for is `ConvergedToPins`, and no
other difference is allowed for.

### Orphan cleanup

`bucket`, `rows` and `refs` are the objects below `invenio-rdm/files`, the
`FileInstance` rows and the `files_object` rows. One query is one action; a walk
visits each object on its own, whatever is there when it starts and perhaps
what is stored later. `fs.walk` (`orphan-cleanup-configmap.yaml:36`) is called without
`on_error`, whose default in fsspec is to pass over a directory that cannot be listed
(`OmitDirectory`); every other call that fails ends the Pod (`Die`). The application is external: it stores an object, then
commits the reference (or fails), shares a file between records, and drops
references. `raced` (history) holds the files whose upload was open between the
reading of the references and the end of the Pod that read them.

### Secret generation

A run is a list of steps `todo`, one for each file that is written or sealed, in the
order of `main`. A value drawn in a run is the run's number. `Content` says what
each sealed file is made from: shell variables for `seal_literals`, plaintext files
for `seal_file` and `seal_env_file`. A failing pipeline leaves the sealed file cut,
because the shell empties it first. `torn` (history) holds the sealed files that
are older than their plaintext. Users, URLs and formats are left out where one
value has one consumer.

### Initialization Job and hook

`step` is the next command of the Job's script, `left` what a command that makes
several things has still to make: it makes them one by one and may die between
any two (`Die`: a failing command, the deadline, an eviction). `backoffLimit: 0`
means that nothing restarts it; `Apply` is the operator who deletes the Job and
applies it again, rendered with the image that Git pins by then (`release`).
`schema` is the revision of each Alembic branch, one number per branch, and an
image is the heads it knows; `alembic upgrade` to an older image is an error.
`index init` fails at the first alias that exists before it; a custom field lives
in the mapping of its alias. `hook` is the next check of the post-sync hook, which
runs in the image of its sync (`synced`), beside a Job that may be running. The
broker may lose a queue and the search engine an alias. `excused`, `torn`,
`steady` and `ready` are history. Waiting for the services is one step; the two
scripts' other reads (`custom-fields exists`, role and permission queries) are
part of the step that uses them.

### The Velero budget

`CountedPods`, `CountedSize`, `Budget`, `Hard` and `Accepted` are the script,
as functions of a manifest: sizes per kind of pod (0 for one that is left out,
as `get(..., 0)` has it), movers per node, scheduled namespaces, the quota.
`Unit` is what a conversion rounds down to (`_memory_mib`: whole MiB). The state
is the cluster: `main`, `velero` and `quota` are the revisions that are merged and
synced, `now` and `before` the pods with the sizes of the synced and of the previous
revision. `Admit` is the quota's admission with the LimitRange's defaults. What
the controllers want is read off the chart as the script's docstring does: one
server and one more during a rollout, a node agent per node, movers per node, one
maintenance job per repository.

## 3. Properties

| Property | Kind | Says | Where it could go wrong |
|---|---|---|---|
| `TypeOK` | invariant | types, one per component; a part of `BackupInv`, `CopyInv`, `Discipline` and `CompleteInv` where there is one | - |
| `CaptureIsAnInstant` | invariant | a certified point lists what the sources held at one moment, although it was listed and copied object by object | `_assert_stable`, `If-Match`, the second inventory |
| `CertifiedIsReadable` | invariant | a certified manifest is within the size its readers accept | the read-back with `MAX_MANIFEST_BYTES` |
| `CertifiedIsEntire` | invariant | a marker never stands on a point without its manifest or an object, at no moment and however a command ends | marker last on capture, first on deletion |
| `NewestIsKept` | invariant | a newest point that was ever certified, and its peers of the same capture time, keep every key | `strictly_newer`, verification before the first deletion, two prunes |
| `RefusesUnsoundBucket` | invariant | a prune that deletes saw no unsound point and no prefix left behind by a dead run | reports of every stage |
| `RestoreIsFaithful` | invariant | a restore that completes restored a certified point exactly, as of one instant, if its prefix is its own or shared only with restores of the same point that have not failed and have no damaged copy in hand | the digests, compared after the copy is published, and prunes and damage meanwhile |
| `RefinesCatalog` | refinement | the bucket implements `PointCatalog` | everything above together |
| `EveryCommandEnds` | liveness | every command that starts ends | loops over points, objects and batches |
| `CommandsRunOut` | action property | each call of a backup, a started prune or a restore, and its end, spends one of a bounded number of calls that it has left, and no other command and no change of the bucket gives it more | a batch sent again after its error, a walk that grows while others add points or objects |
| `BackupInv` | invariant | the inductive invariant of section 6 | - |
| `CopyIsWhole` | invariant | the destination never holds a part of an object, and a copy with an ETag that succeeds stored the listed version | bodies that are cut or too long, overlapping copies, repeated calls |
| `NothingLeftSilently` | invariant | a copy that ends leaves no multipart upload it does not report, but one the store never named | the abort and its own failure |
| `RefinesAtomicCopy` | refinement | the calls of a copy implement `AtomicCopy`: one version, read at one moment, stored whole at one later moment | `If-Match`, the completion and its repetition |
| `EveryCopyEnds` | liveness | every copy ends | retries of the SDK |
| `CallsRunOut` | action property | each call of a copy, answered or lost, spends one of a bounded number of calls that it has left, and nothing else gives it more | a call repeated without counting the try, a source that changes under a copy, bodies that are cut or too long |
| `CopyInv` | invariant | the inductive invariant of section 6 | - |
| `CleanIsConverged` | invariant | `evaluate_app` calls an application clean exactly if README.md:143-158 calls it converged; one with pinned repository sources exactly if it is at its pins and all else in README.md holds (see section 5) | an old failure that blocks, a new one that is excused |
| `PassIsEarned` | invariant | a run that passes saw `Samples` samples in a row, spaced, in time, each of every application, converged in the words of README.md, at its pins if it has any | an error that keeps the report before it; answers of different moments |
| `EndsByDeadline` | invariant | no request, sleep or sample carries a run beyond its deadline | the cut of sleeps and requests |
| `NoFalseTimeout` | invariant | a run that times out met trouble so late that the intervals before enough further samples, what its requests took since and what its process was kept waiting reach the deadline | sleeps or samples that take the time a recovery needs |
| `EveryRunAnswers` | liveness | every run passes, times out or is denied | retries |
| `StepsRunOut` | action property | every step of a run, and every delay, spends one of a bounded number of steps that are left | an answer awaited twice, a sample that starts over at once after an error |
| `Discipline` | invariant | the inductive invariant of section 6 | - |
| `SettledFilesAreKept` | invariant | a referenced file loses its object only if its upload overlapped a cleanup | retries with old references, shared files, deleted drafts |
| `DoneIsClean` | invariant | a Job that completes leaves no object that was a leftover when its last Pod read the references, but in directories which that Pod could not list | a walk beside changes, failed removals passed over |
| `CleanupInv` | invariant | the inductive invariant of section 6 | - |
| `ReferencedFilesAreKept` | invariant | documented, and violated: see section 5 | the window between query and removal |
| `PlaintextIsSealed` | invariant | the plaintext is that of the sealed file unless a run died between the two | partial runs |
| `ConsumersTakeWhatIsSealed` | action property | Velero and Invenio take the MinIO credentials that are sealed, value by value, or those exported to the run; only a run that does not make MinIO's, after one that died making them, may take others | the pair is written in two files, variables are exported to some runs |
| `CompleteRunAgrees` | invariant | a complete run leaves MinIO's credentials alike for MinIO, Velero and Invenio, the database password for Invenio and the database, and GHCR's for both of their holders, but for what is exported to that run; and mends all that dead runs have torn, but for a tunnel token that it skips | order of the components, files that dead runs have left |
| `PasswordsMatch` | invariant | documented, and violated with an exported URI: see section 5 | two sources of one value |
| `PasswordsDifferOnlyByUri` | invariant | the password of Invenio is the database's, or a database URI that some run was given has brought it in, unless a run died between sealing the two | two sealed files, one draw |
| `CompleteInv` | invariant | the inductive invariant of section 6 | - |
| `CompletedIsInitialized` | invariant | a Job that completes made everything, also what it does not verify, whatever attempts and images came before; of the aliases only those that an index init never made may be missing | guards that skip a command because part of its result exists |
| `RetryFailsOnlyForCause` | invariant | an attempt is stopped by nothing that an earlier one left, but incomplete aliases and a newer schema | commands that fail when repeated |
| `GreenIsReady` | invariant | the five checks of a hook that passes hold together in the end | five moments, beside a Job that runs |
| `CompletedIsGreen` | invariant | after a Job of the synced image completed, the hook finds nothing missing | two scripts written apart, images that move |
| `InitializationInv` | invariant | the inductive invariant of section 6 | - |
| `RefusedOnlyForCause` | invariant | the quota refuses a pod of an accepted revision only if the quota's application is behind, pods of an earlier revision are larger or more, or a size is not counted in full | two applications, rollouts, rounding |

`PointCatalog` is the promise in terms an operator uses: a point is certified
once; a certified point is withdrawn only when it is older than the retention
period and, at that very moment, a strictly newer point is certified; nothing
else withdraws one, whether a crash, a concurrent command or a wrong clock (up
to `Skew`). Damage does not certify or withdraw anything.

## 4. Runs and bounds

| Run | Module / cfg | Question | Bounds and why they are enough |
|---|---|---|---|
| `capture` | `MCFileBackup` / `Capture` | is a certified point one instant of changing sources, and readable? | one run, three slots in two buckets, three changes; a violation needs one change of a copied object or one between two pages of a listing, two cover a change that is undone (deleted and written again), and the third is one in the other bucket; `MaxEntries` 2 makes the manifest limit bite |
| `lifecycle` | `MCBackupSystem` / `Lifecycle` | two backups, a prune, one fault | two points are the fewest where one supersedes the other; one fault reaches every report (with one object; what a deletion leaves of several is in `catalogue`); retention 1 and clock 2 make a point expire |
| `catalogue` | `MCCatalogue` / `Catalogue` | is a newest point ever lost, is a completed restore exact, does every command use up its calls and end? | starts from any catalogue that backups leave behind, certified and unfinished, with any capture times, so that the states of making it are not needed; then any two commands (two prunes, two restores, a backup, or one of each kind), or one beside the damage of one key and a change of the sources, or two restores of one certified point beside the damage of one key, so that one may store, and read back, a damaged copy while the other ends: two are the fewest that can overlap, two objects the fewest where a walk, or a batch of keys, can be half-way (a batch takes both, and may delete any of them and fail; more batches than one are left to the theorems, which hold for every batch size), two prefixes so that restores share one or not, `Skew` 1 the least by which clocks disagree; no symmetry, because it checks liveness under the fairness of section 7. Longer chains of superseded points are covered by the theorem `Spec => []Safety`. That what was captured is one instant is `CaptureIsAnInstant`; with an exact restore of it, what comes back is one instant too |
| `copy` | `MCCopyStream` / `Copy` | is a copy ever stored in part, does it leave an upload behind, does it amount to one reading and one write, does it end? | two copies of one source to one key; an empty version, one of one chunk and one with one chunk more than the store accepts in an upload, so that a body can be cut, too long or too large; two tries, the fewest where a call takes effect twice |
| `evaluation` | `MCArgoApplication` / `Evaluation` | does clean mean converged, and what does it mean for pinned sources? | every application with one or two sources, pinned ones among them, and no hook, or one source and one hook, with each phase and health: the rules look at each hook alone and at all sources |
| `verify` | `MCDeploymentVerifier` / `Verify` | is a pass earned in the middle of a rollout, the deadline kept, a timeout deserved, and does the run answer? | two applications, three states each, three hook healths, two samples: the fewest where a streak can be broken and applications can disagree; interval 2 is the least with a sleep the deadline cuts short, and deadline 10 leaves room to lose a streak and to regain it: a sample has at most 3 of requests and the sleep between two is 2, so that a run without trouble always passes, and one with an early trouble recovers unless its requests are slow |
| `cleanup` | `MCOrphanCleanup` / `Cleanup` | what can a cleanup cost? | three files (more than `Limit`), two holders, so that files are shared, two days, one retry; any directory may fail to be listed |
| `cleanup_race` | `MCOrphanCleanup` / `CleanupRace` | expected violation, section 5 | one file, one Pod |
| `secrets` | `MCSealedSecrets` / `Secrets` | do all copies of a credential agree? | three runs: one to set up, one that dies, one that follows; the documented requests and five sets of exported variables, a database URI among them |
| `secrets_uri` | `MCSealedSecrets` / `SecretsUri` | expected violation, section 5 | one complete run |
| `initialization` | `MCInitialization` / `Initialization` | does a Job that completes, after attempts that died, mean a complete instance, and what does a green or a red hook mean? | two images, of which the second moves one of two branches; two aliases, each with a custom field, so that `index init` and the fields can be half-done; three queues, one of them not verified; three attempts (one that dies, one that meets its rest, one that follows), two moves of the pin (there and back), one loss |
| `velero` | `MCVeleroBudget` / `Velero` | what can the quota refuse that the check accepted? | seven revisions: one that fits exactly, larger and smaller pods, a further namespace, a size left out, a size that is not a whole number of units, and one that is rejected; pods of two revisions at a time; each of the three causes occurs, and without naming it the invariant fails |

`MaxRuns`, `MaxDays`, `MaxClock`, `MaxFaults`, `MaxChanges`, `MaxAttempts`, `MaxMoves` and
`MaxLosses` bound counters in the guards; each slot, command and copy runs once, so
every behaviour of those modules ends, and their configurations turn deadlock
checking off for that reason. The Velero model never stops and is checked for
deadlock. Identities, commands and prefixes are
symmetric in the safety runs `lifecycle` and `cleanup`; the runs that check
liveness (`catalogue`, `copy`, `verify`) use no symmetry. Every property
has a mutant: a plausible bug in the code (a point deleted because of a peer
of the same age, the marker deleted last, a comparison left out) that makes it
fail under the same configuration. The mutated forms stand beside the operators
they replace and are not used anywhere else.

## 5. Findings

**A cleanup removes a file that is referenced (`cleanup_race`).** The script's
docstring says that it deletes objects "with no live object reference". It reads
the references once (`orphan-cleanup-configmap.yaml:28`) and walks the bucket
afterwards. An upload that stored its object before the walk reaches it, and
commits its reference after the query, loses the object although the reference
is there. `SettledFilesAreKept` says that no other file is at risk. A grace
period (removing only objects older than the longest upload) would close the
window.

**The database password differs (`secrets_uri`).** A comment says that the
database's secret is sealed "so the DB password matches"
(`generate-sealed-secrets.sh:255`). If `INVENIO_SQLALCHEMY_DATABASE_URI` is exported and
`INVENIO_DB_PASSWORD` is not, the URI's password goes to Invenio and a newly drawn
one to the database. Without that variable the passwords match (`secrets`).

Observations that the checks above do not rest on, for the maintainers:

- *Restores that start together.* `docs/operations.md:296` says that the restore
  "command refuses a non-empty drill prefix". The prefix is checked once
  (`S3:946`) and written later, with plain puts: two restores that start together
  both find it empty and both write. Each object is published (`S3:576`) and read
  back (`S3:612`) before its digest is compared with the manifest's (`S3:965`), so
  that a restore may complete while another has put a damaged copy over one of its
  objects and has not refused it yet. `RestoreIsFaithful` states what still holds
  then.
- *Pinned sources.* README.md:147-149 demands "the triggering commit for repository
  sources", and README.md:157 calls the triggering revision "an exact match". The code
  (`deployment-verifier.py:142-143`) accepts a repository source that is pinned to another
  commit and is at that one. `CleanIsConverged` says that nothing else distinguishes
  the two; no tracked Application pins a source of this repository today.
- *Directories that cannot be listed.* The cleanup's docstring promises to delete the
  "S3 objects [...] with no live object reference" (`orphan-cleanup-configmap.yaml:10`).
  A listing that fails inside `fs.walk` is passed over in silence and the Job completes;
  the leftovers stay until a later day's walk lists that directory.
- *Runs for single components.* `main` initializes every `want_` flag but
  `want_image_updater` (`generate-sealed-secrets.sh:405`); under `set -u` any run
  that names neither `all` nor `image-updater` ends there with an unbound variable,
  after its files were written and sealed. README.md:382-385 documents such runs.
  The model has that end as `UnboundVariable`. (The usage text also lists
  `git-credentials`, which `main` does not know.)
- *Aliases that were half made.* An `index init` that dies leaves some aliases. If
  `rdmrecords-records` is among them, later attempts skip the step and complete,
  and the hook passes, with aliases missing; README.md:198-201 and
  `docs/operations.md:77-80` say that the hook verifies "search index aliases". If it
  is not among them, every later attempt fails in `index init`. This is the
  `torn` of `CompletedIsInitialized` and `RetryFailsOnlyForCause`: it is the one
  leftover of an attempt that the script does not recover from.
- *Uploads without a name.* If the answer to `create_multipart_upload` is lost, the
  SDK repeats it and the first upload stays in the destination although the
  copy succeeds: nothing in the code lists or aborts it (only a lifecycle rule
  would). Conversely "cleanup failed" may be reported when nothing is left: an
  abort whose first try landed finds no upload on the second.
- *Large objects.* An object of more than 10,000 parts (about 78 GiB, as the
  comment at `S3:486` says) can never be captured, and since every object must be,
  neither can its bucket.
- *The Velero budget.* Each cause in `RefusedOnlyForCause` occurs. A revision that
  shrinks pods and quota together is accepted, but while its rollout replaces
  larger pods, or while the application of the quota is synced before that of
  Velero, a pod may be refused until they are gone. A size that is left out counts
  0 in the budget although the LimitRange gives it a default. `_memory_mib` rounds
  down to MiB and `_cpu_millis` truncates `float * 1000` (`"2.01"` becomes 2009).
  The model assumes that what is merged was accepted as a whole; with
  `"strict": false` (`setup-branch-protection.sh:33`) two changes that were each
  accepted may together make a revision that was not.
- *Rotation.* Rotating `minio grafana velero`, as README.md:385 shows, leaves Invenio
  with the MinIO credentials from before.
- *Slow samples.* With the real values of the verifier's constants (18
  applications, 15 s a request) one sample may take 285 s, so that three of them
  and the sleeps may exceed the 900 s of the deadline when the API is slow. A run may
  then time out although nothing was ever wrong: `NoFalseTimeout` counts the time that
  requests did take, not what they may.
- *Runs that follow a dead one.* If a run dies between writing MinIO's user and sealing
  the pair (`generate-sealed-secrets.sh:168-171`), a later run for Velero or Invenio alone
  loads the files and seals a pair that MinIO does not have. A run that makes MinIO's
  credentials again repairs it (`ConsumersTakeWhatIsSealed`, `CompleteRunAgrees`).

## 6. What is proved

### The file backup

`BackupSystem_proofs` and `BackupContents_proofs` hold the theorems, for every set of points, prunes, restores
and prefixes, every number of objects, every retention, tolerance, batch size
and skew, and with no bound on faults or changes other than being a number:

| Theorem | Statement |
|---|---|
| `TypeCorrect` | `Spec => []TypeOK` |
| `SafetyHolds` | `Spec => []Safety` |
| `CertifiedIsAlwaysEntire` | `Spec => []CertifiedIsEntire` |
| `NewestIsAlwaysKept` | `Spec => []NewestIsKept` |
| `ImplementsCatalog` | `Spec => RefinesCatalog` |
| `CapturesAreAlwaysRight` | `Spec => []CapturesAreRight` |
| `CaptureIsAlwaysAnInstant` | `Spec => []CaptureIsAnInstant` |
| `CertifiedIsAlwaysReadable` | `Spec => []CertifiedIsReadable` |
| `UnsoundBucketIsAlwaysRefused` | `Spec => []RefusesUnsoundBucket` |
| `RestoreIsAlwaysFaithful` | `Spec => []RestoreIsFaithful` |
| `BackupInvHolds` | `Spec => []BackupInv` |
| `CommandsAreFinite` | `Spec => CommandsRunOut` |

The assumptions are those the modules name (`StoreAssumption`,
`BackupAssumption`, `PruneAssumption`), evaluated by TLC in every run.

**The argument.** A prune deletes long after it looked, so that what justified
the deletion may itself have been deleted. `CertifiedIsEntire` alone is not
inductive, and neither is `NewestIsKept`. The invariant `Safety` adds:

- `CertifiedOrSuperseded`: every published point is certified, or a strictly
  newer point is certified *now*. When a prune takes a marker away, the point
  that superseded it may be gone, but then that one is superseded in turn by a
  certified point, which is newer still. No set of prunes can therefore empty
  the bucket: a newest published point is not superseded, so it is certified.
- `RunIsHonest`: what a run has stored agrees with what it remembers, object by
  object and stage by stage, up to damage; its prefix is its own until then.
- `PruneIsRight`: whatever a prune still means to delete is published, expired and
  superseded, and a point in the hands of the deletion has no marker any more.

With `Safety`, a `DeleteMarker` maps to the catalogue's `Withdraw`, `PutMarker` to
`Certify`, `Start` to `Begin`, `Tick` to `Pass`, and every other step to a stutter.
The proof has one lemma per action and splits each by the conjuncts the action
can disturb.

`BackupContents_proofs` adds five more parts to `Safety` and the types; together they are
`BackupInv`, which the run `lifecycle` checks (without restores: `catalogue` checks
what `DrillsAreRight` is for, `RestoreIsFaithful`). The first four rest on one lemma,
`PublishedOnlyDecays`: whatever step is taken, the run of a published point has
ended, its entries never change, and each of its keys can only be damaged or deleted.

- `CapturesAreRight`. A version is never reused, so an object that the application
  touches differs from then on from everything a run remembers. During the second
  walk, a slot that the walk has passed without drift agrees with the sources at the
  last copy; a slot it has not reached may disagree, but then the walk will see
  drift there. Two facts make the walk complete: the slots of the buckets before
  the one in hand are behind it, and so is every slot before the one it takes. The
  manifest is made of the same listing, read back within the limit, and never
  changes after it is certified.
- `PointsAreIntact`. A published point holds nothing but its entries, damaged ones
  and gaps. With it a mismatch is always at a *listed* object, which the verification
  of a prune reads, and a point that is unsound once is never sound again
  (`DecayIsNoRepair`).
- `VerdictsAreRight`. As long as a prune has reported nothing, each flaw of a point
  that was unsound when the prune listed it is still *ahead* of it, at the stage that
  reports that kind of flaw: the marker, the manifest, the copies, and last the foreign
  keys. When the audit is over nothing is ahead, so a prune that goes on had
  found no flaw; and a prefix without a certified point has been reported at its
  marker, unless its run has certified it since.
- `DrillsAreRight`. A restore reads a published point, whose entries do not change, has
  in hand what the point lists or a damaged copy, and every object it no longer has to
  restore is in place. It relies on `Alone`: a restore with a damaged copy in hand can
  only store it and fail, so that `Alone` can be lost as other restores start, open and
  fail, but never gained, and what holds while it holds has held since the prefix was
  found empty.
- `WorkIsFinite`. The identities are as many as one likes, so that "a prune walks all
  points" says nothing about its end. But only a run, or somebody's own key, adds keys
  to a prefix, and a step does so under one prefix at most (`KeysOfOnePoint`); so the
  prefixes that a prune finds are finitely many at any moment, and so are the points
  it has to reach or has loaded. A prune that sends a batch has keys for it.

`RunLeft`, `PruneLeft` and `RestoreLeft` count the calls that a command may still make
from what it remembers. The hard one is `PruneLeft`: a point is worth more while it has
to be loaded than once it has loaded, the stages that follow are paid for in advance
by what loaded, and what the audit lets through to deletion is only known to be a part
of that. The proof states once what each step does to these sets (`PruneMove`), and both
`WorkIsFinite` and the counts (`RunCounts`, `PruneCounts`, `RestoreCounts`) read it off.
Prunes that have not started are left out of `CommandsRunOut`: how many calls one would
make is known only when it has listed the bucket.

**Only model-checked:** `EveryCommandEnds` itself (liveness under fairness is out of the
prover's reach). `CommandsRunOut` is its safety half: no command goes on for ever. What
is left to TLC is that a command which has not ended can always take a step, and does.

### The deployment verifier

`DeploymentVerifier_proofs`, for every number of applications, samples and hooks,
every set of answers and every timing that `VerifierAssumption` allows:

| Theorem | Statement |
|---|---|
| `DisciplineHolds` | `Spec => []Discipline`, types included |
| `PassIsAlwaysEarned` | `Spec => []PassIsEarned` |
| `DeadlineIsKept` | `Spec => []EndsByDeadline` |
| `TimeoutIsDeserved` | `Spec => []NoFalseTimeout` |
| `RunsAreFinite` | `Spec => StepsRunOut` |
| `CleanMeansConverged` | `Clean(a, t) <=> Converged(a, t)` for every application `a` without pinned repository sources and every tree `t`; `Clean(a, t) <=> ConvergedToPins(a, t)` for every application |
| `VerdictsAreConverged` | `EvaluationSpec => []CleanIsConverged` |

`PassIsEarned` speaks of a finished run only. `StreakIsProven` carries it through the
loop: the streak never exceeds the samples that the history knows to be sound,
and a clean report in hand comes from a sound sample. `TimeIsAccounted` does the
same for `NoFalseTimeout`: the time since the last trouble is at most an interval for
each clean sample and the one in hand, what the requests have taken since (`busy`), and
the delays. The product of a symbolic streak and a symbolic interval is handled by a
lemma (`OneMore`), and the rest is linear.

A sound sample is one in which every application is `ConvergedToPins`: README.md's words
and not the code's, but for the revision of a pinned repository source. That the code's
verdict means the same, and README.md's own word where nothing is pinned, is
`CleanMeansConverged`, for every number of sources and hooks, where the run `evaluation`
has at most two and one. The hard part is the operation: the code excuses an old
operation by what it *targets* (`Historical`), README.md by what it is *about*
(`AboutAnother`). The two agree only once the revisions of the application match, which
is why the proof takes the revisions first and the operation under that assumption;
while an older release is still deployed, a failed operation on the new one is about
another revision than the one observed, and yet no history.

`EveryRunAnswers` itself is liveness and stays with TLC, but its safety half is
proved: `StepsLeft` is a number, and each step makes it smaller. It counts a sample
for every unit of time before the deadline (a sample that leads to another one is
followed by a sleep of at least one unit, or by the deadline), the steps that are
left of the sample in hand, and the delays. So no run takes infinitely many steps,
whatever the API answers; that a run without an answer can always take one is left
to `EveryRunAnswers`.

### Orphan cleanup

`OrphanCleanup_proofs`, for every number of files, holders, Pods and days:
`TypeCorrect`, `RemovalsAreSafe` (`Spec => []CleanupInv`), `SettledFilesAreAlwaysKept` and
`DoneIsAlwaysClean`. `SettledFilesAreKept` is not inductive: what a Pod is about to
remove depends on what it read before. `RemovalIsSafe` adds that every referenced
file is in `live` or `raced` during the walk and that rows to be cleared stay
unreferenced (a reference is only copied from another one); `WalkIsComplete` says
that leftovers are pending until they are gone, or were in a directory that the walk
passed over, and are not stored again.

### The chunked copy

`CopyStream_proofs`, for every set of copies and versions, every length, every
number of parts the store accepts and of tries the SDK makes: `TypeCorrect`,
`CopyInvHolds` (`Spec => []CopyInv`, types included), `CopyIsAlwaysWhole`, `NothingIsLeftSilently` and
`ImplementsAtomicCopy` (`Spec => RefinesAtomicCopy`). `CopyIsWhole` is not inductive:
what is in the destination was put there by a copy that has long gone on, and
what a copy will store depends on what it has read. `CopyInv` ties the three: what
a copy has read is what it was asked for, if it gave an ETag; what it has sent
has the length it was asked for whenever the next call may make it visible; the
uploads it has open are the one it will complete or abort, and those it could not
name; and the destination is what some copy was asked for and has read. The
refinement maps a stage to a phase by what has landed, not by what was answered:
a completion whose answer is lost has stored the object, and a second completion
of it is a stutter.

`CopiesAreFinite` (`Spec => CallsRunOut`) is the safety half of `EveryCopyEnds`:
`CallsLeft` weighs the calls that may follow the one in hand by the tries of the SDK,
and a call that goes on, fails or is repeated always makes it smaller. It needs
`CopyInv` for the bound of the parts sent (`MaxParts`, the limit of 10,000). The liveness
itself, under fairness, is model-checked only.

### Initialization Job and hook

`Initialization_proofs`, for every set of images, branches, aliases, fields and
queues and any number of attempts, moves and losses: `TypeCorrect`, `InvHolds`
(`Spec => []InitializationInv`), `CompletedHolds`, `RetryHolds`, `GreenHolds` and
`CompletedGreenHolds`. The invariant says, for each command that the Job has
passed, that what it makes is there (rows for good; aliases, fields and queues
unless something was lost), what a command in progress has made, that aliases
are all or none unless an index init was torn, and that a steady hook still finds
what it has found: nothing but a migration can falsify a check, and a migration
by the Job ends the steadiness.

### The Velero budget

`VeleroBudget_proofs`, for every set of revisions, every manifest, unit and default
that `BudgetAssumption` allows: `TypeCorrect` and `BudgetHolds`
(`Spec => []RefusedOnlyForCause`). The proof is arithmetic: without the causes,
rounding loses nothing, the size of a pod in the cluster is the counted one times
its unit, pods of the earlier revision are not larger, the pods present with the
one that is wanted are at most the counted ones, and the sum of products that the
cluster uses is then at most the sum that was compared with the quota.

### Secret generation

`SealedSecrets_proofs`, for every set of requests and of environments and any number
of runs: `SecretsInvHolds` (`Spec => []SecretsInv`, types included), `CompleteInvHolds`,
`PlaintextIsAlwaysSealed`, `MinioIsAlwaysMended`, `ConsumersAlwaysTakeWhatIsSealed`,
`CompleteRunAlwaysAgrees`, `PasswordsAlwaysDifferOnlyByUri` and `PasswordsAlwaysMatch`, the last
one where no environment has a database URI (with one it is false, see section 5). `PlaintextIsSealed` is not inductive: `Seal` seals MinIO's
credentials from the shell variables, not from the file, so that the two must be known
to agree at that step and at no other. They do because main makes some steps only together.
`Links` lists these pairs. A first group of lemmas (`ClosedConcat`, `PlanClosed`) shows
that every plan that main puts together keeps them together, whatever was asked for, and
a second one (`TailLinked`, `Follows`) that taking a step keeps the rest so, which says
what came right before each sealing. `StepIsReady` says what that step has left,
`RootIsWritten` and `WrittenIsSealed` that a run which makes no MinIO credentials knows,
value by value, none but those exported to it or else written and, if no run died there,
sealed. A run that does make them may find them torn by an earlier one: `MinioIsMended`
says that it has not sealed them yet as long as they are torn, and, because every plan seals
them before anything loads them (`PlanSealsInTime`), that they are whole by the time Velero
or Invenio takes them.

`CompleteRunAgrees` speaks of a run that has ended, and of files that earlier runs, partial
or dead, may have left in any state. `CompleteInv` adds what a complete run knows on its
way, none of which depends on those files: what is left of it is the end of one fixed plan,
so the number of steps left says where it is; the MinIO credentials are drawn first and
never change within the run; the keys of each consumer follow from them; the password in
Invenio's URI is the one it seals for the database, but for an exported URI; and a file that
it has sealed stays as it is, because no later step of the plan writes its plaintext. A file
made from GHCR credentials is the exception, as the run skips it where there are none:
`SkippedIsWhole` says that it was then never torn.

## 7. Fairness

The backup's `Fairness` (of `LiveSpec` and of the run `catalogue`) assumes weak fairness
of the steps of each started command: a process
that can take its next step is scheduled, and a call to the store returns, with
a result or an error (the SDK's timeouts). Nothing is assumed of `Start`,
`ListPrefixes` and `StartRestore` (the operator or the schedule may never start a
command), of a crash, or of the application, the clock and the faults.

The `LiveSpec` of `CopyStream` assumes weak fairness of the steps of each copy: the
SDK's timeouts (`connect_timeout`, `read_timeout`) and its bounded retries bring every
call to an end. Nothing is assumed of `Begin`, of `Kill` or of the source.

The verifier's `LiveSpec` assumes weak fairness of `Step`: every request returns or
is cut off (`curl --max-time` and the timeout of `subprocess.run`), and the process
is scheduled again. Nothing is assumed of `Delay`. The workflow's own limit of 16
minutes is longer than the 15 of the deadline.

## 8. Not modelled, and why

- Manifests, Terraform and the settings of third-party software are declarative:
  what they do is decided by controllers outside the repository.
- The CI scripts other than the budget, the infrastructure check and the tunnel
  bootstrap compare static or remote state with fixed values in one pass. They
  have no state and no second actor.
- The worker health check asks one node for one pong and exits. Whether the answer
  arrives before the kubelet's timeout is a matter of the kubelet and of Celery:
  in the repository there is nothing that could go on wrongly after it. That the
  liveness probe may wait 30 s and is killed after 25 s
  (`invenio-worker-deployment.yaml:115`) stands as a hazard.
- `bootstrap-infra.sh` refuses to run when the namespace exists, so it can be neither
  repeated nor overlapped: a run that dies half-way has to be removed by hand, as
  its message says.
- Formatting, parsing and validation of single documents are reduced to whether
  they accept. The configuration of the file backup is constant: `validate_config`
  demands both production sources, so only a further source could be removed
  between two commands.

## 9. Plan

Done, in this order: the file backup with its catalogue; the deployment verifier;
the cleanup; the secrets; the chunked copy; the initialization Job with the hook; the
Velero budget.

Every safety invariant, action property and refinement that a passing run checks is
also stated by a theorem of section 6; the three liveness properties are model-checked,
each with its safety half (`StepsRunOut`, `CallsRunOut`, `CommandsRunOut`) proved.

What is left: a configuration of the file backup that changes between commands, for
sources beyond the two that are required.
