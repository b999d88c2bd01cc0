--------------------------- MODULE Initialization ---------------------------
(***************************************************************************)
(* The initialization Job of InvenioRDM and the read-only hook that Argo   *)
(* CD runs after a sync.  The Job's script makes what is missing, one      *)
(* command after the other, and then verifies it.  An attempt that dies is *)
(* not restarted: the operator deletes the Job and applies it again, with  *)
(* the image that Git pins by then, and the script meets whatever the      *)
(* attempts before it have left.  The hook checks five of the same         *)
(* postconditions, in five separate commands, for the image of its sync.   *)
(*                                                                         *)
(* A command that makes several things makes them one by one and may die   *)
(* between two of them.                                                    *)
(***************************************************************************)
EXTENDS Naturals, FiniteSets

CONSTANTS
    Branches,         \* Alembic branches
    Releases,         \* images
    Heads,            \* Heads[r][b]: the head of branch b in image r, 0 if none
    Aliases,          \* search index aliases
    Records,          \* the alias that step 5 looks for, rdmrecords-records
    RecordFields,     \* custom fields of records
    CommunityFields,  \* custom fields of communities
    Home,             \* Home[f]: the alias whose mapping holds field f
    Queues,           \* queues
    Checked,          \* those that are verified: the two of the statistics
    MaxAttempts,      \* bound: times the Job is applied
    MaxMoves,         \* bound: times Git pins another image
    MaxLosses         \* bound: aliases and queues lost

Fields == RecordFields \cup CommunityFields

ASSUME InitializationAssumption ==
    /\ Heads \in [Releases -> [Branches -> Nat]]
    /\ \A r \in Releases : \E b \in Branches : Heads[r][b] > 0
    /\ Records \in Aliases
    /\ Home \in [Fields -> Aliases]
    /\ Checked \subseteq Queues
    /\ MaxAttempts \in Nat /\ MaxMoves \in Nat /\ MaxLosses \in Nat

VARIABLES
    pin,      \* the image that Git pins
    schema,   \* schema[b]: the revision the database is at
    rows,     \* what else the database has been given
    aliases,  \* search index aliases
    fields,   \* custom fields in the mappings
    queues,   \* declared queues
    indexed,  \* every record is in the search index
    step,     \* the Job's next command
    left,     \* what that command has still to make
    release,  \* the image the Job was rendered with
    hook,     \* the hook's next command
    synced,   \* the image the hook runs in
    bounds,   \* attempts, moves and losses so far
    excused,  \* history: a command of this attempt failed, or something was lost
    torn,     \* history: an alias was lost, or an index init stopped half-way
    steady,   \* history: since the hook began nothing was lost and no revision moved
    ready     \* history: the hook began after this image's Job had completed

instance == <<schema, rows, aliases, fields, queues, indexed>>
job == <<step, left, release>>
hookVars == <<hook, synced, steady, ready>>
vars == <<pin, instance, job, hookVars, bounds, excused, torn>>

Facts == {"location", "role", "permission", "fixtures", "samples"}

\* The commands of the Job in their order.
Rank == [
    idle |-> 0, failed |-> 0, wait |-> 1, migrate |-> 2, location |-> 3,
    role |-> 4, permission |-> 5, list |-> 6, init |-> 7, rfields |-> 8,
    rexist |-> 9, cfields |-> 10, cexist |-> 11, fixtures |-> 12,
    samples |-> 13, declare |-> 14, rebuild |-> 15, heads |-> 16,
    default |-> 17, index |-> 18, declared |-> 19, admin |-> 20,
    complete |-> 21 ]

Running == DOMAIN Rank \ {"idle", "failed", "complete"}

Checks == {"heads", "default", "index", "declared", "admin"}

Items(s) ==
    CASE s = "migrate" -> Branches
      [] s = "init"    -> Aliases
      [] s \in {"rfields", "rexist"} -> RecordFields
      [] s \in {"cfields", "cexist"} -> CommunityFields
      [] s = "declare" -> Queues
      [] OTHER -> {}

TypeOK ==
    /\ pin \in Releases /\ release \in Releases /\ synced \in Releases
    /\ schema \in [Branches -> Nat]
    /\ rows \subseteq Facts
    /\ aliases \subseteq Aliases /\ fields \subseteq Fields
    /\ queues \subseteq Queues
    /\ indexed \in BOOLEAN
    /\ step \in DOMAIN Rank
    /\ left \subseteq Items(step)
    /\ hook \in Checks \cup {"idle", "wait", "green", "red"}
    /\ bounds \in [attempts : 0..MaxAttempts, moves : 0..MaxMoves,
                   losses : 0..MaxLosses]
    /\ excused \in BOOLEAN /\ torn \in BOOLEAN
    /\ steady \in BOOLEAN /\ ready \in BOOLEAN

\* A cluster that has just been bootstrapped.
Init ==
    /\ pin \in Releases /\ release = pin /\ synced = pin
    /\ schema = [b \in Branches |-> 0]
    /\ rows = {} /\ aliases = {} /\ fields = {} /\ queues = {}
    /\ indexed = FALSE
    /\ step = "idle" /\ left = {}
    /\ hook = "idle"
    /\ bounds = [attempts |-> 0, moves |-> 0, losses |-> 0]
    /\ excused = FALSE /\ torn = FALSE /\ steady = FALSE /\ ready = FALSE

-----------------------------------------------------------------------------
(* Git, Argo CD, the broker and the search engine. *)

Spend(what, bound) ==
    bounds[what] < bound /\ bounds' = [bounds EXCEPT ![what] = @ + 1]

MovePin ==
    /\ Spend("moves", MaxMoves)
    /\ pin' \in Releases \ {pin}
    /\ UNCHANGED <<instance, job, hookVars, excused, torn>>

LoseQueue(q) ==
    /\ q \in queues
    /\ queues' = queues \ {q}
    /\ UNCHANGED <<aliases, fields, indexed, torn>>

LoseAlias(a) ==
    /\ a \in aliases
    /\ aliases' = aliases \ {a}
    /\ fields' = {f \in fields : Home[f] # a}
    /\ indexed' = FALSE
    /\ torn' = TRUE
    /\ UNCHANGED queues

Lose ==
    /\ Spend("losses", MaxLosses)
    /\ (\E q \in Queues : LoseQueue(q)) \/ (\E a \in Aliases : LoseAlias(a))
    /\ excused' = TRUE /\ steady' = FALSE
    /\ UNCHANGED <<pin, schema, rows, job, hook, synced, ready>>

-----------------------------------------------------------------------------
(* The Job. *)

Go(s) == step' = s /\ left' = Items(s)

\* What the script does beside the instance: nothing.
Rest == UNCHANGED <<pin, release, hookVars, bounds, excused, torn>>

\* The rendered image is the one that Git pins now.  A Job that is running
\* is left to end.
Apply ==
    /\ step \notin Running
    /\ Spend("attempts", MaxAttempts)
    /\ release' = pin
    /\ excused' = FALSE
    /\ Go("wait")
    /\ UNCHANGED <<pin, instance, hookVars, torn>>

Wait ==
    /\ step = "wait"
    /\ Go("migrate")
    /\ UNCHANGED instance
    /\ Rest

\* The database is at a revision that the image does not know.
Newer == \E b \in Branches : schema[b] > Heads[release][b]

Migrate(b) ==
    /\ step = "migrate" /\ b \in left
    /\ ~Newer
    /\ schema' = [schema EXCEPT ![b] = Heads[release][b]]
    /\ steady' = (steady /\ schema'[b] = schema[b])
    /\ left' = left \ {b}
    /\ UNCHANGED <<pin, rows, aliases, fields, queues, indexed, step, release,
                   hook, synced, ready, bounds, excused, torn>>

MigrateRefused ==
    /\ step = "migrate" /\ Newer
    /\ Go("failed")
    /\ UNCHANGED instance
    /\ Rest

\* Mutant: the search index is not rebuilt.
AfterWithoutRebuild == [
    migrate |-> "location", init |-> "rfields", rfields |-> "rexist",
    rexist |-> "cfields", cfields |-> "cexist", cexist |-> "fixtures",
    declare |-> "heads" ]

\* Where the script goes when a command has made all it had to.
After == [
    migrate |-> "location", init |-> "rfields", rfields |-> "rexist",
    rexist |-> "cfields", cfields |-> "cexist", cexist |-> "fixtures",
    declare |-> "rebuild" ]

MadeAll ==
    /\ step \in DOMAIN After
    /\ left = {}
    /\ step = "migrate" => ~Newer
    /\ Go(After[step])
    /\ UNCHANGED instance
    /\ Rest

\* Ask for a row of the database, and make it if it is not there.
Provide(s, fact, next) ==
    /\ step = s
    /\ rows' = rows \cup {fact}
    /\ Go(next)
    /\ UNCHANGED <<schema, aliases, fields, queues, indexed>>
    /\ Rest

EnsureLocation == Provide("location", "location", "role")

\* Mutant: the role is made without asking, and making it twice is an error.
EnsureRoleBlindly ==
    /\ step = "role"
    /\ rows' = rows \cup {"role"}
    /\ Go(IF "role" \in rows THEN "failed" ELSE "permission")
    /\ UNCHANGED <<schema, aliases, fields, queues, indexed>>
    /\ Rest

EnsureRole == Provide("role", "role", "permission")

EnsurePermission == Provide("permission", "permission", "list")

RunFixtures == Provide("fixtures", "fixtures", "samples")
RunSamples == Provide("samples", "samples", "declare")

\* Mutant: any alias will do.
ListAliasesByAny ==
    /\ step = "list"
    /\ Go(IF aliases # {} THEN "rfields" ELSE "init")
    /\ UNCHANGED instance
    /\ Rest

\* Step 5 looks for one alias.
ListAliases ==
    /\ step = "list"
    /\ Go(IF Records \in aliases THEN "rfields" ELSE "init")
    /\ UNCHANGED instance
    /\ Rest

\* index init makes every alias, and ends at the first that exists before it.
InitAlias(a) ==
    /\ step = "init" /\ a \in left
    /\ a \notin aliases
    /\ aliases' = aliases \cup {a}
    /\ left' = left \ {a}
    /\ UNCHANGED <<schema, rows, fields, queues, indexed, step>>
    /\ Rest

InitRefused ==
    /\ step = "init"
    /\ aliases \cap left # {}
    /\ Go("failed")
    /\ UNCHANGED instance
    /\ Rest

\* custom-fields init adds to the mappings, which need their alias.
AddField(f) ==
    /\ step \in {"rfields", "cfields"} /\ f \in left
    /\ Home[f] \in aliases
    /\ fields' = fields \cup {f}
    /\ left' = left \ {f}
    /\ UNCHANGED <<schema, rows, aliases, queues, indexed, step>>
    /\ Rest

CheckField(f) ==
    /\ step \in {"rexist", "cexist"} /\ f \in left
    /\ f \in fields
    /\ left' = left \ {f}
    /\ UNCHANGED <<instance, step>>
    /\ Rest

FieldMissing ==
    /\ \/ step \in {"rfields", "cfields"} /\ \E f \in left : Home[f] \notin aliases
       \/ step \in {"rexist", "cexist"} /\ ~(left \subseteq fields)
    /\ Go("failed")
    /\ UNCHANGED instance
    /\ Rest

DeclareQueue(q) ==
    /\ step = "declare" /\ q \in left
    /\ queues' = queues \cup {q}
    /\ left' = left \ {q}
    /\ UNCHANGED <<schema, rows, aliases, fields, indexed, step>>
    /\ Rest

Rebuild ==
    /\ step = "rebuild"
    /\ indexed' = TRUE
    /\ Go("heads")
    /\ UNCHANGED <<schema, rows, aliases, fields, queues>>
    /\ Rest

\* The five checks, which the Job and the hook have in common.
Satisfied(check, image) ==
    CASE check = "heads"    -> schema = Heads[image]
      [] check = "default"  -> "location" \in rows
      [] check = "index"    -> Records \in aliases
      [] check = "declared" -> Checked \subseteq queues
      [] check = "admin"    -> {"role", "permission"} \subseteq rows

\* Mutant: the queues are not looked for.
NextCheckPastQueues == [heads |-> "default", default |-> "index",
                        index |-> "admin", declared |-> "admin"]

NextCheck == [heads |-> "default", default |-> "index", index |-> "declared",
              declared |-> "admin"]

Verify ==
    /\ step \in Checks
    /\ Go(IF ~Satisfied(step, release) THEN "failed"
          ELSE IF step = "admin" THEN "complete" ELSE NextCheck[step])
    /\ UNCHANGED instance
    /\ Rest

\* Mutant: what the command had still to make is remembered.
DieUnfinished ==
    /\ step \in Running
    /\ step' = "failed"
    /\ excused' = TRUE
    /\ torn' = (torn \/ (step = "init" /\ left # {}))
    /\ UNCHANGED <<pin, instance, left, release, hookVars, bounds>>

\* A command fails, or the Pod is killed, evicted or over its deadline.
Die ==
    /\ step \in Running
    /\ Go("failed")
    /\ excused' = TRUE
    /\ torn' = (torn \/ (step = "init" /\ left # {}))
    /\ UNCHANGED <<pin, instance, release, hookVars, bounds>>

JobStep ==
    \/ Wait \/ MigrateRefused \/ MadeAll
    \/ EnsureLocation \/ EnsureRole \/ EnsurePermission
    \/ ListAliases \/ InitRefused \/ FieldMissing
    \/ RunFixtures \/ RunSamples \/ Rebuild \/ Verify
    \/ \E b \in Branches : Migrate(b)
    \/ \E a \in Aliases : InitAlias(a)
    \/ \E f \in Fields : AddField(f) \/ CheckField(f)
    \/ \E q \in Queues : DeclareQueue(q)

-----------------------------------------------------------------------------
(* The hook. *)

HookRuns == hook \notin {"idle", "green", "red"}

\* A sync replaces the hook of the one before.
Sync ==
    /\ ~HookRuns
    /\ hook' = "wait"
    /\ synced' = pin
    /\ steady' = TRUE
    /\ ready' = (step = "complete" /\ ~excused /\ release = pin)
    /\ UNCHANGED <<pin, instance, job, bounds, excused, torn>>

HookWaited ==
    /\ hook = "wait"
    /\ hook' = "heads"
    /\ UNCHANGED <<pin, instance, job, synced, steady, ready, bounds, excused, torn>>

\* Mutant: every check takes the image that Git pins by then.
HookCheckLatest ==
    /\ hook \in Checks
    /\ hook' = IF ~Satisfied(hook, pin) THEN "red"
               ELSE IF hook = "admin" THEN "green" ELSE NextCheck[hook]
    /\ UNCHANGED <<pin, instance, job, synced, steady, ready, bounds, excused, torn>>

HookCheck ==
    /\ hook \in Checks
    /\ hook' = IF ~Satisfied(hook, synced) THEN "red"
               ELSE IF hook = "admin" THEN "green" ELSE NextCheck[hook]
    /\ UNCHANGED <<pin, instance, job, synced, steady, ready, bounds, excused, torn>>

HookDies ==
    /\ HookRuns
    /\ hook' = "red"
    /\ steady' = FALSE
    /\ UNCHANGED <<pin, instance, job, synced, ready, bounds, excused, torn>>

-----------------------------------------------------------------------------

Next ==
    \/ Apply \/ JobStep \/ Die
    \/ Sync \/ HookWaited \/ HookCheck \/ HookDies
    \/ MovePin \/ Lose

Spec == Init /\ [][Next]_vars

-----------------------------------------------------------------------------

\* A Job that completes has made everything, whatever the attempts before it
\* left behind and for whatever images: the schema is at the heads of its own
\* image, and what it does not verify is there as well.  Only of the aliases
\* it may have passed over some, if an index init stopped half-way before or
\* an alias was lost.
CompletedIsInitialized ==
    step = "complete" /\ ~excused =>
        /\ \A check \in Checks : Satisfied(check, release)
        /\ rows = Facts
        /\ fields = Fields /\ queues = Queues /\ indexed
        /\ torn \/ aliases = Aliases

\* An attempt is stopped by nothing that another attempt did before it died:
\* it fails only if one of its own commands fails, the database is ahead of
\* its image, or the aliases are incomplete.
RetryFailsOnlyForCause ==
    step = "failed" => excused \/ Newer \/ torn

\* The five checks of a hook that passes are made at five moments, beside a
\* Job that may be running, and hold together in the end, if nothing was lost
\* and no revision moved meanwhile.
GreenIsReady ==
    hook = "green" /\ steady =>
        \A check \in Checks : Satisfied(check, synced)

\* After a Job that completed with the image that is synced, the hook finds
\* nothing missing, although the two scripts are written apart, another image
\* is pinned meanwhile, or the Job is applied again.
CompletedIsGreen ==
    hook = "red" /\ ready => ~steady

-----------------------------------------------------------------------------
(* Why: an invariant that every step preserves.                             *)

\* The Job has done with command s.
Done(s) == Rank[step] > Rank[s]

\* What the database has been given stays.
RowsAreMade ==
    /\ Done("location") => "location" \in rows
    /\ Done("role") => "role" \in rows
    /\ Done("permission") => "permission" \in rows
    /\ Done("fixtures") => "fixtures" \in rows
    /\ Done("samples") => "samples" \in rows

SchemaIsMoved ==
    /\ Done("migrate") => schema = Heads[release]
    /\ step = "migrate" =>
           \A b \in Branches \ left : schema[b] = Heads[release][b]

\* But for an index init that is under way, aliases are complete or torn.
AliasesAreMade ==
    /\ ~torn /\ step # "init" => aliases \in {{}, Aliases}
    /\ ~torn /\ step = "init" => aliases = Aliases \ left
    /\ ~torn /\ Done("init") => aliases = Aliases
    /\ ~excused /\ Done("init") => Records \in aliases
    /\ ~excused /\ step = "init" => aliases \cup left = Aliases

FieldsAreMade ==
    ~excused =>
        /\ Done("rfields") => RecordFields \subseteq fields
        /\ Done("cfields") => CommunityFields \subseteq fields
        /\ step = "rfields" => RecordFields \subseteq fields \cup left
        /\ step = "cfields" => CommunityFields \subseteq fields \cup left

QueuesAreMade ==
    ~excused =>
        /\ Done("declare") => queues = Queues
        /\ step = "declare" => queues \cup left = Queues
        /\ Done("rebuild") => indexed

\* What a steady hook has checked, and what it is going to find.
Passed == [idle |-> {}, wait |-> {}, red |-> {}, heads |-> {},
           default |-> {"heads"}, index |-> {"heads", "default"},
           declared |-> {"heads", "default", "index"},
           admin |-> Checks \ {"admin"}, green |-> Checks]

HookIsHonest ==
    steady =>
        /\ \A check \in Passed[hook] : Satisfied(check, synced)
        /\ ready => \A check \in Checks : Satisfied(check, synced)

InitializationInv ==
    /\ RowsAreMade
    /\ SchemaIsMoved
    /\ AliasesAreMade
    /\ FieldsAreMade
    /\ QueuesAreMade
    /\ HookIsHonest
    /\ RetryFailsOnlyForCause
    /\ CompletedIsGreen
=============================================================================
