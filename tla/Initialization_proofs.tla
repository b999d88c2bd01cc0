----------------------- MODULE Initialization_proofs ------------------------
(* The initialization Job and the hook, for every set of images, branches,  *)
(* aliases, fields and queues and for any number of attempts, moves and     *)
(* losses.                                                                  *)
EXTENDS Initialization, TLAPS

-----------------------------------------------------------------------------
(* What the tables of the script say.                                       *)

\* The commands and their order.
LEMMA Ranks ==
    /\ DOMAIN Rank = {"idle", "failed", "wait", "migrate", "location", "role",
           "permission", "list", "init", "rfields", "rexist", "cfields",
           "cexist", "fixtures", "samples", "declare", "rebuild", "heads",
           "default", "index", "declared", "admin", "complete"}
    /\ Rank["idle"] = 0 /\ Rank["failed"] = 0 /\ Rank["wait"] = 1
    /\ Rank["migrate"] = 2 /\ Rank["location"] = 3 /\ Rank["role"] = 4
    /\ Rank["permission"] = 5 /\ Rank["list"] = 6 /\ Rank["init"] = 7
    /\ Rank["rfields"] = 8 /\ Rank["rexist"] = 9 /\ Rank["cfields"] = 10
    /\ Rank["cexist"] = 11 /\ Rank["fixtures"] = 12 /\ Rank["samples"] = 13
    /\ Rank["declare"] = 14 /\ Rank["rebuild"] = 15 /\ Rank["heads"] = 16
    /\ Rank["default"] = 17 /\ Rank["index"] = 18 /\ Rank["declared"] = 19
    /\ Rank["admin"] = 20 /\ Rank["complete"] = 21
BY DEF Rank

\* What each command has to make.
LEMMA ItemsOf ==
    /\ Items("migrate") = Branches
    /\ Items("init") = Aliases
    /\ Items("rfields") = RecordFields /\ Items("rexist") = RecordFields
    /\ Items("cfields") = CommunityFields /\ Items("cexist") = CommunityFields
    /\ Items("declare") = Queues
    /\ \A s \in DOMAIN Rank \ {"migrate", "init", "rfields", "rexist",
                               "cfields", "cexist", "declare"} : Items(s) = {}
BY DEF Items

\* What follows a command that makes several things.
LEMMA Afters ==
    /\ DOMAIN After = {"migrate", "init", "rfields", "rexist", "cfields",
                       "cexist", "declare"}
    /\ After["migrate"] = "location" /\ After["init"] = "rfields"
    /\ After["rfields"] = "rexist" /\ After["rexist"] = "cfields"
    /\ After["cfields"] = "cexist" /\ After["cexist"] = "fixtures"
    /\ After["declare"] = "rebuild"
BY DEF After

\* What follows a check, and what the checks before it have shown.
LEMMA CheckOrder ==
    /\ NextCheck["heads"] = "default" /\ NextCheck["default"] = "index"
    /\ NextCheck["index"] = "declared" /\ NextCheck["declared"] = "admin"
    /\ Passed["idle"] = {} /\ Passed["wait"] = {} /\ Passed["red"] = {}
    /\ Passed["heads"] = {} /\ Passed["default"] = {"heads"}
    /\ Passed["index"] = {"heads", "default"}
    /\ Passed["declared"] = {"heads", "default", "index"}
    /\ Passed["admin"] = Checks \ {"admin"} /\ Passed["green"] = Checks
BY DEF NextCheck, Passed

-----------------------------------------------------------------------------
(* Types.                                                                   *)

Bounds == [attempts : 0..MaxAttempts, moves : 0..MaxMoves, losses : 0..MaxLosses]

\* What is spent stays within its bound.
LEMMA SpendType ==
    ASSUME bounds \in Bounds
    PROVE  /\ Spend("attempts", MaxAttempts) => bounds' \in Bounds
           /\ Spend("moves", MaxMoves) => bounds' \in Bounds
           /\ Spend("losses", MaxLosses) => bounds' \in Bounds
<1>1. \A n, m \in Nat : \A k \in 0..m : k < m => k + 1 \in 0..m
    OBVIOUS
<1>2. ASSUME Spend("attempts", MaxAttempts) PROVE bounds' \in Bounds
    <2>1. bounds.attempts + 1 \in 0..MaxAttempts
        BY <1>1, <1>2, InitializationAssumption DEF Spend, Bounds
    <2> QED
        BY <2>1, <1>2 DEF Spend, Bounds
<1>3. ASSUME Spend("moves", MaxMoves) PROVE bounds' \in Bounds
    <2>1. bounds.moves + 1 \in 0..MaxMoves
        BY <1>1, <1>3, InitializationAssumption DEF Spend, Bounds
    <2> QED
        BY <2>1, <1>3 DEF Spend, Bounds
<1>4. ASSUME Spend("losses", MaxLosses) PROVE bounds' \in Bounds
    <2>1. bounds.losses + 1 \in 0..MaxLosses
        BY <1>1, <1>4, InitializationAssumption DEF Spend, Bounds
    <2> QED
        BY <2>1, <1>4 DEF Spend, Bounds
<1> QED
    BY <1>2, <1>3, <1>4

\* The next command is one, and what it has to make is its own.
LEMMA GoType ==
    ASSUME NEW s \in DOMAIN Rank, Go(s)
    PROVE  step' \in DOMAIN Rank /\ left' \subseteq Items(step)'
<1>1. step' = s /\ left' = Items(s)
    BY DEF Go
<1>2. Items(step)' = Items(s)
    BY <1>1 DEF Items
<1> QED
    BY <1>1, <1>2

\* A command that has made one thing has the others to make.
LEMMA LessLeft ==
    ASSUME TypeOK, UNCHANGED step, NEW x, left' = left \ {x}
    PROVE  step' \in DOMAIN Rank /\ left' \subseteq Items(step)'
<1>1. Items(step)' = Items(step)
    BY DEF Items
<1> QED
    BY <1>1 DEF TypeOK

\* Every step of the Job leaves it at a command, with things of that command
\* to make.
LEMMA JobType ==
    ASSUME TypeOK, JobStep \/ Die \/ Apply
    PROVE  step' \in DOMAIN Rank /\ left' \subseteq Items(step)'
<1>1. ASSUME NEW s \in DOMAIN Rank, Go(s)
      PROVE  step' \in DOMAIN Rank /\ left' \subseteq Items(step)'
    BY <1>1, GoType
<1>2. CASE Apply \/ Wait \/ MigrateRefused \/ InitRefused \/ FieldMissing \/ Die
    BY <1>1, <1>2, Ranks DEF Apply, Wait, MigrateRefused, InitRefused,
                             FieldMissing, Die
<1>3. CASE MadeAll
    <2>1. After[step] \in DOMAIN Rank
        BY <1>3, Afters, Ranks DEF MadeAll
    <2> QED
        BY <1>3, <2>1, <1>1 DEF MadeAll
<1>4. CASE EnsureLocation \/ EnsureRole \/ EnsurePermission \/ RunFixtures
           \/ RunSamples \/ Rebuild
    BY <1>1, <1>4, Ranks DEF EnsureLocation, EnsureRole, EnsurePermission,
                             RunFixtures, RunSamples, Rebuild, Provide
<1>5. CASE ListAliases
    BY <1>1, <1>5, Ranks DEF ListAliases
<1>6. CASE Verify
    <2>1. (IF ~Satisfied(step, release) THEN "failed"
           ELSE IF step = "admin" THEN "complete" ELSE NextCheck[step]) \in DOMAIN Rank
        BY <1>6, CheckOrder, Ranks DEF Verify, Checks
    <2> QED
        BY <1>6, <2>1, <1>1 DEF Verify
<1>7. ASSUME NEW x, UNCHANGED step, left' = left \ {x}
      PROVE  step' \in DOMAIN Rank /\ left' \subseteq Items(step)'
    BY <1>7, LessLeft
<1>8. CASE \E b \in Branches : Migrate(b)
    BY <1>7, <1>8 DEF Migrate
<1>9. CASE \E a \in Aliases : InitAlias(a)
    BY <1>7, <1>9 DEF InitAlias
<1>10. CASE \E f \in Fields : AddField(f) \/ CheckField(f)
    BY <1>7, <1>10 DEF AddField, CheckField
<1>11. CASE \E q \in Queues : DeclareQueue(q)
    BY <1>7, <1>11 DEF DeclareQueue
<1> QED
    BY <1>2, <1>3, <1>4, <1>5, <1>6, <1>8, <1>9, <1>10, <1>11 DEF JobStep

\* The instance keeps its type.
LEMMA InstanceType ==
    ASSUME TypeOK, JobStep
    PROVE  /\ schema' \in [Branches -> Nat]
           /\ rows' \subseteq Facts
           /\ aliases' \subseteq Aliases /\ fields' \subseteq Fields
           /\ queues' \subseteq Queues
           /\ indexed' \in BOOLEAN
           /\ steady' \in BOOLEAN
           /\ UNCHANGED <<pin, release, hook, synced, ready, bounds, excused, torn>>
<1> DEFINE Typed == /\ schema' \in [Branches -> Nat]
                    /\ rows' \subseteq Facts
                    /\ aliases' \subseteq Aliases /\ fields' \subseteq Fields
                    /\ queues' \subseteq Queues
                    /\ indexed' \in BOOLEAN
                    /\ steady' \in BOOLEAN
                    /\ UNCHANGED <<pin, release, hook, synced, ready, bounds,
                                   excused, torn>>
<1>1. CASE Wait \/ MigrateRefused \/ MadeAll \/ ListAliases \/ InitRefused
           \/ FieldMissing \/ Verify
    BY <1>1 DEF Wait, MigrateRefused, MadeAll, ListAliases, InitRefused,
                FieldMissing, Verify, Rest, instance, hookVars, TypeOK
<1>2. CASE EnsureLocation \/ EnsureRole \/ EnsurePermission \/ RunFixtures
           \/ RunSamples
    BY <1>2 DEF EnsureLocation, EnsureRole, EnsurePermission, RunFixtures,
                RunSamples, Provide, Rest, hookVars, TypeOK, Facts
<1>3. CASE Rebuild
    BY <1>3 DEF Rebuild, Rest, hookVars, TypeOK
<1>4. ASSUME NEW b \in Branches, Migrate(b) PROVE Typed
    <2>1. Heads[release][b] \in Nat
        BY InitializationAssumption DEF TypeOK
    <2>2. schema' \in [Branches -> Nat]
        BY <1>4, <2>1 DEF Migrate, TypeOK
    <2>3. steady' \in BOOLEAN
        BY <1>4 DEF Migrate, TypeOK
    <2> QED
        BY <1>4, <2>2, <2>3 DEF Migrate, TypeOK
<1>5. CASE \E a \in Aliases : InitAlias(a)
    BY <1>5 DEF InitAlias, Rest, hookVars, TypeOK
<1>6. CASE \E f \in Fields : AddField(f) \/ CheckField(f)
    BY <1>6 DEF AddField, CheckField, Rest, hookVars, instance, TypeOK
<1>7. CASE \E q \in Queues : DeclareQueue(q)
    BY <1>7 DEF DeclareQueue, Rest, hookVars, TypeOK
<1> QED
    BY <1>1, <1>2, <1>3, <1>4, <1>5, <1>6, <1>7 DEF JobStep

\* A step of the hook leaves everything else.
LEMMA HookType ==
    ASSUME TypeOK, Sync \/ HookWaited \/ HookCheck \/ HookDies
    PROVE  /\ hook' \in Checks \cup {"idle", "wait", "green", "red"}
           /\ synced' \in Releases
           /\ steady' \in BOOLEAN /\ ready' \in BOOLEAN
           /\ UNCHANGED <<pin, instance, job, bounds, excused, torn>>
<1>1. CASE Sync
    BY <1>1 DEF Sync, TypeOK
<1>2. CASE HookWaited
    BY <1>2 DEF HookWaited, TypeOK, Checks
<1>3. CASE HookCheck
    <2>1. hook' \in Checks \cup {"green", "red"}
        BY <1>3, CheckOrder DEF HookCheck, Checks
    <2> QED
        BY <2>1, <1>3 DEF HookCheck, TypeOK
<1>4. CASE HookDies
    BY <1>4 DEF HookDies, TypeOK
<1> QED
    BY <1>1, <1>2, <1>3, <1>4

\* Every variable of the Job, of the hook and of the instance keeps its type.
THEOREM TypeCorrect == Spec => []TypeOK
<1>1. Init => TypeOK
    <2> SUFFICES ASSUME Init
                 PROVE  TypeOK
        OBVIOUS
    <2>1. bounds \in Bounds
        BY InitializationAssumption DEF Init, Bounds
    <2>2. step \in DOMAIN Rank /\ left \subseteq Items(step)
        BY Ranks DEF Init
    <2>3. schema \in [Branches -> Nat]
        BY DEF Init
    <2> QED
        BY <2>1, <2>2, <2>3 DEF Init, TypeOK, Bounds
<1>2. TypeOK /\ [Next]_vars => TypeOK'
    <2> SUFFICES ASSUME TypeOK, [Next]_vars
                 PROVE  TypeOK'
        OBVIOUS
    <2>b. bounds \in Bounds
        BY DEF TypeOK, Bounds
    <2>1. CASE Apply
        <3>1. bounds' \in Bounds
            BY <2>1, <2>b, SpendType DEF Apply
        <3>2. step' \in DOMAIN Rank /\ left' \subseteq Items(step)'
            BY <2>1, JobType
        <3>3. /\ release' \in Releases /\ excused' \in BOOLEAN
              /\ UNCHANGED <<pin, instance, hookVars, torn>>
            BY <2>1 DEF Apply, TypeOK
        <3> QED
            BY <3>1, <3>2, <3>3 DEF TypeOK, Bounds, instance, hookVars
    <2>2. CASE JobStep
        <3>1. step' \in DOMAIN Rank /\ left' \subseteq Items(step)'
            BY <2>2, JobType
        <3> QED
            BY <2>2, <3>1, InstanceType DEF TypeOK
    <2>3. CASE Die
        <3>1. step' \in DOMAIN Rank /\ left' \subseteq Items(step)'
            BY <2>3, JobType
        <3>2. torn' \in BOOLEAN /\ excused' \in BOOLEAN
            BY <2>3 DEF Die, TypeOK
        <3> QED
            BY <2>3, <3>1, <3>2 DEF Die, TypeOK, instance, hookVars
    <2>4. CASE Sync \/ HookWaited \/ HookCheck \/ HookDies
        <3>1. Items(step)' = Items(step)
            BY <2>4, HookType DEF Items, job
        <3> QED
            BY <2>4, <3>1, HookType DEF TypeOK, instance, job
    <2>5. CASE MovePin
        <3>1. bounds' \in Bounds
            BY <2>5, <2>b, SpendType DEF MovePin
        <3>2. Items(step)' = Items(step)
            BY <2>5 DEF MovePin, Items, job
        <3> QED
            BY <2>5, <3>1, <3>2 DEF MovePin, TypeOK, Bounds, instance, job, hookVars
    <2>6. CASE Lose
        <3>1. bounds' \in Bounds
            BY <2>6, <2>b, SpendType DEF Lose
        <3>2. Items(step)' = Items(step)
            BY <2>6 DEF Lose, Items, job
        <3>3. /\ aliases' \subseteq Aliases /\ fields' \subseteq Fields
              /\ queues' \subseteq Queues
              /\ indexed' \in BOOLEAN /\ torn' \in BOOLEAN
            BY <2>6 DEF Lose, LoseQueue, LoseAlias, TypeOK
        <3> QED
            BY <2>6, <3>1, <3>2, <3>3 DEF Lose, TypeOK, Bounds, job
    <2>7. CASE UNCHANGED vars
        <3>1. Items(step)' = Items(step)
            BY <2>7 DEF vars, Items, job
        <3> QED
            BY <2>7, <3>1 DEF vars, TypeOK, instance, job, hookVars
    <2> QED
        BY <2>1, <2>2, <2>3, <2>4, <2>5, <2>6, <2>7 DEF Next
<1> QED
    BY <1>1, <1>2, PTL DEF Spec

-----------------------------------------------------------------------------
(* The invariant, part by part.                                             *)

\* The hook and Git change nothing that the Job makes.
LEMMA Elsewhere ==
    ASSUME TypeOK, [Next]_vars
    PROVE  \/ Apply \/ JobStep \/ Die \/ Lose
           \/ UNCHANGED <<instance, job, excused, torn>>
<1>1. CASE Sync \/ HookWaited \/ HookCheck \/ HookDies
    BY <1>1, HookType
<1>2. CASE MovePin
    BY <1>2 DEF MovePin
<1>3. CASE UNCHANGED vars
    BY <1>3 DEF vars
<1> QED
    BY <1>1, <1>2, <1>3 DEF Next

\* The commands that make no more than one thing, and those that end one by
\* one.
LEMMA RowsStep ==
    ASSUME TypeOK, RowsAreMade, [Next]_vars
    PROVE  RowsAreMade'
<1> USE Ranks DEF RowsAreMade, Done
<1>1. CASE Apply \/ Die \/ Wait \/ MigrateRefused \/ InitRefused \/ FieldMissing
    BY <1>1 DEF Apply, Die, Wait, MigrateRefused, InitRefused, FieldMissing,
                Go, instance
<1>2. CASE MadeAll
    BY <1>2, Afters DEF MadeAll, Go, instance
<1>3. CASE EnsureLocation \/ EnsureRole \/ EnsurePermission \/ RunFixtures
           \/ RunSamples
    BY <1>3 DEF EnsureLocation, EnsureRole, EnsurePermission, RunFixtures,
                RunSamples, Provide, Go
<1>4. CASE ListAliases \/ Rebuild
    BY <1>4 DEF ListAliases, Rebuild, Go, instance
<1>5. CASE Verify
    BY <1>5, CheckOrder DEF Verify, Go, Checks, instance
<1>6. CASE UNCHANGED <<step, rows>>
    BY <1>6
<1>7. CASE \E b \in Branches : Migrate(b)
    BY <1>6, <1>7 DEF Migrate
<1>8. CASE \/ \E a \in Aliases : InitAlias(a)
           \/ \E f \in Fields : AddField(f) \/ CheckField(f)
           \/ \E q \in Queues : DeclareQueue(q)
    BY <1>6, <1>8 DEF InitAlias, AddField, CheckField, DeclareQueue, instance
<1>9. CASE Lose
    BY <1>6, <1>9 DEF Lose, job
<1>10. CASE UNCHANGED <<instance, job, excused, torn>>
    BY <1>6, <1>10 DEF instance, job
<1> QED
    BY <1>1, <1>2, <1>3, <1>4, <1>5, <1>7, <1>8, <1>9, <1>10, Elsewhere DEF JobStep

LEMMA SchemaStep ==
    ASSUME TypeOK, SchemaIsMoved, [Next]_vars
    PROVE  SchemaIsMoved'
<1> USE Ranks DEF SchemaIsMoved, Done
<1>1. CASE Apply \/ Die \/ MigrateRefused \/ InitRefused \/ FieldMissing
    BY <1>1 DEF Apply, Die, MigrateRefused, InitRefused, FieldMissing, Go,
                instance, Rest
<1>2. CASE Wait
    BY <1>2, ItemsOf DEF Wait, Go, instance, Rest
<1>3. CASE MadeAll
    <2>1. UNCHANGED <<schema, release>>
        BY <1>3 DEF MadeAll, instance, Rest
    <2>2. CASE step = "migrate"
        <3>1. Heads[release] \in [Branches -> Nat] /\ schema \in [Branches -> Nat]
            BY InitializationAssumption DEF TypeOK
        <3>2. \A b \in Branches : schema[b] = Heads[release][b]
            BY <1>3, <2>2 DEF MadeAll
        <3>3. schema = Heads[release]
            BY <3>1, <3>2
        <3> QED
            BY <3>3, <2>1, <2>2, <1>3, Afters DEF MadeAll, Go
    <2>3. CASE step # "migrate"
        BY <2>1, <2>3, <1>3, Afters DEF MadeAll, Go
    <2> QED
        BY <2>2, <2>3
<1>4. CASE EnsureLocation \/ EnsureRole \/ EnsurePermission \/ RunFixtures
           \/ RunSamples \/ Rebuild
    BY <1>4 DEF EnsureLocation, EnsureRole, EnsurePermission, RunFixtures,
                RunSamples, Rebuild, Provide, Go, Rest
<1>5. CASE ListAliases
    BY <1>5 DEF ListAliases, Go, instance, Rest
<1>6. CASE Verify
    BY <1>6, CheckOrder DEF Verify, Go, Checks, instance, Rest
<1>7. ASSUME NEW b \in Branches, Migrate(b)
      PROVE  SchemaIsMoved'
    <2>1. /\ step' = "migrate" /\ release' = release
          /\ schema' = [schema EXCEPT ![b] = Heads[release][b]]
          /\ left' = left \ {b}
        BY <1>7 DEF Migrate
    <2>2. schema \in [Branches -> Nat]
        BY DEF TypeOK
    <2>3. \A x \in Branches \ left' : schema'[x] = Heads[release][x]
        BY <2>1, <2>2, <1>7 DEF Migrate
    <2> QED
        BY <2>1, <2>3
<1>8. ASSUME UNCHANGED <<step, schema, release>>, step # "migrate"
      PROVE  SchemaIsMoved'
    BY <1>8
<1>9. CASE \/ \E a \in Aliases : InitAlias(a)
           \/ \E f \in Fields : AddField(f) \/ CheckField(f)
           \/ \E q \in Queues : DeclareQueue(q)
    BY <1>8, <1>9 DEF InitAlias, AddField, CheckField, DeclareQueue, instance, Rest
<1>10. CASE Lose \/ UNCHANGED <<instance, job, excused, torn>>
    <2>1. UNCHANGED <<step, left, schema, release>>
        BY <1>10 DEF Lose, job, instance
    <2> QED
        BY <2>1
<1> QED
    BY <1>1, <1>2, <1>3, <1>4, <1>5, <1>6, <1>7, <1>9, <1>10, Elsewhere DEF JobStep

LEMMA AliasesStep ==
    ASSUME TypeOK, AliasesAreMade, [Next]_vars
    PROVE  AliasesAreMade'
<1> USE Ranks DEF AliasesAreMade, Done
<1>t. aliases \subseteq Aliases /\ left \subseteq Items(step)
    BY DEF TypeOK
<1>1. CASE Apply
    BY <1>1 DEF Apply, Running, Go, instance
<1>2. CASE Die
    <2>1. CASE step = "init"
        <3>1. torn' \/ left = {}
            BY <1>2, <2>1 DEF Die
        <3> QED
            BY <3>1, <1>2, <2>1, <1>t DEF Die, Go, instance
    <2>2. CASE step # "init"
        <3>1. ~torn' => ~torn
            BY <1>2 DEF Die
        <3>2. step' = "failed" /\ UNCHANGED aliases /\ excused' = TRUE
            BY <1>2 DEF Die, Go, instance
        <3> QED
            BY <3>1, <3>2, <2>2
    <2> QED
        BY <2>1, <2>2
<1>3. CASE Wait \/ MigrateRefused \/ FieldMissing
    BY <1>3 DEF Wait, MigrateRefused, FieldMissing, Go, instance, Rest
<1>4. CASE InitRefused
    BY <1>4, <1>t DEF InitRefused, Go, instance, Rest
<1>5. CASE MadeAll
    <2>1. CASE step = "init"
        <3>1. /\ ~torn => aliases = Aliases
              /\ ~excused => aliases = Aliases
            BY <1>5, <2>1, <1>t DEF MadeAll
        <3> QED
            BY <3>1, <1>5, <2>1, Afters, InitializationAssumption
               DEF MadeAll, Go, instance, Rest
    <2>2. CASE step # "init"
        BY <1>5, <2>2, Afters DEF MadeAll, Go, instance, Rest
    <2> QED
        BY <2>1, <2>2
<1>6. CASE EnsureLocation \/ EnsureRole \/ EnsurePermission \/ RunFixtures
           \/ RunSamples \/ Rebuild
    BY <1>6 DEF EnsureLocation, EnsureRole, EnsurePermission, RunFixtures,
                RunSamples, Rebuild, Provide, Go, Rest
<1>7. CASE ListAliases
    <2>1. CASE Records \in aliases
        BY <1>7, <2>1 DEF ListAliases, Go, instance, Rest
    <2>2. CASE Records \notin aliases
        <3>1. step' = "init" /\ left' = Aliases
            BY <1>7, <2>2, ItemsOf DEF ListAliases, Go
        <3>2. ~torn => aliases = {}
            BY <1>7, <2>2, InitializationAssumption DEF ListAliases
        <3> QED
            BY <3>1, <3>2, <1>7, <1>t DEF ListAliases, instance, Rest
    <2> QED
        BY <2>1, <2>2
<1>8. CASE Verify
    BY <1>8, CheckOrder DEF Verify, Go, Checks, instance, Rest
<1>9. ASSUME NEW a \in Aliases, InitAlias(a)
      PROVE  AliasesAreMade'
    <2>1. /\ step = "init" /\ step' = "init" /\ a \in left
          /\ aliases' = aliases \cup {a} /\ left' = left \ {a}
          /\ UNCHANGED <<excused, torn>>
        BY <1>9 DEF InitAlias, Rest
    <2>2. ~torn => aliases' = Aliases \ left'
        BY <2>1, <1>t
    <2>3. ~excused => aliases' \cup left' = Aliases
        BY <2>1, <1>t
    <2> QED
        BY <2>1, <2>2, <2>3
<1>10. ASSUME UNCHANGED <<step, aliases, excused, torn>>, step # "init"
       PROVE  AliasesAreMade'
    BY <1>10
<1>11. CASE \/ \E b \in Branches : Migrate(b)
            \/ \E f \in Fields : AddField(f) \/ CheckField(f)
            \/ \E q \in Queues : DeclareQueue(q)
    BY <1>10, <1>11 DEF Migrate, AddField, CheckField, DeclareQueue, instance, Rest
<1>12. CASE Lose
    BY <1>12 DEF Lose, LoseQueue, LoseAlias, job
<1>13. CASE UNCHANGED <<instance, job, excused, torn>>
    BY <1>13 DEF instance, job
<1> QED
    BY <1>1, <1>2, <1>3, <1>4, <1>5, <1>6, <1>7, <1>8, <1>9, <1>11, <1>12, <1>13,
       Elsewhere DEF JobStep

LEMMA FieldsStep ==
    ASSUME TypeOK, FieldsAreMade, [Next]_vars
    PROVE  FieldsAreMade'
<1> USE Ranks DEF FieldsAreMade, Done
<1>1. CASE Apply \/ Die \/ Wait \/ MigrateRefused \/ InitRefused \/ FieldMissing
    BY <1>1 DEF Apply, Die, Wait, MigrateRefused, InitRefused, FieldMissing,
                Go, instance, Rest
<1>2. CASE MadeAll
    BY <1>2, Afters, ItemsOf DEF MadeAll, Go, instance, Rest
<1>3. CASE EnsureLocation \/ EnsureRole \/ EnsurePermission \/ RunFixtures
           \/ RunSamples \/ Rebuild
    BY <1>3 DEF EnsureLocation, EnsureRole, EnsurePermission, RunFixtures,
                RunSamples, Rebuild, Provide, Go, Rest
<1>4. CASE ListAliases
    BY <1>4, ItemsOf DEF ListAliases, Go, instance, Rest
<1>5. CASE Verify
    BY <1>5, CheckOrder DEF Verify, Go, Checks, instance, Rest
<1>6. ASSUME NEW f \in Fields, AddField(f) \/ CheckField(f)
      PROVE  FieldsAreMade'
    <2>1. /\ step' = step /\ excused' = excused /\ left' = left \ {f}
          /\ fields \subseteq fields'
          /\ step \in {"rfields", "cfields"} => f \in fields'
        BY <1>6 DEF AddField, CheckField, instance, Rest
    <2> QED
        BY <2>1
<1>7. CASE \/ \E b \in Branches : Migrate(b)
           \/ \E a \in Aliases : InitAlias(a)
           \/ \E q \in Queues : DeclareQueue(q)
    <2>1. UNCHANGED <<step, fields, excused>> /\ step \notin {"rfields", "cfields"}
        BY <1>7 DEF Migrate, InitAlias, DeclareQueue, Rest
    <2> QED
        BY <2>1
<1>8. CASE Lose
    BY <1>8 DEF Lose
<1>9. CASE UNCHANGED <<instance, job, excused, torn>>
    BY <1>9 DEF instance, job
<1> QED
    BY <1>1, <1>2, <1>3, <1>4, <1>5, <1>6, <1>7, <1>8, <1>9, Elsewhere DEF JobStep

LEMMA QueuesStep ==
    ASSUME TypeOK, QueuesAreMade, [Next]_vars
    PROVE  QueuesAreMade'
<1> USE Ranks DEF QueuesAreMade, Done
<1>t. queues \subseteq Queues /\ left \subseteq Items(step)
    BY DEF TypeOK
<1>1. CASE Apply \/ Die \/ Wait \/ MigrateRefused \/ InitRefused \/ FieldMissing
    BY <1>1 DEF Apply, Die, Wait, MigrateRefused, InitRefused, FieldMissing,
                Go, instance, Rest
<1>2. CASE MadeAll
    BY <1>2, Afters DEF MadeAll, Go, instance, Rest
<1>3. CASE EnsureLocation \/ EnsureRole \/ EnsurePermission \/ RunFixtures
           \/ Rebuild
    BY <1>3 DEF EnsureLocation, EnsureRole, EnsurePermission, RunFixtures,
                Rebuild, Provide, Go, Rest
<1>4. CASE RunSamples
    BY <1>4, <1>t, ItemsOf DEF RunSamples, Provide, Go, Rest
<1>5. CASE ListAliases
    BY <1>5 DEF ListAliases, Go, instance, Rest
<1>6. CASE Verify
    BY <1>6, CheckOrder DEF Verify, Go, Checks, instance, Rest
<1>7. ASSUME NEW q \in Queues, DeclareQueue(q)
      PROVE  QueuesAreMade'
    <2>1. /\ step = "declare" /\ step' = step /\ excused' = excused
          /\ left' = left \ {q} /\ queues' = queues \cup {q}
        BY <1>7 DEF DeclareQueue, Rest
    <2> QED
        BY <2>1, <1>t, ItemsOf
<1>8. CASE \/ \E b \in Branches : Migrate(b)
           \/ \E a \in Aliases : InitAlias(a)
           \/ \E f \in Fields : AddField(f) \/ CheckField(f)
    <2>1. UNCHANGED <<step, queues, indexed, excused>> /\ step # "declare"
        BY <1>8 DEF Migrate, InitAlias, AddField, CheckField, instance, Rest
    <2> QED
        BY <2>1
<1>9. CASE Lose
    BY <1>9 DEF Lose
<1>10. CASE UNCHANGED <<instance, job, excused, torn>>
    BY <1>10 DEF instance, job
<1> QED
    BY <1>1, <1>2, <1>3, <1>4, <1>5, <1>6, <1>7, <1>8, <1>9, <1>10, Elsewhere
       DEF JobStep

\* An attempt that has come to its verification, and had no command fail,
\* finds nothing missing.
LEMMA MadeIsSatisfied ==
    ASSUME TypeOK, InitializationInv, ~excused,
           step \in Checks \cup {"complete"}, NEW check \in Checks
    PROVE  Satisfied(check, release)
<1>1. Done("migrate") /\ Done("location") /\ Done("role") /\ Done("permission")
      /\ Done("init") /\ Done("declare")
    BY Ranks DEF Done, Checks
<1>2. schema = Heads[release]
    BY <1>1 DEF InitializationInv, SchemaIsMoved
<1>3. {"location", "role", "permission"} \subseteq rows
    BY <1>1 DEF InitializationInv, RowsAreMade
<1>4. Records \in aliases
    BY <1>1 DEF InitializationInv, AliasesAreMade
<1>5. Checked \subseteq queues
    BY <1>1, InitializationAssumption DEF InitializationInv, QueuesAreMade
<1>6. check \in {"heads", "default", "index", "declared", "admin"}
    BY DEF Checks
<1> QED
    BY <1>2, <1>3, <1>4, <1>5, <1>6 DEF Satisfied

\* An attempt that ends because something is in its way has a cause.
LEMMA CauseStep ==
    ASSUME TypeOK, InitializationInv, [Next]_vars
    PROVE  RetryFailsOnlyForCause'
<1> USE DEF RetryFailsOnlyForCause
<1>1. CASE MigrateRefused
    BY <1>1 DEF MigrateRefused, Rest, instance, Newer
<1>2. CASE InitRefused
    <2>1. torn
        BY <1>2 DEF InitRefused, InitializationInv, AliasesAreMade
    <2> QED
        BY <2>1, <1>2 DEF InitRefused, Rest
<1>3. CASE FieldMissing
    <2>1. left \subseteq Items(step)
        BY DEF TypeOK
    <2>2. CASE step \in {"rfields", "cfields"}
        <3>1. \A f \in left : Home[f] \in Aliases
            BY <2>1, <2>2, ItemsOf, InitializationAssumption DEF Fields
        <3>2. Done("init")
            BY <2>2, Ranks DEF Done
        <3>3. torn
            BY <1>3, <2>2, <3>1, <3>2
               DEF FieldMissing, InitializationInv, AliasesAreMade
        <3> QED
            BY <3>3, <1>3 DEF FieldMissing, Rest
    <2>3. CASE step \in {"rexist", "cexist"}
        <3>1. excused \/ left \subseteq fields
            BY <2>1, <2>3, ItemsOf, Ranks DEF InitializationInv, FieldsAreMade, Done
        <3>2. excused
            BY <1>3, <2>3, <3>1 DEF FieldMissing
        <3> QED
            BY <3>2, <1>3 DEF FieldMissing, Rest
    <2> QED
        BY <1>3, <2>2, <2>3 DEF FieldMissing
<1>4. CASE Verify
    <2>1. excused \/ Satisfied(step, release)
        BY <1>4, MadeIsSatisfied DEF Verify
    <2>2. CASE excused
        BY <2>2, <1>4 DEF Verify, Rest
    <2>3. CASE Satisfied(step, release)
        BY <2>3, <1>4, CheckOrder DEF Verify, Go, Checks
    <2> QED
        BY <2>1, <2>2, <2>3
<1>5. CASE Apply \/ Die \/ Lose
    BY <1>5 DEF Apply, Die, Lose, Go
<1>6. CASE MadeAll
    BY <1>6, Afters DEF MadeAll, Go
<1>7. CASE Wait \/ ListAliases \/ Rebuild \/ EnsureLocation \/ EnsureRole
           \/ EnsurePermission \/ RunFixtures \/ RunSamples
    BY <1>7 DEF Wait, ListAliases, Rebuild, EnsureLocation, EnsureRole,
                EnsurePermission, RunFixtures, RunSamples, Provide, Go
<1>8. CASE \/ \E b \in Branches : Migrate(b)
           \/ \E a \in Aliases : InitAlias(a)
           \/ \E f \in Fields : AddField(f) \/ CheckField(f)
           \/ \E q \in Queues : DeclareQueue(q)
    <2>1. step' # "failed"
        BY <1>8 DEF Migrate, InitAlias, AddField, CheckField, DeclareQueue
    <2> QED
        BY <2>1
<1>9. CASE UNCHANGED <<instance, job, excused, torn>>
    BY <1>9 DEF instance, job, InitializationInv, Newer
<1> QED
    BY <1>1, <1>2, <1>3, <1>4, <1>5, <1>6, <1>7, <1>8, <1>9, Elsewhere DEF JobStep

\* While a hook stays steady, what its checks look for only grows.
LEMMA SteadyGrows ==
    ASSUME TypeOK, [Next]_vars, steady'
    PROVE  /\ schema' = schema
           /\ rows \subseteq rows'
           /\ aliases \subseteq aliases'
           /\ queues \subseteq queues'
<1>1. ASSUME NEW b \in Branches, Migrate(b)
      PROVE  UNCHANGED schema
    <2>1. schema \in [Branches -> Nat]
        BY DEF TypeOK
    <2>2. schema'[b] = schema[b]
        BY <1>1 DEF Migrate
    <2> QED
        BY <1>1, <2>1, <2>2 DEF Migrate
<1>2. CASE Apply \/ Die \/ UNCHANGED <<instance, job, excused, torn>>
    BY <1>2 DEF Apply, Die, instance
<1>3. CASE Lose
    BY <1>3 DEF Lose
<1>4. CASE \/ Wait \/ MigrateRefused \/ MadeAll \/ ListAliases \/ InitRefused
           \/ FieldMissing \/ Verify
    BY <1>4 DEF Wait, MigrateRefused, MadeAll, ListAliases, InitRefused,
                FieldMissing, Verify, instance
<1>5. CASE EnsureLocation \/ EnsureRole \/ EnsurePermission \/ RunFixtures
           \/ RunSamples \/ Rebuild
    BY <1>5 DEF EnsureLocation, EnsureRole, EnsurePermission, RunFixtures,
                RunSamples, Rebuild, Provide
<1>6. CASE \E b \in Branches : Migrate(b)
    BY <1>1, <1>6 DEF Migrate
<1>7. CASE \/ \E a \in Aliases : InitAlias(a)
           \/ \E f \in Fields : AddField(f) \/ CheckField(f)
           \/ \E q \in Queues : DeclareQueue(q)
    BY <1>7 DEF InitAlias, AddField, CheckField, DeclareQueue, instance
<1> QED
    BY <1>2, <1>3, <1>4, <1>5, <1>6, <1>7, Elsewhere DEF JobStep

\* What held for the image of the sync holds still.
LEMMA SteadySatisfied ==
    ASSUME TypeOK, [Next]_vars, steady', UNCHANGED synced,
           NEW check \in Checks, Satisfied(check, synced)
    PROVE  Satisfied(check, synced)'
<1>1. check \in {"heads", "default", "index", "declared", "admin"}
    BY DEF Checks
<1> QED
    BY <1>1, SteadyGrows DEF Satisfied

\* Only the hook moves the hook, and no one else makes it steady or ready.
LEMMA HookElsewhere ==
    ASSUME TypeOK, [Next]_vars, ~Sync, ~HookWaited, ~HookCheck, ~HookDies
    PROVE  UNCHANGED <<hook, synced, ready>> /\ (steady' => steady)
<1>1. CASE Apply \/ Die \/ MovePin \/ UNCHANGED vars
    BY <1>1 DEF Apply, Die, MovePin, vars, hookVars
<1>2. CASE Lose
    BY <1>2 DEF Lose
<1>3. CASE JobStep
    <2>1. UNCHANGED <<hook, synced, ready>>
        BY <1>3, InstanceType
    <2>2. CASE \E b \in Branches : Migrate(b)
        BY <2>1, <2>2 DEF Migrate
    <2>3. CASE ~(\E b \in Branches : Migrate(b))
        BY <2>1, <2>3, <1>3
           DEF JobStep, Wait, MigrateRefused, MadeAll, ListAliases, InitRefused,
               FieldMissing, Verify, EnsureLocation, EnsureRole, EnsurePermission,
               RunFixtures, RunSamples, Rebuild, Provide, InitAlias, AddField,
               CheckField, DeclareQueue, Rest, hookVars
    <2> QED
        BY <2>2, <2>3
<1> QED
    BY <1>1, <1>2, <1>3 DEF Next

\* The hook's checks add up, and a hook that was ready is not going to fail.
LEMMA HookStep ==
    ASSUME TypeOK, InitializationInv, [Next]_vars
    PROVE  HookIsHonest' /\ CompletedIsGreen'
<1> DEFINE All == \A check \in Checks : Satisfied(check, synced)
<1>i. /\ steady => \A check \in Passed[hook] : Satisfied(check, synced)
      /\ steady /\ ready => All
      /\ hook = "red" /\ ready => ~steady
    BY DEF InitializationInv, HookIsHonest, CompletedIsGreen
<1>p. /\ hook \in Checks \cup {"idle", "wait", "green", "red"}
      /\ Passed[hook] \subseteq Checks
    BY CheckOrder DEF TypeOK, Checks
<1>1. CASE Sync
    <2>1. hook' = "wait" /\ Passed["wait"] = {}
        BY <1>1, CheckOrder DEF Sync
    <2>2. Passed[hook'] = {}
        BY <2>1
    <2>3. ASSUME ready', NEW check \in Checks
          PROVE  Satisfied(check, synced)'
        <3>1. step = "complete" /\ ~excused /\ release = pin
            BY <1>1, <2>3 DEF Sync
        <3>2. Satisfied(check, pin)
            BY <3>1, MadeIsSatisfied
        <3>3. synced' = pin /\ UNCHANGED instance
            BY <1>1 DEF Sync
        <3> QED
            BY <3>2, <3>3 DEF Satisfied, instance
    <2> QED
        BY <2>1, <2>2, <2>3 DEF HookIsHonest, CompletedIsGreen
<1>2. CASE HookWaited
    <2>1. /\ hook' = "heads" /\ Passed["heads"] = {}
          /\ UNCHANGED <<synced, ready, steady, instance>>
        BY <1>2, CheckOrder DEF HookWaited
    <2>2. Passed[hook'] = {}
        BY <2>1
    <2>3. \A check \in Checks : Satisfied(check, synced)' = Satisfied(check, synced)
        BY <2>1 DEF Satisfied, instance
    <2> QED
        BY <2>1, <2>2, <2>3, <1>i DEF HookIsHonest, CompletedIsGreen
<1>3. CASE HookCheck
    <2>1. /\ hook \in Checks
          /\ UNCHANGED <<synced, ready, steady, instance>>
          /\ hook' = IF ~Satisfied(hook, synced) THEN "red"
                     ELSE IF hook = "admin" THEN "green" ELSE NextCheck[hook]
        BY <1>3 DEF HookCheck
    <2>2. \A check \in Checks : Satisfied(check, synced)' <=> Satisfied(check, synced)
        BY <2>1 DEF Satisfied, instance
    <2>3. CASE ~Satisfied(hook, synced)
        <3>1. hook' = "red" /\ Passed["red"] = {}
            BY <2>1, <2>3, CheckOrder
        <3>2. Passed[hook'] = {}
            BY <3>1
        <3>3. ready => ~steady
            BY <1>i, <2>1, <2>3
        <3> QED
            BY <3>1, <3>2, <3>3, <2>1, <2>2, <1>i DEF HookIsHonest, CompletedIsGreen
    <2>4. CASE Satisfied(hook, synced)
        <3>1. hook' # "red" /\ Passed[hook'] \subseteq Passed[hook] \cup {hook}
            BY <2>1, <2>4, CheckOrder DEF Checks
        <3>2. steady => \A check \in Passed[hook'] : Satisfied(check, synced)
            BY <3>1, <2>4, <1>i
        <3>3. Passed[hook'] \subseteq Checks
            BY <3>1, <2>1, <1>p
        <3> QED
            BY <3>1, <3>2, <3>3, <2>1, <2>2, <1>i DEF HookIsHonest, CompletedIsGreen
    <2> QED
        BY <2>3, <2>4
<1>4. CASE HookDies
    BY <1>4 DEF HookDies, HookIsHonest, CompletedIsGreen
<1>5. CASE ~Sync /\ ~HookWaited /\ ~HookCheck /\ ~HookDies
    <2>1. UNCHANGED <<hook, synced, ready>> /\ (steady' => steady)
        BY <1>5, HookElsewhere
    <2>2. \A check \in Checks :
              steady' /\ Satisfied(check, synced) => Satisfied(check, synced)'
        BY <2>1, SteadySatisfied
    <2> QED
        BY <2>1, <2>2, <1>i, <1>p DEF HookIsHonest, CompletedIsGreen
<1> QED
    BY <1>1, <1>2, <1>3, <1>4, <1>5

-----------------------------------------------------------------------------
(* What holds in every behaviour.                                           *)

\* Rows, schema, aliases, fields and queues are where the script and the
\* hook have got to.
THEOREM InvHolds == Spec => []InitializationInv
<1>1. Init => InitializationInv
    <2> SUFFICES ASSUME Init
                 PROVE  InitializationInv
        OBVIOUS
    <2>1. RowsAreMade /\ SchemaIsMoved /\ AliasesAreMade /\ FieldsAreMade
          /\ QueuesAreMade
        BY Ranks DEF Init, RowsAreMade, SchemaIsMoved, AliasesAreMade,
                     FieldsAreMade, QueuesAreMade, Done
    <2>2. HookIsHonest /\ RetryFailsOnlyForCause /\ CompletedIsGreen
        BY DEF Init, HookIsHonest, RetryFailsOnlyForCause, CompletedIsGreen
    <2> QED
        BY <2>1, <2>2 DEF InitializationInv
<1>2. TypeOK /\ InitializationInv /\ [Next]_vars => InitializationInv'
    BY RowsStep, SchemaStep, AliasesStep, FieldsStep, QueuesStep, HookStep,
       CauseStep DEF InitializationInv
<1> QED
    BY <1>1, <1>2, TypeCorrect, PTL DEF Spec

\* A Job that completes, and had no command of its own fail, has made
\* everything, but for aliases it may have passed over.
THEOREM CompletedHolds == Spec => []CompletedIsInitialized
<1>1. TypeOK /\ InitializationInv => CompletedIsInitialized
    <2> SUFFICES ASSUME TypeOK, InitializationInv, step = "complete", ~excused
                 PROVE  /\ \A check \in Checks : Satisfied(check, release)
                        /\ rows = Facts
                        /\ fields = Fields /\ queues = Queues /\ indexed
                        /\ torn \/ aliases = Aliases
        BY DEF CompletedIsInitialized
    <2>1. \A check \in Checks : Satisfied(check, release)
        BY MadeIsSatisfied
    <2>2. rows = Facts
        <3>1. {"location", "role", "permission", "fixtures", "samples"} \subseteq rows
            BY Ranks DEF InitializationInv, RowsAreMade, Done
        <3> QED
            BY <3>1 DEF TypeOK, Facts
    <2>3. fields = Fields
        BY Ranks DEF InitializationInv, FieldsAreMade, Done, TypeOK, Fields
    <2>4. queues = Queues /\ indexed
        BY Ranks DEF InitializationInv, QueuesAreMade, Done
    <2>5. torn \/ aliases = Aliases
        BY Ranks DEF InitializationInv, AliasesAreMade, Done
    <2> QED
        BY <2>1, <2>2, <2>3, <2>4, <2>5
<1> QED
    BY <1>1, TypeCorrect, InvHolds, PTL

\* An attempt is stopped by nothing that another attempt left, but aliases
\* that are incomplete or a database that is ahead.
THEOREM RetryHolds == Spec => []RetryFailsOnlyForCause
<1>1. InitializationInv => RetryFailsOnlyForCause
    BY DEF InitializationInv
<1> QED
    BY <1>1, InvHolds, PTL

\* The five checks of a hook that passes hold together in the end.
THEOREM GreenHolds == Spec => []GreenIsReady
<1>1. InitializationInv => GreenIsReady
    BY CheckOrder DEF InitializationInv, HookIsHonest, GreenIsReady
<1> QED
    BY <1>1, InvHolds, PTL

\* A hook finds nothing missing after a Job that completed with its image.
THEOREM CompletedGreenHolds == Spec => []CompletedIsGreen
<1>1. InitializationInv => CompletedIsGreen
    BY DEF InitializationInv
<1> QED
    BY <1>1, InvHolds, PTL

=============================================================================
