---------------------------- MODULE SealedSecrets ----------------------------
(***************************************************************************)
(* generate-sealed-secrets.sh: draws or takes over credentials, writes     *)
(* them to local plaintext files and seals them, component after           *)
(* component.  One credential is sealed for several consumers: MinIO's for *)
(* Velero and Invenio, the database password for Invenio and for the       *)
(* database.  A sealed file cannot be read back: its plaintext is the only *)
(* copy that later runs, and the operator, have.                           *)
(*                                                                         *)
(* A value is a number: 0 is unset or empty, 1..MaxRuns are the values     *)
(* that the runs draw, and higher ones come from the operator.  What a     *)
(* file holds is a sequence of values, <<>> before it is first written.    *)
(***************************************************************************)
EXTENDS Naturals, Sequences

CONSTANTS
    Requests,      \* arguments the operator gives: sets of components
    Environments,  \* variables the operator exports
    MaxRuns        \* bound: runs of the script

Components == {"minio", "grafana", "velero", "invenio", "cloudflared", "ghcr",
               "image-updater"}

EnvVars == {"MINIO_ROOT_USER", "MINIO_ROOT_PASSWORD", "VELERO_ACCESS_KEY_ID",
            "VELERO_SECRET_ACCESS_KEY", "INVENIO_S3_ACCESS_KEY_ID",
            "INVENIO_S3_SECRET_ACCESS_KEY", "INVENIO_DB_PASSWORD",
            "INVENIO_SQLALCHEMY_DATABASE_URI", "GRAFANA_ADMIN_PASSWORD",
            "CLOUDFLARE_TUNNEL_TOKEN"}

ASSUME SecretsAssumption ==
    /\ Requests \subseteq SUBSET (Components \cup {"git-credentials"})
    /\ Environments \subseteq [EnvVars -> Nat]
    /\ MaxRuns \in Nat

LocalFiles == {"minio", "grafana", "velero", "app", "token", "ghcr"}
SealedFiles == LocalFiles \cup {"database", "updater"}

VARIABLES
    local,   \* plaintext under secrets/
    sealed,  \* sealed manifests
    asked,   \* the components a run was asked for
    env,     \* the variables exported to it
    todo,    \* what it has still to do
    root,    \* MINIO_ROOT_USER_VALUE, MINIO_ROOT_PASSWORD_VALUE
    drawn,   \* the values that generate_velero or generate_invenio chose
    status,  \* "idle", "running", "done" or "failed"
    runs,    \* runs so far
    torn     \* history: sealed files that are older than their plaintext

files == <<local, sealed, torn>>
run == <<asked, env, root, drawn, runs>>
vars == <<files, run, todo, status>>

Steps == {"draw", "load", "write", "seal", "unbound"}
         \X (SealedFiles \cup {"user", "password", "invenio", ""})

TypeOK ==
    /\ local \in [LocalFiles -> Seq(Nat)] /\ local["minio"] \in Nat \X Nat
    /\ sealed \in [SealedFiles -> Seq(Nat)]
    /\ asked \in SUBSET (Components \cup {"git-credentials"})
    /\ env \in [EnvVars -> Nat]
    /\ todo \in Seq(Steps)
    /\ root \in Nat \X Nat
    /\ drawn \in Nat \X Nat
    /\ status \in {"idle", "running", "done", "failed"}
    /\ runs \in 0..MaxRuns
    /\ torn \in SUBSET SealedFiles

Cut == <<0>>  \* emptied by a shell redirection and not written

\* ${variable:-default}, for one value and for a pair.
Or(value, default) == IF value # 0 THEN value ELSE default
OrPair(p, q) == <<Or(p[1], q[1]), Or(p[2], q[2])>>

Exported(key, secret) == <<env[key], env[secret]>>

ExportedRoot == Exported("MINIO_ROOT_USER", "MINIO_ROOT_PASSWORD")

Whole(p) == p[1] # 0 /\ p[2] # 0

\* Mutant: Velero before the MinIO credentials it is to share.
OrderVeleroFirst == <<"velero", "minio", "grafana", "invenio", "cloudflared", "ghcr">>

\* The order in which main runs its components, but for the last.
Order == <<"minio", "grafana", "velero", "invenio", "cloudflared", "ghcr">>

StepsOf(c) ==
    [minio       |-> <<<<"draw", "minio">>, <<"write", "user">>,
                       <<"write", "password">>, <<"seal", "minio">>>>,
     grafana     |-> <<<<"write", "grafana">>, <<"seal", "grafana">>>>,
     velero      |-> <<<<"load", "velero">>, <<"write", "velero">>,
                       <<"seal", "velero">>>>,
     invenio     |-> <<<<"load", "invenio">>, <<"write", "app">>,
                       <<"seal", "app">>, <<"seal", "database">>>>,
     cloudflared |-> <<<<"write", "token">>, <<"seal", "token">>>>,
     ghcr        |-> <<<<"seal", "ghcr">>>> ][c]

\* want_image_updater is the one flag that main does not initialize: under
\* set -u, a run that was not asked for the last component stops there.
Plan(request) ==
    LET part(i) == IF Order[i] \in request THEN StepsOf(Order[i]) ELSE <<>>
        last == IF "image-updater" \in request THEN <<"seal", "updater">>
                                               ELSE <<"unbound", "">> IN
    part(1) \o part(2) \o part(3) \o part(4) \o part(5) \o part(6) \o <<last>>

\* The operator may have placed GHCR credentials.
Init ==
    /\ local \in {[f \in LocalFiles |->
                      CASE f = "minio" -> <<0, 0>>
                        [] f = "ghcr" -> ghcr
                        [] OTHER -> <<>>] :
                  ghcr \in {<<0, 0>>, <<MaxRuns + 1, MaxRuns + 1>>}}
    /\ sealed = [f \in SealedFiles |-> <<>>]
    /\ asked = {} /\ env = [v \in EnvVars |-> 0]
    /\ todo = <<>>
    /\ root = <<0, 0>> /\ drawn = <<0, 0>>
    /\ status = "idle"
    /\ runs = 0
    /\ torn = {}

-----------------------------------------------------------------------------

\* An unknown component ends a run before it does anything.
Start ==
    /\ status # "running"
    /\ runs < MaxRuns
    /\ runs' = runs + 1
    /\ env' \in Environments
    /\ asked' \in Requests
    /\ root' = <<0, 0>> /\ drawn' = <<0, 0>>
    /\ IF asked' \subseteq Components
       THEN status' = "running" /\ todo' = Plan(asked')
       ELSE status' = "failed" /\ todo' = <<>>
    /\ UNCHANGED files

Ahead(verb, what) == todo # <<>> /\ Head(todo) = <<verb, what>>

At(verb, what) == status = "running" /\ Ahead(verb, what)

Continue == todo' = Tail(todo) /\ UNCHANGED <<asked, env, status, runs>>

\* A run draws one value for each credential: its own number.
DrawMinio ==
    /\ At("draw", "minio")
    /\ root' = OrPair(ExportedRoot, <<runs, runs>>)
    /\ Continue
    /\ UNCHANGED <<files, drawn>>

\* Plaintext changes, and the sealed files fs do not yet.
Write(f, content, fs) ==
    /\ local' = [local EXCEPT ![f] = content]
    /\ torn' = torn \cup fs
    /\ Continue
    /\ UNCHANGED <<sealed, root, drawn>>

WriteMinioUser ==
    At("write", "user") /\ Write("minio", <<root[1], local["minio"][2]>>, {"minio"})

\* Mutant: a password that was written before is kept.
WriteMinioPasswordOnce ==
    /\ At("write", "password")
    /\ Write("minio", <<local["minio"][1], Or(local["minio"][2], root[2])>>, {"minio"})

WriteMinioPassword ==
    At("write", "password") /\ Write("minio", <<local["minio"][1], root[2]>>, {"minio"})

WriteGrafana ==
    /\ At("write", "grafana")
    /\ Write("grafana", <<Or(env["GRAFANA_ADMIN_PASSWORD"], runs)>>, {"grafana"})

\* load_minio_creds: this run's, else the exported, else the written ones.
Loaded == OrPair(OrPair(root, ExportedRoot), local["minio"])

LoadForVelero ==
    /\ At("load", "velero")
    /\ Whole(Loaded)
    /\ root' = Loaded
    /\ drawn' = OrPair(Exported("VELERO_ACCESS_KEY_ID",
                                "VELERO_SECRET_ACCESS_KEY"), Loaded)
    /\ Continue
    /\ UNCHANGED files

WriteVelero == At("write", "velero") /\ Write("velero", drawn, {"velero"})

\* Chosen are db_password and the password within sqlalchemy_uri.
LoadForInvenio ==
    /\ At("load", "invenio")
    /\ Whole(Loaded)
    /\ root' = Loaded
    /\ LET password == Or(env["INVENIO_DB_PASSWORD"], runs) IN
           drawn' = <<password,
                      Or(env["INVENIO_SQLALCHEMY_DATABASE_URI"], password)>>
    /\ Continue
    /\ UNCHANGED files

S3Keys == OrPair(Exported("INVENIO_S3_ACCESS_KEY_ID",
                          "INVENIO_S3_SECRET_ACCESS_KEY"), root)

WriteApp ==
    At("write", "app") /\ Write("app", S3Keys \o <<drawn[2]>>, {"app", "database"})

\* Without a token the component is skipped, and its files stay.
WriteToken ==
    /\ At("write", "token")
    /\ env["CLOUDFLARE_TUNNEL_TOKEN"] # 0
    /\ Write("token", <<env["CLOUDFLARE_TUNNEL_TOKEN"]>>, {"token"})

SkipToken ==
    /\ At("write", "token")
    /\ env["CLOUDFLARE_TUNNEL_TOKEN"] = 0
    /\ todo' = Tail(Tail(todo))
    /\ UNCHANGED <<files, run, status>>

\* Mutant: the database gets a password drawn for it alone.
ContentPerSecret ==
    [minio |-> root, grafana |-> local["grafana"], velero |-> local["velero"],
     app |-> local["app"], token |-> local["token"], ghcr |-> local["ghcr"],
     updater |-> local["ghcr"],
     database |-> <<Or(env["INVENIO_DB_PASSWORD"], MaxRuns + runs)>>]

\* What is sealed into each file.
Content ==
    [minio |-> root, grafana |-> local["grafana"], velero |-> local["velero"],
     app |-> local["app"], token |-> local["token"], ghcr |-> local["ghcr"],
     updater |-> local["ghcr"], database |-> <<drawn[1]>>]

\* load_ghcr_creds: the components that need them are skipped without them.
Skipped(f) == f \in {"ghcr", "updater"} /\ ~Whole(local["ghcr"])

Seal(f) ==
    /\ At("seal", f)
    /\ ~Skipped(f)
    /\ sealed' = [sealed EXCEPT ![f] = Content[f]]
    /\ torn' = torn \ {f}
    /\ Continue
    /\ UNCHANGED <<local, root, drawn>>

SkipSeal(f) ==
    /\ At("seal", f)
    /\ Skipped(f)
    /\ Continue
    /\ UNCHANGED <<files, root, drawn>>

Report ==
    /\ status = "running"
    /\ todo = <<>>
    /\ status' = "done"
    /\ UNCHANGED <<files, run, todo>>

Fail ==
    /\ status' = "failed"
    /\ todo' = <<>>
    /\ UNCHANGED run

UnboundVariable ==
    /\ At("unbound", "")
    /\ Fail
    /\ UNCHANGED files

\* There are no MinIO credentials for Velero or for Invenio.
CredentialsMissing ==
    /\ At("load", "velero") \/ At("load", "invenio")
    /\ ~Whole(Loaded)
    /\ Fail
    /\ UNCHANGED files

\* The run is interrupted, or a tool fails before a file changes.
Interrupt ==
    /\ status = "running"
    /\ Fail
    /\ UNCHANGED files

\* kubectl or kubeseal fails, and the shell has emptied the file before.
SealFails(f) ==
    /\ At("seal", f)
    /\ ~Skipped(f)
    /\ sealed' = [sealed EXCEPT ![f] = Cut]
    /\ torn' = torn \cup {f}
    /\ Fail
    /\ UNCHANGED local

RunStep ==
    \/ DrawMinio \/ WriteMinioUser \/ WriteMinioPassword
    \/ WriteGrafana
    \/ LoadForVelero \/ WriteVelero
    \/ LoadForInvenio \/ WriteApp
    \/ WriteToken \/ SkipToken
    \/ \E f \in SealedFiles : Seal(f) \/ SkipSeal(f) \/ SealFails(f)
    \/ Report \/ UnboundVariable \/ CredentialsMissing \/ Interrupt

Next == Start \/ RunStep

Spec == Init /\ [][Next]_vars

-----------------------------------------------------------------------------

\* The plaintext, the only readable copy, is that of the sealed file, unless a
\* run died after it wrote the one and before it sealed the other: no later
\* run, asked for whatever components, separates them again.
PlaintextIsSealed ==
    \A f \in LocalFiles \ torn : sealed[f] # <<>> => sealed[f] = local[f]

\* Velero's and Invenio's generations take over the MinIO credentials that are
\* sealed, but for values that the operator exports, whichever runs were made
\* and died before.  Exempt is what the script does not guard against: MinIO's
\* own generation has died after it wrote plaintext and before it sealed it,
\* and this run does not make up for it.
ConsumersTakeWhatIsSealed ==
    [][LoadForVelero \/ LoadForInvenio =>
           LET minio == OrPair(ExportedRoot, sealed["minio"]) IN
           \/ "minio" \in torn /\ "minio" \notin asked
           \/ LoadForInvenio /\ root' = minio
           \/ LoadForVelero /\ drawn' = OrPair(Exported("VELERO_ACCESS_KEY_ID",
                                                       "VELERO_SECRET_ACCESS_KEY"),
                                              minio)]_vars

\* After a complete run, every copy of a credential is that of the credential,
\* or what was exported for this copy: MinIO's for Velero and Invenio, the
\* database password in Invenio's URI, and the GHCR credentials of the cluster
\* and of the image updater.  Nothing is torn but the tunnel token.  It does not
\* matter what the runs before it left behind.
CompleteRunAgrees ==
    status = "done" /\ asked = Components =>
        /\ sealed["velero"] = OrPair(Exported("VELERO_ACCESS_KEY_ID",
                                              "VELERO_SECRET_ACCESS_KEY"),
                                     sealed["minio"])
        /\ SubSeq(sealed["app"], 1, 2) =
               OrPair(Exported("INVENIO_S3_ACCESS_KEY_ID",
                               "INVENIO_S3_SECRET_ACCESS_KEY"), sealed["minio"])
        /\ sealed["app"][3] = Or(env["INVENIO_SQLALCHEMY_DATABASE_URI"],
                                 sealed["database"][1])
        /\ sealed["updater"] = sealed["ghcr"]
        /\ torn \subseteq {"token"}

\* The database password that Invenio uses is the one the database is given, in
\* every run that is asked for Invenio, unless one died between the two.
PasswordsMatch ==
    {"app", "database"} \cap torn = {} /\ sealed["app"] # <<>> =>
        sealed["app"][3] = sealed["database"][1]

Uris == {e["INVENIO_SQLALCHEMY_DATABASE_URI"] : e \in Environments}

\* Only a database URI that some run was given makes the two differ, whatever
\* runs, for any components and with any other variables, came before or died.
PasswordsDifferOnlyByUri ==
    {"app", "database"} \cap torn = {} /\ sealed["app"] # <<>> =>
        \/ sealed["app"][3] = sealed["database"][1]
        \/ sealed["app"][3] \in Uris \ {0}
-----------------------------------------------------------------------------
(* Why plaintext and sealed files stay together: an invariant of every step. *)

\* Steps that main only makes together, the second right after the first.
Links == {
    <<<<"draw", "minio">>, <<"write", "user">>>>,
    <<<<"write", "user">>, <<"write", "password">>>>,
    <<<<"write", "password">>, <<"seal", "minio">>>>,
    <<<<"load", "invenio">>, <<"write", "app">>>>,
    <<<<"write", "app">>, <<"seal", "app">>>>,
    <<<<"seal", "app">>, <<"seal", "database">>>>,
    <<<<"write", "token">>, <<"seal", "token">>>> }

Linked(s) ==
    /\ \A i \in 2..Len(s), l \in Links : s[i] = l[2] <=> s[i - 1] = l[1]
    /\ s # <<>> => \A l \in Links : s[Len(s)] # l[1]

\* What the next step relies on.
StepIsReady ==
    /\ Ahead("write", "password") => local["minio"][1] = root[1]
    /\ Ahead("seal", "minio") => local["minio"] = root
    /\ Ahead("seal", "app") => "database" \in torn
    /\ Ahead("seal", "app") \/ Ahead("seal", "database") =>
           local["app"] # <<>> /\ local["app"][3] = drawn[2]
    /\ Ahead("write", "app") \/ Ahead("seal", "app") \/ Ahead("seal", "database") =>
           drawn[2] = Or(env["INVENIO_SQLALCHEMY_DATABASE_URI"], drawn[1])

\* What a run knows of MinIO's credentials is exported to it or else written,
\* but for those that it has drawn and is about to write.
RootIsWritten ==
    status = "running" =>
        \A i \in 1..2 :
            \/ root[i] = 0
            \/ ExportedRoot[i] # 0 /\ root[i] = ExportedRoot[i]
            \/ /\ ExportedRoot[i] = 0
               /\ \/ Ahead("write", "user") \/ Ahead("write", "password")
                  \/ root[i] = local["minio"][i]

\* MinIO credentials that were never sealed are torn or were never written.
WrittenIsSealed ==
    "minio" \notin torn /\ sealed["minio"] = <<>> => local["minio"] = <<0, 0>>

\* Every step keeps the plaintext with its sealed file, because steps that
\* belong together follow each other, and because of what they have in hand.
SecretsInv ==
    /\ TypeOK
    /\ Linked(todo)
    /\ StepIsReady
    /\ RootIsWritten
    /\ WrittenIsSealed
    /\ PlaintextIsSealed
-----------------------------------------------------------------------------
(* Why a complete run agrees, although the runs before it may have left any  *)
(* file in any state: what it has done so far does not depend on them.       *)

\* The run does not have the step to do any more.
Passed(verb, what) == \A i \in DOMAIN todo : todo[i] # <<verb, what>>

VeleroKeys == OrPair(Exported("VELERO_ACCESS_KEY_ID",
                              "VELERO_SECRET_ACCESS_KEY"), root)

\* MinIO's credentials are sealed before anything loads them.
SealedFirst(s) ==
    \A i, j \in DOMAIN s : i < j /\ s[i][1] = "load" => s[j] # <<"seal", "minio">>

\* A run that was asked for MinIO has it torn only until it has sealed it.
MinioIsMended ==
    /\ SealedFirst(todo)
    /\ status = "running" /\ "minio" \in asked /\ "minio" \in torn =>
           ~Passed("seal", "minio")

\* What is left of a run is the end of its plan.
IsRestOfPlan(request) ==
    /\ Len(todo) <= Len(Plan(request))
    /\ \A i \in 1..Len(todo) :
           todo[i] = Plan(request)[Len(Plan(request)) - Len(todo) + i]

\* Each consumer's keys follow from the credentials that the run has drawn,
\* and what is sealed stays whole until the run ends.
CompleteRunIsSound ==
    /\ IsRestOfPlan(Components)
    /\ status = "done" => todo = <<>>
    /\ runs > 0
    /\ Passed("draw", "minio") => Whole(root)
    /\ Passed("seal", "minio") => sealed["minio"] = root
    /\ Ahead("write", "velero") => drawn = VeleroKeys
    /\ Ahead("seal", "velero") => local["velero"] = VeleroKeys
    /\ Passed("seal", "velero") => sealed["velero"] = VeleroKeys
    /\ Ahead("seal", "app") => SubSeq(local["app"], 1, 2) = S3Keys
    /\ Passed("seal", "app") => SubSeq(sealed["app"], 1, 2) = S3Keys
    /\ Passed("seal", "app") => sealed["app"] = local["app"]
    /\ Passed("seal", "database") =>
           local["app"][3] = Or(env["INVENIO_SQLALCHEMY_DATABASE_URI"],
                                sealed["database"][1])
    /\ \A f \in {"ghcr", "updater"} : Passed("seal", f) /\ Whole(local["ghcr"]) =>
           sealed[f] = local["ghcr"]
    /\ \A f \in torn : f = "token" \/ ~Passed("seal", f)

\* A component that is skipped for want of GHCR credentials was never sealed.
SkippedIsWhole ==
    ~Whole(local["ghcr"]) =>
        \A f \in {"ghcr", "updater"} : f \notin torn /\ sealed[f] = <<>>

CompleteInv ==
    /\ SecretsInv
    /\ MinioIsMended
    /\ SkippedIsWhole
    /\ status \in {"running", "done"} /\ asked = Components => CompleteRunIsSound
=============================================================================
