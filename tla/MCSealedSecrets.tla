--------------------------- MODULE MCSealedSecrets ---------------------------
(* Requests of README.md and of the usage text, and exported variables.    *)
EXTENDS SealedSecrets

MCUnset == [v \in EnvVars |-> 0]
MCExport(S) == [v \in EnvVars |-> IF v \in S THEN MaxRuns + 2 ELSE 0]

MCEnvironments == {
    MCUnset,
    MCExport({"MINIO_ROOT_USER"}),
    MCExport({"MINIO_ROOT_USER", "MINIO_ROOT_PASSWORD", "CLOUDFLARE_TUNNEL_TOKEN"}),
    MCExport({"VELERO_ACCESS_KEY_ID", "VELERO_SECRET_ACCESS_KEY",
              "INVENIO_S3_ACCESS_KEY_ID", "INVENIO_DB_PASSWORD"}),
    MCExport({"INVENIO_SQLALCHEMY_DATABASE_URI"}) }

MCNoEnvironment == {MCUnset}

MCWithUri == {MCExport({"INVENIO_SQLALCHEMY_DATABASE_URI"})}

MCRequests == {
    Components,
    {"invenio"},
    {"velero"},
    {"minio", "grafana", "velero"},
    {"git-credentials"} }

MCComplete == {Components}
=============================================================================
