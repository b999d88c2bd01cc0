\* Accepted revisions that are synced one application after the other.
SPECIFICATION Spec
CONSTANTS
    Revisions <- MCRevisions
    Manifests <- MCManifests
    Unit <- MCUnit
    Default <- MCDefault
    MoverLimit <- MCMoverLimit
INVARIANTS
    TypeOK
    RefusedOnlyForCause
