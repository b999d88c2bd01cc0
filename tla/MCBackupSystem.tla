--------------------------- MODULE MCBackupSystem ---------------------------
(* Two source buckets with one object slot each.  Identities are           *)
(* interchangeable, and so are the commands an operator starts.            *)
EXTENDS BackupSystem, TLC

MCSourceOf == <<1, 2>>
MCOneSource == <<1>>

Symmetry ==
    Permutations(Points) \cup Permutations(Prunes)
        \cup Permutations(Restores) \cup Permutations(Prefixes)
=============================================================================
