--------------------------- MODULE MCOrphanCleanup ---------------------------
(* Files and holders are interchangeable.                                  *)
EXTENDS OrphanCleanup, TLC

MCSymmetry == Permutations(Files) \cup Permutations(Holders)
=============================================================================
