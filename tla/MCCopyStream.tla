---------------------------- MODULE MCCopyStream ----------------------------
(* An empty version, one that fills an upload, and one with a part more     *)
(* than the store accepts.                                                  *)
EXTENDS CopyStream

MCVersions == {"empty", "one", "two"}
MCChunks == [v \in MCVersions |->
                CASE v = "empty" -> 0 [] v = "one" -> 1 [] v = "two" -> 2]
=============================================================================
