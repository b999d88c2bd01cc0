-------------------------- MODULE MCInitialization --------------------------
(* Two images, the second of which moves one of two schema branches; two   *)
(* aliases, each of which holds a custom field.                            *)
EXTENDS Initialization

MCReleases == 1..2
MCHeads == <<[x \in Branches |-> 1], [x \in Branches |-> IF x = "rdm" THEN 2 ELSE 1]>>
MCBranches == {"rdm", "app"}
MCHome == [f1 |-> "records", f2 |-> "communities"]
=============================================================================
