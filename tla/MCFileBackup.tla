---------------------------- MODULE MCFileBackup ----------------------------
(* Two source buckets, the first with two object slots.                    *)
EXTENDS FileBackup

MCSourceOf == <<1, 1, 2>>
=============================================================================
