----------------------------- MODULE MCCatalogue -----------------------------
(* Commands on a bucket that backups have left behind: some of the points   *)
(* were certified, some belong to runs that died before they could be.  Any *)
(* two commands overlap (prunes, restores, and a backup that takes the last *)
(* free identity), or one runs while a key of the bucket is damaged and the *)
(* sources change, which only a backup can see.  Two restores into one      *)
(* drill prefix overlap while a key is damaged, too.                        *)
EXTENDS BackupSystem, TLC

MCSourceOf == <<1, 1>>

Everything == [o \in Objects |-> o]

\* A run that died in its first copies has left some of the objects.
LeftBehind(o, n) == IF o <= n THEN o ELSE Missing

SomePoint == CHOOSE p \in Points : TRUE
Lone == CHOOSE q \in Prunes : TRUE
First == CHOOSE x \in Restores : TRUE
Here == CHOOSE d \in Prefixes : TRUE
There == CHOOSE d \in Prefixes : d # Here

\* Any two commands may be started, or one beside which a key is damaged, or
\* two restores of one certified point of which a key is damaged.
Commands(free, certified) ==
    \E prunes \in {{}, {Lone}, Prunes}, restores \in {{}, {First}, Restores} :
        /\ \/ Cardinality(prunes) + Cardinality(restores) + Cardinality(free)
                  = IF faults < MaxFaults THEN 1 ELSE 2
           \/ /\ prunes = {} /\ restores = Restores /\ free = {}
              /\ certified = {SomePoint} /\ \A p \in Points : stamp[p] = 0
        /\ stage = [q \in Prunes |-> IF q \in prunes THEN "idle" ELSE "failed"]
        /\ step = [x \in Restores |-> IF x \in restores THEN "idle" ELSE "failed"]
        /\ into = [x \in Restores |-> IF x \in restores THEN Here ELSE There]

CatalogueInit ==
    /\ clock = MaxClock
    /\ faults \in 0..MaxFaults
    /\ stamp \in [Points -> 0..MaxClock]
    /\ \E certified, free \in SUBSET Points, n \in 1..NumObjects :
           /\ Cardinality(free) <= 1 /\ free \cap certified = {}
           /\ Commands(free, certified)
           /\ changes = IF free # {} /\ faults < MaxFaults THEN 0 ELSE MaxChanges
           /\ \A p \in free : stamp[p] = 0
           /\ body = [p \in Points |->
                         CASE p \in certified -> Everything
                           [] p \in free -> NoObjects
                           [] OTHER -> [o \in Objects |-> LeftBehind(o, n)]]
           /\ entries = [p \in Points |->
                            IF p \in certified THEN Everything ELSE NoObjects]
           /\ manifest = [p \in Points |->
                             IF p \in certified THEN "whole" ELSE "absent"]
           /\ marker = manifest
           /\ published = certified
           /\ pc = [p \in Points |->
                       CASE p \in certified -> "complete"
                         [] p \in free -> "idle"
                         [] OTHER -> "failed"]
    /\ truth = [p \in Points |-> entries[p]]
    /\ foreign = [p \in Points |-> FALSE]
    /\ stray = FALSE
    /\ source = Everything
    /\ version = NumObjects
    /\ settings = [b \in Buckets |-> "plain"]
    /\ mem = [p \in Points |-> Blank]
    /\ job = [q \in Prunes |-> NoJob]
    /\ spoiled = [q \in Prunes |-> {}]
    /\ unfinished = [q \in Prunes |-> {}]
    /\ from = [x \in Restores |-> SomePoint]
    /\ rest = [x \in Restores |-> {}]
    /\ hand = [x \in Restores |-> Missing]
    /\ drill = [d \in Prefixes |-> NoObjects]

CatalogueSpec == CatalogueInit /\ [][Next]_vars /\ Fairness
=============================================================================
