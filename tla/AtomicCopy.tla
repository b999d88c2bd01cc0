------------------------------ MODULE AtomicCopy ------------------------------
(***************************************************************************)
(* What backup and restore rely on when they copy one object: the bytes    *)
(* are those of one version of the source, taken at one moment and stored  *)
(* at one later moment, in the asked length or not at all.                 *)
(***************************************************************************)
EXTENDS Naturals

CONSTANTS
    Copies,    \* runs of _copy_stream that write the same destination key
    Versions,  \* the bytes a source object may have
    Missing,   \* no object
    Chunks     \* Chunks[v]: length of version v

Content == [of : Versions \cup {Missing}, chunks : Nat]
Nothing == [of |-> Missing, chunks |-> 0]
Phases == {"idle", "asked", "taken", "landed", "done", "over"}

VARIABLES
    source,       \* the version the source key holds
    destination,  \* what the destination key holds
    phase,        \* phase[c]: how far copy c is
    asked,        \* asked[c]: the version the caller listed
    matched,      \* matched[c]: the caller gave the ETag of that version
    taken         \* taken[c]: what copy c will store

atomicVars == <<source, destination, phase, asked, matched, taken>>

AtomicInit ==
    /\ source \in Versions \cup {Missing}
    /\ destination = Nothing
    /\ phase = [c \in Copies |-> "idle"]
    /\ asked = [c \in Copies |-> Missing]
    /\ matched = [c \in Copies |-> FALSE]
    /\ taken = [c \in Copies |-> Nothing]

Move(c, p) == phase' = [phase EXCEPT ![c] = p]

Change ==
    /\ source' \in Versions \cup {Missing}
    /\ UNCHANGED <<destination, phase, asked, matched, taken>>

Ask(c) ==
    /\ phase[c] = "idle"
    /\ source # Missing
    /\ asked' = [asked EXCEPT ![c] = source]
    /\ \E m \in BOOLEAN : matched' = [matched EXCEPT ![c] = m]
    /\ Move(c, "asked")
    /\ UNCHANGED <<source, destination, taken>>

Take(c) ==
    /\ phase[c] = "asked"
    /\ source # Missing
    /\ matched[c] => source = asked[c]
    /\ taken' = [taken EXCEPT ![c] =
                    [of |-> source, chunks |-> Chunks[asked[c]]]]
    /\ Move(c, "taken")
    /\ UNCHANGED <<source, destination, asked, matched>>

\* A write that is repeated stores the same bytes again.
Store(c) ==
    /\ phase[c] \in {"taken", "landed"}
    /\ destination' = taken[c]
    /\ phase' \in {[phase EXCEPT ![c] = "landed"], [phase EXCEPT ![c] = "over"]}
    /\ UNCHANGED <<source, asked, matched, taken>>

Finish(c) ==
    /\ phase[c] = "landed"
    /\ destination = taken[c]
    /\ Move(c, "done")
    /\ UNCHANGED <<source, destination, asked, matched, taken>>

GiveUp(c) ==
    /\ phase[c] \in {"asked", "taken", "landed"}
    /\ Move(c, "over")
    /\ UNCHANGED <<source, destination, asked, matched, taken>>

AtomicNext ==
    \/ Change
    \/ \E c \in Copies :
           Ask(c) \/ Take(c) \/ Store(c) \/ Finish(c) \/ GiveUp(c)

AtomicSpec == AtomicInit /\ [][AtomicNext]_atomicVars
=============================================================================
