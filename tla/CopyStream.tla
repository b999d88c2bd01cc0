------------------------------ MODULE CopyStream ------------------------------
(***************************************************************************)
(* _copy_stream of s3-file-backup.py: one object is read once and stored   *)
(* part by part, by copies that may run side by side and write the same    *)
(* key, while the source is overwritten and removed.                       *)
(*                                                                         *)
(* One action is one call as the store sees it.  The SDK repeats a call    *)
(* whose answer is lost (retries of build_client), so a call may take      *)
(* effect more than once; a try without effect is no step.  Any call may   *)
(* fail for good, and the process may die before any of them.              *)
(***************************************************************************)
EXTENDS Naturals, FiniteSets

CONSTANTS
    Copies,    \* runs of _copy_stream that write the same destination key
    Versions,  \* the bytes a source object may have, and their ETag
    Missing,   \* no object
    Chunks,    \* Chunks[v]: how many reads of CHUNK_SIZE version v takes
    MaxParts,  \* parts the store accepts in one upload
    Attempts   \* tries the SDK makes of one call

ASSUME CopyAssumption ==
    /\ Missing \notin Versions
    /\ Chunks \in [Versions -> Nat]
    /\ MaxParts \in Nat
    /\ Attempts \in Nat \ {0}

VARIABLES
    source,       \* the version the source key holds
    destination,  \* what the destination key holds
    open,         \* open[c]: uploads of c the store keeps, by number of try
    stage,        \* stage[c]: the next call of copy c
    mem,          \* mem[c]: the arguments and local variables of c
    reported,     \* reported[c]: the error of c says that its cleanup failed
    unanswered    \* history: uploads of c whose identity c never learnt

vars == <<source, destination, open, stage, mem, reported, unanswered>>

Content == [of : Versions \cup {Missing}, chunks : Nat]
Nothing == [of |-> Missing, chunks |-> 0]

Working == {"open", "put", "create", "part", "complete", "abort", "verify"}
Stages == Working \cup {"idle", "done", "failed", "killed"}
NoUpload == 0

Memory == [
    asked   : Versions \cup {Missing},  \* the version that was listed
    matched : BOOLEAN,                  \* source_etag was given
    body    : Versions \cup {Missing},  \* the version the response streams
    sent    : Nat,                      \* chunks stored so far: total, digest
    upload  : 0..Attempts,              \* upload_id
    tries   : 1..Attempts ]             \* tries of the call in hand

TypeOK ==
    /\ source \in Versions \cup {Missing}
    /\ destination \in Content
    /\ open \in [Copies -> SUBSET (1..Attempts)]
    /\ stage \in [Copies -> Stages]
    /\ mem \in [Copies -> Memory]
    /\ reported \in [Copies -> BOOLEAN]
    /\ unanswered \in [Copies -> SUBSET (1..Attempts)]

Init ==
    /\ source \in Versions \cup {Missing}
    /\ destination = Nothing
    /\ open = [c \in Copies |-> {}]
    /\ stage = [c \in Copies |-> "idle"]
    /\ mem = [c \in Copies |->
                 [asked |-> Missing, matched |-> FALSE, body |-> Missing,
                  sent |-> 0, upload |-> NoUpload, tries |-> 1]]
    /\ reported = [c \in Copies |-> FALSE]
    /\ unanswered = [c \in Copies |-> {}]

-----------------------------------------------------------------------------

Goto(c, s) == stage' = [stage EXCEPT ![c] = s]
Recall(c, m) == mem' = [mem EXCEPT ![c] = m]

\* The answer has come, and the next call has its tries before it.
Answered(c, m, s) == Recall(c, [m EXCEPT !.tries = 1]) /\ Goto(c, s)

\* Mutant: an upload counts as completed before the store has answered.
RaiseUncompleted(c) ==
    /\ Goto(c, IF stage[c] = "part" THEN "abort" ELSE "failed")
    /\ Recall(c, [mem[c] EXCEPT !.tries = 1])

\* The except clause: an upload that is known and not completed is aborted.
Raise(c) ==
    /\ Goto(c, IF stage[c] \in {"part", "complete"} THEN "abort" ELSE "failed")
    /\ Recall(c, [mem[c] EXCEPT !.tries = 1])

\* Mutant: after the last try the count starts over.
LostForever(c) ==
    /\ Recall(c, [mem[c] EXCEPT !.tries = IF @ < Attempts THEN @ + 1 ELSE 1])
    /\ UNCHANGED stage

\* Mutant: one try more than the SDK is configured for.
LostOnceMore(c) ==
    \/ /\ mem[c].tries <= Attempts
       /\ Recall(c, [mem[c] EXCEPT !.tries = @ + 1])
       /\ UNCHANGED stage
    \/ /\ mem[c].tries > Attempts
       /\ Raise(c)

\* The effect of the call in hand has landed and its answer is lost.
Lost(c) ==
    \/ /\ mem[c].tries < Attempts
       /\ Recall(c, [mem[c] EXCEPT !.tries = @ + 1])
       /\ UNCHANGED stage
    \/ /\ mem[c].tries = Attempts
       /\ Raise(c)

Sent(c) == [of |-> mem[c].body, chunks |-> mem[c].sent]

-----------------------------------------------------------------------------

\* Another client of the source bucket, or damage to a backup copy.
Change ==
    /\ source' \in Versions \cup {Missing}
    /\ UNCHANGED <<destination, open, stage, mem, reported, unanswered>>

\* The caller passes the size it listed, and backup the ETag as well.
Begin(c) ==
    /\ stage[c] = "idle"
    /\ source # Missing
    /\ \E m \in BOOLEAN :
           Recall(c, [mem[c] EXCEPT !.asked = source, !.matched = m])
    /\ Goto(c, "open")
    /\ UNCHANGED <<source, destination, open, reported, unanswered>>

\* Mutant: the ETag is not given to the store.
OpenAny(c) ==
    /\ stage[c] = "open"
    /\ source # Missing
    /\ Recall(c, [mem[c] EXCEPT !.body = source])
    /\ Goto(c, IF Chunks[mem[c].asked] > 0 THEN "create" ELSE "put")
    /\ UNCHANGED <<source, destination, open, reported, unanswered>>

\* get_object: If-Match holds.  A body of another length goes unnoticed here
\* if the response has no ContentLength, unless it should be empty.
Open(c) ==
    /\ stage[c] = "open"
    /\ source # Missing
    /\ mem[c].matched => source = mem[c].asked
    /\ Recall(c, [mem[c] EXCEPT !.body = source])
    /\ \/ Chunks[mem[c].asked] > 0 /\ Goto(c, "create")
       \/ Chunks[mem[c].asked] = 0 /\ Chunks[source] = 0 /\ Goto(c, "put")
    /\ UNCHANGED <<source, destination, open, reported, unanswered>>

\* The precondition or the key is gone, or the size shows another object.
OpenRefused(c) ==
    /\ stage[c] = "open"
    /\ \/ source = Missing
       \/ mem[c].matched /\ source # mem[c].asked
       \/ source # Missing /\ Chunks[source] # Chunks[mem[c].asked]
    /\ Raise(c)
    /\ UNCHANGED <<source, destination, open, reported, unanswered>>

\* An empty object is stored in one call.
PutEmpty(c) ==
    /\ stage[c] = "put"
    /\ destination' = Sent(c)
    /\ Answered(c, mem[c], "verify") \/ Lost(c)
    /\ UNCHANGED <<source, open, reported, unanswered>>

\* Every try that lands opens an upload; only the answered one has a name.
CreateUpload(c) ==
    /\ stage[c] = "create"
    /\ LET new == mem[c].tries IN
           /\ open' = [open EXCEPT ![c] = @ \cup {new}]
           /\ \/ /\ Answered(c, [mem[c] EXCEPT !.upload = new], "part")
                 /\ UNCHANGED unanswered
              \/ /\ Lost(c) \/ Raise(c)
                 /\ unanswered' = [unanswered EXCEPT ![c] = @ \cup {new}]
    /\ UNCHANGED <<source, destination, reported>>

\* The next chunk becomes the next part; a repeated part replaces itself.
UploadPart(c) ==
    /\ stage[c] = "part"
    /\ mem[c].sent < Chunks[mem[c].body]
    /\ mem[c].sent < Chunks[mem[c].asked]
    /\ mem[c].sent < MaxParts
    /\ Answered(c, [mem[c] EXCEPT !.sent = @ + 1], "part") \/ Lost(c)
    /\ UNCHANGED <<source, destination, open, reported, unanswered>>

\* More bytes than were asked for, or a part number the store refuses.
RefusePart(c) ==
    /\ stage[c] = "part"
    /\ mem[c].sent < Chunks[mem[c].body]
    /\ mem[c].sent >= Chunks[mem[c].asked] \/ mem[c].sent >= MaxParts
    /\ Raise(c)
    /\ UNCHANGED <<source, destination, open, reported, unanswered>>

\* Mutant: the bytes that came are not compared with the size that was asked.
EndOfBodyUncounted(c) ==
    /\ stage[c] = "part"
    /\ Goto(c, "complete") /\ Recall(c, [mem[c] EXCEPT !.tries = 1])
    /\ UNCHANGED <<source, destination, open, reported, unanswered>>

\* The stream ends, or is cut: without a ContentLength both look the same.
EndOfBody(c) ==
    /\ stage[c] = "part"
    /\ \/ /\ mem[c].sent = Chunks[mem[c].asked]
          /\ Answered(c, mem[c], "complete")
       \/ /\ mem[c].sent # Chunks[mem[c].asked]
          /\ Raise(c)
    /\ UNCHANGED <<source, destination, open, reported, unanswered>>

Complete(c) ==
    /\ stage[c] = "complete"
    /\ mem[c].upload \in open[c]
    /\ destination' = Sent(c)
    /\ open' = [open EXCEPT ![c] = @ \ {mem[c].upload}]
    /\ Answered(c, mem[c], "verify") \/ Lost(c)
    /\ UNCHANGED <<source, reported, unanswered>>

\* A repeated completion: a store remembers the first one, or knows no upload.
CompleteAgain(c) ==
    /\ stage[c] = "complete"
    /\ mem[c].upload \notin open[c]
    /\ Answered(c, mem[c], "verify") \/ Raise(c)
    /\ UNCHANGED <<source, destination, open, reported, unanswered>>

Abort(c) ==
    /\ stage[c] = "abort"
    /\ mem[c].upload \in open[c]
    /\ open' = [open EXCEPT ![c] = @ \ {mem[c].upload}]
    /\ \/ Answered(c, mem[c], "failed")
       \/ /\ mem[c].tries < Attempts
          /\ Lost(c)
    /\ UNCHANGED <<source, destination, reported, unanswered>>

\* The abort fails, or its answer is lost for good, or the upload is gone.
AbortFails(c) ==
    /\ stage[c] = "abort"
    /\ open' \in {open, [open EXCEPT ![c] = @ \ {mem[c].upload}]}
    /\ reported' = [reported EXCEPT ![c] = TRUE]
    /\ Answered(c, mem[c], "failed")
    /\ UNCHANGED <<source, destination, unanswered>>

\* _verify_stream: read the destination back, compare size and digest.
Verify(c) ==
    /\ stage[c] = "verify"
    /\ Goto(c, IF destination = Sent(c) THEN "done" ELSE "failed")
    /\ UNCHANGED <<source, destination, open, mem, reported, unanswered>>

\* An S3 error without effect, or a body that fails while it is read.
CallFails(c) ==
    /\ stage[c] \in Working \ {"abort"}
    /\ Raise(c)
    /\ UNCHANGED <<source, destination, open, reported, unanswered>>

\* The Job's deadline, an eviction, a lost node.
Kill(c) ==
    /\ stage[c] \in Working
    /\ Goto(c, "killed")
    /\ UNCHANGED <<source, destination, open, mem, reported, unanswered>>

CopyStep(c) ==
    \/ Open(c)         \/ OpenRefused(c) \/ PutEmpty(c)
    \/ CreateUpload(c) \/ UploadPart(c)  \/ RefusePart(c)
    \/ EndOfBody(c)    \/ Complete(c)    \/ CompleteAgain(c)
    \/ Abort(c)        \/ AbortFails(c)  \/ Verify(c)
    \/ CallFails(c)

Next ==
    \/ Change
    \/ \E c \in Copies : Begin(c) \/ CopyStep(c) \/ Kill(c)

Spec == Init /\ [][Next]_vars

\* Every call is answered or times out, so a copy that lives goes on.
LiveSpec == Spec /\ \A c \in Copies : WF_vars(CopyStep(c))

-----------------------------------------------------------------------------

Whole(v) == [of |-> v, chunks |-> Chunks[v]]

\* The destination never holds a part of an object, at no moment and however
\* copies overlap, fail or die, and a copy that succeeds under If-Match stored
\* the listed version.  Only a copy without an ETag, from a response without a
\* length, may store as much of a version as was listed of a shorter one.
CopyIsWhole ==
    /\ \/ destination = Nothing
       \/ \E v \in Versions : destination = Whole(v)
       \/ \E c \in Copies :
              /\ ~mem[c].matched
              /\ mem[c].body = destination.of
              /\ Chunks[mem[c].asked] = destination.chunks
    /\ \A c \in Copies :
           stage[c] = "done" /\ mem[c].matched => Sent(c) = Whole(mem[c].asked)

\* A copy that returns or raises leaves no upload behind that it does not
\* report, but for one whose identity the store never told it.
NothingLeftSilently ==
    \A c \in Copies :
        stage[c] \in {"done", "failed"} /\ ~reported[c] =>
            open[c] \subseteq unanswered[c]

\* How many calls a copy may still make, each of them Attempts times: parts
\* as long as the store accepts them, and those before and after the parts.
CallsLeft(c) ==
    LET calls == [idle     |-> MaxParts + 6,
                  open     |-> MaxParts + 5,
                  create   |-> MaxParts + 4,
                  part     |-> (MaxParts - mem[c].sent) + 3,
                  put      |-> 2, complete |-> 2,
                  abort    |-> 1, verify   |-> 1,
                  done     |-> 0, failed   |-> 0, killed |-> 0] IN
    calls[stage[c]] * Attempts + (Attempts - mem[c].tries)

\* A copy uses up its calls, whatever is lost, cut, too long or refused, and
\* nothing that the source or another copy does makes it repeat one.
CallsRunOut ==
    [][\A c \in Copies :
           /\ CallsLeft(c)' \in 0..CallsLeft(c)
           /\ CopyStep(c) => CallsLeft(c)' # CallsLeft(c)]_vars

\* Every copy that begins comes to an end.
EveryCopyEnds ==
    \A c \in Copies :
        stage[c] \in Working ~> stage[c] \in {"done", "failed", "killed"}

\* The bytes are stored and c has not yet read them back.
Landed(c) ==
    \/ stage[c] = "put" /\ mem[c].tries > 1
    \/ stage[c] = "complete" /\ mem[c].upload \notin open[c]
    \/ stage[c] = "verify"

PhaseOf(c) ==
    CASE stage[c] = "idle" -> "idle"
      [] stage[c] = "open" -> "asked"
      [] Landed(c)         -> "landed"
      [] stage[c] = "done" -> "done"
      [] stage[c] \in {"put", "create", "part", "complete"} /\ ~Landed(c) -> "taken"
      [] OTHER             -> "over"

Atomic == INSTANCE AtomicCopy WITH
    phase <- [c \in Copies |-> PhaseOf(c)],
    asked <- [c \in Copies |-> mem[c].asked],
    matched <- [c \in Copies |-> mem[c].matched],
    taken <- [c \in Copies |->
                 IF mem[c].body = Missing THEN Nothing
                 ELSE [of |-> mem[c].body, chunks |-> Chunks[mem[c].asked]]]

\* The many calls of a copy amount to one reading and one later write.
RefinesAtomicCopy == Atomic!AtomicSpec

-----------------------------------------------------------------------------
(* What every step preserves. *)

\* What c remembers of the source agrees with what it was asked for.
ReadsWhatWasAsked(c) ==
    /\ stage[c] = "idle" <=> mem[c].asked = Missing
    /\ stage[c] \in {"idle", "open"} => mem[c].body = Missing
    /\ mem[c].body # Missing /\ mem[c].matched => mem[c].body = mem[c].asked
    /\ stage[c] \in {"put", "create", "part", "complete", "abort", "verify", "done"} =>
           mem[c].body # Missing

\* What c has stored agrees with where it is.
StoresWhatItRead(c) ==
    /\ mem[c].sent <= MaxParts
    /\ stage[c] \in {"idle", "open"} => mem[c].tries = 1
    /\ stage[c] \in {"idle", "open", "put", "create"} => mem[c].sent = 0
    /\ stage[c] = "put" => Chunks[mem[c].asked] = 0 /\ Chunks[mem[c].body] = 0
    /\ stage[c] \in {"complete", "verify", "done"} =>
           mem[c].sent = Chunks[mem[c].asked]

\* An upload that c could not name, or has to complete or to abort.
KnowsItsUpload(c) ==
    /\ open[c] \subseteq unanswered[c] \cup {mem[c].upload}
    /\ stage[c] \in {"idle", "open", "put", "create"} =>
           open[c] \subseteq unanswered[c]
    /\ stage[c] = "part" => mem[c].upload \in open[c]
    /\ stage[c] \in {"verify", "done"} => open[c] \subseteq unanswered[c]
    /\ stage[c] = "failed" /\ ~reported[c] => open[c] \subseteq unanswered[c]

\* The destination holds what some copy was asked for and has read.
DestinationIsACopy ==
    \/ destination = Nothing
    \/ \E c \in Copies :
           /\ mem[c].body # Missing
           /\ destination = [of |-> mem[c].body, chunks |-> Chunks[mem[c].asked]]

CopiesAreRight ==
    /\ DestinationIsACopy
    /\ \A c \in Copies :
           ReadsWhatWasAsked(c) /\ StoresWhatItRead(c) /\ KnowsItsUpload(c)

CopyInv == TypeOK /\ CopiesAreRight
=============================================================================
