-------------------------- MODULE CopyStream_proofs --------------------------
(***************************************************************************)
(* A copy stores the whole object or nothing, accounts for the uploads it  *)
(* knows and is one reading and one write to everybody else, for any       *)
(* number of copies, versions, parts and tries.                            *)
(***************************************************************************)
EXTENDS CopyStream, TLAPS

\* A field of a well-typed memory takes any value of its type.
LEMMA MemoryFields ==
    ASSUME NEW m \in Memory
    PROVE  /\ \A v \in Versions \cup {Missing} :
                  /\ [m EXCEPT !.body = v] \in Memory
                  /\ \A b \in BOOLEAN :
                         [m EXCEPT !.asked = v, !.matched = b] \in Memory
           /\ \A n \in Nat : [m EXCEPT !.sent = n] \in Memory
           /\ \A n \in 0..Attempts : [m EXCEPT !.upload = n] \in Memory
           /\ \A n \in 1..Attempts : [m EXCEPT !.tries = n] \in Memory
    BY DEF Memory

LEMMA AnsweredType ==
    ASSUME TypeOK, NEW c \in Copies, NEW m \in Memory, NEW s \in Stages,
           Answered(c, m, s)
    PROVE  stage' \in [Copies -> Stages] /\ mem' \in [Copies -> Memory]
<1>1. 1 \in 1..Attempts
    BY CopyAssumption
<1>2. [m EXCEPT !.tries = 1] \in Memory
    BY <1>1, MemoryFields
<1> QED
    BY <1>2 DEF Answered, Recall, Goto, TypeOK

LEMMA RaiseType ==
    ASSUME TypeOK, NEW c \in Copies, Raise(c)
    PROVE  stage' \in [Copies -> Stages] /\ mem' \in [Copies -> Memory]
<1>1. mem[c] \in Memory /\ 1 \in 1..Attempts
    BY CopyAssumption DEF TypeOK
<1>2. [mem[c] EXCEPT !.tries = 1] \in Memory
    BY <1>1, MemoryFields
<1> QED
    BY <1>2 DEF Raise, Recall, Goto, TypeOK, Stages, Working

LEMMA LostType ==
    ASSUME TypeOK, NEW c \in Copies, Lost(c)
    PROVE  stage' \in [Copies -> Stages] /\ mem' \in [Copies -> Memory]
<1>1. CASE Raise(c)
    BY <1>1, RaiseType
<1>2. CASE /\ mem[c].tries < Attempts
           /\ Recall(c, [mem[c] EXCEPT !.tries = @ + 1])
           /\ UNCHANGED stage
    <2>1. mem[c] \in Memory /\ mem[c].tries + 1 \in 1..Attempts
        BY <1>2, CopyAssumption DEF TypeOK, Memory
    <2>2. [mem[c] EXCEPT !.tries = @ + 1] \in Memory
        BY <2>1, MemoryFields
    <2> QED
        BY <1>2, <2>2 DEF Recall, TypeOK
<1> QED
    BY <1>1, <1>2 DEF Lost

\* Every copy begins in the types of its variables, and each step keeps them.
LEMMA Types == (Init => TypeOK) /\ (TypeOK /\ [Next]_vars => TypeOK')
<1>1. Init => TypeOK
    <2>1. 1 \in 1..Attempts /\ 0 \in 0..Attempts
        BY CopyAssumption
    <2>2. [asked |-> Missing, matched |-> FALSE, body |-> Missing, sent |-> 0,
           upload |-> NoUpload, tries |-> 1] \in Memory
        BY <2>1 DEF Memory, NoUpload
    <2> QED
        BY <2>2 DEF Init, TypeOK, Content, Nothing, Stages
<1>2. TypeOK /\ [Next]_vars => TypeOK'
    <2> SUFFICES ASSUME TypeOK, [Next]_vars
                 PROVE  TypeOK'
        OBVIOUS
    <2> DEFINE Typed == /\ stage' \in [Copies -> Stages]
                        /\ mem' \in [Copies -> Memory]
    <2>s. {"open", "put", "create", "part", "complete", "abort", "verify",
           "done", "failed", "killed"} \subseteq Stages
        BY DEF Stages, Working
    <2>m. ASSUME NEW c \in Copies
          PROVE  /\ mem[c] \in Memory
                 /\ mem[c].sent + 1 \in Nat
                 /\ mem[c].tries \in 0..Attempts
                 /\ mem[c].tries \in 1..Attempts
                 /\ Sent(c) \in Content
        BY CopyAssumption DEF TypeOK, Memory, Content, Sent
    <2>1. ASSUME NEW c \in Copies, Begin(c)
          PROVE  TypeOK'
        <3>1. \A m \in BOOLEAN :
                  [mem[c] EXCEPT !.asked = source, !.matched = m] \in Memory
            BY <2>m, MemoryFields DEF TypeOK
        <3>2. Typed
            BY <2>1, <3>1, <2>s DEF Begin, Goto, Recall, TypeOK
        <3> QED
            BY <2>1, <3>2, <2>m DEF Begin, TypeOK
    <2>2. ASSUME NEW c \in Copies, Open(c)
          PROVE  TypeOK'
        <3>1. [mem[c] EXCEPT !.body = source] \in Memory
            BY <2>m, MemoryFields DEF TypeOK
        <3>2. Typed
            BY <2>2, <3>1, <2>s DEF Open, Goto, Recall, TypeOK
        <3> QED
            BY <2>2, <3>2, <2>m DEF Open, TypeOK
    <2>3. ASSUME NEW c \in Copies, OpenRefused(c)
          PROVE  TypeOK'
        <3>2. Typed
            BY <2>3, RaiseType DEF OpenRefused
        <3> QED
            BY <2>3, <3>2, <2>m DEF OpenRefused, TypeOK
    <2>4. ASSUME NEW c \in Copies, PutEmpty(c)
          PROVE  TypeOK'
        <3>2. Typed
            BY <2>4, <2>m, <2>s, AnsweredType, LostType, RaiseType DEF PutEmpty
        <3> QED
            BY <2>4, <3>2, <2>m DEF PutEmpty, TypeOK
    <2>5. ASSUME NEW c \in Copies, CreateUpload(c)
          PROVE  TypeOK'
        <3>1. [mem[c] EXCEPT !.upload = mem[c].tries] \in Memory
            BY <2>m, MemoryFields
        <3>2. Typed
            BY <2>5, <3>1, <2>s, AnsweredType, LostType,
               RaiseType DEF CreateUpload
        <3> QED
            BY <2>5, <3>2, <2>m DEF CreateUpload, TypeOK
    <2>6. ASSUME NEW c \in Copies, UploadPart(c)
          PROVE  TypeOK'
        <3>1. [mem[c] EXCEPT !.sent = @ + 1] \in Memory
            BY <2>m, MemoryFields
        <3>2. Typed
            BY <2>6, <3>1, <2>s, AnsweredType, LostType DEF UploadPart
        <3> QED
            BY <2>6, <3>2, <2>m DEF UploadPart, TypeOK
    <2>7. ASSUME NEW c \in Copies, RefusePart(c)
          PROVE  TypeOK'
        <3>2. Typed
            BY <2>7, RaiseType DEF RefusePart
        <3> QED
            BY <2>7, <3>2, <2>m DEF RefusePart, TypeOK
    <2>8. ASSUME NEW c \in Copies, EndOfBody(c)
          PROVE  TypeOK'
        <3>2. Typed
            BY <2>8, <2>m, <2>s, AnsweredType, LostType, RaiseType DEF EndOfBody
        <3> QED
            BY <2>8, <3>2, <2>m DEF EndOfBody, TypeOK
    <2>9. ASSUME NEW c \in Copies, Complete(c)
          PROVE  TypeOK'
        <3>2. Typed
            BY <2>9, <2>m, <2>s, AnsweredType, LostType, RaiseType DEF Complete
        <3> QED
            BY <2>9, <3>2, <2>m DEF Complete, TypeOK
    <2>10. ASSUME NEW c \in Copies, CompleteAgain(c)
           PROVE  TypeOK'
        <3>2. Typed
            BY <2>10, <2>m, <2>s, AnsweredType, LostType,
               RaiseType DEF CompleteAgain
        <3> QED
            BY <2>10, <3>2, <2>m DEF CompleteAgain, TypeOK
    <2>11. ASSUME NEW c \in Copies, Abort(c)
           PROVE  TypeOK'
        <3>2. Typed
            BY <2>11, <2>m, <2>s, AnsweredType, LostType, RaiseType DEF Abort
        <3> QED
            BY <2>11, <3>2, <2>m DEF Abort, TypeOK
    <2>12. ASSUME NEW c \in Copies, AbortFails(c)
           PROVE  TypeOK'
        <3>2. Typed
            BY <2>12, <2>m, <2>s, AnsweredType, LostType,
               RaiseType DEF AbortFails
        <3> QED
            BY <2>12, <3>2, <2>m DEF AbortFails, TypeOK
    <2>13. ASSUME NEW c \in Copies, Verify(c)
           PROVE  TypeOK'
        <3>2. Typed
            BY <2>13, <2>s DEF Verify, Goto, TypeOK
        <3> QED
            BY <2>13, <3>2, <2>m DEF Verify, TypeOK
    <2>14. ASSUME NEW c \in Copies, CallFails(c)
           PROVE  TypeOK'
        <3>2. Typed
            BY <2>14, RaiseType DEF CallFails
        <3> QED
            BY <2>14, <3>2, <2>m DEF CallFails, TypeOK
    <2>15. ASSUME NEW c \in Copies, Kill(c)
           PROVE  TypeOK'
        <3>2. Typed
            BY <2>15, <2>s DEF Kill, Goto, TypeOK
        <3> QED
            BY <2>15, <3>2, <2>m DEF Kill, TypeOK
    <2>16. CASE Change
        BY <2>16 DEF Change, TypeOK
    <2>17. CASE UNCHANGED vars
        BY <2>17 DEF vars, TypeOK
    <2> QED
        BY <2>1, <2>2, <2>3, <2>4, <2>5, <2>6, <2>7, <2>8, <2>9, <2>10, <2>11,
           <2>12, <2>13, <2>14, <2>15, <2>16, <2>17
        DEF Next, CopyStep
<1> QED
    BY <1>1, <1>2

\* Every variable of the copies and of the store keeps its type.
THEOREM TypeCorrect == Spec => []TypeOK
BY Types, PTL DEF Spec

-----------------------------------------------------------------------------
(* What a call leaves in the memory of its copy, and of the others.         *)

\* Everything but the count of tries is the same.
Keeps(m, n) ==
    /\ n.asked = m.asked
    /\ n.matched = m.matched
    /\ n.body = m.body
    /\ n.sent = m.sent
    /\ n.upload = m.upload

OthersWait(c) ==
    \A d \in Copies \ {c} : stage'[d] = stage[d] /\ mem'[d] = mem[d]

Caught(s) == IF s \in {"part", "complete"} THEN "abort" ELSE "failed"

LEMMA AnsweredEffect ==
    ASSUME TypeOK, NEW c \in Copies, NEW m \in Memory, NEW s \in Stages,
           Answered(c, m, s)
    PROVE  stage'[c] = s /\ Keeps(m, mem'[c]) /\ OthersWait(c)
    BY DEF Answered, Recall, Goto, TypeOK, Memory, Keeps, OthersWait

LEMMA RaiseEffect ==
    ASSUME TypeOK, NEW c \in Copies, Raise(c)
    PROVE  /\ stage'[c] = Caught(stage[c])
           /\ Keeps(mem[c], mem'[c])
           /\ OthersWait(c)
    BY DEF Raise, Recall, Goto, TypeOK, Memory, Keeps, OthersWait, Caught

LEMMA LostEffect ==
    ASSUME TypeOK, NEW c \in Copies, Lost(c)
    PROVE  /\ \/ stage'[c] = stage[c] /\ mem'[c].tries = mem[c].tries + 1
              \/ stage'[c] = Caught(stage[c])
           /\ Keeps(mem[c], mem'[c])
           /\ OthersWait(c)
<1>1. CASE Raise(c)
    BY <1>1, RaiseEffect
<1>2. CASE /\ mem[c].tries < Attempts
           /\ Recall(c, [mem[c] EXCEPT !.tries = @ + 1])
           /\ UNCHANGED stage
    BY <1>2 DEF Recall, TypeOK, Memory, Keeps, OthersWait
<1> QED
    BY <1>1, <1>2 DEF Lost

\* What a step of c has to show, if it keeps what the copies remember of the
\* source: the parts of the invariant for c, and where the destination is from.
LEMMA OneCopyMoves ==
    ASSUME TypeOK, CopiesAreRight, NEW c \in Copies, OthersWait(c),
           \A d \in Copies \ {c} : /\ open'[d] = open[d]
                                   /\ reported'[d] = reported[d]
                                   /\ unanswered'[d] = unanswered[d],
           ReadsWhatWasAsked(c)', StoresWhatItRead(c)', KnowsItsUpload(c)',
           DestinationIsACopy'
    PROVE  CopiesAreRight'
<1> SUFFICES ASSUME NEW d \in Copies \ {c}
             PROVE  /\ ReadsWhatWasAsked(d)'
                    /\ StoresWhatItRead(d)'
                    /\ KnowsItsUpload(d)'
    BY DEF CopiesAreRight
<1>1. /\ stage'[d] = stage[d]
      /\ mem'[d] = mem[d]
      /\ open'[d] = open[d]
      /\ reported'[d] = reported[d]
      /\ unanswered'[d] = unanswered[d]
    BY DEF OthersWait
<1> QED
    BY <1>1 DEF CopiesAreRight, ReadsWhatWasAsked, StoresWhatItRead, KnowsItsUpload

\* A destination that nobody writes stays what it was, as long as the copies
\* that have read the source remember what they read.
LEMMA DestinationStays ==
    ASSUME CopiesAreRight, destination' = destination,
           \A d \in Copies : mem[d].body # Missing =>
               mem'[d].body = mem[d].body /\ mem'[d].asked = mem[d].asked
    PROVE  DestinationIsACopy'
<1>1. CASE destination = Nothing
    BY <1>1 DEF DestinationIsACopy, Nothing
<1>2. ASSUME NEW d \in Copies, mem[d].body # Missing,
             destination = [of |-> mem[d].body, chunks |-> Chunks[mem[d].asked]]
      PROVE  DestinationIsACopy'
    BY <1>2 DEF DestinationIsACopy
<1> QED
    BY <1>1, <1>2 DEF CopiesAreRight, DestinationIsACopy

\* Every step keeps what the copies rely on: every copy remembers what it
\* read, has stored as much of it as its stage says, and knows the upload it has
\* to close; and the destination holds what some copy was asked for.
LEMMA CopiesStayRight ==
    /\ Init => CopiesAreRight
    /\ TypeOK /\ CopiesAreRight /\ [Next]_vars => CopiesAreRight'
<1>1. Init => CopiesAreRight
    BY CopyAssumption
    DEF Init, CopiesAreRight, ReadsWhatWasAsked, StoresWhatItRead, KnowsItsUpload,
        DestinationIsACopy
<1>2. TypeOK /\ CopiesAreRight /\ [Next]_vars => CopiesAreRight'
    <2> SUFFICES ASSUME TypeOK, CopiesAreRight, [Next]_vars
                 PROVE  CopiesAreRight'
        OBVIOUS
    <2> USE DEF Keeps, Caught
    <2>i. ASSUME NEW c \in Copies
          PROVE  /\ ReadsWhatWasAsked(c)
                 /\ StoresWhatItRead(c)
                 /\ KnowsItsUpload(c)
                 /\ mem[c] \in Memory
                 /\ mem[c].sent + 1 \in Nat
                 /\ mem[c].tries \in 0..Attempts
        BY CopyAssumption DEF CopiesAreRight, TypeOK, Memory
    <2>s. {"open", "put", "create", "part", "complete", "abort", "verify",
           "done", "failed", "killed"} \subseteq Stages
        BY DEF Stages, Working
    <2>1. ASSUME NEW c \in Copies, Begin(c)
          PROVE  CopiesAreRight'
        <3>1. OthersWait(c)
            BY <2>1 DEF Begin, Goto, Recall, OthersWait, TypeOK
        <3>2. mem[c].body = Missing
            BY <2>i, <2>1 DEF Begin, ReadsWhatWasAsked
        <3>3. ReadsWhatWasAsked(c)' /\ StoresWhatItRead(c)' /\ KnowsItsUpload(c)'
            BY <2>1, <2>i, CopyAssumption
            DEF Begin, Goto, Recall, TypeOK, Memory, ReadsWhatWasAsked,
                StoresWhatItRead, KnowsItsUpload
        <3>4. DestinationIsACopy'
            BY <2>1, <3>1, <3>2, DestinationStays DEF Begin, OthersWait
        <3> QED
            BY <2>1, <3>1, <3>3, <3>4, OneCopyMoves DEF Begin
    <2>2. ASSUME NEW c \in Copies, Open(c)
          PROVE  CopiesAreRight'
        <3>1. OthersWait(c)
            BY <2>2 DEF Open, Goto, Recall, OthersWait, TypeOK
        <3>2. mem[c].body = Missing
            BY <2>i, <2>2 DEF Open, ReadsWhatWasAsked
        <3>3. ReadsWhatWasAsked(c)' /\ StoresWhatItRead(c)' /\ KnowsItsUpload(c)'
            BY <2>2, <2>i, CopyAssumption
            DEF Open, Goto, Recall, TypeOK, Memory, ReadsWhatWasAsked,
                StoresWhatItRead, KnowsItsUpload
        <3>4. DestinationIsACopy'
            BY <2>2, <3>1, <3>2, DestinationStays DEF Open, OthersWait
        <3> QED
            BY <2>2, <3>1, <3>3, <3>4, OneCopyMoves DEF Open
    <2>3. ASSUME NEW c \in Copies, OpenRefused(c)
          PROVE  CopiesAreRight'
        <3>1. /\ OthersWait(c)
              /\ Keeps(mem[c], mem'[c])
              /\ stage'[c] = "failed"
            BY <2>3, <2>i, <2>s, RaiseEffect DEF OpenRefused
        <3>3. ReadsWhatWasAsked(c)' /\ StoresWhatItRead(c)' /\ KnowsItsUpload(c)'
            BY <2>3, <2>i, <3>1
            DEF OpenRefused, TypeOK, Working, ReadsWhatWasAsked,
                StoresWhatItRead, KnowsItsUpload
        <3>4. DestinationIsACopy'
            BY <2>3, <3>1, DestinationStays DEF OpenRefused, OthersWait
        <3> QED
            BY <2>3, <3>1, <3>3, <3>4, OneCopyMoves DEF OpenRefused, TypeOK
    <2>4. ASSUME NEW c \in Copies, PutEmpty(c)
          PROVE  CopiesAreRight'
        <3>1. /\ OthersWait(c)
              /\ Keeps(mem[c], mem'[c])
              /\ stage'[c] \in {"verify", "put", "failed"}
            BY <2>4, <2>i, <2>s, AnsweredEffect, LostEffect DEF PutEmpty
        <3>3. ReadsWhatWasAsked(c)' /\ StoresWhatItRead(c)' /\ KnowsItsUpload(c)'
            BY <2>4, <2>i, <3>1
            DEF PutEmpty, TypeOK, Working, ReadsWhatWasAsked,
                StoresWhatItRead, KnowsItsUpload
        <3>4. DestinationIsACopy'
            BY <2>4, <2>i, <3>1
            DEF PutEmpty, Sent, ReadsWhatWasAsked, StoresWhatItRead, DestinationIsACopy
        <3> QED
            BY <2>4, <3>1, <3>3, <3>4, OneCopyMoves DEF PutEmpty, TypeOK
    <2>5. ASSUME NEW c \in Copies, CreateUpload(c)
          PROVE  CopiesAreRight'
        <3>m. [mem[c] EXCEPT !.upload = mem[c].tries] \in Memory
            BY <2>i, MemoryFields
        <3>1. /\ OthersWait(c)
              /\ mem'[c].asked = mem[c].asked
              /\ mem'[c].matched = mem[c].matched
              /\ mem'[c].body = mem[c].body
              /\ mem'[c].sent = mem[c].sent
              /\ \/ /\ stage'[c] = "part"
                    /\ mem'[c].upload = mem[c].tries
                 \/ /\ stage'[c] \in {"create", "failed"}
                    /\ unanswered'[c] = unanswered[c] \cup {mem[c].tries}
            <4>1. CASE Answered(c, [mem[c] EXCEPT !.upload = mem[c].tries], "part")
                BY <4>1, <3>m, <2>i, <2>s, AnsweredEffect DEF Memory
            <4>2. CASE /\ Lost(c) \/ Raise(c)
                       /\ unanswered' = [unanswered EXCEPT ![c] = @ \cup {mem[c].tries}]
                BY <4>2, <2>5, LostEffect, RaiseEffect DEF CreateUpload, TypeOK
            <4> QED
                BY <2>5, <4>1, <4>2 DEF CreateUpload
        <3>2. open'[c] = open[c] \cup {mem[c].tries} /\ unanswered[c] \subseteq unanswered'[c]
            BY <2>5 DEF CreateUpload, TypeOK
        <3>3. ReadsWhatWasAsked(c)' /\ StoresWhatItRead(c)' /\ KnowsItsUpload(c)'
            BY <2>5, <2>i, <3>1, <3>2
            DEF CreateUpload, TypeOK, Working, ReadsWhatWasAsked,
                StoresWhatItRead, KnowsItsUpload
        <3>4. DestinationIsACopy'
            BY <2>5, <3>1, DestinationStays DEF CreateUpload, OthersWait
        <3> QED
            BY <2>5, <3>1, <3>3, <3>4, OneCopyMoves DEF CreateUpload, TypeOK
    <2>6. ASSUME NEW c \in Copies, UploadPart(c)
          PROVE  CopiesAreRight'
        <3>m. [mem[c] EXCEPT !.sent = @ + 1] \in Memory
            BY <2>i, MemoryFields
        <3>1. /\ OthersWait(c)
              /\ stage'[c] \in {"part", "abort"}
              /\ mem'[c].asked = mem[c].asked
              /\ mem'[c].matched = mem[c].matched
              /\ mem'[c].body = mem[c].body
              /\ mem'[c].upload = mem[c].upload
              /\ mem'[c].sent \in {mem[c].sent, mem[c].sent + 1}
            <4>1. CASE Answered(c, [mem[c] EXCEPT !.sent = @ + 1], "part")
                BY <4>1, <3>m, <2>i, <2>s, AnsweredEffect DEF Memory
            <4>2. CASE Lost(c)
                BY <4>2, <2>6, LostEffect DEF UploadPart
            <4> QED
                BY <2>6, <4>1, <4>2 DEF UploadPart
        <3>2. mem'[c].sent <= MaxParts
            <4>1. mem[c].sent < MaxParts /\ mem[c].sent \in Nat /\ MaxParts \in Nat
                BY <2>6, <2>i, CopyAssumption DEF UploadPart, Memory
            <4> QED
                BY <3>1, <4>1
        <3>3. ReadsWhatWasAsked(c)' /\ StoresWhatItRead(c)' /\ KnowsItsUpload(c)'
            BY <2>6, <2>i, <3>1, <3>2
            DEF UploadPart, TypeOK, Working, ReadsWhatWasAsked,
                StoresWhatItRead, KnowsItsUpload
        <3>4. DestinationIsACopy'
            BY <2>6, <3>1, DestinationStays DEF UploadPart, OthersWait
        <3> QED
            BY <2>6, <3>1, <3>3, <3>4, OneCopyMoves DEF UploadPart, TypeOK
    <2>7. ASSUME NEW c \in Copies, RefusePart(c)
          PROVE  CopiesAreRight'
        <3>1. /\ OthersWait(c)
              /\ Keeps(mem[c], mem'[c])
              /\ stage'[c] = "abort"
            BY <2>7, <2>i, <2>s, RaiseEffect DEF RefusePart
        <3>3. ReadsWhatWasAsked(c)' /\ StoresWhatItRead(c)' /\ KnowsItsUpload(c)'
            BY <2>7, <2>i, <3>1
            DEF RefusePart, TypeOK, Working, ReadsWhatWasAsked,
                StoresWhatItRead, KnowsItsUpload
        <3>4. DestinationIsACopy'
            BY <2>7, <3>1, DestinationStays DEF RefusePart, OthersWait
        <3> QED
            BY <2>7, <3>1, <3>3, <3>4, OneCopyMoves DEF RefusePart, TypeOK
    <2>8. ASSUME NEW c \in Copies, EndOfBody(c)
          PROVE  CopiesAreRight'
        <3>1. /\ OthersWait(c)
              /\ Keeps(mem[c], mem'[c])
              /\ \/ stage'[c] = "complete" /\ mem[c].sent = Chunks[mem[c].asked]
                 \/ stage'[c] = "abort"
            BY <2>8, <2>i, <2>s, AnsweredEffect, RaiseEffect DEF EndOfBody
        <3>3. ReadsWhatWasAsked(c)' /\ StoresWhatItRead(c)' /\ KnowsItsUpload(c)'
            BY <2>8, <2>i, <3>1
            DEF EndOfBody, TypeOK, Working, ReadsWhatWasAsked,
                StoresWhatItRead, KnowsItsUpload
        <3>4. DestinationIsACopy'
            BY <2>8, <3>1, DestinationStays DEF EndOfBody, OthersWait
        <3> QED
            BY <2>8, <3>1, <3>3, <3>4, OneCopyMoves DEF EndOfBody, TypeOK
    <2>9. ASSUME NEW c \in Copies, Complete(c)
          PROVE  CopiesAreRight'
        <3>1. /\ OthersWait(c)
              /\ Keeps(mem[c], mem'[c])
              /\ stage'[c] \in {"verify", "complete", "abort"}
            BY <2>9, <2>i, <2>s, AnsweredEffect, LostEffect DEF Complete
        <3>3. ReadsWhatWasAsked(c)' /\ StoresWhatItRead(c)' /\ KnowsItsUpload(c)'
            BY <2>9, <2>i, <3>1
            DEF Complete, TypeOK, Working, ReadsWhatWasAsked,
                StoresWhatItRead, KnowsItsUpload
        <3>4. DestinationIsACopy'
            BY <2>9, <2>i, <3>1
            DEF Complete, Sent, ReadsWhatWasAsked, StoresWhatItRead, DestinationIsACopy
        <3> QED
            BY <2>9, <3>1, <3>3, <3>4, OneCopyMoves DEF Complete, TypeOK
    <2>10. ASSUME NEW c \in Copies, CompleteAgain(c)
           PROVE  CopiesAreRight'
        <3>1. /\ OthersWait(c)
              /\ Keeps(mem[c], mem'[c])
              /\ stage'[c] \in {"verify", "abort"}
            BY <2>10, <2>i, <2>s, AnsweredEffect, RaiseEffect DEF CompleteAgain
        <3>3. ReadsWhatWasAsked(c)' /\ StoresWhatItRead(c)' /\ KnowsItsUpload(c)'
            BY <2>10, <2>i, <3>1
            DEF CompleteAgain, TypeOK, Working, ReadsWhatWasAsked,
                StoresWhatItRead, KnowsItsUpload
        <3>4. DestinationIsACopy'
            BY <2>10, <3>1, DestinationStays DEF CompleteAgain, OthersWait
        <3> QED
            BY <2>10, <3>1, <3>3, <3>4, OneCopyMoves DEF CompleteAgain, TypeOK
    <2>11. ASSUME NEW c \in Copies, Abort(c)
           PROVE  CopiesAreRight'
        <3>1. /\ OthersWait(c)
              /\ Keeps(mem[c], mem'[c])
              /\ stage'[c] \in {"abort", "failed"}
            BY <2>11, <2>i, <2>s, AnsweredEffect, LostEffect DEF Abort
        <3>3. ReadsWhatWasAsked(c)' /\ StoresWhatItRead(c)' /\ KnowsItsUpload(c)'
            BY <2>11, <2>i, <3>1
            DEF Abort, TypeOK, Working, ReadsWhatWasAsked,
                StoresWhatItRead, KnowsItsUpload
        <3>4. DestinationIsACopy'
            BY <2>11, <3>1, DestinationStays DEF Abort, OthersWait
        <3> QED
            BY <2>11, <3>1, <3>3, <3>4, OneCopyMoves DEF Abort, TypeOK
    <2>12. ASSUME NEW c \in Copies, AbortFails(c)
           PROVE  CopiesAreRight'
        <3>1. /\ OthersWait(c)
              /\ Keeps(mem[c], mem'[c])
              /\ stage'[c] = "failed"
            BY <2>12, <2>i, <2>s, AnsweredEffect DEF AbortFails
        <3>3. ReadsWhatWasAsked(c)' /\ StoresWhatItRead(c)' /\ KnowsItsUpload(c)'
            BY <2>12, <2>i, <3>1
            DEF AbortFails, TypeOK, Working, ReadsWhatWasAsked,
                StoresWhatItRead, KnowsItsUpload
        <3>4. DestinationIsACopy'
            BY <2>12, <3>1, DestinationStays DEF AbortFails, OthersWait
        <3> QED
            BY <2>12, <3>1, <3>3, <3>4, OneCopyMoves DEF AbortFails, TypeOK
    <2>13. ASSUME NEW c \in Copies, Verify(c)
           PROVE  CopiesAreRight'
        <3>1. OthersWait(c)
            BY <2>13 DEF Verify, Goto, OthersWait, TypeOK
        <3>3. ReadsWhatWasAsked(c)' /\ StoresWhatItRead(c)' /\ KnowsItsUpload(c)'
            BY <2>13, <2>i
            DEF Verify, Goto, TypeOK, Working, ReadsWhatWasAsked,
                StoresWhatItRead, KnowsItsUpload
        <3>4. DestinationIsACopy'
            BY <2>13, DestinationStays DEF Verify
        <3> QED
            BY <2>13, <3>1, <3>3, <3>4, OneCopyMoves DEF Verify
    <2>14. ASSUME NEW c \in Copies, CallFails(c)
           PROVE  CopiesAreRight'
        <3>1. /\ OthersWait(c)
              /\ Keeps(mem[c], mem'[c])
              /\ stage'[c] = Caught(stage[c])
            BY <2>14, <2>i, <2>s, RaiseEffect DEF CallFails
        <3>3. ReadsWhatWasAsked(c)' /\ StoresWhatItRead(c)' /\ KnowsItsUpload(c)'
            BY <2>14, <2>i, <3>1
            DEF CallFails, TypeOK, Working, ReadsWhatWasAsked,
                StoresWhatItRead, KnowsItsUpload
        <3>4. DestinationIsACopy'
            BY <2>14, <3>1, DestinationStays DEF CallFails, OthersWait
        <3> QED
            BY <2>14, <3>1, <3>3, <3>4, OneCopyMoves DEF CallFails, TypeOK
    <2>15. ASSUME NEW c \in Copies, Kill(c)
           PROVE  CopiesAreRight'
        <3>1. OthersWait(c)
            BY <2>15 DEF Kill, Goto, OthersWait, TypeOK
        <3>3. ReadsWhatWasAsked(c)' /\ StoresWhatItRead(c)' /\ KnowsItsUpload(c)'
            BY <2>15, <2>i
            DEF Kill, Goto, TypeOK, Working, ReadsWhatWasAsked,
                StoresWhatItRead, KnowsItsUpload
        <3>4. DestinationIsACopy'
            BY <2>15, DestinationStays DEF Kill
        <3> QED
            BY <2>15, <3>1, <3>3, <3>4, OneCopyMoves DEF Kill
    <2>16. CASE Change
        BY <2>16 DEF Change, CopiesAreRight, ReadsWhatWasAsked, StoresWhatItRead,
           KnowsItsUpload, DestinationIsACopy
    <2>17. CASE UNCHANGED vars
        BY <2>17 DEF vars, CopiesAreRight, ReadsWhatWasAsked, StoresWhatItRead,
           KnowsItsUpload, DestinationIsACopy
    <2> QED
        BY <2>1, <2>2, <2>3, <2>4, <2>5, <2>6, <2>7, <2>8, <2>9, <2>10, <2>11,
           <2>12, <2>13, <2>14, <2>15, <2>16, <2>17
        DEF Next, CopyStep
<1> QED
    BY <1>1, <1>2

\* The inductive invariant holds in every run of the copies.
THEOREM CopyInvHolds == Spec => []CopyInv
BY Types, CopiesStayRight, PTL DEF Spec, CopyInv

\* The destination never holds a part of an object, and a copy that succeeds
\* under If-Match stored the listed version.
THEOREM CopyIsAlwaysWhole == Spec => []CopyIsWhole
<1>1. CopyInv => CopyIsWhole
    <2> SUFFICES ASSUME TypeOK, CopiesAreRight
                 PROVE  CopyIsWhole
        BY DEF CopyInv
    <2>1. ASSUME NEW c \in Copies, mem[c].body # Missing, mem[c].matched
          PROVE  mem[c].body = mem[c].asked /\ mem[c].body \in Versions
        BY <2>1 DEF CopiesAreRight, ReadsWhatWasAsked, TypeOK, Memory
    <2>2. ASSUME NEW c \in Copies, stage[c] = "done", mem[c].matched
          PROVE  Sent(c) = Whole(mem[c].asked)
        BY <2>1, <2>2
        DEF CopiesAreRight, ReadsWhatWasAsked, StoresWhatItRead, Sent, Whole
    <2>3. CASE destination = Nothing
        BY <2>2, <2>3 DEF CopyIsWhole
    <2>4. ASSUME NEW c \in Copies, mem[c].body # Missing,
                 destination = [of |-> mem[c].body, chunks |-> Chunks[mem[c].asked]]
          PROVE  CopyIsWhole
        <3>1. CASE mem[c].matched
            BY <2>1, <2>2, <2>4, <3>1 DEF CopyIsWhole, Whole
        <3>2. CASE ~mem[c].matched
            BY <2>2, <2>4, <3>2 DEF CopyIsWhole
        <3> QED
            BY <3>1, <3>2
    <2> QED
        BY <2>3, <2>4 DEF CopiesAreRight, DestinationIsACopy
<1> QED
    BY <1>1, CopyInvHolds, PTL

\* A copy that returns or raises has closed the upload it knows, or says that
\* it could not.
THEOREM NothingIsLeftSilently == Spec => []NothingLeftSilently
<1>1. CopyInv => NothingLeftSilently
    BY DEF CopyInv, CopiesAreRight, KnowsItsUpload, NothingLeftSilently
<1> QED
    BY <1>1, CopyInvHolds, PTL

-----------------------------------------------------------------------------
(* A copy uses up its calls.                                                 *)

\* The calls that are left at each stage.
Calls(c) == [idle     |-> MaxParts + 6,
             open     |-> MaxParts + 5,
             create   |-> MaxParts + 4,
             part     |-> (MaxParts - mem[c].sent) + 3,
             put      |-> 2, complete |-> 2,
             abort    |-> 1, verify   |-> 1,
             done     |-> 0, failed   |-> 0, killed |-> 0][stage[c]]

CallsFit(c) ==
    /\ Calls(c) \in Nat
    /\ stage[c] = "idle" => Calls(c) = MaxParts + 6
    /\ stage[c] = "open" => Calls(c) = MaxParts + 5
    /\ stage[c] = "create" => Calls(c) = MaxParts + 4
    /\ stage[c] = "part" => Calls(c) = (MaxParts - mem[c].sent) + 3
    /\ stage[c] = "part" => Calls(c) >= 3
    /\ stage[c] \in {"put", "complete"} => Calls(c) = 2
    /\ stage[c] \in {"abort", "verify"} => Calls(c) = 1
    /\ stage[c] \in {"done", "failed", "killed"} => Calls(c) = 0

AllFit == \A c \in Copies : CallsFit(c)

LEMMA CallsOf == CopyInv => AllFit
<1> SUFFICES ASSUME CopyInv, NEW c \in Copies
             PROVE  CallsFit(c)
    BY DEF AllFit
<1>1. stage[c] \in Stages
    BY DEF CopyInv, TypeOK
<1>2. MaxParts \in Nat /\ mem[c].sent \in Nat /\ mem[c].sent <= MaxParts
    BY CopyAssumption
    DEF CopyInv, TypeOK, Memory, CopiesAreRight, StoresWhatItRead
<1>3. (MaxParts - mem[c].sent) + 3 \in Nat /\ (MaxParts - mem[c].sent) + 3 >= 3
    BY <1>2
<1> QED
    BY <1>1, <1>2, <1>3 DEF CallsFit, Calls, Stages, Working

LEMMA CallsNext == CopyInv' => AllFit'
BY CallsOf, PTL

\* One call less is worth more than all the tries of another.
LEMMA OneCallLess ==
    ASSUME NEW n \in Nat, NEW m \in Nat, NEW t \in 1..Attempts,
           NEW u \in 1..Attempts, m < n \/ (m = n /\ u > t)
    PROVE  m * Attempts + (Attempts - u) \in 0..((n * Attempts + (Attempts - t)) - 1)
<1>1. Attempts \in Nat /\ t \in Nat /\ u \in Nat /\ u <= Attempts /\ t <= Attempts
      /\ u > 0 /\ t > 0
    BY CopyAssumption
<1>2. n * Attempts \in Nat /\ m * Attempts \in Nat
    BY <1>1
<1>3. CASE m < n
    <2>1. PICK k \in Nat : n = (m + 1) + k
        <3>1. n - (m + 1) \in Nat /\ n = (m + 1) + (n - (m + 1))
            BY <1>3
        <3> QED
            BY <3>1
    <2>2. n * Attempts = (m + 1) * Attempts + k * Attempts
        BY <1>1, <2>1
    <2>3. (m + 1) * Attempts = m * Attempts + Attempts /\ k * Attempts \in Nat
        BY <1>1
    <2>4. n * Attempts >= m * Attempts + Attempts
        BY <1>1, <1>2, <2>2, <2>3
    <2> QED
        BY <1>1, <1>2, <2>4
<1>4. CASE m = n /\ u > t
    BY <1>1, <1>2, <1>4
<1> QED
    BY <1>3, <1>4

\* A step of a copy makes a call of it, or tries one again.
LEMMA CallIsMade ==
    ASSUME CopyInv, CopyInv', NEW c \in Copies, CopyStep(c) \/ Begin(c) \/ Kill(c)
    PROVE  /\ \/ Calls(c)' < Calls(c)
              \/ Calls(c)' = Calls(c) /\ mem'[c].tries > mem[c].tries
           /\ OthersWait(c)
<1> USE DEF AllFit, CallsFit
<1> DEFINE Fewer == Calls(c)' < Calls(c)
           Again == Calls(c)' = Calls(c) /\ mem'[c].tries > mem[c].tries
<1>0. TypeOK
    BY DEF CopyInv
<1>m. mem[c] \in Memory /\ MaxParts \in Nat /\ mem[c].sent \in Nat
      /\ mem[c].tries \in Nat
    BY <1>0, CopyAssumption DEF TypeOK, Memory
<1>s. {"open", "put", "create", "part", "complete", "abort", "verify",
       "done", "failed", "killed"} \subseteq Stages
    BY DEF Stages, Working
<1>a. ASSUME Raise(c), stage[c] \in Working \ {"abort"}
      PROVE  Fewer /\ OthersWait(c)
    <2>1. stage'[c] = Caught(stage[c]) /\ OthersWait(c)
        BY <1>0, <1>a, RaiseEffect
    <2> HIDE DEF Fewer
    <2>2. CASE stage[c] \in {"part", "complete"}
        BY <1>m, <2>1, <2>2, CallsOf, CallsNext DEF Caught, Fewer
    <2>3. CASE stage[c] \notin {"part", "complete"}
        BY <1>a, <1>m, <2>1, <2>3, CallsOf, CallsNext DEF Caught, Working, Fewer
    <2> QED
        BY <2>1, <2>2, <2>3
<1>b. ASSUME Lost(c), stage[c] \in Working
      PROVE  (Fewer \/ Again) /\ OthersWait(c)
    <2>1. /\ \/ stage'[c] = stage[c] /\ mem'[c].tries = mem[c].tries + 1
             \/ stage'[c] = Caught(stage[c])
          /\ Keeps(mem[c], mem'[c])
          /\ OthersWait(c)
        BY <1>0, <1>b, LostEffect
    <2>2. CASE stage'[c] = stage[c] /\ mem'[c].tries = mem[c].tries + 1
        <3>1. Calls(c)' = Calls(c)
            BY <2>1, <2>2 DEF Calls, Keeps
        <3> QED
            BY <1>m, <2>1, <2>2, <3>1
    <2>3. CASE Raise(c) /\ stage[c] # "abort"
        BY <1>a, <1>b, <2>3
    <2>4. CASE Raise(c) /\ stage[c] = "abort"
        <3>1. stage'[c] = "failed"
            BY <1>0, <2>4, RaiseEffect DEF Caught
        <3> QED
            BY <2>1, <2>4, <3>1, CallsOf, CallsNext
    <2>5. CASE /\ mem[c].tries < Attempts
               /\ Recall(c, [mem[c] EXCEPT !.tries = @ + 1])
               /\ UNCHANGED stage
        <3>1. stage'[c] = stage[c] /\ mem'[c].tries = mem[c].tries + 1
            BY <1>0, <1>m, <2>5 DEF Recall, TypeOK, Memory
        <3> QED
            BY <2>2, <3>1
    <2> QED
        BY <1>b, <2>3, <2>4, <2>5 DEF Lost
<1>1. CASE Begin(c)
    <2>1. stage[c] = "idle" /\ stage'[c] = "open" /\ OthersWait(c)
        BY <1>0, <1>1 DEF Begin, Goto, Recall, TypeOK, OthersWait
    <2> QED
        BY <1>m, <2>1, CallsOf, CallsNext
<1>2. CASE Open(c)
    <2>1. stage[c] = "open" /\ stage'[c] \in {"create", "put"} /\ OthersWait(c)
        BY <1>0, <1>2 DEF Open, Goto, Recall, TypeOK, OthersWait
    <2> QED
        BY <1>m, <2>1, CallsOf, CallsNext
<1>3. CASE OpenRefused(c)
    BY <1>3, <1>a DEF OpenRefused, Working
<1>4. CASE PutEmpty(c)
    <2>1. CASE Answered(c, mem[c], "verify")
        <3>1. stage'[c] = "verify" /\ OthersWait(c)
            BY <1>0, <1>m, <1>s, <2>1, AnsweredEffect
        <3> QED
            BY <1>4, <3>1, CallsOf, CallsNext DEF PutEmpty
    <2>2. CASE Lost(c)
        BY <1>4, <1>b, <2>2 DEF PutEmpty, Working
    <2> QED
        BY <1>4, <2>1, <2>2 DEF PutEmpty
<1>5. CASE CreateUpload(c)
    <2>0. stage[c] = "create"
        BY <1>5 DEF CreateUpload
    <2>1. CASE Answered(c, [mem[c] EXCEPT !.upload = mem[c].tries], "part")
        <3>0. mem[c].tries \in 0..Attempts
            BY <1>m, CopyAssumption DEF Memory
        <3>1. [mem[c] EXCEPT !.upload = mem[c].tries] \in Memory
            BY <1>m, <3>0, MemoryFields
        <3>2. stage'[c] = "part" /\ OthersWait(c)
            BY <1>0, <1>s, <2>1, <3>1, AnsweredEffect
        <3>3. mem'[c].sent \in Nat
            BY DEF CopyInv, TypeOK, Memory
        <3> QED
            BY <1>m, <2>0, <3>2, <3>3, CallsOf, CallsNext
    <2>2. CASE Lost(c)
        BY <1>b, <2>0, <2>2 DEF Working
    <2>3. CASE Raise(c)
        BY <1>a, <2>0, <2>3 DEF Working
    <2> QED
        BY <1>5, <2>1, <2>2, <2>3 DEF CreateUpload
<1>6. CASE UploadPart(c)
    <2>1. CASE Answered(c, [mem[c] EXCEPT !.sent = @ + 1], "part")
        <3>1. stage'[c] = "part" /\ mem'[c].sent = mem[c].sent + 1
            BY <1>0, <1>m, <2>1 DEF Answered, Goto, Recall, TypeOK, Memory
        <3>2. OthersWait(c) /\ stage[c] = "part"
            BY <1>0, <1>6, <2>1
            DEF UploadPart, Answered, Goto, Recall, TypeOK, OthersWait
        <3> QED
            BY <1>m, <3>1, <3>2, CallsOf, CallsNext
    <2>2. CASE Lost(c)
        BY <1>6, <1>b, <2>2 DEF UploadPart, Working
    <2> QED
        BY <1>6, <2>1, <2>2 DEF UploadPart
<1>7. CASE RefusePart(c)
    BY <1>7, <1>a DEF RefusePart, Working
<1>8. CASE EndOfBody(c)
    <2>1. CASE Answered(c, mem[c], "complete")
        <3>1. stage'[c] = "complete" /\ OthersWait(c)
            BY <1>0, <1>m, <1>s, <2>1, AnsweredEffect
        <3> QED
            BY <1>8, <1>m, <3>1, CallsOf, CallsNext DEF EndOfBody
    <2>2. CASE Raise(c)
        BY <1>8, <1>a, <2>2 DEF EndOfBody, Working
    <2> QED
        BY <1>8, <2>1, <2>2 DEF EndOfBody
<1>9. CASE Complete(c) \/ CompleteAgain(c)
    <2>0. stage[c] = "complete"
        BY <1>9 DEF Complete, CompleteAgain
    <2>1. CASE Answered(c, mem[c], "verify")
        <3>1. stage'[c] = "verify" /\ OthersWait(c)
            BY <1>0, <1>m, <1>s, <2>1, AnsweredEffect
        <3> QED
            BY <2>0, <3>1, CallsOf, CallsNext
    <2>2. CASE Lost(c)
        BY <1>b, <2>0, <2>2 DEF Working
    <2>3. CASE Raise(c)
        BY <1>a, <2>0, <2>3 DEF Working
    <2> QED
        BY <1>9, <2>1, <2>2, <2>3 DEF Complete, CompleteAgain
<1>10. CASE Abort(c) \/ AbortFails(c)
    <2>0. stage[c] = "abort"
        BY <1>10 DEF Abort, AbortFails
    <2>1. CASE Answered(c, mem[c], "failed")
        <3>1. stage'[c] = "failed" /\ OthersWait(c)
            BY <1>0, <1>m, <1>s, <2>1, AnsweredEffect
        <3> QED
            BY <2>0, <3>1, CallsOf, CallsNext
    <2>2. CASE Lost(c)
        BY <1>b, <2>0, <2>2 DEF Working
    <2> QED
        BY <1>10, <2>1, <2>2 DEF Abort, AbortFails
<1>11. CASE Verify(c)
    <2>1. stage[c] = "verify" /\ stage'[c] \in {"done", "failed"} /\ OthersWait(c)
        BY <1>0, <1>11 DEF Verify, Goto, TypeOK, OthersWait
    <2> QED
        BY <2>1, CallsOf, CallsNext
<1>12. CASE CallFails(c)
    BY <1>12, <1>a DEF CallFails
<1>13. CASE Kill(c)
    <2>1. stage[c] \in Working /\ stage'[c] = "killed" /\ OthersWait(c)
        BY <1>0, <1>13 DEF Kill, Goto, TypeOK, OthersWait
    <2> QED
        BY <1>m, <2>1, CallsOf, CallsNext DEF Working
<1> HIDE DEF Fewer, Again
<1> QED
    BY <1>1, <1>2, <1>3, <1>4, <1>5, <1>6, <1>7, <1>8, <1>9, <1>10, <1>11, <1>12,
       <1>13
    DEF CopyStep

\* Each step leaves every copy with fewer calls to make, or with as many if it
\* is not a step of that copy.
LEMMA CallsAreCounted ==
    ASSUME CopyInv, CopyInv', [Next]_vars
    PROVE  [\A c \in Copies :
               /\ CallsLeft(c)' \in 0..CallsLeft(c)
               /\ CopyStep(c) => CallsLeft(c)' # CallsLeft(c)]_vars
<1>1. ASSUME NEW c \in Copies
      PROVE  /\ CallsLeft(c) = Calls(c) * Attempts + (Attempts - mem[c].tries)
             /\ CallsLeft(c)' = Calls(c)' * Attempts + (Attempts - mem'[c].tries)
             /\ mem[c].tries \in 1..Attempts /\ mem'[c].tries \in 1..Attempts
             /\ Calls(c) \in Nat /\ Calls(c)' \in Nat
             /\ CallsLeft(c) \in Nat
    <2>1. mem[c].tries \in 1..Attempts /\ mem'[c].tries \in 1..Attempts
        BY DEF CopyInv, TypeOK, Memory
    <2>2. /\ CallsLeft(c) = Calls(c) * Attempts + (Attempts - mem[c].tries)
          /\ CallsLeft(c)' = Calls(c)' * Attempts + (Attempts - mem'[c].tries)
        BY DEF CallsLeft, Calls
    <2>3. Calls(c) \in Nat /\ Calls(c)' \in Nat
        BY CallsOf, CallsNext DEF AllFit, CallsFit
    <2>4. Calls(c) * Attempts \in Nat
        BY <2>3, CopyAssumption
    <2> QED
        BY <2>1, <2>2, <2>3, <2>4, CopyAssumption
<1>2. ASSUME NEW c \in Copies, CopyStep(c) \/ Begin(c) \/ Kill(c)
      PROVE  CallsLeft(c)' \in 0..(CallsLeft(c) - 1) /\ OthersWait(c)
    <2>1. /\ \/ Calls(c)' < Calls(c)
             \/ Calls(c)' = Calls(c) /\ mem'[c].tries > mem[c].tries
          /\ OthersWait(c)
        BY <1>2, CallIsMade
    <2>2. Calls(c)' * Attempts + (Attempts - mem'[c].tries)
              \in 0..((Calls(c) * Attempts + (Attempts - mem[c].tries)) - 1)
        BY <1>1, <2>1, OneCallLess
    <2>3. /\ CallsLeft(c) = Calls(c) * Attempts + (Attempts - mem[c].tries)
          /\ CallsLeft(c)' = Calls(c)' * Attempts + (Attempts - mem'[c].tries)
        BY <1>1
    <2> QED
        BY <2>1, <2>2, <2>3, Zenon
<1>3. ASSUME NEW c \in Copies, stage'[c] = stage[c], mem'[c] = mem[c]
      PROVE  CallsLeft(c)' = CallsLeft(c)
    BY <1>3 DEF CallsLeft
<1>4. ASSUME NEW c \in Copies, CopyStep(c)
      PROVE  CallsLeft(c)' # CallsLeft(c)
    BY <1>1, <1>2, <1>4
<1>5. CASE UNCHANGED vars
    BY <1>5
<1>6. CASE Change
    BY <1>1, <1>3, <1>4, <1>6 DEF Change
<1>7. ASSUME NEW d \in Copies, Begin(d) \/ CopyStep(d) \/ Kill(d)
      PROVE  \A c \in Copies : CallsLeft(c)' \in 0..CallsLeft(c)
    <2>1. CallsLeft(d)' \in 0..(CallsLeft(d) - 1) /\ OthersWait(d)
        BY <1>2, <1>7
    <2>2. ASSUME NEW c \in Copies \ {d} PROVE CallsLeft(c)' = CallsLeft(c)
        BY <1>3, <2>1 DEF OthersWait
    <2> QED
        BY <1>1, <2>1, <2>2
<1> QED
    BY <1>4, <1>5, <1>6, <1>7 DEF Next

\* No copy goes on for ever, whatever is lost and whoever writes beside it.
THEOREM CopiesAreFinite == Spec => CallsRunOut
BY CopyInvHolds, CallsAreCounted, PTL DEF CallsRunOut, Spec

-----------------------------------------------------------------------------
(* The copy as one reading and one write. *)

PhaseMap == [c \in Copies |-> PhaseOf(c)]
AskedMap == [c \in Copies |-> mem[c].asked]
MatchedMap == [c \in Copies |-> mem[c].matched]
TakenOf(c) == IF mem[c].body = Missing THEN Nothing
              ELSE [of |-> mem[c].body, chunks |-> Chunks[mem[c].asked]]
TakenMap == [c \in Copies |-> TakenOf(c)]

LEMMA Phases ==
    ASSUME NEW c \in Copies
    PROVE  /\ stage[c] = "idle" => PhaseOf(c) = "idle"
           /\ stage[c] = "open" => PhaseOf(c) = "asked"
           /\ stage[c] \in {"create", "part"} => PhaseOf(c) = "taken"
           /\ stage[c] = "put" =>
                  PhaseOf(c) = IF mem[c].tries > 1 THEN "landed" ELSE "taken"
           /\ stage[c] = "complete" =>
                  PhaseOf(c) = IF mem[c].upload \in open[c] THEN "taken"
                                                            ELSE "landed"
           /\ stage[c] = "verify" => PhaseOf(c) = "landed"
           /\ stage[c] = "done" => PhaseOf(c) = "done"
           /\ stage[c] \in {"abort", "failed", "killed"} => PhaseOf(c) = "over"
    BY DEF PhaseOf, Landed

\* A step of c moves the mapped state at c only.
LEMMA OneCopyMaps ==
    ASSUME NEW c \in Copies, OthersWait(c),
           \A d \in Copies \ {c} : open'[d] = open[d]
    PROVE  /\ PhaseMap' = [PhaseMap EXCEPT ![c] = PhaseOf(c)']
           /\ AskedMap' = [AskedMap EXCEPT ![c] = mem'[c].asked]
           /\ MatchedMap' = [MatchedMap EXCEPT ![c] = mem'[c].matched]
           /\ TakenMap' = [TakenMap EXCEPT ![c] = TakenOf(c)']
<1>1. ASSUME NEW d \in Copies \ {c}
      PROVE  /\ PhaseOf(d)' = PhaseOf(d)
             /\ TakenOf(d)' = TakenOf(d)
             /\ mem'[d] = mem[d]
    BY <1>1 DEF OthersWait, PhaseOf, Landed, TakenOf
<1> QED
    BY <1>1 DEF PhaseMap, AskedMap, MatchedMap, TakenMap

\* A step of c that keeps what it remembers of the source and writes nothing:
\* a stutter, or the end of the copy.
LEMMA QuietStepMaps ==
    ASSUME NEW c \in Copies, OthersWait(c),
           mem'[c].asked = mem[c].asked, mem'[c].matched = mem[c].matched,
           mem'[c].body = mem[c].body,
           \A d \in Copies \ {c} : open'[d] = open[d],
           source' = source, destination' = destination,
           \/ PhaseOf(c)' = PhaseOf(c)
           \/ PhaseOf(c) \in {"asked", "taken", "landed"} /\ PhaseOf(c)' = "over"
    PROVE  [Atomic!AtomicNext]_Atomic!atomicVars
<1>1. /\ AskedMap' = AskedMap
      /\ MatchedMap' = MatchedMap
      /\ TakenMap' = TakenMap
      /\ PhaseMap' = [PhaseMap EXCEPT ![c] = PhaseOf(c)']
    BY OneCopyMaps DEF AskedMap, MatchedMap, TakenMap, TakenOf
<1>2. CASE PhaseOf(c)' = PhaseOf(c)
    <2>1. PhaseMap' = PhaseMap
        BY <1>1, <1>2 DEF PhaseMap
    <2> QED
        BY <1>1, <2>1
        DEF Atomic!atomicVars, PhaseMap, AskedMap, MatchedMap, TakenMap, TakenOf
<1>3. CASE /\ PhaseOf(c) \in {"asked", "taken", "landed"}
           /\ PhaseOf(c)' = "over"
    <2>1. Atomic!GiveUp(c)
        BY <1>1, <1>3
        DEF Atomic!GiveUp, Atomic!Move, PhaseMap, AskedMap, MatchedMap,
            TakenMap, TakenOf
    <2> QED
        BY <2>1 DEF Atomic!AtomicNext
<1> QED
    BY <1>2, <1>3

\* A write of what c has read.
LEMMA WriteMaps ==
    ASSUME NEW c \in Copies, OthersWait(c), Keeps(mem[c], mem'[c]),
           \A d \in Copies \ {c} : open'[d] = open[d],
           source' = source, mem[c].body # Missing,
           mem[c].sent = Chunks[mem[c].asked], destination' = Sent(c),
           PhaseOf(c) \in {"taken", "landed"},
           PhaseOf(c)' \in {"landed", "over"}
    PROVE  [Atomic!AtomicNext]_Atomic!atomicVars
<1>1. /\ AskedMap' = AskedMap
      /\ MatchedMap' = MatchedMap
      /\ TakenMap' = TakenMap
      /\ PhaseMap' = [PhaseMap EXCEPT ![c] = PhaseOf(c)']
    BY OneCopyMaps DEF Keeps, AskedMap, MatchedMap, TakenMap, TakenOf
<1>2. destination' = TakenMap[c]
    BY DEF TakenMap, TakenOf, Sent
<1>3. Atomic!Store(c)
    BY <1>1, <1>2
    DEF Atomic!Store, PhaseMap, AskedMap, MatchedMap, TakenMap, TakenOf
<1> QED
    BY <1>3 DEF Atomic!AtomicNext

LEMMA InitMaps == Init => Atomic!AtomicInit
<1> SUFFICES ASSUME Init
             PROVE  Atomic!AtomicInit
    OBVIOUS
<1>1. ASSUME NEW c \in Copies
      PROVE  /\ PhaseOf(c) = "idle"
             /\ mem[c].asked = Missing
             /\ mem[c].matched = FALSE
             /\ TakenOf(c) = Nothing
    BY Phases DEF Init, TakenOf
<1> QED
    BY <1>1 DEF Init, Atomic!AtomicInit, TakenOf, Nothing, Atomic!Nothing

LEMMA StepMaps ==
    ASSUME TypeOK, CopiesAreRight, [Next]_vars
    PROVE  [Atomic!AtomicNext]_Atomic!atomicVars
<1> USE DEF Keeps, Caught
<1>i. ASSUME NEW c \in Copies
      PROVE  /\ ReadsWhatWasAsked(c)
             /\ StoresWhatItRead(c)
             /\ KnowsItsUpload(c)
             /\ mem[c] \in Memory
             /\ mem[c].sent + 1 \in Nat
             /\ mem[c].tries \in 1..Attempts
             /\ mem[c].tries \in 0..Attempts
    BY CopyAssumption DEF CopiesAreRight, TypeOK, Memory
<1>s. {"open", "put", "create", "part", "complete", "abort", "verify",
       "done", "failed", "killed"} \subseteq Stages
    BY DEF Stages, Working
<1>p. ASSUME NEW c \in Copies
      PROVE  /\ stage'[c] = "open" => PhaseOf(c)' = "asked"
             /\ stage'[c] \in {"create", "part"} => PhaseOf(c)' = "taken"
             /\ stage'[c] = "put" =>
                    PhaseOf(c)' = IF mem'[c].tries > 1 THEN "landed" ELSE "taken"
             /\ stage'[c] = "complete" =>
                    PhaseOf(c)' = IF mem'[c].upload \in open'[c] THEN "taken"
                                                                 ELSE "landed"
             /\ stage'[c] = "verify" => PhaseOf(c)' = "landed"
             /\ stage'[c] = "done" => PhaseOf(c)' = "done"
             /\ stage'[c] \in {"abort", "failed", "killed"} => PhaseOf(c)' = "over"
    BY DEF PhaseOf, Landed
<1>1. ASSUME NEW c \in Copies, Begin(c)
      PROVE  [Atomic!AtomicNext]_Atomic!atomicVars
    <2>1. /\ OthersWait(c)
          /\ mem'[c].asked = source
          /\ mem'[c].matched \in BOOLEAN
          /\ mem'[c].body = mem[c].body
          /\ stage'[c] = "open"
        BY <1>1, <1>i DEF Begin, Goto, Recall, OthersWait, TypeOK, Memory
    <2>2. PhaseOf(c) = "idle" /\ PhaseOf(c)' = "asked" /\ mem[c].body = Missing
        BY <1>1, <1>i, <1>p, <2>1, Phases DEF Begin, ReadsWhatWasAsked
    <2>3. /\ PhaseMap' = [PhaseMap EXCEPT ![c] = "asked"]
          /\ AskedMap' = [AskedMap EXCEPT ![c] = source]
          /\ MatchedMap' = [MatchedMap EXCEPT ![c] = mem'[c].matched]
          /\ TakenMap' = TakenMap
        BY <1>1, <2>1, <2>2, OneCopyMaps DEF Begin, TakenMap, TakenOf
    <2>4. Atomic!Ask(c)
        BY <1>1, <2>1, <2>2, <2>3
        DEF Begin, Atomic!Ask, Atomic!Move, PhaseMap, AskedMap, MatchedMap,
            TakenMap, TakenOf
    <2> QED
        BY <2>4 DEF Atomic!AtomicNext
<1>2. ASSUME NEW c \in Copies, Open(c)
      PROVE  [Atomic!AtomicNext]_Atomic!atomicVars
    <2>1. /\ OthersWait(c)
          /\ mem'[c].asked = mem[c].asked
          /\ mem'[c].matched = mem[c].matched
          /\ mem'[c].body = source
          /\ mem'[c].tries = 1
          /\ stage'[c] \in {"create", "put"}
        BY <1>2, <1>i
        DEF Open, Goto, Recall, OthersWait, TypeOK, Memory, StoresWhatItRead
    <2>2. PhaseOf(c) = "asked" /\ PhaseOf(c)' = "taken"
        BY <1>2, <1>p, <2>1, Phases DEF Open
    <2>3. /\ PhaseMap' = [PhaseMap EXCEPT ![c] = "taken"]
          /\ AskedMap' = AskedMap
          /\ MatchedMap' = MatchedMap
          /\ TakenMap' = [TakenMap EXCEPT ![c] =
                             [of |-> source, chunks |-> Chunks[mem[c].asked]]]
        BY <1>2, <2>1, <2>2, OneCopyMaps
        DEF Open, TakenOf, AskedMap, MatchedMap
    <2>4. Atomic!Take(c)
        BY <1>2, <2>2, <2>3
        DEF Open, Atomic!Take, Atomic!Move, PhaseMap, AskedMap, MatchedMap,
            TakenMap, TakenOf
    <2> QED
        BY <2>4 DEF Atomic!AtomicNext
<1>3. ASSUME NEW c \in Copies, OpenRefused(c)
      PROVE  [Atomic!AtomicNext]_Atomic!atomicVars
    <2>1. /\ OthersWait(c)
          /\ Keeps(mem[c], mem'[c])
          /\ stage'[c] = "failed"
        BY <1>3, <1>i, <1>s, RaiseEffect DEF OpenRefused, Memory
    <2>2. PhaseOf(c) = "asked"
        BY <1>3, <1>i, Phases DEF OpenRefused, Working, KnowsItsUpload
    <2> QED
        BY <1>3, <1>p, <2>1, <2>2, QuietStepMaps DEF OpenRefused
<1>4. ASSUME NEW c \in Copies, PutEmpty(c)
      PROVE  [Atomic!AtomicNext]_Atomic!atomicVars
    <2>1. /\ OthersWait(c)
          /\ Keeps(mem[c], mem'[c])
          /\ \/ stage'[c] \in {"verify", "failed"}
             \/ stage'[c] = "put" /\ mem'[c].tries > 1
        BY <1>4, <1>i, <1>s, AnsweredEffect, LostEffect DEF PutEmpty, Memory
    <2>2. PhaseOf(c) \in {"taken", "landed"}
        BY <1>4, <1>i, Phases DEF PutEmpty, Working, KnowsItsUpload
    <2>4. PhaseOf(c)' \in {"landed", "over"}
        BY <1>4, <1>p, <2>1 DEF PutEmpty, TypeOK
    <2>5. mem[c].body # Missing /\ mem[c].sent = Chunks[mem[c].asked]
        BY <1>4, <1>i DEF PutEmpty, ReadsWhatWasAsked, StoresWhatItRead
    <2> QED
        BY <1>4, <1>p, <2>1, <2>2, <2>4, <2>5, WriteMaps DEF PutEmpty
<1>5. ASSUME NEW c \in Copies, CreateUpload(c)
      PROVE  [Atomic!AtomicNext]_Atomic!atomicVars
    <2>1. /\ OthersWait(c)
          /\ mem'[c].asked = mem[c].asked
          /\ mem'[c].matched = mem[c].matched
          /\ mem'[c].body = mem[c].body
          /\ stage'[c] \in {"part", "create", "failed"}
        <3>1. [mem[c] EXCEPT !.upload = mem[c].tries] \in Memory
            BY <1>i, MemoryFields
        <3>2. CASE Answered(c, [mem[c] EXCEPT !.upload = mem[c].tries], "part")
            BY <3>1, <3>2, <1>i, <1>s, AnsweredEffect DEF Memory
        <3>3. CASE Lost(c) \/ Raise(c)
            BY <3>3, <1>5, LostEffect, RaiseEffect DEF CreateUpload
        <3> QED
            BY <1>5, <3>2, <3>3 DEF CreateUpload
    <2>2. PhaseOf(c) = "taken"
        BY <1>5, Phases DEF CreateUpload
    <2>3. \A d \in Copies \ {c} : open'[d] = open[d]
        BY <1>5 DEF CreateUpload, TypeOK
    <2> QED
        BY <1>5, <1>p, <2>1, <2>2, <2>3, QuietStepMaps DEF CreateUpload
<1>6. ASSUME NEW c \in Copies, UploadPart(c)
      PROVE  [Atomic!AtomicNext]_Atomic!atomicVars
    <2>1. /\ OthersWait(c)
          /\ mem'[c].asked = mem[c].asked
          /\ mem'[c].matched = mem[c].matched
          /\ mem'[c].body = mem[c].body
          /\ stage'[c] \in {"part", "abort"}
        <3>1. [mem[c] EXCEPT !.sent = @ + 1] \in Memory
            BY <1>i, MemoryFields
        <3>2. CASE Answered(c, [mem[c] EXCEPT !.sent = @ + 1], "part")
            BY <3>1, <3>2, <1>i, <1>s, AnsweredEffect DEF Memory
        <3>3. CASE Lost(c)
            BY <3>3, <1>6, LostEffect DEF UploadPart
        <3> QED
            BY <1>6, <3>2, <3>3 DEF UploadPart
    <2>2. PhaseOf(c) = "taken"
        BY <1>6, Phases DEF UploadPart
    <2> QED
        BY <1>6, <1>p, <2>1, <2>2, QuietStepMaps DEF UploadPart
<1>7. ASSUME NEW c \in Copies, RefusePart(c)
      PROVE  [Atomic!AtomicNext]_Atomic!atomicVars
    <2>1. /\ OthersWait(c)
          /\ Keeps(mem[c], mem'[c])
          /\ stage'[c] = "abort"
        BY <1>7, <1>i, <1>s, RaiseEffect DEF RefusePart, Memory
    <2>2. PhaseOf(c) = "taken"
        BY <1>7, <1>i, Phases DEF RefusePart, Working, KnowsItsUpload
    <2> QED
        BY <1>7, <1>p, <2>1, <2>2, QuietStepMaps DEF RefusePart
<1>8. ASSUME NEW c \in Copies, EndOfBody(c)
      PROVE  [Atomic!AtomicNext]_Atomic!atomicVars
    <2>1. /\ OthersWait(c)
          /\ Keeps(mem[c], mem'[c])
          /\ stage'[c] \in {"complete", "abort"}
        BY <1>8, <1>i, <1>s, AnsweredEffect, RaiseEffect DEF EndOfBody, Memory
    <2>2. PhaseOf(c) = "taken" /\ mem[c].upload \in open[c]
        BY <1>8, <1>i, Phases DEF EndOfBody, Working, KnowsItsUpload
    <2> QED
        BY <1>8, <1>p, <2>1, <2>2, QuietStepMaps DEF EndOfBody
<1>9. ASSUME NEW c \in Copies, Complete(c)
      PROVE  [Atomic!AtomicNext]_Atomic!atomicVars
    <2>1. /\ OthersWait(c)
          /\ Keeps(mem[c], mem'[c])
          /\ stage'[c] \in {"verify", "complete", "abort"}
        BY <1>9, <1>i, <1>s, AnsweredEffect, LostEffect DEF Complete, Memory
    <2>2. PhaseOf(c) = "taken"
        BY <1>9, <1>i, Phases DEF Complete, Working, KnowsItsUpload
    <2>3. \A d \in Copies \ {c} : open'[d] = open[d]
        BY <1>9 DEF Complete, TypeOK
    <2>4. PhaseOf(c)' \in {"landed", "over"}
        BY <1>9, <1>p, <2>1 DEF Complete, TypeOK
    <2>5. mem[c].body # Missing /\ mem[c].sent = Chunks[mem[c].asked]
        BY <1>9, <1>i DEF Complete, ReadsWhatWasAsked, StoresWhatItRead
    <2> QED
        BY <1>9, <1>p, <2>1, <2>2, <2>3, <2>4, <2>5, WriteMaps DEF Complete
<1>10. ASSUME NEW c \in Copies, CompleteAgain(c)
       PROVE  [Atomic!AtomicNext]_Atomic!atomicVars
    <2>1. /\ OthersWait(c)
          /\ Keeps(mem[c], mem'[c])
          /\ stage'[c] \in {"verify", "abort"}
        BY <1>10, <1>i, <1>s, AnsweredEffect, RaiseEffect DEF CompleteAgain,
           Memory
    <2>2. PhaseOf(c) = "landed"
        BY <1>10, <1>i, Phases DEF CompleteAgain, Working, KnowsItsUpload
    <2> QED
        BY <1>10, <1>p, <2>1, <2>2, QuietStepMaps DEF CompleteAgain
<1>11. ASSUME NEW c \in Copies, Abort(c)
       PROVE  [Atomic!AtomicNext]_Atomic!atomicVars
    <2>1. /\ OthersWait(c)
          /\ Keeps(mem[c], mem'[c])
          /\ stage'[c] \in {"abort", "failed"}
        BY <1>11, <1>i, <1>s, AnsweredEffect, LostEffect DEF Abort, Memory
    <2>2. PhaseOf(c) = "over"
        BY <1>11, <1>i, Phases DEF Abort, Working, KnowsItsUpload
    <2>3. \A d \in Copies \ {c} : open'[d] = open[d]
        BY <1>11 DEF Abort, TypeOK
    <2> QED
        BY <1>11, <1>p, <2>1, <2>2, <2>3, QuietStepMaps DEF Abort
<1>12. ASSUME NEW c \in Copies, AbortFails(c)
       PROVE  [Atomic!AtomicNext]_Atomic!atomicVars
    <2>1. /\ OthersWait(c)
          /\ Keeps(mem[c], mem'[c])
          /\ stage'[c] = "failed"
        BY <1>12, <1>i, <1>s, AnsweredEffect DEF AbortFails, Memory
    <2>2. PhaseOf(c) = "over"
        BY <1>12, <1>i, Phases DEF AbortFails, Working, KnowsItsUpload
    <2>3. \A d \in Copies \ {c} : open'[d] = open[d]
        BY <1>12 DEF AbortFails, TypeOK
    <2> QED
        BY <1>12, <1>p, <2>1, <2>2, <2>3, QuietStepMaps DEF AbortFails
<1>13. ASSUME NEW c \in Copies, Verify(c)
       PROVE  [Atomic!AtomicNext]_Atomic!atomicVars
    <2>1. /\ OthersWait(c)
          /\ Keeps(mem[c], mem'[c])
          /\ PhaseOf(c) = "landed"
          /\ mem[c].body # Missing
          /\ mem[c].sent = Chunks[mem[c].asked]
        BY <1>13, <1>i, Phases
        DEF Verify, Goto, OthersWait, TypeOK, ReadsWhatWasAsked, StoresWhatItRead
    <2>2. CASE destination # Sent(c)
        <3>1. stage'[c] = "failed"
            BY <1>13, <2>2 DEF Verify, Goto, TypeOK
        <3> QED
            BY <1>13, <1>p, <2>1, <3>1, QuietStepMaps DEF Verify
    <2>3. CASE destination = Sent(c)
        <3>1. stage'[c] = "done"
            BY <1>13, <2>3 DEF Verify, Goto, TypeOK
        <3>2. /\ PhaseMap' = [PhaseMap EXCEPT ![c] = "done"]
              /\ AskedMap' = AskedMap
              /\ MatchedMap' = MatchedMap
              /\ TakenMap' = TakenMap
            BY <1>13, <1>p, <2>1, <3>1, OneCopyMaps
            DEF Verify, AskedMap, MatchedMap, TakenMap, TakenOf
        <3>3. destination = TakenMap[c]
            BY <2>1, <2>3 DEF TakenMap, TakenOf, Sent
        <3>4. Atomic!Finish(c)
            BY <1>13, <2>1, <3>2, <3>3
            DEF Verify, Atomic!Finish, Atomic!Move, PhaseMap, AskedMap,
                MatchedMap, TakenMap, TakenOf
        <3> QED
            BY <3>4 DEF Atomic!AtomicNext
    <2> QED
        BY <2>2, <2>3
<1>14. ASSUME NEW c \in Copies, CallFails(c)
       PROVE  [Atomic!AtomicNext]_Atomic!atomicVars
    <2>1. /\ OthersWait(c)
          /\ Keeps(mem[c], mem'[c])
          /\ stage'[c] = Caught(stage[c])
        BY <1>14, <1>i, <1>s, RaiseEffect DEF CallFails, Memory
    <2>2. PhaseOf(c) \in {"asked", "taken", "landed"}
        BY <1>14, <1>i, Phases DEF CallFails, Working, KnowsItsUpload
    <2> QED
        BY <1>14, <1>p, <2>1, <2>2, QuietStepMaps DEF CallFails
<1>15. ASSUME NEW c \in Copies, Kill(c)
       PROVE  [Atomic!AtomicNext]_Atomic!atomicVars
    <2>1. /\ OthersWait(c)
          /\ Keeps(mem[c], mem'[c])
          /\ stage'[c] = "killed"
        BY <1>15 DEF Kill, Goto, OthersWait, TypeOK
    <2>2. PhaseOf(c) \in {"asked", "taken", "landed", "over"}
        BY <1>15, Phases DEF Kill, Working
    <2> QED
        BY <1>15, <1>p, <2>1, <2>2, QuietStepMaps DEF Kill
<1>16. CASE Change
    <2>1. Atomic!Change
        BY <1>16 DEF Change, Atomic!Change, PhaseOf, Landed
    <2> QED
        BY <2>1 DEF Atomic!AtomicNext
<1>17. CASE UNCHANGED vars
    BY <1>17 DEF vars, Atomic!atomicVars, PhaseOf, Landed
<1> QED
    BY <1>1, <1>2, <1>3, <1>4, <1>5, <1>6, <1>7, <1>8, <1>9, <1>10, <1>11,
       <1>12, <1>13, <1>14, <1>15, <1>16, <1>17
    DEF Next, CopyStep

\* The many calls of a copy, repeated, lost and failing, amount to one reading
\* of the source and a later write of exactly that, or to nothing.
THEOREM ImplementsAtomicCopy == Spec => RefinesAtomicCopy
<1>1. TypeOK /\ CopiesAreRight /\ [Next]_vars => [Atomic!AtomicNext]_Atomic!atomicVars
    BY StepMaps
<1> QED
    BY <1>1, InitMaps, CopyInvHolds, PTL
    DEF Spec, CopyInv, RefinesAtomicCopy, Atomic!AtomicSpec
=============================================================================
