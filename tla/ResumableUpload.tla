-------------------------- MODULE ResumableUpload ---------------------------
(***************************************************************************)
(* streamingUpload: a body is cut into chunks for a resumable session of   *)
(* Google Drive, which keeps a chunk whole or a first part of it, and says *)
(* how far it got.  A byte is one unit, numbered by its place in the body, *)
(* so that a stored file shows which bytes it is made of.  Hashes are of   *)
(* the body as it streams, whatever is stored.                             *)
(***************************************************************************)
EXTENDS Integers, Sequences, SequencesExt

CONSTANTS
    Bodies,     \* lengths of bodies
    ChunkSize,  \* configured size of a chunk
    Alignment,  \* what Drive wants a chunk that is not the last to be a multiple of
    Threshold,  \* bodies that are longer go through a session
    MaxBytes    \* limit of the request

ASSUME ResumableUploadAssumption ==
    /\ Bodies \subseteq Nat /\ ChunkSize \in Nat \ {0} /\ Alignment \in Nat \ {0}
    /\ Threshold \in Nat /\ MaxBytes \in Nat

Unknown == 0 - 1

VARIABLES
    body,      \* the length of the body, and whether it was declared
    phase,     \* what the upload does next
    streamed,  \* bytes read from the body, all of them hashed
    buffer,    \* read and not sent
    offset,    \* uploadedSize: as far as the session has got
    ended,     \* the body is read to its end
    session,   \* Drive's: bytes kept, the announced total, whether it is a file
    short      \* the session has kept a part of a chunk

uploadVars == <<body, phase, streamed, buffer, offset, ended, session, short>>

UploadTypeOK ==
    /\ body \in [length : Bodies, declared : BOOLEAN]
    /\ phase \in {"start", "whole", "read", "send", "finish", "stored", "failed"}
    /\ streamed \in 0..body.length /\ offset \in 0..body.length
    /\ buffer \in Seq(1..body.length) /\ session.bytes \in Seq(1..body.length)
    /\ session.total \in Nat \cup {Unknown} /\ session.file \in BOOLEAN
    /\ ended \in BOOLEAN /\ short \in BOOLEAN

UploadInit ==
    /\ body \in [length : Bodies, declared : BOOLEAN]
    /\ phase = "start" /\ streamed = 0 /\ buffer = <<>> /\ offset = 0 /\ ended = FALSE
    /\ session = [bytes |-> <<>>, total |-> Unknown, file |-> FALSE] /\ short = FALSE

-----------------------------------------------------------------------------
AlignChunk == IF ChunkSize < Alignment THEN Alignment ELSE ChunkSize - (ChunkSize % Alignment)

UseResumable == ~body.declared \/ body.length > Threshold \/ body.length > ChunkSize

Units(from, to) == [i \in 1..(to - from) |-> from + i]

Begin ==
    /\ phase = "start"
    /\ phase' = IF body.declared /\ body.length > MaxBytes THEN "failed"
                ELSE IF UseResumable THEN "read" ELSE "whole"
    /\ UNCHANGED <<body, streamed, buffer, offset, ended, session, short>>

\* A short body is collected and posted at once.
UploadMultipart ==
    /\ phase = "whole"
    /\ streamed' = body.length /\ offset' = body.length
    /\ session' = [session EXCEPT !.bytes = Units(0, body.length), !.file = TRUE]
    /\ phase' = "stored"
    /\ UNCHANGED <<body, buffer, ended, short>>

\* The last full chunk is kept until the body ends, to be sent as the last.
MustSend == Len(buffer') > AlignChunk \/ (ended' /\ buffer' # <<>>)
AfterRead == IF MustSend THEN "send" ELSE IF ended' THEN "finish" ELSE "read"

\* reader.read gives some bytes of the body or says that there are no more.
Read(n) ==
    /\ phase = "read"
    /\ n \in 0..(body.length - streamed)
    /\ n = 0 => streamed = body.length
    /\ IF streamed + n > MaxBytes
       THEN phase' = "failed" /\ UNCHANGED <<streamed, buffer, ended>>
       ELSE /\ streamed' = streamed + n
            /\ buffer' = buffer \o Units(streamed, streamed + n)
            /\ ended' = (n = 0)
            /\ phase' = AfterRead
    /\ UNCHANGED <<body, offset, session, short>>

TakenUnits == IF ended THEN Len(buffer) ELSE AlignChunk
Rest == SubSeq(buffer, TakenUnits + 1, Len(buffer))
IsFinal == ended /\ Rest = <<>>

\* What a chunk says the whole is: the declared length until the last chunk,
\* which says where it ends.
Announced == IF IsFinal THEN offset + TakenUnits
             ELSE IF body.declared THEN body.length ELSE Unknown

\* Drive takes bytes where it stands and of the total it was told before,
\* refuses any others and, when it has the whole, makes it a file.
Accepts == ~session.file /\ offset = Len(session.bytes) /\ session.total \in {Unknown, Announced}

\* After the chunk: on with the buffer, the body or the end.
AfterChunk(done) ==
    IF done THEN "stored"
    ELSE IF IsFinal THEN "finish"
    ELSE IF Len(Rest) > AlignChunk THEN "send" ELSE "read"

\* 308 reports the last byte kept, 200 the file.
SendChunk(kept) ==
    LET chunk == SubSeq(buffer, 1, TakenUnits)
        done == IsFinal /\ kept = TakenUnits
    IN  /\ phase = "send"
        /\ kept \in 0..TakenUnits
        /\ Accepts
        /\ session' = [bytes |-> session.bytes \o SubSeq(chunk, 1, kept), file |-> done,
                       total |-> Announced]
        /\ buffer' = Rest
        /\ offset' = offset + kept
        /\ short' = (short \/ kept < TakenUnits)
        /\ phase' = AfterChunk(done)
        /\ UNCHANGED <<body, streamed, ended>>

SendRefused ==
    /\ phase = "send" /\ ~Accepts
    /\ phase' = "failed"
    /\ UNCHANGED <<body, streamed, buffer, offset, ended, session, short>>

\* Nothing was made a file: a chunk of no bytes says that this is all of it.
Finalize ==
    /\ phase = "finish"
    /\ IF ~session.file /\ offset = Len(session.bytes) /\ session.total \in {Unknown, offset}
       THEN session' = [session EXCEPT !.file = TRUE] /\ phase' = "stored"
       ELSE phase' = "failed" /\ UNCHANGED session
    /\ UNCHANGED <<body, streamed, buffer, offset, ended, short>>

\* The network, Drive or the client's signal.
SessionFails ==
    /\ phase \in {"whole", "read", "send", "finish"}
    /\ phase' = "failed"
    /\ UNCHANGED <<body, streamed, buffer, offset, ended, session, short>>

\* The body goes on and Drive answers.
UploadWorks == Begin \/ UploadMultipart \/ Finalize \/ SendRefused
               \/ \E n \in 0..body.length : Read(n) \/ SendChunk(n)
UploadFairness == WF_uploadVars(UploadWorks)

UploadNext == UploadWorks \/ SessionFails

UploadSpec == UploadInit /\ [][UploadNext]_uploadVars

-----------------------------------------------------------------------------
(***************************************************************************)
(* Properties.                                                             *)
(***************************************************************************)

Body == Units(0, body.length)

\* What is recorded as the size of a stored object is the size of the file in
\* Drive, within the limit of the request; and when Drive kept every chunk
\* whole, the file is the body, byte for byte.
StoredWhole ==
    phase = "stored" =>
       /\ session.file /\ offset = Len(session.bytes) /\ offset <= MaxBytes
       /\ ~short => session.bytes = Body

\* Whatever part of a chunk Drive keeps, the next one is sent from where Drive
\* stands, and while the body lasts it is of the size Drive asks for.
ChunksFit ==
    /\ phase \in {"send", "finish"} => offset = Len(session.bytes)
    /\ phase = "send" /\ ~IsFinal => TakenUnits % Alignment = 0 /\ TakenUnits <= Len(buffer)

\* Every upload ends, stored or failed.
UploadEnds == <>(phase \in {"stored", "failed"})

\* The object that is stored is the body whose hashes are its ETag and its
\* checksum (upload-streaming.ts: "the stored checksum still describes what
\* the caller uploaded").
StoredIsSent == phase = "stored" => session.bytes = Body

=============================================================================
