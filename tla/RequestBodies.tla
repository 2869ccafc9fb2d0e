--------------------------- MODULE RequestBodies ----------------------------
(***************************************************************************)
(* Reading a body of signed chunks as it arrives.  Every chunk is a line   *)
(* with its size and signature, its bytes and an end of line; a signature  *)
(* covers the one before, so it stands here for the chunks it commits to.  *)
(* The body arrives in reads of any size, perhaps not as it was sent.      *)
(***************************************************************************)
EXTENDS Integers, Sequences, FiniteSets, SequencesExt, FiniteSetsExt

CONSTANTS
    Uploads,         \* what clients sign: sequences of chunks, the last one empty
    MaxHeader,       \* symbols that are looked at for the end of a line
    MaxRead          \* bound: symbols of one read

ASSUME ChunkedAssumption == MaxHeader \in Nat /\ MaxRead \in Nat \ {0}

VARIABLES
    signed,     \* the chunks the client signed
    wire,       \* the body on its way to us
    expected,   \* x-amz-decoded-content-length, or -1 without the header
    arrived,    \* symbols read of the body
    buffer, previous, line,
    passedOn,   \* chunks handed to the operation
    chunkPhase

chunkVars == <<signed, wire, expected, arrived, buffer, previous, line, passedOn, chunkPhase>>

Cr == [kind |-> "cr"]
Lf == [kind |-> "lf"]
SizeLine(size, signature) == [kind |-> "head", size |-> size, signature |-> signature]
NoLine == SizeLine(0, <<>>)

\* The signature of a chunk after those of the chunks before it.
Sign(chunks, chunk) == Append(chunks, chunk)

Record(chunks, i) ==
    <<SizeLine(Len(chunks[i]), FoldLeft(Sign, <<>>, SubSeq(chunks, 1, i))), Cr, Lf>> \o chunks[i] \o <<Cr, Lf>>
Records(chunks) == [i \in DOMAIN chunks |-> Record(chunks, i)]
Encoded(chunks) == FlattenSeq(Records(chunks))
DecodedLength(chunks) == Len(FlattenSeq(chunks))

\* What may happen to a body: cut short, followed by more, a chunk lost, sent
\* twice or before the one it follows, a byte or a size changed.
Arrivals(chunks) ==
    LET rs == Records(chunks)
        whole == Encoded(chunks)
    IN  {whole, whole \o rs[1]}
        \cup {SubSeq(whole, 1, n) : n \in 0..(Len(whole) - 1)}
        \cup {FlattenSeq(RemoveAt(rs, i)) : i \in DOMAIN rs}
        \cup {FlattenSeq(InsertAt(rs, i, rs[i])) : i \in DOMAIN rs}
        \cup {FlattenSeq([rs EXCEPT ![i] = rs[i + 1], ![i + 1] = rs[i]]) : i \in 1..(Len(rs) - 1)}
        \cup {[whole EXCEPT ![i] = Lf] : i \in DOMAIN whole}
        \cup {[whole EXCEPT ![i].size = n] : i \in {j \in DOMAIN whole : whole[j].kind = "head"}, n \in 0..2}

ChunkTypeOK ==
    /\ chunkPhase \in {"line", "chunk", "closed", "failed"}
    /\ arrived \in 0..Len(wire) /\ buffer = SubSeq(wire, arrived - Len(buffer) + 1, arrived)
    /\ \A i \in DOMAIN passedOn : passedOn[i] # <<>>

ChunkInit ==
    /\ signed \in Uploads /\ wire \in Arrivals(signed)
    /\ expected \in {-1, DecodedLength(signed), DecodedLength(signed) + 1}
    /\ arrived = 0 /\ buffer = <<>> /\ previous = <<>> /\ line = NoLine /\ passedOn = <<>> /\ chunkPhase = "line"

-----------------------------------------------------------------------------

LineEnds == {i \in 1..(Len(buffer) - 1) : buffer[i] = Cr /\ buffer[i + 1] = Lf}
Ready == IF chunkPhase = "line" THEN LineEnds # {} ELSE Len(buffer) >= line.size + 2
Reading == chunkPhase \in {"line", "chunk"} /\ ~Ready

\* A line that has not ended within the limit is given up.
MoreBytes(n) ==
    /\ Reading /\ (chunkPhase = "line" => Len(buffer) <= MaxHeader)
    /\ arrived + n <= Len(wire)
    /\ arrived' = arrived + n
    /\ buffer' = buffer \o SubSeq(wire, arrived + 1, arrived + n)
    /\ UNCHANGED <<signed, wire, expected, previous, line, passedOn, chunkPhase>>

GiveUp == chunkPhase' = "failed" /\ UNCHANGED <<signed, wire, expected, arrived, buffer, previous, line, passedOn>>

EndOfBody == Reading /\ arrived = Len(wire) /\ GiveUp
LineTooLong == Reading /\ chunkPhase = "line" /\ Len(buffer) > MaxHeader /\ GiveUp

FirstLine == CHOOSE i \in LineEnds : \A j \in LineEnds : i <= j

ReadLine ==
    /\ chunkPhase = "line" /\ Ready
    /\ IF FirstLine = 2 /\ buffer[1].kind = "head"
       THEN /\ line' = buffer[1] /\ buffer' = SubSeq(buffer, 4, Len(buffer)) /\ chunkPhase' = "chunk"
            /\ UNCHANGED <<signed, wire, expected, arrived, previous, passedOn>>
       ELSE GiveUp

VerifyChunk(chunk) == line.signature = Sign(previous, chunk)

Handed(chunk) == IF line.size = 0 THEN passedOn ELSE Append(passedOn, chunk)

ReadChunk ==
    LET chunk == SubSeq(buffer, 1, line.size)
        ends == buffer[line.size + 1] = Cr /\ buffer[line.size + 2] = Lf
        last == line.size = 0
        agreed == expected \in {-1, DecodedLength(passedOn)}
    IN  /\ chunkPhase = "chunk" /\ Ready
        /\ IF ends /\ VerifyChunk(chunk) /\ (last => agreed)
           THEN /\ buffer' = SubSeq(buffer, line.size + 3, Len(buffer))
                /\ previous' = line.signature
                /\ passedOn' = Handed(chunk)
                /\ chunkPhase' = IF last THEN "closed" ELSE "line"
                /\ UNCHANGED <<signed, wire, expected, arrived, line>>
           ELSE GiveUp

ChunkNext == (\E n \in 1..MaxRead : MoreBytes(n)) \/ EndOfBody \/ LineTooLong \/ ReadLine \/ ReadChunk

ChunkSpec == ChunkInit /\ [][ChunkNext]_chunkVars

-----------------------------------------------------------------------------

\* What an operation was handed at any moment is the beginning of what the
\* client signed, in its order and nothing twice, whatever arrived.
PassedOnWasSigned == IsPrefix(passedOn, signed)

\* The body ends well exactly when all of it arrived, with the length that was
\* announced, however the reads cut it.
EndsWellIfWhole ==
    chunkPhase \in {"closed", "failed"} =>
       ((chunkPhase = "closed") <=> (IsPrefix(Encoded(signed), wire) /\ expected \in {-1, DecodedLength(signed)}))

-----------------------------------------------------------------------------
(***************************************************************************)
(* Reading a multipart form as it arrives: fields are kept up to a limit,  *)
(* the file is passed on while it arrives and ends at the next delimiter.  *)
(* Reads cut the body anywhere, also inside a delimiter, and values and    *)
(* the file may hold beginnings of one.                                    *)
(***************************************************************************)

CONSTANTS
    Forms,          \* [fields : a sequence of [name, value], file : a body or NoFile]
    NoFile,
    Nameless,            \* in place of a name that is missing
    MaxFieldBytes, MaxFieldCount,
    MaxPull         \* bound: symbols of one read

ASSUME FormBodyAssumption == MaxFieldBytes \in Nat /\ MaxFieldCount \in Nat /\ MaxPull \in Nat \ {0}

VARIABLES
    form,      \* what the client means
    body,      \* its bytes, perhaps cut short
    pulled,    \* how much of them was read
    pending,   \* read and not consumed
    formPhase,
    name,      \* of the part at hand
    kept,      \* the fields, in the order they came
    fieldBytes,
    streamed   \* of the file

formVars == <<form, body, pulled, pending, formPhase, name, kept, fieldBytes, streamed>>

Crlf == <<"cr", "lf">>
FirstDelimiter == <<"-", "-", "boundary">>
Delimiter == Crlf \o FirstDelimiter

Part(p) == Crlf \o <<p.name>> \o Crlf \o Crlf \o p.value \o Delimiter
Parts(f) == FlattenSeq([i \in DOMAIN f.fields |-> Part(f.fields[i])])
            \o (IF f.file = NoFile THEN <<>> ELSE Part([name |-> "file", value |-> f.file]))
BodyOf(f) == FirstDelimiter \o Parts(f) \o <<"-", "-">>

FormBodyTypeOK ==
    /\ formPhase \in {"start", "marker", "headers", "value", "file", "none", "whole", "malformed", "tooLarge", "truncated"}
    /\ pulled \in 0..Len(body) /\ pending = SubSeq(body, pulled - Len(pending) + 1, pulled)
    /\ Cardinality({kept[i].name : i \in DOMAIN kept}) = Len(kept)

FormBodyInit ==
    /\ form \in Forms
    /\ body \in {BodyOf(form)} \cup {SubSeq(BodyOf(form), 1, n) : n \in 0..(Len(BodyOf(form)) - 1)}
    /\ pulled = 0 /\ pending = <<>> /\ formPhase = "start" /\ name = "" /\ kept = <<>> /\ fieldBytes = 0
    /\ streamed = <<>>

-----------------------------------------------------------------------------

Found(needle) == {i \in 0..(Len(pending) - Len(needle)) : SubSeq(pending, i + 1, i + Len(needle)) = needle}
First(needle) == Min(Found(needle))
Exhausted == pulled = Len(body)

\* What the phase looks for and how much it may hold meanwhile.
Needle ==
    CASE formPhase = "start" -> FirstDelimiter
      [] formPhase = "headers" -> Crlf \o Crlf
      [] formPhase = "value" -> Delimiter
Limit == IF formPhase = "value" THEN MaxFieldBytes - fieldBytes ELSE MaxFieldBytes

Searching == formPhase \in {"start", "headers", "value"}
Overfull == Len(pending) > Limit
TailKept == Len(Delimiter) - 1

Wants ==
    \/ Searching /\ Found(Needle) = {} /\ ~Overfull
    \/ formPhase = "marker" /\ Len(pending) < 2
    \/ formPhase = "file" /\ Found(Delimiter) = {} /\ Len(pending) <= TailKept

Pull(n) ==
    /\ Wants /\ pulled + n <= Len(body)
    /\ pulled' = pulled + n
    /\ pending' = pending \o SubSeq(body, pulled + 1, pulled + n)
    /\ UNCHANGED <<form, body, formPhase, name, kept, fieldBytes, streamed>>

Becomes(phase) == formPhase' = phase
Consume(n) == pending' = SubSeq(pending, n + 1, Len(pending))
StopsAs(phase) == Becomes(phase) /\ UNCHANGED <<form, body, pulled, pending, name, kept, fieldBytes, streamed>>

NotFound ==
    /\ Searching /\ Found(Needle) = {} /\ (Overfull \/ Exhausted)
    /\ StopsAs(IF formPhase = "value" THEN "tooLarge" ELSE "malformed")

Preamble ==
    /\ formPhase = "start" /\ Found(Needle) # {}
    /\ Consume(First(Needle) + Len(Needle)) /\ Becomes("marker")
    /\ UNCHANGED <<form, body, pulled, name, kept, fieldBytes, streamed>>

Marker ==
    /\ formPhase = "marker"
    /\ IF Len(pending) < 2 THEN Exhausted /\ StopsAs("malformed")
       ELSE IF SubSeq(pending, 1, 2) = Crlf
       THEN /\ Consume(2) /\ Becomes("headers")
            /\ UNCHANGED <<form, body, pulled, name, kept, fieldBytes, streamed>>
       ELSE StopsAs(IF SubSeq(pending, 1, 2) = <<"-", "-">> THEN "none" ELSE "malformed")

\* A header block is one symbol here; without a name it is Nameless.
Headers ==
    /\ formPhase = "headers" /\ Found(Needle) # {}
    /\ LET block == SubSeq(pending, 1, First(Needle))
       IN  IF Len(block) # 1 \/ block[1] = Nameless THEN StopsAs("malformed")
           ELSE IF block[1] # "file" /\ Len(kept) >= MaxFieldCount THEN StopsAs("malformed")
           ELSE /\ Consume(First(Needle) + 4) /\ name' = block[1]
                /\ Becomes(IF block[1] = "file" THEN "file" ELSE "value")
                /\ UNCHANGED <<form, body, pulled, kept, fieldBytes, streamed>>

\* A repeated field keeps its first value.
Keeps(value) == IF \E i \in DOMAIN kept : kept[i].name = name THEN kept
                ELSE Append(kept, [name |-> name, value |-> value])

TooMuch(bytes) == bytes > MaxFieldBytes
Value ==
    /\ formPhase = "value" /\ Found(Needle) # {}
    /\ LET value == SubSeq(pending, 1, First(Needle))
       IN  /\ Consume(Len(value) + Len(Needle))
           /\ fieldBytes' = fieldBytes + Len(value)
           /\ IF TooMuch(fieldBytes') THEN Becomes("tooLarge") /\ UNCHANGED kept
              ELSE Becomes("marker") /\ kept' = Keeps(value)
    /\ UNCHANGED <<form, body, pulled, name, streamed>>

\* The file is passed on but for a tail that may begin a delimiter.
File ==
    /\ formPhase = "file"
    /\ IF Found(Delimiter) # {}
       THEN streamed' = streamed \o SubSeq(pending, 1, First(Delimiter)) /\ Consume(First(Delimiter)) /\ Becomes("whole")
       ELSE LET safe == Len(pending) - TailKept
            IN  IF safe > 0 THEN streamed' = streamed \o SubSeq(pending, 1, safe) /\ Consume(safe) /\ Becomes("file")
                ELSE Exhausted /\ Becomes("truncated") /\ UNCHANGED <<pending, streamed>>
    /\ UNCHANGED <<form, body, pulled, name, kept, fieldBytes>>

FormBodyNext == (\E n \in 1..MaxPull : Pull(n)) \/ NotFound \/ Preamble \/ Marker \/ Headers \/ Value \/ File

FormBodySpec == FormBodyInit /\ [][FormBodyNext]_formVars

-----------------------------------------------------------------------------

Bytes(fields) == FoldLeft(LAMBDA n, f : n + Len(f.value), 0, fields)
Firsts == SelectSeq([i \in DOMAIN form.fields |->
                       [name |-> form.fields[i].name, value |-> form.fields[i].value,
                        repeated |-> \E j \in 1..(i - 1) : form.fields[j].name = form.fields[i].name]],
                    LAMBDA f : ~f.repeated)
\* Up to the delimiter that ends the file.
Needed == IF form.file = NoFile THEN Len(BodyOf(form)) ELSE Len(BodyOf(form)) - 2

\* The file that is passed on is what was sent, from its first byte and with
\* nothing of a delimiter, and it ends well only when all of it came with the
\* delimiter behind it, beside the first value of every field, however the
\* reads cut the body.
FileIsExact ==
    /\ streamed # <<>> => IsPrefix(streamed, form.file)
    /\ formPhase = "whole" => /\ streamed = form.file /\ Len(body) >= Needed
                              /\ Len(kept) = Len(Firsts)
                              /\ \A i \in DOMAIN kept : kept[i].name = Firsts[i].name /\ kept[i].value = Firsts[i].value

\* Whatever is sent, no more is kept of the fields than the limit, and a form
\* within it, by the length of a delimiter, is read to its end.
LimitIsFair ==
    /\ Bytes(kept) <= MaxFieldBytes /\ Len(kept) <= MaxFieldCount
    /\ formPhase \in {"malformed", "tooLarge"} /\ Len(body) >= Needed
         => Bytes(form.fields) + Len(Delimiter) > MaxFieldBytes \/ Len(form.fields) > MaxFieldCount
            \/ \E i \in DOMAIN form.fields : form.fields[i].name = Nameless
=============================================================================
