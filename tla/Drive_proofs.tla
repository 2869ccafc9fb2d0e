---------------------------- MODULE Drive_proofs -----------------------------
(***************************************************************************)
(* Theorems about the Drive client: resumable uploads, the slots of        *)
(* uploads and downloads, and one call with its token and its retries, for *)
(* any bodies, workers, calls and failures.                                *)
(*                                                                         *)
(* An upload is followed by what its buffer and the session hold of the    *)
(* body; the slots by what the plan of a worker says that it has; a call   *)
(* by the consent it refreshes with and the token it sends.                *)
(***************************************************************************)
EXTENDS ResumableUpload, DriveSlots, DriveCalls, FiniteSetTheorems, SequenceTheorems, TLAPS

-----------------------------------------------------------------------------
SessionRecord == [bytes : Seq(1..body.length), total : Nat \cup {Unknown}, file : BOOLEAN]

\* What the upload and Drive have of the body; while no part of a chunk was
\* kept, Drive has a first part of it and the buffer what was read after that.
UploadInv ==
    /\ body \in [length : Bodies, declared : BOOLEAN]
    /\ phase \in {"start", "whole", "read", "send", "finish", "stored", "failed"}
    /\ streamed \in 0..body.length /\ offset \in Nat /\ buffer \in Seq(1..body.length)
    /\ session \in SessionRecord /\ ended \in BOOLEAN /\ short \in BOOLEAN
    /\ offset + Len(buffer) <= streamed /\ offset = Len(session.bytes) /\ streamed <= MaxBytes
    /\ ended => streamed = body.length
    /\ ~short => session.bytes = Units(0, offset) /\ buffer = Units(offset, streamed)
    /\ phase \in {"start", "whole"} => session.bytes = <<>> /\ buffer = <<>> /\ ~short /\ ~ended
    /\ phase = "whole" => body.length <= MaxBytes
    /\ phase = "read" => ~ended
    /\ phase = "send" /\ ~ended => Len(buffer) > AlignChunk
    /\ phase = "finish" => ended /\ buffer = <<>>
    /\ phase = "stored" => session.file /\ (~short => session.bytes = Units(0, body.length))

LEMMA UploadGiven == /\ Bodies \subseteq Nat /\ ChunkSize \in Nat \ {0} /\ Alignment \in Nat \ {0}
                     /\ Threshold \in Nat /\ MaxBytes \in Nat
  BY ResumableUploadAssumption

LEMMA ChunkAligned == AlignChunk \in Nat \ {0} /\ AlignChunk % Alignment = 0
  <1>1. CASE ChunkSize < Alignment
    BY <1>1, UploadGiven DEF AlignChunk
  <1>2. CASE ~(ChunkSize < Alignment)
    <2> DEFINE r == ChunkSize % Alignment
               q == ChunkSize \div Alignment
    <2>1. r \in Nat /\ r < Alignment /\ q \in Int /\ ChunkSize = Alignment * q + r
      BY UploadGiven
    <2>2. AlignChunk = ChunkSize - r
      BY <1>2 DEF AlignChunk
    <2> HIDE DEF r, q
    <2>3. AlignChunk = Alignment * q /\ AlignChunk \in Nat \ {0}
      BY <1>2, <2>1, <2>2, UploadGiven
    <2>4. (Alignment * q) % Alignment = 0
      BY <2>1, UploadGiven
    <2>5. QED
      BY <2>3, <2>4
  <1>3. QED
    BY <1>1, <1>2

LEMMA UnitsFields ==
    ASSUME NEW L \in Nat, NEW to \in 0..L, NEW from \in 0..to
    PROVE  /\ Units(from, to) \in Seq(1..L) /\ Len(Units(from, to)) = to - from
           /\ \A i \in 1..(to - from) : Units(from, to)[i] = from + i
  <1>1. to - from \in Nat /\ \A i \in 1..(to - from) : from + i \in 1..L
    OBVIOUS
  <1>2. QED
    BY <1>1 DEF Units

LEMMA FirstUnits ==
    ASSUME NEW L \in Nat, NEW to \in 0..L
    PROVE  /\ Units(0, to) \in Seq(1..L) /\ Len(Units(0, to)) = to
           /\ \A i \in 1..to : Units(0, to)[i] = i
  <1>1. 0 \in 0..to /\ to - 0 = to /\ \A i \in 1..to : 0 + i = i
    OBVIOUS
  <1>2. QED
    BY <1>1, UnitsFields

CountsFrom(s, from, to) == Len(s) = to - from /\ \A i \in 1..(to - from) : s[i] = from + i

\* A sequence is known by its length and what it counts.
LEMMA UnitsAre ==
    ASSUME NEW L \in Nat, NEW to \in 0..L, NEW from \in 0..to, NEW s \in Seq(1..L), CountsFrom(s, from, to)
    PROVE  s = Units(from, to)
  <1>1. Units(from, to) \in Seq(1..L) /\ Len(s) = Len(Units(from, to))
    BY UnitsFields DEF CountsFrom
  <1>2. \A i \in 1..Len(s) : s[i] = Units(from, to)[i]
    BY UnitsFields DEF CountsFrom
  <1> DEFINE u == Units(from, to)
  <1> HIDE DEF u
  <1>3. u \in Seq(1..L) /\ Len(s) = Len(u) /\ \A i \in 1..Len(s) : s[i] = u[i]
    BY <1>1, <1>2 DEF u
  <1>4. s = u
    BY <1>3, SeqEqual
  <1>5. QED
    BY <1>4 DEF u

LEMMA EmptyUnits == ASSUME NEW L \in Nat, NEW n \in 0..L PROVE Units(n, n) = <<>>
  <1>1. n \in 0..n /\ n - n = 0
    OBVIOUS
  <1>2. Units(n, n) \in Seq(1..L) /\ Len(Units(n, n)) = 0
    BY <1>1, UnitsFields
  <1>3. QED
    BY <1>2

LEMMA FirstPart ==
    ASSUME NEW S, NEW s \in Seq(S), NEW n \in 0..Len(s)
    PROVE  SubSeq(s, 1, n) \in Seq(S) /\ Len(SubSeq(s, 1, n)) = n /\ \A i \in 1..n : SubSeq(s, 1, n)[i] = s[i]
  OBVIOUS

LEMMA LastPart ==
    ASSUME NEW S, NEW s \in Seq(S), NEW n \in 0..Len(s)
    PROVE  /\ SubSeq(s, n + 1, Len(s)) \in Seq(S) /\ Len(SubSeq(s, n + 1, Len(s))) = Len(s) - n
           /\ \A i \in 1..(Len(s) - n) : SubSeq(s, n + 1, Len(s))[i] = s[n + i]
  OBVIOUS

LEMMA UploadFields ==
    ASSUME UploadInv
    PROVE  /\ body.length \in Nat /\ body.declared \in BOOLEAN /\ body.length \in Bodies
           /\ streamed \in Nat /\ streamed <= body.length /\ Len(buffer) \in Nat
           /\ session.bytes \in Seq(1..body.length) /\ session.total \in Nat \cup {Unknown} /\ session.file \in BOOLEAN
           /\ offset \in Nat /\ offset <= streamed
  <1>1. body.length \in Nat /\ body.declared \in BOOLEAN /\ body.length \in Bodies
    BY UploadGiven DEF UploadInv
  <1>2. buffer \in Seq(1..body.length) /\ session \in SessionRecord
    BY DEF UploadInv
  <1>3. Len(buffer) \in Nat
    BY <1>2
  <1>4. session.bytes \in Seq(1..body.length) /\ session.total \in Nat \cup {Unknown} /\ session.file \in BOOLEAN
    BY <1>2 DEF SessionRecord
  <1>5. offset \in Nat /\ offset + Len(buffer) <= streamed /\ streamed \in 0..body.length
    BY DEF UploadInv
  <1>6. QED
    BY <1>1, <1>3, <1>4, <1>5

LEMMA UploadInvInit == UploadInit => UploadInv
  <1> SUFFICES ASSUME UploadInit PROVE UploadInv
    OBVIOUS
  <1>1. body.length \in Nat /\ Unknown \in Nat \cup {Unknown}
    BY UploadGiven DEF UploadInit
  <1>2. Units(0, 0) = <<>>
    <2>1. 0 \in Nat /\ 0 \in 0..0
      OBVIOUS
    <2>2. QED
      BY <2>1, EmptyUnits
  <1>3. <<>> \in Seq(1..body.length) /\ Len(<<>>) = 0
    OBVIOUS
  <1>4. session \in SessionRecord /\ session.bytes = <<>>
    BY <1>1, <1>3 DEF UploadInit, SessionRecord
  <1>5. 0 \in 0..body.length /\ 0 \in Nat /\ 0 + 0 <= 0 /\ 0 <= MaxBytes
    BY <1>1, UploadGiven
  <1>6. /\ body \in [length : Bodies, declared : BOOLEAN] /\ phase = "start" /\ streamed = 0 /\ buffer = <<>>
        /\ offset = 0 /\ ended = FALSE /\ short = FALSE
    BY DEF UploadInit
  <1>7. QED
    BY <1>1, <1>2, <1>3, <1>4, <1>5, <1>6 DEF UploadInv

LEMMA BeginInv == ASSUME UploadInv, Begin PROVE UploadInv'
  <1>1. /\ UNCHANGED <<body, streamed, buffer, offset, ended, session, short>>
        /\ phase = "start" /\ phase' \in {"failed", "read", "whole"}
        /\ (phase' = "whole" => body.length <= MaxBytes)
    BY UploadFields, UploadGiven DEF Begin, UseResumable
  <1>2. phase' = "read" => ~ended
    BY <1>1 DEF UploadInv
  <1>3. QED
    BY <1>1, <1>2 DEF UploadInv, SessionRecord, AlignChunk, Units

LEMMA UploadMultipartInv == ASSUME UploadInv, UploadMultipart PROVE UploadInv'
  <1>1. /\ phase = "whole" /\ phase' = "stored" /\ UNCHANGED <<body, buffer, ended, short>>
        /\ streamed' = body.length /\ offset' = body.length
        /\ session' = [session EXCEPT !.bytes = Units(0, body.length), !.file = TRUE]
    BY DEF UploadMultipart
  <1>2. buffer = <<>> /\ ~short /\ body.length <= MaxBytes /\ body.length \in Nat /\ body' = body
    BY <1>1, UploadFields DEF UploadInv
  <1>3. Units(0, body.length) \in Seq(1..body.length) /\ Len(Units(0, body.length)) = body.length
    <2>1. body.length \in 0..body.length
      BY <1>2
    <2>2. QED
      BY <1>2, <2>1, FirstUnits
  <1>4. Units(body.length, body.length) = <<>>
    <2>1. body.length \in 0..body.length
      BY <1>2
    <2>2. QED
      BY <1>2, <2>1, EmptyUnits
  <1>5. session' \in SessionRecord' /\ session'.bytes = Units(0, body.length) /\ session'.file
    BY <1>1, <1>2, <1>3 DEF UploadInv, SessionRecord
  <1>6. Len(buffer) = 0 /\ Units(body.length, body.length)' = <<>>
    BY <1>2, <1>4
  <1>7. QED
    BY <1>1, <1>2, <1>3, <1>4, <1>5, <1>6 DEF UploadInv

LEMMA ReadInv == ASSUME UploadInv, NEW n, Read(n) PROVE UploadInv'
  <1>1. /\ phase = "read" /\ n \in Nat /\ n <= body.length - streamed /\ (n = 0 => streamed = body.length)
        /\ UNCHANGED <<body, offset, session, short>> /\ ~ended
    BY UploadFields DEF Read, UploadInv
  <1>2. CASE streamed + n > MaxBytes
    <2>1. phase' = "failed" /\ UNCHANGED <<streamed, buffer, ended>>
      BY <1>2 DEF Read
    <2>2. QED
      BY <1>1, <2>1 DEF UploadInv, SessionRecord, AlignChunk, Units
  <1>3. CASE ~(streamed + n > MaxBytes)
    <2> DEFINE to == streamed + n
               new == Units(streamed, to)
    <2>1. /\ streamed' = to /\ buffer' = buffer \o new /\ ended' = (n = 0) /\ phase' = AfterRead
      BY <1>3 DEF Read
    <2>2. to \in Nat /\ to <= body.length /\ to <= MaxBytes /\ streamed <= to /\ to - streamed = n /\ body.length \in Nat
          /\ streamed \in Nat /\ offset \in Nat /\ Len(buffer) \in Nat /\ offset + Len(buffer) <= streamed
      BY <1>1, <1>3, UploadFields, UploadGiven DEF UploadInv
    <2>a. to \in 0..body.length /\ streamed \in 0..to /\ streamed \in 0..body.length /\ offset \in 0..streamed /\ offset \in 0..to
      BY <2>2
    <2>b. (n = 0 => to = streamed) /\ n \in Nat
      BY <1>1, <2>2
    <2> HIDE DEF to
    <2>3. new \in Seq(1..body.length) /\ Len(new) = n /\ \A i \in 1..n : new[i] = streamed + i
      <3>1. Units(streamed, to) \in Seq(1..body.length) /\ Len(Units(streamed, to)) = to - streamed
            /\ \A i \in 1..(to - streamed) : Units(streamed, to)[i] = streamed + i
        BY <2>2, <2>a, UnitsFields
      <3>2. QED
        BY <2>2, <3>1
    <2> HIDE DEF new
    <2>4. buffer \in Seq(1..body.length)
      BY DEF UploadInv
    <2>5. /\ buffer' \in Seq(1..body.length) /\ Len(buffer') = Len(buffer) + n
          /\ \A i \in 1..(Len(buffer) + n) : buffer'[i] = IF i <= Len(buffer) THEN buffer[i] ELSE new[i - Len(buffer)]
      BY <2>1, <2>3, <2>4, ConcatProperties
    <2>6. ASSUME ~short PROVE buffer' = Units(offset, to)
      <3>1. buffer = Units(offset, streamed)
        BY <2>6 DEF UploadInv
      <3>2. Len(buffer) = streamed - offset /\ \A i \in 1..Len(buffer) : buffer[i] = offset + i
        <4>1. Len(Units(offset, streamed)) = streamed - offset
              /\ \A i \in 1..(streamed - offset) : Units(offset, streamed)[i] = offset + i
          BY <2>2, <2>a, UnitsFields
        <4>2. QED
          BY <3>1, <4>1
      <3>3. Len(buffer') = to - offset /\ offset <= to
        BY <2>2, <2>5, <3>2
      <3>4. ASSUME NEW i \in 1..(to - offset) PROVE buffer'[i] = offset + i
        <4>1. CASE i <= Len(buffer)
          <5>1. i \in 1..Len(buffer) /\ i \in 1..(Len(buffer) + n)
            BY <2>2, <2>b, <4>1
          <5>2. buffer'[i] = buffer[i]
            BY <2>5, <4>1, <5>1
          <5>3. QED
            BY <3>2, <5>1, <5>2
        <4>2. CASE ~(i <= Len(buffer))
          <5>1. i - Len(buffer) \in 1..n /\ streamed + (i - Len(buffer)) = offset + i /\ i \in 1..(Len(buffer) + n)
            BY <2>2, <3>2, <4>2
          <5>2. buffer'[i] = new[i - Len(buffer)]
            BY <2>5, <4>2, <5>1
          <5>3. QED
            BY <2>3, <5>1, <5>2
        <4>3. QED
          BY <4>1, <4>2
      <3>5. CountsFrom(buffer', offset, to)
        BY <3>3, <3>4 DEF CountsFrom
      <3>6. QED
        BY <2>2, <2>a, <2>5, <3>5, UnitsAre
    <2>7. /\ phase' \in {"send", "finish", "read"} /\ (phase' = "read" => ~ended')
          /\ (phase' = "send" /\ ~ended' => Len(buffer') > AlignChunk)
          /\ (phase' = "finish" => ended' /\ buffer' = <<>>)
      BY <2>1 DEF AfterRead, MustSend
    <2>8. ended' => streamed' = body.length
      BY <1>1, <2>1, <2>b
    <2>9. offset + Len(buffer') <= to /\ ended' \in BOOLEAN
      BY <2>1, <2>2, <2>5
    <2>10. AlignChunk' = AlignChunk /\ SessionRecord' = SessionRecord /\ body' = body
      BY <1>1 DEF AlignChunk, SessionRecord
    <2>11. ~short => buffer' = Units(offset, streamed')
      BY <2>1, <2>6
    <2>12. /\ session \in SessionRecord /\ offset = Len(session.bytes) /\ (~short => session.bytes = Units(0, offset))
           /\ body \in [length : Bodies, declared : BOOLEAN] /\ short \in BOOLEAN
      BY DEF UploadInv
    <2>13. \A a, b : Units(a, b)' = Units(a, b)
      BY DEF Units
    <2>14. UNCHANGED <<offset, session, short>> /\ streamed' \in 0..body.length /\ streamed' <= MaxBytes
      BY <1>1, <2>1, <2>2
    <2>15. /\ (~short' => session'.bytes = Units(0, offset') /\ buffer' = Units(offset', streamed'))
           /\ offset' + Len(buffer') <= streamed' /\ offset' \in Nat /\ offset' = Len(session'.bytes)
      BY <2>1, <2>2, <2>9, <2>11, <2>12, <2>14
    <2>16. buffer' \in Seq(1..body'.length) /\ session' \in SessionRecord' /\ streamed' \in 0..body'.length
      BY <2>5, <2>10, <2>12, <2>14
    <2>17. QED
      BY <2>7, <2>8, <2>9, <2>10, <2>12, <2>14, <2>15, <2>16 DEF UploadInv
  <1>4. QED
    BY <1>2, <1>3

LEMMA SendChunkInv == ASSUME UploadInv, NEW kept, SendChunk(kept) PROVE UploadInv'
  <1> DEFINE T == TakenUnits
             chunk == SubSeq(buffer, 1, T)
             sent == SubSeq(chunk, 1, kept)
             done == IsFinal /\ kept = T
  <1>1. /\ phase = "send" /\ kept \in 0..T
        /\ session' = [bytes |-> session.bytes \o sent, file |-> done, total |-> Announced]
        /\ buffer' = Rest /\ offset' = offset + kept /\ short' = (short \/ kept < T)
        /\ phase' = AfterChunk(done) /\ UNCHANGED <<body, streamed, ended>>
    BY DEF SendChunk
  <1>2. /\ T \in 0..Len(buffer) /\ (ended => T = Len(buffer)) /\ (~ended => T = AlignChunk /\ T < Len(buffer))
        /\ Len(buffer) \in Nat /\ buffer \in Seq(1..body.length)
    BY <1>1, ChunkAligned, UploadFields DEF TakenUnits, UploadInv
  <1>3. Announced \in Nat \cup {Unknown}
    <2>1. offset + T \in Nat /\ body.length \in Nat
      BY <1>2, UploadFields DEF UploadInv
    <2>2. QED
      BY <2>1 DEF Announced
  <1>4. Rest \in Seq(1..body.length) /\ Len(Rest) = Len(buffer) - T /\ \A i \in 1..(Len(buffer) - T) : Rest[i] = buffer[T + i]
    BY <1>2, LastPart DEF Rest
  <1>5. IsFinal <=> ended
    <2>1. ended => Len(Rest) = 0
      BY <1>2, <1>4
    <2>2. ended => Rest = <<>>
      BY <1>4, <2>1
    <2>3. QED
      BY <2>2 DEF IsFinal
  <1> HIDE DEF T
  <1>6. chunk \in Seq(1..body.length) /\ Len(chunk) = T /\ \A i \in 1..T : chunk[i] = buffer[i]
    BY <1>2, FirstPart
  <1> HIDE DEF chunk
  <1>7. sent \in Seq(1..body.length) /\ Len(sent) = kept /\ \A i \in 1..kept : sent[i] = buffer[i]
    <2>1. kept \in 0..Len(chunk) /\ \A i \in 1..kept : i \in 1..T
      BY <1>1, <1>2, <1>6
    <2>2. \A i \in 1..kept : sent[i] = chunk[i]
      BY <1>6, <2>1, FirstPart
    <2>3. sent \in Seq(1..body.length) /\ Len(sent) = kept
      BY <1>6, <2>1, FirstPart
    <2>4. QED
      BY <1>6, <2>1, <2>2, <2>3
  <1> HIDE DEF sent
  <1>8. /\ offset \in Nat /\ offset + Len(buffer) <= streamed /\ offset = Len(session.bytes) /\ session.bytes \in Seq(1..body.length)
        /\ streamed \in Nat /\ streamed <= body.length /\ body.length \in Nat /\ streamed <= MaxBytes
        /\ (ended => streamed = body.length) /\ ended \in BOOLEAN /\ short \in BOOLEAN
        /\ body \in [length : Bodies, declared : BOOLEAN]
    BY UploadFields DEF UploadInv
  <1> DEFINE bytes == session.bytes \o sent
  <1>9. /\ bytes \in Seq(1..body.length) /\ Len(bytes) = offset + kept
        /\ \A i \in 1..(offset + kept) : bytes[i] = IF i <= offset THEN session.bytes[i] ELSE sent[i - offset]
    <2>1. /\ session.bytes \in Seq(1..body.length) /\ sent \in Seq(1..body.length)
          /\ Len(session.bytes) = offset /\ Len(sent) = kept /\ kept \in Nat
      BY <1>2, <1>1, <1>7, <1>8
    <2>2. bytes \in Seq(1..body.length) /\ Len(bytes) = Len(session.bytes) + Len(sent)
      BY <2>1, ConcatProperties
    <2>3. \A i \in 1..(Len(session.bytes) + Len(sent)) :
             bytes[i] = IF i <= Len(session.bytes) THEN session.bytes[i] ELSE sent[i - Len(session.bytes)]
      BY <2>1, ConcatProperties
    <2> HIDE DEF bytes
    <2>4. QED
      BY <2>1, <2>2, <2>3
  <1> HIDE DEF bytes
  <1>10. kept \in Nat /\ T \in Nat /\ kept <= T /\ offset + kept \in Nat /\ (offset + kept) + (Len(buffer) - T) <= streamed
    BY <1>1, <1>2, <1>8
  <1>11. session' \in SessionRecord' /\ session'.bytes = bytes /\ session'.file = done
    <2>1. session' = [bytes |-> bytes, file |-> done, total |-> Announced] /\ body' = body /\ done \in BOOLEAN
      BY <1>1 DEF bytes
    <2> HIDE DEF done
    <2>2. QED
      BY <1>3, <1>9, <2>1 DEF SessionRecord
  <1>12. ASSUME ~short' PROVE bytes = Units(0, offset + kept) /\ Rest = Units(offset + kept, streamed)
    <2>1. ~short /\ kept = T
      <3>1. ~(short \/ kept < T)
        BY <1>1, <1>12
      <3>2. QED
        BY <1>10, <3>1
    <2>0. /\ offset \in 0..body.length /\ offset \in 0..streamed /\ streamed \in 0..body.length /\ body.length \in Nat
          /\ offset + kept \in 0..body.length /\ offset + kept \in 0..streamed
      BY <1>2, <1>8, <1>10
    <2>2. session.bytes = Units(0, offset) /\ buffer = Units(offset, streamed)
      BY <2>1 DEF UploadInv
    <2>3. /\ \A i \in 1..offset : session.bytes[i] = i
          /\ Len(buffer) = streamed - offset /\ \A i \in 1..Len(buffer) : buffer[i] = offset + i
      <3>1. \A i \in 1..offset : Units(0, offset)[i] = i
        BY <2>0, FirstUnits
      <3>2. Len(Units(offset, streamed)) = streamed - offset /\ \A i \in 1..(streamed - offset) : Units(offset, streamed)[i] = offset + i
        BY <2>0, UnitsFields
      <3>3. QED
        BY <2>2, <3>1, <3>2
    <2>4. ASSUME NEW i \in 1..((offset + kept) - 0) PROVE bytes[i] = 0 + i
      <3>1. CASE i <= offset
        <4>1. i \in 1..offset /\ i \in 1..(offset + kept) /\ 0 + i = i
          BY <1>8, <1>10, <3>1
        <4>2. bytes[i] = session.bytes[i]
          BY <1>9, <3>1, <4>1
        <4>3. QED
          BY <2>3, <4>1, <4>2
      <3>2. CASE ~(i <= offset)
        <4>1. i - offset \in 1..kept /\ i - offset \in 1..Len(buffer) /\ offset + (i - offset) = 0 + i /\ i \in 1..(offset + kept)
          <5>1. i \in Nat /\ i >= 1 /\ i <= offset + kept /\ kept \in Nat /\ kept <= Len(buffer)
            BY <1>2, <1>8, <1>10
          <5>2. QED
            BY <1>2, <1>8, <3>2, <5>1
        <4>2. bytes[i] = sent[i - offset]
          BY <1>9, <3>2, <4>1
        <4>3. QED
          BY <1>7, <2>3, <4>1, <4>2
      <3>3. QED
        BY <3>1, <3>2
    <2>5. ASSUME NEW i \in 1..(streamed - (offset + kept)) PROVE Rest[i] = (offset + kept) + i
      <3>0. /\ Len(buffer) = streamed - offset /\ kept = T /\ T \in Nat /\ T <= Len(buffer)
            /\ offset \in Nat /\ streamed \in Nat /\ i \in Nat
        BY <1>2, <1>8, <1>10, <2>1, <2>3
      <3>a. i >= 1 /\ i <= Len(buffer) - T
        BY <3>0
      <3>1. i \in 1..(Len(buffer) - T) /\ T + i \in 1..Len(buffer) /\ offset + (T + i) = (offset + kept) + i
        BY <3>0, <3>a
      <3>2. QED
        BY <1>4, <2>3, <3>1
    <2>6. /\ offset + kept <= streamed /\ Len(Rest) = streamed - (offset + kept) /\ Len(bytes) = (offset + kept) - 0
          /\ 0 <= offset + kept /\ offset + kept <= body.length
      BY <1>2, <1>4, <1>8, <1>9, <1>10, <2>1, <2>3
    <2>7. bytes = Units(0, offset + kept)
      <3>1. CountsFrom(bytes, 0, offset + kept) /\ 0 \in 0..(offset + kept)
        BY <2>4, <2>6, <1>10 DEF CountsFrom
      <3>2. QED
        BY <1>8, <1>9, <2>0, <3>1, UnitsAre
    <2>8. Rest = Units(offset + kept, streamed)
      <3>1. CountsFrom(Rest, offset + kept, streamed)
        BY <2>5, <2>6 DEF CountsFrom
      <3>2. QED
        BY <1>4, <2>0, <3>1, UnitsAre
    <2>9. QED
      BY <2>7, <2>8
  <1>13. /\ phase' \in {"stored", "finish", "send", "read"} /\ (phase' = "read" => ~ended)
         /\ (phase' = "send" => Len(Rest) > AlignChunk) /\ (phase' = "finish" => ended /\ Rest = <<>>)
         /\ (phase' = "stored" => ended /\ kept = T)
    BY <1>1, <1>5 DEF AfterChunk, IsFinal
  <1>14. phase' = "stored" => done
    BY <1>5, <1>13
  <1>15. phase' = "stored" => offset + kept = body.length \/ short'
    <2>1. SUFFICES ASSUME phase' = "stored", ~short' PROVE offset + kept = body.length
      BY <1>1, <1>8 DEF UploadInv
    <2>a. ~(short \/ kept < T)
      BY <1>1, <2>1
    <2>2. ended /\ kept = T /\ T = Len(buffer) /\ streamed = body.length /\ ~short
      BY <1>2, <1>8, <1>13, <2>1, <2>a
    <2>3. buffer = Units(offset, streamed) /\ offset <= streamed
      BY <1>2, <1>8, <2>2 DEF UploadInv
    <2>4. Len(buffer) = streamed - offset
      <3>1. streamed \in 0..body.length /\ offset \in 0..streamed /\ body.length \in Nat
        BY <1>8, <2>3
      <3>2. QED
        BY <2>3, <3>1, UnitsFields
    <2>5. QED
      BY <1>8, <2>2, <2>4
  <1> HIDE DEF done
  <1>16. /\ body' = body /\ streamed' = streamed /\ ended' = ended /\ offset' = offset + kept /\ buffer' = Rest
         /\ short' \in BOOLEAN /\ AlignChunk' = AlignChunk
    <2>1. (short \/ kept < T) \in BOOLEAN
      OBVIOUS
    <2>2. QED
      BY <1>1, <2>1 DEF AlignChunk
  <1>17. offset' + Len(buffer') <= streamed' /\ offset' = Len(session'.bytes)
    BY <1>4, <1>9, <1>10, <1>11, <1>16
  <1>18. ~short' => session'.bytes = Units(0, offset') /\ buffer' = Units(offset', streamed')
    BY <1>11, <1>12, <1>16
  <1>19. phase' = "stored" => session'.file /\ (~short' => session'.bytes = Units(0, body.length))
    BY <1>11, <1>12, <1>14, <1>15
  <1>20. QED
    BY <1>4, <1>8, <1>10, <1>11, <1>13, <1>16, <1>17, <1>18, <1>19 DEF UploadInv

LEMMA FinalizeInv == ASSUME UploadInv, Finalize PROVE UploadInv'
  <1>1. /\ phase = "finish" /\ UNCHANGED <<body, streamed, buffer, offset, ended, short>>
        /\ \/ session' = [session EXCEPT !.file = TRUE] /\ phase' = "stored"
           \/ phase' = "failed" /\ session' = session
    BY DEF Finalize
  <1>2. /\ ended /\ buffer = <<>> /\ streamed = body.length /\ session \in SessionRecord /\ body.length \in Nat
        /\ offset \in Nat /\ offset <= streamed
    BY <1>1, UploadFields DEF UploadInv
  <1>3. session' \in SessionRecord /\ session'.bytes = session.bytes /\ (phase' = "stored" => session'.file)
    BY <1>1, <1>2 DEF SessionRecord
  <1>4. SessionRecord' = SessionRecord /\ AlignChunk' = AlignChunk
    BY <1>1 DEF SessionRecord, AlignChunk
  <1>5. ASSUME ~short PROVE session.bytes = Units(0, body.length)
    <2>1. buffer = Units(offset, streamed) /\ session.bytes = Units(0, offset)
      BY <1>5 DEF UploadInv
    <2>2. Len(buffer) = streamed - offset /\ Len(buffer) = 0
      <3>1. streamed \in 0..body.length /\ offset \in 0..streamed
        BY <1>2
      <3>2. Len(Units(offset, streamed)) = streamed - offset
        BY <1>2, <3>1, UnitsFields
      <3>3. Len(<<>>) = 0
        OBVIOUS
      <3>4. QED
        BY <1>2, <2>1, <3>2, <3>3
    <2>3. offset = body.length
      BY <1>2, <2>2
    <2>4. QED
      BY <2>1, <2>3
  <1>6. QED
    BY <1>1, <1>2, <1>3, <1>4, <1>5 DEF UploadInv

LEMMA UploadStops ==
    ASSUME UploadInv, phase' = "failed", UNCHANGED <<body, streamed, buffer, offset, ended, session, short>>
    PROVE  UploadInv'
  BY DEF UploadInv, SessionRecord, AlignChunk, Units

LEMMA UploadInvStep == ASSUME UploadInv, [UploadNext]_uploadVars PROVE UploadInv'
  <1>1. CASE Begin
    BY <1>1, BeginInv
  <1>2. CASE UploadMultipart
    BY <1>2, UploadMultipartInv
  <1>3. CASE Finalize
    BY <1>3, FinalizeInv
  <1>4. CASE SendRefused
    BY <1>4, UploadStops DEF SendRefused
  <1>5. CASE SessionFails
    BY <1>5, UploadStops DEF SessionFails
  <1>6. ASSUME NEW n \in 0..body.length, Read(n) \/ SendChunk(n) PROVE UploadInv'
    BY <1>6, ReadInv, SendChunkInv
  <1>7. CASE UNCHANGED uploadVars
    BY <1>7 DEF uploadVars, UploadInv, SessionRecord, AlignChunk, Units
  <1>8. QED
    BY <1>1, <1>2, <1>3, <1>4, <1>5, <1>6, <1>7 DEF UploadNext, UploadWorks

LEMMA UploadInvWhole == UploadInv => UploadTypeOK /\ StoredWhole /\ ChunksFit
  <1> SUFFICES ASSUME UploadInv PROVE UploadTypeOK /\ StoredWhole /\ ChunksFit
    OBVIOUS
  <1>1. /\ offset \in Nat /\ offset <= streamed /\ streamed <= body.length /\ body.length \in Nat /\ streamed \in Nat
        /\ streamed <= MaxBytes
    BY UploadFields DEF UploadInv
  <1>2. UploadTypeOK
    BY <1>1, UploadFields DEF UploadInv, UploadTypeOK
  <1>3. StoredWhole
    BY <1>1, UploadGiven DEF UploadInv, StoredWhole, Body
  <1>4. ChunksFit
    <2>1. ASSUME phase = "send", ~IsFinal PROVE TakenUnits % Alignment = 0 /\ TakenUnits <= Len(buffer)
      <3>1. ~ended
        <4>1. SUFFICES ASSUME ended PROVE IsFinal
          BY <2>1
        <4>2. SubSeq(buffer, Len(buffer) + 1, Len(buffer)) = <<>>
          BY UploadFields DEF UploadInv
        <4>3. QED
          BY <4>1, <4>2 DEF IsFinal, Rest, TakenUnits
      <3>2. QED
        BY <2>1, <3>1, ChunkAligned, UploadFields DEF UploadInv, TakenUnits
    <2>2. QED
      BY <2>1 DEF ChunksFit, UploadInv
  <1>5. QED
    BY <1>2, <1>3, <1>4

\* For any body, chunk size, alignment and limit, and however much of a chunk
\* Drive keeps: what is recorded as the size is the size of the file, within the
\* limit, a file of chunks that were kept whole is the body, and every chunk is
\* sent from where Drive stands in a size it takes (streamingUpload).
THEOREM UploadsAreWhole == UploadSpec => [](UploadTypeOK /\ StoredWhole /\ ChunksFit)
  <1>1. UploadInit => UploadInv
    BY UploadInvInit
  <1>2. UploadInv /\ [UploadNext]_uploadVars => UploadInv'
    BY UploadInvStep
  <1>3. UploadInv => UploadTypeOK /\ StoredWhole /\ ChunksFit
    BY UploadInvWhole
  <1>4. QED
    BY <1>1, <1>2, <1>3, PTL DEF UploadSpec

-----------------------------------------------------------------------------
\* Queues of workers, each at most once.
Queue == {s \in Seq(Task) : IsInjective(s)}

LEMMA QueueFields ==
    ASSUME NEW s \in Queue
    PROVE  /\ s \in Seq(Task) /\ Len(s) \in Nat /\ DOMAIN s = 1..Len(s)
           /\ \A i, j \in 1..Len(s) : s[i] = s[j] => i = j
           /\ \A i \in 1..Len(s) : s[i] \in Task
           /\ ToSet(s) = {s[i] : i \in 1..Len(s)}
           /\ s # <<>> => 1 \in 1..Len(s)
           /\ s = <<>> => Len(s) = 0
  BY DEF Queue, IsInjective, ToSet

LEMMA EmptyQueue == <<>> \in Queue /\ ToSet(<<>>) = {}
  BY DEF Queue, IsInjective, ToSet

LEMMA QueueAppend ==
    ASSUME NEW s \in Queue, NEW t \in Task, t \notin ToSet(s)
    PROVE  Append(s, t) \in Queue /\ Append(s, t) # <<>> /\ ToSet(Append(s, t)) = ToSet(s) \cup {t}
  <1> DEFINE q == Append(s, t)
  <1>1. /\ q \in Seq(Task) /\ Len(q) = Len(s) + 1 /\ Len(s) \in Nat /\ q[Len(s) + 1] = t
        /\ \A i \in 1..Len(s) : q[i] = s[i]
    BY DEF Queue
  <1>2. \A i \in 1..Len(s) : s[i] # t
    BY QueueFields
  <1> HIDE DEF q
  <1>3. DOMAIN q = 1..(Len(s) + 1) /\ \A i \in 1..(Len(s) + 1) : i \in 1..Len(s) \/ i = Len(s) + 1
    BY <1>1
  <1>4. \A i, j \in 1..(Len(s) + 1) : q[i] = q[j] => i = j
    BY <1>1, <1>2, <1>3, QueueFields
  <1>5. q \in Queue
    BY <1>1, <1>3, <1>4 DEF Queue, IsInjective
  <1>6. ToSet(q) = ToSet(s) \cup {t}
    <2>1. ToSet(q) = {q[i] : i \in 1..(Len(s) + 1)}
      BY <1>3 DEF ToSet
    <2>2. Len(s) + 1 \in 1..(Len(s) + 1) /\ 1..Len(s) \subseteq 1..(Len(s) + 1)
      BY <1>1
    <2>3. QED
      BY <1>1, <1>3, <2>1, <2>2, QueueFields
  <1>7. q # <<>>
    BY <1>1
  <1>8. QED
    BY <1>5, <1>6, <1>7 DEF q

LEMMA QueueTail ==
    ASSUME NEW s \in Queue, s # <<>>
    PROVE  Tail(s) \in Queue /\ s[1] \in ToSet(s) /\ ToSet(Tail(s)) = ToSet(s) \ {s[1]}
  <1> DEFINE q == Tail(s)
  <1>1. /\ q \in Seq(Task) /\ Len(s) \in Nat \ {0} /\ Len(q) = Len(s) - 1
        /\ \A i \in 1..(Len(s) - 1) : q[i] = s[i + 1]
    BY DEF Queue
  <1> HIDE DEF q
  <1>2. DOMAIN q = 1..(Len(s) - 1) /\ \A i \in 1..(Len(s) - 1) : i \in 1..Len(s) /\ i + 1 \in 1..Len(s) /\ i + 1 # 1
    BY <1>1
  <1>3. \A i \in 1..Len(s) : i = 1 \/ (i - 1 \in 1..(Len(s) - 1) /\ (i - 1) + 1 = i)
    BY <1>1
  <1>4. 1 \in 1..Len(s)
    BY <1>1
  <1>5. q \in Queue
    <2>1. \A i, j \in 1..(Len(s) - 1) : q[i] = q[j] => i = j
      <3> SUFFICES ASSUME NEW i \in 1..(Len(s) - 1), NEW j \in 1..(Len(s) - 1), q[i] = q[j] PROVE i = j
        OBVIOUS
      <3>1. s[i + 1] = s[j + 1] /\ i + 1 \in 1..Len(s) /\ j + 1 \in 1..Len(s)
        BY <1>1, <1>2
      <3>2. i + 1 = j + 1
        BY <3>1, QueueFields
      <3>3. QED
        BY <3>2
    <2>2. QED
      BY <1>1, <1>2, <2>1 DEF Queue, IsInjective
  <1>6. ToSet(q) = ToSet(s) \ {s[1]}
    <2>1. ToSet(q) = {q[i] : i \in 1..(Len(s) - 1)}
      BY <1>2 DEF ToSet
    <2>2. \A i \in 1..(Len(s) - 1) : q[i] \in ToSet(s) /\ q[i] # s[1]
      BY <1>1, <1>2, <1>4, QueueFields
    <2>3. ASSUME NEW i \in 1..Len(s), s[i] # s[1] PROVE \E j \in 1..(Len(s) - 1) : s[i] = q[j]
      <3>1. i - 1 \in 1..(Len(s) - 1) /\ (i - 1) + 1 = i
        BY <1>3, <2>3
      <3>2. q[i - 1] = s[i]
        BY <1>1, <3>1
      <3>3. QED
        BY <3>1, <3>2
    <2>4. ToSet(q) \subseteq ToSet(s) \ {s[1]}
      BY <2>1, <2>2
    <2>5. ToSet(s) \ {s[1]} \subseteq ToSet(q)
      <3> SUFFICES ASSUME NEW u \in ToSet(s), u # s[1] PROVE u \in ToSet(q)
        OBVIOUS
      <3>1. PICK i \in 1..Len(s) : s[i] = u
        BY QueueFields
      <3>2. QED
        BY <2>1, <2>3, <3>1
    <2>6. QED
      BY <2>4, <2>5
  <1>7. QED
    BY <1>4, <1>5, <1>6, QueueFields DEF q

LEMMA QueueWithout ==
    ASSUME NEW s \in Queue, NEW t \in ToSet(s)
    PROVE  Without(s, t) \in Queue /\ ToSet(Without(s, t)) = ToSet(s) \ {t}
  <1> DEFINE k == CHOOSE i \in 1..Len(s) : s[i] = t
             a == SubSeq(s, 1, k - 1)
             b == SubSeq(s, k + 1, Len(s))
             q == a \o b
             from == [j \in 1..(Len(s) - 1) |-> IF j < k THEN j ELSE j + 1]
  <1>1. Without(s, t) = q
    BY DEF Without, RemoveAt
  <1>2. k \in 1..Len(s) /\ s[k] = t
    BY QueueFields
  <1> HIDE DEF k
  <1>3. Len(s) \in Nat \ {0} /\ s \in Seq(Task)
    BY <1>2, QueueFields
  <1>4. a \in Seq(Task) /\ Len(a) = k - 1 /\ \A i \in 1..(k - 1) : a[i] = s[i]
    BY <1>2, <1>3
  <1>5. b \in Seq(Task) /\ Len(b) = Len(s) - k /\ \A i \in 1..(Len(s) - k) : b[i] = s[k + i]
    BY <1>2, <1>3
  <1> HIDE DEF a, b
  <1>6. q \in Seq(Task) /\ Len(q) = Len(s) - 1
    <2>1. q \in Seq(Task) /\ Len(q) = Len(a) + Len(b)
      BY <1>4, <1>5
    <2>2. QED
      BY <1>2, <1>3, <1>4, <1>5, <2>1
  <1>7. ASSUME NEW j \in 1..(Len(s) - 1) PROVE q[j] = s[from[j]]
    <2>1. CASE j < k
      <3>1. j \in 1..(k - 1) /\ from[j] = j
        BY <1>2, <1>3, <2>1
      <3>2. q[j] = a[j]
        BY <1>4, <1>5, <3>1
      <3>3. QED
        BY <1>4, <3>1, <3>2
    <2>2. CASE ~(j < k)
      <3>1. j - (k - 1) \in 1..(Len(s) - k) /\ from[j] = j + 1 /\ k + (j - (k - 1)) = j + 1 /\ k \in Int
        BY <1>2, <1>3, <2>2
      <3>2. q[j] = b[j - (k - 1)]
        <4>1. /\ j \in 1..(Len(a) + Len(b)) /\ ~(j <= Len(a)) /\ Len(a) \in Nat /\ Len(b) \in Nat
              /\ a \in Seq(Task) /\ b \in Seq(Task)
          BY <1>2, <1>3, <1>4, <1>5, <2>2
        <4>2. q[j] = b[j - Len(a)]
          BY <4>1
        <4>3. QED
          BY <1>4, <4>2
      <3>3. QED
        BY <1>5, <3>1, <3>2
    <2>3. QED
      BY <2>1, <2>2
  <1>8. \A j \in 1..(Len(s) - 1) : from[j] \in 1..Len(s) /\ from[j] # k
    BY <1>2, <1>3
  <1>9. \A i, j \in 1..(Len(s) - 1) : from[i] = from[j] => i = j
    BY <1>2, <1>3
  <1>10. ASSUME NEW i \in 1..Len(s), i # k PROVE \E j \in 1..(Len(s) - 1) : from[j] = i
    <2>1. CASE i < k
      <3>1. i \in 1..(Len(s) - 1) /\ from[i] = i
        BY <1>2, <1>3, <2>1
      <3>2. QED
        BY <3>1
    <2>2. CASE ~(i < k)
      <3>1. i - 1 \in 1..(Len(s) - 1) /\ from[i - 1] = i
        BY <1>2, <1>3, <1>10, <2>2
      <3>2. QED
        BY <3>1
    <2>3. QED
      BY <2>1, <2>2
  <1> HIDE DEF q, from
  <1>11. DOMAIN q = 1..(Len(s) - 1)
    BY <1>3, <1>6
  <1>12. \A i, j \in 1..(Len(s) - 1) : q[i] = q[j] => i = j
    <2> SUFFICES ASSUME NEW i \in 1..(Len(s) - 1), NEW j \in 1..(Len(s) - 1), q[i] = q[j] PROVE i = j
      OBVIOUS
    <2>1. from[i] \in 1..Len(s) /\ from[j] \in 1..Len(s) /\ s[from[i]] = s[from[j]]
      BY <1>7, <1>8
    <2>2. from[i] = from[j]
      BY <2>1, QueueFields
    <2>3. QED
      BY <1>9, <2>2
  <1>13. q \in Queue
    BY <1>6, <1>11, <1>12 DEF Queue, IsInjective
  <1>14. ToSet(q) = {q[j] : j \in 1..(Len(s) - 1)}
    BY <1>11 DEF ToSet
  <1>15. \A j \in 1..(Len(s) - 1) : q[j] \in ToSet(s) /\ q[j] # t
    BY <1>2, <1>7, <1>8, QueueFields
  <1>16. \A i \in 1..Len(s) : s[i] # t => \E j \in 1..(Len(s) - 1) : s[i] = q[j]
    BY <1>2, <1>7, <1>10
  <1>17. ToSet(q) = ToSet(s) \ {t}
    <2>1. ToSet(q) \subseteq ToSet(s) \ {t}
      BY <1>14, <1>15
    <2>2. ToSet(s) \ {t} \subseteq ToSet(q)
      <3> SUFFICES ASSUME NEW u \in ToSet(s), u # t PROVE u \in ToSet(q)
        OBVIOUS
      <3>1. PICK i \in 1..Len(s) : s[i] = u
        BY QueueFields
      <3>2. QED
        BY <1>14, <1>16, <3>1
    <2>3. QED
      BY <2>1, <2>2
  <1>18. QED
    BY <1>1, <1>13, <1>17

-----------------------------------------------------------------------------
Act == [take : BOOLEAN, kind : Kind]
LEMMA Acts ==
    /\ \A k \in Kind : Take(k) \in Act /\ Give(k) \in Act
    /\ \A k \in Kind : Take(k).take /\ Take(k).kind = k /\ ~Give(k).take /\ Give(k).kind = k
    /\ \A p \in Act : p = IF p.take THEN Take(p.kind) ELSE Give(p.kind)
  BY DEF Act, Take, Give

LEMMA Kinds == "key" \in Kind /\ "request" \in Kind /\ "upload" \in Kind /\ "download" \in Kind
  BY DEF Kind

LEMMA Joined ==
    ASSUME NEW a \in Seq(Act), NEW b \in Seq(Act), NEW c \in Seq(Act), Len(c) = Len(a) + Len(b),
           \A i \in 1..Len(c) : c[i] = IF i <= Len(a) THEN a[i] ELSE b[i - Len(a)]
    PROVE  a \o b = c
  <1>1. a \o b \in Seq(Act) /\ Len(a \o b) = Len(c)
    BY ConcatProperties
  <1>2. \A i \in 1..(Len(a) + Len(b)) : (a \o b)[i] = IF i <= Len(a) THEN a[i] ELSE b[i - Len(a)]
    BY ConcatProperties
  <1> DEFINE d == a \o b
  <1>3. d \in Seq(Act) /\ Len(d) = Len(c) /\ \A i \in 1..Len(d) : d[i] = c[i]
    BY <1>1, <1>2
  <1> HIDE DEF d
  <1>4. d = c
    BY <1>3, SeqEqual
  <1>5. QED
    BY <1>4 DEF d

\* A plan that ends with a slot given back and takes none a second time before
\* it has given it back.
NeverTwice(p) == \A i, m \in 1..Len(p) : i < m /\ p[i].take /\ p[m] = p[i] => \E j \in (i + 1)..(m - 1) : p[j] = Give(p[i].kind)
Sensible(p) == p \in Seq(Act) /\ Len(p) # 0 /\ ~p[Len(p)].take /\ NeverTwice(p)

LEMMA ReadWritten ==
    ReadPlan = <<Take("request"), Give("request"), Take("download"), Give("download")>>
  <1>1. <<Take("request"), Give("request")>> \o <<Take("download"), Give("download")>>
          = <<Take("request"), Give("request"), Take("download"), Give("download")>>
    <2> DEFINE a == <<Take("request"), Give("request")>>
               b == <<Take("download"), Give("download")>>
               c == <<Take("request"), Give("request"), Take("download"), Give("download")>>
    <2>1. a \in Seq(Act) /\ b \in Seq(Act) /\ c \in Seq(Act) /\ Len(a) = 2 /\ Len(b) = 2 /\ Len(c) = 4
      BY Acts, Kinds
    <2>2. \A i \in 1..4 : c[i] = IF i <= 2 THEN a[i] ELSE b[i - 2]
      OBVIOUS
    <2> HIDE DEF a, b, c
    <2>3. Len(c) = Len(a) + Len(b) /\ \A i \in 1..Len(c) : c[i] = IF i <= Len(a) THEN a[i] ELSE b[i - Len(a)]
      BY <2>1, <2>2
    <2>4. a \o b = c
      BY <2>1, <2>3, Joined
    <2>5. QED
      BY <2>4 DEF a, b, c
  <1>2. QED
    BY <1>1 DEF ReadPlan, Request

LEMMA ReadSensible == Sensible(ReadPlan)
  <1> DEFINE p == ReadPlan
  <1>1. p = <<Take("request"), Give("request"), Take("download"), Give("download")>>
    BY ReadWritten
  <1>2. p \in Seq(Act) /\ Len(p) = 4
    BY <1>1, Acts, Kinds
  <1>3. /\ p[1] = Take("request") /\ p[2] = Give("request") /\ p[3] = Take("download") /\ p[4] = Give("download")
    BY <1>1
  <1> HIDE DEF p
  <1>4. \A i \in 1..4 : p[i].take => i \in {1, 3}
    BY <1>3, Acts, Kinds
  <1>5. \A i, m \in {1, 3} : i < m /\ p[m] = p[i] => FALSE
    BY <1>3, Acts, Kinds
  <1>6. NeverTwice(p)
    BY <1>2, <1>3, <1>4, <1>5, Acts, Kinds DEF NeverTwice
  <1>7. QED
    BY <1>2, <1>3, <1>6, Acts, Kinds DEF Sensible, p

LEMMA PutWritten ==
    PutPlan = <<Take("key"), Take("request"), Give("request"), Take("upload"), Take("request"),
                Give("request"), Give("upload"), Give("key")>>
  <1>1. <<Take("key")>> \o <<Take("request"), Give("request")>>
          = <<Take("key"), Take("request"), Give("request")>>
    <2> DEFINE a == <<Take("key")>>
               b == <<Take("request"), Give("request")>>
               c == <<Take("key"), Take("request"), Give("request")>>
    <2>1. a \in Seq(Act) /\ b \in Seq(Act) /\ c \in Seq(Act) /\ Len(a) = 1 /\ Len(b) = 2 /\ Len(c) = 3
      BY Acts, Kinds
    <2>2. \A i \in 1..3 : c[i] = IF i <= 1 THEN a[i] ELSE b[i - 1]
      OBVIOUS
    <2> HIDE DEF a, b, c
    <2>3. Len(c) = Len(a) + Len(b) /\ \A i \in 1..Len(c) : c[i] = IF i <= Len(a) THEN a[i] ELSE b[i - Len(a)]
      BY <2>1, <2>2
    <2>4. a \o b = c
      BY <2>1, <2>3, Joined
    <2>5. QED
      BY <2>4 DEF a, b, c
  <1>2. <<Take("key"), Take("request"), Give("request")>> \o <<Take("upload")>>
          = <<Take("key"), Take("request"), Give("request"), Take("upload")>>
    <2> DEFINE a == <<Take("key"), Take("request"), Give("request")>>
               b == <<Take("upload")>>
               c == <<Take("key"), Take("request"), Give("request"), Take("upload")>>
    <2>1. a \in Seq(Act) /\ b \in Seq(Act) /\ c \in Seq(Act) /\ Len(a) = 3 /\ Len(b) = 1 /\ Len(c) = 4
      BY Acts, Kinds
    <2>2. \A i \in 1..4 : c[i] = IF i <= 3 THEN a[i] ELSE b[i - 3]
      OBVIOUS
    <2> HIDE DEF a, b, c
    <2>3. Len(c) = Len(a) + Len(b) /\ \A i \in 1..Len(c) : c[i] = IF i <= Len(a) THEN a[i] ELSE b[i - Len(a)]
      BY <2>1, <2>2
    <2>4. a \o b = c
      BY <2>1, <2>3, Joined
    <2>5. QED
      BY <2>4 DEF a, b, c
  <1>3. <<Take("key"), Take("request"), Give("request"), Take("upload")>> \o <<Take("request"), Give("request")>>
          = <<Take("key"), Take("request"), Give("request"), Take("upload"), Take("request"),
              Give("request")>>
    <2> DEFINE a == <<Take("key"), Take("request"), Give("request"), Take("upload")>>
               b == <<Take("request"), Give("request")>>
               c == <<Take("key"), Take("request"), Give("request"), Take("upload"), Take("request"),
                      Give("request")>>
    <2>1. a \in Seq(Act) /\ b \in Seq(Act) /\ c \in Seq(Act) /\ Len(a) = 4 /\ Len(b) = 2 /\ Len(c) = 6
      BY Acts, Kinds
    <2>2. \A i \in 1..6 : c[i] = IF i <= 4 THEN a[i] ELSE b[i - 4]
      OBVIOUS
    <2> HIDE DEF a, b, c
    <2>3. Len(c) = Len(a) + Len(b) /\ \A i \in 1..Len(c) : c[i] = IF i <= Len(a) THEN a[i] ELSE b[i - Len(a)]
      BY <2>1, <2>2
    <2>4. a \o b = c
      BY <2>1, <2>3, Joined
    <2>5. QED
      BY <2>4 DEF a, b, c
  <1>4. <<Take("key"), Take("request"), Give("request"), Take("upload"), Take("request"),
         Give("request")>> \o <<Give("upload"), Give("key")>>
          = <<Take("key"), Take("request"), Give("request"), Take("upload"), Take("request"),
              Give("request"), Give("upload"), Give("key")>>
    <2> DEFINE a == <<Take("key"), Take("request"), Give("request"), Take("upload"), Take("request"),
                      Give("request")>>
               b == <<Give("upload"), Give("key")>>
               c == <<Take("key"), Take("request"), Give("request"), Take("upload"), Take("request"),
                      Give("request"), Give("upload"), Give("key")>>
    <2>1. a \in Seq(Act) /\ b \in Seq(Act) /\ c \in Seq(Act) /\ Len(a) = 6 /\ Len(b) = 2 /\ Len(c) = 8
      BY Acts, Kinds
    <2>2. \A i \in 1..8 : c[i] = IF i <= 6 THEN a[i] ELSE b[i - 6]
      OBVIOUS
    <2> HIDE DEF a, b, c
    <2>3. Len(c) = Len(a) + Len(b) /\ \A i \in 1..Len(c) : c[i] = IF i <= Len(a) THEN a[i] ELSE b[i - Len(a)]
      BY <2>1, <2>2
    <2>4. a \o b = c
      BY <2>1, <2>3, Joined
    <2>5. QED
      BY <2>4 DEF a, b, c
  <1>5. QED
    BY <1>1, <1>2, <1>3, <1>4 DEF PutPlan, Request

LEMMA PutSensible == Sensible(PutPlan)
  <1> DEFINE p == PutPlan
  <1>1. p = <<Take("key"), Take("request"), Give("request"), Take("upload"), Take("request"),
              Give("request"), Give("upload"), Give("key")>>
    BY PutWritten
  <1>2. p \in Seq(Act) /\ Len(p) = 8
    BY <1>1, Acts, Kinds
  <1>3. /\ p[1] = Take("key") /\ p[2] = Take("request") /\ p[3] = Give("request") /\ p[4] = Take("upload")
        /\ p[5] = Take("request") /\ p[6] = Give("request") /\ p[7] = Give("upload") /\ p[8] = Give("key")
    BY <1>1
  <1> HIDE DEF p
  <1>4. \A i \in 1..8 : p[i].take => i \in {1, 2, 4, 5}
    BY <1>3, Acts, Kinds
  <1>5. \A i, m \in {1, 2, 4, 5} : i < m /\ p[m] = p[i] => (i = 2 /\ m = 5)
    BY <1>3, Acts, Kinds
  <1>6. NeverTwice(p)
    BY <1>2, <1>3, <1>4, <1>5, Acts, Kinds DEF NeverTwice
  <1>7. QED
    BY <1>2, <1>3, <1>6, Acts, Kinds DEF Sensible, p

LEMMA CopyWritten ==
    CopyPlan = <<Take("request"), Give("request"), Take("upload"), Take("request"), Give("request"),
                 Give("upload")>>
  <1>1. <<Take("request"), Give("request")>> \o <<Take("upload")>>
          = <<Take("request"), Give("request"), Take("upload")>>
    <2> DEFINE a == <<Take("request"), Give("request")>>
               b == <<Take("upload")>>
               c == <<Take("request"), Give("request"), Take("upload")>>
    <2>1. a \in Seq(Act) /\ b \in Seq(Act) /\ c \in Seq(Act) /\ Len(a) = 2 /\ Len(b) = 1 /\ Len(c) = 3
      BY Acts, Kinds
    <2>2. \A i \in 1..3 : c[i] = IF i <= 2 THEN a[i] ELSE b[i - 2]
      OBVIOUS
    <2> HIDE DEF a, b, c
    <2>3. Len(c) = Len(a) + Len(b) /\ \A i \in 1..Len(c) : c[i] = IF i <= Len(a) THEN a[i] ELSE b[i - Len(a)]
      BY <2>1, <2>2
    <2>4. a \o b = c
      BY <2>1, <2>3, Joined
    <2>5. QED
      BY <2>4 DEF a, b, c
  <1>2. <<Take("request"), Give("request"), Take("upload")>> \o <<Take("request"), Give("request")>>
          = <<Take("request"), Give("request"), Take("upload"), Take("request"), Give("request")>>
    <2> DEFINE a == <<Take("request"), Give("request"), Take("upload")>>
               b == <<Take("request"), Give("request")>>
               c == <<Take("request"), Give("request"), Take("upload"), Take("request"),
                      Give("request")>>
    <2>1. a \in Seq(Act) /\ b \in Seq(Act) /\ c \in Seq(Act) /\ Len(a) = 3 /\ Len(b) = 2 /\ Len(c) = 5
      BY Acts, Kinds
    <2>2. \A i \in 1..5 : c[i] = IF i <= 3 THEN a[i] ELSE b[i - 3]
      OBVIOUS
    <2> HIDE DEF a, b, c
    <2>3. Len(c) = Len(a) + Len(b) /\ \A i \in 1..Len(c) : c[i] = IF i <= Len(a) THEN a[i] ELSE b[i - Len(a)]
      BY <2>1, <2>2
    <2>4. a \o b = c
      BY <2>1, <2>3, Joined
    <2>5. QED
      BY <2>4 DEF a, b, c
  <1>3. <<Take("request"), Give("request"), Take("upload"), Take("request"), Give("request")>> \o <<Give("upload")>>
          = <<Take("request"), Give("request"), Take("upload"), Take("request"), Give("request"),
              Give("upload")>>
    <2> DEFINE a == <<Take("request"), Give("request"), Take("upload"), Take("request"),
                      Give("request")>>
               b == <<Give("upload")>>
               c == <<Take("request"), Give("request"), Take("upload"), Take("request"),
                      Give("request"), Give("upload")>>
    <2>1. a \in Seq(Act) /\ b \in Seq(Act) /\ c \in Seq(Act) /\ Len(a) = 5 /\ Len(b) = 1 /\ Len(c) = 6
      BY Acts, Kinds
    <2>2. \A i \in 1..6 : c[i] = IF i <= 5 THEN a[i] ELSE b[i - 5]
      OBVIOUS
    <2> HIDE DEF a, b, c
    <2>3. Len(c) = Len(a) + Len(b) /\ \A i \in 1..Len(c) : c[i] = IF i <= Len(a) THEN a[i] ELSE b[i - Len(a)]
      BY <2>1, <2>2
    <2>4. a \o b = c
      BY <2>1, <2>3, Joined
    <2>5. QED
      BY <2>4 DEF a, b, c
  <1>4. QED
    BY <1>1, <1>2, <1>3 DEF CopyPlan, Request

LEMMA CopySensible == Sensible(CopyPlan)
  <1> DEFINE p == CopyPlan
  <1>1. p = <<Take("request"), Give("request"), Take("upload"), Take("request"), Give("request"),
              Give("upload")>>
    BY CopyWritten
  <1>2. p \in Seq(Act) /\ Len(p) = 6
    BY <1>1, Acts, Kinds
  <1>3. /\ p[1] = Take("request") /\ p[2] = Give("request") /\ p[3] = Take("upload") /\ p[4] = Take("request")
        /\ p[5] = Give("request") /\ p[6] = Give("upload")
    BY <1>1
  <1> HIDE DEF p
  <1>4. \A i \in 1..6 : p[i].take => i \in {1, 3, 4}
    BY <1>3, Acts, Kinds
  <1>5. \A i, m \in {1, 3, 4} : i < m /\ p[m] = p[i] => (i = 1 /\ m = 4)
    BY <1>3, Acts, Kinds
  <1>6. NeverTwice(p)
    BY <1>2, <1>3, <1>4, <1>5, Acts, Kinds DEF NeverTwice
  <1>7. QED
    BY <1>2, <1>3, <1>6, Acts, Kinds DEF Sensible, p

LEMMA ImportWritten ==
    ImportPlan = <<Take("request"), Give("request"), Take("download"), Take("key"), Take("request"),
                   Give("request"), Take("upload"), Give("download"), Give("upload"),
                   Give("key"), Give("download")>>
  <1>1. <<Take("request"), Give("request")>> \o <<Take("download"), Take("key")>>
          = <<Take("request"), Give("request"), Take("download"), Take("key")>>
    <2> DEFINE a == <<Take("request"), Give("request")>>
               b == <<Take("download"), Take("key")>>
               c == <<Take("request"), Give("request"), Take("download"), Take("key")>>
    <2>1. a \in Seq(Act) /\ b \in Seq(Act) /\ c \in Seq(Act) /\ Len(a) = 2 /\ Len(b) = 2 /\ Len(c) = 4
      BY Acts, Kinds
    <2>2. \A i \in 1..4 : c[i] = IF i <= 2 THEN a[i] ELSE b[i - 2]
      OBVIOUS
    <2> HIDE DEF a, b, c
    <2>3. Len(c) = Len(a) + Len(b) /\ \A i \in 1..Len(c) : c[i] = IF i <= Len(a) THEN a[i] ELSE b[i - Len(a)]
      BY <2>1, <2>2
    <2>4. a \o b = c
      BY <2>1, <2>3, Joined
    <2>5. QED
      BY <2>4 DEF a, b, c
  <1>2. <<Take("request"), Give("request"), Take("download"), Take("key")>> \o <<Take("request"), Give("request")>>
          = <<Take("request"), Give("request"), Take("download"), Take("key"), Take("request"),
              Give("request")>>
    <2> DEFINE a == <<Take("request"), Give("request"), Take("download"), Take("key")>>
               b == <<Take("request"), Give("request")>>
               c == <<Take("request"), Give("request"), Take("download"), Take("key"), Take("request"),
                      Give("request")>>
    <2>1. a \in Seq(Act) /\ b \in Seq(Act) /\ c \in Seq(Act) /\ Len(a) = 4 /\ Len(b) = 2 /\ Len(c) = 6
      BY Acts, Kinds
    <2>2. \A i \in 1..6 : c[i] = IF i <= 4 THEN a[i] ELSE b[i - 4]
      OBVIOUS
    <2> HIDE DEF a, b, c
    <2>3. Len(c) = Len(a) + Len(b) /\ \A i \in 1..Len(c) : c[i] = IF i <= Len(a) THEN a[i] ELSE b[i - Len(a)]
      BY <2>1, <2>2
    <2>4. a \o b = c
      BY <2>1, <2>3, Joined
    <2>5. QED
      BY <2>4 DEF a, b, c
  <1>3. <<Take("request"), Give("request"), Take("download"), Take("key"), Take("request"),
         Give("request")>> \o <<Take("upload"), Give("download"), Give("upload"),
                                                    Give("key"),
                                                    Give("download")>>
          = <<Take("request"), Give("request"), Take("download"), Take("key"), Take("request"),
              Give("request"), Take("upload"), Give("download"), Give("upload"),
              Give("key"), Give("download")>>
    <2> DEFINE a == <<Take("request"), Give("request"), Take("download"), Take("key"), Take("request"),
                      Give("request")>>
               b == <<Take("upload"), Give("download"), Give("upload"), Give("key"), Give("download")>>
               c == <<Take("request"), Give("request"), Take("download"), Take("key"), Take("request"),
                      Give("request"), Take("upload"), Give("download"),
                      Give("upload"), Give("key"), Give("download")>>
    <2>1. a \in Seq(Act) /\ b \in Seq(Act) /\ c \in Seq(Act) /\ Len(a) = 6 /\ Len(b) = 5 /\ Len(c) = 11
      BY Acts, Kinds
    <2>2. \A i \in 1..11 : c[i] = IF i <= 6 THEN a[i] ELSE b[i - 6]
      OBVIOUS
    <2> HIDE DEF a, b, c
    <2>3. Len(c) = Len(a) + Len(b) /\ \A i \in 1..Len(c) : c[i] = IF i <= Len(a) THEN a[i] ELSE b[i - Len(a)]
      BY <2>1, <2>2
    <2>4. a \o b = c
      BY <2>1, <2>3, Joined
    <2>5. QED
      BY <2>4 DEF a, b, c
  <1>4. QED
    BY <1>1, <1>2, <1>3 DEF ImportPlan, Request

LEMMA ImportSensible == Sensible(ImportPlan)
  <1> DEFINE p == ImportPlan
  <1>1. p = <<Take("request"), Give("request"), Take("download"), Take("key"), Take("request"),
              Give("request"), Take("upload"), Give("download"), Give("upload"),
              Give("key"), Give("download")>>
    BY ImportWritten
  <1>2. p \in Seq(Act) /\ Len(p) = 11
    BY <1>1, Acts, Kinds
  <1>3. /\ p[1] = Take("request") /\ p[2] = Give("request") /\ p[3] = Take("download") /\ p[4] = Take("key")
        /\ p[5] = Take("request") /\ p[6] = Give("request") /\ p[7] = Take("upload") /\ p[8] = Give("download")
        /\ p[9] = Give("upload") /\ p[10] = Give("key") /\ p[11] = Give("download")
    BY <1>1
  <1> HIDE DEF p
  <1>4. \A i \in 1..11 : p[i].take => i \in {1, 3, 4, 5, 7}
    BY <1>3, Acts, Kinds
  <1>5. \A i, m \in {1, 3, 4, 5, 7} : i < m /\ p[m] = p[i] => (i = 1 /\ m = 5)
    BY <1>3, Acts, Kinds
  <1>6. NeverTwice(p)
    BY <1>2, <1>3, <1>4, <1>5, Acts, Kinds DEF NeverTwice
  <1>7. QED
    BY <1>2, <1>3, <1>6, Acts, Kinds DEF Sensible, p

LEMMA BackupSensible == Sensible(BackupPlan)
  <1> DEFINE p == BackupPlan
  <1>1. p = <<Take("download"), Give("download"), Give("download")>>
    BY DEF BackupPlan
  <1>2. p \in Seq(Act) /\ Len(p) = 3
    BY <1>1, Acts, Kinds
  <1>3. /\ p[1] = Take("download") /\ p[2] = Give("download") /\ p[3] = Give("download")
    BY <1>1
  <1> HIDE DEF p
  <1>4. \A i \in 1..3 : p[i].take => i \in {1}
    BY <1>3, Acts, Kinds
  <1>5. \A i, m \in {1} : i < m /\ p[m] = p[i] => FALSE
    BY <1>3, Acts, Kinds
  <1>6. NeverTwice(p)
    BY <1>2, <1>3, <1>4, <1>5, Acts, Kinds DEF NeverTwice
  <1>7. QED
    BY <1>2, <1>3, <1>6, Acts, Kinds DEF Sensible, p

-----------------------------------------------------------------------------
\* What a worker has when it comes to step n of its plan.
HasBefore(p, n) == {k \in Kind : \E i \in 1..(n - 1) : p[i] = Take(k) /\ \A j \in (i + 1)..(n - 1) : p[j] # Give(k)}

LEMMA HasNothing == ASSUME NEW p PROVE HasBefore(p, 1) = {}
  BY DEF HasBefore

LEMMA StepTakes ==
    ASSUME NEW p, Sensible(p), NEW n \in 1..Len(p), p[n].take
    PROVE  /\ n + 1 \in 1..Len(p) /\ p[n].kind \in Kind /\ p[n].kind \notin HasBefore(p, n)
           /\ HasBefore(p, n + 1) = HasBefore(p, n) \cup {p[n].kind}
  <1> DEFINE k == p[n].kind
  <1>1. /\ Len(p) \in Nat /\ p[n] \in Act /\ p[n] = Take(k) /\ k \in Kind /\ n # Len(p)
        /\ \A i \in 1..Len(p) : p[i] \in Act
    <2>1. p \in Seq(Act) /\ Len(p) \in Nat /\ n # Len(p) /\ \A i \in 1..Len(p) : p[i] \in Act
      BY DEF Sensible
    <2>2. p[n].kind \in Kind
      BY <2>1 DEF Act
    <2>3. QED
      BY <2>1, <2>2, Acts
  <1>2. n + 1 \in 1..Len(p) /\ n \in Nat
    BY <1>1
  <1>3. k \notin HasBefore(p, n)
    <2> SUFFICES ASSUME k \in HasBefore(p, n) PROVE FALSE
      OBVIOUS
    <2>1. PICK i \in 1..(n - 1) : p[i] = Take(k) /\ \A j \in (i + 1)..(n - 1) : p[j] # Give(k)
      BY DEF HasBefore
    <2>2. i \in 1..Len(p) /\ i < n /\ p[i].take /\ p[i].kind = k /\ p[n] = p[i]
      BY <1>1, <1>2, <2>1, Acts
    <2>3. NeverTwice(p)
      BY DEF Sensible
    <2>4. \E j \in (i + 1)..(n - 1) : p[j] = Give(k)
      BY <2>2, <2>3 DEF NeverTwice
    <2>5. QED
      BY <2>1, <2>4
  <1>4. ASSUME NEW l \in Kind PROVE l \in HasBefore(p, n + 1) <=> l \in HasBefore(p, n) \/ l = k
    <2>1. p[n] # Give(l) /\ (p[n] = Take(l) <=> l = k)
      BY <1>1, Acts
    <2>2. ASSUME l \in HasBefore(p, n + 1), l # k PROVE l \in HasBefore(p, n)
      <3>1. PICK i \in 1..n : p[i] = Take(l) /\ \A j \in (i + 1)..n : p[j] # Give(l)
        BY <1>2, <2>2 DEF HasBefore
      <3>2. i \in 1..(n - 1) /\ \A j \in (i + 1)..(n - 1) : j \in (i + 1)..n
        BY <1>2, <2>1, <2>2, <3>1
      <3>3. QED
        BY <3>1, <3>2 DEF HasBefore
    <2>3. ASSUME l \in HasBefore(p, n) PROVE l \in HasBefore(p, n + 1)
      <3>1. PICK i \in 1..(n - 1) : p[i] = Take(l) /\ \A j \in (i + 1)..(n - 1) : p[j] # Give(l)
        BY <2>3 DEF HasBefore
      <3>2. i \in 1..n /\ \A j \in (i + 1)..n : j \in (i + 1)..(n - 1) \/ j = n
        BY <1>2
      <3>3. \A j \in (i + 1)..n : p[j] # Give(l)
        BY <2>1, <3>1, <3>2
      <3>4. (n + 1) - 1 = n
        BY <1>2
      <3>5. QED
        BY <3>1, <3>2, <3>3, <3>4 DEF HasBefore
    <2>4. k \in HasBefore(p, n + 1)
      <3>1. n \in 1..n /\ \A j \in (n + 1)..n : FALSE
        BY <1>2
      <3>2. (n + 1) - 1 = n
        BY <1>2
      <3>3. QED
        BY <1>1, <3>1, <3>2 DEF HasBefore
    <2>5. QED
      BY <2>2, <2>3, <2>4
  <1>5. HasBefore(p, n) \subseteq Kind /\ HasBefore(p, n + 1) \subseteq Kind
    BY DEF HasBefore
  <1> HIDE DEF k
  <1>6. HasBefore(p, n + 1) = HasBefore(p, n) \cup {k}
    BY <1>1, <1>4, <1>5
  <1>7. QED
    BY <1>1, <1>2, <1>3, <1>6 DEF k

LEMMA StepGives ==
    ASSUME NEW p, Sensible(p), NEW n \in 1..Len(p), ~p[n].take
    PROVE  /\ p[n].kind \in Kind /\ HasBefore(p, n + 1) = HasBefore(p, n) \ {p[n].kind}
           /\ n # Len(p) => n + 1 \in 1..Len(p)
  <1> DEFINE k == p[n].kind
  <1>1. Len(p) \in Nat /\ p[n] \in Act /\ p[n] = Give(k) /\ k \in Kind
    <2>1. p \in Seq(Act) /\ Len(p) \in Nat /\ p[n] \in Act
      BY DEF Sensible
    <2>2. p[n].kind \in Kind
      BY <2>1 DEF Act
    <2>3. QED
      BY <2>1, <2>2, Acts
  <1>2. n \in Nat /\ (n # Len(p) => n + 1 \in 1..Len(p)) /\ (n + 1) - 1 = n
    BY <1>1
  <1>3. ASSUME NEW l \in Kind PROVE l \in HasBefore(p, n + 1) <=> l \in HasBefore(p, n) /\ l # k
    <2>1. p[n] # Take(l) /\ (p[n] = Give(l) <=> l = k)
      BY <1>1, Acts
    <2>2. ASSUME l \in HasBefore(p, n + 1) PROVE l \in HasBefore(p, n) /\ l # k
      <3>1. PICK i \in 1..n : p[i] = Take(l) /\ \A j \in (i + 1)..n : p[j] # Give(l)
        BY <1>2, <2>2 DEF HasBefore
      <3>2. i \in 1..(n - 1) /\ n \in (i + 1)..n /\ \A j \in (i + 1)..(n - 1) : j \in (i + 1)..n
        BY <1>2, <2>1, <3>1
      <3>3. QED
        BY <2>1, <3>1, <3>2 DEF HasBefore
    <2>3. ASSUME l \in HasBefore(p, n), l # k PROVE l \in HasBefore(p, n + 1)
      <3>1. PICK i \in 1..(n - 1) : p[i] = Take(l) /\ \A j \in (i + 1)..(n - 1) : p[j] # Give(l)
        BY <2>3 DEF HasBefore
      <3>2. i \in 1..n /\ \A j \in (i + 1)..n : j \in (i + 1)..(n - 1) \/ j = n
        BY <1>2
      <3>3. \A j \in (i + 1)..n : p[j] # Give(l)
        BY <2>1, <2>3, <3>1, <3>2
      <3>4. QED
        BY <1>2, <3>1, <3>2, <3>3 DEF HasBefore
    <2>4. QED
      BY <2>2, <2>3
  <1>4. HasBefore(p, n) \subseteq Kind /\ HasBefore(p, n + 1) \subseteq Kind
    BY DEF HasBefore
  <1> HIDE DEF k
  <1>5. HasBefore(p, n + 1) = HasBefore(p, n) \ {k}
    BY <1>3, <1>4
  <1>6. QED
    BY <1>1, <1>2, <1>5 DEF k

-----------------------------------------------------------------------------
Worker == [role : Role, at : Nat, waits : BOOLEAN, has : SUBSET Kind, over : BOOLEAN]
PlanOf(r) == CASE r = "read"   -> ReadPlan
               [] r = "put"    -> PutPlan
               [] r = "copy"   -> CopyPlan
               [] r = "import" -> ImportPlan
               [] r = "backup" -> BackupPlan
StepOf(w) == PlanOf(w.role)[w.at]
WaitsFor(w, k) == w.waits /\ StepOf(w).kind = k

\* A worker that has not ended has what its plan says, and who waits is about
\* to take a slot.
WorkerInv(w) ==
    /\ w \in Worker
    /\ ~w.over => w.at \in 1..Len(PlanOf(w.role)) /\ w.has = HasBefore(PlanOf(w.role), w.at)
    /\ w.waits => ~w.over /\ StepOf(w).take

SemInv(k) ==
    /\ sem[k] \in [active : Nat, queue : Queue]
    /\ IsFiniteSet(Holders(k)) /\ sem[k].active = Cardinality(Holders(k)) /\ sem[k].active <= Capacity[k]
    /\ sem[k].queue # <<>> => sem[k].active = Capacity[k]
    /\ \A t \in Task : t \in ToSet(sem[k].queue) <=> WaitsFor(task[t], k)

SlotInv ==
    /\ DOMAIN sem = Kind /\ sem = [k \in Kind |-> sem[k]] /\ task \in [Task -> Worker]
    /\ \A t \in Task : WorkerInv(task[t])
    /\ \A k \in Kind : SemInv(k)

LEMMA SlotGiven == \A k \in Kind : Capacity[k] \in Nat \ {0}
  BY DriveSlotsAssumption

LEMMA PlansSensible == \A r \in Role : Sensible(PlanOf(r))
  BY ReadSensible, PutSensible, CopySensible, ImportSensible, BackupSensible DEF Role, PlanOf

LEMMA PlanIs == ASSUME NEW t \in Task PROVE Plan(t) = PlanOf(task[t].role) /\ Next1(t) = StepOf(task[t])
  BY DEF Plan, PlanOf, Next1, StepOf

LEMMA WorkerFields ==
    ASSUME NEW w, WorkerInv(w)
    PROVE  /\ w \in Worker /\ w.role \in Role /\ w.at \in Nat /\ w.waits \in BOOLEAN /\ w.has \subseteq Kind
           /\ w.over \in BOOLEAN /\ Sensible(PlanOf(w.role))
  BY PlansSensible DEF WorkerInv, Worker

\* Who waits for a slot of a kind has none of it, and can go on with one.
LEMMA WaiterGoesOn ==
    ASSUME NEW w, WorkerInv(w), ~w.over, StepOf(w).take, NEW v,
           v = [w EXCEPT !.waits = FALSE, !.has = @ \cup {StepOf(w).kind}, !.at = @ + 1]
    PROVE  /\ StepOf(w).kind \in Kind /\ StepOf(w).kind \notin w.has
           /\ WorkerInv(v) /\ v.has = w.has \cup {StepOf(w).kind} /\ ~v.waits /\ v.role = w.role /\ ~v.over
  <1> DEFINE p == PlanOf(w.role)
             k == StepOf(w).kind
  <1>1. /\ w \in Worker /\ Sensible(p) /\ w.at \in 1..Len(p) /\ w.has = HasBefore(p, w.at) /\ p[w.at].take
        /\ k = p[w.at].kind
    BY WorkerFields DEF WorkerInv, StepOf
  <1>2. w.at + 1 \in 1..Len(p) /\ k \in Kind /\ k \notin w.has /\ HasBefore(p, w.at + 1) = w.has \cup {k}
    BY <1>1, StepTakes
  <1>3. Len(p) \in Nat
    BY <1>1 DEF Sensible
  <1> HIDE DEF k
  <1>4. /\ v.role = w.role /\ v.waits = FALSE /\ v.over = w.over /\ v.has = w.has \cup {k} /\ v.at = w.at + 1
        /\ v \in Worker
    <2>1. v = [w EXCEPT !.waits = FALSE, !.has = w.has \cup {k}, !.at = w.at + 1]
      BY <1>1 DEF Worker, k
    <2>2. w.has \cup {k} \subseteq Kind /\ w.at + 1 \in Nat
      BY <1>1, <1>2 DEF Worker
    <2>3. QED
      BY <1>1, <2>1, <2>2 DEF Worker
  <1>5. WorkerInv(v)
    BY <1>1, <1>2, <1>4 DEF WorkerInv
  <1>6. QED
    BY <1>2, <1>4, <1>5 DEF k

LEMMA SlotInvInit == SlotInit => SlotInv
  <1> SUFFICES ASSUME SlotInit PROVE SlotInv
    OBVIOUS
  <1>1. ASSUME NEW t \in Task
        PROVE task[t] \in Worker /\ task[t].at = 1 /\ ~task[t].waits /\ task[t].has = {} /\ ~task[t].over
    <2>1. task[t] \in {[role |-> r, at |-> 1, waits |-> FALSE, has |-> {}, over |-> FALSE] : r \in Role}
      BY DEF SlotInit
    <2>2. PICK r \in Role : task[t] = [role |-> r, at |-> 1, waits |-> FALSE, has |-> {}, over |-> FALSE]
      BY <2>1
    <2>3. QED
      BY <2>2 DEF Worker
  <1>2. ASSUME NEW t \in Task PROVE WorkerInv(task[t])
    <2>1. Sensible(PlanOf(task[t].role))
      BY <1>1, PlansSensible DEF Worker
    <2>2. 1 \in 1..Len(PlanOf(task[t].role))
      BY <2>1 DEF Sensible
    <2>3. QED
      BY <1>1, <2>2, HasNothing DEF WorkerInv
  <1>3. ASSUME NEW k \in Kind PROVE SemInv(k)
    <2>1. Holders(k) = {}
      BY <1>1 DEF Holders
    <2>2. sem[k] = [active |-> 0, queue |-> <<>>]
      BY DEF SlotInit
    <2>3. IsFiniteSet({}) /\ Cardinality({}) = 0
      BY FS_EmptySet
    <2>4. \A t \in Task : t \in ToSet(sem[k].queue) <=> WaitsFor(task[t], k)
      BY <1>1, <2>2, EmptyQueue DEF WaitsFor
    <2>5. Capacity[k] >= 0
      BY SlotGiven
    <2>6. QED
      BY <2>1, <2>2, <2>3, <2>4, <2>5, EmptyQueue DEF SemInv
  <1>4. task \in [Task -> Worker] /\ DOMAIN sem = Kind /\ sem = [k \in Kind |-> sem[k]]
    BY <1>1 DEF SlotInit
  <1>5. QED
    BY <1>2, <1>3, <1>4 DEF SlotInv

-----------------------------------------------------------------------------
\* Whom a slot that is given back goes to.
Got(u, back) == {k \in back : sem[k].queue # <<>> /\ sem[k].queue[1] = u}
Leaves(t) == IF task[t].waits THEN {Next1(t).kind} ELSE {}

\* t leaves the queue it waits in, gives the slots of "back" back and is left as v.
GivesBack(t, back, v) ==
    /\ v.has = task[t].has \ back /\ back \subseteq task[t].has /\ ~v.waits /\ v.role = task[t].role /\ WorkerInv(v)
    /\ sem' = [j \in Kind |-> IF j \in Leaves(t) THEN [sem[j] EXCEPT !.queue = Without(@, t)]
                              ELSE IF j \in back THEN Returned(sem[j]) ELSE sem[j]]
    /\ task' = [u \in Task |->
                  IF u = t THEN v
                  ELSE IF Got(u, back) = {} THEN task[u]
                  ELSE [task[u] EXCEPT !.waits = FALSE, !.has = @ \cup Got(u, back), !.at = @ + 1]]

LEMMA GivesBackInv ==
    ASSUME SlotInv, NEW t \in Task, NEW back, NEW v, GivesBack(t, back, v)
    PROVE  SlotInv'
  <1>1. \A u \in Task : WorkerInv(task[u]) /\ task[u].has \subseteq Kind
    BY WorkerFields DEF SlotInv
  <1>2. back \subseteq Kind /\ back \subseteq task[t].has
    BY <1>1 DEF GivesBack
  <1>3. ASSUME NEW u \in Task, task[u].waits
        PROVE  StepOf(task[u]).kind \in Kind /\ StepOf(task[u]).kind \notin task[u].has /\ ~task[u].over /\ StepOf(task[u]).take
    BY <1>1, <1>3, WaiterGoesOn DEF WorkerInv
  <1>4. ASSUME NEW k \in Kind PROVE SemInv(k) /\ sem[k].queue \in Queue
    BY DEF SlotInv, SemInv
  <1>5. ASSUME NEW k \in Kind, sem[k].queue # <<>>
        PROVE  /\ sem[k].queue[1] \in Task /\ WaitsFor(task[sem[k].queue[1]], k)
               /\ sem[k].queue[1] \notin Holders(k)
    <2>1. sem[k].queue[1] \in Task /\ sem[k].queue[1] \in ToSet(sem[k].queue)
      BY <1>4, <1>5, QueueTail, QueueFields
    <2>2. WaitsFor(task[sem[k].queue[1]], k)
      BY <1>4, <2>1 DEF SemInv
    <2>3. QED
      BY <1>3, <2>1, <2>2 DEF WaitsFor, Holders
  <1>6. \A k \in Kind : WaitsFor(task[t], k) => k \notin back
    BY <1>2, <1>3 DEF WaitsFor
  <1>7. \A k \in Kind : k \in Leaves(t) <=> WaitsFor(task[t], k)
    BY <1>3, PlanIs DEF Leaves, WaitsFor
  \* Who gets a slot gets the one it waits for.
  <1>8. ASSUME NEW u \in Task PROVE Got(u, back) = {} \/ (task[u].waits /\ Got(u, back) = {StepOf(task[u]).kind})
    <2>1. \A k \in Got(u, back) : WaitsFor(task[u], k)
      BY <1>2, <1>5 DEF Got
    <2>2. \A k \in Got(u, back) : task[u].waits /\ k = StepOf(task[u]).kind
      BY <2>1 DEF WaitsFor
    <2>3. QED
      BY <2>2
  <1>9. \A u \in Task, k \in Kind : WaitsFor(task[u], k) /\ k \notin back => Got(u, back) = {}
    BY <1>2, <1>8 DEF Got, WaitsFor
  <1>10. Got(t, back) = {}
    BY <1>2, <1>3, <1>8 DEF Got
  <1>11. task'[t] = v /\ v.has = task[t].has \ back /\ ~v.waits /\ WorkerInv(v) /\ v.role = task[t].role
    BY DEF GivesBack
  <1>12. ASSUME NEW u \in Task, u # t, Got(u, back) = {} PROVE task'[u] = task[u]
    BY <1>12 DEF GivesBack
  <1>13. ASSUME NEW u \in Task, u # t, Got(u, back) # {}
         PROVE  /\ WorkerInv(task'[u]) /\ ~task'[u].waits
                /\ task'[u].has = task[u].has \cup Got(u, back)
    <2>1. task[u].waits /\ Got(u, back) = {StepOf(task[u]).kind}
      BY <1>8, <1>13
    <2>2. task'[u] = [task[u] EXCEPT !.waits = FALSE, !.has = @ \cup {StepOf(task[u]).kind}, !.at = @ + 1]
      BY <1>13, <2>1 DEF GivesBack
    <2>3. WorkerInv(task[u]) /\ ~task[u].over /\ StepOf(task[u]).take
      BY <1>1, <1>3, <2>1
    <2>4. PICK w, x : w = task[u] /\ x = task'[u]
      OBVIOUS
    <2>5. /\ WorkerInv(w) /\ ~w.over /\ StepOf(w).take
          /\ x = [w EXCEPT !.waits = FALSE, !.has = @ \cup {StepOf(w).kind}, !.at = @ + 1]
      BY <2>2, <2>3, <2>4
    <2>6. WorkerInv(x) /\ x.has = w.has \cup {StepOf(w).kind} /\ ~x.waits
      BY <2>5, WaiterGoesOn
    <2>7. QED
      BY <2>1, <2>4, <2>6
  <1>14. \A u \in Task : WorkerInv(task'[u])
    BY <1>1, <1>11, <1>12, <1>13
  <1>15. task' \in [Task -> Worker]
    <2>1. task' = [u \in Task |-> task'[u]]
      BY DEF GivesBack
    <2>2. QED
      BY <1>14, <2>1 DEF WorkerInv
  <1>16. ASSUME NEW k \in Kind, k \notin back PROVE Holders(k)' = Holders(k)
    <2>1. \A u \in Task : k \in task'[u].has <=> k \in task[u].has
      BY <1>11, <1>12, <1>13, <1>16 DEF Got
    <2>2. QED
      BY <2>1 DEF Holders
  <1>17. ASSUME NEW k \in back
         PROVE  Holders(k)' = (Holders(k) \ {t}) \cup (IF sem[k].queue = <<>> THEN {} ELSE {sem[k].queue[1]})
    <2>1. k \notin task'[t].has
      BY <1>11
    <2>2. ASSUME NEW u \in Task, u # t
          PROVE  k \in task'[u].has <=> k \in task[u].has \/ (sem[k].queue # <<>> /\ sem[k].queue[1] = u)
      BY <1>12, <1>13, <2>2 DEF Got
    <2>3. sem[k].queue # <<>> => sem[k].queue[1] \in Task /\ sem[k].queue[1] # t
      BY <1>2, <1>5, <1>6
    <2>4. QED
      BY <2>1, <2>2, <2>3 DEF Holders
  <1>18. ASSUME NEW k \in Kind PROVE SemInv(k)'
    <2>1. /\ IsFiniteSet(Holders(k)) /\ sem[k].active = Cardinality(Holders(k)) /\ sem[k].active <= Capacity[k]
          /\ (sem[k].queue # <<>> => sem[k].active = Capacity[k]) /\ sem[k] \in [active : Nat, queue : Queue]
          /\ sem[k].active \in Nat /\ Capacity[k] \in Nat \ {0}
          /\ \A u \in Task : u \in ToSet(sem[k].queue) <=> WaitsFor(task[u], k)
      BY <1>4, SlotGiven DEF SemInv
    <2>2. \A u \in Task : WaitsFor(task'[u], k) <=> WaitsFor(task[u], k) /\ u # t /\ Got(u, back) = {}
      BY <1>11, <1>12, <1>13 DEF WaitsFor
    <2>3. CASE k \in Leaves(t)
      <3>1. sem'[k] = [sem[k] EXCEPT !.queue = Without(@, t)] /\ WaitsFor(task[t], k) /\ k \notin back
        BY <1>6, <1>7, <2>3 DEF GivesBack
      <3>2. t \in ToSet(sem[k].queue)
        BY <2>1, <3>1
      <3>3. Without(sem[k].queue, t) \in Queue /\ ToSet(Without(sem[k].queue, t)) = ToSet(sem[k].queue) \ {t}
        BY <2>1, <3>2, QueueWithout
      <3>4. sem'[k].active = sem[k].active /\ sem'[k].queue = Without(sem[k].queue, t) /\ sem'[k] \in [active : Nat, queue : Queue]
        BY <2>1, <3>1, <3>3
      <3>5. \A u \in Task : u \in ToSet(sem'[k].queue) <=> WaitsFor(task'[u], k)
        BY <1>9, <2>1, <2>2, <3>1, <3>3, <3>4
      <3>6. sem[k].queue # <<>>
        BY <3>2, EmptyQueue
      <3>7. QED
        BY <1>16, <2>1, <3>1, <3>4, <3>5, <3>6 DEF SemInv
    <2>4. CASE k \notin Leaves(t) /\ k \notin back
      <3>1. sem'[k] = sem[k] /\ ~WaitsFor(task[t], k)
        BY <1>7, <2>4 DEF GivesBack
      <3>2. \A u \in Task : u \in ToSet(sem'[k].queue) <=> WaitsFor(task'[u], k)
        BY <1>9, <2>1, <2>2, <2>4, <3>1
      <3>3. QED
        BY <1>16, <2>1, <2>4, <3>1, <3>2 DEF SemInv
    <2>5. CASE k \in back /\ sem[k].queue = <<>>
      <3>1. k \notin Leaves(t) /\ sem'[k] = [sem[k] EXCEPT !.active = @ - 1]
        BY <1>6, <1>7, <2>5 DEF GivesBack, Returned
      <3>2. Holders(k)' = Holders(k) \ {t} /\ t \in Holders(k)
        BY <1>2, <1>17, <2>5 DEF Holders
      <3>3. /\ IsFiniteSet(Holders(k)') /\ Cardinality(Holders(k)') = sem[k].active - 1
            /\ sem[k].active - 1 \in Nat
        <4>1. IsFiniteSet(Holders(k) \ {t}) /\ Cardinality(Holders(k) \ {t}) = Cardinality(Holders(k)) - 1
          BY <2>1, <3>2, FS_RemoveElement
        <4>2. Cardinality(Holders(k) \ {t}) \in Nat
          BY <4>1, FS_CardinalityType
        <4>3. QED
          BY <2>1, <3>2, <4>1, <4>2
      <3>4. sem'[k].active = sem[k].active - 1 /\ sem'[k].queue = <<>> /\ sem'[k] \in [active : Nat, queue : Queue]
        BY <2>1, <2>5, <3>1, <3>3
      <3>5. \A u \in Task : u \in ToSet(sem'[k].queue) <=> WaitsFor(task'[u], k)
        BY <2>1, <2>2, <2>5, <3>4, EmptyQueue
      <3>6. sem'[k].active <= Capacity[k]
        BY <2>1, <3>4
      <3>7. QED
        BY <3>3, <3>4, <3>5, <3>6 DEF SemInv
    <2>6. CASE k \in back /\ sem[k].queue # <<>>
      <3> DEFINE h == sem[k].queue[1]
      <3>1. k \notin Leaves(t) /\ sem'[k] = [sem[k] EXCEPT !.queue = Tail(@)]
        BY <1>6, <1>7, <2>6 DEF GivesBack, Returned
      <3>2. /\ Holders(k)' = (Holders(k) \ {t}) \cup {h} /\ t \in Holders(k) /\ h \notin Holders(k) /\ h \in Task
            /\ WaitsFor(task[h], k)
        BY <1>2, <1>5, <1>17, <2>6 DEF Holders
      <3>3. Tail(sem[k].queue) \in Queue /\ ToSet(Tail(sem[k].queue)) = ToSet(sem[k].queue) \ {h}
        BY <2>1, <2>6, QueueTail
      <3> HIDE DEF h
      <3>4. IsFiniteSet(Holders(k)') /\ Cardinality(Holders(k)') = sem[k].active
        <4>1. IsFiniteSet(Holders(k) \ {t}) /\ Cardinality(Holders(k) \ {t}) = Cardinality(Holders(k)) - 1
          BY <2>1, <3>2, FS_RemoveElement
        <4>2. h \notin Holders(k) \ {t}
          BY <3>2
        <4>3. /\ IsFiniteSet((Holders(k) \ {t}) \cup {h})
              /\ Cardinality((Holders(k) \ {t}) \cup {h}) = Cardinality(Holders(k) \ {t}) + 1
          BY <4>1, <4>2, FS_AddElement
        <4>4. QED
          BY <2>1, <3>2, <4>1, <4>3
      <3>5. sem'[k].active = sem[k].active /\ sem'[k].queue = Tail(sem[k].queue) /\ sem'[k] \in [active : Nat, queue : Queue]
        BY <2>1, <3>1, <3>3
      <3>6. \A u \in Task : u \in ToSet(sem'[k].queue) <=> WaitsFor(task'[u], k)
        <4>1. \A u \in Task : WaitsFor(task[u], k) => (Got(u, back) = {} <=> u # h)
          BY <1>8, <2>6 DEF Got, WaitsFor, h
        <4>2. ~WaitsFor(task[t], k)
          BY <1>6, <2>6
        <4>3. QED
          BY <2>1, <2>2, <3>3, <3>5, <4>1, <4>2
      <3>7. QED
        BY <2>1, <2>6, <3>4, <3>5, <3>6 DEF SemInv
    <2>7. QED
      BY <2>3, <2>4, <2>5, <2>6
  <1>19. DOMAIN sem' = Kind /\ sem' = [k \in Kind |-> sem'[k]]
    BY DEF GivesBack
  <1>20. QED
    BY <1>14, <1>15, <1>18, <1>19 DEF SlotInv

\* Giving back without waiting, as Release and Fail do.
LEMMA GivesInv ==
    ASSUME SlotInv, NEW t \in Task, ~task[t].waits, NEW ks, NEW v, Gives(t, ks, v),
           v.has = task[t].has \ ks, ~v.waits, v.role = task[t].role, WorkerInv(v)
    PROVE  SlotInv'
  <1> DEFINE back == Held(t, ks)
  <1>1. back = ks \cap task[t].has /\ Leaves(t) = {}
    BY DEF Held, Leaves
  <1>2. sem' = [j \in Kind |-> IF j \in Leaves(t) THEN [sem[j] EXCEPT !.queue = Without(@, t)]
                              ELSE IF j \in back THEN Returned(sem[j]) ELSE sem[j]]
    <2>1. sem' = [j \in Kind |-> IF j \in back THEN Returned(sem[j]) ELSE sem[j]]
      BY DEF Gives
    <2> HIDE DEF back
    <2>2. QED
      BY <1>1, <2>1
  <1>3. task' = [u \in Task |->
                  IF u = t THEN v
                  ELSE IF Got(u, back) = {} THEN task[u]
                  ELSE [task[u] EXCEPT !.waits = FALSE, !.has = @ \cup Got(u, back), !.at = @ + 1]]
    BY DEF Gives, Got
  <1> HIDE DEF back
  <1>4. v.has = task[t].has \ back /\ back \subseteq task[t].has
    BY <1>1
  <1>5. GivesBack(t, back, v)
    BY <1>2, <1>3, <1>4 DEF GivesBack
  <1>6. QED
    BY <1>5, GivesBackInv

LEMMA ReleaseInv == ASSUME SlotInv, NEW t \in Task, Release(t) PROVE SlotInv'
  <1> DEFINE k == Next1(t).kind
             p == PlanOf(task[t].role)
             v == [task[t] EXCEPT !.at = @ + 1, !.has = @ \ {k}, !.over = (task[t].at = Len(Plan(t)))]
  <1>1. Gives(t, {k}, v) /\ ~task[t].over /\ ~task[t].waits /\ ~Next1(t).take
    BY DEF Release, Runs
  <1>2. /\ WorkerInv(task[t]) /\ task[t] \in Worker /\ Sensible(p) /\ task[t].at \in 1..Len(p)
        /\ task[t].has = HasBefore(p, task[t].at) /\ Plan(t) = p /\ k = p[task[t].at].kind /\ ~p[task[t].at].take
    BY <1>1, WorkerFields, PlanIs DEF SlotInv, WorkerInv, StepOf
  <1>3. /\ HasBefore(p, task[t].at + 1) = task[t].has \ {k}
        /\ (task[t].at # Len(p) => task[t].at + 1 \in 1..Len(p))
    BY <1>2, StepGives
  <1> HIDE DEF k, p
  <1>4. /\ v.at = task[t].at + 1 /\ v.has = task[t].has \ {k} /\ v.over = (task[t].at = Len(p)) /\ v.waits = FALSE
        /\ v.role = task[t].role /\ v \in Worker
    <2>1. task[t].has \ {k} \subseteq Kind /\ task[t].at + 1 \in Nat /\ (task[t].at = Len(p)) \in BOOLEAN
      BY <1>2 DEF Worker
    <2>2. QED
      BY <1>1, <1>2, <2>1 DEF Worker
  <1> HIDE DEF v
  <1>5. WorkerInv(v)
    BY <1>2, <1>3, <1>4 DEF WorkerInv, p
  <1>6. QED
    BY <1>1, <1>4, <1>5, GivesInv

LEMMA OverFields ==
    ASSUME SlotInv, NEW t \in Task
    PROVE  Over(t).has = {} /\ ~Over(t).waits /\ Over(t).role = task[t].role /\ WorkerInv(Over(t))
  <1>1. task[t] \in Worker
    BY DEF SlotInv
  <1>2. Over(t) \in Worker /\ Over(t).has = {} /\ Over(t).waits = FALSE /\ Over(t).role = task[t].role /\ Over(t).over = TRUE
    BY <1>1 DEF Over, Worker
  <1>3. QED
    BY <1>2 DEF WorkerInv

LEMMA FailInv == ASSUME SlotInv, NEW t \in Task, Fail(t) PROVE SlotInv'
  <1>1. Gives(t, Kind, Over(t)) /\ ~task[t].waits
    BY DEF Fail, Runs
  <1>2. Over(t).has = task[t].has \ Kind
    BY OverFields, WorkerFields DEF SlotInv
  <1>3. PICK v : v = Over(t)
    OBVIOUS
  <1>4. Gives(t, Kind, v) /\ v.has = task[t].has \ Kind /\ ~v.waits /\ v.role = task[t].role /\ WorkerInv(v)
    BY <1>1, <1>2, <1>3, OverFields
  <1>5. QED
    BY <1>1, <1>4, GivesInv

LEMMA AbortInv == ASSUME SlotInv, NEW t \in Task, Abort(t) PROVE SlotInv'
  <1> DEFINE k == Next1(t).kind
             back == task[t].has
  <1>1. /\ task[t].waits
        /\ sem' = [j \in Kind |-> IF j = k THEN [sem[j] EXCEPT !.queue = Without(@, t)]
                                  ELSE IF j \in back THEN Returned(sem[j]) ELSE sem[j]]
        /\ task' = [u \in Task |->
                      IF u = t THEN Over(t)
                      ELSE IF Got(u, back) = {} THEN task[u]
                      ELSE [task[u] EXCEPT !.waits = FALSE, !.has = @ \cup Got(u, back), !.at = @ + 1]]
    BY DEF Abort, Got
  <1>2. Leaves(t) = {k}
    BY <1>1 DEF Leaves
  <1>3. Over(t).has = task[t].has \ back
    BY OverFields
  <1> HIDE DEF k
  <1>4. \A j \in Kind : j \in Leaves(t) <=> j = k
    BY <1>2
  <1>5. sem' = [j \in Kind |-> IF j \in Leaves(t) THEN [sem[j] EXCEPT !.queue = Without(@, t)]
                               ELSE IF j \in back THEN Returned(sem[j]) ELSE sem[j]]
    BY <1>1, <1>4
  <1>6. GivesBack(t, back, Over(t))
    BY <1>1, <1>3, <1>5, OverFields DEF GivesBack
  <1>7. QED
    BY <1>6, GivesBackInv

LEMMA AcquireInv == ASSUME SlotInv, NEW t \in Task, Acquire(t) PROVE SlotInv'
  <1> DEFINE k == Next1(t).kind
  <1>1. ~task[t].over /\ task[t].waits = FALSE /\ StepOf(task[t]).take /\ k = StepOf(task[t]).kind
    BY PlanIs, WorkerFields DEF Acquire, Runs, SlotInv
  <1>2. WorkerInv(task[t]) /\ task[t] \in Worker
    BY WorkerFields DEF SlotInv
  <1> DEFINE v == [task[t] EXCEPT !.waits = FALSE, !.has = @ \cup {StepOf(task[t]).kind}, !.at = @ + 1]
  <1>3. /\ k \in Kind /\ k \notin task[t].has /\ WorkerInv(v) /\ v.has = task[t].has \cup {k} /\ ~v.waits
        /\ v \in Worker
    <2>1. PICK w, x : w = task[t] /\ x = v
      OBVIOUS
    <2>2. /\ StepOf(w).kind \in Kind /\ StepOf(w).kind \notin w.has
          /\ WorkerInv(x) /\ x.has = w.has \cup {StepOf(w).kind} /\ ~x.waits
      BY <1>1, <1>2, <2>1, WaiterGoesOn
    <2> HIDE DEF v
    <2>3. QED
      BY <1>1, <2>1, <2>2 DEF WorkerInv
  <1>4. \A j \in Kind : SemInv(j) /\ sem[j] \in [active : Nat, queue : Queue] /\ sem[j].active \in Nat
    BY DEF SlotInv, SemInv
  <1>5. \A u \in Task, j \in Kind : u \in ToSet(sem[j].queue) <=> WaitsFor(task[u], j)
    BY <1>4 DEF SemInv
  <1>6. CASE Free(k)
    <2>1. task' = [task EXCEPT ![t] = v]
      <3>1. task' = [task EXCEPT ![t] = [task[t] EXCEPT !.has = @ \cup {k}, !.at = @ + 1]]
        BY <1>6 DEF Acquire, SlotInv
      <3>2. [task[t] EXCEPT !.has = @ \cup {k}, !.at = @ + 1] = v
        <4> HIDE DEF k
        <4>1. QED
          BY <1>1, <1>2 DEF Worker
      <3> HIDE DEF v, k
      <3>3. QED
        BY <3>1, <3>2
    <2>2. sem' = [sem EXCEPT ![k].active = @ + 1]
      BY <1>6 DEF Acquire
    <2> HIDE DEF k, v
    <2>3. task' \in [Task -> Worker] /\ task'[t] = v /\ \A u \in Task : u # t => task'[u] = task[u]
      BY <1>3, <2>1 DEF SlotInv
    <2>4. \A u \in Task : WorkerInv(task'[u])
      BY <1>3, <2>3 DEF SlotInv
    <2>5. \A u \in Task, j \in Kind : WaitsFor(task'[u], j) <=> WaitsFor(task[u], j)
      BY <1>1, <1>3, <2>3 DEF WaitsFor
    <2>6. ASSUME NEW j \in Kind PROVE SemInv(j)'
      <3>1. CASE j = k
        <4>1. Holders(j)' = Holders(j) \cup {t} /\ t \notin Holders(j)
          BY <1>3, <2>3, <3>1 DEF Holders
        <4>2. sem'[j] = [sem[j] EXCEPT !.active = @ + 1]
          BY <2>2, <3>1 DEF SlotInv
        <4>3. sem[j].queue = <<>> /\ sem[j].active + 1 <= Capacity[j]
          BY <1>4, <1>6, <3>1, SlotGiven DEF SemInv, Free
        <4>4. sem'[j].active = sem[j].active + 1 /\ sem'[j].queue = sem[j].queue /\ sem'[j] \in [active : Nat, queue : Queue]
          BY <1>4, <4>2
        <4>5. IsFiniteSet(Holders(j) \cup {t}) /\ Cardinality(Holders(j) \cup {t}) = Cardinality(Holders(j)) + 1
          BY <1>4, <4>1, FS_AddElement DEF SemInv
        <4>6. sem[j].active = Cardinality(Holders(j))
          BY <1>4 DEF SemInv
        <4>7. \A u \in Task : u \in ToSet(sem'[j].queue) <=> WaitsFor(task'[u], j)
          BY <1>5, <2>5, <4>4
        <4>8. QED
          BY <4>1, <4>3, <4>4, <4>5, <4>6, <4>7 DEF SemInv
      <3>2. CASE j # k
        <4>1. Holders(j)' = Holders(j) /\ sem'[j] = sem[j]
          BY <1>3, <2>2, <2>3, <3>2 DEF Holders, SlotInv
        <4>2. \A u \in Task : u \in ToSet(sem'[j].queue) <=> WaitsFor(task'[u], j)
          BY <1>5, <2>5, <4>1
        <4>3. QED
          BY <1>4, <4>1, <4>2 DEF SemInv
      <3>3. QED
        BY <3>1, <3>2
    <2>7. DOMAIN sem' = Kind /\ sem' = [j \in Kind |-> sem'[j]]
      BY <2>2 DEF SlotInv
    <2>8. QED
      BY <2>3, <2>4, <2>6, <2>7 DEF SlotInv
  <1>7. CASE ~Free(k)
    <2> DEFINE x == [task[t] EXCEPT !.waits = TRUE]
    <2>1. task' = [task EXCEPT ![t] = x] /\ sem' = [sem EXCEPT ![k].queue = Append(@, t)]
      BY <1>7 DEF Acquire, SlotInv
    <2>2. x \in Worker /\ x.role = task[t].role /\ x.at = task[t].at /\ x.has = task[t].has /\ x.over = task[t].over /\ x.waits
      BY <1>2 DEF Worker
    <2> HIDE DEF k, x
    <2>3. WorkerInv(x) /\ StepOf(x) = StepOf(task[t])
      BY <1>1, <1>2, <2>2 DEF WorkerInv, StepOf
    <2>4. task' \in [Task -> Worker] /\ task'[t] = x /\ \A u \in Task : u # t => task'[u] = task[u]
      BY <2>1, <2>2 DEF SlotInv
    <2>5. \A u \in Task : WorkerInv(task'[u])
      BY <2>3, <2>4 DEF SlotInv
    <2>6. \A u \in Task, j \in Kind : WaitsFor(task'[u], j) <=> WaitsFor(task[u], j) \/ (u = t /\ j = k)
      BY <1>1, <2>2, <2>3, <2>4 DEF WaitsFor
    <2>7. ASSUME NEW j \in Kind PROVE SemInv(j)'
      <3>1. Holders(j)' = Holders(j)
        BY <2>2, <2>4 DEF Holders
      <3>2. CASE j = k
        <4>1. sem'[j] = [sem[j] EXCEPT !.queue = Append(@, t)]
          BY <2>1, <3>2 DEF SlotInv
        <4>2. t \notin ToSet(sem[j].queue) /\ sem[j].queue \in Queue
          BY <1>1, <1>4, <1>5 DEF WaitsFor
        <4>3. Append(sem[j].queue, t) \in Queue /\ ToSet(Append(sem[j].queue, t)) = ToSet(sem[j].queue) \cup {t}
          BY <4>2, QueueAppend
        <4>4. sem'[j].active = sem[j].active /\ sem'[j].queue = Append(sem[j].queue, t) /\ sem'[j] \in [active : Nat, queue : Queue]
          BY <1>4, <4>1, <4>3
        <4>5. sem[j].active = Capacity[j]
          BY <1>4, <1>7, <3>2, SlotGiven DEF SemInv, Free
        <4>6. \A u \in Task : u \in ToSet(sem'[j].queue) <=> WaitsFor(task'[u], j)
          BY <1>5, <2>6, <3>2, <4>3, <4>4
        <4>7. QED
          BY <1>4, <3>1, <4>4, <4>5, <4>6 DEF SemInv
      <3>3. CASE j # k
        <4>1. sem'[j] = sem[j]
          BY <2>1, <3>3 DEF SlotInv
        <4>2. \A u \in Task : u \in ToSet(sem'[j].queue) <=> WaitsFor(task'[u], j)
          BY <1>5, <2>6, <3>3, <4>1
        <4>3. QED
          BY <1>4, <3>1, <4>1, <4>2 DEF SemInv
      <3>4. QED
        BY <3>2, <3>3
    <2>8. DOMAIN sem' = Kind /\ sem' = [j \in Kind |-> sem'[j]]
      BY <2>1 DEF SlotInv
    <2>9. QED
      BY <2>4, <2>5, <2>7, <2>8 DEF SlotInv
  <1>8. QED
    BY <1>6, <1>7

LEMMA DecryptFailsInv == ASSUME SlotInv, NEW t \in Task, DecryptFails(t) PROVE SlotInv'
  <1> DEFINE x == [task[t] EXCEPT !.over = TRUE]
  <1>1. task' = [task EXCEPT ![t] = x] /\ sem' = sem /\ ~task[t].waits
    BY DEF DecryptFails, Runs, SlotInv
  <1>2. x \in Worker /\ x.has = task[t].has /\ x.over = TRUE /\ x.waits = task[t].waits
    BY DEF SlotInv, Worker
  <1> HIDE DEF x
  <1>3. task' \in [Task -> Worker] /\ task'[t] = x /\ \A u \in Task : u # t => task'[u] = task[u]
    BY <1>1, <1>2 DEF SlotInv
  <1>4. \A u \in Task : WorkerInv(task'[u])
    BY <1>1, <1>2, <1>3 DEF SlotInv, WorkerInv
  <1>5. \A u \in Task, j \in Kind : WaitsFor(task'[u], j) <=> WaitsFor(task[u], j)
    BY <1>1, <1>2, <1>3 DEF WaitsFor
  <1>6. ASSUME NEW j \in Kind PROVE SemInv(j)'
    <2>1. SemInv(j)
      BY DEF SlotInv
    <2>2. Holders(j)' = Holders(j)
      BY <1>2, <1>3 DEF Holders
    <2>3. QED
      BY <1>1, <1>5, <2>1, <2>2 DEF SemInv
  <1>7. QED
    BY <1>1, <1>3, <1>4, <1>6 DEF SlotInv

LEMMA SlotInvStep == ASSUME SlotInv, [SlotNext]_slotVars PROVE SlotInv'
  <1>1. ASSUME NEW t \in Task, SlotStep(t) \/ Fail(t) \/ Abort(t) \/ DecryptFails(t) PROVE SlotInv'
    BY <1>1, AcquireInv, ReleaseInv, FailInv, AbortInv, DecryptFailsInv DEF SlotStep
  <1>2. CASE UNCHANGED slotVars
    <2>1. \A k \in Kind : Holders(k)' = Holders(k)
      BY <1>2 DEF slotVars, Holders
    <2>2. \A k \in Kind : SemInv(k)'
      BY <1>2, <2>1 DEF slotVars, SlotInv, SemInv
    <2>3. QED
      BY <1>2, <2>2 DEF slotVars, SlotInv
  <1>3. QED
    BY <1>1, <1>2 DEF SlotNext

LEMMA SlotInvAccounts == SlotInv => SlotTypeOK /\ SlotsAccounted
  <1> SUFFICES ASSUME SlotInv PROVE SlotTypeOK /\ SlotsAccounted
    OBVIOUS
  <1>1. ASSUME NEW k \in Kind
        PROVE  /\ sem[k] \in [active : Nat, queue : Seq(Task)] /\ sem[k].active \in 0..Capacity[k]
               /\ sem[k].active = Cardinality(Holders(k)) /\ (sem[k].queue # <<>> => sem[k].active = Capacity[k])
               /\ IsInjective(sem[k].queue)
               /\ \A t \in Task : t \in ToSet(sem[k].queue) <=> WaitsFor(task[t], k)
    BY SlotGiven DEF SlotInv, SemInv, Queue
  <1>2. \A t \in Task, k \in Kind : WaitsFor(task[t], k) <=> (task[t].waits /\ Next1(t).kind = k)
    BY PlanIs DEF WaitsFor
  <1>3. SlotTypeOK
    BY <1>1 DEF SlotTypeOK, SlotInv, Worker
  <1>4. SlotsAccounted
    BY <1>1, <1>2 DEF SlotsAccounted
  <1>5. QED
    BY <1>3, <1>4

\* For any workers and capacities: the count of a semaphore is the number of
\* workers that have one of its slots, nobody waits while one is free, and who
\* waits is in one queue, once, through failures, aborted waits and slots given
\* back twice (Semaphore, withSemaphore, releaseWhenConsumed).
THEOREM SlotsAreCounted == SlotSpec => [](SlotTypeOK /\ SlotsAccounted)
  <1>1. SlotInit => SlotInv
    BY SlotInvInit
  <1>2. SlotInv /\ [SlotNext]_slotVars => SlotInv'
    BY SlotInvStep
  <1>3. SlotInv => SlotTypeOK /\ SlotsAccounted
    BY SlotInvAccounts
  <1>4. QED
    BY <1>1, <1>2, <1>3, PTL DEF SlotSpec

-----------------------------------------------------------------------------
CallRecord == [pc : {"idle", "token", "refresh", "send", "over"}, kind : CallKind \cup {"none"}, token : Nat,
               consent : Nat, again : BOOLEAN, attempt : 0..MaxAttempts, done : Nat, outcome : Outcome,
               calm : BOOLEAN]
Token == [consent : 1..grant, state : {"good", "withdrawn", "old"}]

GrantInv ==
    /\ events \in 0..MaxGrantEvents /\ grant \in 1..(events + 1) /\ alive \subseteq 1..grant
    /\ IsFiniteSet(DOMAIN tokens) /\ DOMAIN tokens = 1..Cardinality(DOMAIN tokens)
    /\ \A i \in DOMAIN tokens : tokens[i] \in Token
    /\ cache \in {0} \cup DOMAIN tokens

\* What a call has at each of its steps.  One that cannot be repeated has done
\* nothing yet; one nothing happened to refreshes with the consent of now, and
\* sends again with a good token of it.
Good(q) ==
    /\ q.token \in {0} \cup DOMAIN tokens /\ q.consent \in 0..grant
    /\ q.pc # "over" => q.outcome = "none"
    /\ q.kind # "metadata" => q.done <= 1 /\ (q.pc # "over" => q.done = 0)
    /\ q.pc = "send" => q.token # 0 /\ q.attempt # 0
    /\ q.pc = "refresh" => q.consent # 0 /\ (q.calm => q.consent = grant)
    /\ q.pc = "send" /\ q.again /\ q.calm => tokens[q.token] = [consent |-> grant, state |-> "good"]
    /\ q.pc \in {"idle", "token"} => ~q.again
ProgressInv(c) == Good(call[c])

CallInv == GrantInv /\ call \in [Calls -> CallRecord] /\ \A c \in Calls : ProgressInv(c)

-----------------------------------------------------------------------------
LEMMA CallGiven == Calls \subseteq Nat /\ MaxAttempts \in Nat \ {0} /\ MaxGrantEvents \in Nat
  BY DriveCallsAssumption

USE CallGiven

LEMMA TokensCounted == ASSUME CallInv PROVE Cardinality(DOMAIN tokens) \in Nat /\ DOMAIN tokens = 1..Cardinality(DOMAIN tokens)
  BY FS_CardinalityType DEF CallInv, GrantInv

LEMMA RestingFields ==
    /\ Resting \in CallRecord /\ Resting.token = 0 /\ Resting.consent = 0 /\ Resting.outcome = "none"
    /\ Resting.done = 0 /\ Resting.again = FALSE
  BY DEF Resting, CallRecord, Outcome

LEMMA CallInvInit == CallInit => CallInv
  <1> SUFFICES ASSUME CallInit PROVE CallInv
    OBVIOUS
  <1>1. DOMAIN tokens = {} /\ Cardinality({}) = 0 /\ IsFiniteSet({})
    BY FS_EmptySet DEF CallInit
  <1>2. 1..0 = {}
    OBVIOUS
  <1>3. GrantInv
    BY <1>1, <1>2 DEF CallInit, GrantInv
  <1>4. call \in [Calls -> CallRecord]
    BY DEF CallInit, CallRecord, Resting, Outcome, CallKind
  <1>5. \A c \in Calls : ProgressInv(c)
    BY <1>1 DEF CallInit, ProgressInv, Good, Resting
  <1>6. QED
    BY <1>3, <1>4, <1>5 DEF CallInv

\* A step that changes one call's record only, and neither the tokens nor the consents.
LEMMA OneCallInv ==
    ASSUME CallInv, NEW c \in Calls, NEW q \in CallRecord, call' = [call EXCEPT ![c] = q],
           UNCHANGED <<grant, alive, tokens, events>>, cache' \in {0} \cup DOMAIN tokens,
           Good(q)
    PROVE  CallInv'
  <1>1. GrantInv'
    BY DEF CallInv, GrantInv, Token
  <1>2. call' \in [Calls -> CallRecord]
    BY DEF CallInv
  <1>3. ASSUME NEW d \in Calls PROVE ProgressInv(d)'
    <2>1. CASE d = c
      <3>1. call'[d] = q
        BY <2>1 DEF CallInv
      <3>2. QED
        BY <3>1 DEF ProgressInv, Good
    <2>2. CASE d # c
      <3>1. call'[d] = call[d] /\ ProgressInv(d)
        BY <2>2 DEF CallInv
      <3>2. QED
        BY <3>1 DEF ProgressInv, Good
    <2>3. QED
      BY <2>1, <2>2
  <1>4. QED
    BY <1>1, <1>2, <1>3 DEF CallInv

LEMMA CallFields ==
    ASSUME CallInv, NEW c \in Calls
    PROVE  /\ call[c] \in CallRecord /\ ProgressInv(c)
           /\ call[c].pc \in {"idle", "token", "refresh", "send", "over"} /\ call[c].kind \in CallKind \cup {"none"}
           /\ call[c].token \in Nat /\ call[c].consent \in Nat /\ call[c].again \in BOOLEAN
           /\ call[c].attempt \in 0..MaxAttempts /\ call[c].done \in Nat /\ call[c].outcome \in Outcome
           /\ call[c].calm \in BOOLEAN
  BY DEF CallInv, CallRecord

\* What the user and Google do to the consents leaves the calls under way no longer calm.
LEMMA EventInv ==
    ASSUME CallInv, GrantEvent, grant' \in {grant, grant + 1}, alive' \subseteq 1..grant',
           DOMAIN tokens' = DOMAIN tokens,
           \A i \in DOMAIN tokens : tokens'[i] \in [consent : 1..grant, state : {"good", "withdrawn", "old"}]
    PROVE  CallInv'
  <1>1. GrantInv'
    <2>1. events' \in 0..MaxGrantEvents /\ events' = events + 1 /\ grant \in 1..(events + 1)
      BY DEF CallInv, GrantInv, GrantEvent
    <2>2. grant' \in 1..(events' + 1)
      BY <2>1
    <2>3. \A i \in DOMAIN tokens : tokens'[i] \in Token'
      <3>1. 1..grant \subseteq 1..grant'
        BY <2>1
      <3>2. QED
        BY <3>1 DEF Token
    <2>4. QED
      BY <2>1, <2>2, <2>3 DEF CallInv, GrantInv, GrantEvent
  <1>2. ASSUME NEW c \in Calls
        PROVE  /\ call'[c] = [call[c] EXCEPT !.calm = @ /\ call[c].pc \in {"idle", "over"}]
               /\ call'[c] \in CallRecord /\ ProgressInv(c)'
    <2>1. call'[c] = [call[c] EXCEPT !.calm = @ /\ call[c].pc \in {"idle", "over"}]
      BY DEF GrantEvent
    <2>2. call'[c] \in CallRecord
      BY <2>1, CallFields DEF CallRecord
    <2>3. /\ call'[c].pc = call[c].pc /\ call'[c].token = call[c].token /\ call'[c].consent = call[c].consent
          /\ call'[c].outcome = call[c].outcome /\ call'[c].kind = call[c].kind /\ call'[c].done = call[c].done
          /\ call'[c].attempt = call[c].attempt /\ call'[c].again = call[c].again
          /\ (call'[c].calm => call[c].pc \in {"idle", "over"})
      BY <2>1, CallFields DEF CallRecord
    <2>4. call[c].consent \in 0..grant'
      <3>1. call[c].consent \in 0..grant /\ grant \in Nat
        BY CallFields DEF ProgressInv, Good, CallInv, GrantInv
      <3>2. QED
        BY <3>1
    <2>5. ProgressInv(c)
      BY CallFields
    <2>6. QED
      BY <2>1, <2>2, <2>3, <2>4, <2>5 DEF ProgressInv, Good
  <1>3. call' \in [Calls -> CallRecord]
    <2>1. call' = [c \in Calls |-> [call[c] EXCEPT !.calm = @ /\ call[c].pc \in {"idle", "over"}]]
      BY DEF GrantEvent
    <2>2. QED
      BY <1>2, <2>1
  <1>4. QED
    BY <1>1, <1>2, <1>3 DEF CallInv

LEMMA RevokeInv == ASSUME CallInv, Revoke PROVE CallInv'
  <1>1. GrantEvent /\ grant' = grant /\ alive' \subseteq 1..grant' /\ tokens' = tokens
    BY DEF Revoke, CallInv, GrantInv
  <1>2. QED
    BY <1>1, EventInv DEF CallInv, GrantInv, Token

LEMMA ReconnectInv == ASSUME CallInv, Reconnect PROVE CallInv'
  <1>1. GrantEvent /\ grant' = grant + 1 /\ alive' = alive \cup {grant'} /\ tokens' = tokens
    BY DEF Reconnect
  <1>2. alive' \subseteq 1..grant'
    BY <1>1 DEF CallInv, GrantInv
  <1>3. QED
    BY <1>1, <1>2, EventInv DEF CallInv, GrantInv, Token

LEMMA TokenMarked ==
    ASSUME CallInv, NEW t \in DOMAIN tokens, NEW state \in {"good", "withdrawn", "old"}, GrantEvent,
           tokens' = [tokens EXCEPT ![t].state = state], UNCHANGED <<grant, alive>>
    PROVE  CallInv'
  <1>1. DOMAIN tokens' = DOMAIN tokens
    OBVIOUS
  <1>2. ASSUME NEW i \in DOMAIN tokens
        PROVE  tokens'[i] \in [consent : 1..grant, state : {"good", "withdrawn", "old"}]
    <2>1. tokens[i] \in [consent : 1..grant, state : {"good", "withdrawn", "old"}]
      BY DEF CallInv, GrantInv, Token
    <2>2. QED
      BY <2>1
  <1>3. grant' \in {grant, grant + 1} /\ alive' \subseteq 1..grant'
    BY DEF CallInv, GrantInv
  <1>4. QED
    BY <1>1, <1>2, <1>3, EventInv

LEMMA WithdrawInv == ASSUME CallInv, NEW t \in DOMAIN tokens, Withdraw(t) PROVE CallInv'
  BY TokenMarked DEF Withdraw

LEMMA ExpireInv == ASSUME CallInv, Expire PROVE CallInv'
  BY TokenMarked DEF Expire, Stale

LEMMA StartCallInv == ASSUME CallInv, NEW c \in Calls, NEW kind \in CallKind, StartCall(c, kind) PROVE CallInv'
  <1> DEFINE q == [Resting EXCEPT !.pc = "token", !.kind = kind]
  <1>1. /\ q \in CallRecord /\ q.pc = "token" /\ q.token = 0 /\ q.consent = 0 /\ q.outcome = "none" /\ q.done = 0
        /\ q.again = FALSE
    BY RestingFields DEF CallRecord
  <1>2. /\ call' = [call EXCEPT ![c] = q] /\ UNCHANGED <<grant, alive, tokens, events>>
        /\ cache' \in {0} \cup DOMAIN tokens /\ 0 \in 0..grant
    BY DEF StartCall, Becomes, CallInv, GrantInv
  <1> HIDE DEF q
  <1>3. Good(q)
    BY <1>1, <1>2 DEF Good
  <1>4. QED
    BY <1>1, <1>2, <1>3, OneCallInv

LEMMA GetTokenInv == ASSUME CallInv, NEW c \in Calls, GetToken(c) PROVE CallInv'
  <1>1. /\ UNCHANGED <<grant, alive, tokens, events>> /\ cache' \in {0} \cup DOMAIN tokens
        /\ call[c].pc = "token" /\ grant \in Nat \ {0}
    BY DEF GetToken, CallInv, GrantInv
  <1>2. /\ call[c] \in CallRecord /\ call[c].outcome = "none" /\ ~call[c].again /\ call[c].token \in {0} \cup DOMAIN tokens
        /\ call[c].consent \in 0..grant
        /\ (call[c].kind # "metadata" => call[c].done = 0)
    BY <1>1, CallFields DEF ProgressInv, Good
  <1>3. CASE Stale
    <2> DEFINE q == [call[c] EXCEPT !.pc = "refresh", !.consent = grant]
    <2>1. call' = [call EXCEPT ![c] = q]
      BY <1>3 DEF GetToken, Becomes
    <2>2. /\ q \in CallRecord /\ q.pc = "refresh" /\ q.consent = grant /\ q.token = call[c].token
          /\ q.outcome = "none" /\ ~q.again /\ q.kind = call[c].kind /\ q.done = call[c].done
      BY <1>1, <1>2 DEF CallRecord
    <2> HIDE DEF q
    <2>3. grant \in 0..grant /\ Good(q)
      BY <1>1, <1>2, <2>2 DEF Good
    <2>4. QED
      BY <1>1, <2>1, <2>2, <2>3, OneCallInv
  <1>4. CASE ~Stale
    <2> DEFINE q == [call[c] EXCEPT !.pc = "send", !.token = cache, !.attempt = 1]
    <2>1. call' = [call EXCEPT ![c] = q] /\ cache \in DOMAIN tokens /\ cache \in Nat \ {0}
      BY <1>4, TokensCounted DEF GetToken, Becomes, Stale
    <2>2. /\ q \in CallRecord /\ q.pc = "send" /\ q.consent = call[c].consent /\ q.token = cache /\ q.attempt = 1
          /\ q.outcome = "none" /\ ~q.again /\ q.kind = call[c].kind /\ q.done = call[c].done
      <3>1. 1 \in 0..MaxAttempts /\ cache \in Nat
        BY <2>1
      <3>2. QED
        BY <1>2, <3>1 DEF CallRecord
    <2> HIDE DEF q
    <2>3. Good(q)
      BY <1>1, <1>2, <2>1, <2>2 DEF Good
    <2>4. QED
      BY <1>1, <2>1, <2>2, <2>3, OneCallInv
  <1>5. QED
    BY <1>3, <1>4

\* How a call ends, and how often it may then have done what it was asked.
Counts(c) == IF call[c].kind = "metadata" THEN Nat ELSE {0, 1}

LEMMA EndInv ==
    ASSUME CallInv, NEW c \in Calls, NEW outcome \in Outcome, NEW n \in Counts(c),
           call' = [call EXCEPT ![c] = [Ends(c, outcome) EXCEPT !.done = n]],
           UNCHANGED <<grant, alive, tokens, events>>, cache' \in {0} \cup DOMAIN tokens
    PROVE  CallInv'
  <1> DEFINE q == [Ends(c, outcome) EXCEPT !.done = n]
  <1>1. /\ q \in CallRecord /\ q.pc = "over" /\ q.token = 0 /\ q.consent = 0 /\ q.done = n /\ q.kind = call[c].kind
    <2>1. n \in Nat /\ 0 \in 0..MaxAttempts
      BY DEF Counts
    <2>2. QED
      BY <2>1, RestingFields, CallFields DEF Ends, CallRecord
  <1>2. call' = [call EXCEPT ![c] = q] /\ 0 \in 0..grant
    BY DEF CallInv, GrantInv
  <1> HIDE DEF q
  <1>3. Good(q)
    BY <1>1, <1>2 DEF Good, Counts
  <1>4. QED
    BY <1>1, <1>2, <1>3, OneCallInv

LEMMA EndsDone == ASSUME CallInv, NEW c \in Calls, NEW outcome
                  PROVE Ends(c, outcome) = [Ends(c, outcome) EXCEPT !.done = call[c].done]
                        /\ Ends(c, outcome).done = call[c].done
  BY DEF Ends, Resting

LEMMA TokenRefusedInv == ASSUME CallInv, NEW c \in Calls, TokenRefused(c) PROVE CallInv'
  <1> DEFINE outcome == IF call[c].consent \in alive THEN "error" ELSE "revoked"
  <1>1. /\ call' = [call EXCEPT ![c] = Ends(c, outcome)] /\ cache' \in {0} \cup DOMAIN tokens
        /\ UNCHANGED <<grant, alive, tokens, events>> /\ outcome \in Outcome
    BY DEF TokenRefused, Becomes, Outcome
  <1>2. call[c].done \in Counts(c)
    BY CallFields DEF ProgressInv, Good, Counts
  <1> HIDE DEF outcome
  <1>3. call' = [call EXCEPT ![c] = [Ends(c, outcome) EXCEPT !.done = call[c].done]]
    BY <1>1, EndsDone
  <1>4. QED
    BY <1>1, <1>2, <1>3, EndInv

LEMMA AnsweredInv == ASSUME CallInv, NEW c \in Calls, Answered(c) PROVE CallInv'
  <1> DEFINE n == call[c].done + 1
  <1>1. /\ UNCHANGED <<grant, alive, tokens, events>> /\ cache' \in {0} \cup DOMAIN tokens
        /\ call' = [call EXCEPT ![c] = [Ends(c, "ok") EXCEPT !.done = @ + 1]] /\ call[c].pc = "send"
    BY DEF Answered, Becomes, CallInv, GrantInv
  <1>2. call' = [call EXCEPT ![c] = [Ends(c, "ok") EXCEPT !.done = n]]
    BY <1>1, EndsDone
  <1>3. n \in Counts(c) /\ "ok" \in Outcome
    BY <1>1, CallFields DEF ProgressInv, Good, Counts, Outcome
  <1> HIDE DEF n
  <1>4. QED
    BY <1>1, <1>2, <1>3, EndInv

LEMMA FaultyInv == ASSUME CallInv, NEW c \in Calls, NEW applied \in BOOLEAN, Faulty(c, applied) PROVE CallInv'
  <1> DEFINE n == IF applied THEN call[c].done + 1 ELSE call[c].done
  <1> DEFINE q == [call[c] EXCEPT !.done = n]
  <1>1. /\ UNCHANGED <<grant, alive, tokens, events>> /\ cache' \in {0} \cup DOMAIN tokens /\ call[c].pc = "send"
        /\ call' = [call EXCEPT ![c] = IF q.attempt < Attempts(c) THEN [q EXCEPT !.attempt = @ + 1]
                                       ELSE [Ends(c, "error") EXCEPT !.done = q.done]]
    BY DEF Faulty, Becomes, CallInv, GrantInv
  <1>2. /\ n \in Counts(c) /\ n \in Nat /\ q.attempt = call[c].attempt /\ q.done = n
        /\ call[c].attempt \in 1..MaxAttempts
    BY <1>1, CallFields DEF ProgressInv, Good, CallRecord, Counts
  <1>3. CASE call[c].attempt < Attempts(c)
    <2> DEFINE p == [q EXCEPT !.attempt = @ + 1]
    <2>1. call[c].kind = "metadata" /\ call[c].attempt + 1 \in 1..MaxAttempts
      BY <1>2, <1>3 DEF Attempts
    <2>2. call' = [call EXCEPT ![c] = p]
      BY <1>1, <1>2, <1>3
    <2>3. /\ p \in CallRecord /\ p.pc = "send" /\ p.consent = call[c].consent /\ p.token = call[c].token
          /\ p.attempt = call[c].attempt + 1 /\ p.outcome = call[c].outcome /\ p.again = call[c].again
          /\ p.calm = call[c].calm /\ p.kind = "metadata"
      <3>1. call[c].attempt + 1 \in 0..MaxAttempts
        BY <2>1
      <3>2. p = [call[c] EXCEPT !.done = n, !.attempt = call[c].attempt + 1]
        BY <1>2, CallFields DEF CallRecord
      <3> HIDE DEF p, q, n
      <3>3. QED
        BY <1>1, <1>2, <2>1, <3>1, <3>2, CallFields DEF CallRecord
    <2>4. ProgressInv(c)
      BY CallFields
    <2> HIDE DEF p, q, n
    <2>5. Good(p)
      <3>1. /\ p.token \in {0} \cup DOMAIN tokens /\ p.consent \in 0..grant /\ p.outcome = "none" /\ p.token # 0
            /\ p.attempt # 0
            /\ (p.again /\ p.calm => tokens[p.token] = [consent |-> grant, state |-> "good"])
        BY <1>1, <1>2, <2>1, <2>3, <2>4 DEF ProgressInv, Good
      <3>2. QED
        BY <2>3, <3>1 DEF Good
    <2>6. QED
      BY <1>1, <2>2, <2>3, <2>5, OneCallInv
  <1>4. CASE ~(call[c].attempt < Attempts(c))
    <2>1. call' = [call EXCEPT ![c] = [Ends(c, "error") EXCEPT !.done = n]] /\ "error" \in Outcome
      BY <1>1, <1>2, <1>4 DEF Outcome
    <2> HIDE DEF q, n
    <2>2. QED
      BY <1>1, <1>2, <2>1, EndInv
  <1>5. QED
    BY <1>3, <1>4

LEMMA UnauthorizedInv == ASSUME CallInv, NEW c \in Calls, Unauthorized(c) PROVE CallInv'
  <1>1. UNCHANGED <<grant, alive, tokens, events>> /\ call[c].pc = "send" /\ grant \in Nat \ {0} /\ cache \in {0} \cup DOMAIN tokens
    BY DEF Unauthorized, CallInv, GrantInv
  <1>2. /\ call[c] \in CallRecord /\ call[c].outcome = "none" /\ call[c].done \in Nat
        /\ (call[c].kind # "metadata" => call[c].done = 0)
    BY <1>1, CallFields DEF ProgressInv, Good
  <1>3. CASE call[c].kind # "media" /\ ~call[c].again
    <2> DEFINE q == [call[c] EXCEPT !.again = TRUE, !.consent = grant, !.token = 0, !.pc = "refresh"]
    <2>1. call' = [call EXCEPT ![c] = q] /\ cache' = 0
      BY <1>3 DEF Unauthorized, Becomes, Forgotten
    <2>2. /\ q \in CallRecord /\ q.pc = "refresh" /\ q.consent = grant /\ q.token = 0
          /\ q.outcome = "none" /\ q.kind = call[c].kind /\ q.done = call[c].done
      BY <1>1, <1>2 DEF CallRecord
    <2> HIDE DEF q
    <2>3. grant \in 0..grant /\ Good(q)
      BY <1>1, <1>2, <2>2 DEF Good
    <2>4. QED
      BY <1>1, <2>1, <2>2, <2>3, OneCallInv
  <1>4. CASE ~(call[c].kind # "media" /\ ~call[c].again)
    <2>1. call' = [call EXCEPT ![c] = Ends(c, "unauthorized")] /\ cache' = cache /\ "unauthorized" \in Outcome
      BY <1>4 DEF Unauthorized, Becomes, Outcome
    <2>2. call' = [call EXCEPT ![c] = [Ends(c, "unauthorized") EXCEPT !.done = call[c].done]]
      BY <2>1, EndsDone
    <2>3. call[c].done \in Counts(c)
      BY <1>2 DEF Counts
    <2>4. cache' \in {0} \cup DOMAIN tokens
      BY <1>1, <2>1
    <2>5. QED
      BY <1>1, <2>1, <2>2, <2>3, <2>4, EndInv
  <1>5. QED
    BY <1>3, <1>4

\* A refresh adds a token; those there were stay what they were.
LEMMA TokenRefreshedInv == ASSUME CallInv, NEW c \in Calls, TokenRefreshed(c) PROVE CallInv'
  <1> DEFINE n == Cardinality(DOMAIN tokens)
  <1> DEFINE q == [call[c] EXCEPT !.pc = "send", !.token = New, !.consent = 0, !.attempt = 1]
  <1>1. n \in Nat /\ New = n + 1 /\ DOMAIN tokens = 1..n
    BY FS_CardinalityType DEF New, CallInv, GrantInv
  <1>2. /\ call' = [call EXCEPT ![c] = q] /\ cache' = New /\ UNCHANGED <<grant, alive, events>>
        /\ tokens' = [i \in 1..New |-> IF i = New THEN [consent |-> call[c].consent, state |-> "good"] ELSE tokens[i]]
        /\ call[c].pc = "refresh"
    BY DEF TokenRefreshed, Becomes
  <1>3. DOMAIN tokens' = 1..(n + 1) /\ IsFiniteSet(1..(n + 1)) /\ Cardinality(1..(n + 1)) = n + 1
    <2>1. n + 1 \in Int /\ 1 \in Int /\ ~(1 > n + 1) /\ (n + 1) - 1 + 1 = n + 1
      BY <1>1
    <2>2. DOMAIN tokens' = 1..(n + 1)
      BY <1>1, <1>2
    <2> HIDE DEF n
    <2>3. IsFiniteSet(1..(n + 1)) /\ Cardinality(1..(n + 1)) = n + 1
      BY <2>1, FS_Interval
    <2>4. QED
      BY <2>2, <2>3
  <1>4. tokens'[n + 1] = [consent |-> call[c].consent, state |-> "good"] /\ \A i \in 1..n : tokens'[i] = tokens[i]
    BY <1>1, <1>2
  <1>5. call[c].consent \in 1..grant /\ grant \in Nat
    <2>1. ProgressInv(c)
      BY CallFields
    <2>2. QED
      BY <1>2, <2>1 DEF ProgressInv, Good, CallInv, GrantInv
  <1>6. GrantInv'
    <2>1. \A i \in 1..(n + 1) : tokens'[i] \in Token'
      <3>1. \A i \in 1..n : tokens[i] \in Token
        BY <1>1 DEF CallInv, GrantInv
      <3>2. tokens'[n + 1] \in Token
        BY <1>4, <1>5 DEF Token
      <3>3. Token' = Token
        BY <1>2 DEF Token
      <3>4. \A i \in 1..(n + 1) : i \in 1..n \/ i = n + 1
        BY <1>1
      <3>5. QED
        BY <1>4, <3>1, <3>2, <3>3, <3>4
    <2>2. cache' \in DOMAIN tokens'
      BY <1>1, <1>2, <1>3
    <2>3. QED
      BY <1>2, <1>3, <2>1, <2>2 DEF CallInv, GrantInv
  <1>7. /\ q \in CallRecord /\ q.pc = "send" /\ q.token = n + 1 /\ q.consent = 0 /\ q.attempt = 1
        /\ q.kind = call[c].kind /\ q.done = call[c].done /\ q.outcome = call[c].outcome /\ q.calm = call[c].calm
    <2>1. New \in Nat /\ 1 \in 0..MaxAttempts
      BY <1>1
    <2>2. QED
      BY <1>1, <2>1, CallFields DEF CallRecord
  <1> HIDE DEF q, n
  <1>8. ASSUME NEW d \in Calls PROVE ProgressInv(d)'
    <2>1. ProgressInv(d) /\ ProgressInv(c)
      BY CallFields
    <2>2. CASE d = c
      <3>1. call'[d] = q
        BY <1>2, <2>2 DEF CallInv
      <3>2. call[c].calm => call[c].consent = grant
        BY <1>2, <2>1 DEF ProgressInv, Good
      <3>3. q.token \in DOMAIN tokens' /\ q.token # 0 /\ 0 \in 0..grant
        BY <1>1, <1>3, <1>5, <1>7
      <3>4. q.calm => tokens'[q.token] = [consent |-> grant, state |-> "good"]
        BY <1>4, <1>7, <3>2
      <3>5. q.outcome = "none" /\ (q.kind # "metadata" => q.done = 0)
        BY <1>2, <1>7, <2>1 DEF ProgressInv, Good
      <3>6. QED
        BY <1>2, <1>7, <3>1, <3>3, <3>4, <3>5 DEF ProgressInv, Good
    <2>3. CASE d # c
      <3>1. call'[d] = call[d]
        BY <1>2, <2>3 DEF CallInv
      <3>2. call[d].token \in {0} \cup DOMAIN tokens'
        BY <1>1, <1>3, <2>1 DEF ProgressInv, Good
      <3>3. call[d].pc = "send" => tokens'[call[d].token] = tokens[call[d].token]
        BY <1>1, <1>4, <2>1 DEF ProgressInv, Good
      <3>4. QED
        BY <1>2, <2>1, <3>1, <3>2, <3>3 DEF ProgressInv, Good
    <2>4. QED
      BY <2>2, <2>3
  <1>9. call' \in [Calls -> CallRecord]
    BY <1>2, <1>7 DEF CallInv
  <1>10. QED
    BY <1>6, <1>8, <1>9 DEF CallInv

LEMMA CallInvStep == ASSUME CallInv, [CallNext]_callVars PROVE CallInv'
  <1>1. CASE Revoke
    BY <1>1, RevokeInv
  <1>2. CASE Reconnect
    BY <1>2, ReconnectInv
  <1>3. CASE Expire
    BY <1>3, ExpireInv
  <1>4. ASSUME NEW t \in DOMAIN tokens, Withdraw(t) PROVE CallInv'
    BY <1>4, WithdrawInv
  <1>5. ASSUME NEW c \in Calls, NEW kind \in CallKind, StartCall(c, kind) PROVE CallInv'
    BY <1>5, StartCallInv
  <1>6. ASSUME NEW c \in Calls, CallStep(c) PROVE CallInv'
    BY <1>6, GetTokenInv, TokenRefreshedInv, TokenRefusedInv, AnsweredInv, UnauthorizedInv, FaultyInv DEF CallStep
  <1>7. CASE UNCHANGED callVars
    BY <1>7 DEF callVars, CallInv, GrantInv, ProgressInv, Good, Token
  <1>8. QED
    BY <1>1, <1>2, <1>3, <1>4, <1>5, <1>6, <1>7 DEF CallNext

-----------------------------------------------------------------------------
LEMMA CallInvTyped == CallInv => CallTypeOK /\ PostedOnce
  <1> SUFFICES ASSUME CallInv PROVE CallTypeOK /\ PostedOnce
    OBVIOUS
  <1>1. grant \in 1..(MaxGrantEvents + 1) /\ alive \subseteq 1..(MaxGrantEvents + 1)
    BY DEF CallInv, GrantInv
  <1>2. ASSUME NEW c \in Calls
        PROVE  /\ call[c].pc \in {"idle", "token", "refresh", "send", "over"}
               /\ call[c].token \in {0} \cup DOMAIN tokens
               /\ call[c].outcome \in Outcome /\ call[c].attempt \in 0..MaxAttempts
               /\ (call[c].kind # "metadata" => call[c].done <= 1)
    BY CallFields DEF ProgressInv, Good
  <1>3. QED
    BY <1>1, <1>2 DEF CallInv, GrantInv, Token, CallTypeOK, PostedOnce

Heals == \A c \in Calls :
            (/\ call[c].pc # "over" /\ call[c].kind # "media" /\ call[c].calm
             /\ call'[c].outcome \in {"unauthorized", "revoked"}) => grant \notin alive

\* Steps after which no call has failed that had not before.
LEMMA NoFailure ==
    ASSUME CallInv, \A c \in Calls : call'[c].outcome = call[c].outcome
    PROVE  Heals
  <1>1. \A c \in Calls : call[c].pc # "over" => call[c].outcome = "none"
    BY CallFields DEF ProgressInv, Good
  <1>2. QED
    BY <1>1 DEF Heals

LEMMA OneCallHeals ==
    ASSUME CallInv, NEW c \in Calls, NEW q, call' = [call EXCEPT ![c] = q],
           q.outcome \in {"unauthorized", "revoked"} /\ call[c].kind # "media" /\ call[c].calm => grant \notin alive
    PROVE  Heals
  <1>1. call'[c] = q /\ \A d \in Calls : d # c => call'[d] = call[d]
    BY DEF CallInv
  <1>2. \A d \in Calls : call[d].pc # "over" => call[d].outcome = "none"
    BY CallFields DEF ProgressInv, Good
  <1>3. QED
    BY <1>1, <1>2 DEF Heals

LEMMA HealStep == ASSUME CallInv, [CallNext]_callVars PROVE Heals
  <1>1. CASE GrantEvent
    <2>1. \A c \in Calls : call'[c] = [call[c] EXCEPT !.calm = @ /\ call[c].pc \in {"idle", "over"}]
      BY <1>1 DEF GrantEvent
    <2>2. \A c \in Calls : call'[c].outcome = call[c].outcome
      BY <2>1, CallFields DEF CallRecord
    <2>3. QED
      BY <2>2, NoFailure
  <1>2. ASSUME NEW c \in Calls, NEW kind \in CallKind, StartCall(c, kind) PROVE Heals
    BY <1>2, OneCallHeals DEF StartCall, Becomes, Resting
  <1>3. ASSUME NEW c \in Calls, GetToken(c) PROVE Heals
    <2>1. call[c].pc = "token"
      BY <1>3 DEF GetToken
    <2>2. call[c] \in CallRecord /\ call[c].outcome = "none"
      BY <2>1, CallFields DEF ProgressInv, Good
    <2> DEFINE q == IF Stale THEN [call[c] EXCEPT !.pc = "refresh", !.consent = grant]
                    ELSE [call[c] EXCEPT !.pc = "send", !.token = cache, !.attempt = 1]
    <2>3. q.outcome = "none"
      BY <2>2 DEF CallRecord
    <2>4. call' = [call EXCEPT ![c] = q]
      BY <1>3 DEF GetToken, Becomes
    <2> HIDE DEF q
    <2>5. QED
      BY <2>3, <2>4, OneCallHeals
  <1>4. ASSUME NEW c \in Calls, TokenRefreshed(c) PROVE Heals
    <2>1. call[c].pc = "refresh"
      BY <1>4 DEF TokenRefreshed
    <2>2. call[c] \in CallRecord /\ call[c].outcome = "none"
      BY <2>1, CallFields DEF ProgressInv, Good
    <2> DEFINE q == [call[c] EXCEPT !.pc = "send", !.token = New, !.consent = 0, !.attempt = 1]
    <2>3. q.outcome = "none"
      BY <2>2 DEF CallRecord
    <2>4. call' = [call EXCEPT ![c] = q]
      BY <1>4 DEF TokenRefreshed, Becomes
    <2> HIDE DEF q
    <2>5. QED
      BY <2>3, <2>4, OneCallHeals
  <1>5. ASSUME NEW c \in Calls, TokenRefused(c) PROVE Heals
    <2> DEFINE q == Ends(c, IF call[c].consent \in alive THEN "error" ELSE "revoked")
    <2>1. call[c].pc = "refresh" /\ call' = [call EXCEPT ![c] = q]
      BY <1>5 DEF TokenRefused, Becomes
    <2>2. call[c].calm => call[c].consent = grant
      BY <2>1, CallFields DEF ProgressInv, Good
    <2>3. q.outcome = IF call[c].consent \in alive THEN "error" ELSE "revoked"
      BY DEF Ends, Resting
    <2> HIDE DEF q
    <2>4. QED
      BY <2>1, <2>2, <2>3, OneCallHeals
  <1>6. ASSUME NEW c \in Calls, Answered(c) PROVE Heals
    <2> DEFINE q == [Ends(c, "ok") EXCEPT !.done = @ + 1]
    <2>1. call' = [call EXCEPT ![c] = q]
      BY <1>6 DEF Answered, Becomes
    <2>2. q.outcome = "ok"
      BY DEF Ends, Resting
    <2> HIDE DEF q
    <2>3. QED
      BY <2>1, <2>2, OneCallHeals
  <1>7. ASSUME NEW c \in Calls, Unauthorized(c) PROVE Heals
    <2>1. call[c].pc = "send" /\ ~Honoured(call[c].token)
      BY <1>7 DEF Unauthorized
    <2>2. ProgressInv(c) /\ call[c] \in CallRecord
      BY CallFields
    <2>3. CASE call[c].kind # "media" /\ ~call[c].again
      <3> DEFINE q == [call[c] EXCEPT !.again = TRUE, !.consent = grant, !.token = 0, !.pc = "refresh"]
      <3>1. call' = [call EXCEPT ![c] = q]
        BY <1>7, <2>3 DEF Unauthorized, Becomes, Forgotten
      <3>2. q.outcome = "none"
        BY <2>1, <2>2 DEF CallRecord, ProgressInv, Good
      <3> HIDE DEF q
      <3>3. QED
        BY <3>1, <3>2, OneCallHeals
    <2>4. CASE call[c].kind = "media"
      <3>1. call' = [call EXCEPT ![c] = Ends(c, "unauthorized")]
        BY <1>7, <2>4 DEF Unauthorized, Becomes
      <3>2. QED
        BY <2>4, <3>1, OneCallHeals
    <2>5. CASE call[c].kind # "media" /\ call[c].again
      <3>1. call' = [call EXCEPT ![c] = Ends(c, "unauthorized")]
        BY <1>7, <2>5 DEF Unauthorized, Becomes
      <3>2. call[c].calm => tokens[call[c].token] = [consent |-> grant, state |-> "good"]
        BY <2>1, <2>2, <2>5 DEF ProgressInv, Good
      <3>3. call[c].calm => grant \notin alive
        BY <2>1, <3>2 DEF Honoured
      <3>4. QED
        BY <3>1, <3>3, OneCallHeals
    <2>6. QED
      BY <2>2, <2>3, <2>4, <2>5 DEF CallRecord
  <1>8. ASSUME NEW c \in Calls, NEW applied \in BOOLEAN, Faulty(c, applied) PROVE Heals
    <2> DEFINE q == [call[c] EXCEPT !.done = IF applied THEN @ + 1 ELSE @]
               p == IF q.attempt < Attempts(c) THEN [q EXCEPT !.attempt = @ + 1]
                    ELSE [Ends(c, "error") EXCEPT !.done = q.done]
    <2>1. call[c].pc = "send" /\ call' = [call EXCEPT ![c] = p]
      BY <1>8 DEF Faulty, Becomes
    <2>2. call[c] \in CallRecord /\ call[c].outcome = "none"
      BY <2>1, CallFields DEF ProgressInv, Good
    <2>3. p.outcome \in {"none", "error"}
      BY <2>2 DEF CallRecord, Ends, Resting
    <2> HIDE DEF p, q
    <2>4. QED
      BY <2>1, <2>3, OneCallHeals
  <1>9. CASE UNCHANGED callVars
    BY <1>9, NoFailure DEF callVars
  <1>10. QED
    BY <1>1, <1>2, <1>3, <1>4, <1>5, <1>6, <1>7, <1>8, <1>9
       DEF CallNext, CallStep, Revoke, Reconnect, Withdraw, Expire

\* For any calls, attempts, lost answers, revocations and new consents: what
\* cannot be repeated is done at most once, and a token that is stale, withdrawn
\* or of an earlier consent costs a call whose account stands a repetition and
\* no more (withDriveRetry, request, run, OAuthTokenProvider).
THEOREM CallsAreSafe == CallSpec => CallsSafe
  <1>1. CallInit => CallInv
    BY CallInvInit
  <1>2. CallInv /\ [CallNext]_callVars => CallInv'
    BY CallInvStep
  <1>3. CallInv => CallTypeOK /\ PostedOnce
    BY CallInvTyped
  <1>4. CallInv /\ [CallNext]_callVars => [Heals]_callVars
    BY HealStep
  <1>5. CallSpec => [](CallTypeOK /\ PostedOnce)
    BY <1>1, <1>2, <1>3, PTL DEF CallSpec
  <1>6. CallSpec => [][Heals]_callVars
    BY <1>1, <1>2, <1>4, PTL DEF CallSpec
  <1>7. QED
    BY <1>5, <1>6 DEF CallsSafe, StaleTokenHeals, Heals

==============================================================================
