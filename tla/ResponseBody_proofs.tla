------------------------- MODULE ResponseBody_proofs -------------------------
(* Theorems about the body of a response, for files and chunks of any size and any
   number of changes of the file and of partial writes. *)
EXTENDS ResponseBody, SequenceTheorems, TLAPS

Copying == pc \in {"loop", "write"}

\* The offset behind what was sent.
Sent == Start + Len(body)

(* Where the loop is in the file. *)
LoopInv ==
    /\ pc \in {"check", "open", "stat"} => body = <<>>
    /\ status = 416 => pc = "done" /\ body = <<>>
    /\ pc = "check" => status = 0
    /\ pc = "check" \/ status = 416 => contentLength = NoField
    /\ Copying => /\ ~(IsRange /\ byteStart = Open)
                  /\ bytesWritten = Sent

(* What was read lies behind what was sent, and directly behind it unless a write
   was cut short. *)
ReadInv ==
    /\ pc = "loop" => Sent <= position /\ (partials = 0 => position = Sent)
    /\ pc = "write" =>
           /\ Sent + Len(chunk) <= position
           /\ partials = 0 =>
                  /\ position = Sent + Len(chunk)
                  /\ \A i \in 1..Len(chunk) : chunk[i] = Sent + i - 1
    /\ partials = 0 => \A i \in 1..Len(body) : body[i] = Start + i - 1

\* A header was sent, for a range that begins in the file.
Announced ==
    /\ contentLength = LengthLine(byteStart, byteEnd, size)
    /\ ~(IsRange /\ byteStart >= size)

(* What was announced, and what there is to send, while the file keeps its size. *)
SizeInv ==
    resizes = 0 =>
        /\ pc # "check" /\ status # 416 => Announced
        /\ Copying => position <= size
        /\ body = <<>> \/ (Start + Len(body) <= size /\ ~(IsRange /\ byteStart = Open))
        /\ Copying /\ named /\ byteEnd \in {Unset, Open} => bytesToWrite = size

IInv == TypeOK /\ LoopInv /\ ReadInv /\ SizeInv /\ BodyIsComplete

-----------------------------------------------------------------------------

(* What the parser hands on. *)
LEMMA RangeFacts ==
    TypeOK => /\ byteStart \in Int /\ byteEnd \in Int
              /\ byteStart = Unset <=> byteEnd = Unset
              /\ byteStart \in {Unset, Open} \/ byteStart >= 0
              /\ byteEnd \in {Unset, Open} \/ byteEnd >= 0
              /\ byteStart = Open => byteEnd >= 0
  BY BodyConstants DEF TypeOK, ParsedRanges, Unset, Open

(* The start of the body is an offset of the file. *)
LEMMA StartFacts ==
    TypeOK => /\ Start \in Nat
              /\ ~(IsRange /\ byteStart = Open)
                    => Start = IF IsRange THEN byteStart ELSE 0
  BY RangeFacts DEF Start, IsRange, Unset, Open

(* What a Content-Length is made of. *)
LEMMA LengthTypes ==
    /\ NoField.values \in Seq(Int)
    /\ \A n \in Int : Wrap(n) \in Int
    /\ \A n, room : ContentLength(n, room).values = <<n>>
<1>1. NoField.values \in Seq(Int)
  BY DEF NoField
<1>2. ASSUME NEW n \in Int PROVE Wrap(n) \in Int
  <2>1. IntMax \in Nat
    BY IntIsWide
  <2>2. (n + IntMax + 1) % (2 * IntMax + 2) \in Int
    BY <2>1
  <2> QED
    BY <2>1, <2>2 DEF Wrap
<1>3. \A n, room : ContentLength(n, room).values = <<n>>
  BY DEF ContentLength, Field
<1> QED
  BY <1>1, <1>2, <1>3

(* A number that an int can hold does not wrap. *)
LEMMA NoWrap == \A n \in 0..IntMax : Wrap(n) = n
<1>1. IntMax \in Nat
  BY IntIsWide
<1> SUFFICES ASSUME NEW n \in 0..IntMax PROVE Wrap(n) = n
  OBVIOUS
<1>2. \A a \in Nat, b \in Nat : a < b => a % b = a
  OBVIOUS
<1>3. n + IntMax + 1 \in Nat /\ 2 * IntMax + 2 \in Nat /\ n + IntMax + 1 < 2 * IntMax + 2
  BY <1>1
<1>4. (n + IntMax + 1) % (2 * IntMax + 2) = n + IntMax + 1
  BY <1>2, <1>3
<1> QED
  BY <1>1, <1>4 DEF Wrap

(* The number that was announced, where it is whole. *)
LEMMA AnnouncedNumber ==
    ASSUME TypeOK, Announced, LengthIsWhole
    PROVE  contentLength.values = <<IF IsRange THEN size - byteStart ELSE size>>
<1>1. size \in Nat /\ byteStart \in Int
  BY RangeFacts, BodyConstants DEF TypeOK
<1>2. CASE IsRange
  <2>1. size - byteStart \in 0..IntMax
    BY <1>1, <1>2, IntIsWide DEF Announced, LengthIsWhole
  <2>2. Wrap(size - byteStart) = size - byteStart
    BY <2>1, NoWrap
  <2>3. contentLength = ContentLength(Wrap(size - byteStart), SizeofInt)
    BY <1>2 DEF Announced, LengthLine, IsRange
  <2> QED
    BY <1>2, <2>2, <2>3, LengthTypes
<1>3. CASE ~IsRange
  <2>1. contentLength = ContentLength(size, SizeofLongLong)
    BY <1>3 DEF Announced, LengthLine, IsRange
  <2> QED
    BY <1>3, <2>1, LengthTypes
<1> QED
  BY <1>2, <1>3

(* A chunk comes from the position on and ends with the file. *)
LEMMA ChunkFacts ==
    ASSUME TypeOK
    PROVE  /\ NextChunk \in Seq(Nat) /\ Len(NextChunk) <= Chunk
           /\ position + Len(NextChunk) <= size \/ Len(NextChunk) = 0
           /\ \A i \in 1..Len(NextChunk) : NextChunk[i] = position + i - 1
<1> DEFINE n == IF position + Chunk <= size THEN Chunk
                ELSE IF position < size THEN size - position ELSE 0
<1>1. n \in Nat /\ n <= Chunk /\ (position + n <= size \/ n = 0) /\ position \in Nat
  BY BodyConstants DEF TypeOK
<1>2. NextChunk = [i \in 1..n |-> position + i - 1]
  BY DEF NextChunk
<1> HIDE DEF n
<1>3. NextChunk \in Seq(Nat) /\ Len(NextChunk) = n
  BY <1>1, <1>2
<1> QED
  BY <1>1, <1>2, <1>3

(* Every variable keeps its type. *)
LEMMA TypeStep == TypeOK /\ LoopInv /\ [Next]_vars => TypeOK'
<1> SUFFICES ASSUME TypeOK, LoopInv, [Next]_vars PROVE TypeOK'
  OBVIOUS
<1> USE BodyConstants DEF TypeOK, Step, loopVars
<1>1. CASE NotSatisfiable
  BY <1>1 DEF NotSatisfiable
<1>2. CASE SendHeader
  <2>1. size \in Int /\ size - byteStart \in Int
    BY RangeFacts
  <2>2. contentLength' = LengthLine(byteStart, byteEnd, size)
    BY <1>2 DEF SendHeader
  <2>3. contentLength'.values \in Seq(Int)
    <3> HIDE DEF TypeOK
    <3>1. \A n \in Int : <<n>> \in Seq(Int)
      OBVIOUS
    <3>2. \/ contentLength'.values = <<Wrap(size - byteStart)>>
          \/ contentLength'.values = <<size>>
      BY <2>2, LengthTypes, Zenon DEF LengthLine
    <3>3. Wrap(size - byteStart) \in Int
      BY <2>1, LengthTypes
    <3> QED
      BY <2>1, <3>1, <3>2, <3>3, Zenon
  <2> QED
    BY <1>2, <2>3 DEF SendHeader
<1>3. CASE OpenFile \/ OpenFails \/ SeekFails \/ ReadFails \/ WriteFails \/ BodyDone
  <2>1. /\ pc' \in {"stat", "done", "failed"}
        /\ UNCHANGED <<byteStart, byteEnd, size, named, status, contentLength,
                       bytesWritten, bytesToWrite, position, chunk, body, resizes,
                       partials>>
    <3> HIDE DEF TypeOK
    <3>1. CASE OpenFile \/ OpenFails \/ WriteFails
      BY <3>1 DEF OpenFile, OpenFails, WriteFails
    <3>2. CASE SeekFails \/ ReadFails \/ BodyDone
      BY <3>2 DEF SeekFails, ReadFails, BodyDone
    <3> QED
      BY <1>3, <3>1, <3>2
  <2> QED
    BY <2>1
<1>4. CASE Seek
  <2>1. bytesWritten' \in Nat /\ position' \in Nat
    BY <1>4, RangeFacts DEF Seek, IsRange, Unset, Open
  <2>2. bytesToWrite' \in Nat
    <3>1. (byteEnd \notin {Unset, Open} => byteEnd \in Nat) /\ size \in Nat
      BY RangeFacts
    <3>2. \/ bytesToWrite' = size
          \/ bytesToWrite' \in Sizes \cup Bounds
          \/ bytesToWrite' = byteEnd /\ byteEnd \notin {Unset, Open}
      <4> HIDE DEF TypeOK
      <4>1. \/ IsRange /\ byteEnd # Open /\ bytesToWrite' = byteEnd
            \/ bytesToWrite' = size
            \/ bytesToWrite' \in Sizes \cup Bounds
        BY <1>4, Zenon DEF Seek
      <4> QED
        BY <4>1 DEF IsRange
    <3> HIDE DEF TypeOK
    <3>3. Sizes \cup Bounds \subseteq Nat
      BY BodyConstants
    <3> QED
      BY <3>1, <3>2, <3>3, Zenon
  <2> QED
    BY <1>4, <2>1, <2>2 DEF Seek
<1>5. CASE Read
  <2>1. chunk' = NextChunk /\ position' = position + Len(NextChunk)
    BY <1>5 DEF Read
  <2>2. chunk' \in Seq(Nat) /\ Len(chunk') <= Chunk /\ position' \in Nat
    BY <2>1, ChunkFacts
  <2> QED
    BY <1>5, <2>2 DEF Read
<1>6. CASE Write
  <2>1. body' = body \o chunk /\ bytesWritten' = bytesWritten + Len(chunk)
    BY <1>6 DEF Write
  <2>2. body' \in Seq(Nat) /\ bytesWritten' \in Nat
    BY <2>1
  <2> QED
    BY <1>6, <2>2 DEF Write
<1>7. CASE WritePartially
  <2>1. PICK n \in 1..Len(chunk) - 1 : /\ body' = body \o SubSeq(chunk, 1, n)
                                       /\ bytesWritten' = bytesWritten + n
    BY <1>7 DEF WritePartially
  <2>2. SubSeq(chunk, 1, n) \in Seq(Nat) /\ Len(chunk) \in Nat
    BY <2>1, LenProperties, ElementOfSeq, SubSeqProperties
  <2>3. body' \in Seq(Nat)
    BY <2>1, <2>2, ConcatProperties
  <2>4. bytesWritten' \in Nat /\ partials' \in 0..MaxPartial
    BY <1>7, <2>1, <2>2 DEF WritePartially
  <2> QED
    BY <1>7, <2>3, <2>4 DEF WritePartially
<1>8. CASE Resize \/ Remove
  <2>1. /\ UNCHANGED <<pc, byteStart, byteEnd, status, contentLength, bytesWritten,
                       bytesToWrite, position, chunk, body, partials>>
        /\ named' \in {named, FALSE}
    BY <1>8 DEF Resize, Remove
  <2>2. size' \in Sizes /\ resizes' \in 0..MaxResizes
    <3>1. \/ resizes < MaxResizes /\ resizes' = resizes + 1 /\ size' \in Sizes
          \/ UNCHANGED <<size, resizes>>
      BY <1>8 DEF Resize, Remove
    <3>2. resizes \in Nat /\ resizes <= MaxResizes /\ size \in Sizes
      OBVIOUS
    <3> QED
      BY <3>1, <3>2
  <2>3. named' \in BOOLEAN
    BY <2>1
  <2> QED
    BY <2>1, <2>2, <2>3
<1>9. CASE UNCHANGED vars
  BY <1>9 DEF vars
<1> QED
  BY <1>1, <1>2, <1>3, <1>4, <1>5, <1>6, <1>7, <1>8, <1>9 DEF Next, Respond

(* bytesWritten is the offset behind what was sent, in whole and in partial writes. *)
LEMMA LoopStep == TypeOK /\ LoopInv /\ [Next]_vars => LoopInv'
<1> SUFFICES ASSUME TypeOK, LoopInv, [Next]_vars PROVE LoopInv'
  OBVIOUS
<1>e. Len(<<>>) = 0
  BY EmptySeq
<1>s. Start \in Nat /\ (byteStart' = byteStart /\ byteEnd' = byteEnd => Start' = Start /\ (IsRange <=> IsRange'))
  BY StartFacts DEF Start, IsRange
<1>t. Len(body) \in Nat /\ body \in Seq(Nat) /\ chunk \in Seq(Nat) /\ Len(chunk) \in Nat
  BY DEF TypeOK
<1> USE DEF Step, loopVars, LoopInv, Copying, Sent
<1>1. CASE NotSatisfiable
  BY <1>1 DEF NotSatisfiable
<1>2. CASE SendHeader
  BY <1>2 DEF SendHeader
<1>3. CASE OpenFile \/ OpenFails \/ SeekFails \/ ReadFails \/ WriteFails \/ BodyDone
  BY <1>3 DEF OpenFile, OpenFails, SeekFails, ReadFails, WriteFails, BodyDone
<1>4. CASE Seek
  <2>1. /\ pc = "stat" /\ pc' = "loop" /\ ~(IsRange /\ byteStart = Open)
        /\ bytesWritten' = (IF IsRange THEN byteStart ELSE 0) /\ body' = body
        /\ UNCHANGED <<byteStart, byteEnd, status, contentLength>>
    BY <1>4 DEF Seek
  <2>2. bytesWritten' = Start /\ body = <<>>
    BY <2>1, StartFacts
  <2>3. Sent' = Start
    BY <1>e, <1>s, <2>1, <2>2
  <2> QED
    BY <1>s, <2>1, <2>2, <2>3
<1>5. CASE Read
  BY <1>5, <1>s DEF Read
<1>6. CASE Write
  <2>1. /\ pc = "write" /\ pc' = "loop" /\ body' = body \o chunk
        /\ bytesWritten' = bytesWritten + Len(chunk)
        /\ UNCHANGED <<byteStart, byteEnd, status, contentLength>>
    BY <1>6 DEF Write
  <2>2. Len(body') = Len(body) + Len(chunk)
    BY <1>t, <2>1, ConcatProperties
  <2> QED
    BY <1>s, <1>t, <2>1, <2>2
<1>7. CASE WritePartially
  <2>1. PICK n \in 1..Len(chunk) - 1 : /\ body' = body \o SubSeq(chunk, 1, n)
                                       /\ bytesWritten' = bytesWritten + n
    BY <1>7 DEF WritePartially
  <2>2. SubSeq(chunk, 1, n) \in Seq(Nat) /\ Len(SubSeq(chunk, 1, n)) = n /\ n \in Nat
    <3>1. n \in 1..Len(chunk) /\ \A i \in 1..n : chunk[i] \in Nat
      BY <1>t, <2>1, ElementOfSeq
    <3> QED
      BY <3>1, SubSeqProperties
  <2>3. Len(body') = Len(body) + n
    BY <1>t, <2>1, <2>2, ConcatProperties
  <2>4. /\ pc = "write" /\ pc' = "loop" /\ bytesWritten' = bytesWritten + n
        /\ UNCHANGED <<byteStart, byteEnd, status, contentLength>>
    BY <1>7, <2>1 DEF WritePartially
  <2>5. Sent' = Sent + n
    BY <1>s, <1>t, <2>2, <2>3, <2>4
  <2> QED
    BY <1>s, <2>4, <2>5
<1>8. CASE Resize \/ Remove \/ UNCHANGED vars
  BY <1>8, <1>s DEF Resize, Remove, vars
<1> QED
  BY <1>1, <1>2, <1>3, <1>4, <1>5, <1>6, <1>7, <1>8 DEF Next, Respond

-----------------------------------------------------------------------------

(* The range does not change. *)
LEMMA SameStart == TypeOK /\ [Next]_vars => Start' = Start /\ (IsRange' <=> IsRange)
<1> SUFFICES ASSUME [Next]_vars PROVE byteStart' = byteStart /\ byteEnd' = byteEnd
  BY DEF Start, IsRange
<1>1. CASE Respond
  BY <1>1, Zenon DEF Respond, NotSatisfiable, SendHeader, OpenFile, Seek, SeekFails,
                     Read, Write, BodyDone, Step
<1>2. CASE OpenFails \/ ReadFails \/ WritePartially \/ WriteFails
  BY <1>2, Zenon DEF OpenFails, ReadFails, WritePartially, WriteFails, Step
<1>3. CASE Resize \/ Remove \/ UNCHANGED vars
  BY <1>3 DEF Resize, Remove, vars
<1> QED
  BY <1>1, <1>2, <1>3 DEF Next

(* The steps that leave the loop, or come before it, send nothing. *)
QuietStep == NotSatisfiable \/ SendHeader \/ OpenFile \/ OpenFails \/ SeekFails
             \/ ReadFails \/ WriteFails \/ BodyDone

LEMMA QuietFacts ==
    QuietStep => /\ pc' \in {"done", "open", "stat", "failed"}
                 /\ UNCHANGED <<size, named, resizes, partials, body, position, chunk>>
                 /\ pc # "check" => UNCHANGED <<status, contentLength>>
<1>1. CASE NotSatisfiable \/ SendHeader
  BY <1>1 DEF NotSatisfiable, SendHeader, Step, loopVars
<1>2. CASE OpenFile \/ OpenFails \/ WriteFails
  BY <1>2 DEF OpenFile, OpenFails, WriteFails, Step, loopVars
<1>3. CASE SeekFails \/ ReadFails \/ BodyDone
  BY <1>3 DEF SeekFails, ReadFails, BodyDone, Step, loopVars
<1> QED
  BY <1>1, <1>2, <1>3 DEF QuietStep

(* What a write, whole or partial, adds to the body: the first n bytes of the chunk. *)
LEMMA WriteFacts ==
    TypeOK /\ (Write \/ WritePartially) =>
        \E n \in 0..Len(chunk) :
            /\ pc = "write" /\ pc' = "loop"
            /\ body' \in Seq(Nat) /\ Len(body') = Len(body) + n
            /\ \A i \in 1..Len(body') :
                   body'[i] = IF i <= Len(body) THEN body[i] ELSE chunk[i - Len(body)]
            /\ partials' = 0 => n = Len(chunk) /\ partials = 0
            /\ UNCHANGED <<position, chunk, size, named, resizes, status, contentLength,
                           bytesToWrite>>
<1> SUFFICES ASSUME TypeOK, Write \/ WritePartially
             PROVE  \E n \in 0..Len(chunk) :
                        /\ pc = "write" /\ pc' = "loop"
                        /\ body' \in Seq(Nat) /\ Len(body') = Len(body) + n
                        /\ \A i \in 1..Len(body') :
                               body'[i] = IF i <= Len(body) THEN body[i]
                                          ELSE chunk[i - Len(body)]
                        /\ partials' = 0 => n = Len(chunk) /\ partials = 0
                        /\ UNCHANGED <<position, chunk, size, named, resizes, status,
                                       contentLength, bytesToWrite>>
  OBVIOUS
<1>1. body \in Seq(Nat) /\ chunk \in Seq(Nat) /\ Len(body) \in Nat /\ Len(chunk) \in Nat
      /\ partials \in Nat
  BY DEF TypeOK
<1>2. /\ pc = "write" /\ pc' = "loop"
      /\ UNCHANGED <<position, chunk, size, named, resizes, status, contentLength,
                     bytesToWrite>>
  BY DEF Write, WritePartially, Step
<1>3. CASE Write
  <2>1. body' = body \o chunk /\ partials' = partials
    BY <1>3 DEF Write
  <2>2. /\ body' \in Seq(Nat) /\ Len(body') = Len(body) + Len(chunk)
        /\ \A i \in 1..Len(body') :
               body'[i] = IF i <= Len(body) THEN body[i] ELSE chunk[i - Len(body)]
    BY <1>1, <2>1, ConcatProperties
  <2>3. Len(chunk) \in 0..Len(chunk)
    BY <1>1
  <2> QED
    BY <1>2, <2>1, <2>2, <2>3
<1>4. CASE WritePartially
  <2>1. PICK n \in 1..Len(chunk) - 1 : body' = body \o SubSeq(chunk, 1, n)
    BY <1>4 DEF WritePartially
  <2>2. partials' = partials + 1
    BY <1>4 DEF WritePartially
  <2>3. n \in 1..Len(chunk) /\ \A i \in 1..n : chunk[i] \in Nat
    BY <1>1, <2>1, ElementOfSeq
  <2>4. /\ SubSeq(chunk, 1, n) \in Seq(Nat) /\ Len(SubSeq(chunk, 1, n)) = n
        /\ \A i \in 1..n : SubSeq(chunk, 1, n)[i] = chunk[i]
    BY <2>3, SubSeqProperties
  <2> DEFINE part == SubSeq(chunk, 1, n)
  <2> HIDE DEF part
  <2>5. /\ part \in Seq(Nat) /\ Len(part) = n /\ \A i \in 1..n : part[i] = chunk[i]
        /\ body' = body \o part
    BY <2>1, <2>4 DEF part
  <2>6. /\ body' \in Seq(Nat) /\ Len(body') = Len(body) + n
        /\ \A i \in 1..Len(body) + n :
               body'[i] = IF i <= Len(body) THEN body[i] ELSE part[i - Len(body)]
    <3> DEFINE whole == body \o part
    <3>1. /\ whole \in Seq(Nat) /\ Len(whole) = Len(body) + Len(part)
          /\ \A i \in 1..Len(body) + Len(part) :
                 whole[i] = IF i <= Len(body) THEN body[i] ELSE part[i - Len(body)]
      BY <1>1, <2>5, ConcatProperties
    <3>2. body' = whole
      BY <2>5
    <3> HIDE DEF whole
    <3> QED
      BY <2>5, <3>1, <3>2
  <2>7. \A i \in 1..Len(body') :
           body'[i] = IF i <= Len(body) THEN body[i] ELSE chunk[i - Len(body)]
    <3>1. \A i \in 1..Len(body') : i <= Len(body) \/ i - Len(body) \in 1..n
      BY <1>1, <2>3, <2>6
    <3> QED
      BY <2>5, <2>6, <3>1
  <2>8. n \in 0..Len(chunk) /\ partials' # 0
    BY <1>1, <2>2, <2>3
  <2> QED
    BY <1>2, <2>6, <2>7, <2>8
<1> QED
  BY <1>3, <1>4

(* What is sent comes from the file in order. *)
LEMMA ReadStep == TypeOK /\ LoopInv /\ ReadInv /\ [Next]_vars => ReadInv'
<1> SUFFICES ASSUME TypeOK, LoopInv, ReadInv, [Next]_vars PROVE ReadInv'
  OBVIOUS
<1>s. Start' = Start /\ Start \in Nat
  BY SameStart, StartFacts
<1>t. Len(body) \in Nat /\ Len(chunk) \in Nat /\ position \in Nat
  BY DEF TypeOK
<1>1. CASE QuietStep
  BY <1>1, <1>s, QuietFacts DEF ReadInv
<1>2. CASE Seek
  <2>1. /\ pc' = "loop" /\ body' = body /\ body = <<>> /\ partials' = partials
        /\ position' = Start
    BY <1>2, StartFacts DEF Seek, Step, LoopInv
  <2>2. Sent' = Start
    BY <1>s, <2>1, EmptySeq DEF Sent
  <2> QED
    BY <1>s, <2>1, <2>2, EmptySeq DEF ReadInv
<1>3. CASE Read
  <2>1. /\ pc = "loop" /\ pc' = "write" /\ chunk' = NextChunk
        /\ position' = position + Len(NextChunk)
        /\ body' = body /\ partials' = partials
    BY <1>3 DEF Read, Step
  <2>2. /\ Len(NextChunk) \in Nat
        /\ \A i \in 1..Len(NextChunk) : NextChunk[i] = position + i - 1
    BY ChunkFacts
  <2>3. Sent' = Sent /\ Sent \in Nat
    BY <1>s, <1>t, <2>1 DEF Sent
  <2>4. Sent <= position /\ (partials = 0 => position = Sent)
    BY <2>1 DEF ReadInv
  <2>5. Sent' + Len(chunk') <= position'
    BY <1>t, <2>1, <2>2, <2>3, <2>4
  <2>6. partials' = 0 => /\ position' = Sent' + Len(chunk')
                         /\ \A i \in 1..Len(chunk') : chunk'[i] = Sent' + i - 1
    BY <1>t, <2>1, <2>2, <2>3, <2>4
  <2> QED
    BY <1>s, <2>1, <2>5, <2>6 DEF ReadInv
<1>4. CASE Write \/ WritePartially
  <2>1. PICK n \in 0..Len(chunk) :
            /\ pc = "write" /\ pc' = "loop"
            /\ Len(body') = Len(body) + n
            /\ \A i \in 1..Len(body') :
                   body'[i] = IF i <= Len(body) THEN body[i] ELSE chunk[i - Len(body)]
            /\ partials' = 0 => n = Len(chunk) /\ partials = 0
            /\ position' = position
    BY <1>4, WriteFacts
  <2>2. Sent' = Sent + n /\ Sent = Start + Len(body) /\ Sent \in Nat
    BY <1>s, <1>t, <2>1 DEF Sent
  <2>3. Sent' <= position' /\ (partials' = 0 => position' = Sent')
    BY <1>t, <2>1, <2>2 DEF ReadInv
  <2>4. ASSUME partials' = 0, NEW i \in 1..Len(body')
        PROVE  body'[i] = Start' + i - 1
    <3>1. CASE i <= Len(body)
      BY <1>s, <1>t, <2>1, <2>4, <3>1 DEF ReadInv
    <3>2. CASE i > Len(body)
      <4>1. i - Len(body) \in 1..Len(chunk) /\ ~(i <= Len(body))
        BY <1>t, <2>1, <2>4, <3>2
      <4>2. chunk[i - Len(body)] = Sent + (i - Len(body)) - 1
        BY <2>1, <2>4, <4>1 DEF ReadInv
      <4> QED
        BY <1>s, <1>t, <2>1, <2>2, <4>1, <4>2
    <3> QED
      BY <1>t, <2>1, <3>1, <3>2
  <2> QED
    BY <2>1, <2>3, <2>4 DEF ReadInv
<1>5. CASE Resize \/ Remove \/ UNCHANGED vars
  <2>1. UNCHANGED <<pc, partials, position, chunk, body>>
    BY <1>5 DEF Resize, Remove, vars, loopVars
  <2> QED
    BY <1>s, <2>1 DEF ReadInv, Sent
<1> QED
  BY <1>1, <1>2, <1>3, <1>4, <1>5 DEF Next, Respond, QuietStep

(* The loop does not read behind what was announced, as long as the file keeps its
   size. *)
LEMMA SizeStep ==
    TypeOK /\ LoopInv /\ ReadInv /\ SizeInv /\ [Next]_vars => SizeInv'
<1> SUFFICES ASSUME TypeOK, LoopInv, ReadInv, SizeInv, [Next]_vars, resizes' = 0
             PROVE  SizeInv'
  BY DEF SizeInv
<1>s. /\ Start' = Start /\ (IsRange' <=> IsRange) /\ Start \in Nat
      /\ ~(IsRange /\ byteStart = Open) => Start = IF IsRange THEN byteStart ELSE 0
  BY SameStart, StartFacts
<1>t. /\ Len(body) \in Nat /\ Len(chunk) \in Nat /\ position \in Nat /\ size \in Nat
      /\ byteStart \in Int
  BY RangeFacts, BodyConstants DEF TypeOK
<1>1. CASE QuietStep /\ pc # "check"
  <2>1. /\ pc' \in {"done", "open", "stat", "failed"}
        /\ UNCHANGED <<size, named, resizes, body, status, contentLength>>
    BY <1>1, QuietFacts
  <2>2. byteStart' = byteStart /\ byteEnd' = byteEnd
    BY <1>1, Zenon DEF QuietStep, NotSatisfiable, SendHeader, OpenFile, OpenFails,
                       SeekFails, ReadFails, WriteFails, BodyDone, Step
  <2> QED
    BY <1>1, <1>s, <2>1, <2>2 DEF SizeInv, Copying, Announced, LengthLine
<1>2. CASE NotSatisfiable
  <2>1. pc = "check" /\ pc' = "done" /\ status' = 416
        /\ UNCHANGED <<contentLength, body>>
    BY <1>2 DEF NotSatisfiable, Step, loopVars
  <2> QED
    BY <2>1, EmptySeq DEF SizeInv, LoopInv, Copying
<1>3. CASE SendHeader
  <2>1. /\ pc = "check" /\ pc' = "open" /\ ~(IsRange /\ byteStart >= size)
        /\ contentLength' = LengthLine(byteStart, byteEnd, size)
        /\ UNCHANGED <<byteStart, byteEnd, size, body>>
    BY <1>3 DEF SendHeader, Step, loopVars
  <2>2. body' = <<>>
    BY <2>1 DEF LoopInv
  <2>3. Announced'
    BY <1>s, <2>1 DEF Announced, LengthLine
  <2> QED
    BY <1>s, <2>1, <2>2, <2>3 DEF SizeInv, Copying
<1>4. CASE Seek
  <2>1. /\ pc = "stat" /\ pc' = "loop" /\ ~(IsRange /\ byteStart = Open)
        /\ position' = (IF IsRange THEN byteStart ELSE 0)
        /\ UNCHANGED <<byteStart, byteEnd, size, named, resizes, status, contentLength,
                       body>>
    BY <1>4 DEF Seek, Step
  <2>2. Announced /\ body = <<>>
    BY <2>1 DEF SizeInv, LoopInv
  <2>3. position' <= size
    BY <1>t, <2>1, <2>2 DEF Announced
  <2>4. named /\ byteEnd \in {Unset, Open} => bytesToWrite' = size
    BY <1>4 DEF Seek, IsRange
  <2>5. Announced'
    BY <1>s, <2>1, <2>2 DEF Announced, LengthLine
  <2> QED
    BY <2>1, <2>2, <2>3, <2>4, <2>5 DEF SizeInv, Copying
<1>5. CASE Read
  <2>1. /\ pc = "loop" /\ pc' = "write" /\ position' = position + Len(NextChunk)
        /\ UNCHANGED <<byteStart, byteEnd, size, named, resizes, status, contentLength,
                       bytesToWrite, body>>
    BY <1>5 DEF Read, Step
  <2>2. position' <= size
    BY <1>t, <2>1, ChunkFacts DEF SizeInv, Copying
  <2>3. Announced' <=> Announced
    BY <1>s, <2>1 DEF Announced, LengthLine
  <2> QED
    BY <1>s, <2>1, <2>2, <2>3 DEF SizeInv, Copying
<1>6. CASE Write \/ WritePartially
  <2>1. PICK n \in 0..Len(chunk) :
            /\ pc = "write" /\ pc' = "loop" /\ Len(body') = Len(body) + n
            /\ UNCHANGED <<position, size, named, resizes, status, contentLength,
                           bytesToWrite>>
    BY <1>6, WriteFacts
  <2>2. byteStart' = byteStart /\ byteEnd' = byteEnd
    BY <1>6, Zenon DEF Write, WritePartially, Step
  <2>3. Start + Len(body) + Len(chunk) <= position /\ position <= size
    BY <2>1 DEF ReadInv, SizeInv, Copying, Sent
  <2>4. Start' + Len(body') <= size' /\ ~(IsRange' /\ byteStart' = Open)
    BY <1>s, <1>t, <2>1, <2>2, <2>3 DEF LoopInv, Copying
  <2>5. Announced' <=> Announced
    BY <1>s, <2>1, <2>2 DEF Announced, LengthLine
  <2> QED
    BY <2>1, <2>2, <2>3, <2>4, <2>5 DEF SizeInv, Copying
<1>7. CASE Resize
  BY <1>7 DEF Resize, TypeOK
<1>8. CASE Remove
  <2>1. named' = FALSE
        /\ UNCHANGED <<pc, byteStart, byteEnd, size, status, contentLength, position,
                       body, resizes>>
    BY <1>8 DEF Remove, loopVars
  <2> QED
    BY <1>s, <2>1 DEF SizeInv, Copying, Announced, LengthLine
<1>9. CASE UNCHANGED vars
  BY <1>9 DEF vars, SizeInv, Copying, Start, IsRange, Announced, LengthLine
<1> QED
  <2>1. QuietStep /\ pc = "check" => NotSatisfiable \/ SendHeader
    BY DEF QuietStep, OpenFile, OpenFails, SeekFails, ReadFails, WriteFails, BodyDone,
           Step
  <2> QED
    BY <1>1, <1>2, <1>3, <1>4, <1>5, <1>6, <1>7, <1>8, <1>9, <2>1
    DEF Next, Respond, QuietStep

(* The loop ends behind the last byte that was announced. *)
LEMMA CompleteStep == IInv /\ [Next]_vars => BodyIsComplete'
<1> SUFFICES ASSUME TypeOK, LoopInv, ReadInv, SizeInv, BodyIsComplete, [Next]_vars,
                    pc' = "done", status' # 416, byteEnd' \in {Unset, Open},
                    Undisturbed', LengthIsWhole'
             PROVE  contentLength'.values = <<Len(body')>>
  BY DEF IInv, BodyIsComplete
<1>1. CASE BodyDone
  <2>1. /\ pc = "loop" /\ bytesWritten >= bytesToWrite
        /\ UNCHANGED <<byteStart, byteEnd, size, named, resizes, partials, status,
                       contentLength, body>>
    BY <1>1 DEF BodyDone, Step, loopVars
  <2>2. Undisturbed /\ byteEnd \in {Unset, Open} /\ LengthIsWhole
    BY <2>1 DEF Undisturbed, LengthIsWhole, IsRange
  <2>3. /\ bytesWritten = Sent /\ position = Sent /\ position <= size
        /\ bytesToWrite = size /\ ~(IsRange /\ byteStart = Open)
        /\ Announced
    BY <2>1, <2>2 DEF LoopInv, ReadInv, SizeInv, Copying, Undisturbed
  <2>4. /\ Len(body) \in Nat /\ size \in Nat /\ Start \in Nat /\ byteStart \in Int
        /\ Start = IF IsRange THEN byteStart ELSE 0
    BY <2>3, StartFacts, RangeFacts, BodyConstants DEF TypeOK
  <2>5. Start + Len(body) = size
    BY <2>1, <2>3, <2>4 DEF Sent
  <2>6. contentLength.values = <<size - Start>>
    BY <2>2, <2>3, <2>4, AnnouncedNumber
  <2>7. size - Start = Len(body)
    BY <2>4, <2>5
  <2> QED
    BY <2>1, <2>6, <2>7
<1>2. CASE UNCHANGED vars
  BY <1>2 DEF vars, BodyIsComplete, Undisturbed, LengthIsWhole, IsRange
<1>3. ~NotSatisfiable
  BY DEF NotSatisfiable
<1>4. ~Resize
  <2>1. Resize => resizes' = resizes + 1
    BY DEF Resize
  <2>2. resizes' = 0
    BY DEF Undisturbed
  <2>3. resizes \in Nat
    BY BodyConstants DEF TypeOK
  <2> QED
    BY <2>1, <2>2, <2>3
<1>5. ~Remove
  BY DEF Remove, Undisturbed
<1>6. ~(SendHeader \/ OpenFile \/ OpenFails \/ Seek \/ SeekFails \/ Read \/ ReadFails
        \/ Write \/ WritePartially \/ WriteFails)
  BY DEF SendHeader, OpenFile, OpenFails, Seek, SeekFails, Read, ReadFails, Write,
         WritePartially, WriteFails, Step
<1> QED
  BY <1>1, <1>2, <1>3, <1>4, <1>5, <1>6 DEF Next, Respond

-----------------------------------------------------------------------------

(* It holds initially. *)
LEMMA InvInit == Init => IInv
<1> SUFFICES ASSUME Init PROVE IInv
  OBVIOUS
<1>1. TypeOK
  BY BodyConstants, EmptySeq, LengthTypes DEF Init, TypeOK
<1>2. Len(body) = 0 /\ body = <<>>
  BY EmptySeq DEF Init
<1>3. LoopInv /\ ReadInv /\ SizeInv /\ BodyIsComplete
  BY <1>2 DEF Init, LoopInv, ReadInv, SizeInv, BodyIsComplete, Copying
<1> QED
  BY <1>1, <1>3 DEF IInv

(* It holds in every reachable state. *)
THEOREM Invariance == Spec => []IInv
<1>1. IInv /\ [Next]_vars => IInv'
  BY TypeStep, LoopStep, ReadStep, SizeStep, CompleteStep DEF IInv
<1> QED
  BY InvInit, <1>1, PTL DEF Spec

(* TypeOK for files and chunks of any size. *)
THEOREM TypeCorrect == Spec => []TypeOK
  BY Invariance, PTL DEF IInv

(* The body is a contiguous part of the file from the start of the range on, however
   the file changes under the loop, unless a write was cut short. *)
THEOREM Contiguous == Spec => []BodyIsContiguous
<1>1. IInv => BodyIsContiguous
  <2> SUFFICES ASSUME IInv, partials = 0
               PROVE  body = [i \in 1..Len(body) |-> Start + i - 1]
    BY DEF BodyIsContiguous
  <2>1. \A i \in 1..Len(body) : body[i] = Start + i - 1
    BY DEF IInv, ReadInv
  <2>2. body \in Seq(Nat)
    BY DEF IInv, TypeOK
  <2> QED
    BY <2>1, <2>2, LenProperties
<1> QED
  BY Invariance, <1>1, PTL

(* An undisturbed response has the length its header announces, for a file of any
   size, wherever that number fits into its int and its buffer. *)
THEOREM Complete == Spec => []BodyIsComplete
  BY Invariance, PTL DEF IInv

(* The client never gets more than a whole Content-Length announces while the file
   keeps its size, however writes are cut short. *)
THEOREM NotMoreThanAnnounced == Spec => []NoMoreThanAnnounced
<1>1. IInv => NoMoreThanAnnounced
  <2> SUFFICES ASSUME IInv, resizes = 0, status \in {200, 206}, LengthIsWhole
               PROVE  Len(body) <= contentLength.values[1]
    BY DEF NoMoreThanAnnounced
  <2>1. TypeOK /\ LoopInv /\ SizeInv
    BY DEF IInv
  <2>2. Announced /\ (body = <<>> \/ (/\ Start + Len(body) <= size
                                      /\ ~(IsRange /\ byteStart = Open)))
    BY <2>1 DEF LoopInv, SizeInv
  <2>3. /\ Len(body) \in Nat /\ size \in Nat /\ byteStart \in Int /\ Start \in Nat
        /\ ~(IsRange /\ byteStart = Open) => Start = IF IsRange THEN byteStart ELSE 0
    BY <2>1, StartFacts, RangeFacts, BodyConstants DEF TypeOK
  <2> DEFINE number == IF IsRange THEN size - byteStart ELSE size
  <2>4. Len(body) <= number
    <3>1. CASE body = <<>>
      BY <2>2, <2>3, <3>1, EmptySeq DEF Announced
    <3>2. CASE body # <<>>
      BY <2>2, <2>3, <3>2
    <3> QED
      BY <3>1, <3>2
  <2>5. contentLength.values = <<number>>
    BY <2>1, <2>2, AnnouncedNumber
  <2> HIDE DEF number
  <2> QED
    BY <2>4, <2>5
<1> QED
  BY Invariance, <1>1, PTL
=============================================================================
