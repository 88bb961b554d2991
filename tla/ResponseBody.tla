---------------------------- MODULE ResponseBody ----------------------------
(***************************************************************************)
(* One response with a body (pe/tinyweb/src/tinyweb.c): the checks and the *)
(* header of handle_client() and create_response_header(), and the copy    *)
(* loop of write_response_body(), while the file may change and a signal   *)
(* may cut a write() short.                                                *)
(*                                                                         *)
(* The file's content at offset n is the number n: what the client got is  *)
(* the sequence of the offsets it came from.                               *)
(***************************************************************************)
EXTENDS HeaderNumber, Sequences

CONSTANTS Sizes,       \* what st_size can be
          Bounds,      \* the numbers of Range lines
          Chunk,       \* chunkSize, 256 in the code
          MaxResizes,  \* bound: how often the file changes its size
          MaxPartial   \* bound: how many writes are cut short

ASSUME BodyConstants ==
    /\ Sizes \subseteq Nat /\ Bounds \subseteq Nat /\ Chunk \in Nat \ {0}
    /\ MaxResizes \in Nat /\ MaxPartial \in Nat

VARIABLES
    pc,              \* where the child is
    byteStart, byteEnd,  \* the range the parser found
    size,            \* the current size of the file
    named,           \* does filepath still name it
    status,          \* status code of the response, 0 before it is chosen
    contentLength,   \* the Content-Length of the header, as it is printed
    bytesWritten, bytesToWrite,  \* the loop's variables
    position,        \* the file offset of the descriptor
    chunk,           \* what the last read() put into chunk[]
    body,            \* what the client got
    resizes, partials  \* how often the environment interfered

loopVars == <<bytesWritten, bytesToWrite, position, chunk, body>>
vars == <<pc, byteStart, byteEnd, size, named, status, contentLength, bytesWritten,
          bytesToWrite, position, chunk, body, resizes, partials>>

IsRange == byteStart # Unset /\ byteEnd # Unset

\* What parse_http_header() hands on as OK or PARTIAL_CONTENT.
ParsedRanges ==
    {<<Unset, Unset>>}
        \cup {<<Open, e>> : e \in Bounds \ {0}}
        \cup {<<s, Open>> : s \in Bounds}
        \cup {r \in Bounds \X Bounds : r[1] < r[2]}

TypeOK ==
    /\ pc \in {"check", "open", "stat", "loop", "write", "done", "failed"}
    /\ \E r \in ParsedRanges : byteStart = r[1] /\ byteEnd = r[2]
    /\ size \in Sizes
    /\ named \in BOOLEAN
    /\ status \in {0, 200, 206, 416}
    /\ contentLength.values \in Seq(Int)
    /\ bytesWritten \in Nat /\ bytesToWrite \in Nat /\ position \in Nat
    /\ chunk \in Seq(Nat) /\ Len(chunk) <= Chunk
    /\ body \in Seq(Nat)
    /\ resizes \in 0..MaxResizes /\ partials \in 0..MaxPartial

Init ==
    /\ pc = "check"
    /\ \E r \in ParsedRanges : byteStart = r[1] /\ byteEnd = r[2]
    /\ size \in Sizes
    /\ named = TRUE
    /\ status = 0
    /\ contentLength = NoField
    /\ bytesWritten = 0 /\ bytesToWrite = 0 /\ position = 0
    /\ chunk = <<>>
    /\ body = <<>>
    /\ resizes = 0 /\ partials = 0

Step(from, to) ==
    /\ pc = from
    /\ pc' = to
    /\ UNCHANGED <<byteStart, byteEnd, size, named, resizes>>

-----------------------------------------------------------------------------

\* Mutant of NotSatisfiable: the wrong entry of http_status_list.
NotFound ==
    /\ IsRange /\ byteStart >= size
    /\ Step("check", "done")
    /\ status' = 404
    /\ UNCHANGED <<contentLength, loopVars, partials>>

(* handle_client() after its stat() of the file: 416, or the header with the
   Content-Length of create_response_header(), which goes to the end of the file
   whatever the end of the range. *)
NotSatisfiable ==
    /\ IsRange /\ byteStart >= size
    /\ Step("check", "done")
    /\ status' = 416
    /\ UNCHANGED <<contentLength, loopVars, partials>>

SendHeader ==
    /\ ~(IsRange /\ byteStart >= size)
    /\ Step("check", "open")
    /\ status' = IF IsRange THEN 206 ELSE 200
    /\ contentLength' = LengthLine(byteStart, byteEnd, size)
    /\ UNCHANGED <<loopVars, partials>>

(* write_response_body() *)

OpenFile ==
    /\ named
    /\ Step("open", "stat")
    /\ UNCHANGED <<status, contentLength, loopVars, partials>>

(* The file has been removed since handle_client() looked, or cannot be read. *)
OpenFails ==
    /\ Step("open", "failed")
    /\ UNCHANGED <<status, contentLength, loopVars, partials>>

\* Mutant of Seek: lseek() is not called.
SeekNot ==
    /\ ~(IsRange /\ byteStart = Open)
    /\ Step("stat", "loop")
    /\ bytesWritten' = IF IsRange THEN byteStart ELSE 0
    /\ bytesToWrite' = IF IsRange /\ byteEnd # Open THEN byteEnd ELSE size
    /\ UNCHANGED <<status, contentLength, position, chunk, body, partials>>

\* Mutant of Seek: the last offset is taken for the size of the file.
SeekToLastByte ==
    /\ ~(IsRange /\ byteStart = Open)
    /\ Step("stat", "loop")
    /\ bytesWritten' = IF IsRange THEN byteStart ELSE 0
    /\ position' = IF IsRange THEN byteStart ELSE 0
    /\ bytesToWrite' = IF IsRange /\ byteEnd # Open THEN byteEnd ELSE size - 1
    /\ UNCHANGED <<status, contentLength, chunk, body, partials>>

(* The second stat() and the seek.  If the name is gone by now stat() fails, which
   is not looked at: st_size is whatever was on the stack. *)
Seek ==
    /\ ~(IsRange /\ byteStart = Open)
    /\ Step("stat", "loop")
    /\ bytesWritten' = IF IsRange THEN byteStart ELSE 0
    /\ position' = IF IsRange THEN byteStart ELSE 0
    /\ IF IsRange /\ byteEnd # Open THEN bytesToWrite' = byteEnd
       ELSE IF named THEN bytesToWrite' = size
       ELSE bytesToWrite' \in Sizes \cup Bounds
    /\ UNCHANGED <<status, contentLength, chunk, body, partials>>

(* A start of -1, which stands for "the last byteEnd bytes", is no offset. *)
SeekFails ==
    /\ IsRange /\ byteStart = Open
    /\ Step("stat", "failed")
    /\ UNCHANGED <<status, contentLength, loopVars, partials>>

\* What read() of a whole chunk finds between position and the end of the file.
NextChunk ==
    [i \in 1..(IF position + Chunk <= size THEN Chunk
               ELSE IF position < size THEN size - position ELSE 0)
         |-> position + i - 1]

(* A whole chunk is asked for, whatever is left of the range. *)
Read ==
    /\ bytesWritten < bytesToWrite
    /\ Step("loop", "write")
    /\ chunk' = NextChunk
    /\ position' = position + Len(chunk')
    /\ UNCHANGED <<status, contentLength, bytesWritten, bytesToWrite, body,
                   partials>>

(* read() = -1, of a directory for instance: as a size_t it is not negative, and
   write() refuses so many bytes. *)
ReadFails ==
    /\ bytesWritten < bytesToWrite
    /\ Step("loop", "failed")
    /\ UNCHANGED <<status, contentLength, loopVars, partials>>

\* Mutant of Write: bytesWritten is assigned instead of added to.
WriteAssigns ==
    /\ Step("write", "loop")
    /\ body' = body \o chunk
    /\ bytesWritten' = Len(chunk)
    /\ UNCHANGED <<status, contentLength, bytesToWrite, position, chunk,
                   partials>>

Write ==
    /\ Step("write", "loop")
    /\ body' = body \o chunk
    /\ bytesWritten' = bytesWritten + Len(chunk)
    /\ UNCHANGED <<status, contentLength, bytesToWrite, position, chunk,
                   partials>>

(* A signal ends write() after some of the bytes; the rest of the chunk is not
   written again. *)
WritePartially ==
    /\ partials < MaxPartial
    /\ Step("write", "loop")
    /\ \E n \in 1..Len(chunk) - 1 :
           /\ body' = body \o SubSeq(chunk, 1, n)
           /\ bytesWritten' = bytesWritten + n
    /\ partials' = partials + 1
    /\ UNCHANGED <<status, contentLength, bytesToWrite, position, chunk>>

(* An error, or SIGPIPE. *)
WriteFails ==
    /\ Step("write", "failed")
    /\ UNCHANGED <<status, contentLength, loopVars, partials>>

BodyDone ==
    /\ bytesWritten >= bytesToWrite
    /\ Step("loop", "done")
    /\ UNCHANGED <<status, contentLength, loopVars, partials>>

Resize ==
    /\ resizes < MaxResizes
    /\ resizes' = resizes + 1
    /\ size' \in Sizes \ {size}
    /\ UNCHANGED <<pc, byteStart, byteEnd, named, status, contentLength,
                   loopVars, partials>>

Remove ==
    /\ named
    /\ named' = FALSE
    /\ UNCHANGED <<pc, byteStart, byteEnd, size, status, contentLength, loopVars,
                   resizes, partials>>

Respond == NotSatisfiable \/ SendHeader \/ OpenFile \/ Seek \/ SeekFails \/ Read
           \/ Write \/ BodyDone

Next == Respond \/ OpenFails \/ ReadFails \/ WritePartially \/ WriteFails
        \/ Resize \/ Remove

Spec == Init /\ [][Next]_vars

(* The child is scheduled and its client reads. *)
FairSpec == Spec /\ WF_vars(Respond)

-----------------------------------------------------------------------------

(* Properties *)

Undisturbed == named /\ resizes = 0 /\ partials = 0
Start == IF IsRange /\ byteStart # Open THEN byteStart ELSE 0

(* The body is a contiguous part of the file that begins at the start of the
   range, even if the file grows, shrinks or is removed under the loop; only a
   partial write can leave a hole (write_response_body()). *)
BodyIsContiguous ==
    partials = 0 => body = [i \in 1..Len(body) |-> Start + i - 1]

\* The number in the header is printed to the end, and an int could hold it.
LengthIsWhole ==
    contentLength.cut = 0 /\ (IsRange => size - byteStart <= IntMax)

(* A response that ends normally has the length its header announces, for a whole
   file and for a range up to the end of the file, as long as that number fits into
   its int and its buffer (create_response_header() and write_response_body() take
   the size from two different calls of stat()). *)
BodyIsComplete ==
    pc = "done" /\ status # 416 /\ byteEnd \in {Unset, Open}
            /\ Undisturbed /\ LengthIsWhole
        => contentLength.values = <<Len(body)>>

(* The client never gets more than a whole Content-Length has announced, whatever the
   range, even if the file loses its name and writes are cut short: a chunk is not
   clipped to the range, but the file ends where the announced length does. *)
NoMoreThanAnnounced ==
    resizes = 0 /\ status \in {200, 206} /\ LengthIsWhole
        => Len(body) <= contentLength.values[1]

(* The response comes to an end, unless the file was changed, a write was cut short
   or the range ends behind the file: then the loop would read nothing, and write
   nothing, for ever. *)
ResponseEnds ==
    pc = "check" ~> \/ pc \in {"done", "failed"}
                    \/ ~Undisturbed \/ byteEnd > size

(* What the test library says of a partial response: "Compare the length of the
   response body with the size of the requested range".  Violated for a range with
   both ends: the end is exclusive, and whole chunks are sent. *)
BodyHasSizeOfRange ==
    pc = "done" /\ status = 206 /\ byteEnd < size /\ Undisturbed
        => Len(body) = (IF byteEnd = Open THEN size ELSE byteEnd + 1) - byteStart
=============================================================================
