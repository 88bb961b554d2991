------------------------------ MODULE SocketIO ------------------------------
(***************************************************************************)
(* socket_io.c of libsockets (the copies in echod and in pe/tinyweb are the*)
(* same): read_from_socket() and write_to_socket() with a timeout, on one  *)
(* blocking TCP socket.                                                    *)
(*                                                                         *)
(* The bytes of the peer are 1, 2, 3, ...; "taken" says how many of them   *)
(* read() has returned.  What write() has copied into the send buffer is   *)
(* kept in "written", and the peer has read the first "delivered" of it.   *)
(* The timeout only bounds the sleep in select(): read() and write() sleep *)
(* as long as the peer lets them.                                          *)
(***************************************************************************)
EXTENDS Naturals, Sequences

CONSTANTS BufferSize,  \* the len given to read_from_socket()
          SendSpace,   \* bytes that fit into the send buffer
          MaxBytes,    \* bound: bytes that the peer sends
          MaxSignals   \* bound: signals that interrupt a call

ASSUME SocketConstants ==
    /\ BufferSize \in Nat \ {0} /\ SendSpace \in Nat \ {0}
    /\ MaxBytes \in Nat /\ MaxSignals \in Nat

VARIABLES
    at,        \* where the call is: "idle", "select", "io" (read() or write())
    op,        \* the function called, "read" or "write"
    buf,       \* what was read, or what is left to write
    copied,    \* how much of buf the current write() has copied
    res,       \* what the last call returned
    sent, eof, reset, urgent,  \* the peer: bytes sent, FIN, RST, urgent data
    taken, written, delivered,
    signals

callVars == <<at, op, buf, copied, res>>
peerVars == <<sent, eof, reset, urgent>>
streamVars == <<taken, written, delivered>>
socketVars == <<callVars, peerVars, streamVars, signals>>

SocketTypeOK ==
    /\ at \in {"idle", "select", "io"} /\ op \in {"read", "write"}
    /\ buf \in Seq(1..sent) /\ Len(buf) <= BufferSize
    /\ copied \in 0..Len(buf)
    /\ res \in {"none", "data", "eof", "timeout", "error"}
    /\ sent \in 0..MaxBytes /\ {eof, reset, urgent} \subseteq BOOLEAN
    /\ taken \in 0..sent
    /\ written \in Seq(1..sent) /\ delivered \in 0..Len(written)
    /\ signals \in 0..MaxSignals

SocketInit ==
    /\ at = "idle" /\ op = "read" /\ buf = <<>> /\ copied = 0 /\ res = "none"
    /\ sent = 0 /\ eof = FALSE /\ reset = FALSE /\ urgent = FALSE
    /\ taken = 0 /\ written = <<>> /\ delivered = 0
    /\ signals = 0

-----------------------------------------------------------------------------

Space == SendSpace - (Len(written) - delivered)

CanRead == taken < sent \/ eof \/ reset
CanWrite == Space > 0 \/ reset

\* The descriptor is in exceptfds too: urgent data wakes either select().
Ready == urgent \/ IF op = "read" THEN CanRead ELSE CanWrite

CallStep(from, to) ==
    /\ at = from
    /\ at' = to
    /\ UNCHANGED <<op, peerVars>>

Return(result) ==
    /\ at' = "idle"
    /\ res' = result
    /\ UNCHANGED <<op, peerVars, signals>>

Call(function, bytes) ==
    /\ at = "idle"
    /\ at' = "select"
    /\ op' = function
    /\ buf' = bytes
    /\ res' = "none"
    /\ copied' = 0
    /\ UNCHANGED <<peerVars, streamVars, signals>>

SelectReady ==
    /\ Ready
    /\ CallStep("select", "io")
    /\ copied' = 0
    /\ UNCHANGED <<buf, res, streamVars, signals>>

\* Mutant of SelectTimesOut: select() is called again after a timeout too.
SelectForEver ==
    /\ at = "select" /\ ~Ready
    /\ UNCHANGED socketVars

(* SOCKET_TIMEOUT, or -1 from write_to_socket(). *)
SelectTimesOut ==
    /\ at = "select" /\ ~Ready
    /\ Return("timeout")
    /\ UNCHANGED <<buf, copied, streamVars>>

(* EINTR: again, with the whole timeout. *)
SelectInterrupted ==
    /\ signals < MaxSignals
    /\ CallStep("select", "select")
    /\ signals' = signals + 1
    /\ UNCHANGED <<buf, copied, res, streamVars>>

\* Mutant of Read: len is not respected.
ReadAll ==
    /\ at = "io" /\ op = "read" /\ taken < sent
    /\ Return("data")
    /\ buf' = [i \in 1..(sent - taken) |-> taken + i]
    /\ taken' = sent
    /\ UNCHANGED <<copied, written, delivered>>

Read ==
    /\ at = "io" /\ op = "read" /\ taken < sent
    /\ Return("data")
    /\ \E n \in 1..BufferSize :
          /\ taken + n <= sent
          /\ buf' = [i \in 1..n |-> taken + i]
          /\ taken' = taken + n
    /\ UNCHANGED <<copied, written, delivered>>

ReadEnds ==
    /\ at = "io" /\ op = "read" /\ taken = sent /\ (eof \/ reset)
    /\ Return(IF reset THEN "error" ELSE "eof")
    /\ UNCHANGED <<buf, copied, streamVars>>

(* A blocking write() sleeps until all of buf is in the send buffer. *)
WriteByte ==
    /\ op = "write" /\ copied < Len(buf) /\ Space > 0 /\ ~reset
    /\ CallStep("io", "io")
    /\ copied' = copied + 1
    /\ written' = Append(written, buf[copied + 1])
    /\ UNCHANGED <<buf, res, taken, delivered, signals>>

WriteReturns ==
    /\ at = "io" /\ op = "write" /\ copied = Len(buf)
    /\ Return("data")
    /\ UNCHANGED <<buf, copied, streamVars>>

(* ECONNRESET *)
WriteFails ==
    /\ at = "io" /\ op = "write" /\ copied < Len(buf) /\ reset
    /\ Return("error")
    /\ UNCHANGED <<buf, copied, streamVars>>

\* Mutant of Interrupted: write() is repeated from the start of the buffer.
InterruptedRewrites ==
    /\ signals < MaxSignals
    /\ ~(IF op = "read" THEN CanRead ELSE CanWrite)
    /\ CallStep("io", "select")
    /\ signals' = signals + 1
    /\ UNCHANGED <<buf, copied, res, streamVars>>

\* Mutant of Interrupted: what write() has written is taken for all of it.
InterruptedReturns ==
    /\ signals < MaxSignals
    /\ ~(IF op = "read" THEN CanRead ELSE CanWrite)
    /\ at = "io" /\ at' = "idle"
    /\ res' = "data"
    /\ signals' = signals + 1
    /\ UNCHANGED <<op, buf, copied, peerVars, streamVars>>

(* EINTR, or the number of bytes written so far, which the outer loop goes on
   from; both select() again. *)
Interrupted ==
    /\ signals < MaxSignals
    /\ copied < Len(buf) \/ op = "read"
    /\ ~(IF op = "read" THEN CanRead ELSE CanWrite)
    /\ CallStep("io", "select")
    /\ signals' = signals + 1
    /\ buf' = SubSeq(buf, copied + 1, Len(buf))
    /\ copied' = 0
    /\ UNCHANGED <<res, streamVars>>

CallNext ==
    \/ SelectReady \/ SelectTimesOut \/ Read \/ ReadEnds
    \/ WriteByte \/ WriteReturns \/ WriteFails

SignalNext == SelectInterrupted \/ Interrupted

-----------------------------------------------------------------------------

(* The peer *)

PeerSends ==
    /\ ~eof /\ ~reset /\ sent < MaxBytes
    /\ sent' = sent + 1
    /\ UNCHANGED <<eof, reset, urgent, delivered>>

PeerShutsDown ==
    /\ ~eof /\ ~reset
    /\ eof' = TRUE
    /\ UNCHANGED <<sent, reset, urgent, delivered>>

PeerResets ==
    /\ ~reset
    /\ reset' = TRUE
    /\ UNCHANGED <<sent, eof, urgent, delivered>>

(* The mark stays until read() has passed it, which is left open. *)
PeerSendsUrgent ==
    /\ ~eof /\ ~reset
    /\ urgent' = ~urgent
    /\ UNCHANGED <<sent, eof, reset, delivered>>

PeerReads ==
    /\ ~reset /\ delivered < Len(written)
    /\ delivered' = delivered + 1
    /\ UNCHANGED peerVars

PeerNext ==
    /\ PeerSends \/ PeerShutsDown \/ PeerResets \/ PeerSendsUrgent \/ PeerReads
    /\ UNCHANGED <<callVars, taken, written, signals>>
=============================================================================
