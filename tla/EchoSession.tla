---------------------------- MODULE EchoSession ----------------------------
(***************************************************************************)
(* The session of a slave_thread() of echod/echod.c: what is read from the *)
(* client is written back, until read_from_socket() returns nothing.  The  *)
(* step "echo" of EchoPool is a run of this module.                        *)
(***************************************************************************)
EXTENDS SocketIO

VARIABLES session,  \* "reading", "writing", "closed", "killed"
          failed    \* history: a write_to_socket() has failed

vars == <<socketVars, session, failed>>

TypeOK ==
    /\ SocketTypeOK
    /\ session \in {"reading", "writing", "closed", "killed"}
    /\ failed \in BOOLEAN

Init ==
    /\ SocketInit
    /\ session = "reading"
    /\ failed = FALSE

-----------------------------------------------------------------------------

StartRead ==
    /\ session = "reading" /\ res = "none"
    /\ Call("read", <<>>)
    /\ UNCHANGED <<session, failed>>

WriteBack ==
    /\ session = "reading" /\ res = "data"
    /\ Call("write", buf)
    /\ session' = "writing"
    /\ UNCHANGED failed

(* bytes_written is not looked at. *)
ReadAgain ==
    /\ session = "writing" /\ res # "none"
    /\ failed' = (failed \/ res # "data")
    /\ Call("read", <<>>)
    /\ session' = "reading"

Close ==
    /\ session = "reading" /\ at = "idle" /\ res \notin {"none", "data"}
    /\ session' = "closed"
    /\ UNCHANGED <<socketVars, failed>>

(* SIGPIPE ends the whole process, see EchoPool. *)
Killed ==
    /\ session = "writing" /\ at = "io" /\ reset
    /\ session' = "killed"
    /\ UNCHANGED <<socketVars, failed>>

Open == session \in {"reading", "writing"}

ThreadNext ==
    \/ StartRead \/ WriteBack \/ ReadAgain \/ Close \/ Killed
    \/ (Open /\ CallNext /\ UNCHANGED <<session, failed>>)

Next ==
    \/ ThreadNext
    \/ (Open /\ SignalNext /\ UNCHANGED <<session, failed>>)
    \/ (PeerNext /\ UNCHANGED <<session, failed>>)

(* A thread that is not asleep runs, and a select() that nothing ends times out;
   nothing is assumed of the client. *)
Spec == Init /\ [][Next]_vars /\ WF_vars(ThreadNext)

-----------------------------------------------------------------------------

(* Properties *)

(* The client gets back what it sent, in order and without repetitions, however
   read() and write() split it and signals interrupt them, and with a hole only
   after a write_to_socket() that failed (the loops of write_to_socket(), and
   bytes_written in slave_thread()). *)
Copied == INSTANCE ByteCopy
              WITH out <- written,
                   lossy <- failed \/ (op = "write" /\ res \in {"timeout", "error"})
CopySpec == Copied!Spec

(* A client that sent all it had and closed its side gets all of it back before the
   session ends, unless a write failed (slave_thread()). *)
EchoedWhenClosed ==
    session = "closed" /\ res = "eof" /\ ~failed =>
        written = [i \in 1..sent |-> i]

\* The thread sleeps in read() or write(), where no timeout ends the sleep.
Blocked == at = "io" /\ ~(IF op = "read" THEN CanRead ELSE CanWrite)

(* A client that does nothing any more does not keep its thread: it ends by a
   timeout, except where the thread is past select() - in a write() that waits for
   space in the send buffer, or in a read() or write() that urgent data has led it
   to (select_socket_fd(), which is called before read() and write() only). *)
SilentClientIsLeft == <>[](~Open \/ Blocked)
=============================================================================
