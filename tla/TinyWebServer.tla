---------------------------- MODULE TinyWebServer ----------------------------
(***************************************************************************)
(* The server process of tinyweb (pe/tinyweb/src/tinyweb.c): main(),       *)
(* create_server_socket(), accept_client() and sig_handler(), with one     *)
(* forked child per connection.                                            *)
(*                                                                         *)
(* The unit of interleaving is the system call.  Main is interrupted by    *)
(* SIGINT and SIGCHLD between any two of its steps; accept() is split into *)
(* the point before the call ("call") and the sleep inside it ("blocked"), *)
(* because a signal means different things at the two: only a SIGINT that  *)
(* finds main asleep makes accept() fail with EINTR (sigaction() installs  *)
(* it without SA_RESTART), while SIGCHLD restarts the call (signal() has   *)
(* BSD semantics under _GNU_SOURCE).                                       *)
(*                                                                         *)
(* What a child does between close(sd) and its exit is handle_client(); it *)
(* is one step here.                                                       *)
(***************************************************************************)
EXTENDS Naturals, FiniteSets, Sequences

CONSTANTS Clients,      \* the clients; each one connects once
          NoClient,     \* the value of nsd when no accept is being processed
          Qlen,         \* the backlog given to listen()
          FdLimit,      \* how many client descriptors main may hold
          MaxForkFail,  \* bound: how many fork() calls fail
          MaxSigint     \* bound: how many SIGINTs are sent

ASSUME ServerConstants ==
    /\ IsFiniteSet(Clients)
    /\ NoClient \notin Clients
    /\ Qlen \in Nat \ {0}
    /\ FdLimit \in Nat \ {0}
    /\ MaxForkFail \in Nat
    /\ MaxSigint \in Nat

VARIABLES
    mpc,             \* where main is
    hpc,             \* "reap" while the SIGCHLD handler runs, else "none"
    sd,              \* does the listening socket exist
    server_running,  \* the flag the SIGINT handler clears
    sigchld,         \* disposition of SIGCHLD: "default" or "handler"
    pending,         \* signals generated for main and not yet delivered
    sigints,         \* how many SIGINTs were sent
    backlog,         \* completed connections that accept() has not returned
    arrived,         \* clients that have connected
    nsd,             \* the client whose descriptor accept() returned last
    fds,             \* clients whose connected socket main holds open
    child,           \* life cycle of the child forked for each client
    childFds,        \* connected sockets each child holds open
    retcode,         \* main's retcode: "success", or the descriptor "nsd"
    exitStatus,      \* "none" until main has exited
    late             \* history: accepts returned while server_running is false

sigVars == <<server_running, sigchld, pending, sigints>>
netVars == <<sd, backlog, arrived>>
childVars == <<child, childFds>>
vars == <<mpc, hpc, sd, server_running, sigchld, pending, sigints, backlog,
          arrived, nsd, fds, child, childFds, retcode, exitStatus, late>>

MainPC == {"socket", "boot", "test", "setup", "call", "blocked", "fork",
           "close", "error", "exited"}
Signals == {"SIGINT", "SIGCHLD"}
ChildState == {"none", "forked", "serving", "zombie", "reaped"}

TypeOK ==
    /\ mpc \in MainPC
    /\ hpc \in {"none", "reap"}
    /\ sd \in BOOLEAN
    /\ server_running \in BOOLEAN
    /\ sigchld \in {"default", "handler"}
    /\ pending \subseteq Signals
    /\ sigints \in 0..MaxSigint
    /\ backlog \in Seq(Clients)
    /\ arrived \subseteq Clients
    /\ nsd \in Clients \cup {NoClient}
    /\ fds \subseteq Clients
    /\ child \in [Clients -> ChildState]
    /\ childFds \in [Clients -> SUBSET Clients]
    /\ retcode \in {"success", "nsd"}
    /\ exitStatus \in {"none", "success", "nsd", "error"}
    /\ late \in Nat

Alive == mpc # "exited"
Zombies == {c \in Clients : child[c] = "zombie"}
Running(c) == child[c] \in {"forked", "serving"}

\* The children that still hold a copy of the listening socket.
ListenCopies == {c \in Clients : child[c] = "forked"}

\* The clients that were accepted but for which fork() failed.
Unforked == {c \in fds : c # nsd}

-----------------------------------------------------------------------------

(* main() after install_signal_handlers(): the first statement modelled is
   create_server_socket().  server_running is still false. *)
Init ==
    /\ mpc = "socket"
    /\ hpc = "none"
    /\ sd = FALSE
    /\ server_running = FALSE
    /\ sigchld = "default"
    /\ pending = {}
    /\ sigints = 0
    /\ backlog = <<>>
    /\ arrived = {}
    /\ nsd = NoClient
    /\ fds = {}
    /\ child = [c \in Clients |-> "none"]
    /\ childFds = [c \in Clients |-> {}]
    /\ retcode = "success"
    /\ exitStatus = "none"
    /\ late = 0

(* Main executes a statement only while no handler runs on top of it. *)
MainStep(from, to) ==
    /\ hpc = "none"
    /\ mpc = from
    /\ mpc' = to
    /\ UNCHANGED hpc

(* socket(), bind() or listen() may fail and leave -1 in socketDescriptor;
   the test that follows looks at retcode, so main goes on either way. *)
CreateSocket ==
    /\ MainStep("socket", "boot")
    /\ sd' \in BOOLEAN
    /\ UNCHANGED <<sigVars, backlog, arrived, nsd, fds, childVars, retcode,
                   exitStatus, late>>

StartRunning ==
    /\ MainStep("boot", "test")
    /\ server_running' = TRUE
    /\ UNCHANGED <<sigchld, pending, sigints, netVars, nsd, fds, childVars,
                   retcode, exitStatus, late>>

\* Mutant of LoopTest: for (;;) instead of while (server_running).
LoopTestAlways ==
    /\ MainStep("test", "setup")
    /\ UNCHANGED <<sigVars, netVars, nsd, fds, childVars, retcode, exitStatus,
                   late>>

LoopTest ==
    /\ server_running
    /\ MainStep("test", "setup")
    /\ UNCHANGED <<sigVars, netVars, nsd, fds, childVars, retcode, exitStatus,
                   late>>

\* Mutant of InstallSigchld: the call to signal() is missing.
InstallNothing ==
    /\ MainStep("setup", "call")
    /\ UNCHANGED <<sigVars, netVars, nsd, fds, childVars, retcode, exitStatus,
                   late>>

\* Mutant of InstallSigchld: signal(SIGCHLD, SIG_IGN).
IgnoreSigchld ==
    /\ MainStep("setup", "call")
    /\ sigchld' = "ignored"
    /\ UNCHANGED <<server_running, pending, sigints, netVars, nsd, fds,
                   childVars, retcode, exitStatus, late>>

InstallSigchld ==
    /\ MainStep("setup", "call")
    /\ sigchld' = "handler"
    /\ UNCHANGED <<server_running, pending, sigints, netVars, nsd, fds,
                   childVars, retcode, exitStatus, late>>

AcceptSleep ==
    /\ sd /\ backlog = <<>> /\ Cardinality(fds) < FdLimit
    /\ MainStep("call", "blocked")
    /\ UNCHANGED <<sigVars, netVars, nsd, fds, childVars, retcode, exitStatus,
                   late>>

AcceptReturns ==
    /\ backlog # <<>>
    /\ \/ MainStep("call", "fork") /\ sd /\ Cardinality(fds) < FdLimit
       \/ MainStep("blocked", "fork")
    /\ nsd' = Head(backlog)
    /\ fds' = fds \cup {Head(backlog)}
    /\ backlog' = Tail(backlog)
    /\ late' = IF server_running THEN late ELSE late + 1
    /\ UNCHANGED <<sigVars, sd, arrived, childVars, retcode, exitStatus>>

(* What accept() reports before it sleeps: EBADF on the descriptor -1, EMFILE, and
   at any time ENFILE, ENOBUFS or ENOMEM. *)
AcceptFails ==
    /\ MainStep("call", "error")
    /\ UNCHANGED <<sigVars, netVars, nsd, fds, childVars, retcode, exitStatus,
                   late>>

(* The child starts with a copy of every descriptor main holds. *)
Fork ==
    /\ MainStep("fork", "close")
    /\ child' = [child EXCEPT ![nsd] = "forked"]
    /\ childFds' = [childFds EXCEPT ![nsd] = fds]
    /\ UNCHANGED <<sigVars, netVars, nsd, fds, retcode, exitStatus, late>>

(* fork() = -1: accept_client() prints an error and returns nsd, which stays
   open. *)
ForkFails ==
    /\ Cardinality(Unforked) < MaxForkFail
    /\ MainStep("fork", "test")
    /\ nsd' = NoClient
    /\ retcode' = "nsd"
    /\ UNCHANGED <<sigVars, netVars, fds, childVars, exitStatus, late>>

\* Mutant of CloseNsd: the parent forgets to close its copy.
KeepNsd ==
    /\ MainStep("close", "test")
    /\ nsd' = NoClient
    /\ retcode' = "nsd"
    /\ UNCHANGED <<sigVars, netVars, fds, childVars, exitStatus, late>>

CloseNsd ==
    /\ MainStep("close", "test")
    /\ fds' = fds \ {nsd}
    /\ nsd' = NoClient
    /\ retcode' = "nsd"
    /\ UNCHANGED <<sigVars, netVars, childVars, exitStatus, late>>

(* The kernel closes main's descriptors; init adopts and reaps its zombies.
   The backlog goes with the last copy of the listening socket. *)
Terminate(status) ==
    /\ exitStatus' = status
    /\ fds' = {}
    /\ nsd' = NoClient
    /\ pending' = {}
    /\ child' = [c \in Clients |->
                    IF child[c] = "zombie" THEN "reaped" ELSE child[c]]
    /\ backlog' = IF ListenCopies = {} THEN <<>> ELSE backlog
    /\ UNCHANGED <<server_running, sigchld, sigints, sd, arrived, childFds,
                   retcode, late>>

\* Mutant of ExitOnError: the error is reported and the loop goes on.
IgnoreError ==
    /\ MainStep("error", "test")
    /\ UNCHANGED <<sigVars, netVars, nsd, fds, childVars, retcode, exitStatus,
                   late>>

GoodBye ==
    /\ ~server_running
    /\ MainStep("test", "exited")
    /\ Terminate(retcode)

ExitOnError ==
    /\ MainStep("error", "exited")
    /\ Terminate("error")

-----------------------------------------------------------------------------

(* sig_handler() *)

(* SIGINT interrupts main, or the SIGCHLD handler running on top of it.  Only
   a main asleep in accept() has a system call to abort: EINTR, return -1,
   exit(-1).  With a connection waiting accept() returns that first. *)
HandleSigint ==
    /\ Alive /\ "SIGINT" \in pending
    /\ mpc = "blocked" => backlog = <<>>
    /\ pending' = pending \ {"SIGINT"}
    /\ server_running' = FALSE
    /\ mpc' = IF mpc = "blocked" THEN "error" ELSE mpc
    /\ UNCHANGED <<hpc, sigchld, sigints, netVars, nsd, fds, childVars,
                   retcode, exitStatus, late>>

(* SIGCHLD is masked while its own handler runs.  An accept() it interrupts
   is called again when the handler returns. *)
HandleSigchld ==
    /\ Alive /\ "SIGCHLD" \in pending /\ hpc = "none"
    /\ mpc = "blocked" => backlog = <<>>
    /\ pending' = pending \ {"SIGCHLD"}
    /\ hpc' = "reap"
    /\ mpc' = IF mpc = "blocked" THEN "call" ELSE mpc
    /\ UNCHANGED <<server_running, sigchld, sigints, netVars, nsd, fds,
                   childVars, retcode, exitStatus, late>>

(* One round of: while (waitpid(-1, &status, WNOHANG) > 0) *)
Reap(c) ==
    /\ hpc = "reap" /\ child[c] = "zombie"
    /\ child' = [child EXCEPT ![c] = "reaped"]
    /\ UNCHANGED <<mpc, hpc, sigVars, netVars, nsd, fds, childFds, retcode,
                   exitStatus, late>>

\* Mutant of ReapDone: if (waitpid(...)) instead of while: the handler returns
\* whether or not there are more zombies.
ReapAtMostOne ==
    /\ hpc = "reap"
    /\ hpc' = "none"
    /\ UNCHANGED <<mpc, sigVars, netVars, nsd, fds, childVars, retcode,
                   exitStatus, late>>

ReapDone ==
    /\ hpc = "reap" /\ Zombies = {}
    /\ hpc' = "none"
    /\ UNCHANGED <<mpc, sigVars, netVars, nsd, fds, childVars, retcode,
                   exitStatus, late>>

-----------------------------------------------------------------------------

(* The children *)

(* close(sd).  The last copy takes the unaccepted connections with it. *)
\* Mutant of ChildCloseSd: the child keeps its copy of the listening socket
\* until it exits.
ChildKeepsSd(c) ==
    /\ child[c] = "forked"
    /\ UNCHANGED vars

ChildCloseSd(c) ==
    /\ child[c] = "forked"
    /\ child' = [child EXCEPT ![c] = "serving"]
    /\ backlog' = IF ~Alive /\ ListenCopies = {c} THEN <<>> ELSE backlog
    /\ UNCHANGED <<mpc, hpc, sigVars, sd, arrived, nsd, fds, childFds,
                   retcode, exitStatus, late>>

(* handle_client() and exit().  The parent of an orphan is init. *)
ChildExit(c) ==
    /\ child[c] = "serving"
    /\ child' = [child EXCEPT ![c] = IF Alive THEN "zombie" ELSE "reaped"]
    /\ childFds' = [childFds EXCEPT ![c] = {}]
    /\ pending' = IF Alive /\ sigchld = "handler"
                  THEN pending \cup {"SIGCHLD"} ELSE pending
    /\ UNCHANGED <<mpc, hpc, server_running, sigchld, sigints, netVars, nsd,
                   fds, retcode, exitStatus, late>>

-----------------------------------------------------------------------------

(* The environment *)

Connect(c) ==
    /\ c \notin arrived
    /\ sd /\ (Alive \/ ListenCopies # {})
    /\ Len(backlog) < Qlen
    /\ arrived' = arrived \cup {c}
    /\ backlog' = Append(backlog, c)
    /\ UNCHANGED <<mpc, hpc, sd, sigVars, nsd, fds, childVars, retcode,
                   exitStatus, late>>

(* A pending signal does not queue a second time. *)
SendSigint ==
    /\ Alive /\ sigints < MaxSigint
    /\ sigints' = sigints + 1
    /\ pending' = pending \cup {"SIGINT"}
    /\ UNCHANGED <<mpc, hpc, server_running, sigchld, netVars, nsd, fds,
                   childVars, retcode, exitStatus, late>>

-----------------------------------------------------------------------------

Main ==
    \/ CreateSocket \/ StartRunning \/ LoopTest \/ InstallSigchld
    \/ AcceptSleep \/ AcceptReturns \/ AcceptFails
    \/ Fork \/ ForkFails \/ CloseNsd \/ GoodBye \/ ExitOnError

Handler == HandleSigint \/ HandleSigchld \/ ReapDone \/ \E c \in Clients : Reap(c)

Next ==
    \/ Main
    \/ Handler
    \/ \E c \in Clients : ChildCloseSd(c) \/ ChildExit(c) \/ Connect(c)
    \/ SendSigint

Spec == Init /\ [][Next]_vars

(* Main and the handlers run whenever they can: a process that is not asleep
   is scheduled, and a pending unmasked signal is delivered.  The children
   only have to get past close(sd); nothing says handle_client() returns. *)
Fairness ==
    /\ WF_vars(Main)
    /\ WF_vars(HandleSigint)
    /\ WF_vars(HandleSigchld)
    /\ WF_vars(ReapDone \/ \E c \in Clients : Reap(c))
    /\ \A c \in Clients : WF_vars(ChildCloseSd(c))

FairSpec == Spec /\ Fairness

-----------------------------------------------------------------------------

(* Properties *)

Booted == mpc \notin {"socket", "boot"}

(* A zombie is never forgotten: SIGCHLD does not queue, so one delivery may
   stand for many exits, but as long as a zombie is left its handler is running
   or is still to run (the waitpid() loop of sig_handler()). *)
NoLostChild ==
    Alive /\ Zombies # {} => "SIGCHLD" \in pending \/ hpc = "reap"

(* After SIGINT cleared server_running at most one more client is accepted,
   however SIGINT and SIGCHLD interleave with the loop of main(). *)
AtMostOneLateClient == late <= 1

(* The connection of a client whose child has terminated is closed: neither main
   (once it is past close(nsd)) nor the child of another client, forked while
   main still held descriptors, keeps it open, so the client sees the end of the
   response (accept_client()). *)
ConnectionClosedWithChild ==
    \A c \in Clients :
        child[c] \in {"zombie", "reaped"} =>
            /\ c \in fds => mpc = "close" /\ nsd = c
            /\ \A d \in Clients : c \notin childFds[d]

(* Every terminated child is reaped, by main's SIGCHLD handler while main lives
   (sig_handler()). *)
ZombiesAreReaped ==
    \A c \in Clients : child[c] = "zombie" ~> child[c] = "reaped"

(* A queued connection does not wait for ever: it is accepted, or reset when the
   last process that holds the listening socket closes it; a child must
   therefore close its copy (accept_client()). *)
NoConnectionStuckInBacklog ==
    \A c \in Clients :
        (\E i \in DOMAIN backlog : backlog[i] = c)
            ~> ~(\E i \in DOMAIN backlog : backlog[i] = c)

(* A stopped server that has a client to accept terminates: the client that wakes
   it is the last one (the loop of main()). *)
StoppedServerEndsWithNextClient ==
    (Booted /\ ~server_running /\ backlog # <<>>) ~> ~Alive

(* Although main() tests retcode where it should test the descriptor, a server
   without a listening socket terminates: its first accept() fails. *)
NoSocketNoServer ==
    (Booted /\ ~sd) ~> ~Alive

(* What the comment on server_running says: "Must be true for the server
   accepting clients, otherwise, the server will terminate".  Violated: a SIGINT
   between the test of the loop and the sleep in accept() leaves main asleep. *)
StopTerminates ==
    (Booted /\ ~server_running) ~> ~Alive
=============================================================================
