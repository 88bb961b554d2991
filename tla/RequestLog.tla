----------------------------- MODULE RequestLog -----------------------------
(***************************************************************************)
(* The request log of tinyweb: write_log() (tinyweb.c) in the children the *)
(* server forks, print_log() and the named semaphore (sem_print.c), the    *)
(* stdio buffer of the log file and the file itself.                       *)
(*                                                                         *)
(* A child logs one line.  With a log file the line goes through           *)
(* print_log(): sem_wait(), vfprintf() into the child's copy of the stdio  *)
(* buffer, sem_post(); it reaches the file when exit() flushes the buffer. *)
(* Without one it is written to stdout at once by safe_printf().           *)
(*                                                                         *)
(* The semaphore outlives the processes: O_CREAT gives it the value 1 only *)
(* when it does not exist, and nothing unlinks it.  The children of a      *)
(* server share the file offset of its log; a restarted server truncates   *)
(* the file and has an offset of its own.                                  *)
(***************************************************************************)
EXTENDS Integers, FiniteSets

CONSTANTS Children,   \* the children, each one serves one request
          MaxServers  \* bound: how many servers are started one after another

ASSUME LogConstants ==
    /\ IsFiniteSet(Children)
    /\ MaxServers \in Nat \ {0}

Kinds == {"malformed",  \* no request line was found: method is uninitialised
          "headOnly",   \* the log is written before the response header
          "content"}    \* header, log, body
ChildPC == {"none", "header", "log", "print", "post", "respond", "exit",
            "gone", "killed"}

VARIABLES
    toFile,   \* was a log file named on the command line
    server,   \* the server that runs, 1, 2, ...
    sem,      \* value of the semaphore
    pc,       \* where each child is
    kind,     \* which request it serves
    parent,   \* the server that forked it
    ticket,   \* what its sem_wait() did: "taken", "missed" (error), "none" yet
    buffered, \* is its line in its stdio buffer
    offset,   \* the file offset (in lines) of each server's log
    base,     \* history: the offset at which a server that failed emptied the log
    file,     \* the log file: position -> the child whose line is there
    stdout    \* the children whose line was written to stdout

childVars == <<pc, kind, parent, ticket, buffered>>
logVars == <<offset, base, file, stdout>>
vars == <<toFile, server, sem, pc, kind, parent, ticket, buffered, offset,
          base, file, stdout>>

Servers == 1..MaxServers

TypeOK ==
    /\ toFile \in BOOLEAN
    /\ server \in Servers
    /\ sem \in Nat
    /\ pc \in [Children -> ChildPC]
    /\ kind \in [Children -> Kinds]
    /\ parent \in [Children -> Servers]
    /\ ticket \in [Children -> {"none", "taken", "missed"}]
    /\ buffered \in [Children -> BOOLEAN]
    /\ offset \in [Servers -> Nat]
    /\ base \in Nat
    /\ DOMAIN file \subseteq Nat
    /\ \A p \in DOMAIN file : file[p] \in Children
    /\ stdout \subseteq Children

Printers == {c \in Children : pc[c] \in {"print", "post"}}
Holders == {c \in Printers : ticket[c] = "taken"}

\* Killed inside the critical section: nobody will post for them.
Stuck == {c \in Children : pc[c] = "killed" /\ ticket[c] = "taken" /\ ~buffered[c]}

\* Posted although their sem_wait() had failed.
Phantoms == {c \in Children :
                ticket[c] = "missed" /\ pc[c] \notin {"print", "post"}
                                     /\ buffered[c]}

Init ==
    /\ toFile \in BOOLEAN
    /\ server = 1
    /\ sem = 1
    /\ pc = [c \in Children |-> "none"]
    /\ kind \in [Children -> Kinds]
    /\ parent = [c \in Children |-> 1]
    /\ ticket = [c \in Children |-> "none"]
    /\ buffered = [c \in Children |-> FALSE]
    /\ offset = [s \in Servers |-> 0]
    /\ base = 0
    /\ file = [p \in {} |-> 0]
    /\ stdout = {}

Goto(c, from, to) ==
    /\ pc[c] = from
    /\ pc' = [pc EXCEPT ![c] = to]

-----------------------------------------------------------------------------

(* fork() in the server that runs. *)
Forked(c) ==
    /\ Goto(c, "none", IF kind[c] = "content" THEN "header" ELSE "log")
    /\ parent' = [parent EXCEPT ![c] = server]
    /\ UNCHANGED <<toFile, server, sem, kind, ticket, buffered, logVars>>

(* Only a response with a body sends its header before it is logged. *)
WriteHeader(c) ==
    /\ Goto(c, "header", "log")
    /\ UNCHANGED <<toFile, server, sem, kind, parent, ticket, buffered, logVars>>

SafePrintf(c) ==
    /\ ~toFile
    /\ Goto(c, "log", "respond")
    /\ stdout' = stdout \cup {c}
    /\ UNCHANGED <<toFile, server, sem, kind, parent, ticket, buffered, offset,
                   base, file>>

\* Mutant of SemWait: sem_wait() is used as if it never slept.
SemWaitWithoutSleeping(c) ==
    /\ toFile
    /\ Goto(c, "log", "print")
    /\ sem' = sem - 1
    /\ ticket' = [ticket EXCEPT ![c] = "taken"]
    /\ UNCHANGED <<toFile, server, kind, parent, buffered, logVars>>

SemWait(c) ==
    /\ toFile /\ sem > 0
    /\ Goto(c, "log", "print")
    /\ sem' = sem - 1
    /\ ticket' = [ticket EXCEPT ![c] = "taken"]
    /\ UNCHANGED <<toFile, server, kind, parent, buffered, logVars>>

(* SIGINT reaches a child asleep in sem_wait(): EINTR.  print_log() reports the
   error and goes on. *)
SemWaitInterrupted(c) ==
    /\ toFile /\ sem = 0
    /\ Goto(c, "log", "print")
    /\ ticket' = [ticket EXCEPT ![c] = "missed"]
    /\ UNCHANGED <<toFile, server, sem, kind, parent, buffered, logVars>>

\* Mutant of BufferLine: print_log() returns vfprintf()'s status at once.
BufferLineAndReturn(c) ==
    /\ Goto(c, "print", "respond")
    /\ buffered' = [buffered EXCEPT ![c] = TRUE]
    /\ UNCHANGED <<toFile, server, sem, kind, parent, ticket, logVars>>

(* vfprintf(); the line stays in the buffer of this process. *)
BufferLine(c) ==
    /\ Goto(c, "print", "post")
    /\ buffered' = [buffered EXCEPT ![c] = TRUE]
    /\ UNCHANGED <<toFile, server, sem, kind, parent, ticket, logVars>>

SemPost(c) ==
    /\ Goto(c, "post", "respond")
    /\ sem' = sem + 1
    /\ UNCHANGED <<toFile, server, kind, parent, ticket, buffered, logVars>>

(* What is left of handle_client(): the header or the body. *)
Respond(c) ==
    /\ Goto(c, "respond", "exit")
    /\ UNCHANGED <<toFile, server, sem, kind, parent, ticket, buffered, logVars>>

\* Mutant of Exit: each child opens the log file for itself.
ExitWithOwnOffset(c) ==
    /\ Goto(c, "exit", "gone")
    /\ file' = IF buffered[c] THEN [p \in {0} |-> c] ELSE file
    /\ UNCHANGED <<toFile, server, sem, kind, parent, ticket, buffered, offset,
                   base, stdout>>

(* exit() flushes the stdio buffer: one write at the offset all children of the
   same server share. *)
Exit(c) ==
    /\ Goto(c, "exit", "gone")
    /\ IF buffered[c]
       THEN /\ file' = [p \in DOMAIN file \cup {offset[parent[c]]} |->
                           IF p = offset[parent[c]] THEN c ELSE file[p]]
            /\ offset' = [offset EXCEPT ![parent[c]] = @ + 1]
       ELSE UNCHANGED <<file, offset>>
    /\ UNCHANGED <<toFile, server, sem, kind, parent, ticket, buffered, base,
                   stdout>>

-----------------------------------------------------------------------------

(* SIGPIPE: the client has closed the connection a child writes to. *)
KilledBySigpipe(c) ==
    /\ Goto(c, "header", "killed") \/ Goto(c, "respond", "killed")
    /\ UNCHANGED <<toFile, server, sem, kind, parent, ticket, buffered, logVars>>

(* The %s of an uninitialised method may be followed to an invalid address. *)
KilledWhileFormatting(c) ==
    /\ kind[c] = "malformed"
    /\ Goto(c, "print", "killed") \/ (~toFile /\ Goto(c, "log", "killed"))
    /\ UNCHANGED <<toFile, server, sem, kind, parent, ticket, buffered, logVars>>

\* Mutant of Restart: the new server sets the semaphore to 1.
RestartResetsSemaphore ==
    /\ server < MaxServers
    /\ server' = server + 1
    /\ sem' = 1
    /\ file' = [p \in {} |-> 0]
    /\ base' = 0
    /\ UNCHANGED <<toFile, childVars, offset, stdout>>

(* The server is ended and started again; its children go on.  fopen("w") and
   sem_open(O_CREAT). *)
Restart ==
    /\ server < MaxServers
    /\ server' = server + 1
    /\ file' = [p \in {} |-> 0]
    /\ base' = 0
    /\ UNCHANGED <<toFile, sem, childVars, offset, stdout>>

(* Another server is started with the same log while this one runs, and fails: at
   its root directory, or at bind(), where the port is the same.  open_logfile() has
   truncated the file by then; those who have it open keep their offset. *)
FailedStart ==
    /\ toFile
    /\ file' = [p \in {} |-> 0]
    /\ base' = offset[server]
    /\ UNCHANGED <<toFile, server, sem, childVars, offset, stdout>>

-----------------------------------------------------------------------------

Logging(c) == SafePrintf(c) \/ SemWait(c) \/ BufferLine(c) \/ SemPost(c)

Next ==
    \/ \E c \in Children :
          \/ Forked(c) \/ WriteHeader(c) \/ Logging(c) \/ Respond(c) \/ Exit(c)
          \/ SemWaitInterrupted(c)
          \/ KilledBySigpipe(c) \/ KilledWhileFormatting(c)
    \/ Restart \/ FailedStart

Spec == Init /\ [][Next]_vars

(* A child that can run is scheduled; whether its client reads is not known. *)
Fairness == \A c \in Children : WF_vars(Logging(c)) /\ WF_vars(Exit(c))

FairSpec == Spec /\ Fairness

-----------------------------------------------------------------------------

(* Properties *)

InFile(c) == \E p \in DOMAIN file : file[p] = c
Logged(c) == pc[c] \in {"respond", "exit", "gone"}

(* The semaphore counts: what it lost to children killed while they held it and
   what it gained from posts without a wait explain its value at any time, across
   restarts of the server (print_log(), init_logging_semaphore()). *)
SemaphoreAccounting ==
    toFile => sem + Cardinality(Holders) + Cardinality(Stuck)
                 = 1 + Cardinality(Phantoms)

(* As long as no sem_wait() was interrupted at most one process is in print_log(),
   old servers' children included. *)
OnePrinter ==
    (\A c \in Children : ticket[c] # "missed") => Cardinality(Printers) <= 1

(* Under one server no line overwrites another and there are no holes: the
   children append through the offset they inherited, in the order they exit.  A
   second server that fails takes the lines that are there, leaves a hole in their
   place and harms no later line (fopen(.., "w") in open_logfile(), exit()). *)
LogIsAppendOnly ==
    server = 1 =>
        /\ DOMAIN file = base..(offset[1] - 1)
        /\ \A p, q \in DOMAIN file : file[p] = file[q] => p = q
        /\ \A c \in Children : pc[c] = "gone" /\ toFile => InFile(c) \/ base > 0

(* A child waits for the semaphore for ever only when another was killed inside
   print_log(); restarting the server does not free it. *)
LoggerIsNotBlocked ==
    \A c \in Children : pc[c] = "log" ~> (pc[c] # "log" \/ Stuck # {})

(* What the comment on write_log() says: "write log to stdout or log file".
   Violated: the line is in a buffer when write_log() returns, and SIGPIPE in the
   write that follows ends the child without a flush. *)
WrittenWhenLogged ==
    server = 1 /\ base = 0 => \A c \in Children :
        pc[c] \in {"gone", "killed"} /\ (ticket[c] # "none") /\ c \notin Stuck
            => InFile(c)
=============================================================================
