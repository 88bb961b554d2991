------------------------------ MODULE TinyWeb ------------------------------
(***************************************************************************)
(* The start of tinyweb (pe/tinyweb/src/tinyweb.c) in front of the server  *)
(* process of TinyWebServer: get_options(), open_logfile(),                *)
(* check_root_dir(), install_signal_handlers() and                         *)
(* init_logging_semaphore(), in the order of main().                       *)
(*                                                                         *)
(* get_options() returns 1 for success, and EXIT_FAILURE, which is 1 too,  *)
(* as soon as one option cannot be taken; what it has not seen by then is  *)
(* NULL, and the later steps run on it.  Without memory for progname it    *)
(* returns before my_opt is initialised: the later steps run on whatever   *)
(* was on the stack ("wild": NULL, or a pointer to anywhere).              *)
(***************************************************************************)
EXTENDS TinyWebServer

VARIABLES
    boot,     \* the step of main() that is next, or how main() ended
    opts,     \* prog_options_t: progname, server_addr, root_dir (by what it names),
              \* log_filename (by where it sends the log)
    logFile   \* what open_logfile() did: "none", "stdout", "truncated"

bootVars == <<boot, opts, logFile>>
allVars == <<vars, bootVars>>

RootDirs == {"NULL", "missing", "not a directory", "not for others", "directory"}

Options == [progname : {"NULL", "name"}, addr : {"NULL", "wild", "address"},
            root : RootDirs, log : {"stdout", "file", "wild"}]

BootInit ==
    /\ Init
    /\ boot = "options"
    /\ opts = [progname |-> "name", addr |-> "NULL", root |-> "NULL", log |-> "stdout"]
    /\ logFile = "none"

BootStep(from, to) ==
    /\ boot = from /\ hpc = "none"
    /\ boot' = to
    /\ UNCHANGED vars

-----------------------------------------------------------------------------

(* get_options(): the options come in any order and may be repeated; "-f -" is
   the same as no -f.  -h and -v change nothing that is used. *)

GetOption ==
    /\ BootStep("options", "options")
    /\ \/ opts' = [opts EXCEPT !.addr = "address"]
       \/ \E log \in {"file", "stdout"} : opts' = [opts EXCEPT !.log = log]
       \/ \E dir \in RootDirs \ {"NULL"} : opts' = [opts EXCEPT !.root = dir]
    /\ UNCHANGED logFile

(* A port that getaddrinfo() refuses, or malloc() returns NULL for the name of the
   log or of the directory: return EXIT_FAILURE. *)
GetOptionsFails ==
    /\ BootStep("options", "logfile")
    /\ opts' \in {opts, [opts EXCEPT !.log = "stdout"], [opts EXCEPT !.root = "NULL"]}
    /\ UNCHANGED logFile

(* No memory for progname: return EXIT_FAILURE before the other fields of my_opt
   are initialised.  A wild root_dir is what stat() finds there, or "missing" where
   the pointer cannot be read (EFAULT). *)
NoProgname ==
    /\ BootStep("options", "logfile")
    /\ \E dir \in RootDirs :
           opts' = [progname |-> "NULL", addr |-> "wild", root |-> dir, log |-> "wild"]
    /\ UNCHANGED logFile

GetOptions ==
    /\ opts.addr # "NULL" /\ opts.root # "NULL"
    /\ BootStep("options", "logfile")
    /\ UNCHANGED <<opts, logFile>>

(* An option is missing, unknown, or a long one, whose code 0 is not expected:
   print_usage() and exit(EXIT_FAILURE). *)
Usage ==
    /\ BootStep("options", "failed")
    /\ UNCHANGED <<opts, logFile>>

-----------------------------------------------------------------------------

(* The checks of main() *)

(* A wild log_filename may be the name of a file, "-" or NULL. *)
OpenLogfile ==
    /\ BootStep("logfile", "root dir")
    /\ \/ opts.log # "stdout" /\ logFile' = "truncated"
       \/ opts.log # "file" /\ logFile' = "stdout"
    /\ UNCHANGED opts

CannotOpenLogfile ==
    /\ opts.log # "stdout"
    /\ BootStep("logfile", "failed")
    /\ UNCHANGED <<opts, logFile>>

(* strcmp() looks into log_filename. *)
BadLogFilename ==
    /\ opts.log = "wild"
    /\ BootStep("logfile", "crashed")
    /\ UNCHANGED <<opts, logFile>>

\* Mutant of CheckRootDir: the check is skipped where no directory was given.
CheckRootDirIfGiven ==
    /\ BootStep("root dir",
                IF opts.root \in {"NULL", "directory"} THEN "signals" ELSE "failed")
    /\ UNCHANGED <<opts, logFile>>

(* IS_ROOT_DIR: (S_IROTH || S_IXOTH) is 1, the bit of S_IXOTH. *)
CheckRootDir ==
    /\ BootStep("root dir", IF opts.root = "directory" THEN "signals" ELSE "failed")
    /\ UNCHANGED <<opts, logFile>>

InstallSignalHandlers ==
    /\ BootStep("signals", "semaphore")
    /\ UNCHANGED <<opts, logFile>>

InitLoggingSemaphore ==
    /\ \E to \in {"run", "failed"} : BootStep("semaphore", to)
    /\ UNCHANGED <<opts, logFile>>

(* create_server_socket() looks into server_addr.  A wild pointer may be readable:
   then socket() or bind() fails, or binds to no address of the user's, and main(),
   whose test looks at retcode, goes on (CreateSocket). *)
BadAddress ==
    /\ opts.addr # "address" /\ mpc = "socket"
    /\ BootStep("run", "crashed")
    /\ UNCHANGED <<opts, logFile>>

(* SIGINT before its handler is installed. *)
Killed ==
    /\ \E from \in {"options", "logfile", "root dir", "signals"} :
           BootStep(from, "killed")
    /\ UNCHANGED <<opts, logFile>>

-----------------------------------------------------------------------------

Serving == boot = "run" /\ (mpc = "socket" => opts.addr # "NULL")

(* A step of TinyWebServer; the handler of SIGINT is there one step earlier. *)
Serve(step) == Serving /\ step /\ UNCHANGED bootVars
Signalled(step) == boot \in {"semaphore", "run"} /\ step /\ UNCHANGED bootVars

Boot == \/ GetOptionsFails \/ NoProgname \/ GetOptions \/ Usage
        \/ OpenLogfile \/ CannotOpenLogfile \/ BadLogFilename \/ CheckRootDir
        \/ InstallSignalHandlers \/ InitLoggingSemaphore \/ BadAddress

Environment == \E c \in Clients : ChildCloseSd(c) \/ ChildExit(c) \/ Connect(c)

BootNext ==
    \/ Boot \/ GetOption \/ Killed
    \/ Serve(Main) \/ Serve(Environment)
    \/ Signalled(Handler) \/ Signalled(SendSigint)

(* The fairness of TinyWebServer for the steps as they are taken here. *)
BootSpec ==
    /\ BootInit /\ [][BootNext]_allVars
    /\ WF_allVars(Boot)
    /\ WF_allVars(Serve(Main))
    /\ WF_allVars(Signalled(HandleSigint))
    /\ WF_allVars(Signalled(HandleSigchld))
    /\ WF_allVars(Signalled(ReapDone \/ \E c \in Clients : Reap(c)))
    /\ \A c \in Clients : WF_allVars(Serve(ChildCloseSd(c)))

-----------------------------------------------------------------------------

(* Properties *)

(* main() takes the failures of get_options() for success, and yet no server runs
   without a log, opened where the options say, and a root directory that others may
   search (check_root_dir(), open_logfile()).  Its address was given to it unless
   progname was the failure: then nothing between get_options() and accept() notices
   that server_addr was never set (create_server_socket()). *)
ServerIsSetUp ==
    mpc # "socket" =>
        /\ opts.root = "directory"
        /\ opts.log = "file" => logFile = "truncated"
        /\ opts.log = "stdout" => logFile = "stdout"
        /\ logFile # "none"
        /\ opts.addr = "address" \/ opts.progname = "NULL"
=============================================================================
