--------------------------- MODULE TinyWeb_proofs ---------------------------
(* Theorems about the whole program: its start does nothing that TinyWebServer
   forbids, and no server runs without its options. *)
EXTENDS TinyWeb, TinyWebServer_proofs

BootNames == {"options", "logfile", "root dir", "signals", "semaphore", "run",
              "failed", "killed", "crashed"}

(* What each step of the start has established for those after it. *)
BootInv ==
    /\ boot \in BootNames
    /\ opts \in Options
    /\ opts.progname = "name" => opts.addr # "wild"
    /\ mpc # "socket" => boot = "run" /\ opts.addr # "NULL"
    /\ boot \in {"root dir", "signals", "semaphore", "run"} =>
           \/ logFile = "truncated" /\ opts.log # "stdout"
           \/ logFile = "stdout" /\ opts.log # "file"
    /\ boot \in {"signals", "semaphore", "run"} => opts.root = "directory"

(* A step of the program is one of the server or does not touch it. *)
LEMMA BootIsServer == [BootNext]_allVars => [Next]_vars
<1> SUFFICES ASSUME [BootNext]_allVars PROVE [Next]_vars
  OBVIOUS
<1>1. CASE Boot \/ GetOption \/ Killed
  BY <1>1, Zenon
  DEF Boot, GetOption, Killed, GetOptionsFails, NoProgname, GetOptions, Usage,
      OpenLogfile, CannotOpenLogfile, CheckRootDir, InstallSignalHandlers,
      BadLogFilename, InitLoggingSemaphore, BadAddress, BootStep
<1>2. CASE Serve(Main) \/ Serve(Environment)
  BY <1>2, Zenon DEF Serve, Environment, Next
<1>3. CASE Signalled(Handler) \/ Signalled(SendSigint)
  BY <1>3, Zenon DEF Signalled, Next
<1>4. CASE UNCHANGED allVars
  BY <1>4 DEF allVars
<1> QED
  BY <1>1, <1>2, <1>3, <1>4 DEF BootNext

(* Whatever TinyWebServer proves of the server holds of the program. *)
THEOREM ProgramIsServer == BootSpec => Spec
  BY BootIsServer, PTL DEF BootSpec, BootInit, Spec

-----------------------------------------------------------------------------

(* The server leaves "socket" only in main(). *)
LEMMA LeavesSocket ==
    ASSUME Handler \/ SendSigint \/ Environment
    PROVE  mpc' = "socket" \/ mpc # "socket"
<1>1. CASE Handler
  BY <1>1 DEF Handler, HandleSigint, HandleSigchld, ReapDone, Reap
<1>2. CASE SendSigint
  BY <1>2 DEF SendSigint
<1>3. CASE Environment
  BY <1>3 DEF Environment, ChildCloseSd, ChildExit, Connect
<1> QED
  BY <1>1, <1>2, <1>3

(* Each step of the start establishes its part. *)
LEMMA BootInvStep == BootInv /\ [BootNext]_allVars => BootInv'
<1> SUFFICES ASSUME BootInv, [BootNext]_allVars PROVE BootInv'
  OBVIOUS
<1> USE DEF BootInv, BootNames, BootStep, vars
<1>0. CASE GetOption
  <2>1. boot' = "options" /\ mpc' = "socket"
    BY <1>0 DEF GetOption
  <2>2. \/ opts' = [opts EXCEPT !.addr = "address"]
        \/ \E log \in {"file", "stdout"} : opts' = [opts EXCEPT !.log = log]
        \/ \E dir \in RootDirs \ {"NULL"} : opts' = [opts EXCEPT !.root = dir]
    BY <1>0 DEF GetOption
  <2>3. opts' \in Options /\ (opts'.progname = "name" => opts'.addr # "wild")
    BY <2>2 DEF Options
  <2> QED
    BY <2>1, <2>3
<1>1. CASE GetOptionsFails \/ GetOptions \/ Usage
  BY <1>1 DEF GetOptionsFails, GetOptions, Usage, Options, RootDirs
<1>n. CASE NoProgname
  <2>1. boot' = "logfile" /\ mpc' = mpc /\ mpc = "socket"
    BY <1>n DEF NoProgname
  <2>2. opts'.progname = "NULL" /\ opts' \in Options
    BY <1>n DEF NoProgname, Options
  <2> QED
    BY <2>1, <2>2
<1>2. CASE OpenLogfile \/ CannotOpenLogfile \/ BadLogFilename \/ CheckRootDir
  BY <1>2 DEF OpenLogfile, CannotOpenLogfile, BadLogFilename, CheckRootDir
<1>3. CASE InstallSignalHandlers \/ InitLoggingSemaphore \/ BadAddress \/ Killed
  BY <1>3 DEF InstallSignalHandlers, InitLoggingSemaphore, BadAddress, Killed
<1>4. CASE Serve(Main)
  BY <1>4 DEF Serve, Serving, bootVars
<1>5. CASE Serve(Environment) \/ Signalled(Handler) \/ Signalled(SendSigint)
  BY <1>5, LeavesSocket DEF Serve, Signalled, bootVars
<1>6. CASE UNCHANGED allVars
  BY <1>6 DEF allVars, bootVars
<1> QED
  BY <1>0, <1>1, <1>n, <1>2, <1>3, <1>4, <1>5, <1>6 DEF BootNext, Boot

(* No server runs without its log and a root directory, or, unless malloc() failed
   for progname, without the address it was given. *)
THEOREM SetUpBeforeServing == BootSpec => []ServerIsSetUp
<1>1. BootInit => BootInv
  BY DEF BootInit, Init, BootInv, BootNames, Options, RootDirs
<1>2. BootInv => ServerIsSetUp
  BY DEF BootInv, ServerIsSetUp, Options
<1> QED
  BY <1>1, <1>2, BootInvStep, PTL DEF BootSpec
=============================================================================
