------------------------------ MODULE CgiChild ------------------------------
(***************************************************************************)
(* The CGI branch of handle_client() (pe/tinyweb/src/tinyweb.c), behind    *)
(* the decisions of HandleClient: the child forks, the grandchild prints   *)
(* the header into stdio's buffer and executes the script, and the child   *)
(* waits.                                                                  *)
(*                                                                         *)
(* The child has inherited sig_handler() for SIGCHLD, whose waitpid() loop *)
(* takes any zombie it finds.  A zombie that ends the sleep in wait() is   *)
(* taken by wait() itself, before the handler is called; one that is there *)
(* before that sleep may be taken by either.                               *)
(***************************************************************************)
EXTENDS HandleClient

VARIABLES
    waitAt,   \* the child: "none" (before fork()), "before", "asleep", "done"
    script,   \* the grandchild
    result,   \* how the grandchild ended
    waited,   \* what wait() stored in the local status
    stopped,  \* history: a SIGINT has interrupted wait()
    stdoutIs, \* what open_logfile() left, chosen at the fork that inherits it
    buffer,   \* what is in stdio's buffer of the grandchild
    received  \* what the grandchild sent to the client

cgiVars == <<waitAt, script, result, waited, stopped, stdoutIs, buffer, received>>
allVars == <<vars, cgiVars>>

Results == {"unset", "exited", "signaled"}

(* Without -f the note of open_logfile() is the first use of stdout: on a terminal
   it is flushed line by line from then on; redirected to a file, the note is still
   in the buffer that every child inherits.  With -f the first use is that of the
   grandchild, on a socket. *)
Stdouts == {"tty", "redirected", "unused"}

CgiTypeOK ==
    /\ TypeOK
    /\ waitAt \in {"none", "before", "asleep", "done"}
    /\ script \in {"none", "forked", "printed", "running", "zombie", "reaped"}
    /\ result \in Results /\ waited \in Results
    /\ stopped \in BOOLEAN
    /\ stdoutIs \in Stdouts \cup {"not looked at"}
    /\ buffer \in {<<>>, <<"note">>, <<"header">>, <<"note", "header">>}
    /\ received \in Seq({"note", "header", "output"})

CgiInit ==
    /\ Init
    /\ waitAt = "none" /\ script = "none"
    /\ result = "unset" /\ waited = "unset"
    /\ stopped = FALSE
    /\ stdoutIs = "not looked at"
    /\ buffer = <<>>
    /\ received = <<>>

-----------------------------------------------------------------------------

(* The grandchild *)

ScriptStep(from, to) ==
    /\ script = from
    /\ script' = to
    /\ UNCHANGED <<vars, waitAt, waited, stopped, stdoutIs>>

(* An orphan is reaped by init. *)
ScriptEnds(how) ==
    /\ script' = IF end = "" THEN "zombie" ELSE "reaped"
    /\ result' = how
    /\ UNCHANGED <<vars, waitAt, waited, stopped, stdoutIs>>

\* Mutant of PrintHeader: stdout is flushed, with what the buffer held before fork().
PrintAndFlush ==
    /\ ScriptStep("forked", "printed")
    /\ received' = received \o Append(buffer, "header")
    /\ buffer' = <<>>
    /\ UNCHANGED result

(* fprintf(): the header ends with a line, so a line buffer is flushed. *)
PrintHeader ==
    /\ ScriptStep("forked", "printed")
    /\ IF stdoutIs = "tty"
       THEN received' = Append(received, "header") /\ UNCHANGED buffer
       ELSE buffer' = Append(buffer, "header") /\ UNCHANGED received
    /\ UNCHANGED result

(* execle() replaces the process and the buffer with it. *)
Exec ==
    /\ ScriptStep("printed", "running")
    /\ buffer' = <<>>
    /\ UNCHANGED <<result, received>>

(* exit() flushes the buffer to what is descriptor 1 now, the socket. *)
ExecFails ==
    /\ script = "printed"
    /\ ScriptEnds("exited")
    /\ received' = received \o buffer
    /\ buffer' = <<>>

Output ==
    /\ "output" \notin ToSet(received)
    /\ ScriptStep("running", "running")
    /\ received' = Append(received, "output")
    /\ UNCHANGED <<result, buffer>>

ScriptExits ==
    /\ script = "running"
    /\ ScriptEnds("exited")
    /\ UNCHANGED <<buffer, received>>

(* SIGPIPE, for one, if the client is gone. *)
ScriptKilled ==
    /\ script \in {"forked", "printed", "running"}
    /\ ScriptEnds("signaled")
    /\ UNCHANGED <<buffer, received>>

-----------------------------------------------------------------------------

(* The child *)

WaitStep(from, to) ==
    /\ end = ""
    /\ waitAt \in from
    /\ waitAt' = to
    /\ UNCHANGED <<vars, result, received>>

ForkScript ==
    /\ todo = <<"cgi">>
    /\ WaitStep({"none"}, "before")
    /\ script' = "forked"
    /\ stdoutIs' \in Stdouts
    /\ buffer' = IF stdoutIs' = "redirected" THEN <<"note">> ELSE <<>>
    /\ UNCHANGED <<waited, stopped>>

(* return 1; nothing has been logged. *)
ScriptForkFails ==
    /\ waitAt = "none"
    /\ Do("cgi")
    /\ end' = "returned"
    /\ UNCHANGED <<logged, sent, cgiVars>>

WaitSleeps ==
    /\ script \in {"forked", "printed", "running"}
    /\ WaitStep({"before"}, "asleep")
    /\ UNCHANGED <<script, waited, stopped, stdoutIs, buffer>>

\* Mutant of WaitReaps: waitpid(-1, &status, WNOHANG).
WaitNoHang ==
    /\ WaitStep({"before", "asleep"}, "done")
    /\ IF script = "zombie"
       THEN script' = "reaped" /\ waited' = result
       ELSE UNCHANGED <<script, waited>>
    /\ UNCHANGED <<stopped, stdoutIs, buffer>>

WaitReaps ==
    /\ script = "zombie"
    /\ WaitStep({"before", "asleep"}, "done")
    /\ script' = "reaped"
    /\ waited' = result
    /\ UNCHANGED <<stopped, stdoutIs, buffer>>

(* sig_handler(): the status it gets is its own. *)
HandlerReaps ==
    /\ script = "zombie"
    /\ WaitStep({"before"}, "before")
    /\ script' = "reaped"
    /\ UNCHANGED <<waited, stopped, stdoutIs, buffer>>

\* Mutant of WaitFindsNoChild: wait() sleeps until there is a child again.
WaitForNoChild ==
    /\ script = "reaped"
    /\ WaitStep({"before"}, "asleep")
    /\ UNCHANGED <<script, waited, stopped, stdoutIs, buffer>>

(* ECHILD: status stays what it was, and the result is not looked at. *)
WaitFindsNoChild ==
    /\ script = "reaped"
    /\ WaitStep({"before"}, "done")
    /\ UNCHANGED <<script, waited, stopped, stdoutIs, buffer>>

(* EINTR: the handler of SIGINT is installed without SA_RESTART. *)
WaitInterrupted ==
    /\ script \in {"forked", "printed", "running"}
    /\ WaitStep({"asleep"}, "done")
    /\ stopped' = TRUE
    /\ UNCHANGED <<script, waited, stdoutIs, buffer>>

(* WIFEXITED(status); where wait() has not stored it, it is uninitialised.  A zombie
   of the interrupted wait() goes to init. *)
Finish ==
    /\ waitAt = "done"
    /\ Do("cgi")
    /\ \/ waited # "signaled" /\ end' = "exited"
       \/ waited # "exited" /\ end' = "returned"
    /\ script' = IF script = "zombie" THEN "reaped" ELSE script
    /\ UNCHANGED <<logged, sent, waitAt, result, waited, stopped, stdoutIs, buffer,
                   received>>

ScriptNext == PrintHeader \/ Exec \/ ExecFails \/ Output \/ ScriptExits \/ ScriptKilled

ChildNext == \/ ForkScript \/ ScriptForkFails \/ WaitSleeps \/ WaitReaps
             \/ HandlerReaps \/ WaitFindsNoChild \/ Finish

HandleNext == Handle /\ UNCHANGED cgiVars /\ waitAt = "none"

CgiNext == HandleNext \/ ScriptNext \/ ChildNext \/ WaitInterrupted

(* A child that is not asleep runs; the script need not end. *)
CgiSpec == CgiInit /\ [][CgiNext]_allVars /\ WF_allVars(ChildNext)

-----------------------------------------------------------------------------

(* Properties *)

(* The client of a script gets each text once and in order, and the output of a
   script never behind the note about the log that open_logfile() printed and fork()
   copied with the buffer of stdout: only where the script could not be executed does
   exit() send that note (fprintf(), fork(), execle() and exit() on one buffer). *)
OutputIsClean ==
    received \in {<<>>, <<"header">>, <<"output">>, <<"header", "output">>,
                  <<"note", "header">>}

(* A child that ends by itself leaves no zombie and no running script behind,
   whether wait() or the handler was first, unless SIGINT has interrupted the wait
   (wait() in handle_client(), waitpid() in sig_handler()). *)
ScriptIsReaped ==
    end \in {"exited", "returned"} /\ script # "none" =>
        script = "reaped" \/ stopped

(* When the script has ended the child ends: it does not wait for a child that its
   own handler has already taken. *)
ChildEndsWithScript ==
    script \in {"zombie", "reaped"} ~> end # ""

(* What the code says, "print header" (tinyweb.c:640), and t/05cgi.t:91 expects,
   "Header field 'Server' is provided": the output of a script comes after a header.
   Violated unless stdout is a terminal. *)
ScriptOutputHasHeader ==
    "output" \in ToSet(received) => Head(received) = "header"
=============================================================================
