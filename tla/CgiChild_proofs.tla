-------------------------- MODULE CgiChild_proofs --------------------------
(* Theorems about a child that handles a request, for any request, any file and any
   script. *)
EXTENDS CgiChild, HandleClient_proofs, SequenceTheorems, TLAPS

(* The script and the wait for it go together, and only a child that has left its
   wait ends. *)
WaitInv ==
    /\ waitAt = "none" <=> script = "none"
    /\ waitAt # "none" /\ end # "" => waitAt = "done"
    /\ waitAt = "done" => script = "reaped" \/ stopped

Note == IF stdoutIs = "redirected" THEN <<"note">> ELSE <<>>
Sent == IF stdoutIs = "tty" THEN <<"header">> ELSE <<>>

(* Where the header and the note are while the script goes from fork() to its end. *)
BufferInv ==
    /\ script \in {"none", "forked", "printed", "running", "zombie", "reaped"}
    /\ script = "none" => received = <<>> /\ buffer = <<>>
    /\ script = "forked" => received = <<>> /\ buffer = Note
    /\ script = "printed" =>
           /\ received = Sent
           /\ buffer = IF stdoutIs = "tty" THEN <<>>
                       ELSE IF stdoutIs = "redirected" THEN <<"note", "header">>
                       ELSE <<"header">>
    /\ script = "running" => buffer = <<>> /\ received \in {Sent, Append(Sent, "output")}
    /\ script \in {"zombie", "reaped"} => OutputIsClean

-----------------------------------------------------------------------------

(* The wait of the child, the handler and the script keep step. *)
LEMMA WaitStepInv == WaitInv /\ [CgiNext]_allVars => WaitInv'
<1> SUFFICES ASSUME WaitInv, [CgiNext]_allVars PROVE WaitInv'
  OBVIOUS
<1> USE DEF WaitInv, vars, clientVars, cgiVars
<1>1. CASE HandleNext
  BY <1>1, Zenon DEF HandleNext
<1>2. ASSUME NEW from, NEW to, to \notin {"none", "reaped"}, from # "none",
             from # "reaped", ScriptStep(from, to)
      PROVE  WaitInv'
  BY <1>2 DEF ScriptStep
<1>3. CASE PrintHeader \/ Exec \/ Output
  BY <1>2, <1>3 DEF PrintHeader, Exec, Output
<1>4. CASE ExecFails \/ ScriptExits \/ ScriptKilled
  BY <1>4 DEF ExecFails, ScriptExits, ScriptKilled, ScriptEnds
<1>5. CASE ForkScript \/ WaitSleeps \/ WaitReaps \/ HandlerReaps \/ WaitFindsNoChild
  BY <1>5 DEF ForkScript, WaitSleeps, WaitReaps, HandlerReaps, WaitFindsNoChild,
              WaitStep
<1>6. CASE ScriptForkFails \/ Finish
  BY <1>6 DEF ScriptForkFails, Finish
<1>7. CASE WaitInterrupted
  BY <1>7 DEF WaitInterrupted, WaitStep
<1>8. CASE UNCHANGED allVars
  BY <1>8 DEF allVars
<1> QED
  BY <1>1, <1>3, <1>4, <1>5, <1>6, <1>7, <1>8 DEF CgiNext, ScriptNext, ChildNext

(* A child leaves no script behind, whoever reaps it, for any request and file. *)
THEOREM ScriptReaped == CgiSpec => []ScriptIsReaped
<1>1. CgiInit => WaitInv
  BY DEF CgiInit, WaitInv
<1>2. WaitInv => ScriptIsReaped
  BY DEF WaitInv, ScriptIsReaped
<1> QED
  BY <1>1, <1>2, WaitStepInv, PTL DEF CgiSpec

-----------------------------------------------------------------------------

(* The few texts that can be sent. *)
LEMMA Texts ==
    /\ Append(<<>>, "header") = <<"header">>
    /\ Append(<<"note">>, "header") = <<"note", "header">>
    /\ Append(<<>>, "output") = <<"output">>
    /\ Append(<<"header">>, "output") = <<"header", "output">>
    /\ <<"header">> \o <<>> = <<"header">>
    /\ <<>> \o <<"header">> = <<"header">>
    /\ <<>> \o <<"note", "header">> = <<"note", "header">>
    /\ ToSet(<<>>) = {} /\ ToSet(<<"header">>) = {"header"}
    /\ ToSet(<<"note", "header">>) = {"note", "header"}
    /\ ToSet(<<"output">>) = {"output"}
    /\ ToSet(<<"header", "output">>) = {"header", "output"}
<1>1. Append(<<>>, "header") = <<"header">> /\ Append(<<>>, "output") = <<"output">>
  OBVIOUS
<1> DEFINE Words == {"note", "header", "output"}
<1>w. /\ <<"header">> \in Seq(Words) /\ Len(<<"header">>) = 1 /\ <<"header">>[1] = "header"
      /\ <<"note">> \in Seq(Words) /\ Len(<<"note">>) = 1 /\ <<"note">>[1] = "note"
  OBVIOUS
<1>2. ASSUME NEW a \in Words, NEW b \in Words
      PROVE  /\ Append(<<a>>, b) = <<a, b>>
             /\ <<a, b>> \in Seq(Words)
  <2>1. /\ <<a>> \in Seq(Words) /\ Len(<<a>>) = 1 /\ <<a>>[1] = a
        /\ <<a, b>> \in Seq(Words) /\ Len(<<a, b>>) = 2
        /\ <<a, b>>[1] = a /\ <<a, b>>[2] = b
    OBVIOUS
  <2>2. /\ Append(<<a>>, b) \in Seq(Words) /\ Len(Append(<<a>>, b)) = 2
        /\ Append(<<a>>, b)[1] = a /\ Append(<<a>>, b)[2] = b
    BY <2>1
  <2>3. \A i \in 1..2 : Append(<<a>>, b)[i] = <<a, b>>[i]
    <3>1. \A i \in 1..2 : i = 1 \/ i = 2
      OBVIOUS
    <3> QED
      BY <2>1, <2>2, <3>1, Zenon
  <2> QED
    <3> DEFINE app == Append(<<a>>, b)
               pair == <<a, b>>
    <3>1. /\ app \in Seq(Words) /\ pair \in Seq(Words) /\ Len(app) = 2 /\ Len(pair) = 2
          /\ \A i \in 1..2 : app[i] = pair[i]
      BY <2>1, <2>2, <2>3
    <3> HIDE DEF app, pair, Words
    <3>2. app = pair
      BY <3>1, SeqEqual
    <3> QED
      BY <2>1, <3>2 DEF app, pair
<1>3. <<"header">> \in Seq(Words) /\ <<"note", "header">> \in Seq(Words)
  BY <1>w, <1>2
<1>4. /\ <<"header">> \o <<>> = <<"header">> /\ <<>> \o <<"header">> = <<"header">>
      /\ <<>> \o <<"note", "header">> = <<"note", "header">>
  BY <1>3, ConcatEmptySeq
<1>5. /\ ToSet(<<>>) = {} /\ ToSet(<<"header">>) = {"header"}
      /\ ToSet(<<"note", "header">>) = {"note", "header"}
      /\ ToSet(<<"output">>) = {"output"}
      /\ ToSet(<<"header", "output">>) = {"header", "output"}
  BY DEF ToSet
<1> QED
  BY <1>1, <1>2, <1>4, <1>5

(* Before the script the waiting child has touched neither buffer nor client. *)
LEMMA BufferStep == WaitInv /\ BufferInv /\ [CgiNext]_allVars => BufferInv'
<1> SUFFICES ASSUME WaitInv, BufferInv, [CgiNext]_allVars PROVE BufferInv'
  OBVIOUS
<1>1. ASSUME UNCHANGED <<script, stdoutIs, buffer, received>> PROVE BufferInv'
  BY <1>1 DEF BufferInv, Note, Sent, OutputIsClean
<1>2. ASSUME script' \in {"zombie", "reaped"}, OutputIsClean' PROVE BufferInv'
  BY <1>2 DEF BufferInv
<1>3. ASSUME script \in {"zombie", "reaped"}, script' \in {"zombie", "reaped"},
             UNCHANGED <<stdoutIs, received>>
      PROVE  BufferInv'
  BY <1>2, <1>3 DEF BufferInv, OutputIsClean
<1>4. CASE HandleNext \/ ScriptForkFails
  BY <1>1, <1>4 DEF HandleNext, ScriptForkFails, cgiVars
<1>5. CASE ForkScript
  BY <1>5 DEF ForkScript, WaitStep, WaitInv, BufferInv, Note
<1>6. CASE PrintHeader
  BY <1>6, Texts DEF PrintHeader, ScriptStep, BufferInv, Note, Sent
<1>7. CASE Exec
  BY <1>7 DEF Exec, ScriptStep, BufferInv, Sent
<1>8. CASE ExecFails
  <2>1. /\ script = "printed" /\ script' \in {"zombie", "reaped"}
        /\ received' = received \o buffer
    BY <1>8 DEF ExecFails, ScriptEnds
  <2>2. received' = IF stdoutIs = "redirected" THEN <<"note", "header">>
                                               ELSE <<"header">>
    BY <2>1, Texts DEF BufferInv, Sent
  <2>3. OutputIsClean'
    BY <2>2, Texts DEF OutputIsClean
  <2> QED
    BY <1>2, <2>1, <2>3
<1>9. CASE Output
  <2>1. /\ script = "running" /\ script' = "running" /\ "output" \notin ToSet(received)
        /\ received' = Append(received, "output") /\ UNCHANGED <<buffer, stdoutIs>>
    BY <1>9 DEF Output, ScriptStep
  <2>2. received \in {Sent, Append(Sent, "output")} /\ buffer = <<>> /\ Sent' = Sent
    BY <2>1 DEF BufferInv, Sent
  <2>3. received = Sent
    BY <2>1, <2>2, Texts DEF Sent
  <2> QED
    BY <2>1, <2>2, <2>3 DEF BufferInv
<1>10. CASE ScriptExits \/ ScriptKilled
  <2>1. /\ script \in {"forked", "printed", "running"}
        /\ script' \in {"zombie", "reaped"} /\ UNCHANGED <<received, stdoutIs>>
    BY <1>10 DEF ScriptExits, ScriptKilled, ScriptEnds
  <2>2. OutputIsClean
    BY <2>1, Texts DEF BufferInv, Sent, OutputIsClean
  <2> QED
    BY <1>2, <2>1, <2>2 DEF OutputIsClean
<1>11. CASE WaitSleeps \/ WaitFindsNoChild \/ WaitInterrupted
  BY <1>1, <1>11 DEF WaitSleeps, WaitFindsNoChild, WaitInterrupted, WaitStep
<1>12. CASE WaitReaps \/ HandlerReaps
  BY <1>3, <1>12 DEF WaitReaps, HandlerReaps, WaitStep
<1>13. CASE Finish
  <2>1. UNCHANGED <<stdoutIs, buffer, received>>
    BY <1>13 DEF Finish
  <2>2. CASE script = "zombie"
    BY <1>3, <1>13, <2>1, <2>2 DEF Finish
  <2>3. CASE script # "zombie"
    BY <1>1, <1>13, <2>1, <2>3 DEF Finish
  <2> QED
    BY <2>2, <2>3
<1>14. CASE UNCHANGED allVars
  BY <1>1, <1>14 DEF allVars, cgiVars
<1> QED
  BY <1>4, <1>5, <1>6, <1>7, <1>8, <1>9, <1>10, <1>11, <1>12, <1>13, <1>14
  DEF CgiNext, ScriptNext, ChildNext

(* What reaches the client of a CGI request, for any request, file and script. *)
THEOREM OutputClean == CgiSpec => []OutputIsClean
<1>1. CgiInit => WaitInv /\ BufferInv
  BY DEF CgiInit, WaitInv, BufferInv
<1>2. WaitInv /\ BufferInv => OutputIsClean
  BY Texts DEF BufferInv, Sent, OutputIsClean
<1> QED
  BY <1>1, <1>2, WaitStepInv, BufferStep, PTL DEF CgiSpec

-----------------------------------------------------------------------------

(* What was logged and sent when so much is left to do. *)
LogInv ==
    /\ status # 0 => pc = "parsed"
    /\ logCode = status
    /\ logged = <<>> \/ logged = <<status>>
    /\ sent = <<>> \/ (Len(sent) = 1 /\ sent[1].code = status)
    /\ status = 0 => todo = <<>> /\ logged = <<>> /\ sent = <<>> /\ end \in {"", "killed"}
    /\ end = "" => \/ todo = <<>> /\ (status # 0 => logged # <<>>)
                   \/ todo = <<"cgi">> /\ logged = <<>> /\ sent = <<>> /\ parsed.isCGI
                   \/ todo = LogFirst /\ logged = <<>> /\ sent = <<>>
                   \/ todo = WithBody /\ logged = <<>> /\ sent = <<>>
                   \/ todo = <<"log", "body">> /\ logged = <<>>
                   \/ todo = <<"header">> /\ logged # <<>> /\ sent = <<>>
                   \/ todo = <<"body">> /\ logged # <<>>
    /\ end = "returned" => logged # <<>> \/ parsed.isCGI

(* The first of the steps that are left, and the others. *)
LEMMA Steps ==
    /\ Head(<<"cgi">>) = "cgi" /\ Tail(<<"cgi">>) = <<>>
    /\ Head(<<"body">>) = "body" /\ Tail(<<"body">>) = <<>>
    /\ Head(<<"header">>) = "header" /\ Tail(<<"header">>) = <<>>
    /\ Head(<<"log", "body">>) = "log" /\ Tail(<<"log", "body">>) = <<"body">>
    /\ Head(<<"log", "header">>) = "log" /\ Tail(<<"log", "header">>) = <<"header">>
    /\ Head(<<"header", "log", "body">>) = "header"
    /\ Tail(<<"header", "log", "body">>) = <<"log", "body">>
  OBVIOUS

(* The choice of a status is the start of what is left to do. *)
LEMMA DecideStep ==
    ASSUME LogInv, NEW code, NEW steps, code # 0, Decide(code, code, steps),
           \/ steps \in {LogFirst, WithBody}
           \/ steps = <<"cgi">> /\ parsed.isCGI
    PROVE  LogInv'
BY DEF LogInv, Decide, LogFirst, WithBody, parserVars

(* What the head of the steps says of all of them. *)
LEMMA DoStep ==
    ASSUME LogInv
    PROVE  /\ Do("log") => /\ logged = <<>>
                           /\ \/ todo' = <<"header">> /\ sent = <<>>
                              \/ todo' = <<"body">>
           /\ Do("header") => /\ sent = <<>>
                              /\ \/ todo' = <<>> /\ logged # <<>>
                                 \/ todo' = <<"log", "body">> /\ logged = <<>>
           /\ Do("body") => todo' = <<>> /\ logged # <<>>
           /\ Do("cgi") => parsed.isCGI
           /\ \A step : Do(step) =>
                 /\ status # 0
                 /\ UNCHANGED <<parserVars, file, status, logCode>>
<1>1. ASSUME NEW step, Do(step)
      PROVE  /\ end = "" /\ todo # <<>> /\ step = Head(todo) /\ todo' = Tail(todo)
             /\ UNCHANGED <<parserVars, file, status, logCode>>
             /\ status # 0
  BY <1>1 DEF Do, LogInv
<1>2. ASSUME NEW step, Do(step)
      PROVE  \/ step = "cgi" /\ parsed.isCGI
             \/ step = "log" /\ logged = <<>> /\ todo' = <<"header">> /\ sent = <<>>
             \/ step = "log" /\ logged = <<>> /\ todo' = <<"body">>
             \/ step = "header" /\ sent = <<>> /\ logged = <<>> /\ todo' = <<"log", "body">>
             \/ step = "header" /\ sent = <<>> /\ logged # <<>> /\ todo' = <<>>
             \/ step = "body" /\ logged # <<>> /\ todo' = <<>>
  BY <1>1, <1>2, Steps, Zenon DEF LogInv, LogFirst, WithBody
<1>3. /\ Do("log") => /\ logged = <<>>
                      /\ \/ todo' = <<"header">> /\ sent = <<>>
                         \/ todo' = <<"body">>
      /\ Do("header") => /\ sent = <<>>
                         /\ \/ todo' = <<>> /\ logged # <<>>
                            \/ todo' = <<"log", "body">> /\ logged = <<>>
  BY <1>2
<1>4. (Do("body") => todo' = <<>> /\ logged # <<>>) /\ (Do("cgi") => parsed.isCGI)
  BY <1>2
<1> QED
  BY <1>1, <1>3, <1>4, Zenon

(* The parser stops when it is done. *)
LEMMA ParserEnds == ParserNext => pc # "parsed"
<1>1. /\ OutOfMemory \/ NoStatusLine => pc = "status line"
      /\ \A m, p, cgi : StatusLine(m, p, cgi) => pc = "status line"
  BY Zenon DEF OutOfMemory, NoStatusLine, StatusLine
<1>2. RangeRegcompFails \/ RangeRegcomp => pc = "range regex"
  BY Zenon DEF RangeRegcompFails, RangeRegcomp
<1>3. /\ SkipLine \/ LastLine => pc = "lines"
      /\ \A line : RangeLine(line) \/ DateLine(line) => pc = "lines"
  BY Zenon DEF SkipLine, LastLine, RangeLine, DateLine, NextLine
<1> QED
  BY <1>1, <1>2, <1>3 DEF ParserNext

(* What the script does, and how the child waits, concerns neither the log nor the
   response of the child. *)
LEMMA VarsStep ==
    [CgiNext]_allVars =>
        \/ HandleNext /\ Handle
        \/ ScriptForkFails \/ Finish
        \/ UNCHANGED vars
<1>1. HandleNext => Handle
  BY DEF HandleNext
<1>2. ScriptNext \/ WaitInterrupted \/ UNCHANGED allVars => UNCHANGED vars
  BY DEF ScriptNext, PrintHeader, Exec, ExecFails, Output, ScriptExits, ScriptKilled,
         ScriptStep, ScriptEnds, WaitInterrupted, WaitStep, allVars
<1>3. ForkScript \/ WaitSleeps \/ WaitReaps \/ HandlerReaps \/ WaitFindsNoChild
         => UNCHANGED vars
  BY DEF ForkScript, WaitSleeps, WaitReaps, HandlerReaps, WaitFindsNoChild, WaitStep
<1> QED
  BY <1>1, <1>2, <1>3 DEF CgiNext, ChildNext

(* Every step of the child keeps the log and the header in step. *)
LEMMA LogStep == LogInv /\ [CgiNext]_allVars => LogInv'
<1> SUFFICES ASSUME LogInv, [CgiNext]_allVars PROVE LogInv'
  OBVIOUS
<1>1. ASSUME UNCHANGED <<parserVars, status, logCode, todo, logged, sent, end>>
      PROVE  LogInv'
  BY <1>1 DEF LogInv, parserVars
<1>2. CASE Parse
  <2>1. pc # "parsed" /\ UNCHANGED clientVars
    BY <1>2, ParserEnds DEF Parse
  <2> QED
    BY <2>1 DEF LogInv, clientVars
<1>3. CASE Stat
  BY <1>1, <1>3 DEF Stat
<1>4. CASE Check /\ ~Stat
  <2>1. CASE Refused
    <3>1. ErrorCode[parsed.httpState] # 0
      BY <2>1 DEF Refused, Refuses, ErrorCode
    <3> QED
      BY <2>1, <3>1, DecideStep DEF Refused
  <2>2. CASE Missing \/ NotSatisfiable \/ BehindFile \/ PartialContent
    BY <2>2, DecideStep DEF Missing, NotSatisfiable, BehindFile, PartialContent
  <2>3. CASE Special \/ Directory \/ NotModified \/ NotExecutable
    BY <2>3, DecideStep DEF Special, Directory, NotModified, NotExecutable
  <2>4. CASE Cgi \/ Get \/ HeadRequest
    BY <2>4, DecideStep DEF Cgi, Get, HeadRequest
  <2> QED
    BY <1>4, <2>1, <2>2, <2>3, <2>4 DEF Check
<1>5. CASE WriteLog
  <2>1. Append(<<>>, status) = <<status>> /\ <<status>> # <<>>
    OBVIOUS
  <2> QED
    <3>1. /\ logged = <<>> /\ status # 0 /\ end = "" /\ end' = end
          /\ \/ todo' = <<"header">> /\ sent = <<>>
             \/ todo' = <<"body">>
          /\ UNCHANGED <<parserVars, file, status, logCode, sent>>
          /\ logged' = Append(logged, logCode)
      BY <1>5, DoStep DEF WriteLog, Do
    <3>2. logged' = Append(<<>>, status)
      BY <3>1 DEF LogInv
    <3>3. logged' = <<status>> /\ logged' # <<>>
      BY <2>1, <3>2, Zenon
    <3> QED
      BY <3>1, <3>3 DEF LogInv, parserVars
<1>6. CASE KilledWhileFormatting \/ ClientGone
  BY <1>6, DoStep DEF KilledWhileFormatting, ClientGone, LogInv, parserVars
<1>7. CASE WriteHeader
  <2>1. ASSUME NEW x PROVE Append(<<>>, x) = <<x>> /\ Len(<<x>>) = 1 /\ <<x>>[1] = x
    OBVIOUS
  <2>2. \E fields : sent' = Append(sent, [code |-> status, fields |-> fields])
    BY <1>7 DEF WriteHeader
  <2>3. Len(sent') = 1 /\ sent'[1].code = status
    BY <1>7, <2>1, <2>2, DoStep DEF WriteHeader
  <2> QED
    BY <1>7, <2>3, DoStep DEF WriteHeader, LogInv, parserVars, Do
<1>8. CASE HeaderTimesOut
  BY <1>8, DoStep DEF HeaderTimesOut, LogInv, parserVars, Do
<1>9. CASE WriteBody
  BY <1>9, DoStep DEF WriteBody, LogInv, parserVars
<1>10. CASE MallocFails
  BY <1>10 DEF MallocFails, LogInv, parserVars
<1>11. CASE Return
  BY <1>11 DEF Return, LogInv, parserVars, LogFirst, WithBody
<1>12. CASE ScriptForkFails \/ Finish
  <2>1. /\ Do("cgi") /\ end' \in {"exited", "returned"}
        /\ UNCHANGED <<logged, sent>>
    BY <1>12 DEF ScriptForkFails, Finish
  <2> QED
    BY <2>1, DoStep DEF LogInv, parserVars
<1>13. CASE UNCHANGED vars
  BY <1>1, <1>13 DEF vars, clientVars
<1>c. CASE StatusLineCrashes
  BY <1>c DEF StatusLineCrashes, LogInv, parserVars
<1>14. \/ HandleNext /\ Handle
       \/ ScriptForkFails \/ Finish
       \/ UNCHANGED vars
  BY VarsStep
<1> QED
  BY <1>2, <1>3, <1>4, <1>5, <1>6, <1>7, <1>8, <1>9, <1>10, <1>11, <1>12, <1>13, <1>c,
     <1>14
  DEF Handle

(* The log tells the status that the client got, for any request and any file. *)
THEOREM StatusLogged == CgiSpec => []LogTellsStatus
<1>1. CgiInit => LogInv
  BY DEF CgiInit, Init, LogInv
<1>2. LogInv => LogTellsStatus
  <2>1. Len(<<>>) = 0 /\ Len(<<status>>) = 1 /\ <<status>>[1] = status
    OBVIOUS
  <2>2. ASSUME LogInv PROVE Len(logged) <= 1 /\ Len(sent) <= 1
    <3>1. Len(logged) = 0 \/ Len(logged) = 1
      BY <2>1, <2>2, Zenon DEF LogInv
    <3>2. Len(sent) = 0 \/ Len(sent) = 1
      BY <2>1, <2>2, Zenon DEF LogInv
    <3>3. \A n : n = 0 \/ n = 1 => n <= 1
      OBVIOUS
    <3> QED
      BY <3>1, <3>2, <3>3, Zenon
  <2>3. ASSUME LogInv, logged # <<>>, sent # <<>> PROVE logged[1] = sent[1].code
    <3>1. logged = <<status>>
      BY <2>3 DEF LogInv
    <3>2. sent[1].code = status
      BY <2>3 DEF LogInv
    <3> QED
      BY <2>1, <3>1, <3>2, Zenon
  <2> QED
    BY <2>2, <2>3, Zenon DEF LogInv, LogTellsStatus
<1> QED
  BY <1>1, <1>2, LogStep, PTL DEF CgiSpec
-----------------------------------------------------------------------------

(* The header of a response with this status, this range and this file. *)
Header ==
    [code |-> status,
     fields |-> IF status \in {200, 206}
                THEN ResponseHeader(parsed.byteStart, parsed.byteEnd, file.size)
                ELSE [contentRange |-> NoField, contentLength |-> NoField]]

(* How the status follows from the result of the parser and from the file. *)
Decided ==
    /\ pc = "parsed"
    /\ status \in Codes
    /\ Refuses \/ file # NoStat
    /\ Partial => status = IF Behind THEN 416 ELSE 206
    /\ status = 206 => Partial /\ ~Behind
    /\ Whole /\ file.kind = "regular" => IF status = 304 THEN NotChanged ELSE Changed
    /\ status = 200 => Whole

StatusInv ==
    /\ ParserInv
    /\ file \in Files \cup {NoStat}
    /\ status # 0 => Decided
    /\ sent = <<>> \/ (status # 0 /\ sent = <<Header>>)

(* What the fields of a file are. *)
LEMMA FileTypes ==
    /\ NoStat.kind = "not looked at" /\ NoStat.size = 0
    /\ file \in Files =>
          /\ file # NoStat
          /\ file.size \in Nat
          /\ file.kind \in {"missing", "special", "directory", "regular"}
<1> DEFINE Kinds == {"not looked at", "missing", "special", "directory", "regular"}
           Stats == [kind : Kinds, size : Int, mtime : Int, exec : BOOLEAN]
<1>1. NoStat \in Stats /\ NoStat.kind = "not looked at" /\ NoStat.size = 0
  BY DEF NoStat
<1>2. \A k \in Kinds, s \in Int : FileOf(k, s).kind = k /\ FileOf(k, s).size = s
  BY <1>1 DEF FileOf
<1> DEFINE Others == {FileOf(k, s) : k \in {"special", "directory"}, s \in Sizes}
           Regular == [kind : {"regular"}, size : Sizes, mtime : Times, exec : BOOLEAN]
<1>3. file \in Files => file = FileOf("missing", 0) \/ file \in Others \/ file \in Regular
  BY DEF Files
<1>4. ASSUME file \in Others
      PROVE  file.kind \in {"special", "directory"} /\ file.size \in Nat
  <2>1. PICK k \in {"special", "directory"}, s \in Sizes : file = FileOf(k, s)
    BY <1>4
  <2>2. k \in Kinds
    OBVIOUS
  <2>3. s \in Nat /\ s \in Int
    BY FileConstants
  <2>4. file.kind = k /\ file.size = s
    <3> HIDE DEF Kinds
    <3> QED
      BY <1>2, <2>1, <2>2, <2>3
  <2> QED
    BY <2>3, <2>4
<1>5. file \in Regular => file.kind = "regular" /\ file.size \in Nat
  BY FileConstants
<1>6. FileOf("missing", 0).kind = "missing" /\ FileOf("missing", 0).size = 0
  <2>1. "missing" \in Kinds /\ 0 \in Int
    OBVIOUS
  <2> HIDE DEF Kinds
  <2> QED
    BY <1>2, <2>1, Zenon
<1> HIDE DEF Others, Regular
<1>7. file \in Files => /\ file.kind \in {"missing", "special", "directory", "regular"}
                        /\ file.size \in Nat
  BY <1>3, <1>4, <1>5, <1>6
<1> QED
  BY <1>1, <1>7

(* Each check of handle_client() comes to its status only where the checks before it
   have not. *)
LEMMA CheckDecides ==
    ASSUME StatusInv, Check, ~Stat
    PROVE  /\ status = 0 /\ status' \in Codes
           /\ UNCHANGED <<parserVars, file, sent>>
           /\ Decided'
<1>1. ASSUME NEW code \in Codes, NEW steps, Decide(code, code, steps),
             Refuses \/ file # NoStat,
             Partial => code = IF Behind THEN 416 ELSE 206,
             code = 206 => Partial /\ ~Behind,
             Whole /\ file.kind = "regular" => IF code = 304 THEN NotChanged ELSE Changed,
             code = 200 => Whole
      PROVE  /\ status = 0 /\ status' \in Codes
             /\ UNCHANGED <<parserVars, file, sent>>
             /\ Decided'
  <2>1. /\ pc = "parsed" /\ status = 0 /\ status' = code
        /\ UNCHANGED <<parserVars, file, sent>>
    BY <1>1 DEF Decide
  <2>2. /\ Refuses' = Refuses /\ Partial' = Partial /\ Behind' = Behind
        /\ Whole' = Whole /\ NotChanged' = NotChanged /\ Changed' = Changed /\ pc' = pc
    BY <2>1 DEF Refuses, Partial, Behind, Whole, NotChanged, Changed, Seconds, Exists,
                parserVars
  <2> QED
    BY <1>1, <2>1, <2>2 DEF Decided
<1>2. {200, 206, 301, 304, 400, 403, 404, 416, 500, 501} = Codes
  BY DEF Codes
<1>3. file = NoStat => ~Exists /\ file.kind # "missing"
  BY FileTypes DEF Exists
<1>4. (Partial => Exists /\ ~Whole) /\ (Whole => Exists) /\ (Exists => ~Refuses)
  BY DEF Partial, Whole, Exists
<1>5. CASE Refused
  <2>1. ErrorCode[parsed.httpState] \in {400, 500, 501} /\ Refuses
    BY <1>5 DEF Refused, Refuses, ErrorCode
  <2> QED
    BY <1>1, <1>2, <1>4, <1>5, <2>1 DEF Refused
<1>6. CASE Missing
  <2>1. ~Exists
    BY <1>6 DEF Missing, Exists
  <2> QED
    BY <1>1, <1>2, <1>3, <1>4, <1>6, <2>1 DEF Missing
<1>7. CASE NotSatisfiable
  <2>1. ~Partial /\ ~Whole
    BY <1>7 DEF NotSatisfiable, Partial, Whole
  <2> QED
    BY <1>1, <1>2, <1>3, <1>7, <2>1 DEF NotSatisfiable
<1>8. CASE BehindFile \/ PartialContent
  BY <1>1, <1>2, <1>3, <1>4, <1>8 DEF BehindFile, PartialContent
<1>9. CASE Special \/ Directory \/ NotModified
  BY <1>1, <1>2, <1>3, <1>4, <1>9 DEF Special, Directory, NotModified
<1>10. CASE NotExecutable \/ Cgi \/ Get \/ HeadRequest
  BY <1>1, <1>2, <1>3, <1>4, <1>10 DEF NotExecutable, Cgi, Get, HeadRequest, Servable
<1> QED
  BY <1>5, <1>6, <1>7, <1>8, <1>9, <1>10 DEF Check

(* Nothing changes a decision, and the header tells it. *)
LEMMA StatusStep == LogInv /\ StatusInv /\ [CgiNext]_allVars => StatusInv'
<1> SUFFICES ASSUME LogInv, StatusInv, [CgiNext]_allVars PROVE StatusInv'
  OBVIOUS
<1>1. ASSUME UNCHANGED <<parserVars, file, status>>
      PROVE  /\ ParserInv' /\ (file \in Files \cup {NoStat})'
             /\ (status # 0 => Decided)' /\ Header' = Header
  <2>1. ParserInv'
    BY <1>1, ParserStep DEF StatusInv
  <2>2. /\ Refuses' = Refuses /\ Partial' = Partial /\ Behind' = Behind
        /\ Whole' = Whole /\ NotChanged' = NotChanged /\ Changed' = Changed /\ pc' = pc
    BY <1>1 DEF Refuses, Partial, Behind, Whole, NotChanged, Changed, Seconds, Exists,
                parserVars
  <2>3. Header' = Header
    BY <1>1 DEF Header, parserVars
  <2> QED
    BY <1>1, <2>1, <2>2, <2>3 DEF StatusInv, Decided
<1>2. ASSUME UNCHANGED <<parserVars, file, status, sent>> PROVE StatusInv'
  BY <1>1, <1>2 DEF StatusInv
<1>3. CASE Parse
  <2>1. ParserInv' /\ UNCHANGED <<file, status, sent>>
    BY <1>3, ParserStep DEF Parse, StatusInv, clientVars
  <2>2. status = 0
    BY <1>3, ParserEnds DEF Parse, LogInv
  <2> QED
    BY <2>1, <2>2 DEF StatusInv
<1>4. CASE Stat
  <2>1. status = 0 /\ file' \in Files /\ UNCHANGED <<parserVars, status, sent>>
    BY <1>4 DEF Stat, StatusInv, Decided
  <2>2. ParserInv'
    BY <2>1, ParserStep DEF StatusInv
  <2> QED
    BY <2>1, <2>2 DEF StatusInv
<1>5. CASE Check /\ ~Stat
  <2>1. /\ status = 0 /\ UNCHANGED <<parserVars, file, sent>> /\ Decided'
    BY <1>5, CheckDecides
  <2>2. ParserInv'
    BY <2>1, ParserStep DEF StatusInv
  <2> QED
    BY <2>1, <2>2 DEF StatusInv
<1>6. CASE WriteHeader
  <2>1. /\ sent = <<>> /\ status # 0
        /\ UNCHANGED <<parserVars, file, status, logCode>>
    BY <1>6, DoStep DEF WriteHeader
  <2>2. sent' = Append(sent, Header)
    BY <1>6 DEF WriteHeader, Header
  <2>3. \A x : Append(<<>>, x) = <<x>>
    OBVIOUS
  <2>4. sent' = <<Header>>
    BY <2>1, <2>2, <2>3
  <2> QED
    BY <1>1, <2>1, <2>4 DEF StatusInv
<1>7. CASE WriteLog \/ KilledWhileFormatting \/ HeaderTimesOut \/ ClientGone \/ WriteBody
  BY <1>2, <1>7 DEF WriteLog, KilledWhileFormatting, HeaderTimesOut, ClientGone, WriteBody,
                    Do
<1>8. CASE StatusLineCrashes \/ MallocFails \/ Return
  BY <1>2, <1>8 DEF StatusLineCrashes, MallocFails, Return
<1>9. CASE ScriptForkFails \/ Finish
  BY <1>2, <1>9 DEF ScriptForkFails, Finish, Do
<1>10. CASE UNCHANGED vars
  BY <1>2, <1>10 DEF vars, clientVars
<1>11. \/ HandleNext /\ Handle
       \/ ScriptForkFails \/ Finish
       \/ UNCHANGED vars
  BY VarsStep
<1> QED
  BY <1>3, <1>4, <1>5, <1>6, <1>7, <1>8, <1>9, <1>10, <1>11 DEF Handle

LEMMA StatusStart == CgiInit => LogInv /\ StatusInv
BY ParserStart DEF CgiInit, Init, LogInv, StatusInv

(* The parser tells the last range, for any number of header lines and any digits. *)
THEOREM RangeDecides == CgiSpec => []LastRangeDecides
<1>1. StatusInv => LastRangeDecides
  BY DEF StatusInv, ParserInv, LastRangeDecides
<1> QED
  BY <1>1, StatusStart, StatusStep, LogStep, PTL DEF CgiSpec

(* What a decision knows of the header lines. *)
LEMMA DecidedByLines ==
    ASSUME StatusInv, status # 0, ~Refuses
    PROVE  /\ RangeOfLines
           /\ LastRange = <<>> \/
                 /\ LastRange[1] \in RangeLines
                 /\ parsed.httpState \in {"PARTIAL_CONTENT", "RANGE_NOT_SATISFIABLE"}
           /\ LastDate \in {<<>>} \cup {<<line>> : line \in DateLines}
           /\ parsed.modsince = IF LastDate = <<>> THEN 0 ELSE LastDate[1].date
           /\ parsed.byteStart \in Int /\ parsed.byteEnd \in Int
<1>1. pc = "parsed" /\ ParserTypeOK
  BY DEF StatusInv, Decided, ParserInv
<1>2. Complete
  BY <1>1 DEF ParserTypeOK, States, Refuses, Complete
<1> QED
  BY <1>1, <1>2 DEF StatusInv, ParserInv, ParserTypeOK

(* The bounds of a range that an int can hold, with the status that goes with them. *)
LEMMA PartialBounds ==
    ASSUME StatusInv, status # 0, Partial, ~Overflowed
    PROVE  /\ LastRange # <<>>
           /\ parsed.byteStart \in Int /\ parsed.byteStart >= Open
           /\ parsed.byteEnd \in Int /\ parsed.byteEnd >= Open
           /\ LastRange[1].last = <<>> =>
                 parsed.byteStart = Number(LastRange[1].first)
<1>1. ~Refuses /\ parsed.httpState = "PARTIAL_CONTENT"
  BY DEF Partial, Exists
<1>2. LastRange # <<>>
  BY <1>1, DecidedByLines DEF RangeOfLines
<1> DEFINE line == LastRange[1]
<1>3. line \in RangeLines /\ ~Overflows(line)
  BY <1>1, <1>2, DecidedByLines DEF Overflowed
<1>4. /\ line.first \in Seq(0..9) /\ line.last \in Seq(0..9)
      /\ line.first # <<>> \/ line.last # <<>>
  BY <1>3, LineKinds
<1>5. Number(line.first) \in Nat /\ Number(line.last) \in Nat
  BY <1>4, NumberTypes
<1>6. /\ parsed.byteStart = IF line.first = <<>> THEN Open ELSE Number(line.first)
      /\ parsed.byteEnd = IF line.last = <<>> THEN Open ELSE Number(line.last)
  BY <1>1, <1>2, <1>3, DecidedByLines DEF RangeOfLines
<1> QED
  BY <1>2, <1>4, <1>5, <1>6 DEF Open

(* "n-" gets the bytes from n on if there are any, for every n that an int can hold,
   every file, and whatever lines came before. *)
THEOREM OpenRange == CgiSpec => []OpenRangeStatus
<1>1. ASSUME StatusInv PROVE OpenRangeStatus
  <2> SUFFICES ASSUME status # 0, Exists, LastRange # <<>>, ~Overflowed,
                      LastRange[1].last = <<>>
               PROVE  status = IF Number(LastRange[1].first) < file.size THEN 206 ELSE 416
    BY DEF OpenRangeStatus
  <2>1. ~Refuses
    BY DEF Exists
  <2>2. parsed.httpState = "PARTIAL_CONTENT"
    BY <1>1, <2>1, DecidedByLines DEF RangeOfLines, Overflowed
  <2>3. Partial
    BY <2>2 DEF Partial
  <2>4. parsed.byteStart = Number(LastRange[1].first) /\ parsed.byteStart \in Int
    BY <2>3, <1>1, PartialBounds
  <2>5. file \in Files /\ file.size \in Nat
    BY <1>1, <2>1, FileTypes DEF StatusInv, Decided
  <2>6. Behind <=> ~(Number(LastRange[1].first) < file.size)
    BY <2>4, <2>5 DEF Behind
  <2> QED
    BY <1>1, <2>3, <2>6 DEF StatusInv, Decided
<1> QED
  BY <1>1, StatusStart, StatusStep, LogStep, PTL DEF CgiSpec

(* A regular file has a time. *)
LEMMA RegularFile ==
    file \in Files /\ file.kind = "regular" => file.mtime \in Int
<1>1. \A k, s : FileOf(k, s).mtime = 0
  BY DEF FileOf, NoStat
<1>2. \A f \in [kind : {"regular"}, size : Sizes, mtime : Times, exec : BOOLEAN] :
         f.mtime \in Int
  BY FileConstants
<1> QED
  BY <1>1, <1>2 DEF Files

(* What the conversion to an int does to the sign of a number. *)
LEMMA ToIntFacts ==
    ASSUME NEW n \in Int
    PROVE  /\ ToInt(n) \subseteq Int
           /\ \A i \in ToInt(n) : i >= 0 => n >= 0
           /\ n \in 0..IntMax => \A i \in ToInt(n) : i >= 0
BY IntIsWide DEF ToInt

(* The last date decides about a file without a range, for all dates and files, those
   further apart than an int can say included. *)
THEOREM LastDateDecides == CgiSpec => []ConditionalGet
<1>1. ASSUME StatusInv PROVE ConditionalGet
  <2> DEFINE dated == LastDate \notin {<<>>, <<[date |-> 0]>>}
             later == LastDate[1].date - file.mtime
  <2> SUFFICES ASSUME status # 0, Whole, file.kind = "regular"
               PROVE  /\ status = 304 => dated /\ later >= 0
                      /\ dated /\ later \in 0..IntMax => status = 304
    BY DEF ConditionalGet
  <2>1. ~Refuses
    BY DEF Whole, Exists
  <2>2. IF status = 304 THEN NotChanged ELSE Changed
    BY <1>1 DEF StatusInv, Decided
  <2>3. CASE LastDate = <<>>
    <3>1. parsed.modsince = 0
      BY <1>1, <2>1, <2>3, DecidedByLines
    <3>2. ~NotChanged
      BY <3>1 DEF NotChanged
    <3> QED
      BY <2>2, <2>3, <3>2
  <2>4. CASE LastDate # <<>>
    <3>1. PICK line \in DateLines : LastDate = <<line>>
      BY <1>1, <2>1, <2>4, DecidedByLines
    <3>2. PICK d \in Dates : line = [date |-> d]
      BY DEF DateLines
    <3>3. parsed.modsince = d /\ LastDate[1].date = d
      BY <1>1, <2>1, <2>4, <3>1, <3>2, DecidedByLines
    <3>4. dated <=> d # 0
      BY <2>4, <3>1, <3>2
    <3>5. d \in Int /\ file.mtime \in Int /\ later \in Int /\ later = d - file.mtime
      BY <1>1, <2>1, <3>2, <3>3, RegularFile, ParserConstants DEF StatusInv, Decided
    <3>6. Seconds = ToInt(later)
      BY <3>3, <3>5 DEF Seconds
    <3> HIDE DEF dated, later
    <3>7. NotChanged => dated /\ later >= 0
      BY <3>3, <3>4, <3>5, <3>6, ToIntFacts DEF NotChanged
    <3>8. Changed => ~(dated /\ later \in 0..IntMax)
      <4>1. \A i \in Seconds : i \in Int /\ (later \in 0..IntMax => i >= 0)
        BY <3>5, <3>6, ToIntFacts
      <4> QED
        BY <3>3, <3>4, <4>1 DEF Changed
    <3> QED
      BY <2>2, <3>7, <3>8 DEF dated, later
  <2> QED
    BY <2>3, <2>4
<1> QED
  BY <1>1, StatusStart, StatusStep, LogStep, PTL DEF CgiSpec

(* What the only header says, if it is written. *)
LEMMA OneHeader ==
    ASSUME StatusInv
    PROVE  \A i \in DOMAIN sent : status # 0 /\ sent[i] = Header
<1>1. \A h : DOMAIN <<h>> = {1} /\ <<h>>[1] = h
  OBVIOUS
<1>2. DOMAIN <<>> = {}
  OBVIOUS
<1> QED
  BY <1>1, <1>2 DEF StatusInv

(* The sentinels of the parser and the status agree, whatever lines and file. *)
THEOREM ContentRangeAgrees == CgiSpec => []ContentRangeIff206
<1>1. ASSUME StatusInv PROVE ContentRangeIff206
  <2> SUFFICES ASSUME ~Overflowed, status # 0
               PROVE  Header.fields.contentRange # NoField <=> Header.code = 206
    BY <1>1, OneHeader DEF ContentRangeIff206
  <2>1. Header.code = status
    BY DEF Header
  <2>2. CASE status = 206
    <3>1. parsed.byteStart >= Open /\ parsed.byteEnd >= Open
          /\ parsed.byteStart \in Int /\ parsed.byteEnd \in Int
      BY <1>1, <2>2, PartialBounds DEF StatusInv, Decided
    <3>2. parsed.byteStart # Unset /\ parsed.byteEnd # Unset
      BY <3>1 DEF Open, Unset
    <3>3. Header.fields.contentRange =
              ContentRange(parsed.byteStart, file.size, 3 * SizeofInt)
      BY <2>2, <3>2 DEF Header, ResponseHeader
    <3>4. \A a, b, c, chars, room : Field(<<a, b, c>>, chars, room) # NoField
      <4>1. ASSUME NEW a, NEW b, NEW c, NEW chars, NEW room
            PROVE  Field(<<a, b, c>>, chars, room).values # NoField.values
        BY DEF Field, NoField
      <4> QED
        BY <4>1
    <3> QED
      BY <2>1, <2>2, <3>3, <3>4 DEF ContentRange
  <2>3. CASE status = 200
    <3>1. Whole /\ ~Refuses /\ parsed.httpState = "OK"
      BY <1>1, <2>3 DEF StatusInv, Decided, Whole, Exists
    <3>2. LastRange = <<>>
      BY <1>1, <3>1, DecidedByLines
    <3>3. parsed.byteStart = Unset
      BY <1>1, <3>1, <3>2, DecidedByLines DEF RangeOfLines
    <3> QED
      BY <2>1, <2>3, <3>3 DEF Header, ResponseHeader
  <2>4. CASE status \notin {200, 206}
    BY <2>1, <2>4 DEF Header
  <2> QED
    BY <2>2, <2>3, <2>4
<1> QED
  BY <1>1, StatusStart, StatusStep, LogStep, PTL DEF CgiSpec

(* The buffers of the header lines hold every range of a file of that size. *)
THEOREM HeaderLinesWhole == CgiSpec => []HeaderLinesAreWhole
<1>1. ASSUME StatusInv PROVE HeaderLinesAreWhole
  <2> SUFFICES ASSUME file.size + 1 < PowerOfTen[SizeofInt], ~Overflowed, status # 0
               PROVE  /\ Header.fields.contentRange.cut = 0
                      /\ Header.fields.contentLength.cut = 0
    BY <1>1, OneHeader DEF HeaderLinesAreWhole
  <2>1. NoField.cut = 0
    BY DEF NoField
  <2>2. CASE status = 206
    <3>1. Partial /\ ~Behind
      BY <1>1, <2>2 DEF StatusInv, Decided
    <3>2. file.size \in Nat
      BY <1>1, <3>1, FileTypes DEF StatusInv, Decided, Partial, Exists
    <3>3. /\ parsed.byteStart \in Int /\ parsed.byteStart >= -1
          /\ parsed.byteEnd \in Int /\ parsed.byteEnd >= -1
      BY <1>1, <3>1, PartialBounds DEF Open
    <3>4. parsed.byteStart # Unset /\ parsed.byteEnd # Unset
      BY <3>3 DEF Unset
    <3>5. parsed.byteStart < file.size
      BY <3>1, <3>2, <3>3 DEF Behind
    <3>6. Header.fields =
              [contentRange |-> ContentRange(parsed.byteStart, file.size, 3 * SizeofInt),
               contentLength |-> ContentLength(Wrap(file.size - parsed.byteStart),
                                               SizeofInt)]
      BY <2>2, <3>4 DEF Header, ResponseHeader, LengthLine
    <3> QED
      BY <3>2, <3>3, <3>5, <3>6, HeaderFits
  <2>3. CASE status = 200
    <3>1. Whole /\ ~Refuses /\ parsed.httpState = "OK"
      BY <1>1, <2>3 DEF StatusInv, Decided, Whole, Exists
    <3>2. LastRange = <<>>
      BY <1>1, <3>1, DecidedByLines
    <3>3. parsed.byteStart = Unset
      BY <1>1, <3>1, <3>2, DecidedByLines DEF RangeOfLines
    <3>4. file.size \in Nat
      BY <1>1, <3>1, FileTypes DEF StatusInv, Decided
    <3>5. Header.fields = [contentRange |-> NoField,
                           contentLength |-> ContentLength(file.size, SizeofLongLong)]
      BY <2>3, <3>3 DEF Header, ResponseHeader, LengthLine
    <3> QED
      BY <2>1, <3>4, <3>5, HeaderFits
  <2>4. CASE status \notin {200, 206}
    BY <2>1, <2>4 DEF Header
  <2> QED
    BY <2>2, <2>3, <2>4
<1> QED
  BY <1>1, StatusStart, StatusStep, LogStep, PTL DEF CgiSpec

-----------------------------------------------------------------------------

(* What is left to do. *)
Todos == {<<>>, <<"cgi">>, <<"header">>, <<"body">>, <<"log", "body">>, LogFirst, WithBody}

(* The types that do not follow from the invariants above. *)
ChildTypes ==
    /\ todo \in Todos
    /\ end \in {"", "returned", "killed", "exited"}
    /\ waitAt \in {"none", "before", "asleep", "done"}
    /\ result \in Results /\ waited \in Results
    /\ stopped \in BOOLEAN
    /\ stdoutIs \in Stdouts \cup {"not looked at"}
    /\ buffer \in {<<>>, <<"note">>, <<"header">>, <<"note", "header">>}
    /\ received \in Seq({"note", "header", "output"})

(* What is left of the steps is again one of the lists of steps. *)
LEMMA DoTypes ==
    ASSUME todo \in Todos, NEW step, Do(step)
    PROVE  todo' \in Todos
<1>1. todo # <<>> /\ todo' = Tail(todo)
  BY DEF Do
<1>2. Tail(todo) \in {<<>>, <<"body">>, <<"header">>, <<"log", "body">>}
  BY <1>1, Steps, Zenon DEF Todos, LogFirst, WithBody
<1> QED
  BY <1>1, <1>2 DEF Todos

(* The child goes through its steps to its end. *)
LEMMA HandleTypes ==
    ASSUME todo \in Todos, end \in {"", "returned", "killed", "exited"}, Handle
    PROVE  todo' \in Todos /\ end' \in {"", "returned", "killed", "exited"}
<1>1. CASE Parse \/ Stat
  BY <1>1 DEF Parse, Stat, clientVars
<1>2. CASE Check /\ ~Stat
  <2> DEFINE Goal == todo' \in Todos /\ end' \in {"", "returned", "killed", "exited"}
  <2>1. \A code, coded : Decide(code, coded, LogFirst) => Goal
    BY DEF Decide, Todos
  <2>2. \A code, coded : Decide(code, coded, WithBody) => Goal
    BY DEF Decide, Todos
  <2>3. \A code, coded : Decide(code, coded, <<"cgi">>) => Goal
    BY DEF Decide, Todos
  <2> HIDE DEF Goal
  <2>4. Refused \/ Missing \/ NotSatisfiable \/ BehindFile => Goal
    BY <2>1, Zenon DEF Refused, Missing, NotSatisfiable, BehindFile
  <2>5. Special \/ Directory \/ NotModified \/ NotExecutable \/ HeadRequest => Goal
    BY <2>1, Zenon DEF Special, Directory, NotModified, NotExecutable, HeadRequest
  <2>6. PartialContent \/ Get => Goal
    BY <2>2, Zenon DEF PartialContent, Get
  <2>7. Cgi => Goal
    BY <2>3, Zenon DEF Cgi
  <2> QED
    BY <1>2, <2>4, <2>5, <2>6, <2>7 DEF Check, Goal
<1>3. CASE WriteLog \/ WriteHeader \/ HeaderTimesOut
  BY <1>3, DoTypes DEF WriteLog, WriteHeader, HeaderTimesOut
<1>4. CASE KilledWhileFormatting \/ ClientGone \/ WriteBody
  BY <1>4, DoTypes DEF KilledWhileFormatting, ClientGone, WriteBody
<1>5. CASE StatusLineCrashes \/ MallocFails \/ Return
  BY <1>5 DEF StatusLineCrashes, MallocFails, Return
<1> QED
  BY <1>1, <1>2, <1>3, <1>4, <1>5 DEF Handle

(* What the script writes is of the words that it has. *)
LEMMA ScriptTypes ==
    ASSUME ChildTypes, BufferInv, ScriptNext
    PROVE  ChildTypes'
<1>1. /\ UNCHANGED <<todo, end, waitAt, waited, stopped, stdoutIs>>
      /\ result' \in Results
  BY DEF ScriptNext, PrintHeader, Exec, ExecFails, Output, ScriptExits, ScriptKilled,
         ScriptStep, ScriptEnds, ChildTypes, Results, vars, clientVars
<1>2. buffer' \in {<<>>, <<"note">>, <<"header">>, <<"note", "header">>}
  <2>1. CASE PrintHeader
    <3>1. buffer \in {<<>>, <<"note">>} /\ buffer' \in {buffer, Append(buffer, "header")}
      BY <2>1 DEF PrintHeader, ScriptStep, BufferInv, Note
    <3> QED
      BY <3>1, Texts
  <2>2. CASE Exec \/ ExecFails \/ Output \/ ScriptExits \/ ScriptKilled
    BY <2>2 DEF Exec, ExecFails, Output, ScriptExits, ScriptKilled, ChildTypes
  <2> QED
    BY <2>1, <2>2 DEF ScriptNext
<1>3. received' \in Seq({"note", "header", "output"})
  <2> DEFINE Words == {"note", "header", "output"}
  <2>1. received \in Seq(Words)
    BY DEF ChildTypes
  <2>2. buffer \in Seq(Words)
    <3>1. <<>> \in Seq(Words) /\ <<"note">> \in Seq(Words) /\ <<"header">> \in Seq(Words)
      OBVIOUS
    <3>2. <<"note", "header">> \in Seq(Words)
      OBVIOUS
    <3> QED
      BY <3>1, <3>2, Zenon DEF ChildTypes
  <2>3. \/ received' = received
        \/ received' = Append(received, "header")
        \/ received' = Append(received, "output")
        \/ received' = received \o buffer
    BY Zenon DEF ScriptNext, PrintHeader, Exec, ExecFails, Output, ScriptExits,
                 ScriptKilled, ScriptStep
  <2>4. "header" \in Words /\ "output" \in Words
    OBVIOUS
  <2> HIDE DEF Words
  <2>5. /\ Append(received, "header") \in Seq(Words)
        /\ Append(received, "output") \in Seq(Words)
    BY <2>1, <2>4, AppendProperties
  <2>6. received \o buffer \in Seq(Words)
    BY <2>1, <2>2, ConcatProperties
  <2>7. received' \in Seq(Words)
    BY <2>1, <2>3, <2>5, <2>6, Zenon
  <2> QED
    BY <2>7 DEF Words
<1> QED
  BY <1>1, <1>2, <1>3 DEF ChildTypes

LEMMA TypesStep == BufferInv /\ ChildTypes /\ [CgiNext]_allVars => ChildTypes'
<1> SUFFICES ASSUME BufferInv, ChildTypes, [CgiNext]_allVars PROVE ChildTypes'
  OBVIOUS
<1>1. CASE HandleNext
  <2>1. Handle /\ UNCHANGED cgiVars
    BY <1>1 DEF HandleNext
  <2> QED
    BY <2>1, HandleTypes DEF ChildTypes, cgiVars
<1>2. CASE ScriptForkFails
  BY <1>2, DoTypes DEF ScriptForkFails, ChildTypes, cgiVars
<1>3. CASE Finish
  BY <1>3, DoTypes DEF Finish, ChildTypes
<1>4. CASE ScriptNext
  BY <1>4, ScriptTypes
<1>5. CASE ForkScript
  <2>1. <<>> # <<"note">> /\ waitAt' = "before" /\ stdoutIs' \in Stdouts
    BY <1>5 DEF ForkScript, WaitStep
  <2> QED
    BY <1>5, <2>1 DEF ForkScript, WaitStep, ChildTypes, vars, clientVars
<1>6. CASE WaitSleeps \/ WaitReaps \/ HandlerReaps \/ WaitFindsNoChild \/ WaitInterrupted
  BY <1>6 DEF WaitSleeps, WaitReaps, HandlerReaps, WaitFindsNoChild, WaitInterrupted,
              WaitStep, ChildTypes, vars, clientVars
<1>7. CASE UNCHANGED allVars
  BY <1>7 DEF allVars, vars, clientVars, cgiVars, ChildTypes
<1> QED
  BY <1>1, <1>2, <1>3, <1>4, <1>5, <1>6, <1>7 DEF CgiNext, ChildNext

(* Every variable of a child has its type, for any request, file and script. *)
THEOREM CgiTypes == CgiSpec => []CgiTypeOK
<1>1. CgiInit => WaitInv /\ BufferInv /\ ChildTypes
  <2>1. <<>> \in Seq({"note", "header", "output"}) /\ <<>> \in Todos
    BY DEF Todos
  <2>2. CgiInit => /\ todo \in Todos
                   /\ buffer = <<>> /\ received \in Seq({"note", "header", "output"})
    BY <2>1, Zenon DEF CgiInit, Init
  <2>3. CgiInit => ChildTypes
    BY <2>2 DEF CgiInit, Init, ChildTypes, Results
  <2> QED
    BY <2>3 DEF CgiInit, WaitInv, BufferInv
<1>2. ASSUME LogInv, StatusInv, BufferInv, ChildTypes PROVE CgiTypeOK
  <2>1. ParserTypeOK /\ file \in Files \cup {NoStat}
    BY <1>2 DEF StatusInv, ParserInv
  <2>2. status \in Codes \cup {0} /\ logCode \in Codes \cup {0}
    BY <1>2 DEF StatusInv, Decided, LogInv
  <2>3. logged \in Seq(Codes)
    <3>1. status # 0 => <<status>> \in Seq(Codes)
      BY <1>2 DEF StatusInv, Decided
    <3>2. logged = <<>> \/ (logged = <<status>> /\ status # 0)
      BY <1>2 DEF LogInv
    <3>3. <<>> \in Seq(Codes)
      OBVIOUS
    <3> QED
      BY <3>1, <3>2, <3>3, Zenon
  <2>4. \A i \in DOMAIN sent : sent[i].code \in Codes
    BY <1>2, OneHeader DEF StatusInv, Decided, Header
  <2>5. TypeOK
    BY <1>2, <2>1, <2>2, <2>3, <2>4 DEF TypeOK, ChildTypes, Todos
  <2> QED
    BY <1>2, <2>5 DEF CgiTypeOK, ChildTypes, BufferInv
<1> QED
  BY <1>1, <1>2, StatusStart, StatusStep, LogStep, WaitStepInv, BufferStep, TypesStep, PTL
  DEF CgiSpec
-----------------------------------------------------------------------------

(* ResponseBody starts with the result of the parser and the file, and chooses between
   416 and a response for itself.  Here it starts in a child that has decided. *)
Body == INSTANCE ResponseBody WITH
    Sizes <- Nat, Bounds <- 0..IntMax, Chunk <- 256, MaxResizes <- 0, MaxPartial <- 0,
    pc <- "check", byteStart <- parsed.byteStart, byteEnd <- parsed.byteEnd,
    size <- file.size, named <- TRUE, status <- 0, contentLength <- NoField,
    bytesWritten <- 0, bytesToWrite <- 0, position <- 0, chunk <- <<>>, body <- <<>>,
    resizes <- 0, partials <- 0

(* The requests that may get a body: a range, of numbers that an int can hold, or a
   status of 200. *)
AsksForBody ==
    /\ status # 0 /\ ~Overflowed
    /\ Partial \/ status = 200

(* A child with such a request is in an initial state of ResponseBody, its status is the
   one that ResponseBody chooses, and so is the Content-Length in its header: the number,
   wrapped to an int where it has to be, and what of the line is cut off. *)
BodyStartsAsDecided ==
    AsksForBody =>
        /\ Body!Init
        /\ status = IF Body!IsRange
                    THEN IF parsed.byteStart >= file.size THEN 416 ELSE 206
                    ELSE 200
        /\ \A i \in DOMAIN sent : status # 416 =>
               sent[i].fields.contentLength =
                   Body!LengthLine(parsed.byteStart, parsed.byteEnd, file.size)

(* What the digits of a satisfiable range can be. *)
LEMMA PartialRange ==
    ASSUME StatusInv, status # 0, Partial, ~Overflowed
    PROVE  /\ <<parsed.byteStart, parsed.byteEnd>> \in Body!ParsedRanges
           /\ parsed.byteStart # Unset /\ parsed.byteEnd # Unset
<1> DEFINE line == LastRange[1]
           s == parsed.byteStart
           e == parsed.byteEnd
<1>1. ~Refuses /\ parsed.httpState = "PARTIAL_CONTENT" /\ LastRange # <<>>
  BY PartialBounds DEF Partial, Exists
<1>2. line \in RangeLines /\ ~Overflows(line)
  BY <1>1, DecidedByLines DEF Overflowed
<1>3. /\ line.first \in Seq(0..9) /\ line.last \in Seq(0..9)
      /\ Number(line.first) \in Nat /\ Number(line.last) \in Nat
      /\ Number(line.first) <= IntMax /\ Number(line.last) <= IntMax
      /\ IntMax \in Nat
  BY <1>2, LineKinds, NumberTypes, IntIsWide DEF Overflows
<1>4. /\ s = IF line.first = <<>> THEN Open ELSE Number(line.first)
      /\ e = IF line.last = <<>> THEN Open ELSE Number(line.last)
      /\ \/ line.first = <<>> /\ Number(line.last) > 0
         \/ line.last = <<>>
         \/ line.first # <<>> /\ Number(line.first) < Number(line.last)
  BY <1>1, <1>2, DecidedByLines DEF RangeOfLines
<1>5. line.first # <<>> \/ line.last # <<>>
  BY <1>2, LineKinds
<1>6. Number(<<>>) = 0
  <2>1. <<>> \in Seq(0..9) /\ Len(<<>>) = 0
    OBVIOUS
  <2> QED
    BY <2>1, NumberStep
<1> HIDE DEF line, s, e
<1>7. \/ s = -1 /\ e \in 0..IntMax /\ e # 0
      \/ s \in 0..IntMax /\ e = -1
      \/ s \in 0..IntMax /\ e \in 0..IntMax /\ s < e
  BY <1>3, <1>4, <1>5, <1>6 DEF Open
<1>8. <<s, e>> \in Body!ParsedRanges
  <2>1. CASE s = -1 /\ e \in 0..IntMax /\ e # 0
    BY <2>1 DEF Body!ParsedRanges, Body!Open
  <2>2. CASE s \in 0..IntMax /\ e = -1
    BY <2>2 DEF Body!ParsedRanges, Body!Open
  <2>3. CASE s \in 0..IntMax /\ e \in 0..IntMax /\ s < e
    BY <2>3 DEF Body!ParsedRanges
  <2> QED
    BY <1>7, <2>1, <2>2, <2>3
<1> QED
  BY <1>7, <1>8 DEF s, e, Unset

(* ResponseBody prints numbers as HandleClient does. *)
LEMMA SameLengthLine ==
    \A start, last, size :
        LengthLine(start, last, size) = Body!LengthLine(start, last, size)
<1>1. PowerOfTen = Body!PowerOfTen
  BY DEF PowerOfTen, Body!PowerOfTen
<1>2. \A n : Digits(n) = Body!Digits(n)
  BY <1>1 DEF Digits, Body!Digits
<1>3. \A n : Chars(n) = Body!Chars(n)
  BY <1>2 DEF Chars, Body!Chars
<1>4. \A length, room : ContentLength(length, room) = Body!ContentLength(length, room)
  BY <1>3 DEF ContentLength, Body!ContentLength, Field, Body!Field
<1>5. /\ \A n : Wrap(n) = Body!Wrap(n)
      /\ SizeofLongLong = Body!SizeofLongLong
      /\ Unset = Body!Unset
  BY DEF Wrap, Body!Wrap, SizeofLongLong, Body!SizeofLongLong, Unset, Body!Unset
<1> QED
  BY <1>4, <1>5 DEF LengthLine, Body!LengthLine

(* The two models of one response agree where the one hands over to the other, for
   files of any size. *)
THEOREM BodyStarts == CgiSpec => []BodyStartsAsDecided
<1>1. ASSUME StatusInv PROVE BodyStartsAsDecided
  <2> SUFFICES ASSUME AsksForBody
               PROVE  /\ Body!Init
                      /\ status = IF Body!IsRange
                                  THEN IF parsed.byteStart >= file.size THEN 416 ELSE 206
                                  ELSE 200
                      /\ status # 416 =>
                            Header.fields.contentLength =
                                Body!LengthLine(parsed.byteStart, parsed.byteEnd,
                                                file.size)
    BY <1>1, OneHeader DEF BodyStartsAsDecided
  <2>1. status # 0 /\ ~Overflowed
    BY DEF AsksForBody
  <2>2. ~Refuses /\ file \in Files /\ file.size \in Nat /\ (Partial \/ Whole)
    <3>1. Partial \/ Whole
      BY <1>1, <2>1 DEF AsksForBody, StatusInv, Decided
    <3>2. ~Refuses
      BY <3>1 DEF Partial, Whole, Exists
    <3> QED
      BY <1>1, <2>1, <3>1, <3>2, FileTypes DEF StatusInv, Decided
  <2>3. ASSUME <<parsed.byteStart, parsed.byteEnd>> \in Body!ParsedRanges
        PROVE  Body!Init
    <3>1. NoField = Body!NoField
      BY DEF NoField, Body!NoField
    <3> QED
      BY <2>2, <2>3, <3>1 DEF Body!Init
  <2>4. ASSUME status \in {200, 206}
        PROVE  Header.fields.contentLength =
                   Body!LengthLine(parsed.byteStart, parsed.byteEnd, file.size)
    BY <2>4, SameLengthLine DEF Header, ResponseHeader
  <2>5. CASE Partial
    <3>1. /\ <<parsed.byteStart, parsed.byteEnd>> \in Body!ParsedRanges
          /\ parsed.byteStart # Unset /\ parsed.byteEnd # Unset
          /\ parsed.byteStart \in Int /\ parsed.byteStart >= -1
      BY <1>1, <2>1, <2>5, PartialRange, PartialBounds DEF Open
    <3>2. Body!IsRange
      BY <3>1 DEF Body!IsRange, Body!Unset, Unset
    <3>3. status = IF parsed.byteStart >= file.size THEN 416 ELSE 206
      BY <1>1, <2>1, <2>5 DEF StatusInv, Decided, Behind
    <3> QED
      BY <2>3, <2>4, <3>1, <3>2, <3>3
  <2>6. CASE ~Partial
    <3>1. status = 200 /\ Whole
      BY <2>2, <2>6 DEF AsksForBody
    <3>2. parsed.httpState = "OK"
      BY <3>1 DEF Whole
    <3>3. LastRange = <<>>
      BY <1>1, <2>1, <2>2, <3>2, DecidedByLines
    <3>4. parsed.byteStart = Unset /\ parsed.byteEnd = Unset
      BY <1>1, <2>1, <2>2, <3>3, DecidedByLines DEF RangeOfLines
    <3>5. /\ <<parsed.byteStart, parsed.byteEnd>> \in Body!ParsedRanges
          /\ ~Body!IsRange
      BY <3>4 DEF Body!ParsedRanges, Body!IsRange, Body!Unset, Unset
    <3> QED
      BY <2>3, <2>4, <3>1, <3>5
  <2> QED
    BY <2>5, <2>6
<1> QED
  BY <1>1, StatusStart, StatusStep, LogStep, PTL DEF CgiSpec

=============================================================================
