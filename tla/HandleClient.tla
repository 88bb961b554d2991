---------------------------- MODULE HandleClient ----------------------------
(***************************************************************************)
(* handle_client() of pe/tinyweb/src/tinyweb.c: what a child does with the *)
(* request after parse_http_header(), up to the body of the response and   *)
(* to the fork of a CGI script.                                            *)
(*                                                                         *)
(* The result of read_from_socket() is not looked at, so the parser may    *)
(* get any bytes: HttpParser starts with any request.  CgiChild EXTENDS    *)
(* this module with the script and makes a specification of it.            *)
(***************************************************************************)
EXTENDS HttpParser

CONSTANTS Sizes,  \* st_size of the files
          Times   \* st_mtime of the files

ASSUME FileConstants == Sizes \subseteq Nat /\ Times \subseteq Int

(* An int has two bytes or more. *)
ASSUME TwoBytes == SizeofInt >= 2

VARIABLES
    file,    \* what stat() found under root_dir and filename
    status,  \* response_header_data.status.code, 0 before it is chosen
    logCode, \* the status code passed to write_log()
    todo,    \* what is left to do: "log", "header", "body", "cgi"
    logged,  \* the status codes in the log
    sent,    \* the headers written to the client
    end      \* how the child ended, "" while it runs

clientVars == <<file, status, logCode, todo, logged, sent, end>>
vars == <<parserVars, clientVars>>

NoStat == [kind |-> "not looked at", size |-> 0, mtime |-> 0, exec |-> FALSE]

\* A file with the fields that handle_client() looks at for its kind.
FileOf(kind, size) == [NoStat EXCEPT !.kind = kind, !.size = size]
Files ==
    {FileOf("missing", 0)}
        \cup {FileOf(kind, size) : kind \in {"special", "directory"}, size \in Sizes}
        \cup [kind : {"regular"}, size : Sizes, mtime : Times, exec : BOOLEAN]

Codes == {200, 206, 301, 304, 400, 403, 404, 416, 500, 501}

LogFirst == <<"log", "header">>
WithBody == <<"header", "log", "body">>

TypeOK ==
    /\ ParserTypeOK
    /\ file \in Files \cup {NoStat}
    /\ status \in Codes \cup {0} /\ logCode \in Codes \cup {0}
    /\ todo \in {<<>>, <<"cgi">>, <<"header">>, <<"body">>, <<"log", "body">>, LogFirst,
                 WithBody}
    /\ logged \in Seq(Codes)
    /\ \A i \in DOMAIN sent : sent[i].code \in Codes
    /\ end \in {"", "returned", "killed", "exited"}

Init ==
    /\ ParserInit
    /\ file = NoStat
    /\ status = 0 /\ logCode = 0
    /\ todo = <<>> /\ logged = <<>> /\ sent = <<>>
    /\ end = ""

Parse == end = "" /\ ParserNext /\ UNCHANGED clientVars

(* A status line separated by tabs, which the regular expression takes for blanks
   and strtok() does not: a word of it is NULL, and strlen() looks into it. *)
StatusLineCrashes ==
    /\ pc = "status line" /\ end = ""
    /\ end' = "killed"
    /\ UNCHANGED <<parserVars, file, status, logCode, todo, logged, sent>>

-----------------------------------------------------------------------------

(* The checks, in the order of the code: each follows from those before it. *)

Decide(code, coded, steps) ==
    /\ pc = "parsed" /\ status = 0
    /\ status' = code
    /\ logCode' = coded
    /\ todo' = steps
    /\ UNCHANGED <<parserVars, file, logged, sent, end>>

Refuses == parsed.httpState \in {"INTERNAL_SERVER_ERROR", "BAD_REQUEST",
                                 "NOT_IMPLEMENTED"}
Exists == ~Refuses /\ file.kind \in {"special", "directory", "regular"}
Partial == Exists /\ parsed.httpState = "PARTIAL_CONTENT"
Whole == Exists /\ parsed.httpState = "OK"

\* Mutant of Behind: a range may begin just behind the file.
BehindByMore == parsed.byteStart > file.size

Behind == parsed.byteStart >= file.size

\* What an int gets of a number that need not fit: out of its range the conversion is
\* undefined, the least int on x86 and the nearest on ARM.
ToInt(n) ==
    IF n \in -IntMax - 1..IntMax THEN {n}
    ELSE {-IntMax - 1, IF n > 0 THEN IntMax ELSE -IntMax - 1}

\* Mutant of Seconds: the arguments of difftime() are swapped.
SecondsSwapped == ToInt(file.mtime - parsed.modsince)

\* difftime(), a double, in the int seconds.
Seconds == ToInt(parsed.modsince - file.mtime)

NotChanged == parsed.modsince # 0 /\ \E seconds \in Seconds : seconds >= 0
Changed == parsed.modsince = 0 \/ \E seconds \in Seconds : seconds < 0

Servable == Whole /\ file.kind = "regular" /\ Changed

ErrorCode == [INTERNAL_SERVER_ERROR |-> 500, BAD_REQUEST |-> 400,
              NOT_IMPLEMENTED |-> 501]

Refused ==
    /\ Refuses
    /\ LET code == ErrorCode[parsed.httpState] IN Decide(code, code, LogFirst)

Stat ==
    /\ pc = "parsed" /\ ~Refuses /\ file = NoStat
    /\ file' \in Files
    /\ UNCHANGED <<parserVars, status, logCode, todo, logged, sent, end>>

Missing ==
    /\ ~Refuses /\ file.kind = "missing"
    /\ Decide(404, 404, LogFirst)

NotSatisfiable ==
    /\ Exists /\ parsed.httpState = "RANGE_NOT_SATISFIABLE"
    /\ Decide(416, 416, LogFirst)

BehindFile ==
    /\ Partial /\ Behind
    /\ Decide(416, 416, LogFirst)

\* Mutant of PartialContent: the status of a GET.
PartialIsOk ==
    /\ Partial /\ ~Behind
    /\ Decide(200, 200, WithBody)

(* Before the checks of the method, of directories and of scripts. *)
PartialContent ==
    /\ Partial /\ ~Behind
    /\ Decide(206, 206, WithBody)

Special ==
    /\ Whole /\ file.kind = "special"
    /\ Decide(404, 404, LogFirst)

\* Mutant of Directory: the log gets the wrong entry of http_status_list.
DirectoryLogsNotModified ==
    /\ Whole /\ file.kind = "directory"
    /\ Decide(301, 304, LogFirst)

Directory ==
    /\ Whole /\ file.kind = "directory"
    /\ Decide(301, 301, LogFirst)

NotModified ==
    /\ Whole /\ file.kind = "regular" /\ NotChanged
    /\ Decide(304, 304, LogFirst)

NotExecutable ==
    /\ Servable /\ parsed.isCGI /\ ~file.exec
    /\ Decide(403, 403, LogFirst)

\* The grandchild writes a status of 200, nothing is logged.
Cgi ==
    /\ Servable /\ parsed.isCGI /\ file.exec
    /\ Decide(200, 200, <<"cgi">>)

Get ==
    /\ Servable /\ ~parsed.isCGI /\ parsed.method = "GET"
    /\ Decide(200, 200, WithBody)

\* Mutant of HeadRequest: the steps of a GET, in the order of a HEAD.
HeadWithBody ==
    /\ Servable /\ ~parsed.isCGI /\ parsed.method # "GET"
    /\ Decide(200, 200, <<"log", "header", "body">>)

HeadRequest ==
    /\ Servable /\ ~parsed.isCGI /\ parsed.method # "GET"
    /\ Decide(200, 200, LogFirst)

-----------------------------------------------------------------------------

Do(step) ==
    /\ end = "" /\ todo # <<>> /\ Head(todo) = step
    /\ todo' = Tail(todo)
    /\ UNCHANGED <<parserVars, file, status, logCode>>

WriteLog ==
    /\ Do("log")
    /\ logged' = Append(logged, logCode)
    /\ UNCHANGED <<sent, end>>

(* write_log() prints the method and the protocol, assigned or not. *)
KilledWhileFormatting ==
    /\ Do("log")
    /\ NotAssigned \in {parsed.method, parsed.protocol}
    /\ end' = "killed"
    /\ UNCHANGED <<logged, sent>>

(* create_response_header(), with the numbers of HeaderNumber. *)

ContentRange(start, size, room) ==
    LET last == Wrap(size - 1)
        complete == Wrap(size)
    IN Field(<<start, last, complete>>, Chars(start) + Chars(last) + Chars(complete), room)

\* Mutant of ResponseHeader: room for one int instead of three.
ResponseHeaderSmall(start, last, size) ==
    [contentRange |-> IF start # Unset /\ last # Unset
                      THEN ContentRange(start, size, SizeofInt) ELSE NoField,
     contentLength |-> LengthLine(start, last, size)]

ResponseHeader(start, last, size) ==
    [contentRange |-> IF start # Unset /\ last # Unset
                      THEN ContentRange(start, size, 3 * SizeofInt) ELSE NoField,
     contentLength |-> LengthLine(start, last, size)]

(* create_response_header_string() and write_response_header() *)
WriteHeader ==
    /\ Do("header")
    /\ sent' = Append(sent,
          [code |-> status,
           fields |-> IF status \in {200, 206}
                      THEN ResponseHeader(parsed.byteStart, parsed.byteEnd, file.size)
                      ELSE [contentRange |-> NoField, contentLength |-> NoField]])
    /\ UNCHANGED <<logged, end>>

(* No answer within the timeout: -1, which is not looked at where a body follows. *)
HeaderTimesOut ==
    /\ Do("header")
    /\ UNCHANGED <<logged, sent, end>>

(* SIGPIPE *)
ClientGone ==
    /\ \/ Do("header")
       \/ Do("body")
    /\ end' = "killed"
    /\ UNCHANGED <<logged, sent>>

(* write_response_body(), see ResponseBody *)
WriteBody ==
    /\ Do("body")
    /\ end' = "returned"
    /\ UNCHANGED <<logged, sent>>

(* The results of malloc() are used unchecked, in create_response_header() and for
   the path of the directory or the script. *)
MallocFails ==
    /\ end = "" /\ logged = <<>> /\ sent = <<>>
    /\ status \in {200, 206, 301} /\ todo # <<>>
    /\ end' = "killed"
    /\ UNCHANGED <<parserVars, file, status, logCode, todo, logged, sent>>

Return ==
    /\ end = "" /\ status # 0 /\ todo = <<>>
    /\ end' = "returned"
    /\ UNCHANGED <<parserVars, file, status, logCode, todo, logged, sent>>

Check == \/ Refused \/ Stat \/ Missing \/ NotSatisfiable \/ BehindFile \/ PartialContent
         \/ Special \/ Directory \/ NotModified \/ NotExecutable \/ Cgi \/ Get
         \/ HeadRequest

Handle == \/ Parse \/ StatusLineCrashes \/ Check
          \/ WriteLog \/ KilledWhileFormatting \/ WriteHeader \/ HeaderTimesOut
          \/ ClientGone \/ WriteBody \/ MallocFails \/ Return

-----------------------------------------------------------------------------

(* Properties *)

LastDate == LastLineSeen(IsDateLine)
Overflowed == LastRange # <<>> /\ Overflows(LastRange[1])

(* A request for "n-" is answered as the tests of t/04range.t expect, whatever came
   before that line and whatever the dates: 206 if the file has a byte n, else
   416 (the digit loops, and the comparison with st_size). *)
OpenRangeStatus ==
    status # 0 /\ Exists /\ LastRange # <<>> /\ ~Overflowed
            /\ LastRange[1].last = <<>>
        => status = IF Number(LastRange[1].first) < file.size THEN 206 ELSE 416

(* A regular file without a Range line is answered as the tests of t/04modsince.t
   expect: a 304 only if the last If-Modified-Since line names a moment at or after
   the last change, however far apart the two are, and always if that moment is no
   more seconds later than an int can hold.  The date 0 counts as no date, even for a
   file older than the epoch (the sentinel 0 of modsince, in parse_http_header() and
   handle_client(), and the int that gets the result of difftime()). *)
ConditionalGet ==
    status # 0 /\ Whole /\ file.kind = "regular" =>
        LET dated == LastDate \notin {<<>>, <<[date |-> 0]>>}
            later == LastDate[1].date - file.mtime
        IN /\ status = 304 => dated /\ later >= 0
           /\ dated /\ later \in 0..IntMax => status = 304

(* The header has a Content-Range if and only if it says 206: the status the parser
   chose agrees with the sentinels that create_response_header() looks at. *)
ContentRangeIff206 ==
    ~Overflowed => \A i \in DOMAIN sent :
        sent[i].fields.contentRange # NoField <=> sent[i].code = 206

(* The header lines of a file whose size, and size + 1 for a suffix range, has no
   more digits than an int has bytes are whole: Content-Length and Content-Range
   end with CRLF, whichever of the ranges that an int can hold is asked for (the
   sizes of the buffers in create_response_header()). *)
HeaderLinesAreWhole ==
    file.size + 1 < PowerOfTen[SizeofInt] /\ ~Overflowed =>
        \A i \in DOMAIN sent :
            sent[i].fields.contentRange.cut = 0 /\ sent[i].fields.contentLength.cut = 0

(* What t/04range.t:122-125 expects of a 206 for "n-": "Header field
   'Content-Length' equal to file size".  Violated where the number of bytes from n
   on has more digits than an int has bytes. *)
ContentLengthOfRange ==
    \A i \in DOMAIN sent :
        sent[i].code = 206 /\ LastRange[1].last = <<>> /\ ~Overflowed =>
            sent[i].fields.contentLength =
                [values |-> <<file.size - Number(LastRange[1].first)>>, cut |-> 0]

(* The status in the log is the status of the header; and a child that returned has
   written its line, unless a script could not be forked (handle_client() passes
   the two separately, in each of its branches). *)
LogTellsStatus ==
    /\ Len(logged) <= 1 /\ Len(sent) <= 1
    /\ logged # <<>> /\ sent # <<>> => logged[1] = sent[1].code
    /\ end = "returned" => logged # <<>> \/ parsed.isCGI
=============================================================================
