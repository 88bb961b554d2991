----------------------------- MODULE HttpParser -----------------------------
(***************************************************************************)
(* parse_http_header() of pe/tinyweb/src/http_parser.c: from the bytes of  *)
(* a request to parsed_http_header_t.                                      *)
(*                                                                         *)
(* A request is what its tokens are to the parser: the status line is a    *)
(* record, a Range line two sequences of digits, a date the moment it      *)
(* names.  The lines are chosen one by one, as strtok() cuts them off, and *)
(* kept in "lines".                                                        *)
(***************************************************************************)
EXTENDS HeaderNumber, Sequences, SequencesExt

CONSTANTS Numbers,     \* the numbers of Range lines, as sequences of digits
          Dates,       \* the dates of If-Modified-Since lines
          MaxLines     \* bound: header lines of a request

ASSUME ParserConstants ==
    /\ Numbers \subseteq Seq(0..9)
    /\ Dates \subseteq Int
    /\ MaxLines \in Nat

VARIABLES
    pc,      \* what is parsed next
    parsed,  \* parsed_http_header_t
    lines    \* the header lines so far

parserVars == <<pc, parsed, lines>>

Methods == {"GET", "HEAD", "other"}
NotAssigned == "not assigned"  \* a char * that was never written

\* http_status_t, the states the parser uses.
States == {"INTERNAL_SERVER_ERROR", "BAD_REQUEST", "NOT_IMPLEMENTED", "OK",
           "PARTIAL_CONTENT", "RANGE_NOT_SATISFIABLE"}

RangeLines == {[first |-> f, last |-> l] : f \in Numbers, l \in Numbers}
                  \ {[first |-> <<>>, last |-> <<>>]}
DateLines == {[date |-> d] : d \in Dates}
OtherLine == [other |-> TRUE]

IsRangeLine(line) == "first" \in DOMAIN line
IsDateLine(line) == "date" \in DOMAIN line

ParserTypeOK ==
    /\ pc \in {"status line", "range regex", "lines", "parsed"}
    /\ parsed \in [httpState : States, modsince : Int, byteStart : Int,
                   byteEnd : Int, isCGI : BOOLEAN,
                   method : Methods \cup {NotAssigned, "NULL"},
                   protocol : {"HTTP/1.1", "other", NotAssigned, "NULL"}]
    /\ lines \in Seq(RangeLines \cup DateLines \cup {OtherLine})
    /\ Len(lines) <= MaxLines

ParserInit ==
    /\ pc = "status line"
    /\ parsed = [httpState |-> "INTERNAL_SERVER_ERROR", modsince |-> 0,
                 byteStart |-> Unset, byteEnd |-> Unset, isCGI |-> FALSE,
                 method |-> NotAssigned, protocol |-> NotAssigned]
    /\ lines = <<>>

-----------------------------------------------------------------------------

(* The two digit loops: from the last digit to the first, in ints that wrap. *)

ScanNumber(digits) ==
    LET scanned[i \in 0..Len(digits)] ==
            IF i = 0 THEN [value |-> 0, pos |-> 1]
            ELSE LET before == scanned[i - 1]
                     c == digits[Len(digits) - i + 1]
                 IN [value |-> Wrap(before.value + Wrap(c * before.pos)),
                     pos |-> Wrap(before.pos * 10)]
    IN IF digits = <<>> THEN Open ELSE scanned[Len(digits)].value

\* The number that the digits stand for.
Number(digits) ==
    LET number[i \in 0..Len(digits)] ==
            IF i = 0 THEN 0 ELSE 10 * number[i - 1] + digits[i]
    IN number[Len(digits)]

Overflows(line) ==
    \E digits \in {line.first, line.last} : Number(digits) > IntMax

CheckStatus(start, end) ==
    \/ start = Open /\ end > 0
    \/ start >= 0 /\ end = Open
    \/ start >= 0 /\ end > 0 /\ start < end

-----------------------------------------------------------------------------

(* No memory for a regular expression or for one of the strings: the initial state,
   500, is returned, with the pointers of the fields that were not reached. *)
OutOfMemory ==
    /\ pc = "status line"
    /\ pc' = "parsed"
    /\ \E method \in Methods :
          parsed' \in {parsed,
                       [parsed EXCEPT !.method = "NULL"],
                       [parsed EXCEPT !.method = method],
                       [parsed EXCEPT !.method = method, !.protocol = "NULL"]}
    /\ UNCHANGED lines

(* The regular expression matches nowhere, or only behind the first line. *)
NoStatusLine ==
    /\ pc = "status line"
    /\ pc' = "parsed"
    /\ parsed' = [parsed EXCEPT !.httpState = "BAD_REQUEST"]
    /\ UNCHANGED lines

StatusLine(method, protocol, cgi) ==
    /\ pc = "status line"
    /\ LET state == IF protocol # "HTTP/1.1" THEN "BAD_REQUEST"
                    ELSE IF method = "other" THEN "NOT_IMPLEMENTED"
                    ELSE "OK"
       IN /\ parsed' = [parsed EXCEPT !.method = method, !.protocol = protocol,
                                      !.isCGI = cgi, !.httpState = state]
          /\ pc' = IF state = "OK" THEN "range regex" ELSE "parsed"
    /\ UNCHANGED lines

RangeRegcompFails ==
    /\ pc = "range regex"
    /\ pc' = "parsed"
    /\ parsed' = [parsed EXCEPT !.httpState = "INTERNAL_SERVER_ERROR"]
    /\ UNCHANGED lines

RangeRegcomp ==
    /\ pc = "range regex"
    /\ pc' = "lines"
    /\ UNCHANGED <<parsed, lines>>

NextLine(line) ==
    /\ pc = "lines"
    /\ Len(lines) < MaxLines
    /\ lines' = Append(lines, line)
    /\ UNCHANGED pc

\* Mutant of RangeLine: a status of an earlier line stays.
RangeLineKeepsStatus(line) ==
    /\ NextLine(line)
    /\ LET start == ScanNumber(line.first)
           end == ScanNumber(line.last)
       IN parsed' = [parsed EXCEPT
                        !.byteStart = start, !.byteEnd = end,
                        !.httpState = IF CheckStatus(start, end)
                                      THEN "PARTIAL_CONTENT"
                                      ELSE IF @ = "OK"
                                      THEN "RANGE_NOT_SATISFIABLE" ELSE @]

(* A signed overflow is undefined: the sums wrap, but the comparisons of the
   optimised build may go either way. *)
RangeLine(line) ==
    /\ NextLine(line)
    /\ LET start == ScanNumber(line.first)
           end == ScanNumber(line.last)
       IN \E satisfiable \in IF Overflows(line) THEN BOOLEAN
                             ELSE {CheckStatus(start, end)} :
              parsed' = [parsed EXCEPT
                           !.byteStart = start, !.byteEnd = end,
                           !.httpState = IF satisfiable THEN "PARTIAL_CONTENT"
                                         ELSE "RANGE_NOT_SATISFIABLE"]

\* Mutant of DateLine: the first date stays.
DateLineOnce(line) ==
    /\ NextLine(line)
    /\ parsed' = [parsed EXCEPT !.modsince = IF @ = 0 THEN line.date ELSE @]

(* strptime() and mktime(); the local time zone is GMT, main() has set TZ. *)
DateLine(line) ==
    /\ NextLine(line)
    /\ parsed' = [parsed EXCEPT !.modsince = line.date]

SkipLine ==
    /\ NextLine(OtherLine)
    /\ UNCHANGED parsed

LastLine ==
    /\ pc = "lines"
    /\ pc' = "parsed"
    /\ UNCHANGED <<parsed, lines>>

ParserNext ==
    \/ OutOfMemory
    \/ NoStatusLine
    \/ \E m \in Methods, p \in {"HTTP/1.1", "other"}, cgi \in BOOLEAN :
           StatusLine(m, p, cgi)
    \/ RangeRegcompFails
    \/ RangeRegcomp
    \/ \E line \in RangeLines : RangeLine(line)
    \/ \E line \in DateLines : DateLine(line)
    \/ SkipLine
    \/ LastLine

-----------------------------------------------------------------------------

(* Properties *)

(* The last line of a kind that satisfies Test, <<>> if there is none. *)
LastLineSeen(Test(_)) ==
    LET seen == {i \in 1..Len(lines) : Test(lines[i])}
    IN IF seen = {} THEN <<>> ELSE <<lines[Max(seen)]>>

LastRange == LastLineSeen(IsRangeLine)

\* The parser went through all the lines.
Complete == pc = "parsed"
            /\ parsed.httpState \in {"OK", "PARTIAL_CONTENT",
                                     "RANGE_NOT_SATISFIABLE"}

(* What the lines so far say about the range: a bound that an int can hold is the
   number of its digits, and without a Range line both bounds are still -2.  Only 0-0
   and n-n, which are ranges of one byte to HTTP, count as not satisfiable. *)
RangeOfLines ==
    IF LastRange = <<>>
    THEN /\ parsed.httpState = "OK"
         /\ parsed.byteStart = Unset /\ parsed.byteEnd = Unset
    ELSE LET line == LastRange[1]
             bound(digits) == IF digits = <<>> THEN Open ELSE Number(digits)
             isSuffix == line.first = <<>>
             isOpen == line.last = <<>>
         IN Overflows(line) \/
            /\ parsed.byteStart = bound(line.first)
            /\ parsed.byteEnd = bound(line.last)
            /\ parsed.httpState = "PARTIAL_CONTENT" <=>
                 \/ isSuffix /\ Number(line.last) > 0
                 \/ isOpen
                 \/ ~isSuffix /\ Number(line.first) < Number(line.last)

(* The last Range line decides about the range and the status, whatever the lines
   before it left in the header; by the -2 write_response_body() and
   create_response_header() tell that there is none (the digit loops and the checks
   of parse_http_header()). *)
LastRangeDecides == Complete => RangeOfLines
=============================================================================
