# Models and proofs of tinyweb and echod

TLA+ models of the programs in this repository: the web server `pe/tinyweb` (one
process per connection) and the echo daemon `echod` (one thread per connection).
The models are checked with TLC on small instances; the central safety properties
are also proved with TLAPS for every value of the constants. `PROJECT.json` maps
each definition to the lines it models and lists the runs, mutants, hazards, findings
and theorems.

In the file names below `tinyweb.c`, `http_parser.c`, `sem_print.c` and `safe_print.c`
are under `pe/tinyweb/src`, and `socket_io.c` is under `pe/tinyweb/libsockets` (there
is a copy in `echod/libsockets`).

## The system

| component | code | state it keeps | operations |
|---|---|---|---|
| server process | `tinyweb.c`: `main`, `accept_client`, `sig_handler` | `server_running`, the listening socket, connected descriptors, children, the SIGCHLD disposition | create socket, accept, fork, close, reap, stop, exit |
| request parser | `http_parser.c`: `parse_http_header` | `parsed_http_header_t` | status line, one step per header line |
| request handler | `tinyweb.c`: `handle_client` | parsed header, `stat` result, response header | choose the status, log, send the header, start the body or a script |
| response body | `tinyweb.c`: `create_response_header`, `write_response_body` | file offset, `bytesWritten`, `bytesToWrite`, chunk | open, stat, seek, read, write |
| request log | `tinyweb.c`: `write_log`; `sem_print.c`; `safe_print.c` | named semaphore, stdio buffers, shared file offset, file | wait, format, post, flush at exit |
| CGI child | `tinyweb.c`: 611-672 | two processes, stdio buffer, status of the script | fork, print, exec, output, wait, reap |
| start-up | `tinyweb.c`: `get_options`, `open_logfile`, `check_root_dir`, `install_signal_handlers`, `init_logging_semaphore` | options, log file, semaphore, handlers | parse, open, check, install |
| thread pool | `echod.c`: `accept_clients`, `slave_thread`, `main` | `num_active`, mutex, condition variable, threads | reserve, accept, create, release, signal, destroy |
| echo session | `echod.c`: 210-215 | buffer, socket | read, write, close |
| timed read and write | `socket_io.c` | the call in progress, kernel buffers | select, read, write, time out, retry |
| connect, listen, address info | `passive_tcp.c`, `connect_tcp.c`, `socket_info.c` | none | listen, connect, print |
| others | `hostinfo.c`, `libdebug`, `content.c` | none | command-line tool, malloc wrappers, table of file types |

How they interact: the server forks a child per connection. The child shares with its
parent and siblings the listening socket (until it closes its copy), the offset of the log
file and the named semaphore, and inherits copies of the connected descriptors, of
the stdio buffers and of the signal handlers. It parses the request, chooses a status,
logs and answers. SIGINT and SIGCHLD interrupt the server, or each other's handler,
at any statement. In `echod` the main thread and the slave threads share one counter
under a mutex and a condition variable.

What is hard here: signals between a test and a sleep; signals that do not queue;
descriptors that are inherited; a semaphore that survives crashes and restarts; buffers
lost when a process is killed; a file that changes between two calls of `stat`; a counter
with one wakeup signal; a handler that reaps the child somebody else waits for; timeouts that
bound `select` and not `read` or `write`; buffers sized by the width of a type; sentinels
(-2, -1, 0) that share a type with the values.
`PROJECT.json` has one entry per hazard, with the properties that cover it or the reason why none does.

## The modules

| module | models | run with |
|---|---|---|
| `TinyWebServer` | the server process, from its socket on | itself, and `TinyWeb` |
| `TinyWeb` | the start of the program; extends `TinyWebServer` and takes its steps | itself |
| `HeaderNumber` | the numbers of header lines: ints that wrap, buffers that cut digits off | through `CgiChild` and `ResponseBody` |
| `HttpParser` | the request parser | through `CgiChild` |
| `HandleClient` | the request handler; extends `HttpParser` and takes its steps | through `CgiChild` |
| `CgiChild` | the script and its parent; extends `HandleClient`: a child from request to exit | `MC_CgiChild` |
| `ResponseBody` | the response body | itself |
| `RequestLog` | the request log, over restarts of the server | `MC_RequestLog` |
| `SlotPool` | abstract pool: what the comments of `accept_clients` promise | through `EchoPool` |
| `EchoPool` | the thread pool; refines `SlotPool` | `MC_EchoPool` |
| `SocketIO` | the timed read and write, the kernel's buffers and the peer | through `EchoSession` |
| `ByteCopy` | abstract echo: a byte stream copied in order | through `EchoSession` |
| `EchoSession` | the session of a thread; extends `SocketIO`, refines `ByteCopy` | itself |
| `*_proofs` | theorems about the module they are named after | `tlapm` |

Operators whose comment says "Mutant of X" are not part of a model. Each is X with a
plausible mistake, and shows that a property depends on X being right.

### TinyWebServer

`mpc` is the next statement of `main` or `accept_client`, `hpc` a SIGCHLD handler on top
of it, `pending` the signals generated and not delivered. `server_running`, `retcode`,
`nsd` and `sd` are the variables of the code (`sd` says only whether there is a listening
socket). `fds` and `childFds` are the connected descriptors main and each child hold,
`child` the life cycle of the child of each client, `backlog` the kernel's queue. `late`
is a history variable.

- SIGINT is installed without `SA_RESTART` and makes a sleeping `accept` fail, after
  which the server exits. SIGCHLD comes from `signal()`, which restarts `accept`.
- A signal that arrives when `accept` is not asleep aborts nothing.
- The last holder of the listening socket takes the queue with it.
- `handle_client` is one step here (`ChildExit`): any time may pass before it.

### TinyWeb

`boot` is the step of `main` before the server socket; afterwards `TinyWebServer` goes on
(`Serve`). `get_options` returns 1 for success and `EXIT_FAILURE`, also 1, for a bad address or
a failed `malloc`; `main` tests the result for 0 only and continues with whatever was parsed so far
(`GetOptionsFails`, `NoProgname`). Most of it is NULL then, and what keeps such a server from
running is `check_root_dir`, which finds nothing at NULL, and `create_server_socket`, which
dereferences the address (`BadAddress`). Without memory for `progname`, `get_options` returns before
it initialises `my_opt`, and address, root directory and log are `"wild"`: NULL, or whatever pointer
was on the stack. It may crash the program (`BadLogFilename`, `BadAddress`) or be readable. With such an
address `socket` or `bind` fails, which `main` does not notice, since it tests `retcode`, or the socket is bound to
no address of the user's: `CreateSocket` of `TinyWebServer` has all of these. `IS_ROOT_DIR` computes `S_IROTH || S_IXOTH`, which is
1, so only the execute bit of others is looked at: "not for others" means that bit. SIGINT kills the
process before `install_signal_handlers` and only clears `server_running` after it.

### HttpParser and HandleClient

A request is represented by what its tokens are to the parser. The status line is chosen
in one step. Header lines are chosen one at a time as `strtok` cuts them off, and `lines`
remembers them for the properties. `ScanNumber` is the digit loop, from the last digit to
the first in ints that wrap at `IntMax`. If a number overflows the sums wrap, but the
comparisons after it may go either way: the code is built with `-O2` and signed overflow
is undefined. `main` sets TZ to GMT, so the local time of `mktime` is the time of the date.

`handle_client` ignores the result of `read_from_socket`, so the parser may see any bytes;
the model begins with any request. `root_dir` and the file name are what `stat` finds (`file`),
in one step. `StatusLineCrashes` is a status line with tabs
between its words: the regular expression takes them, `strtok` does not, and `strlen` gets NULL. The
checks are actions whose guards follow the
order of the code (`Refuses`, `Exists`, `Partial`/`Whole`, `Servable`). `todo` holds what
the chosen branch still does: most branches log first, a 206 or a GET sends the header
first. Status and log code are separate, because the code passes them separately. `Seconds` is the int that gets
the double of `difftime`: out of the range of an int the conversion is undefined, and `ToInt` allows
what x86 (the least int) and ARM (the nearest) make of it.

`ResponseHeader` is `create_response_header`: which fields a header has, the
numbers in them and how many characters of a line `snprintf` cuts off, because the buffers have
room for `sizeof(int)` or `sizeof(long long)` characters per number (`HeaderNumber`). `SizeofInt` and `IntMax`
are two constants of the same int: all that is assumed is that it can hold every number of as many digits
as it has bytes (`IntIsWide`) and, for a request, that it has two bytes or more (`TwoBytes`). The fields without a
number and the date strings are left out.

### CgiChild

`script` is the grandchild from `fork` to its end, `waitAt` where the child is in its `wait`,
`waited` the local `status`, of which `wait` writes nothing when the handler of SIGCHLD,
inherited from the server, was first (`HandlerReaps`, `WaitFindsNoChild`) or SIGINT
interrupts it. `stdoutIs` is what `open_logfile` has left in `stdout`: it decides whether
`fprintf` sends the header at once (a terminal) or leaves it in the `buffer` that `execle` throws
away. A script writes any output or none, ends at any time, or never.

### ResponseBody

The content of the file at offset n is the number n, so `body` shows where each byte came
from. The file may be resized or removed between any two steps. `write` may be cut short
(`MaxPartial`), and errors end the child. `byteStart` and `byteEnd` are any pair the
parser passes on as OK or PARTIAL_CONTENT. `contentLength` is the line as it is printed, of the same
`LengthLine` as in `HandleClient`: for a range the length is put into an int, where it may wrap, and
`snprintf` may cut its digits off. `LengthIsWhole` says that neither has happened.

### RequestLog

Each child logs one line. `ticket` says whether its `sem_wait` took the semaphore or was
interrupted: `print_log` goes on in both cases. The line stays in the stdio buffer
(`buffered`) until `exit`; a signal that kills the child loses it. The semaphore keeps its
value when the server is restarted, the file is truncated, and old children still have the old
offset. `FailedStart` is a second server on the same log while the first runs: it truncates the
file before its checks or its `bind` fail, and `base` remembers where that left a hole.

### EchoPool and SlotPool

`apc` and `thread` are the next statements of the acceptor and of each thread. `lost`
counts the slots that no thread will give back (EINTR, failed `pthread_create`, errors). The
condition variable is part of `apc`: a signal, or a spurious wakeup, moves a waiting
acceptor to `reacquire`. After `pthread_mutex_destroy` locking protects nothing, and a
decrement may be lost.

`SlotPool` has only reserved, working and lost slots and an open flag. `EchoPool!Pool`
maps to it: a slot is working from `pthread_create` until the decrement, and the pool is
open while the process lives and `server_running` is true.

### SocketIO, EchoSession and ByteCopy

`at` is where a call of `read_from_socket` or `write_to_socket` is: in `select`, or past it in
`read` or `write` (`io`). The bytes of the peer are 1, 2, 3, ...; `written` has what was copied to
the send buffer, `delivered` how much of it the peer has read. A descriptor may wake `select`
through `exceptfds` (`urgent`) although `read` or `write` will then sleep, without a timeout.
A signal interrupts `select` (again, with the whole timeout), `read` (again) or a
`write`, which goes on after the bytes it had copied. The echo loop has no other state than the
result it looks at, that of the read; `failed` remembers results of writes for the properties only.
One step `echo` of `EchoPool` stands for a whole session. `tinyweb` uses the
same calls; there their results are `HeaderTimesOut`, `ClientGone` and the like.

`ByteCopy` promises bytes in order, each at most once, and all of them until `lossy`.
`EchoSession!Copied` maps `lossy` to a failed `write_to_socket`.

## Runs

| run | shows | bounds |
|---|---|---|
| `server` | no server without its log, its root directory and, unless `progname` was the failure, its address; no lost zombie, at most one late client, connections closed with their child; zombies are reaped, the queue moves or is reset, a stopped server ends with the next client, no socket means no server | any options; 3 clients, queue 2, 2 descriptors, 2 failed forks, 2 SIGINTs |
| `server_stop` (violation) | a SIGINT just before `accept` sleeps does not stop the server | 2 clients |
| `client` | the last range decides and numbers are exact; statuses of the test scripts, dates and files however far apart, Content-Range exactly with 206, header lines of small files are whole, log and header agree; a script is reaped once, by `wait` or the handler, its child ends after it, and its client gets nothing but its output, behind at most one header | 2 lines, ints of 16 bits, 5 numbers, sizes 91 and 1000, dates 0, 1 and 32768, times 0, 1 and 32770 |
| `header_range` (violation) | the Content-Length of a 206 is cut off | 1 line |
| `cgi_header` (violation) | the output of a script comes without its header | no lines |
| `body` | contiguous; complete and never more than announced, wherever the number fits; the loop ends, with the exceptions stated | sizes 0, 5, 9, 13 and 101, bounds 0, 4, 5, 9 and 11, an int of 1 byte up to 11, chunk 4, 2 resizes, 1 partial write |
| `body_range` (violation) | a closed range gets the wrong size | undisturbed |
| `log` | accounting of the semaphore, mutual exclusion, append-only file, also after a second server has emptied it and failed; nobody waits for ever unless somebody died in `print_log` | 2 children, 3 servers |
| `log_lost` (violation) | a logged line never reaches the file | 2 children, 1 server |
| `pool` | exact counter, bound, no lost wakeup, mutex discipline; a thread that ends admits the next; refinement of `SlotPool` with fairness | 4 threads, limit 3 |
| `pool_stuck` (violation) | waits although no thread is active | 4 threads, limit 3, no EINTR |
| `echo` | refinement of `ByteCopy`; a client that sent all and closed its side gets all back; a silent client is left, with the exceptions stated | buffer 2, send buffer 2, 4 bytes, 2 signals |

Runs with a temporal property use no symmetry.

Why the bounds are enough. Two clients already give a child that inherits what another one
left; the third adds exits that coalesce behind one delivery while a third child starts.
`FdLimit` is reached with two failed forks. The pool has one thread more than slots, so a
thread slot is reused while another ends. In the log two children meet at the semaphore, of
the same server or of different ones, and one may die or be interrupted there; the theorems
cover more of them. With a chunk of 4, files of 5, 9 and 13 end one byte into a chunk,
bounds of 4, 5 and 9 lie on and next to the border of a chunk, and 11 behind some files, so that reads are whole,
partial and empty. An int of one byte, up to 11, makes the numbers of `body` interesting: lengths up to 9
are whole in a range, 10 and more lose characters, 13 and 101 wrap in an int, and 101 is also cut for a whole
file. Two header lines
show every effect of one line on the next. The numbers are none, 0, the size of the small file, the
largest 16-bit int and one that wraps to the sentinel -2. Of the dates, 0 is the sentinel; those equal to
a time, one after and one before it, 32768 after 1, the largest int, and 32768 after 0 and 32770 after 0 or 1, which no
int can hold, in both directions. Buffers for an int of 2 bytes
hold 2 digits, so every line of a file of size 91 fits (size and size + 1 take 2
digits) and 1000 is one that does not. In the session four bytes pass twice
through a buffer of two and fill the send buffer twice, so a write can be interrupted after none, some or
all of what fits, in the first piece or a later one. Connections, failed forks,
SIGINTs, resizes, partial writes, servers, signals, bytes and lines are bounded by constants named in the
guards.

Deadlock is not checked: all of these programs, or the part modelled, may end or wait for a
client for ever.

## Fairness

- Server: weak fairness of main, of each handler and of a child's `close(sd)`: a process
  that is not asleep is scheduled, and a pending unmasked signal is delivered. Nothing is assumed
  of clients, nor of `handle_client` returning. `BootSpec` states the same for the steps as
  `TinyWeb` takes them, and weak fairness of the start.
- Child: weak fairness of the steps of the child around the script (`fork`, `wait`,
  handler, exit). Neither the script nor the requests are fair.
- Session: weak fairness of the thread. A `select` that nothing wakes times out; nothing is
  assumed of the peer, and signals are bounded: one in every interval keeps a descriptor waiting
  for ever.
- Pool: weak fairness of the acceptor where it does not wait for the network and of the
  ending threads; strong fairness of a thread's `pthread_mutex_lock`, since spurious
  wakeups could otherwise hold the mutex at every moment it asks.
- Log: weak fairness of a child's logging steps and of its `exit`. The response is
  not fair: the client need not read.
- Body: weak fairness of the loop, that is, the client reads. Errors are not fair.

## Findings

1. `StopTerminates`: SIGINT between `while (server_running)` and `accept` leaves the
   server waiting for one more client. What does hold is proved and checked: at most one
   late client, and the server ends with it.
2. `WaitsForActiveThread`: a failed `pthread_create` costs a slot for ever.
3. `WrittenWhenLogged`: a line in the stdio buffer dies with the child.
4. `BodyHasSizeOfRange`: the end of a range is exclusive and sent in whole chunks.
5. `ContentLengthOfRange`: the buffer of a partial Content-Length has room for 4 characters of
   its number; longer ones lose the CRLF, then digits. `HeaderLinesAreWhole` shows where
   the lines are whole.
6. `ScriptOutputHasHeader`: `execle` discards the header with the stdio buffer unless `stdout`
   is a terminal. `OutputIsClean` holds with and without that defect: nothing
   but a header comes before the output.

Observed, but contradicted by no text in the repository, and therefore without a run: a range is
decided before the method, so a HEAD with a range gets a body; n-n and 0-0 are answered
with 416; a suffix range leaves -1 as the start of the response; the loop of
`write_response_body` spins if a range ends behind the file; an interrupted `sem_wait`
counts as a success; a SIGINT between the handler's installation and
`server_running = true` is forgotten; failures of `get_options` count as success; requests
for scripts that ran are never logged; a child whose `wait` got nothing decides by an
uninitialised status how to end; the timeout of a write does not cover `write` itself.

## Proofs

All theorems hold for arbitrary sets of clients, threads or children and arbitrary bounds.
They assume only the named assumptions of the modules (finite sets, positive limits, special
values that are not members, an int of two bytes or more that can hold as many digits as it has bytes).

- `TinyWebServer_proofs`: `TypeCorrect`, `NoChildLost`, `OneLateClient`, `ConnectionsClosed`.
  None of the properties is inductive. That a zombie has its signal needs that a child exists
  only once SIGCHLD has its handler. The count of late clients needs that after the first
  one the program counter can only reach the test of the loop. For the connections the invariant says which
  descriptors main can hold at each statement (the one being forked and those whose fork
  failed), so that a new child inherits no connection that has a child.
- `TinyWeb_proofs`: `ProgramIsServer` (every behaviour of the program is one of `TinyWebServer`, so
  the theorems above hold of the program), `SetUpBeforeServing`, whose invariant says
  what each step of the start has established: the log is opened as the options say and the root
  directory is one even if the options are wild, but the address is known to be given only if `progname` is not
  NULL.
- `EchoPool_proofs`: `TypeCorrect`, `CounterExact`, `PoolBounded`, `WakeupNotLost`,
  `MutexSound`, `PoolImplemented`. The inductive invariant is the conjunction of the
  mutex discipline, the exact count and the bound. The counting steps rest on two lemmas,
  one for the acceptor and one for the threads, that say how the set of working threads changes. The
  refinement theorem shows that every step is a step or stutter of `SlotPool`.
- `RequestLog_proofs`: `TypeCorrect`, `SemaphoreAccounted`, `PrintLogExclusive`,
  `AppendOnly`. The accounting needs that a ticket is taken only at the semaphore
  and that a line is buffered only after it; with four sets (holders, stuck, phantoms, printers) each
  action changes at most one or two of them by one child. The append-only theorem needs that
  under the first server every child has its offset.
- `EchoSession_proofs`: `TypeCorrect`, `CopyImplemented`, `AllEchoed`. What `write` has copied and what
  is left in the buffer lie before what was read, in order; as long as nothing was lost, they
  are all of it. This needs that a call in progress has no result yet, that the buffer of a read
  is empty, and that a write with result "data" has copied everything.

- `HandleClient_proofs`: `ScanIsNumber`, and what the theorems of `CgiChild_proofs` need of the parser and
  of the header lines, for numbers of any length and any width of an int. The digit loop of
  `parse_http_header` is right for every number that an int can hold, although its weights
  wrap: after i digits the value is what those digits stand for, and the weight is right
  as long as it fits; when it no longer does, all digits that are left are zeros, since the number
  would overflow otherwise. `ParserInv` says for every state of the parser that the bounds, the status and
  the date are those of the last lines so far (`ParserStart`, `ParserStep`). `HeaderFits` bounds the characters of each
  header line.
- `CgiChild_proofs`, the script and the log: `ScriptReaped`, `OutputClean`, `StatusLogged`. A script
  exists from the fork on, and
  the child leaves its wait only for a reaped script or a signal. For the header the
  invariant says what is in the buffer and at the client in each state of the script, for
  the three states of stdout. For the log it says, for each list of steps that are left,
  whether the line and the header have been written.
- `CgiChild_proofs`, the response: `RangeDecides`, `OpenRange`, `LastDateDecides`, `ContentRangeAgrees`,
  `HeaderLinesWhole`, `CgiTypes`. `StatusInv` joins `ParserInv` with how a status, once chosen, follows from
  the parser's result and from the file (`Decided`), and with the one header that may have
  been sent. It is inductive together with the invariant of the log, which says that a header is
  written only for a chosen status and only once. That each check of `handle_client` relies on those before it
  is the lemma `CheckDecides`.
- `CgiChild_proofs`, the composition with `ResponseBody`: `BodyStarts`. `ResponseBody` begins with
  any range the parser may hand on and chooses between 416, 206 and 200 for itself. The theorem
  says that every child that gets so far is in an initial state of `ResponseBody`, with the same
  status and the same Content-Length line, with what its int has wrapped and its buffer cut off, for files of any
  size: so the theorems about the body are about the responses that `HandleClient` starts. No run has this
  property, because `ResponseBody` then enumerates all ranges of an int.
- `ResponseBody_proofs`: `TypeCorrect`, `Contiguous`, `Complete`, `NotMoreThanAnnounced`. In the loop
  `bytesWritten` is the offset behind what was sent, and what was read lies behind that, directly
  behind it unless a write was cut short. While the file keeps its size and the announced number is
  whole, it is the size less the start, and the position of the file does not pass its end. Where the number
  wraps or is cut off nothing is claimed: there the header and the body do not agree.

Induction. The library's theorems about induction and recursive functions take an operator as a
parameter, which the provers cannot instantiate. `HandleClient_proofs` therefore starts from two that do not:
every nonempty set has a minimal element for a well-founded relation (`WFMin`), and `<` is one on the
naturals. From them it derives induction for a set of numbers (`Induction`), and that a
function exists which iterates a given sequence of functions (`Iteration`, `EndlessIteration`), with which the
equations of the recursive functions `PowerOfTen`, `Number` and `ScanNumber` are proved.

Every invariant and every action property that a run checks is proved. Only model-checked: the
liveness properties (`ZombiesAreReaped`, `NoConnectionStuckInBacklog`, `StoppedServerEndsWithNextClient`,
`NoSocketNoServer`, `ChildEndsWithScript`, `ResponseEnds`, `LoggerIsNotBlocked`, `EndingThreadAdmitsNext`,
`SilentClientIsLeft`) and the fairness part of the refinement of `SlotPool`: they need ENABLED, which is
outside the prover's reach.

## Not modelled

- `passive_tcp.c` as `echod` calls it once at its start: system calls in a row that return at the first
  error. `connect_tcp.c` and `socket_info.c`: called by no program of the repository.
- `hostinfo.c`: prints what `getaddrinfo` returns and tries each address once; no
  state lasts from one address to the next.
- `content.c`: one look-up in a table, whose result is only text of a header.
- `libdebug`: wrappers of `malloc` and `free` in the debug build.
- The overflow of `filepath` in `handle_client`, 1000 bytes for the root directory and any file name.
- In `TinyWebServer`, a CGI script that outlives its child, after SIGINT has interrupted the child's `wait`, and still
  holds the connection.
- Reads past the end of the request buffer, which has no terminating NUL after a full read.
- `print_debug` of `sem_print.c`, `print_http_header` and `set_verbosity_level`, which the normal
  build does not call.

## Plan

Order of work, the most important behaviour first; 1 to 12 are done.

1. `TinyWebServer` and its proofs.
2. `SlotPool`, `EchoPool`, refinement and proofs.
3. `RequestLog` and proofs.
4. `ResponseBody`.
5. `HttpParser`.
6. `HandleClient`, composed of the parser and the handler, with the header buffers.
7. `CgiChild`, the whole child.
8. `SocketIO`, `EchoSession` and its refinement of `ByteCopy`.
9. `TinyWeb`, the start in front of the server.
10. Proofs of `TinyWeb` and `EchoSession`: the set-up, the refinement, `EchoedWhenClosed`.
11. Proofs of `ResponseBody` (contiguous, complete, not more than announced) and `CgiChild` (a script is
    reaped, its header, the log).
12. Proofs of `HttpParser` and `HandleClient`: the digit loop, the last range and date, the statuses,
    Content-Range and 206, the buffers of the header lines.
13. Server and log composed: the children of `TinyWebServer` as those of `RequestLog`.

## Running

    tlc -config TinyWeb.cfg TinyWeb.tla
    tlc -config CgiChild.cfg MC_CgiChild.tla
    tlc -config EchoSession.cfg EchoSession.tla
    tlapm CgiChild_proofs.tla
