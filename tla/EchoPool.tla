------------------------------ MODULE EchoPool ------------------------------
(***************************************************************************)
(* The thread pool of the echo daemon (echod/echod.c): accept_clients() in *)
(* the main thread, slave_thread() in one detached thread per client, and  *)
(* the counter num_active they share under a mutex and a condition         *)
(* variable.                                                               *)
(*                                                                         *)
(* A reserved slot is given back by the thread that was started for it.    *)
(* Where no thread starts (an interrupted accept(), a pthread_create() that*)
(* fails, whose result is not looked at) it is lost; "lost" counts these.  *)
(***************************************************************************)
EXTENDS Naturals, FiniteSets

CONSTANTS Threads,             \* identities of threads; reused
          NoOne,               \* owner of a free mutex
          Acceptor,            \* the main thread as an owner of the mutex
          MaxActive,           \* MAX_NUM_THREADS
          AcceptInterruptible  \* can a signal make accept() fail with EINTR;
                               \* not as built, sig_handler() is not installed

ASSUME PoolConstants ==
    /\ IsFiniteSet(Threads)
    /\ Acceptor \notin Threads /\ NoOne \notin Threads /\ Acceptor # NoOne
    /\ MaxActive \in Nat \ {0}
    /\ AcceptInterruptible \in BOOLEAN

VARIABLES
    apc,             \* where the acceptor is
    server_running,
    num_active,
    mutex,           \* who owns the mutex
    mutexLive,       \* FALSE once main() has destroyed it
    thread,          \* where each slave thread is
    lost,            \* history: slots reserved that no thread will give back
    alive            \* FALSE once the process has terminated

vars == <<apc, server_running, num_active, mutex, mutexLive, thread, lost,
          alive>>
lockVars == <<mutex, mutexLive>>

AcceptorPC == {"loop", "test", "waiting", "reacquire", "unlock", "accept",
               "create", "return"}
ThreadPC == {"none", "start", "echo", "lock", "critical", "unlock"}

TypeOK ==
    /\ apc \in AcceptorPC
    /\ server_running \in BOOLEAN
    /\ num_active \in Nat
    /\ mutex \in Threads \cup {NoOne, Acceptor}
    /\ mutexLive \in BOOLEAN
    /\ thread \in [Threads -> ThreadPC]
    /\ lost \in Nat
    /\ alive \in BOOLEAN

\* The threads that hold a slot, and whether the acceptor holds one.
Workers == {t \in Threads : thread[t] \in {"start", "echo", "lock", "critical"}}
Reserved == apc \in {"unlock", "accept", "create"}

Init ==
    /\ apc = "loop"
    /\ server_running = TRUE
    /\ num_active = 0
    /\ mutex = NoOne
    /\ mutexLive = TRUE
    /\ thread = [t \in Threads |-> "none"]
    /\ lost = 0
    /\ alive = TRUE

-----------------------------------------------------------------------------

(* accept_clients() *)

AcceptorStep(from, to) ==
    /\ alive
    /\ apc = from
    /\ apc' = to

Lock ==
    /\ server_running
    /\ AcceptorStep("loop", "test")
    /\ mutex = NoOne
    /\ mutex' = Acceptor
    /\ UNCHANGED <<server_running, num_active, mutexLive, thread, lost, alive>>

\* Mutant of Wait: the acceptor sleeps with the mutex locked.
WaitHoldingMutex ==
    /\ num_active = MaxActive
    /\ AcceptorStep("test", "waiting")
    /\ UNCHANGED <<server_running, num_active, lockVars, thread, lost, alive>>

(* pthread_cond_wait(): the mutex is released as the wait begins. *)
Wait ==
    /\ num_active = MaxActive
    /\ AcceptorStep("test", "waiting")
    /\ mutex' = NoOne
    /\ UNCHANGED <<server_running, num_active, mutexLive, thread, lost, alive>>

(* A condition variable may wake without a signal. *)
SpuriousWakeup ==
    /\ AcceptorStep("waiting", "reacquire")
    /\ UNCHANGED <<server_running, num_active, lockVars, thread, lost, alive>>

\* Mutant of Reacquire: if instead of while around pthread_cond_wait().
ReacquireAndGo ==
    /\ AcceptorStep("reacquire", "unlock")
    /\ mutex = NoOne
    /\ mutex' = Acceptor
    /\ num_active' = num_active + 1
    /\ UNCHANGED <<server_running, mutexLive, thread, lost, alive>>

Reacquire ==
    /\ AcceptorStep("reacquire", "test")
    /\ mutex = NoOne
    /\ mutex' = Acceptor
    /\ UNCHANGED <<server_running, num_active, mutexLive, thread, lost, alive>>

\* Mutant of Reserve: num_active++ is forgotten.
ReserveUncounted ==
    /\ num_active # MaxActive
    /\ AcceptorStep("test", "unlock")
    /\ UNCHANGED <<server_running, num_active, lockVars, thread, lost, alive>>

Reserve ==
    /\ num_active # MaxActive
    /\ AcceptorStep("test", "unlock")
    /\ num_active' = num_active + 1
    /\ UNCHANGED <<server_running, lockVars, thread, lost, alive>>

Unlock ==
    /\ AcceptorStep("unlock", "accept")
    /\ mutex' = NoOne
    /\ UNCHANGED <<server_running, num_active, mutexLive, thread, lost, alive>>

AcceptClient ==
    /\ AcceptorStep("accept", "create")
    /\ UNCHANGED <<server_running, num_active, lockVars, thread, lost, alive>>

(* errno = EINTR: continue, and the next round reserves another slot. *)
AcceptInterrupted ==
    /\ AcceptInterruptible
    /\ AcceptorStep("accept", "loop")
    /\ lost' = lost + 1
    /\ UNCHANGED <<server_running, num_active, lockVars, thread, alive>>

(* Any other error of accept(), or no memory for the client's data. *)
AcceptError ==
    /\ AcceptorStep("accept", "loop") \/ AcceptorStep("create", "loop")
    /\ server_running' = FALSE
    /\ lost' = lost + 1
    /\ UNCHANGED <<num_active, lockVars, thread, alive>>

CreateThread(t) ==
    /\ AcceptorStep("create", "loop")
    /\ thread[t] = "none"
    /\ thread' = [thread EXCEPT ![t] = "start"]
    /\ UNCHANGED <<server_running, num_active, lockVars, lost, alive>>

(* pthread_create() fails; its result is ignored. *)
CreateFails ==
    /\ AcceptorStep("create", "loop")
    /\ lost' = lost + 1
    /\ UNCHANGED <<server_running, num_active, lockVars, thread, alive>>

(* accept_clients() returns and main() destroys the mutex, which fails with
   EBUSY and changes nothing while a thread owns it. *)
DestroyMutex ==
    /\ ~server_running
    /\ AcceptorStep("loop", "return")
    /\ mutexLive' = (mutex # NoOne)
    /\ UNCHANGED <<server_running, num_active, mutex, thread, lost, alive>>

(* The return from main() ends every thread of the process. *)
MainReturns ==
    /\ AcceptorStep("return", "return")
    /\ alive' = FALSE
    /\ UNCHANGED <<server_running, num_active, lockVars, thread, lost>>

-----------------------------------------------------------------------------

(* slave_thread() *)

ThreadStep(t, from, to) ==
    /\ alive
    /\ thread[t] = from
    /\ thread' = [thread EXCEPT ![t] = to]

ThreadStarts(t) ==
    /\ ThreadStep(t, "start", "echo")
    /\ UNCHANGED <<apc, server_running, num_active, lockVars, lost, alive>>

\* Mutant of ThreadEndsProcess: pthread_exit() instead of exit(1).
ThreadReturnsEarly(t) ==
    /\ ThreadStep(t, "start", "none")
    /\ UNCHANGED <<apc, server_running, num_active, lockVars, lost, alive>>

(* No memory for the buffer: exit(1).  SIGPIPE while echoing to a client that
   has closed: the default action.  Either ends the process. *)
ThreadEndsProcess(t) ==
    /\ alive /\ thread[t] \in {"start", "echo"}
    /\ alive' = FALSE
    /\ UNCHANGED <<apc, server_running, num_active, lockVars, thread, lost>>

(* End of file, an error or a timeout ends the echo loop. *)
EchoEnds(t) ==
    /\ ThreadStep(t, "echo", "lock")
    /\ UNCHANGED <<apc, server_running, num_active, lockVars, lost, alive>>

\* Mutant of ThreadLock: the counter is changed without the mutex.
ThreadSkipsLock(t) ==
    /\ ThreadStep(t, "lock", "critical")
    /\ UNCHANGED <<apc, server_running, num_active, lockVars, lost, alive>>

(* Locking a destroyed mutex fails with EINVAL and is not noticed. *)
ThreadLock(t) ==
    /\ ThreadStep(t, "lock", "critical")
    /\ IF mutexLive THEN mutex = NoOne /\ mutex' = t ELSE UNCHANGED mutex
    /\ UNCHANGED <<apc, server_running, num_active, mutexLive, lost, alive>>

\* Mutant of Release: the thread signals one exit too early.
ReleaseSignalsAtMax(t) ==
    /\ ThreadStep(t, "critical", "unlock")
    /\ num_active' = num_active - 1
    /\ apc' = IF apc = "waiting" /\ num_active' = MaxActive
              THEN "reacquire" ELSE apc
    /\ UNCHANGED <<server_running, lockVars, lost, alive>>

(* num_active--, and the signal when the pool is no longer full.  Without the
   mutex the decrement races with that of another thread and may be lost. *)
Release(t) ==
    /\ ThreadStep(t, "critical", "unlock")
    /\ \/ num_active' = num_active - 1
       \/ ~mutexLive /\ num_active' = num_active
    /\ apc' = IF apc = "waiting" /\ num_active' = MaxActive - 1
              THEN "reacquire" ELSE apc
    /\ UNCHANGED <<server_running, lockVars, lost, alive>>

ThreadUnlock(t) ==
    /\ ThreadStep(t, "unlock", "none")
    /\ mutex' = IF mutex = t THEN NoOne ELSE mutex
    /\ UNCHANGED <<apc, server_running, num_active, mutexLive, lost, alive>>

-----------------------------------------------------------------------------

Accepting == Lock \/ Wait \/ Reacquire \/ Reserve \/ Unlock \/ DestroyMutex
             \/ MainReturns \/ CreateFails \/ \E t \in Threads : CreateThread(t)

Ending(t) == ThreadLock(t) \/ Release(t) \/ ThreadUnlock(t)

Next ==
    \/ Accepting
    \/ SpuriousWakeup \/ AcceptClient \/ AcceptInterrupted \/ AcceptError
    \/ \E t \in Threads :
           ThreadStarts(t) \/ ThreadEndsProcess(t) \/ EchoEnds(t) \/ Ending(t)

Spec == Init /\ [][Next]_vars

(* A thread that can run is scheduled.  Nothing is assumed of the network: a
   client need not come, and a connection need not end.  A thread that waits for
   a mutex that is free again and again gets it in the end: spurious wakeups of
   the acceptor could otherwise keep it away for ever. *)
Fairness ==
    /\ WF_vars(Accepting)
    /\ \A t \in Threads : WF_vars(Ending(t)) /\ SF_vars(ThreadLock(t))

FairSpec == Spec /\ Fairness

-----------------------------------------------------------------------------

(* Properties *)

(* The counter counts: as long as the mutex exists num_active is the number of
   threads that hold a slot, the slot the acceptor holds, and the slots that were
   lost, whatever the interleaving and the wakeups. *)
SlotAccounting ==
    mutexLive =>
        num_active = Cardinality(Workers) + lost + (IF Reserved THEN 1 ELSE 0)

(* "Have we exceeded our limit of active threads?": never, although the test is
   == and not >=. *)
PoolBound ==
    mutexLive =>
        Cardinality(Workers) + lost + (IF Reserved THEN 1 ELSE 0) <= MaxActive

(* The acceptor sleeps on the condition variable only while the pool is full:
   the one signal, at MAX_NUM_THREADS - 1, is never missed. *)
NoLostWakeup == apc = "waiting" => num_active = MaxActive

(* The mutex is the acceptor's exactly where accept_clients() relies on it, and
   while it exists two threads are never inside the critical section. *)
MutexDiscipline ==
    /\ mutex = Acceptor <=> apc \in {"test", "unlock"}
    /\ mutexLive => \A t \in Threads :
                        thread[t] \in {"critical", "unlock"} <=> mutex = t

(* A thread that ends lets the acceptor go on to the next client (or the process
   ends): signal, wakeup and the re-test all happen. *)
EndingThreadAdmitsNext ==
    (apc \in {"loop", "test", "waiting", "reacquire"}
        /\ \E t \in Threads : thread[t] \in {"lock", "critical"})
            ~> (apc = "accept" \/ ~alive)

(* The counter, the mutex and the condition variable implement a pool of slots;
   it is closed when server_running is cleared or the process ends. *)
Pool == INSTANCE SlotPool WITH
            reserved <- Reserved,
            workers <- Workers,
            open <- alive /\ server_running

PoolSpec == Pool!Spec

\* The same without the fairness of the pool.
PoolSafety == Pool!Init /\ [][Pool!Next]_(Pool!vars)

(* What the comment in accept_clients() says of the wait: "wait for an active
   thread to finish".  Violated: when every slot was lost to a failed
   pthread_create() there is no thread left to wait for. *)
WaitsForActiveThread ==
    alive /\ apc = "waiting" => \E t \in Threads : thread[t] # "none"
=============================================================================
