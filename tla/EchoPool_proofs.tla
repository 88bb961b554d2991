--------------------------- MODULE EchoPool_proofs ---------------------------
(* Theorems about the thread pool of the echo daemon, for any number of threads
   and any MAX_NUM_THREADS. *)
EXTENDS EchoPool, FiniteSetTheorems, TLAPS

\* The mutex is destroyed only once the acceptor has left its loop.
DestroyedLast == ~mutexLive => apc = "return"

\* server_running is TRUE wherever the acceptor holds or waits for a slot.
RunningInside ==
    /\ apc = "return" => ~server_running
    /\ ~server_running => apc \in {"loop", "return"}

\* Even where decrements race the counter covers the threads that hold a slot.
CounterCovers == Cardinality(Workers) <= num_active

(* The inductive invariant. *)
IInv == /\ TypeOK
        /\ MutexDiscipline
        /\ SlotAccounting
        /\ PoolBound
        /\ NoLostWakeup
        /\ DestroyedLast
        /\ RunningInside
        /\ CounterCovers

(* The threads that hold a slot can be counted (slave_thread()). *)
LEMMA WorkersCount ==
    ASSUME TypeOK
    PROVE  IsFiniteSet(Workers) /\ Cardinality(Workers) \in Nat
<1>1. Workers \subseteq Threads
  BY DEF Workers
<1>2. IsFiniteSet(Workers)
  BY <1>1, PoolConstants, FS_Subset
<1> QED
  BY <1>2, FS_CardinalityType

(* The type of every variable is kept by a step of the acceptor or of a thread;
   the counter needs the rest of the invariant not to become negative. *)
LEMMA TypeStep == IInv /\ [Next]_vars => TypeOK'
<1> SUFFICES ASSUME IInv, [Next]_vars PROVE TypeOK'
  OBVIOUS
<1> USE PoolConstants DEF IInv, TypeOK, AcceptorPC, ThreadPC
<1>1. CASE Accepting \/ SpuriousWakeup \/ AcceptClient \/ AcceptInterrupted
           \/ AcceptError
  <2>1. CASE Lock \/ Reacquire
    BY <2>1 DEF Lock, Reacquire, AcceptorStep
  <2>2. CASE Wait
    BY <2>2 DEF Wait, AcceptorStep
  <2>3. CASE Unlock
    BY <2>3 DEF Unlock, AcceptorStep
  <2>4. CASE Reserve \/ CreateFails
    BY <2>4 DEF Reserve, CreateFails, AcceptorStep, lockVars
  <2>5. CASE MainReturns
    BY <2>5 DEF MainReturns, AcceptorStep, lockVars
  <2>6. CASE DestroyMutex
    <3>1. mutexLive' \in BOOLEAN
      BY <2>6, Zenon DEF DestroyMutex
    <3>2. /\ apc' = "return"
          /\ UNCHANGED <<server_running, num_active, mutex, thread, lost, alive>>
      BY <2>6, Zenon DEF DestroyMutex, AcceptorStep
    <3> QED
      BY <3>1, <3>2
  <2>7. CASE \E t \in Threads : CreateThread(t)
    BY <2>7 DEF CreateThread, AcceptorStep, lockVars
  <2>8. CASE SpuriousWakeup \/ AcceptClient
    BY <2>8 DEF SpuriousWakeup, AcceptClient, AcceptorStep, lockVars
  <2>9. CASE AcceptInterrupted
    BY <2>9 DEF AcceptInterrupted, AcceptorStep, lockVars
  <2>10. CASE AcceptError
    <3>1. /\ apc' = "loop" /\ server_running' = FALSE /\ lost' = lost + 1
          /\ UNCHANGED <<num_active, mutex, mutexLive, thread, alive>>
      BY <2>10, Zenon DEF AcceptError, AcceptorStep, lockVars
    <3>2. server_running' \in BOOLEAN
      BY <3>1, Zenon
    <3>3. apc' \in AcceptorPC /\ lost' \in Nat
      BY <3>1
    <3>4. /\ num_active' \in Nat /\ mutexLive' \in BOOLEAN /\ alive' \in BOOLEAN
          /\ mutex' \in Threads \cup {NoOne, Acceptor}
          /\ thread' \in [Threads -> ThreadPC]
      BY <3>1
    <3> QED
      BY <3>2, <3>3, <3>4
  <2> QED
    BY <1>1, <2>1, <2>2, <2>3, <2>4, <2>5, <2>6, <2>7, <2>8, <2>9, <2>10
    DEF Accepting
<1>2. ASSUME NEW t \in Threads,
             ThreadStarts(t) \/ ThreadEndsProcess(t) \/ EchoEnds(t)
                \/ ThreadLock(t) \/ ThreadUnlock(t)
      PROVE  TypeOK'
  BY <1>2 DEF ThreadStarts, ThreadEndsProcess, EchoEnds, ThreadLock,
              ThreadUnlock, ThreadStep, lockVars
<1>3. ASSUME NEW t \in Threads, Release(t)
      PROVE  TypeOK'
  <2>1. Cardinality(Workers) \in Nat \ {0}
    <3>1. t \in Workers
      BY <1>3 DEF Release, ThreadStep, Workers
    <3>2. IsFiniteSet(Workers) /\ Cardinality(Workers) \in Nat
      BY WorkersCount
    <3>3. Cardinality(Workers) # 0
      BY <3>1, <3>2, FS_EmptySet
    <3> QED
      BY <3>2, <3>3
  <2>2. num_active - 1 \in Nat
    BY <2>1 DEF CounterCovers
  <2> QED
    BY <1>3, <2>2 DEF Release, ThreadStep, lockVars
<1>4. CASE UNCHANGED vars
  BY <1>4 DEF vars
<1> QED
  BY <1>1, <1>2, <1>3, <1>4 DEF Next, Ending

\* Where the acceptor is, and who owns the mutex.
LockInv == MutexDiscipline /\ DestroyedLast /\ RunningInside

(* The mutex is taken and released as accept_clients() and slave_thread() intend,
   and destroyed last. *)
LEMMA LockStep == IInv /\ [Next]_vars => LockInv'
<1> SUFFICES ASSUME IInv, [Next]_vars PROVE LockInv'
  OBVIOUS
<1> USE PoolConstants DEF IInv, TypeOK, LockInv, MutexDiscipline, DestroyedLast,
                          RunningInside
<1>1. CASE Accepting \/ SpuriousWakeup \/ AcceptClient \/ AcceptInterrupted
           \/ AcceptError
  <2>1. CASE Lock \/ Wait \/ Reacquire \/ Reserve \/ Unlock
    BY <2>1 DEF Lock, Wait, Reacquire, Reserve, Unlock, AcceptorStep, lockVars
  <2>2. CASE DestroyMutex \/ MainReturns \/ CreateFails
    BY <2>2 DEF DestroyMutex, MainReturns, CreateFails, AcceptorStep, lockVars
  <2>3. CASE \E t \in Threads : CreateThread(t)
    BY <2>3 DEF CreateThread, AcceptorStep, lockVars
  <2>4. CASE SpuriousWakeup \/ AcceptClient \/ AcceptInterrupted \/ AcceptError
    BY <2>4 DEF SpuriousWakeup, AcceptClient, AcceptInterrupted, AcceptError,
                AcceptorStep, lockVars
  <2> QED
    BY <1>1, <2>1, <2>2, <2>3, <2>4 DEF Accepting
<1>2. ASSUME NEW t \in Threads,
             ThreadStarts(t) \/ ThreadEndsProcess(t) \/ EchoEnds(t)
      PROVE  LockInv'
  BY <1>2 DEF ThreadStarts, ThreadEndsProcess, EchoEnds, ThreadStep, lockVars
<1>3. ASSUME NEW t \in Threads, ThreadLock(t) \/ Release(t) \/ ThreadUnlock(t)
      PROVE  LockInv'
  BY <1>3 DEF ThreadLock, Release, ThreadUnlock, ThreadStep, lockVars
<1>4. CASE UNCHANGED vars
  BY <1>4 DEF vars
<1> QED
  BY <1>1, <1>2, <1>3, <1>4 DEF Next, Ending

\* What the counter has to do with the threads.
Counting == SlotAccounting /\ PoolBound /\ NoLostWakeup /\ CounterCovers

(* A step of the acceptor keeps the counter right. *)
LEMMA AcceptorCounts ==
    ASSUME IInv,
           Accepting \/ SpuriousWakeup \/ AcceptClient \/ AcceptInterrupted
               \/ AcceptError
    PROVE  Counting'
<1> DEFINE C == Cardinality(Workers)
<1> USE PoolConstants DEF IInv, TypeOK, SlotAccounting, PoolBound, NoLostWakeup,
                          DestroyedLast, CounterCovers, Counting, Reserved
<1>0. IsFiniteSet(Workers) /\ C \in Nat
  BY WorkersCount
<1>1. ASSUME thread' = thread PROVE Workers' = Workers
  BY <1>1 DEF Workers
<1>2. CASE Lock \/ Wait \/ Reacquire \/ Unlock \/ SpuriousWakeup \/ AcceptClient
           \/ DestroyMutex \/ MainReturns
  BY <1>0, <1>1, <1>2
  DEF Lock, Wait, Reacquire, Unlock, SpuriousWakeup, AcceptClient, DestroyMutex,
      MainReturns, AcceptorStep, lockVars
<1>3. CASE Reserve
  BY <1>0, <1>1, <1>3 DEF Reserve, AcceptorStep, lockVars
<1>4. CASE CreateFails \/ AcceptInterrupted \/ AcceptError
  BY <1>0, <1>1, <1>4 DEF CreateFails, AcceptInterrupted, AcceptError,
                          AcceptorStep, lockVars
<1>5. ASSUME NEW t \in Threads, CreateThread(t)
      PROVE  Counting'
  <2>1. Workers' = Workers \cup {t} /\ t \notin Workers
    BY <1>5 DEF CreateThread, Workers
  <2>2. Cardinality(Workers') = C + 1
    BY <1>0, <2>1, FS_AddElement
  <2> QED
    BY <1>0, <1>5, <2>2 DEF CreateThread, AcceptorStep, lockVars
<1> QED
  BY <1>2, <1>3, <1>4, <1>5 DEF Accepting

(* A step of a thread keeps the counter right, and wakes the acceptor when the
   pool is full no longer. *)
LEMMA ThreadCounts ==
    ASSUME IInv, NEW t \in Threads,
           ThreadStarts(t) \/ ThreadEndsProcess(t) \/ EchoEnds(t) \/ Ending(t)
    PROVE  Counting'
<1> DEFINE C == Cardinality(Workers)
<1> USE PoolConstants DEF IInv, TypeOK, SlotAccounting, PoolBound, NoLostWakeup,
                          DestroyedLast, CounterCovers, Counting, Reserved
<1>0. IsFiniteSet(Workers) /\ C \in Nat
  BY WorkersCount
<1>1. CASE ThreadStarts(t) \/ ThreadEndsProcess(t) \/ EchoEnds(t)
           \/ ThreadLock(t) \/ ThreadUnlock(t)
  <2>1. Workers' = Workers
    BY <1>1 DEF ThreadStarts, ThreadEndsProcess, EchoEnds, ThreadLock,
                ThreadUnlock, ThreadStep, Workers
  <2> QED
    BY <1>0, <1>1, <2>1 DEF ThreadStarts, ThreadEndsProcess, EchoEnds,
                            ThreadLock, ThreadUnlock, ThreadStep, lockVars
<1>2. CASE Release(t)
  <2>1. Workers' = Workers \ {t} /\ t \in Workers
    BY <1>2 DEF Release, ThreadStep, Workers
  <2>2. Cardinality(Workers') = C - 1
    BY <1>0, <2>1, FS_RemoveElement
  <2>3. C \in Nat \ {0}
    BY <1>0, <2>1, FS_EmptySet
  <2> QED
    BY <1>0, <1>2, <2>2, <2>3 DEF Release, ThreadStep, lockVars
<1> QED
  BY <1>1, <1>2 DEF Ending

(* The invariant holds initially. *)
LEMMA InvInit == Init => IInv
<1> SUFFICES ASSUME Init PROVE IInv
  OBVIOUS
<1>1. Workers = {}
  BY DEF Init, Workers
<1>2. Cardinality(Workers) = 0
  BY <1>1, FS_EmptySet
<1> QED
  BY <1>2, PoolConstants
  DEF Init, IInv, TypeOK, AcceptorPC, ThreadPC, MutexDiscipline, SlotAccounting,
      PoolBound, NoLostWakeup, DestroyedLast, RunningInside, CounterCovers, Reserved

(* Every step keeps it. *)
LEMMA InvStep == IInv /\ [Next]_vars => IInv'
<1> SUFFICES ASSUME IInv, [Next]_vars PROVE IInv'
  OBVIOUS
<1>1. Counting'
  <2>1. CASE UNCHANGED vars
    BY <2>1 DEF vars, IInv, Counting, SlotAccounting, PoolBound, NoLostWakeup,
                CounterCovers, Workers, Reserved
  <2> QED
    BY <2>1, AcceptorCounts, ThreadCounts DEF Next
<1> QED
  BY <1>1, TypeStep, LockStep DEF IInv, LockInv, Counting

(* The inductive invariant holds in every reachable state. *)
THEOREM Invariance == Spec => []IInv
  BY InvInit, InvStep, PTL DEF Spec

(* TypeOK for any number of threads. *)
THEOREM TypeCorrect == Spec => []TypeOK
  BY Invariance, PTL DEF IInv

(* The counter is exact: accept_clients() and slave_thread() never count a slot
   twice or forget one, except the ones that are lost. *)
THEOREM CounterExact == Spec => []SlotAccounting
  BY Invariance, PTL DEF IInv

(* Never more than MAX_NUM_THREADS slots are in use, although the loop tests the
   counter for equality. *)
THEOREM PoolBounded == Spec => []PoolBound
  BY Invariance, PTL DEF IInv

(* The single signal at MAX_NUM_THREADS - 1 is enough. *)
THEOREM WakeupNotLost == Spec => []NoLostWakeup
  BY Invariance, PTL DEF IInv

(* The mutex is used as intended. *)
THEOREM MutexSound == Spec => []MutexDiscipline
  BY Invariance, PTL DEF IInv

-----------------------------------------------------------------------------

\* The open pool, as the refinement mapping sees it.
PoolOpen == alive /\ server_running

\* What the refinement mapping sees does not change.
PoolUnchanged == /\ Reserved' = Reserved
                 /\ Workers' = Workers
                 /\ lost' = lost
                 /\ PoolOpen' = PoolOpen

(* SlotPool counts as this module does. *)
LEMMA SameCardinality == \A S : Pool!Cardinality(S) = Cardinality(S)
  BY DEF Pool!Cardinality, Cardinality

(* A step of the acceptor is a step of the pool of slots, or none. *)
LEMMA AcceptorRefines ==
    ASSUME IInv,
           Accepting \/ SpuriousWakeup \/ AcceptClient \/ AcceptInterrupted
               \/ AcceptError
    PROVE  [Pool!Next]_(Pool!vars)
<1> USE DEF PoolOpen, PoolUnchanged
<1>0. IsFiniteSet(Workers) /\ Cardinality(Workers) \in Nat
  BY WorkersCount DEF IInv
<1>1. ASSUME thread' = thread PROVE Workers' = Workers
  BY <1>1 DEF Workers
<1>2. ASSUME PoolUnchanged PROVE [Pool!Next]_(Pool!vars)
  BY <1>2 DEF Pool!vars
<1>3. CASE Lock \/ Wait \/ Reacquire \/ Unlock \/ SpuriousWakeup \/ AcceptClient
  <2>1. PoolUnchanged
    BY <1>1, <1>3 DEF Lock, Wait, Reacquire, Unlock, SpuriousWakeup,
                      AcceptClient, AcceptorStep, Reserved
  <2> QED
    BY <1>2, <2>1
<1>4. CASE Reserve
  <2>1. Reserved' /\ ~Reserved /\ PoolOpen /\ PoolOpen' = PoolOpen
    BY <1>4 DEF IInv, RunningInside, Reserve, AcceptorStep, Reserved
  <2>2. Workers' = Workers /\ lost' = lost
    BY <1>1, <1>4 DEF Reserve
  <2>3. Pool!Free > 0
    <3>1. Cardinality(Workers) + lost < MaxActive
      BY <1>0, <1>4, <2>1, PoolConstants
      DEF IInv, TypeOK, SlotAccounting, PoolBound, DestroyedLast, Reserve,
          AcceptorStep
    <3>2. Pool!Free = MaxActive - (Cardinality(Workers) + lost + 0)
      BY <2>1, SameCardinality DEF Pool!Free
    <3> QED
      BY <1>0, <3>1, <3>2, PoolConstants DEF IInv, TypeOK
  <2>4. Pool!Reserve
    BY <2>1, <2>2, <2>3 DEF Pool!Reserve
  <2> QED
    BY <2>4 DEF Pool!Next
<1>5. CASE CreateFails \/ AcceptInterrupted
  <2>1. Pool!Lose
    BY <1>1, <1>5 DEF IInv, RunningInside, CreateFails, AcceptInterrupted,
                      AcceptorStep, Reserved, lockVars, Pool!Lose
  <2> QED
    BY <2>1 DEF Pool!Next
<1>6. CASE AcceptError
  <2>1. Pool!Close
    BY <1>1, <1>6 DEF IInv, RunningInside, AcceptError, AcceptorStep, Reserved,
                      lockVars, Pool!Close
  <2> QED
    BY <2>1 DEF Pool!Next
<1>7. ASSUME NEW t \in Threads, CreateThread(t)
      PROVE  [Pool!Next]_(Pool!vars)
  <2>1. Workers' = Workers \cup {t} /\ t \notin Workers
    BY <1>7 DEF IInv, TypeOK, CreateThread, Workers
  <2>2. Pool!Start(t)
    BY <1>7, <2>1 DEF IInv, RunningInside, CreateThread, AcceptorStep, Reserved,
                      lockVars, Pool!Start
  <2> QED
    BY <2>2 DEF Pool!Next
<1>8. CASE DestroyMutex \/ MainReturns
  <2>1. PoolUnchanged
    BY <1>1, <1>8 DEF IInv, RunningInside, DestroyMutex, MainReturns,
                      AcceptorStep, Reserved, lockVars
  <2> QED
    BY <1>2, <2>1
<1> QED
  BY <1>3, <1>4, <1>5, <1>6, <1>7, <1>8 DEF Accepting

(* So is a step of a thread. *)
LEMMA ThreadRefines ==
    ASSUME IInv, NEW t \in Threads,
           ThreadStarts(t) \/ ThreadEndsProcess(t) \/ EchoEnds(t) \/ Ending(t)
    PROVE  [Pool!Next]_(Pool!vars)
<1> USE DEF PoolOpen, PoolUnchanged
<1>1. ASSUME PoolUnchanged PROVE [Pool!Next]_(Pool!vars)
  BY <1>1 DEF Pool!vars
<1>2. CASE ThreadStarts(t) \/ EchoEnds(t) \/ ThreadLock(t) \/ ThreadUnlock(t)
  <2>1. Workers' = Workers
    BY <1>2 DEF IInv, TypeOK, ThreadStarts, EchoEnds, ThreadLock, ThreadUnlock,
                ThreadStep, Workers
  <2>2. PoolUnchanged
    BY <1>2, <2>1 DEF ThreadStarts, EchoEnds, ThreadLock, ThreadUnlock,
                      ThreadStep, Reserved, lockVars
  <2> QED
    BY <1>1, <2>2
<1>3. CASE ThreadEndsProcess(t)
  <2>1. /\ Workers' = Workers /\ Reserved' = Reserved /\ lost' = lost
        /\ ~PoolOpen'
    BY <1>3 DEF ThreadEndsProcess, Workers, Reserved
  <2>2. CASE PoolOpen
    BY <2>1, <2>2 DEF Pool!Close, Pool!Next
  <2>3. CASE ~PoolOpen
    BY <1>1, <2>1, <2>3
  <2> QED
    BY <2>2, <2>3
<1>4. CASE Release(t)
  <2>1. Workers' = Workers \ {t} /\ t \in Workers
    BY <1>4 DEF IInv, TypeOK, Release, ThreadStep, Workers
  <2>2. Reserved' = Reserved /\ lost' = lost /\ PoolOpen' = PoolOpen
    BY <1>4 DEF Release, ThreadStep, Reserved, lockVars
  <2>3. Pool!Release(t)
    BY <2>1, <2>2 DEF Pool!Release
  <2> QED
    BY <2>3 DEF Pool!Next
<1> QED
  BY <1>2, <1>3, <1>4 DEF Ending

(* accept_clients() and slave_thread() with their counter, mutex and condition
   variable implement the pool of slots: each step reserves, hands over, loses or
   releases one slot, closes the pool, or changes nothing the pool sees. *)
THEOREM PoolImplemented == Spec => PoolSafety
<1>1. Init => Pool!Init
  BY DEF Init, Pool!Init, Reserved, Workers
<1>2. IInv /\ [Next]_vars => [Pool!Next]_(Pool!vars)
  <2> SUFFICES ASSUME IInv, [Next]_vars PROVE [Pool!Next]_(Pool!vars)
    OBVIOUS
  <2>1. CASE UNCHANGED vars
    BY <2>1 DEF vars, Pool!vars, Reserved, Workers
  <2> QED
    BY <2>1, AcceptorRefines, ThreadRefines DEF Next
<1> QED
  BY <1>1, <1>2, Invariance, PTL DEF Spec, PoolSafety
=============================================================================
