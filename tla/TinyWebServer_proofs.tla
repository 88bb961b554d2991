------------------------ MODULE TinyWebServer_proofs ------------------------
(* Theorems about the server process of tinyweb, for any set of clients and any
   limits. *)
EXTENDS TinyWebServer, FiniteSetTheorems, SequenceTheorems, TLAPS

(* The steps of the system, in groups that share what they leave alone. *)
LEMMA StepCases ==
    ASSUME [Next]_vars
    PROVE  \/ CreateSocket \/ StartRunning \/ LoopTest \/ InstallSigchld
           \/ AcceptSleep \/ AcceptFails
           \/ AcceptReturns \/ Fork \/ ForkFails \/ CloseNsd
           \/ GoodBye \/ ExitOnError
           \/ HandleSigint \/ HandleSigchld \/ ReapDone
           \/ SendSigint
           \/ UNCHANGED vars
           \/ \E c \in Clients :
                 Reap(c) \/ ChildCloseSd(c) \/ ChildExit(c) \/ Connect(c)
  BY DEF Next, Main, Handler

-----------------------------------------------------------------------------

(* Every variable keeps its type. *)
LEMMA TypeStep == TypeOK /\ [Next]_vars => TypeOK'
<1> SUFFICES ASSUME TypeOK, [Next]_vars PROVE TypeOK'
  OBVIOUS
<1> USE ServerConstants
    DEF TypeOK, MainPC, Signals, ChildState, MainStep, sigVars, netVars,
        childVars
<1>1. CASE CreateSocket
  BY <1>1 DEF CreateSocket
<1>2. CASE StartRunning
  BY <1>2 DEF StartRunning
<1>3. CASE LoopTest \/ AcceptSleep \/ AcceptFails
  BY <1>3 DEF LoopTest, AcceptSleep, AcceptFails
<1>4. CASE InstallSigchld
  BY <1>4 DEF InstallSigchld
<1>5. CASE AcceptReturns
  <2>1. Head(backlog) \in Clients /\ Tail(backlog) \in Seq(Clients)
    BY <1>5, HeadTailProperties DEF AcceptReturns
  <2>2. late' \in Nat
    BY <1>5 DEF AcceptReturns
  <2> QED
    BY <1>5, <2>1, <2>2 DEF AcceptReturns
<1>6. CASE Fork
  BY <1>6 DEF Fork
<1>7. CASE ForkFails
  BY <1>7 DEF ForkFails
<1>8. CASE CloseNsd
  BY <1>8 DEF CloseNsd
<1>9. CASE GoodBye
  <2>1. retcode \in {"none", "success", "nsd", "error"} /\ <<>> \in Seq(Clients)
    OBVIOUS
  <2> QED
    BY <1>9, <2>1 DEF GoodBye, Terminate
<1>10. CASE ExitOnError
  BY <1>10 DEF ExitOnError, Terminate
<1>11. CASE HandleSigint
  BY <1>11 DEF HandleSigint
<1>12. CASE HandleSigchld
  BY <1>12 DEF HandleSigchld
<1>13. CASE ReapDone
  BY <1>13 DEF ReapDone
<1>14. CASE SendSigint
  BY <1>14 DEF SendSigint
<1>15. ASSUME NEW c \in Clients, Reap(c) PROVE TypeOK'
  BY <1>15 DEF Reap
<1>16. ASSUME NEW c \in Clients, ChildCloseSd(c) PROVE TypeOK'
  BY <1>16 DEF ChildCloseSd
<1>17. ASSUME NEW c \in Clients, ChildExit(c) PROVE TypeOK'
  BY <1>17 DEF ChildExit
<1>18. ASSUME NEW c \in Clients, Connect(c) PROVE TypeOK'
  <2>1. Append(backlog, c) \in Seq(Clients)
    BY AppendProperties
  <2> QED
    BY <1>18, <2>1 DEF Connect
<1>19. CASE UNCHANGED vars
  BY <1>19 DEF vars
<1> QED
  BY StepCases, <1>1, <1>2, <1>3, <1>4, <1>5, <1>6, <1>7, <1>8, <1>9, <1>10,
     <1>11, <1>12, <1>13, <1>14, <1>15, <1>16, <1>17, <1>18, <1>19

-----------------------------------------------------------------------------

\* Nobody has a child before the SIGCHLD handler is installed.
HandlerFirst ==
    /\ mpc \in {"call", "blocked", "fork", "close"} => sigchld = "handler"
    /\ \A c \in Clients : child[c] # "none" => sigchld = "handler"

SignalInv == NoLostChild /\ HandlerFirst

(* No zombie is forgotten: whatever takes SIGCHLD out of pending starts the loop
   that reaps them all. *)
LEMMA SignalStep == TypeOK /\ SignalInv /\ [Next]_vars => SignalInv'
<1> SUFFICES ASSUME TypeOK, SignalInv, [Next]_vars PROVE SignalInv'
  OBVIOUS
<1> USE DEF TypeOK, SignalInv, HandlerFirst, NoLostChild, Alive, Zombies,
            MainStep, sigVars, netVars, childVars
<1>1. CASE CreateSocket \/ LoopTest \/ AcceptSleep \/ AcceptFails \/ AcceptReturns
  BY <1>1 DEF CreateSocket, LoopTest, AcceptSleep, AcceptFails, AcceptReturns
<1>2. CASE StartRunning \/ InstallSigchld
  BY <1>2 DEF StartRunning, InstallSigchld
<1>3. CASE Fork
  BY <1>3 DEF Fork
<1>4. CASE ForkFails \/ CloseNsd
  BY <1>4 DEF ForkFails, CloseNsd
<1>5. CASE GoodBye \/ ExitOnError
  BY <1>5 DEF GoodBye, ExitOnError, Terminate
<1>6. CASE HandleSigint \/ HandleSigchld \/ ReapDone \/ SendSigint
  BY <1>6 DEF HandleSigint, HandleSigchld, ReapDone, SendSigint
<1>7. ASSUME NEW c \in Clients, Reap(c) PROVE SignalInv'
  BY <1>7 DEF Reap
<1>8. ASSUME NEW c \in Clients, ChildCloseSd(c) PROVE SignalInv'
  BY <1>8 DEF ChildCloseSd
<1>9. ASSUME NEW c \in Clients, ChildExit(c) PROVE SignalInv'
  BY <1>9 DEF ChildExit
<1>10. ASSUME NEW c \in Clients, Connect(c) PROVE SignalInv'
  BY <1>10 DEF Connect
<1>11. CASE UNCHANGED vars
  BY <1>11 DEF vars
<1> QED
  BY StepCases, <1>1, <1>2, <1>3, <1>4, <1>5, <1>6, <1>7, <1>8, <1>9, <1>10,
     <1>11

-----------------------------------------------------------------------------

(* A late client is accepted only by a main that is on its way to the test that
   ends the loop. *)
LateInv ==
    /\ late \in {0, 1}
    /\ mpc \in {"socket", "boot"} => late = 0
    /\ late = 1 => /\ ~server_running
                   /\ mpc \notin {"setup", "call", "blocked"}

(* The flag is set once, before the first client, and cleared for good. *)
LEMMA LateStep == TypeOK /\ LateInv /\ [Next]_vars => LateInv'
<1> SUFFICES ASSUME TypeOK, LateInv, [Next]_vars PROVE LateInv'
  OBVIOUS
<1> USE DEF TypeOK, LateInv, MainStep, sigVars, netVars, childVars
<1>1. CASE CreateSocket \/ LoopTest \/ AcceptSleep \/ AcceptFails
  BY <1>1 DEF CreateSocket, LoopTest, AcceptSleep, AcceptFails
<1>2. CASE StartRunning \/ InstallSigchld
  BY <1>2 DEF StartRunning, InstallSigchld
<1>3. CASE AcceptReturns
  <2>1. late = 0
    BY <1>3 DEF AcceptReturns
  <2> QED
    BY <1>3, <2>1 DEF AcceptReturns
<1>4. CASE Fork \/ ForkFails \/ CloseNsd
  BY <1>4 DEF Fork, ForkFails, CloseNsd
<1>5. CASE GoodBye \/ ExitOnError
  BY <1>5 DEF GoodBye, ExitOnError, Terminate
<1>6. CASE HandleSigint
  BY <1>6 DEF HandleSigint
<1>7. CASE HandleSigchld \/ ReapDone \/ SendSigint
  BY <1>7 DEF HandleSigchld, ReapDone, SendSigint
<1>8. ASSUME NEW c \in Clients,
             Reap(c) \/ ChildCloseSd(c) \/ ChildExit(c) \/ Connect(c)
      PROVE  LateInv'
  BY <1>8 DEF Reap, ChildCloseSd, ChildExit, Connect
<1>9. CASE UNCHANGED vars
  BY <1>9 DEF vars
<1> QED
  BY StepCases, <1>1, <1>2, <1>3, <1>4, <1>5, <1>6, <1>7, <1>8, <1>9

-----------------------------------------------------------------------------

\* No process has anything of the client's yet.
Untouched(c) ==
    /\ c \notin fds
    /\ child[c] = "none"
    /\ \A d \in Clients : c \notin childFds[d]

\* A client is queued once, and before anybody has its descriptor.
QueueInv ==
    /\ \A c \in Clients \ arrived : Untouched(c)
    /\ \A i \in 1..Len(backlog) :
           backlog[i] \in arrived /\ Untouched(backlog[i])
    /\ \A i, j \in 1..Len(backlog) : backlog[i] = backlog[j] => i = j

\* Who holds which connected socket.
HolderInv ==
    /\ nsd # NoClient <=> mpc \in {"fork", "close"}
    /\ mpc = "fork" => /\ nsd \in fds /\ child[nsd] = "none"
                       /\ \A d \in Clients : nsd \notin childFds[d]
    /\ \A c \in fds : child[c] = "none" \/ (mpc = "close" /\ nsd = c)
    /\ \A c, d \in Clients : c \in childFds[d] => c = d \/ child[c] = "none"
    /\ \A c \in Clients : child[c] \in {"none", "zombie", "reaped"} =>
                              childFds[c] = {}

FdInv == QueueInv /\ HolderInv

(* What the invariant is for. *)
LEMMA FdInvImplies == TypeOK /\ FdInv => ConnectionClosedWithChild
  BY DEF TypeOK, FdInv, HolderInv, ConnectionClosedWithChild

(* The descriptors a step may touch are those of one client. *)
LEMMA FdStep == TypeOK /\ FdInv /\ [Next]_vars => FdInv'
<1> SUFFICES ASSUME TypeOK, FdInv, [Next]_vars PROVE FdInv'
  OBVIOUS
<1> USE ServerConstants
    DEF TypeOK, FdInv, QueueInv, HolderInv, Untouched, MainStep, sigVars,
        netVars, childVars
<1>1. CASE CreateSocket \/ LoopTest \/ AcceptSleep \/ AcceptFails
  BY <1>1 DEF CreateSocket, LoopTest, AcceptSleep, AcceptFails
<1>2. CASE StartRunning \/ InstallSigchld
  BY <1>2 DEF StartRunning, InstallSigchld
<1>3. CASE AcceptReturns
  <2>1. /\ backlog # <<>>
        /\ nsd' = backlog[1] /\ fds' = fds \cup {backlog[1]}
        /\ backlog' = Tail(backlog) /\ mpc' = "fork"
        /\ UNCHANGED <<arrived, child, childFds>>
    BY <1>3 DEF AcceptReturns
  <2>2. /\ backlog[1] \in Clients
        /\ Len(backlog) \in Nat \ {0}
        /\ Len(backlog') = Len(backlog) - 1
        /\ \A i \in 1..Len(backlog') : backlog'[i] = backlog[i + 1]
    BY <2>1, HeadTailProperties, EmptySeq
  <2>3. HolderInv'
    <3>1. /\ nsd' # NoClient /\ nsd' \in fds' /\ child'[nsd'] = "none"
          /\ \A d \in Clients : nsd' \notin childFds'[d]
      BY <2>1, <2>2
    <3>2. \A c \in fds : child[c] = "none"
      BY <1>3 DEF AcceptReturns
    <3> QED
      BY <2>1, <3>1, <3>2
  <2>4. \A i \in 1..Len(backlog') :
           backlog'[i] # backlog[1] /\ backlog'[i] \in arrived
             /\ Untouched(backlog'[i])
    BY <2>2
  <2>5. \A i, j \in 1..Len(backlog') : backlog'[i] = backlog'[j] => i = j
    BY <2>2
  <2>6. \A c \in Clients : c # backlog[1] /\ Untouched(c) => Untouched(c)'
    BY <2>1
  <2>7. \A i \in 1..Len(backlog') : backlog'[i] \in Clients
    BY <2>2
  <2>8. QueueInv'
    BY <2>1, <2>2, <2>4, <2>5, <2>6, <2>7
  <2> QED
    BY <2>3, <2>8
<1>4. CASE Fork
  BY <1>4 DEF Fork
<1>5. CASE ForkFails \/ CloseNsd
  BY <1>5 DEF ForkFails, CloseNsd
<1>6. CASE GoodBye \/ ExitOnError
  BY <1>6 DEF GoodBye, ExitOnError, Terminate
<1>7. CASE HandleSigint \/ HandleSigchld \/ ReapDone \/ SendSigint
  BY <1>7 DEF HandleSigint, HandleSigchld, ReapDone, SendSigint
<1>8. ASSUME NEW c \in Clients, Reap(c) PROVE FdInv'
  BY <1>8 DEF Reap
<1>9. ASSUME NEW c \in Clients, ChildCloseSd(c) PROVE FdInv'
  BY <1>9 DEF ChildCloseSd
<1>10. ASSUME NEW c \in Clients, ChildExit(c) PROVE FdInv'
  BY <1>10 DEF ChildExit
<1>11. ASSUME NEW c \in Clients, Connect(c) PROVE FdInv'
  <2>1. /\ Len(backlog) \in Nat
        /\ Len(backlog') = Len(backlog) + 1
        /\ \A i \in 1..Len(backlog) : backlog'[i] = backlog[i]
        /\ backlog'[Len(backlog) + 1] = c
    BY <1>11, AppendProperties DEF Connect
  <2>2. \A i \in 1..Len(backlog') : i \in 1..Len(backlog) \/ i = Len(backlog) + 1
    BY <2>1
  <2> QED
    BY <1>11, <2>1, <2>2 DEF Connect
<1>12. CASE UNCHANGED vars
  BY <1>12 DEF vars
<1> QED
  BY StepCases, <1>1, <1>2, <1>3, <1>4, <1>5, <1>6, <1>7, <1>8, <1>9, <1>10,
     <1>11, <1>12

-----------------------------------------------------------------------------

(* The inductive invariant. *)
IInv == TypeOK /\ SignalInv /\ LateInv /\ FdInv

(* It holds initially. *)
LEMMA InvInit == Init => IInv
<1> SUFFICES ASSUME Init PROVE IInv
  OBVIOUS
<1> USE ServerConstants DEF Init
<1>1. TypeOK
  <2>1. backlog \in Seq(Clients) /\ sigints \in 0..MaxSigint
    BY EmptySeq
  <2>2. child \in [Clients -> ChildState] /\ childFds \in [Clients -> SUBSET Clients]
    BY DEF ChildState
  <2>3. mpc \in MainPC /\ pending \subseteq Signals
    BY DEF MainPC
  <2> QED
    BY <2>1, <2>2, <2>3 DEF TypeOK
<1>2. SignalInv
  BY DEF SignalInv, NoLostChild, HandlerFirst, Alive, Zombies
<1>3. LateInv
  BY DEF LateInv
<1>4. QueueInv
  BY EmptySeq DEF QueueInv, Untouched
<1>5. HolderInv
  BY DEF HolderInv
<1> QED
  BY <1>1, <1>2, <1>3, <1>4, <1>5 DEF IInv, FdInv

(* It holds in every reachable state. *)
THEOREM Invariance == Spec => []IInv
<1>1. IInv /\ [Next]_vars => IInv'
  BY TypeStep, SignalStep, LateStep, FdStep DEF IInv
<1> QED
  BY InvInit, <1>1, PTL DEF Spec

(* TypeOK for any set of clients. *)
THEOREM TypeCorrect == Spec => []TypeOK
  BY Invariance, PTL DEF IInv

(* No terminated child is forgotten by the SIGCHLD handler of the server. *)
THEOREM NoChildLost == Spec => []NoLostChild
  BY Invariance, PTL DEF IInv, SignalInv

(* However many SIGINTs there are, and wherever they arrive: one late client at
   most. *)
THEOREM OneLateClient == Spec => []AtMostOneLateClient
<1>1. IInv => AtMostOneLateClient
  BY DEF IInv, LateInv, AtMostOneLateClient
<1> QED
  BY Invariance, <1>1, PTL

(* A client sees the end of its connection when its child ends, also if fork()
   failed for others before it. *)
THEOREM ConnectionsClosed == Spec => []ConnectionClosedWithChild
<1>1. IInv => ConnectionClosedWithChild
  BY FdInvImplies DEF IInv
<1> QED
  BY Invariance, <1>1, PTL
=============================================================================
