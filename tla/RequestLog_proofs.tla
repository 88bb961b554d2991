-------------------------- MODULE RequestLog_proofs --------------------------
(* Theorems about the request log of tinyweb, for any number of children and of
   restarts. *)
EXTENDS RequestLog, FiniteSetTheorems, TLAPS

(* Which ticket and which buffer go with which place in write_log(). *)
Progress ==
    \A c \in Children :
        /\ pc[c] \in {"none", "header", "log"} => ticket[c] = "none"
        /\ pc[c] \in {"print", "post"} => toFile /\ ticket[c] # "none"
        /\ buffered[c] => ticket[c] # "none"
        /\ pc[c] = "print" => ~buffered[c]
        /\ pc[c] = "post" => buffered[c]
        /\ pc[c] \in {"respond", "exit", "gone"} => (buffered[c] <=> toFile)

(* A step of one child, as far as the log is concerned. *)
ChildStep(c) == Forked(c) \/ WriteHeader(c) \/ Logging(c) \/ Respond(c) \/ Exit(c)
                \/ SemWaitInterrupted(c) \/ KilledBySigpipe(c)
                \/ KilledWhileFormatting(c)

(* Every variable keeps its type. *)
LEMMA TypeStep == TypeOK /\ [Next]_vars => TypeOK'
<1> SUFFICES ASSUME TypeOK, [Next]_vars PROVE TypeOK'
  OBVIOUS
<1> USE LogConstants DEF TypeOK, Kinds, ChildPC, Servers, Goto, logVars, childVars
<1>1. ASSUME NEW c \in Children, Forked(c) PROVE TypeOK'
  BY <1>1 DEF Forked
<1>2. ASSUME NEW c \in Children, WriteHeader(c) \/ Respond(c) PROVE TypeOK'
  BY <1>2 DEF WriteHeader, Respond
<1>3. ASSUME NEW c \in Children, SafePrintf(c) PROVE TypeOK'
  BY <1>3 DEF SafePrintf
<1>4. ASSUME NEW c \in Children, SemWait(c) PROVE TypeOK'
  BY <1>4 DEF SemWait
<1>5. ASSUME NEW c \in Children, SemWaitInterrupted(c) PROVE TypeOK'
  BY <1>5 DEF SemWaitInterrupted
<1>6. ASSUME NEW c \in Children, BufferLine(c) PROVE TypeOK'
  BY <1>6 DEF BufferLine
<1>7. ASSUME NEW c \in Children, SemPost(c) PROVE TypeOK'
  BY <1>7 DEF SemPost
<1>8. ASSUME NEW c \in Children, Exit(c) PROVE TypeOK'
  <2>1. pc' = [pc EXCEPT ![c] = "gone"]
        /\ UNCHANGED <<toFile, server, sem, kind, parent, ticket, buffered, base,
                       stdout>>
    BY <1>8 DEF Exit
  <2>2. offset[parent[c]] \in Nat
    OBVIOUS
  <2>3. /\ offset' \in [Servers -> Nat] /\ DOMAIN file' \subseteq Nat
        /\ \A p \in DOMAIN file' : file'[p] \in Children
    <3>1. CASE buffered[c]
      BY <1>8, <2>2, <3>1 DEF Exit
    <3>2. CASE ~buffered[c]
      BY <1>8, <3>2 DEF Exit
    <3> QED
      BY <3>1, <3>2
  <2> QED
    BY <2>1, <2>3
<1>9. ASSUME NEW c \in Children, KilledBySigpipe(c) PROVE TypeOK'
  BY <1>9 DEF KilledBySigpipe
<1>10. ASSUME NEW c \in Children, KilledWhileFormatting(c) PROVE TypeOK'
  BY <1>10 DEF KilledWhileFormatting
<1>11. CASE Restart \/ FailedStart
  BY <1>11 DEF Restart, FailedStart
<1>12. CASE UNCHANGED vars
  BY <1>12 DEF vars
<1> QED
  BY <1>1, <1>2, <1>3, <1>4, <1>5, <1>6, <1>7, <1>8, <1>9, <1>10, <1>11, <1>12
  DEF Next, Logging

(* A child goes through write_log() in the order of the code. *)
LEMMA ProgressStep == TypeOK /\ Progress /\ [Next]_vars => Progress'
<1> SUFFICES ASSUME TypeOK, Progress, [Next]_vars PROVE Progress'
  OBVIOUS
<1> USE DEF TypeOK, Progress, Goto, logVars, childVars
<1>1. ASSUME NEW c \in Children, Forked(c) \/ WriteHeader(c) PROVE Progress'
  BY <1>1 DEF Forked, WriteHeader
<1>2. ASSUME NEW c \in Children, SafePrintf(c) PROVE Progress'
  BY <1>2 DEF SafePrintf
<1>3. ASSUME NEW c \in Children, SemWait(c) PROVE Progress'
  BY <1>3 DEF SemWait
<1>4. ASSUME NEW c \in Children, SemWaitInterrupted(c) PROVE Progress'
  BY <1>4 DEF SemWaitInterrupted
<1>5. ASSUME NEW c \in Children, BufferLine(c) PROVE Progress'
  BY <1>5 DEF BufferLine
<1>6. ASSUME NEW c \in Children, SemPost(c) PROVE Progress'
  BY <1>6 DEF SemPost
<1>7. ASSUME NEW c \in Children, Respond(c) \/ Exit(c) PROVE Progress'
  BY <1>7 DEF Respond, Exit
<1>8. ASSUME NEW c \in Children, KilledBySigpipe(c) PROVE Progress'
  BY <1>8 DEF KilledBySigpipe
<1>9. ASSUME NEW c \in Children, KilledWhileFormatting(c) PROVE Progress'
  BY <1>9 DEF KilledWhileFormatting
<1>10. CASE Restart \/ FailedStart
  BY <1>10 DEF Restart, FailedStart
<1>11. CASE UNCHANGED vars
  BY <1>11 DEF vars
<1> QED
  BY <1>1, <1>2, <1>3, <1>4, <1>5, <1>6, <1>7, <1>8, <1>9, <1>10, <1>11
  DEF Next, Logging

-----------------------------------------------------------------------------

(* The three sets of SemaphoreAccounting can be counted. *)
LEMMA CountsType ==
    /\ IsFiniteSet(Holders) /\ Cardinality(Holders) \in Nat
    /\ IsFiniteSet(Stuck) /\ Cardinality(Stuck) \in Nat
    /\ IsFiniteSet(Phantoms) /\ Cardinality(Phantoms) \in Nat
    /\ IsFiniteSet(Printers) /\ Cardinality(Printers) \in Nat
<1>1. ASSUME NEW S, S \subseteq Children
      PROVE  IsFiniteSet(S) /\ Cardinality(S) \in Nat
  BY <1>1, LogConstants, FS_Subset, FS_CardinalityType
<1>2. /\ Holders \subseteq Children /\ Stuck \subseteq Children
      /\ Phantoms \subseteq Children /\ Printers \subseteq Children
  BY DEF Holders, Stuck, Phantoms, Printers
<1> QED
  BY <1>1, <1>2

(* Counting one element more. *)
LEMMA AddOne ==
    ASSUME NEW S, NEW x, IsFiniteSet(S), x \notin S
    PROVE  Cardinality(S \cup {x}) = Cardinality(S) + 1
  BY FS_AddElement

(* Counting one element less. *)
LEMMA RemoveOne ==
    ASSUME NEW S, NEW x, IsFiniteSet(S), x \in S
    PROVE  Cardinality(S \ {x}) = Cardinality(S) - 1
  BY FS_RemoveElement

(* Each step of print_log() moves one unit between the semaphore, the holders and
   the two kinds of damage. *)
LEMMA AccountingStep ==
    TypeOK /\ Progress /\ SemaphoreAccounting /\ [Next]_vars => SemaphoreAccounting'
<1> SUFFICES ASSUME TypeOK, Progress, SemaphoreAccounting, [Next]_vars, toFile
             PROVE  SemaphoreAccounting'
  BY DEF Next, Restart, FailedStart, Forked, WriteHeader, Logging, SafePrintf, SemWait,
         BufferLine, SemPost, Respond, Exit, SemWaitInterrupted, KilledBySigpipe,
         KilledWhileFormatting, vars, SemaphoreAccounting
<1> USE CountsType, AddOne, RemoveOne DEF TypeOK, SemaphoreAccounting, Goto
<1>1. ASSUME Holders' = Holders, Stuck' = Stuck, Phantoms' = Phantoms, sem' = sem
      PROVE  SemaphoreAccounting'
  BY <1>1
<1>2. ASSUME NEW c \in Children,
             Forked(c) \/ WriteHeader(c) \/ BufferLine(c) \/ Respond(c) \/ Exit(c)
      PROVE  SemaphoreAccounting'
  <2>1. /\ ticket' = ticket /\ sem' = sem
        /\ \A d \in Children : d # c => pc'[d] = pc[d] /\ buffered'[d] = buffered[d]
        /\ \/ /\ {pc[c], pc'[c]} \subseteq {"none", "header", "log"}
              /\ buffered'[c] = buffered[c] /\ ticket[c] = "none"
           \/ /\ {pc[c], pc'[c]} \subseteq {"respond", "exit", "gone"}
              /\ buffered'[c] = buffered[c]
           \/ {pc[c], pc'[c]} \subseteq {"print", "post"}
    BY <1>2 DEF Forked, WriteHeader, BufferLine, Respond, Exit, Progress
  <2>2. Holders' = Holders
    BY <2>1 DEF Printers, Holders
  <2>3. Stuck' = Stuck
    BY <2>1 DEF Stuck
  <2>4. Phantoms' = Phantoms
    BY <2>1 DEF Phantoms
  <2> QED
    BY <1>1, <2>1, <2>2, <2>3, <2>4
<1>3. ASSUME NEW c \in Children, SemWait(c) PROVE SemaphoreAccounting'
  <2>1. /\ Holders' = Holders \cup {c} /\ c \notin Holders
        /\ Stuck' = Stuck /\ Phantoms' = Phantoms
        /\ sem' = sem - 1
    BY <1>3 DEF SemWait, Progress, Printers, Holders, Stuck, Phantoms
  <2> QED
    BY <2>1
<1>4. ASSUME NEW c \in Children, SemWaitInterrupted(c) PROVE SemaphoreAccounting'
  <2>1. Holders' = Holders /\ Stuck' = Stuck /\ Phantoms' = Phantoms /\ sem' = sem
    BY <1>4 DEF SemWaitInterrupted, Progress, Printers, Holders, Stuck, Phantoms
  <2> QED
    BY <1>1, <2>1
<1>5. ASSUME NEW c \in Children, SemPost(c) PROVE SemaphoreAccounting'
  <2>1. Stuck' = Stuck /\ sem' = sem + 1
    BY <1>5 DEF SemPost, Stuck
  <2>2. CASE ticket[c] = "taken"
    <3>1. Holders' = Holders \ {c} /\ c \in Holders /\ Phantoms' = Phantoms
      BY <1>5, <2>2 DEF SemPost, Printers, Holders, Phantoms
    <3> QED
      BY <2>1, <3>1
  <2>3. CASE ticket[c] = "missed"
    <3>1. Holders' = Holders /\ Phantoms' = Phantoms \cup {c} /\ c \notin Phantoms
      BY <1>5, <2>3 DEF SemPost, Progress, Printers, Holders, Phantoms
    <3> QED
      BY <2>1, <3>1
  <2>4. ticket[c] # "none"
    BY <1>5 DEF SemPost, Progress
  <2> QED
    BY <2>2, <2>3, <2>4
<1>6. ASSUME NEW c \in Children, KilledBySigpipe(c) PROVE SemaphoreAccounting'
  <2>1. Holders' = Holders /\ Stuck' = Stuck /\ Phantoms' = Phantoms /\ sem' = sem
    BY <1>6 DEF KilledBySigpipe, Progress, Printers, Holders, Stuck, Phantoms
  <2> QED
    BY <1>1, <2>1
<1>7. ASSUME NEW c \in Children, KilledWhileFormatting(c)
      PROVE  SemaphoreAccounting'
  <2>1. pc[c] = "print" /\ ~buffered[c] /\ sem' = sem /\ pc' = [pc EXCEPT ![c] = "killed"]
        /\ UNCHANGED <<ticket, buffered>>
    BY <1>7 DEF KilledWhileFormatting, Progress
  <2>2. Phantoms' = Phantoms
    BY <2>1 DEF Phantoms
  <2>3. CASE ticket[c] = "taken"
    <3>1. /\ Holders' = Holders \ {c} /\ c \in Holders
          /\ Stuck' = Stuck \cup {c} /\ c \notin Stuck
      BY <2>1, <2>3 DEF Printers, Holders, Stuck
    <3> QED
      BY <2>1, <2>2, <3>1
  <2>4. CASE ticket[c] # "taken"
    <3>1. Holders' = Holders /\ Stuck' = Stuck
      BY <2>1, <2>4 DEF Printers, Holders, Stuck
    <3> QED
      BY <1>1, <2>1, <2>2, <3>1
  <2> QED
    BY <2>3, <2>4
<1>8. CASE Restart \/ FailedStart \/ UNCHANGED vars
  <2>1. Holders' = Holders /\ Stuck' = Stuck /\ Phantoms' = Phantoms /\ sem' = sem
    BY <1>8 DEF Restart, FailedStart, vars, childVars, Printers, Holders, Stuck,
                Phantoms
  <2> QED
    BY <1>1, <2>1
<1> QED
  BY <1>2, <1>3, <1>4, <1>5, <1>6, <1>7, <1>8 DEF Next, Logging, SafePrintf

-----------------------------------------------------------------------------

(* The inductive invariant of the semaphore. *)
IInv == TypeOK /\ Progress /\ SemaphoreAccounting

(* It holds initially. *)
LEMMA InvInit == Init => IInv
<1> SUFFICES ASSUME Init PROVE IInv
  OBVIOUS
<1>1. TypeOK
  BY LogConstants DEF Init, TypeOK, Servers, ChildPC
<1>2. Progress
  BY DEF Init, Progress
<1>3. Holders = {} /\ Stuck = {} /\ Phantoms = {}
  BY DEF Init, Printers, Holders, Stuck, Phantoms
<1>4. SemaphoreAccounting
  BY <1>3, FS_EmptySet DEF Init, SemaphoreAccounting
<1> QED
  BY <1>1, <1>2, <1>4 DEF IInv

(* It holds in every reachable state. *)
THEOREM Invariance == Spec => []IInv
<1>1. IInv /\ [Next]_vars => IInv'
  BY TypeStep, ProgressStep, AccountingStep DEF IInv
<1> QED
  BY InvInit, <1>1, PTL DEF Spec

(* TypeOK for any number of children. *)
THEOREM TypeCorrect == Spec => []TypeOK
  BY Invariance, PTL DEF IInv

(* The value of the semaphore is always explained by who holds it, who died
   holding it, and who posted without holding it; restarts change nothing. *)
THEOREM SemaphoreAccounted == Spec => []SemaphoreAccounting
  BY Invariance, PTL DEF IInv

(* print_log() is a critical section as long as no sem_wait() was interrupted. *)
THEOREM PrintLogExclusive == Spec => []OnePrinter
<1>1. IInv => OnePrinter
  <2> SUFFICES ASSUME IInv, \A c \in Children : ticket[c] # "missed"
               PROVE  Cardinality(Printers) <= 1
    BY DEF OnePrinter
  <2>1. CASE ~toFile
    <3>1. Printers = {}
      BY <2>1 DEF IInv, Progress, Printers
    <3> QED
      BY <3>1, FS_EmptySet
  <2>2. CASE toFile
    <3>1. Printers = Holders
      BY DEF IInv, TypeOK, Progress, Printers, Holders
    <3>2. Phantoms = {}
      BY DEF Phantoms
    <3> QED
      BY <2>2, <3>1, <3>2, CountsType, FS_EmptySet
      DEF IInv, TypeOK, SemaphoreAccounting
  <2> QED
    BY <2>1, <2>2
<1> QED
  BY Invariance, <1>1, PTL

-----------------------------------------------------------------------------

(* What the lines in the file of the first server say of its children. *)
FileInv ==
    server = 1 =>
        /\ \A c \in Children : parent[c] = 1
        /\ base <= offset[1]
        /\ DOMAIN file = base..(offset[1] - 1)
        /\ \A p \in DOMAIN file : pc[file[p]] = "gone"
        /\ \A p, q \in DOMAIN file : file[p] = file[q] => p = q
        /\ \A c \in Children : pc[c] = "gone" /\ toFile => InFile(c) \/ base > 0

(* Only exit() writes to the file, behind what is there. *)
LEMMA FileStep == IInv /\ FileInv /\ [Next]_vars => FileInv'
<1> SUFFICES ASSUME IInv, FileInv, [Next]_vars, server' = 1 PROVE FileInv'
  BY DEF FileInv
<1>1. server = 1
  <2>1. server' = server \/ server' = server + 1
    <3>1. ASSUME NEW c \in Children, Logging(c) \/ Exit(c) \/ KilledBySigpipe(c)
                                         \/ KilledWhileFormatting(c)
          PROVE  server' = server
      BY <3>1, Zenon DEF Logging, SafePrintf, SemWait, BufferLine, SemPost, Exit,
                         KilledBySigpipe, KilledWhileFormatting
    <3>2. ASSUME NEW c \in Children, Forked(c) \/ WriteHeader(c) \/ Respond(c)
                                         \/ SemWaitInterrupted(c)
          PROVE  server' = server
      BY <3>2, Zenon DEF Forked, WriteHeader, Respond, SemWaitInterrupted
    <3>3. Restart \/ FailedStart \/ UNCHANGED vars
            => server' = server \/ server' = server + 1
      BY DEF Restart, FailedStart, vars
    <3> QED
      BY <3>1, <3>2, <3>3 DEF Next
  <2> QED
    BY <2>1 DEF IInv, TypeOK, Servers
<1> USE DEF IInv, TypeOK, FileInv, InFile, Goto, Servers, logVars, childVars
<1>2. ASSUME NEW c \in Children, pc[c] # "gone", pc'[c] # "gone",
             \A d \in Children : d # c => pc'[d] = pc[d],
             \A d \in Children : parent'[d] \in {parent[d], server},
             file' = file, offset' = offset, base' = base, toFile' = toFile
      PROVE  FileInv'
  <2>1. \A p \in DOMAIN file : file[p] # c /\ pc'[file[p]] = "gone"
    BY <1>1, <1>2
  <2>2. \A d \in Children : pc'[d] = "gone" /\ toFile' => (InFile(d) \/ base > 0)'
    BY <1>1, <1>2
  <2>3. \A d \in Children : parent'[d] = 1
    BY <1>1, <1>2
  <2> QED
    BY <1>1, <1>2, <2>1, <2>2, <2>3
<1>3. ASSUME NEW c \in Children, Forked(c) PROVE FileInv'
  BY <1>2, <1>3 DEF Forked
<1>4. ASSUME NEW c \in Children, Logging(c) PROVE FileInv'
  BY <1>2, <1>4 DEF Logging, SafePrintf, SemWait, BufferLine, SemPost
<1>5. ASSUME NEW c \in Children,
             WriteHeader(c) \/ Respond(c) \/ SemWaitInterrupted(c)
                \/ KilledBySigpipe(c) \/ KilledWhileFormatting(c)
      PROVE  FileInv'
  BY <1>2, <1>5 DEF WriteHeader, Respond, SemWaitInterrupted, KilledBySigpipe,
                    KilledWhileFormatting
<1>6. ASSUME NEW c \in Children, Exit(c) PROVE FileInv'
  <2>1. /\ pc[c] = "exit" /\ pc' = [pc EXCEPT ![c] = "gone"]
        /\ parent' = parent /\ toFile' = toFile /\ base' = base
    BY <1>6 DEF Exit
  <2>2. buffered[c] <=> toFile
    BY <2>1 DEF Progress
  <2>3. CASE buffered[c]
    <3>1. /\ file' = [p \in DOMAIN file \cup {offset[1]} |->
                         IF p = offset[1] THEN c ELSE file[p]]
          /\ offset' = [offset EXCEPT ![1] = offset[1] + 1]
      BY <1>1, <1>6, <2>3 DEF Exit
    <3>2. offset[1] \in Nat /\ offset[1] \notin DOMAIN file /\ offset'[1] = offset[1] + 1
      BY <1>1, <3>1
    <3>3. base' <= offset'[1] /\ DOMAIN file' = base'..(offset'[1] - 1)
      BY <1>1, <2>1, <3>1, <3>2
    <3>4. \A p \in DOMAIN file' : file'[p] = c \/ (p \in DOMAIN file /\ file'[p] = file[p])
      BY <3>1
    <3>5. \A p \in DOMAIN file' : pc'[file'[p]] = "gone"
      BY <1>1, <2>1, <3>4
    <3>6. \A p, q \in DOMAIN file' : file'[p] = file'[q] => p = q
      BY <1>1, <2>1, <3>1, <3>2
    <3>7. \A d \in Children :
             pc'[d] = "gone" /\ toFile' => (InFile(d) \/ base > 0)'
      BY <1>1, <2>1, <3>1, <3>2
    <3> QED
      BY <1>1, <2>1, <3>3, <3>5, <3>6, <3>7
  <2>4. CASE ~buffered[c]
    BY <1>1, <1>6, <2>1, <2>2, <2>4 DEF Exit
  <2> QED
    BY <2>3, <2>4
<1>7. CASE FailedStart
  <2>1. /\ base' = offset[1] /\ offset' = offset /\ DOMAIN file' = {}
        /\ parent' = parent /\ pc' = pc /\ toFile' = toFile
    BY <1>1, <1>7 DEF FailedStart
  <2>2. offset[1] \in Nat
    BY <1>1
  <2>3. base'..(offset'[1] - 1) = {}
    BY <2>1, <2>2
  <2>4. CASE offset[1] = 0
    <3>1. \A d \in Children : ~(pc[d] = "gone" /\ toFile)
      BY <1>1, <2>4
    <3> QED
      BY <1>1, <2>1, <2>2, <2>3, <3>1
  <2>5. CASE offset[1] > 0
    BY <1>1, <2>1, <2>2, <2>3, <2>5
  <2> QED
    BY <2>2, <2>4, <2>5
<1>8. CASE UNCHANGED vars
  BY <1>1, <1>8 DEF vars
<1> QED
  BY <1>1, <1>3, <1>4, <1>5, <1>6, <1>7, <1>8 DEF Next, Restart

(* The children of one server append their lines one behind the other. *)
THEOREM AppendOnly == Spec => []LogIsAppendOnly
<1>1. Init => FileInv
  BY LogConstants DEF Init, FileInv, Servers
<1>2. Spec => []FileInv
  BY <1>1, FileStep, Invariance, PTL DEF Spec
<1>3. FileInv => LogIsAppendOnly
  BY DEF FileInv, LogIsAppendOnly
<1> QED
  BY <1>2, <1>3, PTL
=============================================================================
