------------------------------ MODULE SlotPool ------------------------------
(***************************************************************************)
(* What the thread pool of echod promises (echod/echod.c, the comments in  *)
(* accept_clients()): at most MaxActive connections at a time.  A slot is  *)
(* reserved before a client is accepted, passes to the thread that serves  *)
(* the client and is free again when that thread ends.  A reservation may  *)
(* also be lost for good, and the pool may close at any time.              *)
(***************************************************************************)
EXTENDS Naturals, FiniteSets

CONSTANTS Threads, MaxActive

VARIABLES reserved,  \* does the acceptor hold a slot
          workers,   \* the threads that hold one
          lost,      \* how many slots nobody will give back
          open       \* FALSE once the pool is closed

vars == <<reserved, workers, lost, open>>

Free == MaxActive - (Cardinality(workers) + lost + IF reserved THEN 1 ELSE 0)

Init ==
    /\ reserved = FALSE
    /\ workers = {}
    /\ lost = 0
    /\ open = TRUE

Reserve ==
    /\ open /\ ~reserved /\ Free > 0
    /\ reserved' = TRUE
    /\ UNCHANGED <<workers, lost, open>>

Start(t) ==
    /\ open /\ reserved /\ t \notin workers
    /\ reserved' = FALSE
    /\ workers' = workers \cup {t}
    /\ UNCHANGED <<lost, open>>

Lose ==
    /\ open /\ reserved
    /\ reserved' = FALSE
    /\ lost' = lost + 1
    /\ UNCHANGED <<workers, open>>

Release(t) ==
    /\ t \in workers
    /\ workers' = workers \ {t}
    /\ UNCHANGED <<reserved, lost, open>>

(* Closing the pool may cost the acceptor's reservation; the workers may still
   finish. *)
Close ==
    /\ open
    /\ open' = FALSE
    /\ \/ UNCHANGED <<reserved, lost>>
       \/ reserved /\ reserved' = FALSE /\ lost' = lost + 1
    /\ UNCHANGED workers

Next ==
    \/ Reserve \/ Lose \/ Close
    \/ \E t \in Threads : Start(t) \/ Release(t)

(* The acceptor takes a slot whenever there is one. *)
Spec == Init /\ [][Next]_vars /\ WF_vars(Reserve)
=============================================================================
