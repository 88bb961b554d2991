------------------------------ MODULE ByteCopy ------------------------------
(***************************************************************************)
(* What an echo promises: it returns the bytes 1, 2, 3, ... in their order,*)
(* each at most once, and all of them as long as nothing is lost.          *)
(***************************************************************************)
EXTENDS Naturals, Sequences

VARIABLES sent,  \* how many bytes were sent
          out,   \* the bytes returned
          lossy  \* TRUE once bytes may be missing

vars == <<sent, out, lossy>>

Init == sent = 0 /\ out = <<>> /\ lossy = FALSE

Send == sent' = sent + 1 /\ UNCHANGED <<out, lossy>>

Copy ==
    \E byte \in 1..sent :
        /\ \A i \in DOMAIN out : out[i] < byte
        /\ ~lossy => byte = Len(out) + 1
        /\ out' = Append(out, byte)
        /\ UNCHANGED <<sent, lossy>>

Lose == lossy' = TRUE /\ UNCHANGED <<sent, out>>

Next == Send \/ Copy \/ Lose

Spec == Init /\ [][Next]_vars
=============================================================================
