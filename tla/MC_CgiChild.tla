---------------------------- MODULE MC_CgiChild ----------------------------
(* One int of 16 bits, 2 bytes: 32767 is the largest, 65534 wraps to -2, which is also
   the bound that is not set.  A number of three digits is too long for the buffer of
   a Content-Length, as one of five digits is with the 4 bytes of the build. *)
EXTENDS CgiChild

MCNumbers == {<<>>, <<0>>, <<9, 1>>, <<3, 2, 7, 6, 7>>, <<6, 5, 5, 3, 4>>}
=============================================================================
