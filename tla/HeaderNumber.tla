----------------------------- MODULE HeaderNumber -----------------------------
(***************************************************************************)
(* The numbers in the header of a response (create_response_header() of    *)
(* pe/tinyweb/src/tinyweb.c): sizes of files put into an int, and numbers  *)
(* printed into a buffer.                                                  *)
(*                                                                         *)
(* A line gets a buffer with room for a number of characters that depends  *)
(* on the width of its integers in bytes, and snprintf() cuts off what     *)
(* does not fit: first the line feed, then the carriage return, then       *)
(* digits.                                                                 *)
(***************************************************************************)
EXTENDS Integers

CONSTANTS IntMax,    \* INT_MAX, 2147483647 in the build
          SizeofInt  \* sizeof (int), 4 in the build

PowerOfTen[k \in Nat] == IF k = 0 THEN 1 ELSE 10 * PowerOfTen[k - 1]

(* An int of that many bytes can hold a number of as many digits. *)
ASSUME IntIsWide ==
    /\ IntMax \in Nat
    /\ SizeofInt \in Nat \ {0}
    /\ PowerOfTen[SizeofInt] <= IntMax + 1

Unset == -2  \* byteStart and byteEnd before a Range line
Open == -1   \* a bound that the Range line does not give

(* What an int keeps of a larger number. *)
Wrap(n) == ((n + IntMax + 1) % (2 * IntMax + 2)) - IntMax - 1

SizeofLongLong == 2 * SizeofInt

Digits(n) ==
    CHOOSE k \in 1..(n + 1) : n < PowerOfTen[k] /\ (k = 1 \/ n >= PowerOfTen[k - 1])
Chars(n) == IF n < 0 THEN 1 + Digits(-n) ELSE Digits(n)

NoField == [values |-> <<>>, cut |-> 0]

\* A header line: its numbers, and how many characters of it are cut off.
Field(values, chars, room) ==
    [values |-> values, cut |-> IF chars > room THEN chars - room ELSE 0]

ContentLength(length, room) == Field(<<length>>, Chars(length), room)

\* The Content-Length of a file, or of the file from start on.
LengthLine(start, last, size) ==
    IF start # Unset /\ last # Unset
    THEN ContentLength(Wrap(size - start), SizeofInt)
    ELSE ContentLength(size, SizeofLongLong)
=============================================================================
