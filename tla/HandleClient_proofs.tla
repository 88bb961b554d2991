------------------------ MODULE HandleClient_proofs ------------------------
(* Lemmas about parse_http_header() and handle_client(), for numbers of any length,
   any width of an int, and any number of header lines.  CgiChild_proofs makes
   theorems of them.

   The library's theorems about induction and recursive definitions take an operator
   as a parameter, which the provers cannot instantiate.  Here induction is stated
   for a set of numbers, and recursion for a sequence of functions. *)
EXTENDS HandleClient, WellFoundedInduction, SequenceTheorems, TLAPS

(* A set of numbers with 0 and the successor of each of its members. *)
LEMMA Induction ==
    ASSUME NEW S, 0 \in S, \A n \in Nat : n \in S => n + 1 \in S
    PROVE  Nat \subseteq S
<1> DEFINE Others == Nat \ S
           Less == OpToRel(<, Nat)
<1> SUFFICES ASSUME Others # {} PROVE FALSE
  OBVIOUS
<1>1. IsWellFoundedOn(Less, Nat)
  BY NatLessThanWellFounded
<1>2. \A m, n \in Nat : m < n => <<m, n>> \in Less
  BY DEF OpToRel
<1>3. Others \subseteq Nat
  OBVIOUS
<1> HIDE DEF Less
<1>4. PICK n \in Others : \A m \in Others : <<m, n>> \notin Less
  <2> HIDE DEF Others
  <2> QED
    BY <1>1, <1>3, WFMin
<1>5. n \in Nat /\ n # 0 /\ n - 1 \in Nat /\ n - 1 < n
  OBVIOUS
<1>6. n - 1 \in S
  BY <1>2, <1>4, <1>5
<1> QED
  BY <1>5, <1>6

(* What is done in the steps 1..n with a value of V, and a value for each of them.
   The two are definitions so that the provers take them for atoms. *)
StepsIn(V, n) == [1..n -> [V -> V]]
Iterates(f, V, start, step, n) ==
    f \in [0..n -> V] /\ f[0] = start /\ \A i \in 1..n : f[i] = step[i][f[i - 1]]

LEMMA Iteration ==
    ASSUME NEW V, NEW start \in V, NEW n \in Nat, NEW step \in StepsIn(V, n)
    PROVE  \E f : Iterates(f, V, start, step, n)
<1> USE DEF StepsIn, Iterates
<1> DEFINE Upto(m, f) == /\ f \in [0..m -> V]
                         /\ f[0] = start
                         /\ \A i \in 1..m : f[i] = step[i][f[i - 1]]
           S == {m \in Nat : m <= n => \E f : Upto(m, f)}
<1>1. 0 \in S
  <2>1. Upto(0, [i \in 0..0 |-> start])
    OBVIOUS
  <2> QED
    BY <2>1
<1>2. ASSUME NEW m \in Nat, m \in S PROVE m + 1 \in S
  <2> SUFFICES ASSUME m + 1 <= n PROVE \E f : Upto(m + 1, f)
    OBVIOUS
  <2>1. PICK f : Upto(m, f)
    BY <1>2
  <2> DEFINE g == [i \in 0..(m + 1) |-> IF i = m + 1 THEN step[m + 1][f[m]] ELSE f[i]]
  <2>2. step[m + 1][f[m]] \in V
    <3>1. f[m] \in V /\ m + 1 \in 1..n
      BY <2>1
    <3> QED
      BY <3>1
  <2>3. g \in [0..(m + 1) -> V] /\ g[0] = start
    BY <2>1, <2>2
  <2>4. ASSUME NEW i \in 1..(m + 1) PROVE g[i] = step[i][g[i - 1]]
    <3>1. CASE i = m + 1
      BY <3>1
    <3>2. CASE i \in 1..m
      BY <2>1, <3>2
    <3> QED
      BY <3>1, <3>2
  <2>5. Upto(m + 1, g)
    BY <2>3, <2>4
  <2> QED
    BY <2>5
<1> HIDE DEF S
<1>3. Nat \subseteq S
  BY <1>1, <1>2, Induction
<1>4. n \in S
  BY <1>3
<1> QED
  BY <1>4 DEF S

(* A value for every number of steps that are the same. *)
StepIn(V) == [V -> V]
IteratesEndlessly(f, V, start, step) ==
    f \in [Nat -> V] /\ f[0] = start /\ \A n \in Nat : f[n + 1] = step[f[n]]

LEMMA EndlessIteration ==
    ASSUME NEW V, NEW start \in V, NEW step \in StepIn(V)
    PROVE  \E f : IteratesEndlessly(f, V, start, step)
<1> USE DEF StepIn
<1> DEFINE Upto(m, f) == /\ f \in [0..m -> V]
                         /\ f[0] = start
                         /\ \A i \in 1..m : f[i] = step[f[i - 1]]
           Some(m) == CHOOSE f : Upto(m, f)
           all == [m \in Nat |-> Some(m)[m]]
<1>1. ASSUME NEW m \in Nat PROVE Upto(m, Some(m))
  <2> DEFINE steps == [i \in 1..m |-> step]
  <2>1. steps \in StepsIn(V, m)
    BY DEF StepsIn
  <2> HIDE DEF steps
  <2>2. PICK f : Iterates(f, V, start, steps, m)
    BY <2>1, Iteration
  <2>3. Upto(m, f)
    BY <2>2 DEF steps, Iterates
  <2> QED
    BY <2>3
<1>2. ASSUME NEW m \in Nat, NEW f, NEW g, Upto(m, f), Upto(m + 1, g)
      PROVE  f[m] = g[m]
  <2> DEFINE S == {i \in Nat : i <= m => f[i] = g[i]}
  <2>1. 0 \in S
    BY <1>2
  <2>2. ASSUME NEW i \in Nat, i \in S PROVE i + 1 \in S
    <3> SUFFICES ASSUME i + 1 <= m PROVE f[i + 1] = g[i + 1]
      OBVIOUS
    <3>1. i + 1 \in 1..m /\ i + 1 \in 1..(m + 1) /\ (i + 1) - 1 = i
      OBVIOUS
    <3>2. f[i + 1] = step[f[i]] /\ g[i + 1] = step[g[i]]
      BY <1>2, <3>1
    <3> QED
      BY <2>2, <3>2
  <2> HIDE DEF S
  <2>3. m \in S
    BY <2>1, <2>2, Induction
  <2> QED
    BY <2>3 DEF S
<1>3. ASSUME NEW m \in Nat
      PROVE  /\ all[m] \in V
             /\ all[0] = start
             /\ all[m + 1] = step[all[m]]
  <2>1. Upto(m, Some(m)) /\ Upto(m + 1, Some(m + 1)) /\ Upto(0, Some(0))
    <3> HIDE DEF Upto, Some
    <3>1. 0 \in Nat /\ m + 1 \in Nat
      OBVIOUS
    <3> QED
      BY <1>1, <3>1, Zenon
  <2>2. Some(m)[m] = Some(m + 1)[m]
    <3> HIDE DEF Upto, Some
    <3> QED
      BY <1>2, <2>1
  <2> HIDE DEF Some
  <2>3. all[m] = Some(m)[m] /\ all[m + 1] = Some(m + 1)[m + 1] /\ all[0] = Some(0)[0]
    OBVIOUS
  <2>4. m \in 0..m /\ m + 1 \in 1..(m + 1) /\ (m + 1) - 1 = m
    OBVIOUS
  <2>5. all[m] \in V /\ all[0] = start
    BY <2>1, <2>3, <2>4
  <2>6. Some(m + 1)[m + 1] = step[Some(m + 1)[m]]
    BY <2>1, <2>4
  <2> QED
    BY <2>2, <2>3, <2>5, <2>6, Zenon
<1>4. all \in [Nat -> V]
  BY <1>3
<1> HIDE DEF all
<1> QED
  BY <1>3, <1>4 DEF IteratesEndlessly

-----------------------------------------------------------------------------

(* The powers of ten. *)
LEMMA PowerOfTenStep ==
    /\ PowerOfTen[0] = 1
    /\ \A k \in Nat : PowerOfTen[k] \in Nat /\ PowerOfTen[k + 1] = 10 * PowerOfTen[k]
<1> DEFINE Equation(p) == p = [k \in Nat |-> IF k = 0 THEN 1 ELSE 10 * p[k - 1]]
           tenfold == [x \in Nat |-> 10 * x]
<1>1. tenfold \in StepIn(Nat) /\ 1 \in Nat
  BY DEF StepIn
<1>2. PICK f \in [Nat -> Nat] : f[0] = 1 /\ \A k \in Nat : f[k + 1] = 10 * f[k]
  <2>1. \E f : IteratesEndlessly(f, Nat, 1, tenfold)
    <3> HIDE DEF tenfold
    <3> QED
      BY <1>1, EndlessIteration
  <2> QED
    BY <2>1 DEF IteratesEndlessly
<1>3. Equation(f)
  <2>1. ASSUME NEW k \in Nat PROVE f[k] = IF k = 0 THEN 1 ELSE 10 * f[k - 1]
    <3>1. CASE k = 0
      BY <1>2, <3>1
    <3>2. CASE k # 0
      <4>1. k - 1 \in Nat /\ (k - 1) + 1 = k
        BY <3>2
      <4>2. f[(k - 1) + 1] = 10 * f[k - 1] /\ f[k - 1] \in Nat
        BY <1>2, <4>1
      <4> QED
        BY <3>2, <4>1, <4>2
    <3> QED
      BY <3>1, <3>2
  <2> QED
    BY <2>1
<1>4. PowerOfTen = CHOOSE p : Equation(p)
  BY DEF PowerOfTen
<1>5. Equation(PowerOfTen)
  <2> HIDE DEF Equation
  <2> QED
    BY <1>3, <1>4
<1>6. PowerOfTen[0] = 1 /\ \A k \in Nat : PowerOfTen[k + 1] = 10 * PowerOfTen[k]
  <2>1. ASSUME NEW k \in Nat
        PROVE  PowerOfTen[k] = IF k = 0 THEN 1 ELSE 10 * PowerOfTen[k - 1]
    BY <1>5
  <2>2. \A k \in Nat : k + 1 \in Nat /\ k + 1 # 0 /\ (k + 1) - 1 = k
    OBVIOUS
  <2> QED
    BY <2>1, <2>2
<1> DEFINE S == {k \in Nat : PowerOfTen[k] \in Nat}
<1>7. Nat \subseteq S
  <2>1. 0 \in S /\ \A k \in Nat : k \in S => k + 1 \in S
    BY <1>6
  <2> HIDE DEF S
  <2> QED
    BY <2>1, Induction
<1> QED
  BY <1>6, <1>7
-----------------------------------------------------------------------------

(* An int wraps to an int, and keeps what it can hold. *)
LEMMA WrapFacts ==
    /\ \A n \in Int : Wrap(n) \in Int
    /\ \A n \in -1..IntMax : Wrap(n) = n
<1>1. IntMax \in Nat
  BY IntIsWide
<1>2. ASSUME NEW n \in Int PROVE Wrap(n) \in Int
  <2>1. (n + IntMax + 1) % (2 * IntMax + 2) \in Int
    BY <1>1
  <2> QED
    BY <1>1, <2>1 DEF Wrap
<1>3. ASSUME NEW n \in -1..IntMax PROVE Wrap(n) = n
  <2>1. \A a \in Nat, b \in Nat : a < b => a % b = a
    OBVIOUS
  <2>2. n + IntMax + 1 \in Nat /\ 2 * IntMax + 2 \in Nat
        /\ n + IntMax + 1 < 2 * IntMax + 2
    BY <1>1
  <2>3. (n + IntMax + 1) % (2 * IntMax + 2) = n + IntMax + 1
    BY <2>1, <2>2
  <2> QED
    BY <1>1, <2>3 DEF Wrap
<1> QED
  BY <1>2, <1>3

(* The numbers that the first digits stand for. *)
LEMMA NumberStep ==
    ASSUME NEW digits \in Seq(0..9)
    PROVE  \E number \in [0..Len(digits) -> Nat] :
               /\ number[0] = 0
               /\ \A i \in 1..Len(digits) : number[i] = 10 * number[i - 1] + digits[i]
               /\ Number(digits) = number[Len(digits)]
<1> DEFINE n == Len(digits)
           Equation(f) == f = [i \in 0..n |-> IF i = 0 THEN 0 ELSE 10 * f[i - 1] + digits[i]]
           step == [i \in 1..n |-> [x \in Nat |-> 10 * x + digits[i]]]
<1>1. n \in Nat /\ \A i \in 1..n : digits[i] \in 0..9
  OBVIOUS
<1> HIDE DEF n
<1>2. step \in StepsIn(Nat, n)
  BY <1>1 DEF StepsIn
<1>3. PICK f : Iterates(f, Nat, 0, step, n)
  <2> HIDE DEF step
  <2> QED
    BY <1>1, <1>2, Iteration
<1>4. /\ f \in [0..n -> Nat] /\ f[0] = 0
      /\ \A i \in 1..n : f[i] = 10 * f[i - 1] + digits[i]
  <2>1. ASSUME NEW i \in 1..n PROVE f[i] = 10 * f[i - 1] + digits[i]
    <3>1. f[i - 1] \in Nat /\ f[i] = step[i][f[i - 1]]
      <4> HIDE DEF step
      <4> QED
        BY <1>1, <1>3 DEF Iterates
    <3> QED
      BY <3>1
  <2> QED
    BY <1>3, <2>1 DEF Iterates
<1>5. Equation(f)
  BY <1>1, <1>4
<1> DEFINE number == CHOOSE g : Equation(g)
<1>6. Equation(number)
  <2> HIDE DEF Equation
  <2> QED
    BY <1>5
<1>7. Number(digits) = number[n]
  BY DEF Number, n
<1> HIDE DEF number
<1>8. number[0] = 0 /\ \A i \in 1..n : number[i] = 10 * number[i - 1] + digits[i]
  BY <1>1, <1>6
<1>9. number = f
  <2> DEFINE S == {i \in Nat : i <= n => number[i] = f[i]}
  <2>1. 0 \in S
    BY <1>4, <1>8
  <2>2. ASSUME NEW i \in Nat, i \in S PROVE i + 1 \in S
    <3> SUFFICES ASSUME i + 1 <= n PROVE number[i + 1] = f[i + 1]
      OBVIOUS
    <3>1. i + 1 \in 1..n /\ (i + 1) - 1 = i /\ number[i] = f[i]
      BY <1>1, <2>2
    <3> QED
      BY <1>4, <1>8, <3>1
  <2>3. \A i \in Nat : i \in S
    <3> HIDE DEF S
    <3> QED
      BY <2>1, <2>2, Induction
  <2>4. \A i \in 0..n : number[i] = f[i]
    BY <1>1, <2>3
  <2> QED
    BY <1>4, <1>6, <2>4
<1> QED
  BY <1>4, <1>7, <1>8, <1>9 DEF n

(* The values and the weights of the digit loop, from the last digit on. *)
LEMMA ScanStep ==
    ASSUME NEW digits \in Seq(0..9)
    PROVE  \E scanned \in [0..Len(digits) -> [value : Int, pos : Int]] :
               /\ scanned[0] = [value |-> 0, pos |-> 1]
               /\ \A i \in 1..Len(digits) :
                     scanned[i] =
                         [value |-> Wrap(scanned[i - 1].value
                                         + Wrap(digits[Len(digits) - i + 1]
                                                * scanned[i - 1].pos)),
                          pos |-> Wrap(scanned[i - 1].pos * 10)]
               /\ digits # <<>> => ScanNumber(digits) = scanned[Len(digits)].value
<1> DEFINE n == Len(digits)
           V == [value : Int, pos : Int]
           start == [value |-> 0, pos |-> 1]
           After(before, i) ==
               [value |-> Wrap(before.value + Wrap(digits[n - i + 1] * before.pos)),
                pos |-> Wrap(before.pos * 10)]
           Equation(f) == f = [i \in 0..n |-> IF i = 0 THEN start ELSE After(f[i - 1], i)]
           step == [i \in 1..n |-> [x \in V |-> After(x, i)]]
<1>1. n \in Nat /\ (\A i \in 1..n : digits[n - i + 1] \in 0..9) /\ start \in V
  OBVIOUS
<1>2. ASSUME NEW i \in 1..n, NEW x \in V PROVE After(x, i) \in V
  <2>1. digits[n - i + 1] \in Int /\ x.pos \in Int /\ x.value \in Int
    BY <1>1
  <2>2. digits[n - i + 1] * x.pos \in Int /\ x.pos * 10 \in Int
    BY <2>1
  <2>3. Wrap(digits[n - i + 1] * x.pos) \in Int /\ Wrap(x.pos * 10) \in Int
    BY <2>2, WrapFacts
  <2>4. x.value + Wrap(digits[n - i + 1] * x.pos) \in Int
    BY <2>1, <2>3
  <2> QED
    BY <2>3, <2>4, WrapFacts
<1> HIDE DEF n, V, start, After
<1>3. step \in StepsIn(V, n)
  BY <1>2 DEF StepsIn
<1>4. PICK f : Iterates(f, V, start, step, n)
  <2> HIDE DEF step
  <2> QED
    BY <1>1, <1>3, Iteration
<1>5. f \in [0..n -> V] /\ f[0] = start /\ \A i \in 1..n : f[i] = After(f[i - 1], i)
  <2>1. ASSUME NEW i \in 1..n PROVE f[i] = After(f[i - 1], i)
    <3>1. f[i - 1] \in V /\ f[i] = step[i][f[i - 1]]
      <4> HIDE DEF step
      <4> QED
        BY <1>1, <1>4 DEF Iterates
    <3> QED
      BY <3>1
  <2> QED
    BY <1>4, <2>1 DEF Iterates
<1>6. Equation(f)
  BY <1>1, <1>5
<1> DEFINE scanned == CHOOSE g : Equation(g)
<1>7. Equation(scanned)
  <2> HIDE DEF Equation
  <2> QED
    BY <1>6
<1>8. digits # <<>> => ScanNumber(digits) = scanned[n].value
  BY DEF ScanNumber, n, start, After
<1> HIDE DEF scanned
<1>9. scanned[0] = start /\ \A i \in 1..n : scanned[i] = After(scanned[i - 1], i)
  BY <1>1, <1>7
<1>10. scanned = f
  <2> DEFINE S == {i \in Nat : i <= n => scanned[i] = f[i]}
  <2>1. 0 \in S
    BY <1>5, <1>9
  <2>2. ASSUME NEW i \in Nat, i \in S PROVE i + 1 \in S
    <3> SUFFICES ASSUME i + 1 <= n PROVE scanned[i + 1] = f[i + 1]
      OBVIOUS
    <3>1. i + 1 \in 1..n /\ (i + 1) - 1 = i /\ scanned[i] = f[i]
      BY <1>1, <2>2
    <3> QED
      BY <1>5, <1>9, <3>1
  <2>3. \A i \in Nat : i \in S
    <3> HIDE DEF S
    <3> QED
      BY <2>1, <2>2, Induction
  <2>4. ASSUME NEW i \in 0..n PROVE scanned[i] = f[i]
    <3>1. i \in Nat /\ i <= n
      BY <1>1
    <3> QED
      BY <2>3, <3>1
  <2> QED
    BY <1>5, <1>7, <2>4
<1> QED
  BY <1>5, <1>8, <1>9, <1>10 DEF n, V, start, After

(* The digit loop computes the number of the digits, whenever an int can hold it: a
   weight that has wrapped meets only leading zeros. *)
THEOREM ScanIsNumber ==
    ASSUME NEW digits \in Seq(0..9), digits # <<>>, Number(digits) <= IntMax
    PROVE  ScanNumber(digits) = Number(digits)
<1> DEFINE n == Len(digits)
<1>1. PICK number \in [0..n -> Nat] :
          /\ number[0] = 0
          /\ \A i \in 1..n : number[i] = 10 * number[i - 1] + digits[i]
          /\ Number(digits) = number[n]
  BY NumberStep
<1>2. PICK scanned \in [0..n -> [value : Int, pos : Int]] :
          /\ scanned[0] = [value |-> 0, pos |-> 1]
          /\ \A i \in 1..n :
                scanned[i] = [value |-> Wrap(scanned[i - 1].value
                                             + Wrap(digits[n - i + 1] * scanned[i - 1].pos)),
                              pos |-> Wrap(scanned[i - 1].pos * 10)]
          /\ ScanNumber(digits) = scanned[n].value
  BY ScanStep
<1>3. n \in Nat /\ n # 0 /\ \A i \in 1..n : digits[i] \in 0..9
  OBVIOUS
<1> HIDE DEF n
<1> DEFINE Inv(i) ==
               /\ scanned[i].value \in Nat
               /\ number[n] = number[n - i] * PowerOfTen[i] + scanned[i].value
               /\ PowerOfTen[i] <= IntMax => scanned[i].pos = PowerOfTen[i]
           S == {i \in Nat : i <= n => Inv(i)}
<1>4. 0 \in S
  <2>1. n - 0 = n /\ number[n] \in Nat /\ number[n] * 1 + 0 = number[n] /\ 0 \in Nat
    BY <1>1, <1>3
  <2>2. PowerOfTen[0] = 1
    BY PowerOfTenStep
  <2>3. scanned[0].value = 0 /\ scanned[0].pos = 1
    BY <1>2
  <2>4. Inv(0)
    BY <2>1, <2>2, <2>3
  <2> QED
    BY <2>1, <2>4
<1>5. ASSUME NEW i \in Nat, i \in S PROVE i + 1 \in S
  <2> SUFFICES ASSUME i + 1 <= n PROVE Inv(i + 1)
    OBVIOUS
  <2> DEFINE c == digits[n - i]
             w == PowerOfTen[i]
             high == number[n - (i + 1)]
             v == scanned[i].value
             p == scanned[i].pos
  <2>1. Inv(i)
    <3> HIDE DEF Inv
    <3> QED
      BY <1>3, <1>5
  <2>2. /\ n - i \in 1..n /\ n - i - 1 = n - (i + 1) /\ n - (i + 1) \in 0..n
        /\ n - (i + 1) + 1 = n - i /\ i + 1 \in 1..n /\ i + 1 - 1 = i /\ i \in 0..n
    BY <1>3
  <2>3. c \in 0..9 /\ high \in Nat /\ number[n - i] = 10 * high + c
    BY <1>1, <1>3, <2>2
  <2>4. w \in Nat /\ PowerOfTen[i + 1] = 10 * w
    BY PowerOfTenStep
  <2>5. p \in Int /\ v \in Nat
    BY <1>2, <2>1, <2>2
  <2>6. scanned[i + 1].value = Wrap(v + Wrap(c * p)) /\ scanned[i + 1].pos = Wrap(p * 10)
    <3>1. scanned[i + 1] =
              [value |-> Wrap(scanned[i].value + Wrap(digits[n - i] * scanned[i].pos)),
               pos |-> Wrap(scanned[i].pos * 10)]
      <4>1. \A j \in 1..n : \A k, l : k = j - 1 /\ l = n - j + 1 =>
                scanned[j] =
                    [value |-> Wrap(scanned[k].value + Wrap(digits[l] * scanned[k].pos)),
                     pos |-> Wrap(scanned[k].pos * 10)]
        BY <1>2
      <4>2. i + 1 \in 1..n /\ i = (i + 1) - 1 /\ n - i = n - (i + 1) + 1
        BY <1>3, <2>2
      <4> QED
        BY <4>1, <4>2, Zenon
    <3> QED
      BY <3>1
  <2>7. number[n] \in Nat /\ number[n] <= IntMax /\ IntMax \in Nat
    BY <1>1, <1>3, IntIsWide
  <2>8. number[n] = (10 * high + c) * w + v
    BY <2>1, <2>3
  <2>9. (w <= IntMax => p = w)
    BY <2>1
  <2> HIDE DEF c, w, high, v, p
  <2>10. number[n] = high * (10 * w) + (c * w + v) /\ c * w \in Nat
    <3>1. (10 * high + c) * w = high * (10 * w) + c * w /\ c * w \in Nat
      BY <2>3, <2>4
    <3>2. (10 * high + c) * w \in Nat /\ high * (10 * w) \in Nat
      BY <2>3, <2>4
    <3> QED
      BY <2>5, <2>8, <3>1, <3>2
  <2>11. c * w + v <= IntMax
    <3>1. high * (10 * w) \in Nat
      BY <2>3, <2>4
    <3> QED
      BY <2>5, <2>7, <2>10, <3>1
  <2>12. scanned[i + 1].value = c * w + v
    <3>1. CASE c = 0
      <4>1. c * p = 0 /\ c * w = 0
        BY <2>4, <2>5, <3>1
      <4>2. Wrap(c * p) = 0 /\ v \in 0..IntMax
        BY <2>5, <2>7, <2>11, <4>1, WrapFacts
      <4> QED
        BY <2>5, <2>6, <4>1, <4>2, WrapFacts
    <3>2. CASE c # 0
      <4>1. w <= c * w
        BY <2>3, <2>4, <3>2
      <4>2. p = w
        BY <2>4, <2>5, <2>7, <2>9, <2>10, <2>11, <4>1
      <4>3. c * w \in 0..IntMax /\ v + c * w \in 0..IntMax
        BY <2>5, <2>7, <2>10, <2>11
      <4>4. Wrap(c * p) = c * w
        BY <4>2, <4>3, WrapFacts
      <4> QED
        BY <2>5, <2>6, <2>10, <4>3, <4>4, WrapFacts
    <3> QED
      BY <3>1, <3>2
  <2>13. 10 * w <= IntMax => scanned[i + 1].pos = 10 * w
    <3> SUFFICES ASSUME 10 * w <= IntMax PROVE scanned[i + 1].pos = 10 * w
      OBVIOUS
    <3>1. w <= IntMax /\ 10 * w \in 0..IntMax /\ p * 10 = 10 * w
      BY <2>4, <2>7, <2>9
    <3> QED
      BY <2>6, <3>1, WrapFacts
  <2> QED
    BY <2>4, <2>5, <2>10, <2>12, <2>13 DEF high
<1>6. n \in S
  <2>1. Nat \subseteq S
    <3> HIDE DEF S
    <3> QED
      BY <1>4, <1>5, Induction
  <2> QED
    BY <1>3, <2>1
<1>7. number[n] = number[0] * PowerOfTen[n] + scanned[n].value
  BY <1>3, <1>6
<1>8. number[0] * PowerOfTen[n] = 0 /\ scanned[n].value \in Nat
  <2>1. PowerOfTen[n] \in Nat /\ number[0] = 0
    BY <1>1, <1>3, PowerOfTenStep
  <2>2. Inv(n)
    <3> HIDE DEF Inv
    <3> QED
      BY <1>3, <1>6
  <2> QED
    BY <2>1, <2>2
<1> QED
  BY <1>1, <1>2, <1>7, <1>8

LEMMA NumberTypes ==
    ASSUME NEW digits \in Seq(0..9)
    PROVE  /\ Number(digits) \in Nat
           /\ ScanNumber(digits) \in Int
           /\ digits = <<>> => ScanNumber(digits) = Open
<1>1. Number(digits) \in Nat
  BY NumberStep
<1>2. digits = <<>> => ScanNumber(digits) = Open
  BY DEF ScanNumber
<1>3. ASSUME digits # <<>> PROVE ScanNumber(digits) \in Int
  <2>1. PICK scanned \in [0..Len(digits) -> [value : Int, pos : Int]] :
            ScanNumber(digits) = scanned[Len(digits)].value
    BY <1>3, ScanStep
  <2>2. Len(digits) \in 0..Len(digits)
    OBVIOUS
  <2> QED
    BY <2>1, <2>2
<1> QED
  BY <1>1, <1>2, <1>3 DEF Open

-----------------------------------------------------------------------------

(* A set of line numbers has a largest one. *)
LEMMA MaxFacts ==
    ASSUME NEW n \in Nat, NEW seen \in SUBSET (1..n)
    PROVE  /\ seen # {} => Max(seen) \in seen
           /\ Max(seen \cup {n + 1}) = n + 1
<1> DEFINE S == {m \in Nat : \A T \in SUBSET (1..m) :
                     T # {} => \E x \in T : \A y \in T : x >= y}
<1>1. 0 \in S
  <2>1. 1..0 = {}
    OBVIOUS
  <2> QED
    BY <2>1
<1>2. ASSUME NEW m \in Nat, m \in S PROVE m + 1 \in S
  <2> SUFFICES ASSUME NEW T \in SUBSET (1..(m + 1)), T # {}
               PROVE  \E x \in T : \A y \in T : x >= y
    OBVIOUS
  <2>1. CASE m + 1 \in T
    BY <2>1
  <2>2. CASE m + 1 \notin T
    <3>1. T \in SUBSET (1..m)
      BY <2>2
    <3> QED
      BY <1>2, <3>1
  <2> QED
    BY <2>1, <2>2
<1>3. n \in S
  <2> HIDE DEF S
  <2> QED
    BY <1>1, <1>2, Induction
<1>4. ASSUME seen # {} PROVE Max(seen) \in seen
  <2>1. \E x \in seen : \A y \in seen : x >= y
    BY <1>3, <1>4
  <2> QED
    BY <2>1 DEF Max
<1>5. Max(seen \cup {n + 1}) = n + 1
  <2> DEFINE more == seen \cup {n + 1}
  <2>1. n + 1 \in more /\ \A y \in more : y \in Int /\ n + 1 >= y
    OBVIOUS
  <2>2. \A x \in more : (\A y \in more : x >= y) => x = n + 1
    BY <2>1
  <2>3. \E x \in more : \A y \in more : x >= y
    BY <2>1
  <2> HIDE DEF more
  <2>4. Max(more) = n + 1
    BY <2>2, <2>3 DEF Max
  <2> QED
    BY <2>4 DEF more
<1> QED
  BY <1>4, <1>5

Lines == RangeLines \cup DateLines \cup {OtherLine}

(* The fields of the lines tell their kinds apart. *)
LEMMA LineKinds ==
    /\ \A line \in RangeLines :
          /\ IsRangeLine(line) /\ ~IsDateLine(line)
          /\ line.first \in Seq(0..9) /\ line.last \in Seq(0..9)
          /\ line.first # <<>> \/ line.last # <<>>
    /\ \A line \in DateLines :
          IsDateLine(line) /\ ~IsRangeLine(line) /\ line.date \in Int
    /\ ~IsRangeLine(OtherLine) /\ ~IsDateLine(OtherLine)
<1>1. ASSUME NEW line \in RangeLines
      PROVE  /\ IsRangeLine(line) /\ ~IsDateLine(line)
             /\ line.first \in Seq(0..9) /\ line.last \in Seq(0..9)
             /\ line.first # <<>> \/ line.last # <<>>
  <2>1. PICK f \in Numbers, l \in Numbers : line = [first |-> f, last |-> l]
    BY DEF RangeLines
  <2>2. line # [first |-> <<>>, last |-> <<>>]
    BY DEF RangeLines
  <2>3. f # <<>> \/ l # <<>>
    BY <2>1, <2>2
  <2> QED
    BY <2>1, <2>3, ParserConstants DEF IsRangeLine, IsDateLine
<1>2. ASSUME NEW line \in DateLines
      PROVE  IsDateLine(line) /\ ~IsRangeLine(line) /\ line.date \in Int
  <2>1. PICK d \in Dates : line = [date |-> d]
    BY DEF DateLines
  <2> QED
    BY <2>1, ParserConstants DEF IsRangeLine, IsDateLine
<1>3. ~IsRangeLine(OtherLine) /\ ~IsDateLine(OtherLine)
  BY DEF OtherLine, IsRangeLine, IsDateLine
<1> QED
  BY <1>1, <1>2, <1>3

(* What the next line changes. *)
LEMMA LastLineStep ==
    ASSUME lines \in Seq(Lines), NEW line \in Lines, lines' = Append(lines, line)
    PROVE  /\ LastRange' = IF IsRangeLine(line) THEN <<line>> ELSE LastRange
           /\ LastDate' = IF IsDateLine(line) THEN <<line>> ELSE LastDate
<1> DEFINE n == Len(lines)
<1>1. /\ n \in Nat /\ lines' \in Seq(Lines) /\ Len(lines') = n + 1
      /\ \A i \in 1..n : lines'[i] = lines[i]
      /\ lines'[n + 1] = line
  BY AppendProperties
<1> HIDE DEF n
<1>2. LastRange' = IF IsRangeLine(line) THEN <<line>> ELSE LastRange
  <2> DEFINE seen == {i \in 1..n : IsRangeLine(lines[i])}
             more == {i \in 1..(n + 1) : IsRangeLine(lines'[i])}
  <2>1. LastRange = IF seen = {} THEN <<>> ELSE <<lines[Max(seen)]>>
    BY DEF LastRange, LastLineSeen, n
  <2>2. LastRange' = IF more = {} THEN <<>> ELSE <<lines'[Max(more)]>>
    BY <1>1 DEF LastRange, LastLineSeen
  <2>3. seen \in SUBSET (1..n)
    OBVIOUS
  <2>4. more = IF IsRangeLine(line) THEN seen \cup {n + 1} ELSE seen
    BY <1>1 DEF IsRangeLine
  <2> HIDE DEF seen, more
  <2>5. CASE IsRangeLine(line)
    <3>1. Max(more) = n + 1
      BY <1>1, <2>3, <2>4, <2>5, MaxFacts
    <3> QED
      BY <1>1, <2>2, <2>4, <2>5, <3>1
  <2>6. CASE ~IsRangeLine(line)
    <3>1. seen # {} => lines'[Max(seen)] = lines[Max(seen)]
      BY <1>1, <2>3, MaxFacts
    <3> QED
      BY <2>1, <2>2, <2>4, <2>6, <3>1
  <2> QED
    BY <2>5, <2>6
<1>3. LastDate' = IF IsDateLine(line) THEN <<line>> ELSE LastDate
  <2> DEFINE seen == {i \in 1..n : IsDateLine(lines[i])}
             more == {i \in 1..(n + 1) : IsDateLine(lines'[i])}
  <2>1. LastDate = IF seen = {} THEN <<>> ELSE <<lines[Max(seen)]>>
    BY DEF LastDate, LastLineSeen, n
  <2>2. LastDate' = IF more = {} THEN <<>> ELSE <<lines'[Max(more)]>>
    BY <1>1 DEF LastDate, LastLineSeen
  <2>3. seen \in SUBSET (1..n)
    OBVIOUS
  <2>4. more = IF IsDateLine(line) THEN seen \cup {n + 1} ELSE seen
    BY <1>1 DEF IsDateLine
  <2> HIDE DEF seen, more
  <2>5. CASE IsDateLine(line)
    <3>1. Max(more) = n + 1
      BY <1>1, <2>3, <2>4, <2>5, MaxFacts
    <3> QED
      BY <1>1, <2>2, <2>4, <2>5, <3>1
  <2>6. CASE ~IsDateLine(line)
    <3>1. seen # {} => lines'[Max(seen)] = lines[Max(seen)]
      BY <1>1, <2>3, MaxFacts
    <3> QED
      BY <2>1, <2>2, <2>4, <2>6, <3>1
  <2> QED
    BY <2>5, <2>6
<1> QED
  BY <1>2, <1>3

-----------------------------------------------------------------------------

(* What the parser knows of the lines so far, in every state. *)
ParserInv ==
    /\ ParserTypeOK
    /\ pc \in {"status line", "range regex"} =>
           /\ lines = <<>>
           /\ parsed.byteStart = Unset /\ parsed.byteEnd = Unset
           /\ parsed.modsince = 0
    /\ pc = "status line" => parsed.httpState = "INTERNAL_SERVER_ERROR"
    /\ pc = "range regex" => parsed.httpState = "OK"
    /\ pc = "lines" \/ Complete =>
           /\ RangeOfLines
           /\ LastRange = <<>> \/
                 /\ LastRange[1] \in RangeLines
                 /\ parsed.httpState \in {"PARTIAL_CONTENT", "RANGE_NOT_SATISFIABLE"}
           /\ LastDate \in {<<>>} \cup {<<line>> : line \in DateLines}
           /\ parsed.modsince = IF LastDate = <<>> THEN 0 ELSE LastDate[1].date

(* Without lines nothing was seen. *)
LEMMA NothingSeen == lines = <<>> => LastRange = <<>> /\ LastDate = <<>>
<1>1. Len(<<>>) = 0 /\ 1..0 = {}
  OBVIOUS
<1> QED
  BY <1>1 DEF LastRange, LastDate, LastLineSeen

LEMMA ParserStart == ParserInit => ParserInv
<1> SUFFICES ASSUME ParserInit PROVE ParserInv
  OBVIOUS
<1>1. pc = "status line" /\ lines = <<>>
  BY DEF ParserInit
<1>2. /\ parsed = [httpState |-> "INTERNAL_SERVER_ERROR", modsince |-> 0,
                  byteStart |-> Unset, byteEnd |-> Unset, isCGI |-> FALSE,
                  method |-> NotAssigned, protocol |-> NotAssigned]
  BY DEF ParserInit
<1>3. lines \in Seq(Lines) /\ Len(lines) <= MaxLines
  <2>1. <<>> \in Seq(Lines) /\ Len(<<>>) = 0
    OBVIOUS
  <2>2. 0 <= MaxLines
    BY ParserConstants
  <2> QED
    BY <1>1, <2>1, <2>2, Zenon
<1>4. parsed \in [httpState : States, modsince : Int, byteStart : Int, byteEnd : Int,
                  isCGI : BOOLEAN, method : Methods \cup {NotAssigned, "NULL"},
                  protocol : {"HTTP/1.1", "other", NotAssigned, "NULL"}]
  <2>1. Unset \in Int /\ 0 \in Int
    BY DEF Unset
  <2>2. "INTERNAL_SERVER_ERROR" \in States
    BY DEF States
  <2> QED
    BY <1>2, <2>1, <2>2
<1> QED
  BY <1>1, <1>2, <1>3, <1>4 DEF ParserInv, ParserTypeOK, Complete, Lines

(* The bounds and the status that one Range line gives. *)
LEMMA RangeLineFacts ==
    ASSUME NEW line \in RangeLines
    PROVE  LET start == ScanNumber(line.first)
               last == ScanNumber(line.last)
               bound(digits) == IF digits = <<>> THEN Open ELSE Number(digits)
           IN /\ start \in Int /\ last \in Int
              /\ Overflows(line) \/
                 /\ start = bound(line.first) /\ last = bound(line.last)
                 /\ CheckStatus(start, last) <=>
                      \/ line.first = <<>> /\ Number(line.last) > 0
                      \/ line.last = <<>>
                      \/ line.first # <<>> /\ Number(line.first) < Number(line.last)
<1> DEFINE bound(digits) == IF digits = <<>> THEN Open ELSE Number(digits)
           first == line.first
           last == line.last
<1>1. first \in Seq(0..9) /\ last \in Seq(0..9) /\ (first # <<>> \/ last # <<>>)
  BY LineKinds
<1>2. Overflows(line) <=> Number(first) > IntMax \/ Number(last) > IntMax
  BY DEF Overflows
<1> HIDE DEF first, last
<1>3. /\ ScanNumber(first) \in Int /\ Number(first) \in Nat
      /\ ScanNumber(last) \in Int /\ Number(last) \in Nat /\ IntMax \in Nat
  BY <1>1, NumberTypes, IntIsWide
<1>4. ASSUME ~Overflows(line)
      PROVE  ScanNumber(first) = bound(first) /\ ScanNumber(last) = bound(last)
  <2>1. Number(first) <= IntMax /\ Number(last) <= IntMax
    BY <1>2, <1>3, <1>4
  <2> QED
    BY <1>1, <2>1, NumberTypes, ScanIsNumber
<1>5. last = <<>> => Number(last) = 0
  <2>1. last = <<>> => Len(last) = 0
    OBVIOUS
  <2> QED
    BY <1>1, <2>1, NumberStep
<1>6. CheckStatus(bound(first), bound(last)) <=>
          \/ first = <<>> /\ Number(last) > 0
          \/ last = <<>>
          \/ first # <<>> /\ Number(first) < Number(last)
  BY <1>1, <1>3, <1>5 DEF CheckStatus, Open
<1> QED
  BY <1>3, <1>4, <1>6 DEF first, last

(* The steps before the lines. *)
LEMMA StatusLineStep ==
    ASSUME ParserInv,
           \/ OutOfMemory \/ NoStatusLine \/ RangeRegcompFails \/ RangeRegcomp
           \/ \E m \in Methods, p \in {"HTTP/1.1", "other"}, cgi \in BOOLEAN :
                  StatusLine(m, p, cgi)
    PROVE  ParserInv'
<1>1. ParserTypeOK /\ lines' = lines /\ lines = <<>>
  BY DEF ParserInv, OutOfMemory, NoStatusLine, RangeRegcompFails, RangeRegcomp, StatusLine
<1>2. LastRange' = <<>> /\ LastDate' = <<>>
  BY <1>1, NothingSeen DEF LastRange, LastDate, LastLineSeen
<1> DEFINE Parsed == [httpState : States, modsince : Int, byteStart : Int,
                      byteEnd : Int, isCGI : BOOLEAN,
                      method : Methods \cup {NotAssigned, "NULL"},
                      protocol : {"HTTP/1.1", "other", NotAssigned, "NULL"}]
<1>3. parsed \in Parsed
  BY <1>1 DEF ParserTypeOK
<1>4. ASSUME parsed' \in Parsed, pc' \in {"status line", "range regex", "lines", "parsed"}
      PROVE  ParserTypeOK'
  BY <1>1, <1>4 DEF ParserTypeOK
<1>5. ASSUME parsed' \in Parsed, pc' = "parsed", ~Complete'
      PROVE  ParserInv'
  BY <1>4, <1>5 DEF ParserInv
<1>6. CASE OutOfMemory
  <2>1. parsed' \in Parsed /\ parsed'.httpState = "INTERNAL_SERVER_ERROR"
    BY <1>3, <1>6 DEF OutOfMemory, ParserInv, Methods, States, NotAssigned
  <2> QED
    BY <1>5, <1>6, <2>1 DEF OutOfMemory, Complete
<1>7. CASE NoStatusLine \/ RangeRegcompFails
  <2>1. /\ parsed' \in Parsed
        /\ parsed'.httpState \in {"BAD_REQUEST", "INTERNAL_SERVER_ERROR"}
    BY <1>3, <1>7 DEF NoStatusLine, RangeRegcompFails, States
  <2> QED
    BY <1>5, <1>7, <2>1 DEF NoStatusLine, RangeRegcompFails, Complete
<1>8. CASE RangeRegcomp
  <2>1. ParserTypeOK'
    BY <1>3, <1>4, <1>8 DEF RangeRegcomp
  <2>2. /\ parsed' = parsed /\ pc' = "lines" /\ parsed.httpState = "OK"
        /\ parsed.byteStart = Unset /\ parsed.byteEnd = Unset /\ parsed.modsince = 0
    BY <1>8 DEF RangeRegcomp, ParserInv
  <2>3. RangeOfLines'
    BY <1>2, <2>2 DEF RangeOfLines
  <2> QED
    BY <1>2, <2>1, <2>2, <2>3 DEF ParserInv
<1>9. ASSUME NEW m \in Methods, NEW p \in {"HTTP/1.1", "other"}, NEW cgi \in BOOLEAN,
             StatusLine(m, p, cgi)
      PROVE  ParserInv'
  <2> DEFINE state == IF p # "HTTP/1.1" THEN "BAD_REQUEST"
                      ELSE IF m = "other" THEN "NOT_IMPLEMENTED" ELSE "OK"
  <2>1. state \in {"BAD_REQUEST", "NOT_IMPLEMENTED", "OK"}
    OBVIOUS
  <2>2. /\ pc = "status line"
        /\ parsed' = [parsed EXCEPT !.method = m, !.protocol = p, !.isCGI = cgi,
                                    !.httpState = state]
        /\ pc' = IF state = "OK" THEN "range regex" ELSE "parsed"
    BY <1>9 DEF StatusLine
  <2> HIDE DEF state
  <2>3. /\ parsed' \in Parsed /\ parsed'.httpState = state
        /\ parsed'.byteStart = parsed.byteStart /\ parsed'.byteEnd = parsed.byteEnd
        /\ parsed'.modsince = parsed.modsince
    BY <1>3, <2>1, <2>2 DEF States
  <2>4. CASE state = "OK"
    BY <1>1, <1>4, <2>2, <2>3, <2>4 DEF ParserInv, Complete
  <2>5. CASE state # "OK"
    BY <1>5, <2>1, <2>2, <2>3, <2>5 DEF Complete
  <2> QED
    BY <2>4, <2>5
<1> QED
  BY <1>6, <1>7, <1>8, <1>9

(* The steps of the lines. *)
LEMMA LineStep ==
    ASSUME ParserInv,
           \/ \E line \in RangeLines : RangeLine(line)
           \/ \E line \in DateLines : DateLine(line)
           \/ SkipLine \/ LastLine
    PROVE  ParserInv'
<1> DEFINE Parsed == [httpState : States, modsince : Int, byteStart : Int,
                      byteEnd : Int, isCGI : BOOLEAN,
                      method : Methods \cup {NotAssigned, "NULL"},
                      protocol : {"HTTP/1.1", "other", NotAssigned, "NULL"}]
<1>1. /\ pc = "lines" /\ RangeOfLines
      /\ LastRange = <<>> \/
            /\ LastRange[1] \in RangeLines
            /\ parsed.httpState \in {"PARTIAL_CONTENT", "RANGE_NOT_SATISFIABLE"}
      /\ LastDate \in {<<>>} \cup {<<line>> : line \in DateLines}
      /\ parsed.modsince = IF LastDate = <<>> THEN 0 ELSE LastDate[1].date
  <2>1. pc = "lines"
    BY DEF RangeLine, DateLine, SkipLine, LastLine, NextLine
  <2> QED
    BY <2>1 DEF ParserInv
<1>2. parsed \in Parsed /\ lines \in Seq(Lines) /\ Len(lines) <= MaxLines
  BY DEF ParserInv, ParserTypeOK, Lines
<1>3. ASSUME NEW line \in Lines, NextLine(line), parsed' \in Parsed
      PROVE  /\ ParserTypeOK' /\ pc' = "lines"
             /\ LastRange' = IF IsRangeLine(line) THEN <<line>> ELSE LastRange
             /\ LastDate' = IF IsDateLine(line) THEN <<line>> ELSE LastDate
  <2>1. /\ lines' = Append(lines, line) /\ pc' = "lines"
        /\ lines' \in Seq(Lines) /\ Len(lines') <= MaxLines
    BY <1>1, <1>2, <1>3, AppendProperties, ParserConstants DEF NextLine
  <2> QED
    BY <1>2, <1>3, <2>1, LastLineStep DEF ParserTypeOK, Lines
<1>4. ASSUME NEW line \in RangeLines, RangeLine(line) PROVE ParserInv'
  <2> DEFINE start == ScanNumber(line.first)
             last == ScanNumber(line.last)
  <2>1. /\ start \in Int /\ last \in Int
        /\ line \in Lines /\ IsRangeLine(line) /\ ~IsDateLine(line)
    BY RangeLineFacts, LineKinds DEF Lines
  <2>2. PICK satisfiable \in BOOLEAN :
            /\ parsed' = [parsed EXCEPT !.byteStart = start, !.byteEnd = last,
                              !.httpState = IF satisfiable THEN "PARTIAL_CONTENT"
                                            ELSE "RANGE_NOT_SATISFIABLE"]
            /\ ~Overflows(line) => satisfiable = CheckStatus(start, last)
    BY <1>4 DEF RangeLine, CheckStatus
  <2> HIDE DEF start, last
  <2>3. /\ parsed' \in Parsed
        /\ parsed'.byteStart = start /\ parsed'.byteEnd = last
        /\ parsed'.httpState = IF satisfiable THEN "PARTIAL_CONTENT"
                               ELSE "RANGE_NOT_SATISFIABLE"
        /\ parsed'.modsince = parsed.modsince
    BY <1>2, <2>1, <2>2 DEF States
  <2>4. ParserTypeOK' /\ pc' = "lines" /\ LastRange' = <<line>> /\ LastDate' = LastDate
    BY <1>3, <1>4, <2>1, <2>3 DEF RangeLine
  <2>5. RangeOfLines'
    <3>1. LastRange' # <<>> /\ (LastRange')[1] = line
      BY <2>4
    <3> QED
      BY <2>2, <2>3, <3>1, RangeLineFacts DEF RangeOfLines, start, last
  <2> QED
    BY <1>1, <2>3, <2>4, <2>5 DEF ParserInv
<1>5. ASSUME NEW line \in DateLines, DateLine(line) PROVE ParserInv'
  <2>1. line \in Lines /\ ~IsRangeLine(line) /\ IsDateLine(line) /\ line.date \in Int
    BY LineKinds DEF Lines
  <2>2. /\ parsed' \in Parsed /\ parsed'.modsince = line.date
        /\ parsed'.byteStart = parsed.byteStart /\ parsed'.byteEnd = parsed.byteEnd
        /\ parsed'.httpState = parsed.httpState
    BY <1>2, <1>5, <2>1 DEF DateLine
  <2>3. ParserTypeOK' /\ pc' = "lines" /\ LastRange' = LastRange /\ LastDate' = <<line>>
    BY <1>3, <1>5, <2>1, <2>2 DEF DateLine
  <2>4. RangeOfLines'
    BY <1>1, <2>2, <2>3 DEF RangeOfLines
  <2> QED
    BY <1>1, <2>2, <2>3, <2>4 DEF ParserInv
<1>6. CASE SkipLine
  <2>1. OtherLine \in Lines /\ parsed' = parsed /\ NextLine(OtherLine)
    BY <1>6 DEF SkipLine, Lines
  <2>2. ParserTypeOK' /\ pc' = "lines" /\ LastRange' = LastRange /\ LastDate' = LastDate
    BY <1>2, <1>3, <2>1, LineKinds
  <2>3. RangeOfLines'
    BY <1>1, <2>1, <2>2 DEF RangeOfLines
  <2> QED
    BY <1>1, <2>1, <2>2, <2>3 DEF ParserInv
<1>7. CASE LastLine
  <2>1. pc' = "parsed" /\ parsed' = parsed /\ lines' = lines
    BY <1>7 DEF LastLine
  <2>2. LastRange' = LastRange /\ LastDate' = LastDate /\ ParserTypeOK'
    BY <1>2, <2>1 DEF LastRange, LastDate, LastLineSeen, ParserTypeOK, Lines
  <2>3. RangeOfLines'
    BY <1>1, <2>1, <2>2 DEF RangeOfLines
  <2> QED
    BY <1>1, <2>1, <2>2, <2>3 DEF ParserInv
<1> QED
  BY <1>4, <1>5, <1>6, <1>7

LEMMA ParserStep == ParserInv /\ [ParserNext]_parserVars => ParserInv'
<1>1. ParserInv /\ ParserNext => ParserInv'
  BY StatusLineStep, LineStep DEF ParserNext
<1>2. ParserInv /\ UNCHANGED parserVars => ParserInv'
  BY DEF ParserInv, parserVars, ParserTypeOK, Complete, RangeOfLines, LastRange, LastDate,
         LastLineSeen
<1> QED
  BY <1>1, <1>2
-----------------------------------------------------------------------------

(* The powers of ten grow, and faster than their exponents. *)
LEMMA PowersGrow ==
    ASSUME NEW k \in Nat
    PROVE  PowerOfTen[k] > k /\ \A j \in 0..k : PowerOfTen[j] <= PowerOfTen[k]
<1> DEFINE S == {m \in Nat : /\ PowerOfTen[m] > m
                             /\ \A j \in 0..m : PowerOfTen[j] <= PowerOfTen[m]}
<1>1. 0 \in S
  <2>1. \A j \in 0..0 : j = 0
    OBVIOUS
  <2> QED
    BY <2>1, PowerOfTenStep
<1>2. ASSUME NEW m \in Nat, m \in S PROVE m + 1 \in S
  <2>1. /\ PowerOfTen[m] \in Nat /\ PowerOfTen[m + 1] = 10 * PowerOfTen[m]
        /\ PowerOfTen[m] > m
    BY <1>2, PowerOfTenStep
  <2>2. PowerOfTen[m + 1] \in Nat /\ PowerOfTen[m + 1] > m + 1
        /\ PowerOfTen[m] <= PowerOfTen[m + 1]
    BY <2>1
  <2>3. ASSUME NEW j \in 0..(m + 1) PROVE PowerOfTen[j] <= PowerOfTen[m + 1]
    <3>1. CASE j = m + 1
      BY <2>2, <3>1
    <3>2. CASE j # m + 1
      <4>1. j \in 0..m /\ j \in Nat
        BY <3>2
      <4>2. PowerOfTen[j] <= PowerOfTen[m] /\ PowerOfTen[j] \in Nat
        BY <1>2, <4>1, PowerOfTenStep
      <4> QED
        BY <2>1, <2>2, <4>2
    <3> QED
      BY <3>1, <3>2
  <2> QED
    BY <2>2, <2>3
<1>3. k \in S
  <2> HIDE DEF S
  <2> QED
    BY <1>1, <1>2, Induction
<1> QED
  BY <1>3

(* A number below a power of ten has no more digits than its exponent. *)
LEMMA DigitsFit ==
    ASSUME NEW n \in Nat, NEW k \in Nat, k >= 1, n < PowerOfTen[k]
    PROVE  Digits(n) \in 1..k
<1> DEFINE Fits(d) == n < PowerOfTen[d] /\ (d = 1 \/ n >= PowerOfTen[d - 1])
           S == {m \in Nat : m >= 1 /\ n < PowerOfTen[m] => \E d \in 1..m : Fits(d)}
<1>1. 0 \in S
  OBVIOUS
<1>2. ASSUME NEW m \in Nat, m \in S PROVE m + 1 \in S
  <2> SUFFICES ASSUME n < PowerOfTen[m + 1] PROVE \E d \in 1..(m + 1) : Fits(d)
    OBVIOUS
  <2>1. CASE m >= 1 /\ n < PowerOfTen[m]
    <3>1. PICK d \in 1..m : Fits(d)
      BY <1>2, <2>1
    <3>2. d \in 1..(m + 1)
      OBVIOUS
    <3> QED
      BY <3>1, <3>2
  <2>2. CASE ~(m >= 1 /\ n < PowerOfTen[m])
    <3>1. m + 1 \in 1..(m + 1) /\ (m + 1) - 1 = m /\ (m = 0 => m + 1 = 1)
      OBVIOUS
    <3>2. m + 1 = 1 \/ n >= PowerOfTen[m]
      BY <2>2, PowerOfTenStep
    <3>3. \A d, e : e = d - 1 /\ n < PowerOfTen[d] /\ (d = 1 \/ n >= PowerOfTen[e])
              => Fits(d)
      OBVIOUS
    <3> HIDE DEF Fits
    <3>4. Fits(m + 1)
      BY <3>1, <3>2, <3>3
    <3> QED
      BY <3>1, <3>4
  <2> QED
    BY <2>1, <2>2
<1>3. \E d \in 1..(n + 1) : Fits(d)
  <2>1. n + 1 \in S
    <3> HIDE DEF S
    <3> QED
      BY <1>1, <1>2, Induction
  <2>2. n < PowerOfTen[n + 1]
    BY PowersGrow, PowerOfTenStep
  <2> QED
    BY <2>1, <2>2
<1>4. Digits(n) \in 1..(n + 1) /\ Fits(Digits(n))
  <2>1. Digits(n) = CHOOSE d \in 1..(n + 1) : Fits(d)
    BY DEF Digits
  <2> HIDE DEF Fits
  <2> QED
    BY <1>3, <2>1
<1> DEFINE d == Digits(n)
<1>5. d = 1 \/ (n >= PowerOfTen[d - 1] /\ d - 1 \in Nat)
  BY <1>4
<1> HIDE DEF d
<1>6. ASSUME d # 1 PROVE d - 1 < k
  <2>1. PowerOfTen[d - 1] < PowerOfTen[k]
    BY <1>5, <1>6, PowerOfTenStep
  <2>2. d - 1 >= k => PowerOfTen[k] <= PowerOfTen[d - 1]
    <3>1. \A a \in Nat : a >= k => PowerOfTen[k] <= PowerOfTen[a]
      BY PowersGrow
    <3> QED
      BY <1>5, <1>6, <3>1
  <2> QED
    BY <1>5, <1>6, <2>1, <2>2, PowerOfTenStep
<1> QED
  BY <1>4, <1>5, <1>6 DEF d

(* What create_response_header() prints for a file whose size, and size + 1, has no
   more digits than an int has bytes, has room. *)
LEMMA HeaderFits ==
    ASSUME NEW size \in Nat, size + 1 < PowerOfTen[SizeofInt]
    PROVE  /\ ContentLength(size, SizeofLongLong).cut = 0
           /\ \A start \in Int : start >= -1 /\ start < size =>
                 /\ ContentRange(start, size, 3 * SizeofInt).cut = 0
                 /\ ContentLength(Wrap(size - start), SizeofInt).cut = 0
<1>1. SizeofInt \in Nat /\ SizeofInt >= 2 /\ SizeofInt >= 1
      /\ PowerOfTen[SizeofInt] <= IntMax + 1 /\ PowerOfTen[SizeofInt] \in Nat
      /\ IntMax \in Nat
  BY IntIsWide, TwoBytes, PowerOfTenStep
<1>2. ASSUME NEW n \in Int, n >= -1, n < PowerOfTen[SizeofInt]
      PROVE  Chars(n) \in 1..SizeofInt /\ Wrap(n) = n
  <2>1. CASE n >= 0
    <3>1. n \in Nat
      BY <2>1
    <3>2. Digits(n) \in 1..SizeofInt
      BY <1>1, <1>2, <3>1, DigitsFit
    <3> QED
      BY <1>1, <1>2, <3>1, <3>2, WrapFacts DEF Chars
  <2>2. CASE n = -1
    <3>1. 1 < PowerOfTen[1]
      BY PowersGrow
    <3>2. Digits(1) \in 1..1
      BY <3>1, DigitsFit
    <3>3. Chars(n) = 1 + Digits(1)
      BY <2>2 DEF Chars
    <3> QED
      BY <1>1, <2>2, <3>2, <3>3, WrapFacts
  <2> QED
    BY <1>2, <2>1, <2>2
<1>3. \A values, chars, room : chars \in Int /\ room \in Int /\ chars <= room
          => Field(values, chars, room).cut = 0
  BY DEF Field
<1>4. Chars(size) \in 1..SizeofInt /\ Wrap(size) = size
  BY <1>1, <1>2
<1>5. ContentLength(size, SizeofLongLong).cut = 0
  BY <1>1, <1>3, <1>4 DEF ContentLength, SizeofLongLong
<1>6. ASSUME NEW start \in Int, start >= -1, start < size
      PROVE  /\ ContentRange(start, size, 3 * SizeofInt).cut = 0
             /\ ContentLength(Wrap(size - start), SizeofInt).cut = 0
  <2>1. Chars(start) \in 1..SizeofInt
    BY <1>1, <1>2, <1>6
  <2>2. Chars(size - 1) \in 1..SizeofInt /\ Wrap(size - 1) = size - 1
    <3>1. size - 1 \in Int /\ size - 1 >= -1 /\ size - 1 < PowerOfTen[SizeofInt]
      BY <1>1
    <3> QED
      BY <1>2, <3>1
  <2>3. Chars(size - start) \in 1..SizeofInt /\ Wrap(size - start) = size - start
    <3>1. size - start \in Int /\ size - start >= -1
          /\ size - start < PowerOfTen[SizeofInt]
      BY <1>1, <1>6
    <3> QED
      BY <1>2, <3>1
  <2> DEFINE all == Chars(start) + Chars(size - 1) + Chars(size)
  <2>4. all \in Int /\ 3 * SizeofInt \in Int /\ all <= 3 * SizeofInt
    BY <1>1, <1>4, <2>1, <2>2
  <2>5. ContentRange(start, size, 3 * SizeofInt) =
            Field(<<start, size - 1, size>>, all, 3 * SizeofInt)
    BY <1>4, <2>2 DEF ContentRange
  <2>6. ContentRange(start, size, 3 * SizeofInt).cut = 0
    <3> HIDE DEF all
    <3> QED
      BY <1>3, <2>4, <2>5
  <2>7. ContentLength(Wrap(size - start), SizeofInt).cut = 0
    BY <1>1, <1>3, <2>3 DEF ContentLength
  <2> QED
    BY <2>6, <2>7
<1> QED
  BY <1>5, <1>6
=============================================================================
