------------------------- MODULE EchoSession_proofs -------------------------
(* Theorems about a session of the echo daemon, for buffers of any size, any number
   of bytes and any number of signals. *)
EXTENDS EchoSession, SequenceTheorems, TLAPS

(* What a call and its result say about the buffer. *)
CallInv ==
    /\ at # "idle" => res = "none"
    /\ at = "idle" /\ res = "none" => op = "read" /\ buf = <<>>
    /\ at = "select" => copied = 0
    /\ op = "read" => copied = 0
    /\ op = "read" /\ at # "idle" => buf = <<>>
    /\ op = "write" /\ res = "data" => copied = Len(buf)
    /\ res = "eof" => op = "read" /\ eof /\ taken = sent /\ buf = <<>>
    /\ session \in {"reading", "closed"} => op = "read"
    /\ session = "writing" => op = "write"

\* How many of the bytes read were copied, or lost, so far.
Done == taken - Len(buf) + copied

Lossy == failed \/ (op = "write" /\ res \in {"timeout", "error"})

(* The buffer holds the last bytes that were read, and what was written comes from
   before what is left of it: all of that, as long as nothing was lost. *)
BytesInv ==
    /\ Len(buf) <= taken
    /\ \A i \in 1..Len(buf) : buf[i] = taken - Len(buf) + i
    /\ \A i \in 1..Len(written) : written[i] <= Done
    /\ ~Lossy => /\ Len(written) = Done
                 /\ \A i \in 1..Len(written) : written[i] = i

IInv == TypeOK /\ CallInv /\ BytesInv

-----------------------------------------------------------------------------

(* Every variable keeps its type. *)
LEMMA TypeStep == TypeOK /\ CallInv /\ [Next]_vars => TypeOK'
<1> SUFFICES ASSUME TypeOK, CallInv, [Next]_vars PROVE TypeOK'
  OBVIOUS
<1> USE SocketConstants
    DEF TypeOK, SocketTypeOK, callVars, peerVars, streamVars, socketVars, Call,
        CallStep, Return
<1>e. <<>> \in Seq(1..sent) /\ Len(<<>>) = 0
  BY EmptySeq
<1>1. CASE StartRead
  BY <1>1, <1>e DEF StartRead
<1>2. CASE WriteBack
  BY <1>2 DEF WriteBack
<1>3. CASE ReadAgain
  BY <1>3, <1>e DEF ReadAgain
<1>4. CASE Close
  BY <1>4 DEF Close
<1>5. CASE Killed
  BY <1>5 DEF Killed
<1>6. ASSUME UNCHANGED <<session, failed>>, SelectReady PROVE TypeOK'
  BY <1>6 DEF SelectReady
<1>7. ASSUME UNCHANGED <<session, failed>>, SelectTimesOut PROVE TypeOK'
  BY <1>7 DEF SelectTimesOut
<1>8. ASSUME UNCHANGED <<session, failed>>, Read PROVE TypeOK'
  <2>1. PICK n \in 1..BufferSize :
           /\ taken + n <= sent
           /\ buf' = [i \in 1..n |-> taken + i]
           /\ taken' = taken + n
    BY <1>8 DEF Read
  <2>2. buf' \in Seq(1..sent) /\ Len(buf') = n
    BY <2>1
  <2>3. copied' = 0
    BY <1>8 DEF Read, CallInv
  <2> QED
    BY <1>8, <2>1, <2>2, <2>3 DEF Read
<1>9. ASSUME UNCHANGED <<session, failed>>, ReadEnds PROVE TypeOK'
  BY <1>9 DEF ReadEnds
<1>10. ASSUME UNCHANGED <<session, failed>>, WriteByte PROVE TypeOK'
  <2>1. /\ copied + 1 \in 1..Len(buf) /\ copied' = copied + 1
        /\ written' = Append(written, buf[copied + 1])
        /\ UNCHANGED <<buf, delivered>>
    BY <1>10 DEF WriteByte
  <2>2. buf[copied + 1] \in 1..sent
    BY <2>1, ElementOfSeq
  <2>3. written' \in Seq(1..sent) /\ Len(written') = Len(written) + 1
    BY <2>1, <2>2
  <2> QED
    BY <1>10, <2>1, <2>3 DEF WriteByte
<1>11. ASSUME UNCHANGED <<session, failed>>, WriteReturns \/ WriteFails PROVE TypeOK'
  BY <1>11 DEF WriteReturns, WriteFails
<1>12. ASSUME UNCHANGED <<session, failed>>, SelectInterrupted PROVE TypeOK'
  BY <1>12 DEF SelectInterrupted
<1>13. ASSUME UNCHANGED <<session, failed>>, Interrupted PROVE TypeOK'
  <2>1. buf' = SubSeq(buf, copied + 1, Len(buf)) /\ copied' = 0
    BY <1>13 DEF Interrupted
  <2>2. Len(buf) \in Nat /\ \A i \in (copied + 1)..Len(buf) : buf[i] \in 1..sent
    BY ElementOfSeq, LenProperties
  <2>3. buf' \in Seq(1..sent) /\ Len(buf') <= Len(buf) /\ Len(buf') \in Nat
    BY <2>1, <2>2, SubSeqProperties
  <2> QED
    BY <1>13, <2>1, <2>2, <2>3 DEF Interrupted
<1>14. ASSUME UNCHANGED <<session, failed>>, PeerNext PROVE TypeOK'
  <2>1. UNCHANGED <<callVars, taken, written, signals>>
    BY <1>14 DEF PeerNext
  <2>a. sent' \in 0..MaxBytes /\ sent <= sent'
    <3>1. sent' = sent \/ (sent < MaxBytes /\ sent' = sent + 1)
      BY <1>14 DEF PeerNext, PeerSends, PeerShutsDown, PeerResets, PeerSendsUrgent,
                   PeerReads
    <3> QED
      BY <3>1
  <2>b. {eof', reset', urgent'} \subseteq BOOLEAN
    <3>1. eof' \in {eof, TRUE} /\ reset' \in {reset, TRUE} /\ urgent' \in {urgent, ~urgent}
      BY <1>14 DEF PeerNext, PeerSends, PeerShutsDown, PeerResets, PeerSendsUrgent,
                   PeerReads
    <3> QED
      BY <3>1
  <2>3. buf' \in Seq(1..sent') /\ written' \in Seq(1..sent')
    <3>1. 1..sent \subseteq 1..sent'
      BY <2>a
    <3> QED
      BY <2>1, <3>1, SeqMonotonic
  <2>4. delivered' \in 0..Len(written)
    BY <1>14 DEF PeerNext, PeerSends, PeerShutsDown, PeerResets, PeerSendsUrgent,
                 PeerReads
  <2> QED
    BY <1>14, <2>1, <2>a, <2>b, <2>3, <2>4
<1>15. CASE UNCHANGED vars
  BY <1>15 DEF vars
<1> QED
  BY <1>1, <1>2, <1>3, <1>4, <1>5, <1>6, <1>7, <1>8, <1>9, <1>10, <1>11, <1>12,
     <1>13, <1>14, <1>15
  DEF Next, ThreadNext, CallNext, SignalNext

(* The order of select(), read() and write() and of the session around them. *)
LEMMA CallStepInv == TypeOK /\ CallInv /\ [Next]_vars => CallInv'
<1> SUFFICES ASSUME TypeOK, CallInv, [Next]_vars PROVE CallInv'
  OBVIOUS
<1> USE DEF TypeOK, SocketTypeOK, CallInv, callVars, peerVars, streamVars, socketVars,
            Call, CallStep, Return
<1>1. CASE StartRead \/ Close \/ Killed
  BY <1>1 DEF StartRead, Close, Killed
<1>2. CASE WriteBack
  BY <1>2 DEF WriteBack
<1>3. CASE ReadAgain
  BY <1>3 DEF ReadAgain
<1>4. ASSUME UNCHANGED <<session, failed>>, Open,
             SelectReady \/ SelectTimesOut \/ SelectInterrupted
      PROVE  CallInv'
  BY <1>4 DEF SelectReady, SelectTimesOut, SelectInterrupted
<1>5. ASSUME UNCHANGED <<session, failed>>, Read PROVE CallInv'
  BY <1>5 DEF Read
<1>6. ASSUME UNCHANGED <<session, failed>>, ReadEnds PROVE CallInv'
  BY <1>6 DEF ReadEnds
<1>7. ASSUME UNCHANGED <<session, failed>>, WriteByte PROVE CallInv'
  BY <1>7 DEF WriteByte
<1>8. ASSUME UNCHANGED <<session, failed>>, WriteReturns \/ WriteFails PROVE CallInv'
  BY <1>8 DEF WriteReturns, WriteFails
<1>9. ASSUME UNCHANGED <<session, failed>>, Interrupted PROVE CallInv'
  <2>1. CASE op = "read"
    <3>1. buf = <<>> /\ copied = 0 /\ buf' = SubSeq(buf, copied + 1, Len(buf))
      BY <1>9, <2>1 DEF Interrupted
    <3>2. buf' = <<>>
      BY <3>1, EmptySeq, SubSeqEmpty
    <3> QED
      BY <1>9, <2>1, <3>2 DEF Interrupted
  <2>2. CASE op = "write"
    BY <1>9, <2>2 DEF Interrupted
  <2> QED
    BY <2>1, <2>2
<1>10. ASSUME UNCHANGED <<session, failed>>, PeerNext PROVE CallInv'
  <2>1. UNCHANGED <<at, op, buf, copied, res, taken>>
    BY <1>10 DEF PeerNext
  <2>2. eof => sent' = sent /\ eof'
    BY <1>10 DEF PeerNext, PeerSends, PeerShutsDown, PeerResets, PeerSendsUrgent,
                 PeerReads
  <2> QED
    BY <1>10, <2>1, <2>2
<1>11. CASE UNCHANGED vars
  BY <1>11 DEF vars
<1> QED
  BY <1>1, <1>2, <1>3, <1>4, <1>5, <1>6, <1>7, <1>8, <1>9, <1>10, <1>11
  DEF Next, ThreadNext, CallNext, SignalNext

(* Steps that move no byte lose at most what Lossy says. *)
LEMMA SameBytes ==
    ASSUME BytesInv, UNCHANGED <<taken, buf, copied, written>>, Lossy => Lossy'
    PROVE  BytesInv'
  BY DEF BytesInv, Done

(* Lossy stays, and only a result of a write makes it true. *)
LEMMA LossyStep == TypeOK /\ CallInv /\ [Next]_vars => (Lossy => Lossy')
<1> SUFFICES ASSUME TypeOK, CallInv, [Next]_vars, Lossy PROVE Lossy'
  OBVIOUS
<1> USE DEF CallInv, Lossy, Call, CallStep, Return, socketVars, callVars, peerVars
<1>1. CASE StartRead \/ WriteBack
  BY <1>1 DEF StartRead, WriteBack
<1>2. CASE ReadAgain
  BY <1>2, Zenon DEF ReadAgain
<1>3. CASE Close \/ Killed
  BY <1>3 DEF Close, Killed
<1>4. ASSUME UNCHANGED <<session, failed>>, CallNext \/ SignalNext PROVE Lossy'
  <2>1. at # "idle"
    BY <1>4 DEF CallNext, SignalNext, SelectReady, SelectTimesOut, Read, ReadEnds,
                WriteByte, WriteReturns, WriteFails, SelectInterrupted, Interrupted
  <2> QED
    BY <1>4, <2>1
<1>5. ASSUME UNCHANGED <<session, failed>>, PeerNext PROVE Lossy'
  BY <1>5 DEF PeerNext
<1>6. CASE UNCHANGED vars
  BY <1>6 DEF vars
<1> QED
  BY <1>1, <1>2, <1>3, <1>4, <1>5, <1>6 DEF Next, ThreadNext

(* The bytes pass from the peer through the buffer to what is written. *)
LEMMA BytesStep == IInv /\ [Next]_vars => BytesInv'
<1> SUFFICES ASSUME TypeOK, CallInv, BytesInv, [Next]_vars PROVE BytesInv'
  BY DEF IInv
<1>l. Lossy => Lossy'
  BY LossyStep
<1>t. /\ taken \in Nat /\ sent \in Nat /\ copied \in Nat /\ copied <= Len(buf)
      /\ Len(buf) \in Nat /\ Len(written) \in Nat
      /\ buf \in Seq(1..sent) /\ written \in Seq(1..sent)
      /\ \A i \in 1..Len(written) : written[i] \in Nat
  BY DEF TypeOK, SocketTypeOK
<1> USE DEF callVars, peerVars, streamVars, socketVars, Call, CallStep, Return
\* A new read() starts with an empty buffer, when all of the old one is done with.
<1>1. ASSUME taken' = taken, written' = written, buf' = <<>>, copied' = 0,
             Lossy' \/ copied = Len(buf)
      PROVE  BytesInv'
  <2>1. Len(buf') = 0 /\ Done' = taken /\ Done <= taken
    BY <1>1, <1>t DEF Done
  <2>2. copied = Len(buf) => Done = taken
    BY <1>t DEF Done
  <2>3. \A i \in 1..Len(written') : written'[i] <= Done'
    <3>1. \A i \in 1..Len(written) : written[i] <= Done
      BY DEF BytesInv
    <3>2. Done \in Int
      BY <1>t DEF Done
    <3> QED
      BY <1>1, <1>t, <2>1, <3>1, <3>2
  <2>4. ~Lossy' => /\ Len(written') = Done'
                   /\ \A i \in 1..Len(written') : written'[i] = i
    BY <1>1, <1>l, <2>1, <2>2 DEF BytesInv
  <2>5. Len(buf') <= taken' /\ \A i \in 1..Len(buf') : buf'[i] = taken' - Len(buf') + i
    BY <1>1, <1>t, <2>1
  <2> QED
    BY <2>3, <2>4, <2>5 DEF BytesInv
<1>2. CASE StartRead
  <2>1. copied = 0 /\ buf = <<>>
    BY <1>2 DEF StartRead, CallInv
  <2> QED
    BY <1>1, <1>2, <2>1, EmptySeq DEF StartRead
<1>3. CASE ReadAgain
  <2>1. Lossy' \/ copied = Len(buf)
    BY <1>3 DEF ReadAgain, CallInv, Lossy
  <2> QED
    BY <1>1, <1>3, <2>1 DEF ReadAgain
<1>4. CASE WriteBack
  <2>1. copied = 0 /\ copied' = 0 /\ UNCHANGED <<taken, buf, written>>
    BY <1>4 DEF WriteBack, CallInv
  <2> QED
    BY <1>l, <2>1, SameBytes
<1>5. CASE Close \/ Killed
  BY <1>l, <1>5, SameBytes DEF Close, Killed
<1>6. ASSUME SelectReady PROVE BytesInv'
  <2>1. copied' = copied /\ UNCHANGED <<taken, buf, written>>
    BY <1>6 DEF SelectReady, CallInv
  <2> QED
    BY <1>l, <2>1, SameBytes
<1>7. ASSUME SelectTimesOut \/ ReadEnds \/ WriteReturns \/ WriteFails
             \/ SelectInterrupted
      PROVE  BytesInv'
  BY <1>l, <1>7, SameBytes
  DEF SelectTimesOut, ReadEnds, WriteReturns, WriteFails, SelectInterrupted
<1>8. ASSUME Read PROVE BytesInv'
  <2>1. PICK n \in 1..BufferSize :
           buf' = [i \in 1..n |-> taken + i] /\ taken' = taken + n
    BY <1>8 DEF Read
  <2>2. n \in Nat /\ Len(buf') = n /\ \A i \in 1..n : buf'[i] = taken + i
    BY <2>1, SocketConstants
  <2>3. buf = <<>> /\ copied = 0 /\ copied' = 0 /\ written' = written
    BY <1>8 DEF Read, CallInv
  <2>4. Done = taken /\ Done' = taken
    BY <1>t, <2>1, <2>2, <2>3, EmptySeq DEF Done
  <2>5. Len(buf') <= taken' /\ \A i \in 1..Len(buf') : buf'[i] = taken' - Len(buf') + i
    BY <1>t, <2>1, <2>2
  <2> QED
    BY <1>l, <2>3, <2>4, <2>5 DEF BytesInv
<1>9. ASSUME WriteByte PROVE BytesInv'
  <2>1. /\ copied < Len(buf) /\ copied' = copied + 1
        /\ written' = Append(written, buf[copied + 1])
        /\ buf' = buf /\ taken' = taken
    BY <1>9 DEF WriteByte
  <2>2. Len(written') = Len(written) + 1 /\ Done' = Done + 1 /\ Done \in Int
    BY <1>t, <2>1 DEF Done
  <2>3. buf[copied + 1] = Done + 1
    BY <1>t, <2>1 DEF BytesInv, Done
  <2>4. \A i \in 1..Len(written') :
           written'[i] = IF i <= Len(written) THEN written[i] ELSE Done + 1
    BY <1>t, <2>1, <2>3
  <2>5. \A i \in 1..Len(written') : written'[i] <= Done'
    <3>1. \A i \in 1..Len(written) : written[i] <= Done
      BY DEF BytesInv
    <3>2. ASSUME NEW i \in 1..Len(written) PROVE written'[i] <= Done'
      <4>1. written[i] \in Nat /\ written[i] <= Done /\ written'[i] = written[i]
        BY <1>t, <2>2, <2>4, <3>1
      <4> QED
        BY <2>2, <4>1
    <3>3. written'[Len(written) + 1] <= Done'
      <4>1. /\ Len(written) + 1 \in 1..Len(written')
            /\ ~(Len(written) + 1 <= Len(written))
        BY <1>t, <2>2
      <4>2. written'[Len(written) + 1] = Done + 1
        BY <2>4, <4>1
      <4> QED
        BY <2>2, <4>2
    <3>4. \A i \in 1..Len(written') : i \in 1..Len(written) \/ i = Len(written) + 1
      BY <1>t, <2>2
    <3> QED
      BY <3>2, <3>3, <3>4
  <2>6. ~Lossy' => /\ Len(written') = Done'
                   /\ \A i \in 1..Len(written') : written'[i] = i
    BY <1>l, <1>t, <2>2, <2>4 DEF BytesInv
  <2> QED
    BY <2>1, <2>5, <2>6 DEF BytesInv
<1>10. ASSUME Interrupted PROVE BytesInv'
  <2>1. /\ buf' = SubSeq(buf, copied + 1, Len(buf)) /\ copied' = 0
        /\ taken' = taken /\ written' = written
    BY <1>10 DEF Interrupted
  <2>2. \A i \in (copied + 1)..Len(buf) : buf[i] \in 1..sent
    BY <1>t, ElementOfSeq
  <2>3. /\ Len(buf') = Len(buf) - copied
        /\ \A i \in 1..(Len(buf) - copied) : buf'[i] = buf[copied + i]
    <3>1. copied + 1 \in Int /\ Len(buf) \in Int /\ Len(buf) - (copied + 1) + 1 = Len(buf) - copied
      BY <1>t
    <3>2. /\ Len(buf') = IF copied + 1 <= Len(buf) THEN Len(buf) - copied ELSE 0
          /\ \A i \in 1..(Len(buf) - copied) : buf'[i] = buf[copied + 1 + i - 1]
      BY <2>1, <2>2, <3>1, SubSeqProperties
    <3> QED
      BY <1>t, <3>2
  <2>4. copied' = 0 /\ taken' = taken /\ written' = written
    BY <2>1
  <2>5. Done' = Done
    BY <1>t, <2>3, <2>4 DEF Done
  <2>6. Len(buf') <= taken' /\ \A i \in 1..Len(buf') : buf'[i] = taken' - Len(buf') + i
    <3>1. Len(buf) <= taken /\ \A i \in 1..Len(buf) : buf[i] = taken - Len(buf) + i
      BY DEF BytesInv
    <3>2. \A i \in 1..(Len(buf) - copied) :
             copied + i \in 1..Len(buf) /\ buf'[i] = taken - Len(buf) + (copied + i)
      BY <1>t, <2>3, <3>1
    <3> QED
      BY <1>t, <2>3, <2>4, <3>1, <3>2
  <2>7. /\ \A i \in 1..Len(written') : written'[i] <= Done'
        /\ ~Lossy' => /\ Len(written') = Done'
                      /\ \A i \in 1..Len(written') : written'[i] = i
    BY <1>l, <2>4, <2>5 DEF BytesInv
  <2> QED
    BY <2>6, <2>7 DEF BytesInv
<1>11. ASSUME PeerNext PROVE BytesInv'
  BY <1>l, <1>11, SameBytes DEF PeerNext
<1>12. CASE UNCHANGED vars
  BY <1>l, <1>12, SameBytes DEF vars
<1> QED
  BY <1>2, <1>3, <1>4, <1>5, <1>6, <1>7, <1>8, <1>9, <1>10, <1>11, <1>12
  DEF Next, ThreadNext, CallNext, SignalNext

-----------------------------------------------------------------------------

(* It holds initially. *)
LEMMA InvInit == Init => IInv
<1> SUFFICES ASSUME Init PROVE IInv
  OBVIOUS
<1> USE SocketConstants, EmptySeq DEF Init, SocketInit
<1>e. <<>> \in Seq(1..0) /\ Len(<<>>) = 0 /\ 1..0 = {}
  OBVIOUS
<1>1. TypeOK
  <2>1. buf \in Seq(1..sent) /\ written \in Seq(1..sent) /\ Len(buf) = 0 /\ Len(written) = 0
    BY <1>e
  <2>2. {eof, reset, urgent} \subseteq BOOLEAN /\ failed \in BOOLEAN
    OBVIOUS
  <2>3. 0 \in 0..MaxBytes /\ 0 \in 0..MaxSignals /\ 0 \in 0..0 /\ 0 <= BufferSize
    OBVIOUS
  <2> QED
    BY <2>1, <2>2, <2>3 DEF TypeOK, SocketTypeOK
<1>2. CallInv
  BY DEF CallInv
<1>3. BytesInv
  <2>1. Len(buf) = 0 /\ Len(written) = 0 /\ taken = 0 /\ copied = 0
    BY <1>e
  <2> HIDE DEF Init, SocketInit
  <2>2. Done = 0
    BY <2>1 DEF Done
  <2> QED
    BY <1>e, <2>1, <2>2 DEF BytesInv
<1> QED
  BY <1>1, <1>2, <1>3 DEF IInv

(* It holds in every reachable state. *)
THEOREM Invariance == Spec => []IInv
<1>1. IInv /\ [Next]_vars => IInv'
  BY TypeStep, CallStepInv, BytesStep DEF IInv
<1> QED
  BY InvInit, <1>1, PTL DEF Spec

(* TypeOK for buffers of any size and any number of bytes and signals. *)
THEOREM TypeCorrect == Spec => []TypeOK
  BY Invariance, PTL DEF IInv

(* A client that sent all it had and closed its side has got all of it back, unless
   a write failed (slave_thread()). *)
THEOREM AllEchoed == Spec => []EchoedWhenClosed
<1>1. IInv => EchoedWhenClosed
  <2> SUFFICES ASSUME IInv, session = "closed", res = "eof", ~failed
               PROVE  written = [i \in 1..sent |-> i]
    BY DEF EchoedWhenClosed
  <2>1. op = "read" /\ taken = sent /\ buf = <<>> /\ copied = 0
    BY DEF IInv, CallInv
  <2>2. Len(written) = sent /\ \A i \in 1..sent : written[i] = i
    BY <2>1, EmptySeq DEF IInv, BytesInv, Done, Lossy, TypeOK, SocketTypeOK
  <2>3. written \in Seq(1..sent)
    BY DEF IInv, TypeOK, SocketTypeOK
  <2> QED
    BY <2>2, <2>3, LenProperties
<1> QED
  BY Invariance, <1>1, PTL

(* A session implements ByteCopy: every step copies the next byte, is one of the
   peer, loses bytes by a failed write, or changes nothing that ByteCopy sees
   (the loops of write_to_socket() and slave_thread()). *)
THEOREM CopyImplemented == Spec => CopySpec
<1>1. Init => Copied!Init
  BY DEF Init, SocketInit, Copied!Init
<1>2. IInv /\ [Next]_vars => [Copied!Next]_(Copied!vars)
  <2> SUFFICES ASSUME IInv, [Next]_vars PROVE [Copied!Next]_(Copied!vars)
    OBVIOUS
  <2>1. Lossy => Lossy'
    BY LossyStep DEF IInv
  <2> USE DEF Copied!Next, Copied!vars, Copied!Send, Copied!Copy, Copied!Lose, Lossy,
              callVars, peerVars, streamVars, socketVars, Call, CallStep, Return
  <2>2. ASSUME sent' = sent, written' = written
        PROVE  [Copied!Next]_(Copied!vars)
    <3>1. CASE Lossy' /\ ~Lossy
      BY <2>2, <3>1
    <3>2. CASE Lossy' = Lossy
      BY <2>2, <3>2
    <3> QED
      BY <2>1, <3>1, <3>2
  <2>3. CASE StartRead \/ WriteBack \/ ReadAgain \/ Close \/ Killed
    BY <2>2, <2>3 DEF StartRead, WriteBack, ReadAgain, Close, Killed
  <2>4. ASSUME SelectReady \/ SelectTimesOut \/ Read \/ ReadEnds \/ WriteReturns
               \/ WriteFails \/ SelectInterrupted \/ Interrupted
        PROVE  [Copied!Next]_(Copied!vars)
    BY <2>2, <2>4 DEF SelectReady, SelectTimesOut, Read, ReadEnds, WriteReturns,
                      WriteFails, SelectInterrupted, Interrupted
  <2>5. ASSUME WriteByte, UNCHANGED failed PROVE [Copied!Next]_(Copied!vars)
    <3>1. /\ copied < Len(buf) /\ written' = Append(written, buf[copied + 1])
          /\ sent' = sent /\ res' = res /\ op' = op
      BY <2>5 DEF WriteByte
    <3>2. /\ buf[copied + 1] = Done + 1 /\ copied + 1 \in 1..Len(buf)
          /\ \A i \in 1..Len(written) : written[i] < buf[copied + 1]
          /\ ~Lossy => buf[copied + 1] = Len(written) + 1
      <4>1. /\ taken \in Nat /\ copied \in Nat /\ Len(buf) \in Nat
            /\ \A i \in 1..Len(written) : written[i] \in Nat
        BY DEF IInv, TypeOK, SocketTypeOK
      <4>2. copied + 1 \in 1..Len(buf) /\ Done \in Int
        BY <3>1, <4>1 DEF Done
      <4>3. buf[copied + 1] = Done + 1
        BY <4>1, <4>2 DEF IInv, BytesInv, Done
      <4>4. /\ \A i \in 1..Len(written) : written[i] <= Done
            /\ ~Lossy => Len(written) = Done
        BY DEF IInv, BytesInv
      <4> QED
        BY <4>1, <4>2, <4>3, <4>4
    <3>3. buf[copied + 1] \in 1..sent /\ DOMAIN written = 1..Len(written)
      BY <3>2, ElementOfSeq, LenProperties DEF IInv, TypeOK, SocketTypeOK
    <3>4. Copied!Copy
      BY <2>5, <3>1, <3>2, <3>3
    <3> QED
      BY <3>4
  <2>6. ASSUME PeerNext, UNCHANGED <<session, failed>>
        PROVE  [Copied!Next]_(Copied!vars)
    <3>1. UNCHANGED <<op, res, written>>
      BY <2>6 DEF PeerNext
    <3>2. sent' = sent \/ sent' = sent + 1
      BY <2>6 DEF PeerNext, PeerSends, PeerShutsDown, PeerResets, PeerSendsUrgent,
                  PeerReads
    <3> QED
      BY <2>6, <3>1, <3>2
  <2>7. CASE UNCHANGED vars
    BY <2>2, <2>7 DEF vars
  <2> QED
    BY <2>3, <2>4, <2>5, <2>6, <2>7 DEF Next, ThreadNext, CallNext, SignalNext
<1> QED
  BY <1>1, <1>2, Invariance, PTL DEF Spec, CopySpec, Copied!Spec
=============================================================================
