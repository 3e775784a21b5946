--------------------- MODULE altera_avalon_jtag_uart_proofs ---------------------
(***************************************************************************)
(* The JTAG UART driver, for buffers and FIFOs of any size and as many     *)
(* characters as one likes: each ring buffer is a bounded queue, although  *)
(* the interrupt routine works on it at any moment without a lock.         *)
(***************************************************************************)
EXTENDS altera_avalon_jtag_uart, SequenceTheorems, TLAPS

\* Places of a ring, counted from one of them without a division.
Slot(first, i) == IF first + i - 1 < BUF_LEN THEN first + i - 1 ELSE first + i - 1 - BUF_LEN

\* The characters behind the first k ones, in order.
Numbers(k, u) == [i \in 1 .. u |-> k + i]

\* The room of the transmit FIFO that the routine has read is still there: the host makes it larger.
SpaceInv == isr \in {"read", "write"} => space + tx_level <= FIFO_DEPTH

\* The transmit ring holds what has been written and not sent.  The places the program is filling
\* lie behind that, in one piece, and one more place is free.
TxInv ==
  /\ sent = Numbers(0, Len(sent)) /\ written = Len(sent) + Used(tx_out, tx_in)
  /\ \A i \in 1 .. Used(tx_out, tx_in) : tx_buf[Slot(tx_out, i)] = Len(sent) + i
  /\ pc \in {"write_copy", "write_advance"} =>
       in = tx_in /\ n <= count /\ in + n <= BUF_LEN /\ Used(tx_out, tx_in) + n <= BUF_LEN - 1
  /\ pc = "write_advance" => \A i \in 1 .. n : tx_buf[in + i - 1] = written + i

\* The receive ring holds what the routine has read of the device and the program has not.  The
\* places the program is emptying are the first ones, in one piece, and still count as used.
RxInv ==
  /\ rx_level <= typed
  /\ consumed = Numbers(0, Len(consumed)) /\ typed - rx_level = Len(consumed) + Used(rx_first, rx_in)
  /\ \A i \in 1 .. Used(rx_first, rx_in) : rx_buf[Slot(rx_first, i)] = Len(consumed) + i
  /\ pc = "read_copy" => out = rx_out /\ n <= count /\ n <= Used(rx_out, rx_in) /\ out + n <= BUF_LEN
  /\ pc = "read_advance" => out = rx_out /\ Used(rx_out, rx_in) = n + Used(rx_first, rx_in)

UartInv == setup \in Setups /\ UartTypeOK /\ SpaceInv /\ TxInv /\ RxInv

-----------------------------------------------------------------------------
(* Rings and sequences *)

LEMMA RemainderNear ==
  ASSUME NEW b \in Nat \ {0}, NEW k \in -b .. 2 * b - 1
  PROVE  k % b = IF k < 0 THEN k + b ELSE IF k < b THEN k ELSE k - b
<1>1. k = b * (k \div b) + (k % b) /\ (k % b) \in 0 .. b - 1 /\ k \div b \in Int
  OBVIOUS
<1> DEFINE q == k \div b
<1> DEFINE r == k % b
<1>2. k = b * q + r /\ r \in 0 .. b - 1 /\ q \in Int
  BY <1>1
<1> HIDE DEF q, r
<1>3. q \in {-1, 0, 1}
  <2>1. q >= 2 => b * q >= 2 * b
    BY <1>2
  <2>2. q <= -2 => b * q <= -2 * b
    BY <1>2
  <2> QED
    BY <1>2, <2>1, <2>2
<1>4. CASE q = 0
  BY <1>2, <1>4 DEF r
<1>5. CASE q = 1
  BY <1>2, <1>5 DEF r
<1>6. CASE q = -1
  BY <1>2, <1>6 DEF r
<1> QED
  BY <1>3, <1>4, <1>5, <1>6

LEMMA UsedIs ==
  ASSUME UartAssumption, NEW first \in 0 .. BUF_LEN - 1, NEW last \in 0 .. BUF_LEN - 1
  PROVE  /\ Used(first, last) = IF last >= first THEN last - first ELSE last - first + BUF_LEN
         /\ Used(first, last) \in 0 .. BUF_LEN - 1
<1> DEFINE b == BUF_LEN
<1> DEFINE k == last - first
<1>1. b \in Nat \ {0} /\ k \in -b .. 2 * b - 1
  BY DEF UartAssumption
<1>2. Used(first, last) = k % b
  BY DEF Used
<1> HIDE DEF b, k
<1>3. k % b = IF k < 0 THEN k + b ELSE IF k < b THEN k ELSE k - b
  BY <1>1, RemainderNear
<1> QED
  BY <1>1, <1>2, <1>3 DEF b, k, UartAssumption

LEMMA WrapIs ==
  ASSUME UartAssumption, NEW first \in 0 .. BUF_LEN - 1, NEW d \in 0 .. BUF_LEN
  PROVE  /\ (first + d) % BUF_LEN = IF first + d < BUF_LEN THEN first + d ELSE first + d - BUF_LEN
         /\ (first + d) % BUF_LEN \in 0 .. BUF_LEN - 1
<1> DEFINE b == BUF_LEN
<1> DEFINE k == first + d
<1>1. b \in Nat \ {0} /\ k \in -b .. 2 * b - 1 /\ k >= 0
  BY DEF UartAssumption
<1> HIDE DEF b, k
<1>2. k % b = IF k < 0 THEN k + b ELSE IF k < b THEN k ELSE k - b
  BY <1>1, RemainderNear
<1>3. k % b = (IF k < b THEN k ELSE k - b) /\ k % b \in 0 .. b - 1
  BY <1>1, <1>2
<1> QED
  BY <1>3 DEF b, k

LEMMA NextIs ==
  ASSUME UartAssumption, NEW first \in 0 .. BUF_LEN - 1
  PROVE  Next_(first) = (IF first + 1 < BUF_LEN THEN first + 1 ELSE 0) /\ Next_(first) \in 0 .. BUF_LEN - 1
<1>1. 1 \in 0 .. BUF_LEN /\ BUF_LEN \in Nat
  BY DEF UartAssumption
<1>2. /\ (first + 1) % BUF_LEN = IF first + 1 < BUF_LEN THEN first + 1 ELSE first + 1 - BUF_LEN
      /\ (first + 1) % BUF_LEN \in 0 .. BUF_LEN - 1
  BY <1>1, WrapIs
<1> QED
  BY <1>1, <1>2 DEF Next_

LEMMA SlotIs ==
  ASSUME UartAssumption, NEW first \in 0 .. BUF_LEN - 1, NEW i \in 1 .. BUF_LEN
  PROVE  (first + i - 1) % BUF_LEN = Slot(first, i) /\ Slot(first, i) \in 0 .. BUF_LEN - 1
<1> DEFINE d == i - 1
<1>1. BUF_LEN \in Nat \ {0} /\ d \in 0 .. BUF_LEN
  BY DEF UartAssumption
<1> HIDE DEF d
<1>2. /\ (first + d) % BUF_LEN = IF first + d < BUF_LEN THEN first + d ELSE first + d - BUF_LEN
      /\ (first + d) % BUF_LEN \in 0 .. BUF_LEN - 1
  BY <1>1, WrapIs
<1>3. first + i - 1 = first + d
  BY <1>1 DEF d
<1> QED
  BY <1>1, <1>2, <1>3 DEF Slot

LEMMA NumbersIsSeq ==
  ASSUME NEW k \in Nat, NEW u \in Nat
  PROVE  /\ Numbers(k, u) \in Seq(Nat) /\ Len(Numbers(k, u)) = u
         /\ \A i \in 1 .. u : Numbers(k, u)[i] = k + i
BY DEF Numbers

LEMMA NumbersPut ==
  ASSUME NEW k \in Nat, NEW u \in Nat, NEW m \in Nat
  PROVE  Numbers(k, u) \o [i \in 1 .. m |-> k + u + i] = Numbers(k, u + m)
<1> DEFINE s == Numbers(k, u)
<1> DEFINE t == [i \in 1 .. m |-> k + u + i]
<1>1. s \in Seq(Nat) /\ Len(s) = u /\ \A i \in 1 .. u : s[i] = k + i
  BY NumbersIsSeq
<1>2. t \in Seq(Nat) /\ Len(t) = m /\ \A i \in 1 .. m : t[i] = k + u + i
  OBVIOUS
<1>3. /\ Numbers(k, u + m) \in Seq(Nat) /\ Len(Numbers(k, u + m)) = u + m
      /\ \A i \in 1 .. u + m : Numbers(k, u + m)[i] = k + i
  BY NumbersIsSeq
<1> HIDE DEF s, t
<1>4. /\ s \o t \in Seq(Nat) /\ Len(s \o t) = u + m
      /\ \A i \in 1 .. u + m : (s \o t)[i] = IF i <= u THEN s[i] ELSE t[i - u]
  BY <1>1, <1>2, ConcatProperties, ZenonT(60)
<1>5. \A i \in 1 .. u + m : (s \o t)[i] = Numbers(k, u + m)[i]
  <2> SUFFICES ASSUME NEW i \in 1 .. u + m PROVE (s \o t)[i] = k + i
    BY <1>3
  <2>1. CASE i <= u
    BY <1>1, <1>4, <2>1
  <2>2. CASE i > u
    <3>1. i - u \in 1 .. m /\ k + u + (i - u) = k + i
      BY <2>2
    <3>2. t[i - u] = k + i
      BY <1>2, <3>1
    <3> QED
      BY <1>4, <2>2, <3>2
  <2>3. i <= u \/ i > u
    OBVIOUS
  <2> QED
    BY <2>1, <2>2, <2>3
<1>6. s \o t = Numbers(k, u + m)
  BY <1>3, <1>4, <1>5, SeqEqual
<1> QED
  BY <1>6 DEF s, t

LEMMA NumbersTake ==
  ASSUME NEW k \in Nat, NEW u \in Nat, NEW m \in 0 .. u
  PROVE  /\ Numbers(0, k) \o SubSeq(Numbers(k, u), 1, m) = Numbers(0, k + m)
         /\ SubSeq(Numbers(k, u), m + 1, u) = Numbers(k + m, u - m)
<1> DEFINE s == Numbers(k, u)
<1>1. s \in Seq(Nat) /\ Len(s) = u /\ \A i \in 1 .. u : s[i] = k + i
  BY NumbersIsSeq
<1> HIDE DEF s
<1>2. /\ Len(SubSeq(s, 1, m)) = m /\ SubSeq(s, 1, m) \in Seq(Nat)
      /\ \A i \in 1 .. m : SubSeq(s, 1, m)[i] = s[i]
  BY <1>1
<1>3. /\ Len(SubSeq(s, m + 1, u)) = u - m /\ SubSeq(s, m + 1, u) \in Seq(Nat)
      /\ \A i \in 1 .. u - m : SubSeq(s, m + 1, u)[i] = s[m + i]
  BY <1>1
<1>4. SubSeq(s, m + 1, u) = Numbers(k + m, u - m)
  <2>1. /\ Numbers(k + m, u - m) \in Seq(Nat) /\ Len(Numbers(k + m, u - m)) = u - m
        /\ \A i \in 1 .. u - m : Numbers(k + m, u - m)[i] = k + m + i
    <3>1. k + m \in Nat /\ u - m \in Nat
      OBVIOUS
    <3> QED
      BY <3>1, NumbersIsSeq
  <2>2. \A i \in 1 .. u - m : SubSeq(s, m + 1, u)[i] = Numbers(k + m, u - m)[i]
    BY <1>1, <1>3, <2>1
  <2> QED
    BY <1>3, <2>1, <2>2, SeqEqual
<1>5. SubSeq(s, 1, m) = [i \in 1 .. m |-> 0 + k + i]
  <2> DEFINE t == [i \in 1 .. m |-> 0 + k + i]
  <2>1. t \in Seq(Nat) /\ Len(t) = m /\ \A i \in 1 .. m : t[i] = 0 + k + i
    OBVIOUS
  <2> HIDE DEF t
  <2>2. \A i \in 1 .. m : SubSeq(s, 1, m)[i] = t[i]
    BY <1>1, <1>2, <2>1
  <2>3. SubSeq(s, 1, m) = t
    BY <1>2, <2>1, <2>2, SeqEqual
  <2> QED
    BY <2>3 DEF t
<1>6. Numbers(0, k) \o SubSeq(s, 1, m) = Numbers(0, k + m)
  <2>1. 0 \in Nat /\ m \in Nat
    OBVIOUS
  <2>2. Numbers(0, k) \o [i \in 1 .. m |-> 0 + k + i] = Numbers(0, k + m)
    BY <2>1, NumbersPut
  <2> QED
    BY <1>5, <2>2
<1> QED
  BY <1>4, <1>6 DEF s

-----------------------------------------------------------------------------
(* Types *)

\* What the types of the parts are, piece by piece.
LEMMA Parts ==
  ASSUME UartAssumption, UartInv
  PROVE  /\ BUF_LEN \in Nat \ {0, 1} /\ FIFO_DEPTH \in Nat \ {0} /\ INT_MAX \in Nat
         /\ rx_in \in 0 .. BUF_LEN - 1 /\ rx_out \in 0 .. BUF_LEN - 1
         /\ tx_in \in 0 .. BUF_LEN - 1 /\ tx_out \in 0 .. BUF_LEN - 1
         /\ in \in 0 .. BUF_LEN - 1 /\ out \in 0 .. BUF_LEN - 1
         /\ count \in Nat /\ moved \in Nat /\ n \in Nat /\ typed \in Nat /\ written \in Nat
         /\ rx_level \in 0 .. FIFO_DEPTH /\ tx_level \in 0 .. FIFO_DEPTH /\ space \in 0 .. FIFO_DEPTH
         /\ MaxWritten \in Nat /\ MaxTyped \in Nat
         /\ Len(sent) \in Nat /\ Len(consumed) \in Nat
<1>1. setup.written \in Nat /\ setup.typed \in Nat
  BY DEF UartAssumption, UartInv
<1>2. Len(sent) \in Nat /\ Len(consumed) \in Nat
  BY LenProperties DEF UartInv, UartTypeOK
<1>3. /\ rx_in \in 0 .. BUF_LEN - 1 /\ rx_out \in 0 .. BUF_LEN - 1
      /\ tx_in \in 0 .. BUF_LEN - 1 /\ tx_out \in 0 .. BUF_LEN - 1
      /\ in \in 0 .. BUF_LEN - 1 /\ out \in 0 .. BUF_LEN - 1
  BY DEF UartInv, UartTypeOK
<1>4. /\ count \in Nat /\ moved \in Nat /\ n \in Nat /\ typed \in Nat /\ written \in Nat
      /\ rx_level \in 0 .. FIFO_DEPTH /\ tx_level \in 0 .. FIFO_DEPTH /\ space \in 0 .. FIFO_DEPTH
  BY DEF UartInv, UartTypeOK
<1> QED
  BY <1>1, <1>2, <1>3, <1>4 DEF UartAssumption, MaxWritten, MaxTyped

\* Control, and what is true or false.
ControlOK ==
  /\ pc \in {"idle", "read_look", "read_copy", "read_advance", "read_spin", "read_check", "read_end",
             "write_look", "write_copy", "write_advance", "write_kick", "write_spin", "write_check",
             "close_spin"}
  /\ isr \in {"none", "control", "read", "write"} /\ irq_enable \subseteq {"RE", "WE"}
  /\ {nonblock, wi, avail, ac, connected} \subseteq BOOLEAN

LEMMA ControlStep ==
  ASSUME UartAssumption, UartInv, Next
  PROVE  ControlOK' /\ setup' \in Setups
<1> USE DEF ControlOK, UartInv, UartTypeOK, callVars, argVars, localVars, rxVars, txVars, hostVars,
            timeVars, isrVars, sharedVars, At, Goto, Return
<1>1. CASE Read \/ Write \/ Close \/ Ioctl
  BY <1>1 DEF Read, Write, Close, Ioctl, Call
<1>2. CASE ReadStep
  BY <1>2 DEF ReadStep, ReadLook, ReadCopy, ReadAdvance, ReadSpin, ReadCheck, ReadEnd
<1>3. CASE WriteStep
  BY <1>3 DEF WriteStep, WriteLook, WriteCopy, WriteAdvance, WriteKick, WriteSpin, WriteCheck
<1>4. CASE CloseSpin
  BY <1>4 DEF CloseSpin
<1>5. CASE Isr
  <2>1. CASE IsrControl
    <3>1. isr' \in {"none", "control", "read", "write"} /\ wi' \in BOOLEAN /\ avail' \in BOOLEAN
      <4>1. WI \in BOOLEAN
        BY DEF WI
      <4> QED
        BY <2>1, <4>1 DEF IsrControl
    <3> QED
      BY <2>1, <3>1 DEF IsrControl
  <2>2. CASE IsrRead
    <3>1. avail' \in BOOLEAN
      <4>1. (rx_level > 1) \in BOOLEAN
        OBVIOUS
      <4> QED
        BY <2>2, <4>1 DEF IsrRead
    <3> QED
      BY <2>2, <3>1 DEF IsrRead
  <2>3. CASE IsrWrite
    BY <2>3 DEF IsrWrite
  <2> QED
    BY <1>5, <2>1, <2>2, <2>3 DEF Isr
<1>6. CASE Timeout \/ HostTypes \/ HostTakes \/ HostPolls \/ HostLeaves
  BY <1>6 DEF Timeout, HostTypes, HostTakes, HostPolls, HostLeaves
<1> QED
  BY <1>1, <1>2, <1>3, <1>4, <1>5, <1>6 DEF Next

\* Indices and numbers.
IndicesOK == {rx_in, rx_out, tx_in, tx_out, in, out} \subseteq 0 .. BUF_LEN - 1
NumbersOK == {count, moved, n, typed, written} \subseteq Nat /\ result \in Int

LEMMA InRing ==
  ASSUME UartAssumption, NEW k \in Int
  PROVE  k % BUF_LEN \in 0 .. BUF_LEN - 1 /\ Next_(k) \in 0 .. BUF_LEN - 1
<1>1. BUF_LEN \in Nat \ {0}
  BY DEF UartAssumption
<1>2. \A j \in Int : j % BUF_LEN \in 0 .. BUF_LEN - 1
  <2> DEFINE b == BUF_LEN
  <2> HIDE DEF b
  <2>1. b \in Nat \ {0}
    BY <1>1 DEF b
  <2>2. \A j \in Int : j % b \in 0 .. b - 1
    BY <2>1
  <2> QED
    BY <2>2 DEF b
<1>3. k + 1 \in Int
  OBVIOUS
<1> QED
  BY <1>2, <1>3 DEF Next_

LEMMA IndicesStep ==
  ASSUME UartAssumption, UartInv, Next
  PROVE  IndicesOK'
<1>1. /\ rx_in \in 0 .. BUF_LEN - 1 /\ rx_out \in 0 .. BUF_LEN - 1
      /\ tx_in \in 0 .. BUF_LEN - 1 /\ tx_out \in 0 .. BUF_LEN - 1
      /\ in \in 0 .. BUF_LEN - 1 /\ out \in 0 .. BUF_LEN - 1
      /\ BUF_LEN \in Nat /\ n \in Nat
  BY Parts
<1>0. in + n \in Int /\ out + n \in Int /\ rx_in \in Int /\ tx_out \in Int
  BY <1>1
<1>2. /\ (in + n) % BUF_LEN \in 0 .. BUF_LEN - 1 /\ (out + n) % BUF_LEN \in 0 .. BUF_LEN - 1
      /\ Next_(rx_in) \in 0 .. BUF_LEN - 1 /\ Next_(tx_out) \in 0 .. BUF_LEN - 1
  BY <1>0, InRing
<1> USE DEF IndicesOK, callVars, argVars, localVars, rxVars, txVars, hostVars,
            timeVars, isrVars, sharedVars
<1>3. CASE Read \/ Write \/ Close \/ Ioctl
  BY <1>1, <1>3 DEF Read, Write, Close, Ioctl, Call
<1>4. CASE ReadStep
  BY <1>1, <1>2, <1>4 DEF ReadStep, ReadLook, ReadCopy, ReadAdvance, ReadSpin, ReadCheck, ReadEnd
<1>5. CASE WriteStep
  BY <1>1, <1>2, <1>5 DEF WriteStep, WriteLook, WriteCopy, WriteAdvance, WriteKick, WriteSpin, WriteCheck
<1>6. CASE CloseSpin
  BY <1>1, <1>6 DEF CloseSpin
<1>7. CASE Isr
  BY <1>1, <1>2, <1>7 DEF Isr, IsrControl, IsrRead, IsrWrite
<1>8. CASE Timeout \/ HostTypes \/ HostTakes \/ HostPolls \/ HostLeaves
  BY <1>1, <1>8 DEF Timeout, HostTypes, HostTakes, HostPolls, HostLeaves
<1> QED
  BY <1>3, <1>4, <1>5, <1>6, <1>7, <1>8 DEF Next

LEMMA NumbersStep ==
  ASSUME UartAssumption, UartInv, Next
  PROVE  NumbersOK'
<1>1. /\ rx_in \in 0 .. BUF_LEN - 1 /\ rx_out \in 0 .. BUF_LEN - 1
      /\ tx_in \in 0 .. BUF_LEN - 1 /\ tx_out \in 0 .. BUF_LEN - 1 /\ BUF_LEN \in Nat
      /\ count \in Nat /\ moved \in Nat /\ n \in Nat /\ typed \in Nat /\ written \in Nat
      /\ MaxWritten \in Nat /\ MaxTyped \in Nat
  BY Parts
<1>2. result \in Int
  BY DEF UartInv, UartTypeOK
<1>3. available \in Nat /\ room \in Nat
  <2>1. available \in Nat
    BY <1>1 DEF available
  <2>2. room \in Nat
    <3>1. CASE tx_in < tx_out
      BY <1>1, <3>1 DEF room
    <3>2. CASE ~(tx_in < tx_out) /\ tx_out > 0
      BY <1>1, <3>2 DEF room
    <3>3. CASE ~(tx_in < tx_out) /\ ~(tx_out > 0)
      BY <1>1, <3>3 DEF room
    <3> QED
      BY <3>1, <3>2, <3>3
  <2> QED
    BY <2>1, <2>2
<1>4. Smaller(available, count) \in Nat /\ Smaller(room, count) \in Nat
  BY <1>1, <1>3 DEF Smaller
<1>5. pc \in {"read_copy", "write_copy", "write_advance"} => count - n \in Nat
  BY <1>1 DEF UartInv, TxInv, RxInv
<1> USE DEF NumbersOK, callVars, argVars, localVars, rxVars, txVars, hostVars,
            timeVars, isrVars, sharedVars, At, Goto, Return
<1>6. CASE Read \/ Write \/ Close \/ Ioctl
  <2>1. CASE Read
    BY <1>1, <1>2, <2>1 DEF Read, Call
  <2>2. CASE Write
    <3>1. MaxWritten - written \in Nat
      BY <1>1, <2>2 DEF Write
    <3> QED
      BY <1>1, <1>2, <2>2, <3>1 DEF Write, Call
  <2> QED
    BY <1>1, <1>2, <1>6, <2>1, <2>2 DEF Close, Ioctl
<1>7. CASE ReadStep
  <2>1. CASE ReadEnd
    BY <1>1, <1>2, <2>1 DEF ReadEnd, EIO, EWOULDBLOCK
  <2>2. CASE ReadCopy
    <3>1. moved' \in Nat /\ count' \in Nat
      BY <1>1, <1>5, <2>2 DEF ReadCopy
    <3> QED
      BY <1>1, <1>2, <2>2, <3>1 DEF ReadCopy
  <2>3. CASE ReadLook
    BY <1>1, <1>2, <1>4, <2>3 DEF ReadLook
  <2> QED
    BY <1>1, <1>2, <1>7, <2>1, <2>2, <2>3 DEF ReadStep, ReadAdvance, ReadSpin, ReadCheck
<1>8. CASE WriteStep
  <2>1. WriteResult \in Int
    BY <1>1 DEF WriteResult, EIO, EWOULDBLOCK
  <2>2. CASE WriteLook
    BY <1>1, <1>2, <1>4, <2>2 DEF WriteLook
  <2>3. CASE WriteAdvance
    <3>1. written' \in Nat /\ moved' \in Nat /\ count' \in Nat
      BY <1>1, <1>5, <2>3 DEF WriteAdvance
    <3> QED
      BY <1>1, <1>2, <2>3, <3>1 DEF WriteAdvance
  <2>4. CASE WriteCopy \/ WriteKick \/ WriteSpin \/ WriteCheck
    BY <1>1, <1>2, <2>1, <2>4 DEF WriteCopy, WriteKick, WriteSpin, WriteCheck
  <2> QED
    BY <1>8, <2>2, <2>3, <2>4 DEF WriteStep
<1>9. CASE CloseSpin
  BY <1>1, <1>2, <1>9 DEF CloseSpin, EWOULDBLOCK
<1>10. CASE Isr
  BY <1>1, <1>2, <1>10 DEF Isr, IsrControl, IsrRead, IsrWrite
<1>11. CASE Timeout \/ HostTypes \/ HostTakes \/ HostPolls \/ HostLeaves
  BY <1>1, <1>2, <1>11 DEF Timeout, HostTypes, HostTakes, HostPolls, HostLeaves
<1> QED
  BY <1>6, <1>7, <1>8, <1>9, <1>10, <1>11 DEF Next

\* The buffers and what is in the FIFOs, and the clock.
BuffersOK == rx_buf \in [0 .. BUF_LEN - 1 -> Nat] /\ tx_buf \in [0 .. BUF_LEN - 1 -> Nat]
LevelsOK ==
  /\ {rx_level, tx_level, space} \subseteq 0 .. FIFO_DEPTH
  /\ SpaceInv /\ rx_level <= typed
ClockOK == host_inactive \in 0 .. INT_MAX - 2 /\ timeout \in 2 .. INT_MAX
SeqsOK == sent \in Seq(Nat) /\ consumed \in Seq(Nat)

LEMMA BuffersStep ==
  ASSUME UartAssumption, UartInv, Next
  PROVE  BuffersOK'
<1>1. /\ rx_buf \in [0 .. BUF_LEN - 1 -> Nat] /\ tx_buf \in [0 .. BUF_LEN - 1 -> Nat]
      /\ rx_in \in 0 .. BUF_LEN - 1
  BY Parts DEF UartInv, UartTypeOK
<1>2. CASE WriteCopy
  <2>1. \A i \in 0 .. BUF_LEN - 1 :
          (IF i \in in .. in + n - 1 THEN written + 1 + i - in ELSE tx_buf[i]) \in Nat
    <3>1. written \in Nat /\ n \in Nat /\ in \in Nat /\ BUF_LEN \in Nat
      BY Parts
    <3>2. \A i \in Nat : i >= in => written + 1 + i - in \in Nat
      BY <3>1
    <3> QED
      BY <1>1, <3>1, <3>2
  <2>2. tx_buf' \in [0 .. BUF_LEN - 1 -> Nat]
    BY <1>2, <2>1 DEF WriteCopy
  <2> QED
    BY <1>1, <1>2, <2>2 DEF BuffersOK, WriteCopy, rxVars
<1>3. CASE IsrRead
  <2>1. typed - rx_level + 1 \in Nat
    <3>1. typed \in Nat /\ rx_level \in 0 .. FIFO_DEPTH /\ FIFO_DEPTH \in Nat
      BY Parts
    <3>2. rx_level <= typed
      BY DEF UartInv, RxInv
    <3> QED
      BY <3>1, <3>2
  <2>2. rx_buf' \in [0 .. BUF_LEN - 1 -> Nat]
    BY <1>1, <1>3, <2>1 DEF IsrRead
  <2> QED
    BY <1>1, <1>3, <2>2 DEF BuffersOK, IsrRead, txVars
<1> QED
  BY <1>1, <1>2, <1>3 DEF BuffersOK, callVars, argVars, localVars, rxVars, txVars, hostVars,
    timeVars, isrVars, sharedVars, Next, Read, Write, Close, Ioctl, Call,
    ReadStep, ReadLook, ReadCopy, ReadAdvance, ReadSpin, ReadCheck, ReadEnd,
    WriteStep, WriteLook, WriteAdvance, WriteKick, WriteSpin, WriteCheck, CloseSpin,
    Isr, IsrControl, IsrWrite, Timeout, HostTypes, HostTakes, HostPolls, HostLeaves

LEMMA LevelsStep ==
  ASSUME UartAssumption, UartInv, Next
  PROVE  LevelsOK'
<1>1. /\ rx_level \in 0 .. FIFO_DEPTH /\ tx_level \in 0 .. FIFO_DEPTH /\ space \in 0 .. FIFO_DEPTH
      /\ FIFO_DEPTH \in Nat /\ typed \in Nat
  BY Parts
<1>2. SpaceInv /\ rx_level <= typed
  BY DEF UartInv, RxInv
<1> USE DEF LevelsOK, SpaceInv, hostVars, isrVars, sharedVars
<1>3. CASE IsrControl
  BY <1>1, <1>2, <1>3 DEF IsrControl
<1>4. CASE IsrRead
  BY <1>1, <1>2, <1>4 DEF IsrRead
<1>5. CASE IsrWrite
  BY <1>1, <1>2, <1>5 DEF IsrWrite
<1>6. CASE Timeout \/ HostTypes \/ HostTakes \/ HostPolls \/ HostLeaves
  BY <1>1, <1>2, <1>6 DEF Timeout, HostTypes, HostTakes, HostPolls, HostLeaves
<1>7. CASE UNCHANGED <<hostVars, isrVars>>
  BY <1>1, <1>2, <1>7
<1> QED
  BY <1>3, <1>4, <1>5, <1>6, <1>7 DEF Next, Read, Write, Close, Ioctl, Call,
    ReadStep, ReadLook, ReadCopy, ReadAdvance, ReadSpin, ReadCheck, ReadEnd,
    WriteStep, WriteLook, WriteCopy, WriteAdvance, WriteKick, WriteSpin, WriteCheck, CloseSpin, Isr

LEMMA ClockStep ==
  ASSUME UartAssumption, UartInv, Next
  PROVE  ClockOK'
<1>1. INT_MAX \in Nat /\ INT_MAX >= 4 /\ host_inactive \in 0 .. INT_MAX - 2 /\ timeout \in 2 .. INT_MAX
  BY DEF UartAssumption, UartInv, UartTypeOK
<1> USE DEF ClockOK, timeVars, sharedVars
<1>2. CASE Timeout
  BY <1>1, <1>2 DEF Timeout, Smaller
<1>3. CASE Ioctl
  BY <1>1, <1>3 DEF Ioctl
<1>4. CASE UNCHANGED timeVars
  BY <1>1, <1>4
<1> QED
  BY <1>2, <1>3, <1>4 DEF Next, Read, Write, Close, Call,
    ReadStep, ReadLook, ReadCopy, ReadAdvance, ReadSpin, ReadCheck, ReadEnd,
    WriteStep, WriteLook, WriteCopy, WriteAdvance, WriteKick, WriteSpin, WriteCheck, CloseSpin,
    Isr, IsrControl, IsrRead, IsrWrite, HostTypes, HostTakes, HostPolls, HostLeaves

-----------------------------------------------------------------------------
(* The transmit ring *)

\* As many characters are put into a ring as lie in it afterwards more, or as many are taken.
Moves(k, u, k_, u_) == \E m \in Nat : (k_ = k /\ u_ = u + m) \/ (k_ = k + m /\ u = u_ + m)

TxMoves == Moves(Len(sent), Used(tx_out, tx_in), Len(sent'), Used(tx_out', tx_in'))

LEMMA TxFrame ==
  ASSUME UartAssumption, UartInv, UNCHANGED txVars,
         pc' \notin {"write_copy", "write_advance"} \/ UNCHANGED <<pc, in, n, count>>
  PROVE  TxInv' /\ TxMoves
<1>1. TxInv'
  BY DEF UartInv, TxInv, txVars
<1>2. Used(tx_out, tx_in) \in Int
  <2>1. tx_out \in 0 .. BUF_LEN - 1 /\ tx_in \in 0 .. BUF_LEN - 1
    BY Parts
  <2>2. Used(tx_out, tx_in) \in 0 .. BUF_LEN - 1
    BY <2>1, UsedIs
  <2> QED
    BY <2>2
<1>3. sent' = sent /\ Used(tx_out', tx_in') = Used(tx_out, tx_in) + 0
  BY <1>2 DEF txVars
<1> QED
  BY <1>1, <1>3 DEF TxMoves, Moves

LEMMA TxLook ==
  ASSUME UartAssumption, UartInv, WriteLook
  PROVE  TxInv' /\ TxMoves
<1>1. /\ tx_in \in 0 .. BUF_LEN - 1 /\ tx_out \in 0 .. BUF_LEN - 1 /\ BUF_LEN \in Nat /\ count \in Nat
  BY Parts
<1>2. /\ Used(tx_out, tx_in) = IF tx_in >= tx_out THEN tx_in - tx_out ELSE tx_in - tx_out + BUF_LEN
      /\ Used(tx_out, tx_in) \in 0 .. BUF_LEN - 1
  BY <1>1, UsedIs
<1>3. /\ in' = tx_in /\ n' = Smaller(room, count) /\ count' = count /\ pc' # "write_advance"
      /\ UNCHANGED txVars
  BY DEF WriteLook, Goto, argVars, sharedVars
<1>4. room \in Int /\ tx_in + room <= BUF_LEN /\ Used(tx_out, tx_in) + room <= BUF_LEN - 1
  <2>1. CASE tx_in < tx_out
    BY <1>1, <1>2, <2>1 DEF room
  <2>2. CASE ~(tx_in < tx_out) /\ tx_out > 0
    BY <1>1, <1>2, <2>2 DEF room
  <2>3. CASE ~(tx_in < tx_out) /\ ~(tx_out > 0)
    BY <1>1, <1>2, <2>3 DEF room
  <2> QED
    BY <2>1, <2>2, <2>3
<1>5. n' <= room /\ n' <= count /\ n' \in Int
  BY <1>1, <1>3, <1>4 DEF Smaller
<1>6. in' + n' <= BUF_LEN /\ Used(tx_out, tx_in) + n' <= BUF_LEN - 1
  BY <1>1, <1>2, <1>3, <1>4, <1>5
<1>7. TxInv'
  BY <1>3, <1>5, <1>6 DEF UartInv, TxInv, txVars
<1>8. sent' = sent /\ Used(tx_out', tx_in') = Used(tx_out, tx_in) + 0
  BY <1>2, <1>3 DEF txVars
<1> QED
  BY <1>7, <1>8 DEF TxMoves, Moves

LEMMA TxCopy ==
  ASSUME UartAssumption, UartInv, WriteCopy
  PROVE  TxInv' /\ TxMoves
<1>1. /\ tx_in \in 0 .. BUF_LEN - 1 /\ tx_out \in 0 .. BUF_LEN - 1 /\ BUF_LEN \in Nat
      /\ count \in Nat /\ n \in Nat /\ written \in Nat
  BY Parts
<1>2. /\ Used(tx_out, tx_in) = IF tx_in >= tx_out THEN tx_in - tx_out ELSE tx_in - tx_out + BUF_LEN
      /\ Used(tx_out, tx_in) \in 0 .. BUF_LEN - 1
  BY <1>1, UsedIs
<1>3. /\ pc = "write_copy" /\ pc' = "write_advance" /\ UNCHANGED <<in, n, count, tx_in, tx_out, written, sent>>
      /\ tx_buf' = [i \in 0 .. BUF_LEN - 1 |->
                      IF i \in in .. in + n - 1 THEN written + 1 + i - in ELSE tx_buf[i]]
  BY DEF WriteCopy, At, Goto, argVars, localVars
<1>4. in = tx_in /\ n <= count /\ in + n <= BUF_LEN /\ Used(tx_out, tx_in) + n <= BUF_LEN - 1
  BY <1>3 DEF UartInv, TxInv
<1>5. \A i \in 1 .. n : tx_buf'[in + i - 1] = written + i
  <2> TAKE i \in 1 .. n
  <2>1. in + i - 1 \in 0 .. BUF_LEN - 1 /\ in + i - 1 \in in .. in + n - 1
        /\ written + 1 + (in + i - 1) - in = written + i
    BY <1>1, <1>4
  <2> QED
    BY <1>3, <2>1
<1>6. \A i \in 1 .. Used(tx_out, tx_in) : tx_buf'[Slot(tx_out, i)] = tx_buf[Slot(tx_out, i)]
  <2> TAKE i \in 1 .. Used(tx_out, tx_in)
  <2>1. i \in 1 .. BUF_LEN
    BY <1>1, <1>2
  <2>2. Slot(tx_out, i) \in 0 .. BUF_LEN - 1
    BY <1>1, <2>1, SlotIs
  <2>3. Slot(tx_out, i) \notin in .. in + n - 1
    BY <1>1, <1>2, <1>4, <2>1 DEF Slot
  <2> QED
    BY <1>3, <2>2, <2>3
<1>7. TxInv'
  BY <1>3, <1>4, <1>5, <1>6, ZenonT(60) DEF UartInv, TxInv
<1>8. sent' = sent /\ Used(tx_out', tx_in') = Used(tx_out, tx_in) + 0
  BY <1>2, <1>3
<1> QED
  BY <1>7, <1>8 DEF TxMoves, Moves

LEMMA TxAdvance ==
  ASSUME UartAssumption, UartInv, WriteAdvance
  PROVE  TxInv' /\ TxMoves
<1>1. /\ tx_in \in 0 .. BUF_LEN - 1 /\ tx_out \in 0 .. BUF_LEN - 1 /\ BUF_LEN \in Nat \ {0, 1}
      /\ count \in Nat /\ n \in Nat /\ written \in Nat /\ Len(sent) \in Nat
  BY Parts
<1>2. /\ Used(tx_out, tx_in) = IF tx_in >= tx_out THEN tx_in - tx_out ELSE tx_in - tx_out + BUF_LEN
      /\ Used(tx_out, tx_in) \in 0 .. BUF_LEN - 1
  BY <1>1, UsedIs
<1>3. /\ pc = "write_advance" /\ pc' \in {"write_look", "write_kick"} /\ UNCHANGED <<tx_out, tx_buf, sent>>
      /\ tx_in' = (in + n) % BUF_LEN /\ written' = written + n
  BY DEF WriteAdvance, At, Goto
<1>4. /\ in = tx_in /\ n <= count /\ in + n <= BUF_LEN /\ Used(tx_out, tx_in) + n <= BUF_LEN - 1
      /\ \A i \in 1 .. n : tx_buf[in + i - 1] = written + i
      /\ sent = Numbers(0, Len(sent)) /\ written = Len(sent) + Used(tx_out, tx_in)
      /\ \A i \in 1 .. Used(tx_out, tx_in) : tx_buf[Slot(tx_out, i)] = Len(sent) + i
  BY <1>3 DEF UartInv, TxInv
<1>5. tx_in' = (IF in + n = BUF_LEN THEN 0 ELSE in + n) /\ tx_in' \in 0 .. BUF_LEN - 1
  <2>1. in \in 0 .. BUF_LEN - 1 /\ n \in 0 .. BUF_LEN
    BY <1>1, <1>4
  <2>2. (in + n) % BUF_LEN = IF in + n < BUF_LEN THEN in + n ELSE in + n - BUF_LEN
    BY <2>1, WrapIs
  <2> QED
    BY <1>1, <1>3, <1>4, <2>2
<1>6. Used(tx_out, tx_in') = IF tx_in' >= tx_out THEN tx_in' - tx_out ELSE tx_in' - tx_out + BUF_LEN
  BY <1>1, <1>5, UsedIs
<1>7. Used(tx_out, tx_in') = Used(tx_out, tx_in) + n
  BY <1>1, <1>2, <1>4, <1>5, <1>6
<1>8. ASSUME NEW i \in 1 .. Used(tx_out, tx_in) + n
      PROVE  tx_buf[Slot(tx_out, i)] = Len(sent) + i
  <2>1. CASE i <= Used(tx_out, tx_in)
    BY <1>2, <1>4, <2>1
  <2>2. CASE i > Used(tx_out, tx_in)
    <3> DEFINE j == i - Used(tx_out, tx_in)
    <3>1. j \in 1 .. n /\ written + j = Len(sent) + i
      BY <1>1, <1>2, <1>4, <2>2
    <3>2. Slot(tx_out, i) = in + j - 1
      BY <1>1, <1>2, <1>4, <2>2 DEF Slot
    <3>3. tx_buf[in + j - 1] = written + j
      BY <1>4, <3>1
    <3> QED
      BY <3>1, <3>2, <3>3
  <2>3. i <= Used(tx_out, tx_in) \/ i > Used(tx_out, tx_in)
    BY <1>1, <1>2
  <2> QED
    BY <2>1, <2>2, <2>3
<1>9. written' = Len(sent') + Used(tx_out', tx_in')
  BY <1>1, <1>2, <1>3, <1>4, <1>7
<1>10. TxInv'
  BY <1>3, <1>4, <1>7, <1>8, <1>9 DEF TxInv
<1> QED
  BY <1>1, <1>3, <1>7, <1>10 DEF TxMoves, Moves

LEMMA TxSend ==
  ASSUME UartAssumption, UartInv, IsrWrite
  PROVE  TxInv' /\ TxMoves
<1>1. /\ tx_in \in 0 .. BUF_LEN - 1 /\ tx_out \in 0 .. BUF_LEN - 1 /\ BUF_LEN \in Nat \ {0, 1}
      /\ count \in Nat /\ n \in Nat /\ written \in Nat /\ Len(sent) \in Nat
  BY Parts
<1>2. /\ Used(tx_out, tx_in) = IF tx_in >= tx_out THEN tx_in - tx_out ELSE tx_in - tx_out + BUF_LEN
      /\ Used(tx_out, tx_in) \in 0 .. BUF_LEN - 1
  BY <1>1, UsedIs
<1>3. UNCHANGED <<pc, in, n, count, tx_in, tx_buf, written>>
  BY DEF IsrWrite, callVars, argVars, localVars
<1>4. CASE UNCHANGED <<sent, tx_out>>
  BY <1>3, <1>4, TxFrame DEF txVars
<1>5. CASE sent' = Append(sent, tx_buf[tx_out]) /\ tx_out' = Next_(tx_out) /\ tx_out # tx_in
  <2>1. /\ sent = Numbers(0, Len(sent)) /\ written = Len(sent) + Used(tx_out, tx_in)
        /\ \A i \in 1 .. Used(tx_out, tx_in) : tx_buf[Slot(tx_out, i)] = Len(sent) + i
    BY DEF UartInv, TxInv
  <2>2. tx_out' = (IF tx_out + 1 = BUF_LEN THEN 0 ELSE tx_out + 1) /\ tx_out' \in 0 .. BUF_LEN - 1
    <3>1. Next_(tx_out) = (IF tx_out + 1 < BUF_LEN THEN tx_out + 1 ELSE 0) /\ Next_(tx_out) \in 0 .. BUF_LEN - 1
      BY <1>1, NextIs
    <3> QED
      BY <1>1, <1>5, <3>1
  <2>3. Used(tx_out', tx_in) = IF tx_in >= tx_out' THEN tx_in - tx_out' ELSE tx_in - tx_out' + BUF_LEN
    BY <1>1, <2>2, UsedIs
  <2>4. Used(tx_out, tx_in) = Used(tx_out', tx_in) + 1 /\ Used(tx_out', tx_in) \in Nat
    <3>1. CASE tx_in > tx_out
      <4>1. tx_out' = tx_out + 1 /\ tx_in >= tx_out'
        BY <1>1, <2>2, <3>1
      <4> QED
        BY <1>1, <1>2, <2>3, <3>1, <4>1
    <3>2. CASE tx_in < tx_out /\ tx_out + 1 = BUF_LEN
      BY <1>1, <1>2, <2>2, <2>3, <3>2
    <3>3. CASE tx_in < tx_out /\ tx_out + 1 # BUF_LEN
      <4>1. tx_out' = tx_out + 1 /\ ~(tx_in >= tx_out')
        BY <1>1, <2>2, <3>3
      <4> QED
        BY <1>1, <1>2, <2>3, <3>3, <4>1
    <3>4. tx_in > tx_out \/ tx_in < tx_out
      BY <1>1, <1>5
    <3> QED
      BY <3>1, <3>2, <3>3, <3>4
  <2>5. tx_buf[tx_out] = Len(sent) + 1
    <3>1. 1 \in 1 .. Used(tx_out, tx_in) /\ Slot(tx_out, 1) = tx_out
      BY <1>1, <2>4 DEF Slot
    <3> QED
      BY <2>1, <3>1
  <2>6. sent' = Numbers(0, Len(sent) + 1) /\ Len(sent') = Len(sent) + 1
    <3> DEFINE k == Len(sent)
    <3>1. sent \in Seq(Nat)
      BY DEF UartInv, UartTypeOK
    <3>2. /\ sent' \in Seq(Nat) /\ Len(sent') = k + 1
          /\ (\A i \in 1 .. k : sent'[i] = sent[i]) /\ sent'[k + 1] = k + 1
      BY <1>1, <1>5, <2>5, <3>1, AppendProperties
    <3>3. \A i \in 1 .. k : sent[i] = i
      BY <1>1, <2>1 DEF Numbers
    <3> HIDE DEF k
    <3>4. k \in Nat
      BY <1>1 DEF k
    <3>5. /\ Numbers(0, k + 1) \in Seq(Nat) /\ Len(Numbers(0, k + 1)) = k + 1
          /\ \A i \in 1 .. k + 1 : Numbers(0, k + 1)[i] = 0 + i
      <4>1. 0 \in Nat /\ k + 1 \in Nat
        BY <3>4
      <4> QED
        BY <4>1, NumbersIsSeq
    <3>6. \A i \in 1 .. k + 1 : sent'[i] = Numbers(0, k + 1)[i]
      BY <3>2, <3>3, <3>4, <3>5
    <3>7. sent' = Numbers(0, k + 1)
      BY <3>2, <3>5, <3>6, SeqEqual
    <3> QED
      BY <3>2, <3>7 DEF k
  <2>7. ASSUME NEW i \in 1 .. Used(tx_out', tx_in)
        PROVE  tx_buf[Slot(tx_out', i)] = Len(sent) + 1 + i
    <3>1. i + 1 \in 1 .. Used(tx_out, tx_in)
      BY <2>4
    <3>2. Slot(tx_out', i) = Slot(tx_out, i + 1)
      BY <1>1, <1>2, <2>2, <2>4 DEF Slot
    <3>3. tx_buf[Slot(tx_out, i + 1)] = Len(sent) + (i + 1)
      BY <2>1, <3>1
    <3> QED
      BY <1>1, <3>2, <3>3
  <2>8. pc \in {"write_copy", "write_advance"} =>
          in = tx_in /\ n <= count /\ in + n <= BUF_LEN /\ Used(tx_out', tx_in) + n <= BUF_LEN - 1
    BY <1>1, <2>4 DEF UartInv, TxInv
  <2>9. written = Len(sent') + Used(tx_out', tx_in)
    BY <1>1, <2>1, <2>4, <2>6
  <2>10. TxInv'
    BY <1>3, <2>6, <2>7, <2>8, <2>9 DEF UartInv, TxInv
  <2>11. TxMoves
    BY <1>3, <2>4, <2>6 DEF TxMoves, Moves
  <2> QED
    BY <2>10, <2>11
<1> QED
  BY <1>4, <1>5 DEF IsrWrite

LEMMA TxStep ==
  ASSUME UartAssumption, UartInv, Next
  PROVE  TxInv' /\ TxMoves
<1>1. CASE WriteLook \/ WriteCopy \/ WriteAdvance \/ IsrWrite
  BY <1>1, TxLook, TxCopy, TxAdvance, TxSend
<1>2. CASE Read \/ Write \/ Close \/ Ioctl
  BY <1>2, TxFrame DEF Read, Write, Close, Ioctl, Call, At, Goto, callVars, argVars, localVars, sharedVars
<1>3. CASE ReadStep
  BY <1>3, TxFrame DEF ReadStep, ReadLook, ReadCopy, ReadAdvance, ReadSpin, ReadCheck, ReadEnd,
    At, Goto, Return, sharedVars
<1>4. CASE WriteKick \/ WriteSpin \/ WriteCheck \/ CloseSpin
  BY <1>4, TxFrame DEF WriteKick, WriteSpin, WriteCheck, CloseSpin, At, Goto, Return, sharedVars
<1>5. CASE IsrControl \/ IsrRead \/ Timeout \/ HostTypes \/ HostTakes \/ HostPolls \/ HostLeaves
  BY <1>5, TxFrame DEF IsrControl, IsrRead, Timeout, HostTypes, HostTakes, HostPolls, HostLeaves,
    callVars, argVars, localVars
<1> QED
  BY <1>1, <1>2, <1>3, <1>4, <1>5 DEF Next, WriteStep, Isr

-----------------------------------------------------------------------------
(* The receive ring *)

RxMoves == Moves(Len(consumed), Used(rx_first, rx_in), Len(consumed'), Used(rx_first', rx_in'))

\* The last place behind those in use; with another character one more is in use.
LEMMA PlaceBehind ==
  ASSUME UartAssumption, NEW first \in 0 .. BUF_LEN - 1, NEW last \in 0 .. BUF_LEN - 1
  PROVE  /\ Slot(first, Used(first, last) + 1) = last
         /\ \A i \in 1 .. Used(first, last) : Slot(first, i) # last
         /\ Next_(last) # first => Used(first, last) < BUF_LEN - 1
         /\ Used(first, last) < BUF_LEN - 1 => Used(first, Next_(last)) = Used(first, last) + 1
<1>1. BUF_LEN \in Nat \ {0, 1}
  BY DEF UartAssumption
<1>2. /\ Used(first, last) = IF last >= first THEN last - first ELSE last - first + BUF_LEN
      /\ Used(first, last) \in 0 .. BUF_LEN - 1
  BY UsedIs
<1>3. Next_(last) = (IF last + 1 < BUF_LEN THEN last + 1 ELSE 0) /\ Next_(last) \in 0 .. BUF_LEN - 1
  BY NextIs
<1> DEFINE next == Next_(last)
<1>4. Used(first, next) = IF next >= first THEN next - first ELSE next - first + BUF_LEN
  BY <1>3, UsedIs
<1>5. Slot(first, Used(first, last) + 1) = last
  BY <1>1, <1>2 DEF Slot
<1>6. \A i \in 1 .. Used(first, last) : Slot(first, i) # last
  BY <1>1, <1>2 DEF Slot
<1>7. next # first => Used(first, last) < BUF_LEN - 1
  BY <1>1, <1>2, <1>3
<1>8. ASSUME Used(first, last) < BUF_LEN - 1
      PROVE  Used(first, next) = Used(first, last) + 1
  <2>1. CASE last >= first
    <3>1. CASE last + 1 < BUF_LEN
      BY <1>1, <1>2, <1>3, <1>4, <2>1, <3>1
    <3>2. CASE last + 1 = BUF_LEN
      <4>1. next = 0 /\ first > 0
        BY <1>1, <1>2, <1>3, <1>8, <2>1, <3>2
      <4> QED
        BY <1>1, <1>2, <1>4, <2>1, <3>2, <4>1
    <3> QED
      BY <1>1, <3>1, <3>2
  <2>2. CASE last < first
    <3>1. next = last + 1 /\ next < first
      BY <1>1, <1>2, <1>3, <1>8, <2>2
    <3> QED
      BY <1>1, <1>2, <1>4, <2>2, <3>1
  <2> QED
    BY <2>1, <2>2
<1> QED
  BY <1>5, <1>6, <1>7, <1>8

\* Places are given back from the first one on.
LEMMA PlacesBack ==
  ASSUME UartAssumption, NEW first \in 0 .. BUF_LEN - 1, NEW last \in 0 .. BUF_LEN - 1,
         NEW m \in Nat, m <= Used(first, last), first + m <= BUF_LEN
  PROVE  LET second == (first + m) % BUF_LEN
         IN /\ second \in 0 .. BUF_LEN - 1
            /\ Used(second, last) = Used(first, last) - m
            /\ \A i \in 1 .. Used(first, last) - m : Slot(second, i) = Slot(first, i + m)
<1>1. BUF_LEN \in Nat \ {0, 1} /\ m \in 0 .. BUF_LEN
  BY DEF UartAssumption
<1>2. /\ Used(first, last) = IF last >= first THEN last - first ELSE last - first + BUF_LEN
      /\ Used(first, last) \in 0 .. BUF_LEN - 1
  BY UsedIs
<1> DEFINE second == (first + m) % BUF_LEN
<1>3. second = (IF first + m < BUF_LEN THEN first + m ELSE 0) /\ second \in 0 .. BUF_LEN - 1
  <2>1. /\ second = IF first + m < BUF_LEN THEN first + m ELSE first + m - BUF_LEN
        /\ second \in 0 .. BUF_LEN - 1
    BY <1>1, WrapIs
  <2> QED
    BY <1>1, <2>1
<1> HIDE DEF second
<1>4. Used(second, last) = IF last >= second THEN last - second ELSE last - second + BUF_LEN
  BY <1>3, UsedIs
<1>5. Used(second, last) = Used(first, last) - m
  <2>1. CASE last >= first
    BY <1>1, <1>2, <1>3, <1>4, <2>1
  <2>2. CASE last < first /\ first + m < BUF_LEN
    BY <1>1, <1>2, <1>3, <1>4, <2>2
  <2>3. CASE last < first /\ first + m = BUF_LEN
    BY <1>1, <1>2, <1>3, <1>4, <2>3
  <2> QED
    BY <1>1, <2>1, <2>2, <2>3
<1>6. \A i \in 1 .. Used(first, last) - m : Slot(second, i) = Slot(first, i + m)
  BY <1>1, <1>2, <1>3 DEF Slot
<1> QED
  BY <1>3, <1>5, <1>6 DEF second

\* The first character that has not been consumed.
LEMMA RxFirst ==
  ASSUME UartAssumption, UartInv
  PROVE  rx_first \in 0 .. BUF_LEN - 1 /\ Used(rx_first, rx_in) \in 0 .. BUF_LEN - 1
<1>1. out + n \in Int /\ rx_out \in 0 .. BUF_LEN - 1 /\ rx_in \in 0 .. BUF_LEN - 1
  <2>1. out \in 0 .. BUF_LEN - 1 /\ n \in Nat
    BY Parts
  <2> QED
    BY <2>1, Parts
<1>2. rx_first \in 0 .. BUF_LEN - 1
  BY <1>1, InRing DEF rx_first
<1> QED
  BY <1>1, <1>2, UsedIs

LEMMA RxFrame ==
  ASSUME UartAssumption, UartInv, UNCHANGED rxVars,
         typed' - rx_level' = typed - rx_level, rx_level' <= typed',
         \/ pc # "read_advance" /\ pc' \notin {"read_copy", "read_advance"}
         \/ UNCHANGED <<pc, out, n, count>>
  PROVE  RxInv' /\ RxMoves
<1>1. UNCHANGED <<rx_in, rx_out, rx_buf, consumed>>
  BY DEF rxVars
<1>2. rx_first' = rx_first
  BY <1>1 DEF rx_first
<1>3. RxInv'
  BY <1>1, <1>2 DEF UartInv, RxInv
<1>4. Used(rx_first, rx_in) = Used(rx_first, rx_in) + 0
  BY RxFirst
<1> QED
  BY <1>1, <1>2, <1>3, <1>4 DEF RxMoves, Moves

LEMMA RxLook ==
  ASSUME UartAssumption, UartInv, ReadLook
  PROVE  RxInv' /\ RxMoves
<1>1. /\ rx_in \in 0 .. BUF_LEN - 1 /\ rx_out \in 0 .. BUF_LEN - 1 /\ BUF_LEN \in Nat /\ count \in Nat
  BY Parts
<1>2. /\ Used(rx_out, rx_in) = IF rx_in >= rx_out THEN rx_in - rx_out ELSE rx_in - rx_out + BUF_LEN
      /\ Used(rx_out, rx_in) \in 0 .. BUF_LEN - 1
  BY <1>1, UsedIs
<1>3. /\ out' = rx_out /\ n' = Smaller(available, count) /\ count' = count /\ pc = "read_look"
      /\ pc' # "read_advance" /\ UNCHANGED <<rx_in, rx_out, rx_buf, consumed, typed, rx_level>>
  BY DEF ReadLook, At, Goto, argVars, sharedVars, rxVars, hostVars
<1>4. available \in Int /\ available <= Used(rx_out, rx_in) /\ rx_out + available <= BUF_LEN
  BY <1>1, <1>2 DEF available
<1>5. n' <= available /\ n' <= count /\ n' \in Int
  BY <1>1, <1>3, <1>4 DEF Smaller
<1>6. n' <= Used(rx_out, rx_in) /\ out' + n' <= BUF_LEN
  BY <1>1, <1>2, <1>3, <1>4, <1>5
<1>7. rx_first = rx_out /\ rx_first' = rx_out
  BY <1>3 DEF rx_first
<1>8. RxInv'
  BY <1>3, <1>5, <1>6, <1>7 DEF UartInv, RxInv
<1>9. Used(rx_first, rx_in) = Used(rx_first, rx_in) + 0
  BY RxFirst
<1> QED
  BY <1>3, <1>7, <1>8, <1>9 DEF RxMoves, Moves

LEMMA RxCopy ==
  ASSUME UartAssumption, UartInv, ReadCopy
  PROVE  RxInv' /\ RxMoves
<1>1. /\ rx_in \in 0 .. BUF_LEN - 1 /\ rx_out \in 0 .. BUF_LEN - 1 /\ BUF_LEN \in Nat
      /\ count \in Nat /\ n \in Nat /\ Len(consumed) \in Nat
  BY Parts
<1>2. Used(rx_out, rx_in) \in 0 .. BUF_LEN - 1
  BY <1>1, UsedIs
<1>3. /\ pc = "read_copy" /\ pc' = "read_advance"
      /\ consumed' = consumed \o [i \in 1 .. n |-> rx_buf[out + i - 1]]
      /\ UNCHANGED <<rx_in, rx_out, rx_buf, typed, rx_level, out, n>>
  BY DEF ReadCopy, At, Goto, localVars, hostVars
<1>4. /\ out = rx_out /\ n <= Used(rx_out, rx_in) /\ out + n <= BUF_LEN /\ rx_first = rx_out
      /\ consumed = Numbers(0, Len(consumed)) /\ rx_level <= typed
      /\ typed - rx_level = Len(consumed) + Used(rx_out, rx_in)
      /\ \A i \in 1 .. Used(rx_out, rx_in) : rx_buf[Slot(rx_out, i)] = Len(consumed) + i
  BY <1>3 DEF UartInv, RxInv, rx_first
<1>5. \A i \in 1 .. n : rx_buf[out + i - 1] = Len(consumed) + i
  <2> TAKE i \in 1 .. n
  <2>1. i \in 1 .. Used(rx_out, rx_in) /\ Slot(rx_out, i) = out + i - 1
    BY <1>1, <1>2, <1>4 DEF Slot
  <2> QED
    BY <1>4, <2>1
<1>6. consumed' = Numbers(0, Len(consumed) + n) /\ Len(consumed') = Len(consumed) + n
  <2> DEFINE k == Len(consumed)
  <2>1. [i \in 1 .. n |-> rx_buf[out + i - 1]] = [i \in 1 .. n |-> 0 + k + i]
    BY <1>1, <1>5
  <2>2. Numbers(0, k) \o [i \in 1 .. n |-> 0 + k + i] = Numbers(0, k + n)
    <3>1. 0 \in Nat /\ k \in Nat /\ n \in Nat
      BY <1>1
    <3> HIDE DEF k
    <3> QED
      BY <3>1, NumbersPut
  <2>3. consumed' = Numbers(0, k + n)
    BY <1>3, <1>4, <2>1, <2>2
  <2>4. Len(Numbers(0, k + n)) = k + n
    <3>1. 0 \in Nat /\ k + n \in Nat
      BY <1>1
    <3> QED
      BY <3>1, NumbersIsSeq
  <2> QED
    BY <2>3, <2>4
<1>7. rx_first' = (rx_out + n) % BUF_LEN
  BY <1>3, <1>4 DEF rx_first
<1>8. /\ Used(rx_first', rx_in) = Used(rx_out, rx_in) - n
      /\ \A i \in 1 .. Used(rx_out, rx_in) - n : Slot(rx_first', i) = Slot(rx_out, i + n)
  BY <1>1, <1>4, <1>7, PlacesBack
<1>9. \A i \in 1 .. Used(rx_first', rx_in) : rx_buf[Slot(rx_first', i)] = Len(consumed) + n + i
  <2> TAKE i \in 1 .. Used(rx_first', rx_in)
  <2>1. i + n \in 1 .. Used(rx_out, rx_in) /\ Slot(rx_first', i) = Slot(rx_out, i + n)
    BY <1>1, <1>2, <1>8
  <2>2. rx_buf[Slot(rx_out, i + n)] = Len(consumed) + (i + n)
    BY <1>4, <2>1
  <2> QED
    BY <1>1, <1>2, <1>8, <2>1, <2>2
<1>10. typed' - rx_level' = Len(consumed') + Used(rx_first', rx_in')
  BY <1>1, <1>2, <1>3, <1>4, <1>6, <1>8
<1>11. Used(rx_out', rx_in') = n' + Used(rx_first', rx_in')
  BY <1>1, <1>2, <1>3, <1>8
<1>12. RxInv'
  BY <1>3, <1>4, <1>6, <1>9, <1>10, <1>11 DEF RxInv
<1>13. RxMoves
  BY <1>1, <1>2, <1>3, <1>4, <1>6, <1>8 DEF RxMoves, Moves
<1> QED
  BY <1>12, <1>13

LEMMA RxAdvance ==
  ASSUME UartAssumption, UartInv, ReadAdvance
  PROVE  RxInv' /\ RxMoves
<1>1. /\ pc = "read_advance" /\ pc' \in {"read_look", "read_end"} /\ rx_out' = (out + n) % BUF_LEN
      /\ UNCHANGED <<rx_in, rx_buf, consumed, typed, rx_level>>
  BY DEF ReadAdvance, At, Goto, hostVars
<1>2. rx_first = (out + n) % BUF_LEN /\ rx_first' = rx_first
  BY <1>1 DEF rx_first
<1>3. RxInv'
  BY <1>1, <1>2 DEF UartInv, RxInv
<1>4. Used(rx_first, rx_in) = Used(rx_first, rx_in) + 0
  BY RxFirst
<1> QED
  BY <1>1, <1>2, <1>3, <1>4 DEF RxMoves, Moves

LEMMA RxReceive ==
  ASSUME UartAssumption, UartInv, IsrRead
  PROVE  RxInv' /\ RxMoves
<1>1. /\ rx_in \in 0 .. BUF_LEN - 1 /\ rx_out \in 0 .. BUF_LEN - 1 /\ BUF_LEN \in Nat \ {0, 1}
      /\ n \in Nat /\ Len(consumed) \in Nat /\ typed \in Nat
      /\ rx_level \in 0 .. FIFO_DEPTH /\ FIFO_DEPTH \in Nat
  BY Parts
<1>2. UNCHANGED <<pc, out, n, count, rx_out, consumed, typed>> /\ rx_first' = rx_first
  BY DEF IsrRead, callVars, argVars, localVars, rx_first
<1>3. CASE UNCHANGED <<rx_buf, rx_in, rx_level>>
  <2>1. UNCHANGED rxVars /\ typed' - rx_level' = typed - rx_level /\ rx_level' <= typed'
    BY <1>2, <1>3 DEF rxVars, UartInv, RxInv
  <2> QED
    BY <1>2, <2>1, RxFrame
<1>4. CASE ~RxFull /\ rx_level > 0 /\ rx_in' = Next_(rx_in) /\ rx_level' = rx_level - 1
           /\ rx_buf' = [rx_buf EXCEPT ![rx_in] = typed - rx_level + 1]
  <2> DEFINE u == Used(rx_first, rx_in)
  <2> DEFINE k == Len(consumed)
  <2>1. /\ rx_level <= typed /\ consumed = Numbers(0, k) /\ typed - rx_level = k + u
        /\ \A i \in 1 .. u : rx_buf[Slot(rx_first, i)] = k + i
        /\ pc = "read_copy" => out = rx_out /\ n <= count /\ n <= Used(rx_out, rx_in) /\ out + n <= BUF_LEN
        /\ pc = "read_advance" => out = rx_out /\ Used(rx_out, rx_in) = n + u
    BY DEF UartInv, RxInv
  <2>2. rx_first \in 0 .. BUF_LEN - 1 /\ u \in 0 .. BUF_LEN - 1
    BY RxFirst
  <2>3. /\ Used(rx_out, rx_in) \in 0 .. BUF_LEN - 1
        /\ Used(rx_out, rx_in) < BUF_LEN - 1 /\ Used(rx_out, rx_in') = Used(rx_out, rx_in) + 1
    BY <1>1, <1>4, PlaceBehind, UsedIs DEF RxFull
  <2>4. u < BUF_LEN - 1
    <3>1. CASE pc = "read_advance"
      BY <1>1, <2>1, <2>2, <2>3, <3>1
    <3>2. CASE pc # "read_advance"
      BY <2>3, <3>2 DEF rx_first
    <3> QED
      BY <3>1, <3>2
  <2>5. /\ Used(rx_first, rx_in') = u + 1 /\ Slot(rx_first, u + 1) = rx_in
        /\ \A i \in 1 .. u : Slot(rx_first, i) # rx_in
    BY <1>1, <1>4, <2>2, <2>4, PlaceBehind
  <2>6. rx_buf \in [0 .. BUF_LEN - 1 -> Nat]
    BY DEF UartInv, UartTypeOK
  <2> HIDE DEF u, k
  <2>7. k \in Nat
    BY <1>1 DEF k
  <2>8. ASSUME NEW i \in 1 .. u + 1
        PROVE  rx_buf'[Slot(rx_first, i)] = k + i
    <3>1. CASE i = u + 1
      BY <1>1, <1>4, <2>1, <2>2, <2>5, <2>6, <2>7, <3>1
    <3>2. CASE i \in 1 .. u
      <4>1. i \in 1 .. BUF_LEN
        BY <1>1, <2>2, <3>2
      <4>2. Slot(rx_first, i) \in 0 .. BUF_LEN - 1
        BY <2>2, <4>1, SlotIs
      <4> QED
        BY <1>4, <2>1, <2>5, <2>6, <3>2, <4>2
    <3> QED
      BY <2>2, <3>1, <3>2
  <2>9. rx_level' <= typed' /\ typed' - rx_level' = k + (u + 1)
    BY <1>1, <1>2, <1>4, <2>1, <2>2, <2>7
  <2>10. /\ pc' = "read_copy" => out' = rx_out' /\ n' <= count' /\ n' <= Used(rx_out', rx_in') /\ out' + n' <= BUF_LEN
         /\ pc' = "read_advance" => out' = rx_out' /\ Used(rx_out', rx_in') = n' + (u + 1)
    BY <1>1, <1>2, <2>1, <2>2, <2>3
  <2>11. RxInv'
    BY <1>2, <2>1, <2>5, <2>8, <2>9, <2>10 DEF RxInv, k
  <2>12. RxMoves
    BY <1>2, <2>5 DEF RxMoves, Moves, u
  <2> QED
    BY <2>11, <2>12
<1> QED
  BY <1>3, <1>4 DEF IsrRead

LEMMA RxStep ==
  ASSUME UartAssumption, UartInv, Next
  PROVE  RxInv' /\ RxMoves
<1> DEFINE Quiet ==
      UNCHANGED rxVars /\ typed' - rx_level' = typed - rx_level /\ rx_level' <= typed'
<1>1. CASE ReadLook \/ ReadCopy \/ ReadAdvance \/ IsrRead
  BY <1>1, RxLook, RxCopy, RxAdvance, RxReceive
<1>2. CASE Read \/ Write \/ Close \/ Ioctl
  <2>1. UNCHANGED <<rxVars, hostVars>>
    BY <1>2 DEF Read, Write, Close, Ioctl, Call, sharedVars
  <2>2. Quiet
    BY <2>1 DEF hostVars, UartInv, RxInv
  <2> QED
    BY <1>2, <2>2, RxFrame DEF Read, Write, Close, Ioctl, Call, At, Goto, callVars, argVars, localVars
<1>3. CASE ReadSpin \/ ReadCheck \/ ReadEnd \/ WriteStep \/ CloseSpin
  <2>1. UNCHANGED <<rxVars, hostVars>>
    BY <1>3 DEF ReadSpin, ReadCheck, ReadEnd, sharedVars, WriteStep, WriteLook, WriteCopy, WriteAdvance,
      WriteKick, WriteSpin, WriteCheck, CloseSpin
  <2>2. Quiet
    BY <2>1 DEF hostVars, UartInv, RxInv
  <2>3. pc # "read_advance" /\ pc' \notin {"read_copy", "read_advance"}
    BY <1>3 DEF ReadSpin, ReadCheck, ReadEnd, WriteStep, WriteLook, WriteCopy, WriteAdvance,
      WriteKick, WriteSpin, WriteCheck, CloseSpin, At, Goto, Return
  <2> QED
    BY <2>2, <2>3, RxFrame
<1>4. CASE IsrControl \/ IsrWrite \/ Timeout \/ HostTypes \/ HostTakes \/ HostPolls \/ HostLeaves
  <2>1. UNCHANGED <<rxVars, pc, out, n, count>>
    BY <1>4 DEF IsrControl, IsrWrite, Timeout, HostTypes, HostTakes, HostPolls, HostLeaves,
      callVars, argVars, localVars
  <2>2. rx_level \in Int /\ typed \in Int /\ rx_level <= typed
    BY Parts DEF UartInv, RxInv
  <2>3. UNCHANGED <<rx_level, typed>> \/ (typed' = typed + 1 /\ rx_level' = rx_level + 1)
    BY <1>4 DEF IsrControl, IsrWrite, Timeout, HostTypes, HostTakes, HostPolls, HostLeaves, hostVars
  <2>4. Quiet
    BY <2>1, <2>2, <2>3
  <2> QED
    BY <2>1, <2>4, RxFrame
<1> QED
  BY <1>1, <1>2, <1>3, <1>4 DEF Next, ReadStep, Isr

-----------------------------------------------------------------------------
(* The theorems *)

LEMMA UartInit == ASSUME UartAssumption, Init PROVE UartInv
<1>1. Used(0, 0) = 0 /\ Used(rx_first, rx_in) = 0 /\ BUF_LEN \in Nat \ {0, 1}
  <2>1. 0 \in 0 .. BUF_LEN - 1 /\ BUF_LEN \in Nat \ {0, 1}
    BY DEF UartAssumption
  <2>2. Used(0, 0) = 0
    BY <2>1, UsedIs
  <2>3. rx_first = 0 /\ rx_in = 0
    BY DEF rx_first, Init
  <2> QED
    BY <2>1, <2>2, <2>3
<1>2. <<>> = Numbers(0, 0)
  <2>1. Numbers(0, 0) \in Seq(Nat) /\ Len(Numbers(0, 0)) = 0
    BY NumbersIsSeq
  <2> QED
    BY <2>1, EmptySeq
<1>3. setup \in Setups /\ (setup.alarm \in BOOLEAN)
  BY DEF Init, UartAssumption
<1>4. UartTypeOK
  <2>1. BuffersOK /\ SeqsOK
    BY <1>1 DEF Init, BuffersOK, SeqsOK
  <2>2. ControlOK /\ NumbersOK
    <3>1. ControlOK
      <4>1. {nonblock, wi, avail, ac, connected} \subseteq BOOLEAN
        BY DEF Init
      <4> QED
        BY <4>1 DEF Init, ControlOK
    <3>2. NumbersOK
      BY DEF Init, NumbersOK
    <3> QED
      BY <3>1, <3>2
  <2>3. IndicesOK /\ {rx_level, tx_level, space} \subseteq 0 .. FIFO_DEPTH
    BY <1>1 DEF Init, IndicesOK, UartAssumption
  <2>4. ClockOK
    BY <1>3 DEF Init, ClockOK, HasAlarm, UartAssumption
  <2> QED
    BY <2>1, <2>2, <2>3, <2>4 DEF UartTypeOK, BuffersOK, SeqsOK, ControlOK, NumbersOK, IndicesOK, ClockOK
<1>5. SpaceInv
  BY DEF Init, SpaceInv
<1>6. TxInv
  BY <1>1, <1>2 DEF Init, TxInv
<1>7. RxInv
  BY <1>1, <1>2 DEF Init, RxInv
<1> QED
  BY <1>3, <1>4, <1>5, <1>6, <1>7 DEF UartInv

LEMMA UartStep ==
  ASSUME UartAssumption, UartInv, Next
  PROVE  UartInv' /\ TxMoves /\ RxMoves
<1>1. ControlOK' /\ setup' \in Setups /\ IndicesOK' /\ NumbersOK' /\ BuffersOK' /\ LevelsOK' /\ ClockOK'
  BY ControlStep, IndicesStep, NumbersStep, BuffersStep, LevelsStep, ClockStep
<1>2. TxInv' /\ TxMoves /\ RxInv' /\ RxMoves
  BY TxStep, RxStep
<1>3. SeqsOK'
  <2>1. Len(sent) \in Nat /\ Len(consumed) \in Nat
    BY Parts
  <2>2. Len(sent') \in Nat /\ Len(consumed') \in Nat
    BY <1>2, <2>1 DEF TxMoves, RxMoves, Moves
  <2>3. sent' = Numbers(0, Len(sent')) /\ consumed' = Numbers(0, Len(consumed'))
    BY <1>2 DEF TxInv, RxInv
  <2>4. \A k \in Nat : Numbers(0, k) \in Seq(Nat)
    BY NumbersIsSeq
  <2> QED
    BY <2>2, <2>3, <2>4 DEF SeqsOK
<1>4. UartTypeOK' /\ SpaceInv'
  BY <1>1, <1>3 DEF UartTypeOK, BuffersOK, SeqsOK, ControlOK, NumbersOK, IndicesOK, LevelsOK, ClockOK
<1> QED
  BY <1>1, <1>2, <1>4 DEF UartInv

LEMMA UartStutter ==
  ASSUME UartInv, UNCHANGED vars PROVE UartInv'
BY ZenonT(60) DEF UartInv, UartTypeOK, SpaceInv, TxInv, RxInv, rx_first, vars, callVars, argVars, localVars,
  sharedVars, rxVars, txVars, hostVars, timeVars, isrVars

LEMMA UartInvariant == Spec => []UartInv
<1>1. Init => UartInv
  BY UartInit, UartAssumption
<1>2. UartInv /\ [Next]_vars => UartInv'
  BY UartStep, UartStutter, UartAssumption
<1> QED
  BY <1>1, <1>2, PTL DEF Spec

\* Indices stay in the rings, levels in the FIFOs, and the seconds that are counted below the
\* largest integer (altera_avalon_jtag_uart_init.c:109-225).
THEOREM UartTypeCorrect == Spec => []UartTypeOK
<1>1. UartInv => UartTypeOK
  BY DEF UartInv
<1> QED
  BY <1>1, UartInvariant, PTL

\* Put and Take of the abstract specification, before and after being parameters.
PutOf(most, put, queue, taken, put_, queue_, taken_) ==
  /\ \E m \in 1 .. most - Len(queue) : put_ = put + m /\ queue_ = queue \o [i \in 1 .. m |-> put + i]
  /\ taken_ = taken

TakeOf(put, queue, taken, put_, queue_, taken_) ==
  /\ \E m \in 1 .. Len(queue) :
       taken_ = taken \o SubSeq(queue, 1, m) /\ queue_ = SubSeq(queue, m + 1, Len(queue))
  /\ put_ = put

\* What moves the numbers moves a queue that holds them.
LEMMA QueueMoves ==
  ASSUME NEW k \in Nat, NEW u \in Nat, NEW k_ \in Nat, NEW u_ \in Nat, NEW most \in Nat,
         u_ <= most, Moves(k, u, k_, u_),
         NEW put, NEW queue, NEW taken, NEW put_, NEW queue_, NEW taken_,
         put = k + u, queue = Numbers(k, u), taken = Numbers(0, k),
         put_ = k_ + u_, queue_ = Numbers(k_, u_), taken_ = Numbers(0, k_)
  PROVE  \/ put_ = put /\ queue_ = queue /\ taken_ = taken
         \/ PutOf(most, put, queue, taken, put_, queue_, taken_)
         \/ TakeOf(put, queue, taken, put_, queue_, taken_)
<1>1. PICK m \in Nat : (k_ = k /\ u_ = u + m) \/ (k_ = k + m /\ u = u_ + m)
  BY DEF Moves
<1>2. Len(queue) = u
  BY NumbersIsSeq
<1>3. CASE m = 0
  BY <1>1, <1>3
<1>4. CASE m # 0 /\ k_ = k /\ u_ = u + m
  <2>1. m \in 1 .. most - Len(queue) /\ put_ = put + m /\ taken_ = taken
    BY <1>2, <1>4
  <2>2. queue_ = queue \o [i \in 1 .. m |-> put + i]
    <3>1. Numbers(k, u) \o [i \in 1 .. m |-> k + u + i] = Numbers(k, u + m)
      BY NumbersPut
    <3>2. [i \in 1 .. m |-> k + u + i] = [i \in 1 .. m |-> put + i]
      OBVIOUS
    <3>3. queue_ = Numbers(k, u + m)
      BY <1>4
    <3> QED
      BY <3>1, <3>2, <3>3
  <2> QED
    BY <2>1, <2>2, Zenon DEF PutOf
<1>5. CASE m # 0 /\ k_ = k + m /\ u = u_ + m
  <2>1. m \in 1 .. Len(queue) /\ put_ = put /\ u_ = u - m /\ m \in 0 .. u
    BY <1>2, <1>5
  <2>2. taken_ = taken \o SubSeq(queue, 1, m) /\ queue_ = SubSeq(queue, m + 1, Len(queue))
    <3>1. /\ Numbers(0, k) \o SubSeq(Numbers(k, u), 1, m) = Numbers(0, k + m)
          /\ SubSeq(Numbers(k, u), m + 1, u) = Numbers(k + m, u - m)
      BY <2>1, NumbersTake, ZenonT(60)
    <3>2. k_ = k + m /\ u_ = u - m
      BY <1>5, <2>1
    <3> QED
      BY <1>2, <3>1, <3>2
  <2> QED
    BY <2>1, <2>2, Zenon DEF TakeOf
<1> QED
  BY <1>1, <1>3, <1>4, <1>5

-----------------------------------------------------------------------------
(* Refinement *)

\* What lies in the rings is what the abstract specification sees.
tx_queue == [i \in 1 .. Used(tx_out, tx_in) |-> tx_buf[(tx_out + i - 1) % BUF_LEN]]
rx_queue == [i \in 1 .. Used(rx_first, rx_in) |-> rx_buf[(rx_first + i - 1) % BUF_LEN]]
TxSeen ==
  tx_queue = Numbers(Len(sent), Used(tx_out, tx_in)) /\ Used(tx_out, tx_in) \in 0 .. BUF_LEN - 1
RxSeen ==
  rx_queue = Numbers(Len(consumed), Used(rx_first, rx_in)) /\ Used(rx_first, rx_in) \in 0 .. BUF_LEN - 1

LEMMA TxQueue ==
  ASSUME UartAssumption, UartInv
  PROVE  TxSeen
<1>1. tx_out \in 0 .. BUF_LEN - 1 /\ tx_in \in 0 .. BUF_LEN - 1 /\ BUF_LEN \in Nat
  BY Parts
<1>2. Used(tx_out, tx_in) \in 0 .. BUF_LEN - 1
  BY <1>1, UsedIs
<1>3. ASSUME NEW i \in 1 .. Used(tx_out, tx_in)
      PROVE  tx_buf[(tx_out + i - 1) % BUF_LEN] = Len(sent) + i
  <2>1. i \in 1 .. BUF_LEN
    BY <1>1, <1>2
  <2>2. (tx_out + i - 1) % BUF_LEN = Slot(tx_out, i)
    BY <1>1, <2>1, SlotIs
  <2>3. tx_buf[Slot(tx_out, i)] = Len(sent) + i
    BY DEF UartInv, TxInv
  <2> QED
    BY <2>2, <2>3
<1> QED
  BY <1>2, <1>3, Zenon DEF Numbers, TxSeen, tx_queue

LEMMA RxQueue ==
  ASSUME UartAssumption, UartInv
  PROVE  RxSeen
<1>1. rx_first \in 0 .. BUF_LEN - 1 /\ BUF_LEN \in Nat /\ Used(rx_first, rx_in) \in 0 .. BUF_LEN - 1
  BY Parts, RxFirst
<1>2. ASSUME NEW i \in 1 .. Used(rx_first, rx_in)
      PROVE  rx_buf[(rx_first + i - 1) % BUF_LEN] = Len(consumed) + i
  <2>1. i \in 1 .. BUF_LEN
    BY <1>1
  <2>2. (rx_first + i - 1) % BUF_LEN = Slot(rx_first, i)
    BY <1>1, <2>1, SlotIs
  <2>3. rx_buf[Slot(rx_first, i)] = Len(consumed) + i
    BY DEF UartInv, RxInv
  <2> QED
    BY <2>2, <2>3
<1> QED
  BY <1>1, <1>2, Zenon DEF Numbers, RxSeen, rx_queue

\* The transmit ring implements a bounded queue: what the program writes goes to the device once
\* and in order (altera_avalon_jtag_uart_write.c, altera_avalon_jtag_uart_init.c:169-195).
THEOREM TransmitRingIsFifo == Spec => TransmitsInOrder
<1>1. UartInv => TxSeen
  BY TxQueue, UartAssumption
<1>2. ASSUME Init PROVE Tx!FifoInit
  <2>1. UartInv
    BY <1>2, UartInit, UartAssumption
  <2>2. sent = <<>> /\ written = 0 /\ Len(sent) = 0
    BY <1>2 DEF Init
  <2>3. Used(tx_out, tx_in) = 0
    <3>1. Used(tx_out, tx_in) \in 0 .. BUF_LEN - 1 /\ written = Len(sent) + Used(tx_out, tx_in)
      BY <1>1, <2>1 DEF TxSeen, UartInv, TxInv
    <3> QED
      BY <2>2, <3>1
  <2>4. tx_queue = <<>>
    BY <1>1, <2>1, <2>2, <2>3 DEF TxSeen, UartInv, TxInv
  <2> QED
    BY <2>2, <2>4 DEF Tx!FifoInit, tx_queue
<1>3. ASSUME UartInv, UartInv', TxSeen, TxSeen', [Next]_vars
      PROVE  [Tx!Put \/ Tx!Take]_(Tx!fifoVars)
  <2> DEFINE k == Len(sent)
  <2> DEFINE u == Used(tx_out, tx_in)
  <2> DEFINE k_ == Len(sent')
  <2> DEFINE u_ == Used(tx_out', tx_in')
  <2> DEFINE most == BUF_LEN - 1
  <2>1. /\ written = k + u /\ sent = Numbers(0, k) /\ tx_queue = Numbers(k, u)
        /\ written' = k_ + u_ /\ sent' = Numbers(0, k_) /\ tx_queue' = Numbers(k_, u_)
    BY <1>3 DEF UartInv, TxInv, TxSeen
  <2>2. k \in Nat /\ u \in Nat /\ k_ \in Nat /\ u_ \in Nat /\ most \in Nat /\ u_ <= most
    <3>1. sent \in Seq(Nat) /\ sent' \in Seq(Nat)
      BY <1>3 DEF UartInv, UartTypeOK
    <3>2. BUF_LEN \in Nat \ {0} /\ BUF_LEN' = BUF_LEN
      BY UartAssumption DEF UartAssumption, BUF_LEN
    <3>3. u \in 0 .. BUF_LEN - 1 /\ u_ \in 0 .. BUF_LEN - 1
      BY <1>3 DEF TxSeen
    <3>4. k \in Nat /\ k_ \in Nat
      BY <3>1, LenProperties
    <3> QED
      BY <3>2, <3>3, <3>4
  <2>3. Moves(k, u, k_, u_)
    <3>1. CASE Next
      BY <1>3, <3>1, UartStep, UartAssumption DEF TxMoves
    <3>2. CASE UNCHANGED vars
      <4>1. k_ = k /\ u_ = u + 0
        BY <2>2, <3>2 DEF vars, callVars, argVars, localVars, sharedVars, txVars, rxVars, rx_first
      <4> QED
        BY <4>1 DEF Moves
    <3> QED
      BY <1>3, <3>1, <3>2
  <2> HIDE DEF k, u, k_, u_, most
  <2>4. \/ written' = written /\ tx_queue' = tx_queue /\ sent' = sent
        \/ PutOf(most, written, tx_queue, sent, written', tx_queue', sent')
        \/ TakeOf(written, tx_queue, sent, written', tx_queue', sent')
    BY <2>1, <2>2, <2>3, QueueMoves
  <2> QED
    BY <2>4 DEF most, PutOf, TakeOf, tx_queue, Tx!Put, Tx!Take, Tx!fifoVars
<1> QED
  BY <1>1, <1>2, <1>3, UartInvariant, PTL DEF Spec, TransmitsInOrder, Tx!FifoSpec

\* So does the receive ring: what the host types is read once and in order
\* (altera_avalon_jtag_uart_read.c, altera_avalon_jtag_uart_init.c:131-167).
THEOREM ReceiveRingIsFifo == Spec => ReceivesInOrder
<1>1. UartInv => RxSeen
  BY RxQueue, UartAssumption
<1>2. ASSUME Init PROVE Rx!FifoInit
  <2>1. UartInv
    BY <1>2, UartInit, UartAssumption
  <2>2. consumed = <<>> /\ typed - rx_level = 0 /\ Len(consumed) = 0
    BY <1>2 DEF Init
  <2>3. Used(rx_first, rx_in) = 0
    <3>1. Used(rx_first, rx_in) \in 0 .. BUF_LEN - 1 /\ typed - rx_level = Len(consumed) + Used(rx_first, rx_in)
      BY <1>1, <2>1 DEF RxSeen, UartInv, RxInv
    <3> QED
      BY <2>2, <3>1
  <2>4. rx_queue = <<>>
    BY <1>1, <2>1, <2>2, <2>3 DEF RxSeen, UartInv, RxInv
  <2> QED
    BY <2>2, <2>4 DEF Rx!FifoInit, rx_queue
<1>3. ASSUME UartInv, UartInv', RxSeen, RxSeen', [Next]_vars
      PROVE  [Rx!Put \/ Rx!Take]_(Rx!fifoVars)
  <2> DEFINE k == Len(consumed)
  <2> DEFINE u == Used(rx_first, rx_in)
  <2> DEFINE k_ == Len(consumed')
  <2> DEFINE u_ == Used(rx_first', rx_in')
  <2> DEFINE most == BUF_LEN - 1
  <2>1. /\ typed - rx_level = k + u /\ consumed = Numbers(0, k) /\ rx_queue = Numbers(k, u)
        /\ (typed - rx_level)' = k_ + u_ /\ consumed' = Numbers(0, k_) /\ rx_queue' = Numbers(k_, u_)
    BY <1>3 DEF UartInv, RxInv, RxSeen
  <2>2. k \in Nat /\ u \in Nat /\ k_ \in Nat /\ u_ \in Nat /\ most \in Nat /\ u_ <= most
    <3>1. consumed \in Seq(Nat) /\ consumed' \in Seq(Nat)
      BY <1>3 DEF UartInv, UartTypeOK
    <3>2. BUF_LEN \in Nat \ {0} /\ BUF_LEN' = BUF_LEN
      BY UartAssumption DEF UartAssumption, BUF_LEN
    <3>3. u \in 0 .. BUF_LEN - 1 /\ u_ \in 0 .. BUF_LEN - 1
      BY <1>3 DEF RxSeen
    <3>4. k \in Nat /\ k_ \in Nat
      BY <3>1, LenProperties
    <3> QED
      BY <3>2, <3>3, <3>4
  <2>3. Moves(k, u, k_, u_)
    <3>1. CASE Next
      BY <1>3, <3>1, UartStep, UartAssumption DEF RxMoves
    <3>2. CASE UNCHANGED vars
      <4>1. k_ = k /\ u_ = u + 0
        BY <2>2, <3>2 DEF vars, callVars, argVars, localVars, sharedVars, txVars, rxVars, rx_first
      <4> QED
        BY <4>1 DEF Moves
    <3> QED
      BY <1>3, <3>1, <3>2
  <2> HIDE DEF k, u, k_, u_, most
  <2>4. \/ (typed - rx_level)' = typed - rx_level /\ rx_queue' = rx_queue /\ consumed' = consumed
        \/ PutOf(most, typed - rx_level, rx_queue, consumed, (typed - rx_level)', rx_queue', consumed')
        \/ TakeOf(typed - rx_level, rx_queue, consumed, (typed - rx_level)', rx_queue', consumed')
    BY <2>1, <2>2, <2>3, QueueMoves
  <2> QED
    BY <2>4 DEF most, PutOf, TakeOf, rx_queue, Rx!Put, Rx!Take, Rx!fifoVars
<1> QED
  BY <1>1, <1>2, <1>3, UartInvariant, PTL DEF Spec, ReceivesInOrder, Rx!FifoSpec

\* close says that all went well only if nothing is left in the ring, or the host is given up
\* (altera_avalon_jtag_uart_init.c:241-254).
THEOREM CloseWaitsForTheRing == Spec => CloseDrains
<1>1. ASSUME UartInv, [Next]_vars
      PROVE  [pc = "close_spin" /\ pc' = "idle" /\ result' = 0 => Len(sent) = written \/ Inactive]_vars
  <2> SUFFICES ASSUME Next, pc = "close_spin", pc' = "idle", result' = 0, ~Inactive
               PROVE  Len(sent) = written
    BY <1>1
  <2>1. CloseSpin
    BY DEF Next, Read, Write, Call, Close, Ioctl, ReadStep, WriteStep, Isr, At, Goto, Return, callVars,
           ReadLook, ReadCopy, ReadAdvance, ReadSpin, ReadCheck, ReadEnd,
           WriteLook, WriteCopy, WriteAdvance, WriteKick, WriteSpin, WriteCheck,
           IsrControl, IsrRead, IsrWrite, Timeout, HostTypes, HostTakes, HostPolls, HostLeaves
  <2>2. tx_out = tx_in
    BY <2>1 DEF CloseSpin, Return, EWOULDBLOCK
  <2>3. tx_out \in 0 .. BUF_LEN - 1 /\ Len(sent) \in Nat
    BY <1>1, Parts, UartAssumption
  <2>4. Used(tx_out, tx_in) = 0
    BY <2>2, <2>3, UsedIs, UartAssumption
  <2> QED
    BY <1>1, <2>3, <2>4 DEF UartInv, TxInv
<1> QED
  BY <1>1, UartInvariant, PTL DEF Spec, CloseDrains
===============================================================================
