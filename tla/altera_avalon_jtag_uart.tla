------------------------ MODULE altera_avalon_jtag_uart ------------------------
(***************************************************************************)
(* The fast JTAG UART driver, which stdin, stdout and stderr are connected *)
(* to: read, write, close and ioctl, which the program calls; the          *)
(* interrupt routine; the alarm that looks for the host once a second; and *)
(* the device with its two FIFOs and the host behind it.                   *)
(*                                                                         *)
(* The two ring buffers are shared between the program and the interrupt   *)
(* routine without a lock: rx_in and tx_out belong to the routine, rx_out  *)
(* and tx_in to the program.  Characters are the numbers 1, 2, 3 ... in    *)
(* the order the program writes them, and the host types them.             *)
(***************************************************************************)
EXTENDS Integers, Sequences

CONSTANTS ALTERA_AVALON_JTAG_UART_BUF_LEN,
          INT_MAX,                     \* Of the seconds that are counted
          DefaultTimeout,
          FIFO_DEPTH, WRITE_THRESHOLD, \* Of the device
          Setups                       \* Is there a system clock for the alarm; and bounds on the
                                       \* characters: [alarm, written, typed]

BUF_LEN == ALTERA_AVALON_JTAG_UART_BUF_LEN

ASSUME UartAssumption ==
  /\ BUF_LEN \in Nat \ {0, 1} /\ FIFO_DEPTH \in Nat \ {0}
  /\ WRITE_THRESHOLD \in 0 .. FIFO_DEPTH - 1
  /\ INT_MAX \in Nat /\ DefaultTimeout \in 2 .. INT_MAX - 2
  /\ \A s \in Setups : s.alarm \in BOOLEAN /\ s.written \in Nat /\ s.typed \in Nat

\* Results of a call, besides a number of characters.
EIO == -5
EWOULDBLOCK == -11

VARIABLES
  setup,                \* The system the driver runs in
  pc, nonblock,         \* Where the program is; O_NONBLOCK
  count,                \* Characters of the call still to be moved
  moved,                \* Characters of the call that have been moved
  in, out, n,           \* Local variables of read and write
  result,               \* What the last call returned
  rx_in, rx_out, rx_buf,
  tx_in, tx_out, tx_buf,
  irq_enable,           \* RE and WE, the same as in the device
  host_inactive, timeout,
  isr, wi, space, avail,\* The interrupt routine and what it has read of the device
  rx_level,             \* Characters in the receive FIFO, the last ones typed
  tx_level,             \* and in the transmit FIFO, the last ones sent
  ac, connected,        \* The host has been seen; the host is there
  typed, written,       \* Characters so far: typed by the host, accepted from the program,
  sent, consumed        \* handed to the device, and returned by read

argVars == <<setup, nonblock, count, moved>>
localVars == <<in, out, n>>
callVars == <<pc, argVars, localVars, result>>
rxVars == <<rx_in, rx_out, rx_buf, consumed>>
txVars == <<tx_in, tx_out, tx_buf, written, sent>>
hostVars == <<rx_level, tx_level, ac, connected, typed>>
timeVars == <<host_inactive, timeout>>
isrVars == <<isr, wi, space, avail>>
sharedVars == <<rxVars, txVars, hostVars, timeVars, isrVars>>
vars == <<callVars, sharedVars, irq_enable>>

HasAlarm == setup.alarm
MaxWritten == setup.written
MaxTyped == setup.typed

Next_(i) == (i + 1) % BUF_LEN

\* The interrupts of the device.
RI == "RE" \in irq_enable /\ rx_level > 0
WI == "WE" \in irq_enable /\ tx_level <= WRITE_THRESHOLD

Init ==
  /\ setup \in Setups
  /\ pc = "idle" /\ nonblock = FALSE /\ count = 0 /\ moved = 0
  /\ in = 0 /\ out = 0 /\ n = 0 /\ result = 0
  /\ rx_in = 0 /\ rx_out = 0 /\ rx_buf = [i \in 0 .. BUF_LEN - 1 |-> 0] /\ consumed = <<>>
  /\ tx_in = 0 /\ tx_out = 0 /\ tx_buf = [i \in 0 .. BUF_LEN - 1 |-> 0] /\ written = 0 /\ sent = <<>>
  /\ irq_enable = {"RE"} /\ host_inactive = 0 /\ timeout = (IF HasAlarm THEN DefaultTimeout ELSE INT_MAX)
  /\ isr = "none" /\ wi = FALSE /\ space = 0 /\ avail = FALSE
  /\ rx_level = 0 /\ tx_level = 0 /\ typed = 0 /\ ac = FALSE /\ connected = TRUE

\* The program runs while no interrupt is serviced.
At(label) == pc = label /\ isr = "none"
Goto(label) == pc' = label
Return(value) == pc' = "idle" /\ result' = value

Smaller(a, b) == IF a < b THEN a ELSE b

Inactive == host_inactive >= timeout

-----------------------------------------------------------------------------
(* altera_avalon_jtag_uart_read *)

Call(label, most) ==
  /\ At("idle") /\ Goto(label)
  /\ count' \in 1 .. most /\ nonblock' \in BOOLEAN /\ moved' = 0
  /\ UNCHANGED <<setup, localVars, result, sharedVars, irq_enable>>

Read == Call("read_look", MaxTyped)

\* Characters in one piece, up to the end of the buffer.
available == IF rx_in >= rx_out THEN rx_in - rx_out ELSE BUF_LEN - rx_out

ReadLook ==
  /\ At("read_look")
  /\ in' = rx_in /\ out' = rx_out /\ n' = Smaller(available, count)
  /\ Goto(IF available > 0 THEN "read_copy"
          ELSE IF moved > 0 \/ nonblock THEN "read_end" ELSE "read_spin")
  /\ UNCHANGED <<argVars, result, sharedVars, irq_enable>>

\* memcpy, which counts as the characters being consumed ...
ReadCopy ==
  /\ At("read_copy") /\ Goto("read_advance")
  /\ consumed' = consumed \o [i \in 1 .. n |-> rx_buf[out + i - 1]]
  /\ moved' = moved + n /\ count' = count - n
  /\ UNCHANGED <<setup, nonblock, localVars, result, rx_in, rx_out, rx_buf, txVars, hostVars, timeVars, isrVars, irq_enable>>

\* ... and then their places are given back.
ReadAdvance ==
  /\ At("read_advance") /\ Goto(IF count > 0 THEN "read_look" ELSE "read_end")
  /\ rx_out' = (out + n) % BUF_LEN
  /\ UNCHANGED <<argVars, localVars, result, rx_in, rx_buf, consumed, txVars, hostVars,
                 timeVars, isrVars, irq_enable>>

\* Nothing there: wait for the routine, or for the host to be given up.
ReadSpin ==
  /\ At("read_spin") /\ Goto("read_check")
  /\ in # rx_in \/ Inactive
  /\ UNCHANGED <<argVars, localVars, result, sharedVars, irq_enable>>

ReadCheck ==
  /\ At("read_check") /\ Goto(IF in = rx_in THEN "read_end" ELSE "read_look")
  /\ UNCHANGED <<argVars, localVars, result, sharedVars, irq_enable>>

\* Mutant: receive interrupts stay off once they are.
ReadEnd_NoEnable ==
  /\ At("read_end")
  /\ Return(IF moved > 0 THEN moved ELSE IF nonblock THEN EWOULDBLOCK ELSE EIO)
  /\ UNCHANGED <<argVars, localVars, sharedVars, irq_enable>>

\* With interrupts disabled: there is room again.
ReadEnd ==
  /\ At("read_end")
  /\ irq_enable' = IF moved > 0 THEN irq_enable \cup {"RE"} ELSE irq_enable
  /\ Return(IF moved > 0 THEN moved ELSE IF nonblock THEN EWOULDBLOCK ELSE EIO)
  /\ UNCHANGED <<argVars, localVars, sharedVars>>

-----------------------------------------------------------------------------
(* altera_avalon_jtag_uart_write *)

Write == written < MaxWritten /\ Call("write_look", MaxWritten - written)

\* Mutant: the slot that tells a full buffer from an empty one is used as well.
room_Full == IF tx_in < tx_out THEN tx_out - tx_in ELSE BUF_LEN - tx_in

\* Room in one piece; one place stays free.
room == IF tx_in < tx_out THEN tx_out - 1 - tx_in
        ELSE IF tx_out > 0 THEN BUF_LEN - tx_in
        ELSE BUF_LEN - 1 - tx_in

WriteLook ==
  /\ At("write_look")
  /\ in' = tx_in /\ out' = tx_out /\ n' = Smaller(room, count)
  /\ Goto(IF room > 0 THEN "write_copy" ELSE "write_kick")
  /\ UNCHANGED <<argVars, result, sharedVars, irq_enable>>

WriteCopy ==
  /\ At("write_copy") /\ Goto("write_advance")
  /\ tx_buf' = [i \in 0 .. BUF_LEN - 1 |-> IF i \in in .. in + n - 1 THEN written + 1 + i - in ELSE tx_buf[i]]
  /\ UNCHANGED <<argVars, localVars, result, rxVars, tx_in, tx_out, written, sent, hostVars,
                 timeVars, isrVars, irq_enable>>

WriteAdvance ==
  /\ At("write_advance") /\ Goto(IF count > n THEN "write_look" ELSE "write_kick")
  /\ tx_in' = (in + n) % BUF_LEN
  /\ written' = written + n /\ moved' = moved + n /\ count' = count - n
  /\ UNCHANGED <<setup, nonblock, localVars, result, rxVars, tx_out, tx_buf, sent, hostVars, timeVars, isrVars, irq_enable>>

WriteResult == IF moved > 0 THEN moved ELSE IF nonblock THEN EWOULDBLOCK ELSE EIO

\* Mutant: the routine is only kicked when everything has found room.
WriteKick_IfDone ==
  /\ At("write_kick")
  /\ irq_enable' = IF count = 0 THEN irq_enable \cup {"WE"} ELSE irq_enable
  /\ IF count > 0 /\ ~nonblock THEN Goto("write_spin") /\ result' = result ELSE Return(WriteResult)
  /\ UNCHANGED <<argVars, localVars, sharedVars>>

\* With interrupts disabled: make the routine transmit.
WriteKick ==
  /\ At("write_kick")
  /\ irq_enable' = irq_enable \cup {"WE"}
  /\ IF count > 0 /\ ~nonblock THEN Goto("write_spin") /\ result' = result ELSE Return(WriteResult)
  /\ UNCHANGED <<argVars, localVars, sharedVars>>

\* Wait for the routine to take something, ...
WriteSpin ==
  /\ At("write_spin") /\ Goto("write_check")
  /\ out # tx_out \/ Inactive
  /\ UNCHANGED <<argVars, localVars, result, sharedVars, irq_enable>>

\* ... and give up all the same if the host was not seen in the last second.
WriteCheck ==
  /\ At("write_check")
  /\ IF host_inactive # 0 THEN Return(WriteResult) ELSE Goto("write_look") /\ result' = result
  /\ UNCHANGED <<argVars, localVars, sharedVars, irq_enable>>

-----------------------------------------------------------------------------
(* altera_avalon_jtag_uart_close and _ioctl *)

Close ==
  /\ At("idle") /\ Goto("close_spin")
  /\ nonblock' \in BOOLEAN
  /\ UNCHANGED <<setup, count, moved, localVars, result, sharedVars, irq_enable>>

CloseSpin ==
  /\ At("close_spin")
  /\ \/ (tx_out = tx_in \/ Inactive) /\ Return(0)
     \/ tx_out # tx_in /\ ~Inactive /\ nonblock /\ Return(EWOULDBLOCK)
  /\ UNCHANGED <<argVars, localVars, sharedVars, irq_enable>>

\* TIOCSTIMEOUT
Ioctl ==
  /\ At("idle") /\ HasAlarm
  /\ timeout' \in 2 .. INT_MAX - 1
  /\ UNCHANGED <<callVars, rxVars, txVars, hostVars, host_inactive, isrVars, irq_enable>>

-----------------------------------------------------------------------------
(* altera_avalon_jtag_uart_irq *)

\* The control register is read on entry and after each round.
IsrControl ==
  /\ isr = "control" \/ (isr = "none" /\ (RI \/ WI))
  /\ isr' = IF RI THEN "read" ELSE IF WI THEN "write" ELSE "none"
  /\ wi' = WI /\ space' = FIFO_DEPTH - tx_level /\ avail' = TRUE
  /\ UNCHANGED <<callVars, rxVars, txVars, hostVars, timeVars, irq_enable>>

\* Mutant: the routine reads on into a full buffer.
RxFull_Never == FALSE

RxFull == Next_(rx_in) = rx_out

\* A character of the receive FIFO, if there is room for it and it is there; receive interrupts
\* are turned off if characters are left for want of room.
IsrRead ==
  /\ isr = "read"
  /\ IF ~RxFull /\ rx_level > 0
     THEN /\ rx_buf' = [rx_buf EXCEPT ![rx_in] = typed - rx_level + 1]
          /\ rx_in' = Next_(rx_in) /\ rx_level' = rx_level - 1 /\ avail' = (rx_level > 1)
          /\ UNCHANGED <<isr, irq_enable>>
     ELSE /\ irq_enable' = IF RxFull /\ avail THEN irq_enable \ {"RE"} ELSE irq_enable
          /\ isr' = IF wi THEN "write" ELSE "control"
          /\ UNCHANGED <<rx_buf, rx_in, rx_level, avail>>
  /\ UNCHANGED <<callVars, rx_out, consumed, txVars, tx_level, ac, connected, typed, timeVars, wi, space>>

\* Mutant: the room in the transmit FIFO is not looked at.
IsrWrite_NoSpace ==
  /\ isr = "write"
  /\ IF tx_out # tx_in
     THEN /\ sent' = Append(sent, tx_buf[tx_out])
          /\ tx_out' = Next_(tx_out) /\ tx_level' = tx_level + 1
          /\ UNCHANGED <<isr, irq_enable>>
     ELSE /\ irq_enable' = irq_enable \ {"WE"} /\ isr' = "control"
          /\ UNCHANGED <<sent, tx_out, tx_level>>
  /\ UNCHANGED <<callVars, rxVars, tx_in, tx_buf, written, rx_level, ac, connected, typed, timeVars, wi, space, avail>>

\* Characters into the transmit FIFO; transmit interrupts are turned off when there are no more.
IsrWrite ==
  /\ isr = "write"
  /\ IF space > 0 /\ tx_out # tx_in
     THEN /\ sent' = Append(sent, tx_buf[tx_out])
          /\ tx_out' = Next_(tx_out) /\ tx_level' = tx_level + 1 /\ space' = space - 1
          /\ UNCHANGED <<isr, irq_enable>>
     ELSE /\ irq_enable' = IF space > 0 THEN irq_enable \ {"WE"} ELSE irq_enable
          /\ isr' = "control"
          /\ UNCHANGED <<sent, tx_out, tx_level, space>>
  /\ UNCHANGED <<callVars, rxVars, tx_in, tx_buf, written, rx_level, ac, connected, typed, timeVars, wi, avail>>

-----------------------------------------------------------------------------
(* The alarm, the host and the device *)

\* altera_avalon_jtag_uart_timeout, once a second, itself called from an interrupt.
Timeout ==
  /\ HasAlarm /\ isr = "none"
  /\ ac' = FALSE
  /\ host_inactive' = IF ac THEN 0 ELSE Smaller(host_inactive + 1, INT_MAX - 2)
  /\ UNCHANGED <<callVars, rxVars, txVars, rx_level, tx_level, connected, typed, timeout, isrVars, irq_enable>>

HostTypes ==
  /\ connected /\ typed < MaxTyped /\ rx_level < FIFO_DEPTH
  /\ typed' = typed + 1 /\ rx_level' = rx_level + 1 /\ ac' = TRUE
  /\ UNCHANGED <<callVars, rxVars, txVars, tx_level, connected, timeVars, isrVars, irq_enable>>

HostTakes ==
  /\ connected /\ tx_level > 0
  /\ tx_level' = tx_level - 1 /\ ac' = TRUE
  /\ UNCHANGED <<callVars, rxVars, txVars, rx_level, connected, typed, timeVars, isrVars, irq_enable>>

HostPolls ==
  /\ connected /\ ac' = TRUE
  /\ UNCHANGED <<callVars, rxVars, txVars, rx_level, tx_level, connected, typed, timeVars, isrVars, irq_enable>>

\* Without an alarm nobody would notice.
HostLeaves ==
  /\ HasAlarm /\ connected' = FALSE
  /\ UNCHANGED <<callVars, rxVars, txVars, rx_level, tx_level, ac, typed, timeVars, isrVars, irq_enable>>

-----------------------------------------------------------------------------
ReadStep == ReadLook \/ ReadCopy \/ ReadAdvance \/ ReadSpin \/ ReadCheck \/ ReadEnd
WriteStep == WriteLook \/ WriteCopy \/ WriteAdvance \/ WriteKick \/ WriteSpin \/ WriteCheck
Isr == IsrControl \/ IsrRead \/ IsrWrite

Next ==
  \/ Read \/ Write \/ Close \/ Ioctl
  \/ ReadStep \/ WriteStep \/ CloseSpin
  \/ Isr \/ Timeout
  \/ HostTypes \/ HostTakes \/ HostPolls \/ HostLeaves

\* The processor executes calls and interrupts, the clock ticks, and a host that is there takes
\* what it is sent.  Nobody has to call, to type, or to stay.
Fairness ==
  /\ WF_vars(ReadStep) /\ WF_vars(WriteStep) /\ WF_vars(CloseSpin)
  /\ WF_vars(Isr) /\ WF_vars(Timeout) /\ WF_vars(HostTakes)

Spec == Init /\ [][Next]_vars /\ Fairness

-----------------------------------------------------------------------------
(* Properties *)

Used(first, last) == (last - first) % BUF_LEN

UartTypeOK ==
  /\ pc \in {"idle", "read_look", "read_copy", "read_advance", "read_spin", "read_check", "read_end",
             "write_look", "write_copy", "write_advance", "write_kick", "write_spin", "write_check",
             "close_spin"}
  /\ isr \in {"none", "control", "read", "write"} /\ irq_enable \subseteq {"RE", "WE"}
  /\ {nonblock, wi, avail, ac, connected} \subseteq BOOLEAN
  /\ {rx_in, rx_out, tx_in, tx_out, in, out} \subseteq 0 .. BUF_LEN - 1
  /\ {count, moved, n, typed, written} \subseteq Nat /\ result \in Int
  /\ rx_buf \in [0 .. BUF_LEN - 1 -> Nat] /\ tx_buf \in [0 .. BUF_LEN - 1 -> Nat]
  /\ {rx_level, tx_level, space} \subseteq 0 .. FIFO_DEPTH
  /\ host_inactive \in 0 .. INT_MAX - 2 /\ timeout \in 2 .. INT_MAX
  /\ sent \in Seq(Nat) /\ consumed \in Seq(Nat)

\* What the program writes goes to the device once and in order, although the routine takes it
\* out of the buffer whenever it likes.
Tx == INSTANCE CharFifo
        WITH Capacity <- BUF_LEN - 1, put <- written, taken <- sent,
             queue <- [i \in 1 .. Used(tx_out, tx_in) |-> tx_buf[(tx_out + i - 1) % BUF_LEN]]
TransmitsInOrder == Tx!FifoSpec

\* What the host types is read once and in order.  Characters being copied still take up room.
rx_first == IF pc = "read_advance" THEN (out + n) % BUF_LEN ELSE rx_out
Rx == INSTANCE CharFifo
        WITH Capacity <- BUF_LEN - 1, put <- typed - rx_level, taken <- consumed,
             queue <- [i \in 1 .. Used(rx_first, rx_in) |-> rx_buf[(rx_first + i - 1) % BUF_LEN]]
ReceivesInOrder == Rx!FifoSpec

\* close returns 0 only when everything that was written has been handed to the device, unless
\* the host is given up.
CloseDrains ==
  [][pc = "close_spin" /\ pc' = "idle" /\ result' = 0 => Len(sent) = written \/ Inactive]_vars

\* While there is a host, it catches up with all that is written, which in the end is at most
\* MaxWritten characters.
AllTransmitted == []<>(Len(sent) - tx_level = written \/ ~connected)

\* A reader who waits is given the characters the device has.
ReaderServed == pc = "read_spin" /\ rx_level > 0 ~> pc # "read_spin"

\* A call that waits for the host returns if the host leaves, unless it is to wait for ever.
CallsReturn ==
  pc \in {"write_spin", "close_spin"} /\ timeout <= INT_MAX - 2 ~> pc = "idle"

\* Nothing that was written is forgotten, while there is a host: it is sent in the end, and close
\* returns after that.
WritesDrain == AllTransmitted /\ CloseDrains

\* No call waits for something that will not happen: characters that are there are read, and a
\* host that has left is noticed.
CallsServed == ReaderServed /\ CallsReturn
===============================================================================
