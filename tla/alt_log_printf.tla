---------------------------- MODULE alt_log_printf ----------------------------
(***************************************************************************)
(* The log of the HAL: a printf that puts its characters into the data     *)
(* register of the JTAG UART itself, one by one, when the control register *)
(* says that there is room, and what is logged with it.  A program may log *)
(* from interrupts as well: the handler of the UART, the report of its     *)
(* alarm and the heartbeat of the system clock print in the middle of what *)
(* they interrupt.                                                         *)
(***************************************************************************)
EXTENDS formats

CONSTANTS Depth,           \* Characters the FIFO of the UART takes
          EchoLen,         \* ALT_LOG_WRITE_ECHO_LEN
          Logged,          \* What the program logs: directives with their arguments
          Writes,          \* What it passes to write: sequences of characters
          Interval,        \* ALT_LOG_SYS_CLK_INTERVAL
          MaxCalls,        \* Bound on the calls that log
          MaxInterrupts    \* Bound on the interrupts that log

\* What the program logs does not end the connection of the reader.
Quiet == Character \ {"EOT"}

ASSUME LogAssumption ==
  /\ Depth \in Nat \ {0} /\ Depth < 2 ^ Width /\ EchoLen \in Nat /\ Interval \in Nat
  /\ {"S", "I", "A", "D", "\n", "\r"} \subseteq Character /\ "NUL" \notin Character
  /\ \A r \in Logged : Fits(r.directives, r.args, Quiet)
  /\ \A s \in Writes : s \in Seq(Character \cup {"NUL"})

VARIABLES
  flags,      \* ALT_LOG_FLAGS of the build
  calls,      \* The calls of alt_log_private_printf, each one interrupted by the next
  space,      \* wspace of the control register
  log,        \* What the UART has got from the program, without that of interrupts
  lost,       \* Characters that found no room
  meant,      \* What the program has converted so far
  interrupts, \* Interrupts that have logged
  sys_clk_count, clock_in_sec,
  done        \* Calls the program has made

logVars == <<flags, calls, space, log, lost, meant, interrupts, sys_clk_count, clock_in_sec, done>>

\* The settings of the flags, by the level; the highest are the most intrusive.
boot_on == flags # -1
sys_clk_on == flags >= 1
startup_info_on == flags >= 1
write_on == flags >= 2
jtag_uart_alarm_on == flags >= 2
jtag_uart_isr_on == flags >= 3

-----------------------------------------------------------------------------
(* alt_log_private_printf, one character of the format at a time *)

Blank == [zero |-> FALSE, base |-> 10, signed |-> TRUE, upper |-> FALSE, before |-> -1, after |-> -1]

\* w is what is left of the format, out what is left to put, text what each conversion has put.
Call(ds, as) ==
  [w |-> Format(ds), args |-> as, state |-> "chars", fmt |-> Blank, out |-> <<>>, checked |-> FALSE,
   text |-> <<>>, directives |-> ds, given |-> as]

Emit(p, s, state) == [p EXCEPT !.out = s, !.text = Append(p.text, s), !.state = state]

Repeat(c, r) == [i \in 1 .. (IF r > 0 THEN r ELSE 0) |-> c]

\* The place of the first digit, and the digits from there.
Place(v, base) ==
  LET place[u \in 0 .. v] == IF u \div base = 0 THEN 1 ELSE base * place[u \div base]
  IN place[v]

Digits(v, p, base) ==
  LET digits[x \in (0 .. p) \X (0 .. v)] ==
        LET q == x[1]
            u == x[2]
        IN IF q = 0 THEN <<>> ELSE <<u \div q>> \o digits[<<q \div base, u % q>>]
  IN digits[<<p, v>>]

Number(f, v) ==
  LET sign == f.signed /\ v >= 2 ^ (Width - 1)
      n == IF sign THEN 2 ^ Width - v ELSE v
      ds == Digits(n, Place(n, f.base), f.base)
      room == f.before - Len(ds) - (IF sign THEN 1 ELSE 0)
      minus == IF sign THEN <<"-">> ELSE <<>>
      shape == IF f.upper THEN Upper ELSE Digit
  IN (IF f.zero THEN minus \o Repeat("0", room) ELSE Repeat(" ", room) \o minus)
       \o [i \in 1 .. Len(ds) |-> shape[ds[i] + 1]]

Conversions ==
  [d |-> Blank, i |-> Blank, u |-> [Blank EXCEPT !.signed = FALSE],
   o |-> [Blank EXCEPT !.signed = FALSE, !.base = 8], x |-> [Blank EXCEPT !.signed = FALSE, !.base = 16],
   X |-> [Blank EXCEPT !.signed = FALSE, !.base = 16, !.upper = TRUE]]

IsDigit(c) == \E k \in 1 .. 10 : Digit[k] = c
DigitValue(c) == (CHOOSE k \in 1 .. 10 : Digit[k] = c) - 1

\* The letter that determines the type; one that is none prints nothing and takes no argument.
Letter(p, c) ==
  LET f == p.fmt
      q == [p EXCEPT !.args = Tail(p.args)] IN
  CASE c \in DOMAIN Conversions ->
         Emit(q, Number([Conversions[c] EXCEPT !.zero = f.zero, !.before = f.before], Head(p.args)), "chars")
    [] c = "c" -> Emit(q, Repeat(" ", f.before - 1) \o <<Head(p.args)>>, "chars")
    [] c = "s" -> Emit(q, Repeat(" ", f.before - Len(Head(p.args))) \o Head(p.args), "chars")
    [] OTHER -> [p EXCEPT !.state = "chars"]

\* What stands between the % and the letter: 'l' changes nothing, as int and long have one width.
OtherFmtChar(p, c) ==
  LET f == p.fmt
      begun == [p EXCEPT !.state = "other"] IN
  CASE c = "." -> [begun EXCEPT !.fmt.after = 0]
    [] IsDigit(c) /\ f.after < 0 ->
         [begun EXCEPT !.fmt.before = (IF f.before < 0 THEN 0 ELSE 10 * f.before) + DigitValue(c)]
    [] IsDigit(c) /\ f.after >= 0 -> [begun EXCEPT !.fmt.after = 10 * f.after + DigitValue(c)]
    [] c = "l" -> begun
    [] OTHER -> Letter(p, c)

FirstFmtChar(p, c) ==
  CASE c = "0" -> [p EXCEPT !.fmt.zero = TRUE, !.state = "other"]
    [] c = "%" -> Emit(p, <<c>>, "chars")
    [] OTHER -> OtherFmtChar(p, c)

StartFmt(p) == [p EXCEPT !.fmt = Blank, !.state = "first"]

Converted(p) ==
  LET c == Head(p.w)
      q == [p EXCEPT !.w = Tail(p.w)] IN
  CASE p.state = "chars" -> IF c = "%" THEN StartFmt(q) ELSE Emit(q, <<c>>, "chars")
    [] p.state = "first" -> FirstFmtChar(q, c)
    [] p.state = "other" -> OtherFmtChar(q, c)

-----------------------------------------------------------------------------

Top == calls[Len(calls)]
Interrupted == Len(calls) > 1
Step(p) == calls' = [calls EXCEPT ![Len(calls)] = p]

Convert ==
  /\ calls # <<>> /\ Top.out = <<>> /\ Top.w # <<>>
  /\ LET p == Converted(Top) IN
     /\ Step(p) /\ meant' = IF Interrupted THEN meant ELSE meant \o p.out
  /\ UNCHANGED <<flags, space, log, lost, interrupts, sys_clk_count, clock_in_sec, done>>

\* Mutant: nothing is waited for.
MayPut_Always == TRUE

\* The loop of alt_log_txchar has seen room.
MayPut == space > 0

Check ==
  /\ calls # <<>> /\ Top.out # <<>> /\ ~Top.checked /\ MayPut
  /\ Step([Top EXCEPT !.checked = TRUE])
  /\ UNCHANGED <<flags, space, log, lost, meant, interrupts, sys_clk_count, clock_in_sec, done>>

\* The write that follows does not look again; the UART drops what it has no room for.
Put1 ==
  /\ calls # <<>> /\ Top.checked
  /\ Step([Top EXCEPT !.checked = FALSE, !.out = Tail(Top.out)])
  /\ IF space > 0
     THEN space' = space - 1 /\ log' = (IF Interrupted THEN log ELSE Append(log, Head(Top.out))) /\ UNCHANGED lost
     ELSE lost' = lost + 1 /\ UNCHANGED <<space, log>>
  /\ UNCHANGED <<flags, meant, interrupts, sys_clk_count, clock_in_sec, done>>

Return ==
  /\ calls # <<>> /\ Top.out = <<>> /\ Top.w = <<>> /\ calls' = Front(calls)
  /\ UNCHANGED <<flags, space, log, lost, meant, interrupts, sys_clk_count, clock_in_sec, done>>

-----------------------------------------------------------------------------
(* What the program logs *)

Calls(on, ds, as) ==
  /\ calls = <<>> /\ done < MaxCalls /\ done' = done + 1
  /\ calls' = IF on THEN <<Call(ds, as)>> ELSE <<>>
  /\ UNCHANGED <<flags, space, log, lost, meant, interrupts, sys_clk_count, clock_in_sec>>

\* The messages of crt0, alt_main and exit.
PrintBoot == \E r \in Logged : Calls(boot_on, r.directives, r.args)

\* A character that ends the connection of the reader.
EchoEscape(c) == IF c = "EOT" THEN "D" ELSE c

\* alt_log_write_buf: the beginning of what is written, its last character replaced by the end of
\* the line, which is a second one without a third.
EchoBuffer(s) ==
  LET length == IF Len(s) < EchoLen THEN Len(s) ELSE EchoLen
  IN [i \in 1 .. length + 2 |->
        IF i < length THEN EchoEscape(s[i]) ELSE IF i = length THEN "\n" ELSE IF i = length + 1 THEN "\r" ELSE "NUL"]

\* The string that %s sees ends at the first NUL, which may be one of the characters written.
EchoString(s) ==
  LET b == EchoBuffer(s)
      end == CHOOSE n \in 1 .. Len(b) : b[n] = "NUL" /\ \A m \in 1 .. n - 1 : b[m] # "NUL"
  IN SubSeq(b, 1, end - 1)

alt_log_write(s) ==
  Calls(write_on /\ Len(s) >= 2 /\ EchoLen >= 2, <<Plain("s")>>,
        <<IF Len(s) >= 2 /\ EchoLen >= 2 THEN EchoString(s) ELSE <<>>>>)

\* The control register, here its room, and what is left in the ring of the driver: tx_out - tx_in
\* is below zero once tx_in is ahead of it.
print_control_reg(header, ring) == Call(<<Plain("s"), Plain("d"), Plain("d")>>, <<header, ring, space>>)

startup_info ==
  \E ring \in {0, 2 ^ Width - 1} :
    LET p == print_control_reg(<<"S">>, ring) IN Calls(startup_info_on, p.directives, p.given)

-----------------------------------------------------------------------------
(* What interrupts log *)

Interrupts(p) ==
  /\ ~Interrupted /\ interrupts < MaxInterrupts /\ interrupts' = interrupts + 1
  /\ calls' = Append(calls, p)
  /\ UNCHANGED <<flags, space, log, lost, meant, done>>

\* With nothing to interrupt an interrupt prints as the program does, which shows nothing new.
Busy == calls # <<>>

isr_proc == Busy /\ jtag_uart_isr_on /\ Interrupts(print_control_reg(<<"I">>, 0)) /\ UNCHANGED <<sys_clk_count, clock_in_sec>>
report_log == Busy /\ jtag_uart_alarm_on /\ Interrupts(print_control_reg(<<"A">>, 0)) /\ UNCHANGED <<sys_clk_count, clock_in_sec>>

\* The heartbeat: a message when the count is above the interval.
alt_log_system_clock ==
  /\ Busy /\ ~Interrupted /\ sys_clk_on
  /\ IF sys_clk_count + 1 > Interval
     THEN /\ Interrupts(Call(<<Plain("u")>>, <<clock_in_sec>>))
          /\ sys_clk_count' = 0 /\ clock_in_sec' = (clock_in_sec + 1) % (2 ^ Width)
     ELSE /\ sys_clk_count' = sys_clk_count + 1
          /\ UNCHANGED <<flags, calls, space, log, lost, meant, interrupts, clock_in_sec, done>>

\* The host reads.
HostReads ==
  /\ space < Depth /\ space' = space + 1
  /\ UNCHANGED <<flags, calls, log, lost, meant, interrupts, sys_clk_count, clock_in_sec, done>>

LogInit ==
  /\ flags \in -1 .. 3 /\ calls = <<>> /\ space = Depth /\ log = <<>> /\ lost = 0 /\ meant = <<>>
  /\ interrupts = 0 /\ sys_clk_count = 0 /\ clock_in_sec = 0 /\ done = 0

Prints == Convert \/ Check \/ Put1 \/ Return

LogNext ==
  \/ Prints \/ HostReads
  \/ PrintBoot \/ startup_info \/ \E s \in Writes : alt_log_write(s)
  \/ isr_proc \/ report_log \/ alt_log_system_clock

LogSpec == LogInit /\ [][LogNext]_logVars

-----------------------------------------------------------------------------
(* Properties *)

\* Each conversion prints what the C standard says of its flag, width and letter, whatever the
\* conversions before it have left in the variables of alt_log_private_printf.
ConvertsAsAsked ==
  \A n \in 1 .. Len(calls) :
    LET p == calls[n]
    IN p.w = <<>> =>
         /\ Len(p.text) = Len(p.directives)
         /\ \A i \in 1 .. Len(p.text) : Answers(p.text[i], p.directives[i], ArgOf(p.directives, p.given, i))

\* No character is lost but to an interrupt that logs between the look at the control register and
\* the write, and each of them costs at most one; what the program logs comes out in its order, and
\* the echo of a write sends nothing that ends the connection of the reader.
LogIsComplete ==
  LET left == IF calls = <<>> THEN <<>> ELSE calls[1].out
  IN /\ lost <= interrupts
     /\ Len(log) + Len(left) + lost = Len(meant)
     /\ lost = 0 => log \o left = meant
     /\ \A i \in 1 .. Len(log) : log[i] # "EOT"
===============================================================================
