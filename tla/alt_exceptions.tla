---------------------------- MODULE alt_exceptions ----------------------------
(***************************************************************************)
(* What an instruction does that the processor does not execute: the entry *)
(* of exceptions saves the registers in a frame, tells interrupts from the *)
(* rest, and lets multiplications and divisions be emulated bit by bit;    *)
(* what is left goes to a handler that the program has registered, or to   *)
(* the debugger.  Registers are words of Bits bits.                        *)
(***************************************************************************)
EXTENDS Integers

CONSTANTS Bits,           \* Width of a register, 32 on the processor
          Sources, Targets, \* Registers that instructions of the program read and write
          MaxIrqs         \* Bound on the interrupts that come instead

ASSUME ExceptionsAssumption ==
  /\ Bits \in Nat \ {0}
  /\ Sources \cup Targets \subseteq 0 .. 28 /\ 0 \in Sources

\* Powers of two, of which the provers know nothing.
ASSUME ExponentsAssumption ==
  /\ 2 ^ 0 = 1 /\ 2 ^ 1 = 2
  /\ \A j, k \in 0 .. Bits : 2 ^ j \in Nat \ {0} /\ (j + k <= Bits => 2 ^ (j + k) = 2 ^ j * 2 ^ k)

VARIABLES
  regs,       \* The registers
  before,     \* The registers when the instruction has been reached
  instr,      \* The instruction that causes the exception
  step,       \* What runs: the program, or a part of the exception code
  ea,         \* Where the exception returns to: to the instruction or to the next one
  frame,      \* The registers as the emulation finds and leaves them on the stack
  r,          \* The working registers of the emulation
  user,       \* alt_instruction_exception_handler, as what it returns, or NoHandler
  badaddr,    \* What the handler has been told of the cause
  irqs        \* Interrupts that have been served

exceptionsVars == <<regs, before, instr, step, ea, frame, r, user, badaddr, irqs>>

Registers == Sources \cup Targets
Words == 0 .. 2 ^ Bits - 1
Mod(x) == x % 2 ^ Bits
Negative(x) == x >= 2 ^ (Bits - 1)

Multiplications == {"mul", "muli", "mulxuu", "mulxsu", "mulxss"}
Divisions == {"div", "divu"}

\* enum alt_exception_cause_e, as far as an instruction causes it, without the register of the cause
\* and with it.
CAUSE_NOT_PRESENT == -1
Causes == 3 .. 22

\* The causes for which the register of the bad address has been written.
generated_bad_addr(cause) == cause \in {6, 7, 11, 14, 15, 17, 21}

REISSUE_INST == 0
SKIP_INST == 1
NoHandler == -1

-----------------------------------------------------------------------------
(* Entry *)

gp == 26
sp == 27

\* The instruction is reached, and its operands are in its registers.
Reach(op, a, b, c, x, y) ==
  /\ step = "program" /\ instr.op = "none"
  /\ LET file == [q \in Registers |-> IF q = 0 THEN 0 ELSE IF q = a THEN x ELSE IF q = b THEN y ELSE Mod(q)]
     IN regs' = file /\ before' = file
  /\ instr' = [op |-> op, a |-> a, b |-> b, c |-> c, imm |-> y]
  /\ step' = "exception" /\ UNCHANGED <<ea, frame, r, user, badaddr, irqs>>

\* With interrupts enabled and one pending, it is served and the instruction issued again.
IrqEntry ==
  /\ step = "exception" /\ irqs < MaxIrqs /\ irqs' = irqs + 1
  /\ ea' = "same" /\ step' = "exception"
  /\ UNCHANGED <<regs, before, instr, frame, r, user, badaddr>>

\* The lowered stack pointer is in the place of the program's own one, and r0 in one of its own.
Frame == [q \in Registers |-> IF q = 0 THEN 0 ELSE IF q = sp THEN Mod(regs[q] - 1) ELSE regs[q]]

\* Anything else than an interrupt returns to the next instruction, if nothing else is decided.
NotIrq ==
  /\ step = "exception" /\ ea' = "next"
  /\ CASE instr.op = "trap" -> step' = "break" /\ UNCHANGED <<frame, r>>
       [] instr.op \in Multiplications \cup Divisions ->
            /\ step' = IF instr.op \in Divisions THEN "divide" ELSE "multiply"
            /\ frame' = Frame
            /\ r' = LET x == Frame[instr.a]
                        y == IF instr.op = "muli" THEN instr.imm ELSE Frame[instr.b]
                        flip(v) == IF instr.op = "div" /\ Negative(v) THEN Mod(-v) ELSE v
                    IN [n |-> Bits, a |-> flip(x), b |-> flip(y), multiplier |-> y, shifted |-> y,
                        low |-> 0, high |-> 0, rest |-> 0,
                        minus |-> instr.op = "div" /\ Negative(x) # Negative(y)]
       [] instr.op = "illegal" -> step' = "unknown" /\ UNCHANGED <<frame, r>>
  /\ UNCHANGED <<regs, before, instr, user, badaddr, irqs>>

-----------------------------------------------------------------------------
(* alt_exception_muldiv, one turn of the loop in a step *)

Bit(x, k) == (x \div 2 ^ k) % 2

Multiply ==
  /\ step = "multiply" /\ r.n > 0
  /\ LET sum == r.high + (IF Bit(r.shifted, 0) = 1 THEN r.a ELSE 0)   \* With its carry
     IN r' = [r EXCEPT !.low = Mod(2 * r.low + (IF Negative(r.b) THEN r.a ELSE 0)),
                       !.high = sum \div 2, !.b = Mod(2 * r.b), !.shifted = r.shifted \div 2, !.n = r.n - 1]
  /\ UNCHANGED <<regs, before, instr, step, ea, frame, user, badaddr, irqs>>

\* Mutant: the comparison excludes the divisor itself.
Subtracts_Above(rest, divisor) == rest > divisor

Subtracts(rest, divisor) == rest >= divisor

Divide ==
  /\ step = "divide" /\ r.n > 0
  /\ LET rest == Mod(2 * r.rest + Bit(r.a, Bits - 1))
         takes == Subtracts(rest, r.b)
     IN r' = [r EXCEPT !.rest = IF takes THEN rest - r.b ELSE rest,
                       !.a = Mod(2 * r.a) + (IF takes THEN 1 ELSE 0), !.n = r.n - 1]
  /\ UNCHANGED <<regs, before, instr, step, ea, frame, user, badaddr, irqs>>

\* The upper word is corrected for operands that are negative numbers.
Product ==
  CASE instr.op \in {"mul", "muli"} -> r.low
    [] instr.op = "mulxuu" -> r.high
    [] instr.op = "mulxsu" -> Mod(r.high - (IF Negative(r.a) THEN r.multiplier ELSE 0))
    [] instr.op = "mulxss" -> Mod(r.high - (IF Negative(r.a) THEN r.multiplier ELSE 0)
                                         - (IF Negative(r.multiplier) THEN r.a ELSE 0))

Quotient == IF r.minus THEN Mod(-r.a) ELSE r.a

\* The result goes into the frame; the global pointer and the stack pointer are not loaded from it.
StoreResult ==
  /\ step \in {"multiply", "divide"} /\ r.n = 0 /\ step' = "program"
  /\ LET left == [frame EXCEPT ![instr.c] = IF step = "multiply" THEN Product ELSE Quotient]
     IN frame' = left /\ regs' = [q \in Registers |-> IF q \in {0, gp, sp} THEN regs[q] ELSE left[q]]
  /\ UNCHANGED <<before, instr, ea, r, user, badaddr, irqs>>

-----------------------------------------------------------------------------
(* alt_instruction_exception_entry *)

alt_instruction_exception_register(result) ==
  /\ step = "program" /\ instr.op = "none" /\ user' = result
  /\ UNCHANGED <<regs, before, instr, step, ea, frame, r, badaddr, irqs>>

Reissues(result) == result = REISSUE_INST

\* The handler is told the cause, where the processor has a register for it, and the address if the
\* cause is one that has written it.
alt_instruction_exception_entry ==
  /\ step = "unknown"
  /\ IF user = NoHandler THEN step' = "break" /\ UNCHANGED <<ea, badaddr>>
     ELSE /\ step' = "program" /\ ea' = IF Reissues(user) THEN "same" ELSE ea
          /\ \E cause \in {CAUSE_NOT_PRESENT} \cup Causes : badaddr' = generated_bad_addr(cause)
  /\ UNCHANGED <<regs, before, instr, frame, r, user, irqs>>

\* The debugger goes on after a trap; a program that the entry has stopped it may leave there.
Continue ==
  /\ step = "break" /\ instr.op = "trap" /\ step' = "program"
  /\ UNCHANGED <<regs, before, instr, ea, frame, r, user, badaddr, irqs>>

ExceptionsInit ==
  /\ regs = [q \in Registers |-> 0] /\ before = regs /\ instr = [op |-> "none"] /\ step = "program"
  /\ ea = "next" /\ frame = regs /\ r = [n |-> 0] /\ user = NoHandler /\ badaddr = FALSE /\ irqs = 0

\* The program reaches one such instruction; an emulated one does not ask the handler, so that it is
\* reached without.
ExceptionsNext ==
  \/ /\ instr.op = "none" /\ user = NoHandler
     /\ \E op \in Multiplications \cup Divisions, a, b \in Sources, c \in Targets, x, y \in Words :
          (a = b => x = y) /\ Reach(op, a, b, c, x, y)
  \/ \E op \in {"trap", "illegal"} : Reach(op, 0, 0, 0, 0, 0)
  \/ IrqEntry \/ NotIrq \/ Multiply \/ Divide \/ StoreResult
  \/ \E result \in {REISSUE_INST, SKIP_INST} : alt_instruction_exception_register(result)
  \/ alt_instruction_exception_entry \/ Continue

ExceptionsSpec == ExceptionsInit /\ [][ExceptionsNext]_exceptionsVars

-----------------------------------------------------------------------------
(* Properties *)

Signed(x) == IF Negative(x) THEN x - 2 ^ Bits ELSE x
Abs(x) == IF x < 0 THEN -x ELSE x

\* What the manual of the processor says of the instruction; a division by zero has no result.
Result(op, x, y) ==
  CASE op \in {"mul", "muli"} -> Mod(x * y)
    [] op = "mulxuu" -> (x * y) \div 2 ^ Bits
    [] op = "mulxsu" -> Mod((Signed(x) * y) \div 2 ^ Bits)
    [] op = "mulxss" -> Mod((Signed(x) * Signed(y)) \div 2 ^ Bits)
    [] op = "divu" -> x \div y
    [] op = "div" -> Mod((IF Negative(x) # Negative(y) THEN -1 ELSE 1) * (Abs(Signed(x)) \div Abs(Signed(y))))

\* An emulated instruction does what it would do in hardware: its target gets the result of the
\* operands it had, no other register changes, whatever interrupts came in its place, and the
\* program goes on behind it.  The stack pointer is no operand and no target, nor is the global
\* pointer a target: the emulation does not provide for them.
EmulatedAsHardware ==
  LET y == IF instr.op = "muli" THEN instr.imm ELSE before[instr.b]
      provided == sp \notin {instr.a, instr.c} /\ (instr.op # "muli" => sp # instr.b) /\ gp # instr.c
  IN step = "program" /\ instr.op \in Multiplications \cup Divisions =>
       /\ ea = "next"
       /\ \A q \in Registers \ {instr.c} : regs[q] = before[q]
       /\ provided /\ instr.c # 0 /\ (instr.op \in Divisions => y # 0) =>
            regs[instr.c] = Result(instr.op, before[instr.a], y)
       /\ regs[0] = 0

===============================================================================
