------------------------------- MODULE alt_sbrk -------------------------------
(***************************************************************************)
(* The end of the heap and the stack above it.  The heap may reach up to   *)
(* the end of the memory; only a build that checks the stack notices when  *)
(* the two meet.  Addresses are numbers of bytes, aligned to Align.        *)
(***************************************************************************)
EXTENDS Integers

CONSTANTS alt_heap_start, alt_heap_limit,
          Align  \* 4 in the code

ASSUME HeapAssumption ==
  /\ alt_heap_start \in Nat /\ alt_heap_limit \in Nat /\ alt_heap_start <= alt_heap_limit
  /\ Align \in Nat \ {0} /\ alt_heap_start % Align = 0 /\ alt_heap_limit % Align = 0

VARIABLES
  heap_end,
  stack_limit,    \* alt_stack_limit_value, in a build that checks the stack
  stack_pointer,
  checks,         \* Whether the build checks the stack: ALT_STACK_CHECK
  overflown       \* alt_report_stack_overflow has been called

heapVars == <<heap_end, stack_limit, stack_pointer, checks, overflown>>

HeapInit ==
  /\ heap_end = alt_heap_start /\ stack_limit = alt_heap_start
  /\ stack_pointer = alt_heap_limit /\ checks \in BOOLEAN /\ overflown = FALSE

Aligned(address) == ((address + Align - 1) \div Align) * Align

\* Mutant: the limit is compared with the end before it is aligned.
Fits_Unaligned(incr) == heap_end + incr <= alt_heap_limit

Fits(incr) == Aligned(heap_end) + incr <= alt_heap_limit

\* The new end, and the limit of the stack with it unless that lies elsewhere.  Without space the
\* end is only aligned, and the caller gets -1.
Move(incr) ==
  /\ heap_end' = IF Fits(incr) THEN Aligned(heap_end) + incr ELSE Aligned(heap_end)
  /\ IF Fits(incr) /\ checks /\ stack_limit = Aligned(heap_end)
     THEN stack_limit' = heap_end' /\ overflown' = (overflown \/ stack_pointer <= heap_end')
     ELSE UNCHANGED <<stack_limit, overflown>>
  /\ UNCHANGED <<stack_pointer, checks>>

\* The program calls a function or returns; a build that checks the stack traps below the limit.
Push ==
  /\ stack_pointer >= Align /\ stack_pointer' = stack_pointer - Align
  /\ overflown' = (overflown \/ (checks /\ stack_pointer' < stack_limit))
  /\ UNCHANGED <<heap_end, stack_limit, checks>>

Pop ==
  /\ stack_pointer < alt_heap_limit /\ stack_pointer' = stack_pointer + Align
  /\ UNCHANGED <<heap_end, stack_limit, checks, overflown>>

-----------------------------------------------------------------------------

\* The heap stays in its memory, and a build that checks the stack keeps the two apart, as long
\* as its limit follows the end of the heap: once an increment was not aligned, it does not.
HeapInBounds ==
  /\ alt_heap_start <= heap_end /\ heap_end <= alt_heap_limit
  /\ checks /\ ~overflown /\ stack_limit = heap_end => heap_end <= stack_pointer
===============================================================================
