------------------------------- MODULE alt_irq -------------------------------
(***************************************************************************)
(* The processor's interrupts as the HAL keeps them: the enable bit of the *)
(* status register, the mask of enabled interrupts with its copy in        *)
(* memory, and the table of handlers.  A section without interrupts saves  *)
(* the bit and restores it, so that sections nest.                         *)
(***************************************************************************)
EXTENDS Integers, Sequences

CONSTANTS Irqs, NULL  \* The interrupts that are connected

ASSUME IrqAssumption == Irqs \subseteq Nat /\ NULL \notin Irqs

VARIABLES
  status,          \* The bit that enables interrupts
  ienable,         \* The interrupts the processor takes
  alt_irq_active,  \* The copy of ienable
  handler,         \* alt_irq: of each interrupt the device whose handler is called, or NULL
  contexts,        \* What the sections that have been entered will restore, the last one first
  isr              \* The interrupt whose handler runs, or NULL

irqVars == <<status, ienable, alt_irq_active, handler, contexts, isr>>

alt_irq_disable_all ==
  /\ contexts' = <<status>> \o contexts /\ status' = FALSE
  /\ UNCHANGED <<ienable, alt_irq_active, handler, isr>>

alt_irq_enable_all ==
  /\ contexts # <<>>
  /\ status' = Head(contexts) /\ contexts' = Tail(contexts)
  /\ UNCHANGED <<ienable, alt_irq_active, handler, isr>>

alt_irq_cpu_enable_interrupts == status' = TRUE /\ UNCHANGED <<ienable, alt_irq_active, handler, contexts, isr>>

\* Mutant: the mask of the processor is left as it was.
altera_nios2_gen2_irq_init_Not == UNCHANGED irqVars

altera_nios2_gen2_irq_init == ienable' = {} /\ UNCHANGED <<status, alt_irq_active, handler, contexts, isr>>

\* An interrupt is enabled and disabled through the copy.
alt_irq_enable(id) ==
  /\ alt_irq_active' = alt_irq_active \cup {id} /\ ienable' = alt_irq_active'
  /\ UNCHANGED <<status, handler, contexts, isr>>

alt_irq_disable(id) ==
  /\ alt_irq_active' = alt_irq_active \ {id} /\ ienable' = alt_irq_active'
  /\ UNCHANGED <<status, handler, contexts, isr>>

alt_ic_irq_enabled(id) == id \in ienable

\* What alt_ic_isr_register writes into the table; then it enables the interrupt, or disables it for NULL.
SetHandler(id, isr_) == handler' = [handler EXCEPT ![id] = isr_] /\ UNCHANGED <<status, ienable, alt_irq_active, contexts, isr>>
EnableRegistered(id) == IF handler[id] # NULL THEN alt_irq_enable(id) ELSE alt_irq_disable(id)

-----------------------------------------------------------------------------
(* alt_irq_handler, for the interrupts that are requested *)

alt_irq_pending(requests) == requests \cap ienable

\* The handler of the lowest interrupt is called; the table is not asked whether there is one.
Lowest(active) == CHOOSE i \in active : \A j \in active : i <= j

TakeInterrupt(requests) ==
  /\ status /\ isr = NULL /\ alt_irq_pending(requests) # {}
  /\ status' = FALSE /\ isr' = Lowest(alt_irq_pending(requests))
  /\ UNCHANGED <<ienable, alt_irq_active, handler, contexts>>

\* A handler has returned: the next one is called as long as an interrupt is requested.
ReturnFromHandler(requests) ==
  /\ isr # NULL
  /\ IF alt_irq_pending(requests) = {} THEN isr' = NULL /\ status' = TRUE
     ELSE isr' = Lowest(alt_irq_pending(requests)) /\ UNCHANGED status
  /\ UNCHANGED <<ienable, alt_irq_active, handler, contexts>>
==============================================================================
