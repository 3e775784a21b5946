------------------------- MODULE bilinear_scaling_hw -------------------------
(***************************************************************************)
(* The hardware path of the application: bilinear_scaling_hw() with the    *)
(* callbacks of main.c, the SGDMA driver below it (altera_avalon_sgdma.c), *)
(* the interrupt handler, the two SGDMA controllers and the accelerator.   *)
(*                                                                         *)
(* Four parties run concurrently: the program, which polls two flags; the  *)
(* interrupt service routine, which preempts it and sets them; and the two *)
(* controllers, which walk chains of descriptors in memory the program     *)
(* allocates and frees.  A descriptor is a row of an image.  The           *)
(* accelerator is acc_rows, which the clocked model implements.            *)
(***************************************************************************)
EXTENDS Integers, bilinear_scaling

CONSTANTS Jobs,   \* The images to scale: [height, sy]
          NoJob   \* The parameters after power-on, which no image has

Device == {"sgdma_out", "sgdma_in"}   \* memory to stream, and stream to memory

\* Images have at least one row, and so have their scaled versions.
ASSUME DriverAssumption ==
  /\ \A j \in Jobs : /\ j.height \in Nat \ {0} /\ j.sy \in Nat \ {0}
                     /\ output_size(j.height, j.sy) \in Nat \ {0}
  /\ NoJob.height = 0 /\ NoJob.sy = 1

VARIABLES pc,        \* Where the program is
          job,       \* Argument of the call
          live,      \* Allocated blocks
          built,     \* Loop counter of the descriptor loops: descriptors built
          owned,     \* Per device and descriptor: "owned by hardware"
          tx_done, rx_done,
          callback,  \* dev->callback is registered, with chain_control
          isr,       \* The device whose interrupt is serviced, or "none"
          control,   \* Control register of each device: the bits set
          busy,      \* Status register: BUSY
          desc,      \* Index of the next descriptor
          irq,       \* Interrupt request line
          registers, \* Parameters of the accelerator
          in_rows, out_rows

programVars == <<pc, job, live, built, owned>>
flagVars == <<tx_done, rx_done>>
deviceVars == <<control, busy, desc, irq>>
accVars == <<registers, in_rows, out_rows>>
hwVars == <<programVars, flagVars, callback, isr, deviceVars, accVars>>

Acc == INSTANCE acc_rows WITH Jobs <- Jobs \cup {NoJob}, job <- registers

output_rows == output_size(job.height, job.sy)

\* Rows of the image a device moves, and the blocks it works on.
RowsOf(j, d) == IF d = "sgdma_out" THEN j.height ELSE output_size(j.height, j.sy)
Rows(d) == RowsOf(job, d)
Blocks(d) == IF d = "sgdma_out" THEN {"transmit_descriptors"} ELSE {"receive_descriptors", "output"}

\* Mutant: the interrupt is enabled globally, but not for the end of a chain.
chain_control_NoChain == {"IE_GLOBAL", "PARK"}

\* CHAIN_CONTROL of main.c: how callbacks are registered.
chain_control == {"IE_GLOBAL", "IE_CHAIN_COMPLETED", "PARK"}

-----------------------------------------------------------------------------
(* The program *)

\* The program runs while no interrupt is serviced.
At(label) == pc = label /\ isr = "none"
Goto(label) == pc' = label

HwInit ==
  /\ pc = "register" /\ job = NoJob
  /\ live = {} /\ built = 0 /\ owned = [d \in Device |-> <<>>]
  /\ tx_done = 0 /\ rx_done = 0
  /\ callback = [d \in Device |-> FALSE] /\ isr = "none"
  /\ control = [d \in Device |-> {}] /\ busy = [d \in Device |-> FALSE]
  /\ desc = [d \in Device |-> 0] /\ irq = [d \in Device |-> FALSE]
  /\ registers = NoJob /\ in_rows = 0 /\ out_rows = 0

\* main: alt_avalon_sgdma_register_callback for both devices.
RegisterCallbacks ==
  /\ At("register") /\ Goto("idle")
  /\ callback' = [d \in Device |-> TRUE]
  /\ UNCHANGED <<job, live, built, owned, flagVars, isr, deviceVars, accVars>>

\* The call: image_alloc and descriptor_alloc twice.  Fresh memory may say
\* anything; only the terminating descriptor is cleared.
Call ==
  /\ At("idle") /\ Goto("create_transmit")
  /\ live' = live \cup {"output", "transmit_descriptors", "receive_descriptors"}
  /\ \E j \in Jobs, garbage \in BOOLEAN :
       /\ job' = j
       /\ owned' = [d \in Device |-> [i \in 0 .. RowsOf(j, d) |-> garbage /\ i # RowsOf(j, d)]]
  /\ UNCHANGED <<built, flagVars, callback, isr, deviceVars, accVars>>

\* alt_avalon_sgdma_construct_descriptor_burst: the next descriptor ends the
\* chain until it is constructed itself.
construct_descriptor(d, i) == owned' = [owned EXCEPT ![d][i + 1] = FALSE, ![d][i] = TRUE]

\* An iteration of create_transmit_descriptors or create_receive_descriptors.
Create(label, d, next) ==
  /\ At(label)
  /\ IF built < Rows(d)
     THEN construct_descriptor(d, built) /\ built' = built + 1 /\ Goto(label)
     ELSE owned' = owned /\ built' = 0 /\ Goto(next)
  /\ UNCHANGED <<job, live, flagVars, callback, isr, deviceVars, accVars>>

CreateTransmit == Create("create_transmit", "sgdma_out", "create_receive")
CreateReceive == Create("create_receive", "sgdma_in", "terminate")

\* The last descriptor of either chain is cleared once more.
Terminate ==
  /\ At("terminate") /\ Goto("params")
  /\ owned' = [d \in Device |-> [owned[d] EXCEPT ![Rows(d)] = FALSE]]
  /\ UNCHANGED <<job, live, built, flagVars, callback, isr, deviceVars, accVars>>

\* Six writes to the parameter port; acc_bilinear_scaling_TB has them one by one.
WriteParams ==
  /\ At("params") /\ Goto("start_out")
  /\ registers' = job
  /\ UNCHANGED <<job, live, built, owned, flagVars, callback, isr, deviceVars, in_rows, out_rows>>

\* alt_avalon_sgdma_do_async_transfer: a busy device is left alone, and the
\* caller only prints a message.  Nothing happens before RUN is set, last.
do_async_transfer(d) ==
  IF busy[d] THEN UNCHANGED deviceVars
  ELSE /\ desc' = [desc EXCEPT ![d] = 0]
       /\ control' = [control EXCEPT ![d] =
            IF callback[d] THEN @ \cup chain_control \cup {"RUN", "STOP_DMA_ER"}
            ELSE (@ \cup {"RUN", "STOP_DMA_ER"}) \ {"IE_GLOBAL"}]
       /\ UNCHANGED <<busy, irq>>

Start(label, d, next) ==
  /\ At(label) /\ Goto(next)
  /\ do_async_transfer(d)
  /\ UNCHANGED <<job, live, built, owned, flagVars, callback, isr, accVars>>

StartOut == Start("start_out", "sgdma_out", "start_in")
StartIn == Start("start_in", "sgdma_in", "wait_tx")

\* while (flag == 0): poll, and go on when the flag is set.
Poll(label, flag, next) ==
  /\ At(label) /\ Goto(IF flag # 0 THEN next ELSE label)
  /\ UNCHANGED <<job, live, built, owned, flagVars, callback, isr, deviceVars, accVars>>

\* Mutant: only the transmission is waited for.
WaitTx_Only == Poll("wait_tx", tx_done, "ctl")

WaitTx == Poll("wait_tx", tx_done, "wait_rx")

\* Mutant: the second loop waits for the wrong flag.
WaitRx_Swapped == Poll("wait_rx", tx_done, "ctl")

WaitRx == Poll("wait_rx", rx_done, "ctl")

\* The restart bit of the accelerator: whatever it does, it starts over.
WriteCtl ==
  /\ At("ctl") /\ Goto("clear_rx")
  /\ in_rows' = 0 /\ out_rows' = 0
  /\ UNCHANGED <<job, live, built, owned, flagVars, callback, isr, deviceVars, registers>>

ClearRx ==
  /\ At("clear_rx") /\ Goto("clear_tx")
  /\ rx_done' = 0
  /\ UNCHANGED <<job, live, built, owned, tx_done, callback, isr, deviceVars, accVars>>

ClearTx ==
  /\ At("clear_tx") /\ Goto("stop")
  /\ tx_done' = 0
  /\ UNCHANGED <<job, live, built, owned, rx_done, callback, isr, deviceVars, accVars>>

\* alt_avalon_sgdma_stop for both, then free the descriptors.
Stop ==
  /\ At("stop") /\ Goto("free")
  /\ control' = [d \in Device |-> control[d] \ {"RUN"}]
  /\ UNCHANGED <<job, live, built, owned, flagVars, callback, isr, busy, desc, irq, accVars>>

\* The output goes to the caller, who frees it after saving it.
Free ==
  /\ At("free") /\ Goto("idle")
  /\ live' = {}
  /\ UNCHANGED <<job, built, owned, flagVars, callback, isr, deviceVars, accVars>>

-----------------------------------------------------------------------------
(* Interrupts *)

\* alt_irq_handler takes the pending interrupt with the lowest number, 0 for
\* sgdma_in; alt_avalon_sgdma_irq first clears the request ...
EnterIsr(d) ==
  /\ isr = "none" /\ irq[d]
  /\ d = "sgdma_out" => ~irq["sgdma_in"]
  /\ isr' = d
  /\ irq' = [irq EXCEPT ![d] = FALSE]
  /\ UNCHANGED <<programVars, flagVars, callback, control, busy, desc, accVars>>

\* ... and then calls the callback of main.c.
Callback(d) ==
  /\ isr = d /\ isr' = "none"
  /\ tx_done' = IF callback[d] /\ d = "sgdma_out" THEN 1 ELSE tx_done
  /\ rx_done' = IF callback[d] /\ d = "sgdma_in" THEN 1 ELSE rx_done
  /\ UNCHANGED <<programVars, callback, deviceVars, accVars>>

-----------------------------------------------------------------------------
(* The SGDMA controllers, from how the driver uses them *)

\* With RUN set, a descriptor that is owned by hardware is started.
Startable(d) == /\ "RUN" \in control[d] /\ ~busy[d]
                /\ desc[d] \in DOMAIN owned[d] /\ owned[d][desc[d]]

Begin(d) ==
  /\ Startable(d)
  /\ busy' = [busy EXCEPT ![d] = TRUE]
  /\ UNCHANGED <<programVars, flagVars, callback, isr, control, desc, irq, accVars>>

\* A row is moved.  The controller goes on with the next descriptor if that is
\* ready, and otherwise ends the chain with an interrupt.  Without PARK it
\* gives the descriptor back.
Transfer(d) ==
  /\ busy[d]
  /\ IF d = "sgdma_out" THEN Acc!Take ELSE Acc!Deliver
  /\ desc' = [desc EXCEPT ![d] = @ + 1]
  /\ owned' = IF "PARK" \in control[d] THEN owned ELSE [owned EXCEPT ![d][desc[d]] = FALSE]
  /\ LET more == owned[d][desc[d] + 1]
     IN  /\ busy' = [busy EXCEPT ![d] = more /\ "RUN" \in control[d]]
         /\ irq' = [irq EXCEPT ![d] =
                      @ \/ (~more /\ {"IE_GLOBAL", "IE_CHAIN_COMPLETED"} \subseteq control[d])]
  /\ UNCHANGED <<pc, job, live, built, flagVars, callback, isr, control>>

-----------------------------------------------------------------------------
Program ==
  \/ RegisterCallbacks \/ Call \/ CreateTransmit \/ CreateReceive \/ Terminate \/ WriteParams \/ StartOut \/ StartIn
  \/ WaitTx \/ WaitRx \/ WriteCtl \/ ClearRx \/ ClearTx \/ Stop \/ Free

HwNext == \/ Program
          \/ \E d \in Device : EnterIsr(d) \/ Callback(d) \/ Begin(d) \/ Transfer(d)

\* The processor executes, interrupts are taken, and the controllers and the
\* accelerator are clocked.
Fairness == /\ WF_hwVars(Program)
            /\ \A d \in Device : /\ WF_hwVars(EnterIsr(d)) /\ WF_hwVars(Callback(d))
                                 /\ WF_hwVars(Begin(d)) /\ WF_hwVars(Transfer(d))

HwSpec == HwInit /\ [][HwNext]_hwVars /\ Fairness

-----------------------------------------------------------------------------
(* Properties *)

Labels == {"register", "idle", "create_transmit", "create_receive", "terminate", "params", "start_out", "start_in", "wait_tx", "wait_rx",
           "ctl", "clear_rx", "clear_tx", "stop", "free"}

ControlBits == {"IE_GLOBAL", "IE_CHAIN_COMPLETED", "PARK", "RUN", "STOP_DMA_ER"}

HwTypeOK ==
  /\ pc \in Labels /\ job \in Jobs \cup {NoJob} /\ registers \in Jobs \cup {NoJob}
  /\ live \subseteq {"output", "transmit_descriptors", "receive_descriptors"}
  /\ tx_done \in {0, 1} /\ rx_done \in {0, 1}
  /\ callback \in [Device -> BOOLEAN] /\ isr \in Device \cup {"none"}
  /\ control \in [Device -> SUBSET ControlBits] /\ busy \in [Device -> BOOLEAN]
  /\ irq \in [Device -> BOOLEAN]
  /\ desc \in [Device -> Nat] /\ in_rows \in Nat /\ out_rows \in Nat
  /\ built \in Nat /\ built <= (IF pc = "create_receive" THEN output_rows ELSE job.height)
  /\ DOMAIN owned = Device
  /\ \A d \in Device : pc \notin {"register", "idle"} => owned[d] \in [0 .. Rows(d) -> BOOLEAN]

\* A controller at work, or about to be, finds its descriptors and its buffer allocated: nothing
\* is freed under it, although only the polled flags tell the program that it has finished.
MemoryAlive ==
  \A d \in Device : busy[d] \/ Startable(d) => Blocks(d) \subseteq live

\* A flag that is set speaks of this call: its device has walked the whole chain and stopped.
DoneMeansDone ==
  /\ tx_done # 0 => ~busy["sgdma_out"] /\ desc["sgdma_out"] = job.height
  /\ rx_done # 0 => ~busy["sgdma_in"] /\ desc["sgdma_in"] = output_rows

\* No transfer is started on a busy device, which the program would wait for forever, nor under
\* an interrupt or a flag left over from the call before.
StartsClean ==
  \A d \in Device :
    pc = (IF d = "sgdma_out" THEN "start_out" ELSE "start_in") =>
      /\ ~busy[d] /\ ~irq[d] /\ isr # d
      /\ (IF d = "sgdma_out" THEN tx_done ELSE rx_done) = 0

\* The caller gets a complete image: when the descriptors are freed, every row of this job's
\* output has been written, and the accelerator has been restarted.
OutputWritten ==
  pc \in {"ctl", "clear_rx", "clear_tx", "stop", "free"} =>
    desc["sgdma_in"] = output_rows /\ ~busy["sgdma_in"]

\* A call has nothing from the calls before it, its flags are those of its own chains, and it
\* leaves a whole image.
CallsAreSeparate == StartsClean /\ DoneMeansDone /\ OutputWritten

\* The program keeps to the protocol of the accelerator: parameters before the first row,
\* restart after the last.
UsesAccelerator == Acc!RowsSpec

\* Every call returns.
CallReturns == pc = "create_transmit" ~> pc = "idle"
=============================================================================
