--------------------------- MODULE altera_avalon_sgdma ---------------------------
(***************************************************************************)
(* The driver of one SGDMA controller, with every call it offers: chains   *)
(* of descriptors, transfers with and without waiting, callbacks, polling. *)
(* bilinear_scaling_hw has the calls the application makes; here any       *)
(* program makes any of them, and the interrupt and the controller come in *)
(* between any two accesses to the registers.                              *)
(*                                                                         *)
(* Three things are up to the program, since the driver has no lock: it    *)
(* constructs only descriptors that the controller is not working on, it   *)
(* registers a callback only while no transfer runs, and a callback starts *)
(* a transfer only while the program is not in a call itself.  The         *)
(* processor has no data cache, so that flushing a descriptor does nothing.*)
(***************************************************************************)
EXTENDS Integers

CONSTANTS Descriptors, Null,
          Names, Name,     \* What can be asked for, and the name of the device
          Args,            \* How descriptors are constructed: [kind, fixed, sop, eop]
          Controls         \* The chain_control of a callback: sets of control bits

ASSUME SgdmaAssumption == Null \notin Descriptors /\ Name \in Names

VARIABLES
  pc, call, desc, nextDesc, args, \* Where the program is, its call and the arguments
  opened,
  callback, chain_control, \* Of alt_sgdma_dev; callback is TRUE if there is one
  mem,                     \* The descriptors: [next, control, status]
  control, status, busy, pointer, irq, \* The registers and the request of the controller
  halted,                  \* The controller waits for RUN to be set anew
  isr,                     \* Where alt_avalon_sgdma_irq is
  filling,                 \* Descriptors whose fields are being written
  events,                  \* What has happened since the blocking transfer was set up
  unanswered               \* A request has been made that no service has followed

callVars == <<call, desc, nextDesc, args>>
devVars == <<opened, callback, chain_control>>
coreVars == <<control, status, busy, pointer, irq, halted>>
ghosts == <<filling, events, unanswered>>
sgdmaVars == <<pc, callVars, devVars, mem, coreVars, isr, ghosts>>

EIO == -5
EINPROGRESS == -115

\* Bits of the control register and, by what raises them, the interrupts they enable.
Enables == [ERROR |-> "IE_ERROR", EOP |-> "IE_EOP", DESC |-> "IE_DESC", CHAIN |-> "IE_CHAIN"]
NoArgs == [kind |-> "mem_to_mem", fixed |-> FALSE, sop |-> FALSE, eop |-> FALSE]

\* Before main: whatever ran before a restart of the processor has left the controller at work.
SgdmaInit ==
  /\ pc = "reset" /\ call = "async" /\ desc = Null /\ nextDesc = Null /\ args = NoArgs
  /\ opened = FALSE /\ callback = FALSE /\ chain_control = {}
  /\ mem = [d \in Descriptors |-> [next |-> Null, control |-> {}, status |-> {}]]
  /\ control \in {{}, {"RUN", "IE_GLOBAL", "IE_CHAIN"}} /\ status = {} /\ pointer = Null
  /\ busy \in BOOLEAN /\ irq \in BOOLEAN /\ halted = FALSE
  /\ isr = "none" /\ filling = {} /\ events = {} /\ unanswered = FALSE

-----------------------------------------------------------------------------
(* Accesses to the registers *)

Flag(bit, set) == IF set THEN {bit} ELSE {}

Owned(d) == d \in Descriptors /\ "OWNED" \in mem[d].control

\* Setting RUN starts the controller if it points at a descriptor that is its own.
IOWR_CONTROL(bits) ==
  LET runs == "RUN" \in bits /\ "RUN" \notin control
  IN /\ control' = bits
     /\ busy' = (busy \/ (runs /\ Owned(pointer)))
     /\ halted' = (halted /\ ~runs)

\* Mutant: the status register is only read.
ClearStatus_Read == UNCHANGED status

\* Writing ones clears the status register.
ClearStatus == status' = {}

-----------------------------------------------------------------------------
(* Calls of the program *)

\* The program executes while no interrupt is serviced.
At(label) == pc = label /\ isr = "none"
InCall(label) == At(label) /\ UNCHANGED <<devVars, isr>>

\* On to the next step of the call, or back to the program.
Goto(label) ==
  /\ pc' = label
  /\ IF label = "idle" THEN call' = "async" /\ desc' = Null /\ nextDesc' = Null /\ args' = NoArgs
     ELSE UNCHANGED callVars

alt_avalon_sgdma_init ==
  /\ At("reset") /\ Goto("idle")
  /\ control' = {} /\ status' = {} /\ busy' = FALSE /\ irq' = FALSE /\ pointer' = Null /\ halted' = FALSE
  /\ UNCHANGED <<devVars, mem, isr, ghosts>>

alt_avalon_sgdma_open(name) ==
  /\ At("idle") /\ pc' = pc
  /\ opened' = (opened \/ name = Name)
  /\ UNCHANGED <<callVars, callback, chain_control, mem, coreVars, isr, ghosts>>

Enter(label, c, d, n, a) ==
  /\ At("idle") /\ opened /\ pc' = label
  /\ call' = c /\ desc' = d /\ nextDesc' = n /\ args' = a
  /\ UNCHANGED <<devVars, mem, coreVars, isr, ghosts>>

alt_avalon_sgdma_check_descriptor_status(d) ==
  IF mem[d].status # {} THEN EIO ELSE IF Owned(d) THEN EINPROGRESS ELSE 0

\* Descriptors the controller works on, may come to, or waits for.
InUse(d) == (Owned(d) /\ (busy \/ "POLL_EN" \in control)) \/ (busy /\ d = pointer)

Construct(d, n, a) ==
  /\ alt_avalon_sgdma_check_descriptor_status(d) # EINPROGRESS /\ ~InUse(d) /\ ~InUse(n) /\ n # d
  /\ Enter("construct", call, d, n, a)

\* Mutant: the control field is written before the others.
DisownNext_Owns ==
  /\ InCall("construct") /\ Goto("fill")
  /\ mem' = [mem EXCEPT ![nextDesc].control = @ \ {"OWNED"}, ![desc].control = {"OWNED"}]
  /\ filling' = filling \cup {desc}
  /\ UNCHANGED <<coreVars, events, unanswered>>

\* alt_avalon_sgdma_construct_descriptor_burst: first the next one is taken from the controller, ...
DisownNext ==
  /\ InCall("construct") /\ Goto("fill")
  /\ mem' = [mem EXCEPT ![nextDesc].control = @ \ {"OWNED"}]
  /\ filling' = filling \cup {desc}
  /\ UNCHANGED <<coreVars, events, unanswered>>

\* ... then all fields but control are written, ...
Fill ==
  /\ InCall("fill") /\ Goto("own")
  /\ mem' = [mem EXCEPT ![desc].next = nextDesc, ![desc].status = {}]
  /\ filling' = filling \ {desc}
  /\ UNCHANGED <<coreVars, events, unanswered>>

\* The arguments that the constructors for each kind of transfer pass on; the bit for a fixed
\* address of writes is the one for the start of a packet if a stream is written to.
GenerateEop(a) == a.kind = "mem_to_stream" /\ a.eop
ReadFixed(a) == a.kind \in {"mem_to_mem", "mem_to_stream"} /\ a.fixed
WriteFixedOrSop(a) == IF a.kind = "mem_to_stream" THEN a.sop ELSE a.fixed

\* ... and control comes last.
Own ==
  /\ InCall("own") /\ Goto("idle")
  /\ mem' = [mem EXCEPT ![desc].control =
       {"OWNED"} \cup Flag("EOP", GenerateEop(args)) \cup Flag("READ_FIXED", ReadFixed(args))
                 \cup Flag("WRITE_FIXED", WriteFixedOrSop(args))]
  /\ UNCHANGED <<coreVars, ghosts>>

\* Mutant: a busy device is not noticed.
IsBusy_Never == FALSE

IsBusy == busy

\* alt_avalon_sgdma_do_async_transfer, which gives up with -EBUSY
CheckBusy ==
  /\ InCall("check") /\ call = "async" /\ Goto(IF IsBusy THEN "idle" ELSE "run")
  /\ UNCHANGED <<mem, coreVars, ghosts>>

\* alt_avalon_sgdma_do_sync_transfer
WaitIdle ==
  /\ InCall("check") /\ call = "sync" /\ Goto(IF busy THEN "check" ELSE "run")
  /\ UNCHANGED <<mem, coreVars, ghosts>>

\* Both: the last chain ends here.
ClearRun ==
  /\ InCall("run") /\ Goto("status")
  /\ IOWR_CONTROL(control \ {"RUN"})
  /\ UNCHANGED <<mem, status, pointer, irq, ghosts>>

ClearOld ==
  /\ InCall("status") /\ Goto("pointer")
  /\ ClearStatus
  /\ UNCHANGED <<mem, control, busy, pointer, irq, halted, ghosts>>

Point ==
  /\ InCall("pointer") /\ Goto("go")
  /\ pointer' = desc /\ events' = {}
  /\ UNCHANGED <<mem, control, status, busy, irq, halted, filling, unanswered>>

\* The control bits of a transfer whose end is not waited for.
AsyncControl ==
  IF callback THEN control \cup chain_control \cup {"RUN", "STOP_ER"}
  ELSE (control \cup {"RUN", "STOP_ER"}) \ {"IE_GLOBAL"}

AsyncGo ==
  /\ InCall("go") /\ call = "async" /\ Goto("idle")
  /\ IOWR_CONTROL(AsyncControl)
  /\ UNCHANGED <<mem, status, pointer, irq, ghosts>>

\* The interrupts that an earlier transfer enabled stay enabled.
SyncGo ==
  /\ InCall("go") /\ call = "sync" /\ Goto("wait")
  /\ IOWR_CONTROL(control \cup {"RUN", "STOP_ER"})
  /\ UNCHANGED <<mem, status, pointer, irq, ghosts>>

WaitDone ==
  /\ InCall("wait") /\ Goto(IF busy THEN "wait" ELSE "stop")
  /\ UNCHANGED <<mem, coreVars, ghosts>>

SyncStop ==
  /\ InCall("stop") /\ Goto("read")
  /\ IOWR_CONTROL(control \ {"RUN"})
  /\ UNCHANGED <<mem, status, pointer, irq, ghosts>>

\* The status goes to the caller and is cleared.
SyncRead ==
  /\ InCall("read") /\ Goto("idle")
  /\ status' = {} /\ events' = {}
  /\ UNCHANGED <<mem, control, busy, pointer, irq, halted, filling, unanswered>>

\* alt_avalon_sgdma_register_callback; nothing comes in between while no transfer runs.
RegisterCallback(cb, bits) ==
  /\ At("idle") /\ opened /\ ~busy /\ ~irq /\ pc' = pc
  /\ callback' = cb /\ chain_control' = bits
  /\ UNCHANGED <<callVars, opened, mem, coreVars, isr, ghosts>>

\* alt_avalon_sgdma_start, _stop, _enable_desc_poll and _disable_desc_poll
SetControl(bits) ==
  /\ At("idle") /\ opened /\ pc' = pc
  /\ IOWR_CONTROL(bits)
  /\ UNCHANGED <<callVars, devVars, mem, status, pointer, irq, isr, ghosts>>

SgdmaStart == SetControl(control \cup {"RUN"})
SgdmaStop == SetControl(control \ {"RUN"})
EnablePoll == SetControl(control \cup {"POLL_EN"})
DisablePoll == SetControl(control \ {"POLL_EN"})

Call ==
  \/ DisownNext \/ Fill \/ Own
  \/ CheckBusy \/ WaitIdle \/ AsyncGo \/ SyncGo \/ WaitDone \/ SyncStop \/ SyncRead
  \/ ClearRun \/ ClearOld \/ Point

-----------------------------------------------------------------------------
(* alt_avalon_sgdma_irq *)

\* Mutant: the request is cleared after the callback.
ClearRequest_Late(now) == irq' = (irq /\ now = "entry")

\* The request is cleared before the callback is called, not after it.
ClearRequest(now) == irq' = (irq /\ now # "entry")

Irq ==
  /\ isr = "none" /\ irq /\ pc # "reset" /\ isr' = "callback"
  /\ ClearRequest("entry")
  /\ UNCHANGED <<pc, callVars, devVars, mem, control, status, busy, pointer, halted, ghosts>>

\* The callback, with all interrupts disabled.  It may start another transfer.
Callback ==
  /\ isr = "callback" /\ isr' = "return" /\ unanswered' = FALSE
  /\ \/ UNCHANGED coreVars
     \/ /\ callback /\ pc = "idle" /\ ~busy
        /\ \E d \in {d \in Descriptors : Owned(d)} :
             /\ control' = AsyncControl /\ status' = {} /\ pointer' = d
             /\ busy' = TRUE /\ halted' = FALSE
        /\ UNCHANGED irq
  /\ UNCHANGED <<pc, callVars, devVars, mem, filling, events>>

Return ==
  /\ isr = "return" /\ isr' = "none"
  /\ ClearRequest("exit")
  /\ UNCHANGED <<pc, callVars, devVars, mem, control, status, busy, pointer, halted, ghosts>>

-----------------------------------------------------------------------------
(* The controller *)

\* Something has happened: the status register says so, and a request is made if that is enabled.
Report(what) ==
  LET request == "IE_GLOBAL" \in control /\ \E e \in what : Enables[e] \in control
  IN /\ status' = status \cup what
     /\ events' = IF call = "sync" THEN events \cup what ELSE events
     /\ irq' = (irq \/ request) /\ unanswered' = (unanswered \/ request)

\* A descriptor has been processed.  The chain goes on with the next one if that is ready;
\* otherwise it ends, unless the controller is to wait for the next one to be ready.
Complete ==
  /\ busy /\ pointer \in Descriptors
  /\ mem' = [mem EXCEPT ![pointer].control = @ \ {"OWNED"}]
  /\ pointer' = mem[pointer].next
  /\ LET ready == Owned(mem[pointer].next)
         ends == ~ready /\ "POLL_EN" \notin control
     IN /\ busy' = (ready /\ "RUN" \in control)
        /\ halted' = (halted \/ ends)
        /\ Report({"DESC"} \cup ({"EOP"} \cap mem[pointer].control) \cup Flag("CHAIN", ends))
  /\ UNCHANGED <<pc, callVars, devVars, control, isr, filling>>

\* A transfer fails; STOP_ER has the controller stop there.
Error ==
  /\ busy /\ pointer \in Descriptors /\ "STOP_ER" \in control
  /\ mem' = [mem EXCEPT ![pointer].control = @ \ {"OWNED"}, ![pointer].status = {"ERROR"}]
  /\ busy' = FALSE /\ halted' = TRUE
  /\ Report({"ERROR"})
  /\ UNCHANGED <<pc, callVars, devVars, control, pointer, isr, filling>>

\* Polling finds that the descriptor has become ready.
Polls ==
  /\ {"RUN", "POLL_EN"} \subseteq control /\ ~busy /\ ~halted /\ Owned(pointer)
  /\ busy' = TRUE
  /\ UNCHANGED <<pc, callVars, devVars, mem, control, status, pointer, irq, halted, isr, ghosts>>

-----------------------------------------------------------------------------
Program ==
  \/ alt_avalon_sgdma_init \/ Call
  \/ \E name \in Names : alt_avalon_sgdma_open(name)
  \/ \E d \in Descriptors : \E c \in {"async", "sync"} : Enter("check", c, d, Null, NoArgs)
  \/ \E d, n \in Descriptors, a \in Args : Construct(d, n, a)
  \/ \E bits \in Controls : RegisterCallback(TRUE, bits)
  \/ RegisterCallback(FALSE, {})
  \/ SgdmaStart \/ SgdmaStop \/ EnablePoll \/ DisablePoll

SgdmaNext == Program \/ Irq \/ Callback \/ Return \/ Complete \/ Error \/ Polls

\* A call goes on, requests are serviced, and the controller is clocked.
SgdmaSpec ==
  /\ SgdmaInit /\ [][SgdmaNext]_sgdmaVars
  /\ WF_sgdmaVars(Call) /\ WF_sgdmaVars(Irq) /\ WF_sgdmaVars(Callback) /\ WF_sgdmaVars(Return) /\ WF_sgdmaVars(Complete)

\* A callback that starts a transfer even if it interrupts a call of the program; no step of SgdmaNext.
CallbackInCall ==
  /\ isr = "callback" /\ isr' = "return" /\ unanswered' = FALSE
  /\ callback /\ ~busy
  /\ \E d \in {d \in Descriptors : Owned(d)} :
       /\ control' = AsyncControl /\ status' = {} /\ pointer' = d
       /\ busy' = TRUE /\ halted' = FALSE
  /\ UNCHANGED <<irq, pc, callVars, devVars, mem, filling, events>>

-----------------------------------------------------------------------------
(* Properties *)

\* The controller never works on a descriptor whose fields are still being written, even if it
\* waited for just that one: ownership passes last.
WholeDescriptors == busy /\ pc # "reset" => pointer \notin filling

\* The controller is not at work while it is pointed at another chain; only polling can have it
\* begin after BUSY was found clear.  It cannot be kept from it if callbacks start transfers at any
\* time, although "user ISR code" may do so and a call is to give up "if controller is busy".
PointedWhileIdle == pc = "pointer" /\ "POLL_EN" \notin control => ~busy

\* What a blocking transfer returns is what happened to its own chain, again without polling.
OwnStatus == pc = "read" /\ "POLL_EN" \notin control => status = events

\* Every request is followed by a callback that has been called after it, also if the callback of
\* an earlier request was still running: none is lost.
RequestsAnswered == unanswered ~> ~unanswered

\* A blocking transfer returns.
SyncReturns == pc = "wait" ~> pc = "idle"

\* Neither kind of transfer keeps its caller waiting.
TransfersEnd == RequestsAnswered /\ SyncReturns
===================================================================================
