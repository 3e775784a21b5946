------------------------------- MODULE alt_main -------------------------------
(***************************************************************************)
(* From reset to main and on to _exit: crt0 clears what has no initial     *)
(* value, alt_load copies what has one, alt_main initialises the devices   *)
(* of this system one by one with interrupts enabled, connects the         *)
(* standard streams, runs the constructors and calls main.  A reset may    *)
(* come at any time, and reach the devices or not; the memory keeps what   *)
(* the last program has left there.                                        *)
(***************************************************************************)
EXTENDS alt_irq, alt_sbrk, system, SequencesExt

CONSTANTS sgdma_in, sgdma_out, jtag_uart,      \* The devices with interrupts, in their order
          hostfs, alt_dev_null, alt_dev_list, alt_fs_list, alt_sgdma_list,
          Ctors, Dtors,                        \* The lists of constructors and destructors
          Increments,                          \* What a program asks sbrk for
          MaxResets                            \* Bound on the resets

\* The device of each interrupt.
Irq == [id \in Irqs |-> CASE id = SGDMA_IN.IRQ -> sgdma_in
                          [] id = SGDMA_OUT.IRQ -> sgdma_out
                          [] id = JTAG_UART.IRQ -> jtag_uart]
Lists == {alt_dev_list, alt_fs_list, alt_sgdma_list}
Entries == {sgdma_in, sgdma_out, jtag_uart, hostfs, alt_dev_null}

\* The calls of main that are under way, by where they are and what they are about.
Calls ==
  ({"sbrk"} \X Increments) \cup ({"register"} \X (Irqs \X BOOLEAN))
    \cup ({"inner", "mask", "leave"} \X Irqs) \cup {<<"end", NULL>>}

\* The heads of the lists and the devices are objects of their own.
ASSUME MainAssumption ==
  /\ Irqs = {SGDMA_IN.IRQ, SGDMA_OUT.IRQ, JTAG_UART.IRQ} /\ Increments \subseteq Int /\ NULL \notin Calls
  /\ {Len(Ctors), Len(Dtors)} \subseteq Nat
  /\ LET objects == <<NULL, alt_dev_list, alt_fs_list, alt_sgdma_list, sgdma_in, sgdma_out, jtag_uart, hostfs,
                       alt_dev_null>>
     IN \A i, j \in 1 .. 9 : objects[i] = objects[j] => i = j

VARIABLES
  at,        \* The step of the program
  next,      \* The pointers of the lists of devices
  streams,   \* The devices of the standard streams
  requests,  \* The interrupts that are requested by their devices
  ie,        \* The interrupts their devices are enabled to request
  ran,       \* Constructors and destructors that have run since the reset
  inited,    \* Devices whose registers have been initialised since the reset
  killed,    \* A signal has ended the program
  call,      \* The call of the program that runs: its name and argument, or NULL
  resets

memory == <<alt_irq_active, handler, next, streams>>
mainVars == <<irqVars, heapVars, at, next, streams, requests, ie, ran, inited, killed, call, resets>>

\* The lists and the streams as they are initialised: the null device is in its list from the
\* start and has the streams; the other lists are empty, and what is in none points nowhere.
InitialLists ==
  [[x \in Lists \cup Entries |-> IF x \in Lists THEN x ELSE NULL]
     EXCEPT ![alt_dev_list] = alt_dev_null, ![alt_dev_null] = alt_dev_list]
NullStreams == [fd \in 0 .. 2 |-> alt_dev_null]

-----------------------------------------------------------------------------
(* The steps *)

Does(op, arg) == [op |-> op, arg |-> arg]

\* alt_ic_isr_register, with interrupts disabled, and alt_irq_enable once more.
Register(id) ==
  <<Does("disable", id), Does("handler", id), Does("disable", id),
    Does("enable", id), Does("restore", id), Does("restore", id)>>

SgdmaInit(id) == <<Does("sgdma", id), Does("insert", <<Irq[id], alt_sgdma_list>>)>> \o Register(id)
UartInit(id) == <<Does("uart", id)>> \o Register(id) \o <<Does("insert", <<jtag_uart, alt_dev_list>>)>>

\* Both lists are run from their end.
Runs(list) == [i \in 1 .. Len(list) |-> Does("run", list[Len(list) + 1 - i])]

alt_irq_init == <<Does("irq_init", NULL), Does("cpu_enable", NULL)>>
alt_sys_init == UartInit(2) \o SgdmaInit(0) \o SgdmaInit(1) \o <<Does("insert", <<hostfs, alt_fs_list>>)>>

Startup ==
  <<Does("clear_bss", NULL), Does("alt_load", NULL)>> \o alt_irq_init \o alt_sys_init
    \o <<Does("redirect", NULL)>> \o Runs(Ctors)

Steps == Startup \o <<Does("main", NULL)>> \o Runs(Dtors) \o <<Does("exit", NULL)>>
MainAt == Len(Startup) + 1

\* A step is the program's, not that of an interrupt, and goes on to the next one.
At(op) == isr = NULL /\ Steps[at].op = op
Arg == Steps[at].arg
Step(op) == At(op) /\ at' = at + 1 /\ UNCHANGED <<killed, call, resets>>
-----------------------------------------------------------------------------
(* crt0 and alt_load *)

\* Mutant: nothing is cleared.
clear_bss_Not == Step("clear_bss") /\ UNCHANGED <<irqVars, heapVars, next, streams, requests, ie, ran, inited>>

\* The table of handlers and the copy of the mask have no initial value.
clear_bss ==
  /\ Step("clear_bss")
  /\ handler' = [id \in Irqs |-> NULL] /\ alt_irq_active' = {}
  /\ UNCHANGED <<status, ienable, contexts, isr, heapVars, next, streams, requests, ie, ran, inited>>

\* Mutant: the data stay where they are, as without ALT_LOAD_COPY_RWDATA.
alt_load_Not == Step("alt_load") /\ UNCHANGED <<irqVars, heapVars, next, streams, requests, ie, ran, inited>>

\* The initialised data are copied from where they have been loaded: lists, streams and an empty heap.
alt_load ==
  /\ Step("alt_load")
  /\ next' = InitialLists /\ streams' = NullStreams /\ heap_end' = alt_heap_start
  /\ UNCHANGED <<irqVars, stack_limit, stack_pointer, checks, overflown, requests, ie, ran, inited>>

-----------------------------------------------------------------------------
(* alt_main and what it calls *)

InitIrq ==
  /\ \/ Step("irq_init") /\ altera_nios2_gen2_irq_init
     \/ Step("cpu_enable") /\ alt_irq_cpu_enable_interrupts
  /\ UNCHANGED <<heapVars, next, streams, requests, ie, ran, inited>>

RegisterStep ==
  /\ \/ Step("disable") /\ alt_irq_disable_all
     \/ Step("handler") /\ SetHandler(Arg, Irq[Arg])
     \/ Step("enable") /\ EnableRegistered(Arg)
     \/ Step("restore") /\ alt_irq_enable_all
  /\ UNCHANGED <<heapVars, next, streams, requests, ie, ran, inited>>

\* The device is reset, and its interrupts are disabled.
SgdmaReset ==
  /\ Step("sgdma")
  /\ ie' = ie \ {Arg} /\ requests' = requests \ {Arg} /\ inited' = inited \cup {Irq[Arg]}
  /\ UNCHANGED <<irqVars, heapVars, next, streams, ran>>

\* The device may request interrupts for what it receives, and no others.
UartControl ==
  /\ Step("uart")
  /\ ie' = ie \cup {Arg} /\ inited' = inited \cup {Irq[Arg]}
  /\ requests' \in {requests, requests \ {Arg}}
  /\ UNCHANGED <<irqVars, heapVars, next, streams, ran>>

\* alt_dev_reg, alt_fs_reg and the list of the controllers: alt_llist_insert, here for one direction.
Insert ==
  /\ Step("insert")
  /\ LET entry == Arg[1] list == Arg[2]
     IN next' = [next EXCEPT ![entry] = next[list], ![list] = entry]
  /\ UNCHANGED <<irqVars, heapVars, streams, requests, ie, ran, inited>>

\* The streams get the device of the console if it is in the list, which has at most two
\* devices; otherwise they stay with the null device.
Redirect ==
  /\ Step("redirect")
  /\ streams' = IF jtag_uart \in {next[alt_dev_list], next[next[alt_dev_list]]}
                THEN [fd \in 0 .. 2 |-> jtag_uart] ELSE streams
  /\ UNCHANGED <<irqVars, heapVars, next, requests, ie, ran, inited>>

Run ==
  /\ Step("run") /\ ran' = Append(ran, Arg)
  /\ UNCHANGED <<irqVars, heapVars, next, streams, requests, ie, inited>>

-----------------------------------------------------------------------------
(* main, and the calls it makes *)

InMain == At("main") /\ UNCHANGED <<next, streams, ran, inited, killed, resets>>

\* It returns, close(STDOUT_FILENO) leaves the stream as it is, and exit calls the destructors.
MainReturns ==
  /\ InMain /\ call = NULL /\ at' = at + 1
  /\ UNCHANGED <<irqVars, heapVars, requests, ie, call>>

Begin(name, arg) ==
  /\ InMain /\ call = NULL /\ call' = <<name, arg>> /\ UNCHANGED <<heapVars, at, requests, ie>>
  /\ alt_irq_disable_all

\* alt_sbrk, and alt_ic_isr_register with a handler or without one.  A shrinking heap gives back
\* what it has got before.
Sbrk == \E incr \in Increments : heap_end + incr >= alt_heap_start /\ Begin("sbrk", incr)
Change == \E id \in Irqs, on \in BOOLEAN : Begin("register", <<id, on>>)

SbrkBody ==
  /\ InMain /\ call # NULL /\ call[1] = "sbrk" /\ Move(call[2]) /\ call' = <<"end", NULL>>
  /\ UNCHANGED <<irqVars, at, requests, ie>>

SetBody ==
  /\ InMain /\ call # NULL /\ call[1] = "register"
  /\ SetHandler(call[2][1], IF call[2][2] THEN Irq[call[2][1]] ELSE NULL)
  /\ call' = <<"inner", call[2][1]>>
  /\ UNCHANGED <<heapVars, at, requests, ie>>

\* alt_irq_enable or alt_irq_disable: a section of its own within that of the call.
InnerDisable ==
  /\ InMain /\ call # NULL /\ call[1] = "inner" /\ alt_irq_disable_all /\ call' = <<"mask", call[2]>>
  /\ UNCHANGED <<heapVars, at, requests, ie>>
InnerMask ==
  /\ InMain /\ call # NULL /\ call[1] = "mask" /\ EnableRegistered(call[2]) /\ call' = <<"leave", call[2]>>
  /\ UNCHANGED <<heapVars, at, requests, ie>>
InnerRestore ==
  /\ InMain /\ call # NULL /\ call[1] = "leave" /\ alt_irq_enable_all /\ call' = <<"end", NULL>>
  /\ UNCHANGED <<heapVars, at, requests, ie>>

End ==
  /\ InMain /\ call # NULL /\ call[1] = "end" /\ alt_irq_enable_all /\ call' = NULL
  /\ UNCHANGED <<heapVars, at, requests, ie>>

\* A controller is started with its interrupts enabled, which registering a callback does.
StartSgdma(id) ==
  /\ InMain /\ call = NULL /\ ie' = ie \cup {id} /\ UNCHANGED <<irqVars, heapVars, at, requests, call>>

Stack == InMain /\ (Push \/ Pop) /\ UNCHANGED <<irqVars, at, requests, ie, call>>

\* A process that can be signalled is this one: 0 and the like, as getpid returns 0.  Most
\* signals end the program at once, without destructors; the others do nothing.
alt_kill(pid, ends) ==
  /\ At("main") /\ call = NULL
  /\ IF pid <= 0 /\ ends THEN at' = Len(Steps) /\ killed' = TRUE ELSE UNCHANGED <<at, killed>>
  /\ UNCHANGED <<irqVars, heapVars, next, streams, requests, ie, ran, inited, call, resets>>
-----------------------------------------------------------------------------
(* Devices and interrupts *)

Request(id) ==
  /\ id \in ie \ requests /\ requests' = requests \cup {id}
  /\ UNCHANGED <<irqVars, heapVars, at, next, streams, ie, ran, inited, killed, call, resets>>

Interrupt ==
  /\ TakeInterrupt(requests)
  /\ UNCHANGED <<heapVars, at, next, streams, requests, ie, ran, inited, killed, call, resets>>

\* The handler serves its device and returns.
Serve ==
  /\ isr # NULL /\ handler[isr] # NULL
  /\ requests' = requests \ {isr} /\ ReturnFromHandler(requests')
  /\ UNCHANGED <<heapVars, at, next, streams, ie, ran, inited, killed, call, resets>>

\* The processor comes out of reset with interrupts disabled; its other registers are undefined.
\* Devices may be reset with it, and the memory keeps its contents.
Reset ==
  /\ resets < MaxResets /\ resets' = resets + 1
  /\ at' = 1 /\ status' = FALSE /\ ienable' \in SUBSET Irqs /\ contexts' = <<>> /\ isr' = NULL
  /\ \/ requests' = {} /\ ie' = {}
     \/ UNCHANGED <<requests, ie>>
  /\ ran' = <<>> /\ inited' = {} /\ killed' = FALSE /\ call' = NULL
  /\ stack_limit' = alt_heap_start /\ stack_pointer' = alt_heap_limit /\ overflown' = FALSE
  /\ UNCHANGED <<heap_end, checks, memory>>

-----------------------------------------------------------------------------

\* The program has been loaded, and the processor and all devices have been reset.
Init ==
  /\ status = FALSE /\ ienable \in SUBSET Irqs /\ contexts = <<>> /\ isr = NULL
  /\ alt_irq_active = {} /\ handler = [id \in Irqs |-> NULL] /\ next = InitialLists
  /\ streams = NullStreams
  /\ HeapInit
  /\ at = 1 /\ requests = {} /\ ie = {} /\ ran = <<>> /\ inited = {} /\ killed = FALSE /\ call = NULL /\ resets = 0

StartupStep == clear_bss \/ alt_load \/ InitIrq \/ RegisterStep \/ SgdmaReset \/ UartControl \/ Insert \/ Redirect \/ Run

MainStep ==
  \/ MainReturns \/ Sbrk \/ Change \/ SbrkBody \/ SetBody \/ InnerDisable \/ InnerMask \/ InnerRestore \/ End
  \/ Stack \/ \E id \in {0, 1} : StartSgdma(id)
  \/ \E pid \in {-1, 0, 1}, ends \in BOOLEAN : alt_kill(pid, ends)

Next == StartupStep \/ MainStep \/ Interrupt \/ Serve \/ Reset \/ \E id \in Irqs : Request(id)

\* A handler returns, and between interrupts, which come at the pace of a host, the processor goes on.
Spec == Init /\ [][Next]_mainVars /\ SF_mainVars(StartupStep) /\ WF_mainVars(Serve)

-----------------------------------------------------------------------------
(* Properties *)

\* An interrupt calls a handler that is in the table, for a device that has been initialised since
\* the last reset: alt_irq_handler asks for neither, and a device may request interrupts for what
\* the program before the reset had started.
HandlersReady == isr # NULL => handler[isr] # NULL /\ Irq[isr] \in inited

\* Sections without interrupts nest: within one of them interrupts stay disabled, and when the last
\* one has been left they are enabled again.
SectionsNest ==
  at > 4 /\ isr = NULL => (status <=> contexts = <<>>)

\* Whatever the last program has left in the memory and the devices, main finds the console on its
\* streams, each device once in its list, an empty heap, all interrupts enabled, no controller that
\* may request one, and the constructors run.
MainStartsClean ==
  [][at # MainAt /\ at' = MainAt =>
       /\ next' = [InitialLists EXCEPT ![alt_dev_list] = jtag_uart, ![jtag_uart] = alt_dev_null,
                                       ![alt_fs_list] = hostfs, ![hostfs] = alt_fs_list,
                                       ![alt_sgdma_list] = sgdma_out, ![sgdma_out] = sgdma_in,
                                       ![sgdma_in] = alt_sgdma_list]
       /\ streams' = [fd \in 0 .. 2 |-> jtag_uart] /\ heap_end' = alt_heap_start
       /\ handler' = Irq /\ ienable' = Irqs /\ alt_irq_active' = Irqs /\ ie' = {2}
       /\ ran' = Reverse(Ctors)]_mainVars

\* A program that ends on its own has run the destructors, the last one first.
EndsInOrder == at = Len(Steps) /\ ~killed => ran = Reverse(Ctors) \o Reverse(Dtors)

\* A start reaches main, whatever interrupts come, unless it is reset.
StartReachesMain == at < MainAt ~> at >= MainAt

\* Interrupts, in the order of the calls that prepare, disable and enable them.
InterruptsKept == HandlersReady /\ SectionsNest

\* Every start, also one after a reset, begins main with a fresh system, and a program that ends
\* has destructed what was constructed.
StartsAndEndsClean == MainStartsClean /\ []EndsInOrder
===============================================================================
