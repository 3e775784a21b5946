--------------------------- MODULE alt_main_proofs ---------------------------
(***************************************************************************)
(* The start of the system and its calls that change interrupts or the     *)
(* heap, for any number of resets, any constructors and destructors and    *)
(* any memory; and what the address map gives the drivers.                 *)
(***************************************************************************)
EXTENDS alt_main, SequenceTheorems, TLAPS

-----------------------------------------------------------------------------
(* The inductive invariant *)

\* Where in the start an interrupt gets its device ready, its handler, and is enabled.
DeviceAt(id) == IF id = 2 THEN 5 ELSE IF id = 0 THEN 13 ELSE 21
HandlerAt(id) == IF id = 2 THEN 7 ELSE IF id = 0 THEN 16 ELSE 24
EnableAt(id) == IF id = 2 THEN 9 ELSE IF id = 0 THEN 18 ELSE 26

\* The table of handlers, the mask, the lists and the constructors that have run, in front of step p.
TableAt(p) == [id \in Irqs |-> IF p > HandlerAt(id) THEN Irq[id] ELSE NULL]
MaskAt(p) == {id \in Irqs : p > EnableAt(id)}
StreamsAt(p) == IF p > 30 THEN [fd \in 0 .. 2 |-> jtag_uart] ELSE NullStreams
ListsAt(p) ==
  [x \in Lists \cup Entries |->
     CASE x = alt_dev_list -> IF p > 12 THEN jtag_uart ELSE alt_dev_null
       [] x = alt_dev_null -> alt_dev_list
       [] x = jtag_uart -> IF p > 12 THEN alt_dev_null ELSE NULL
       [] x = alt_sgdma_list -> IF p > 22 THEN sgdma_out ELSE IF p > 14 THEN sgdma_in ELSE x
       [] x = sgdma_in -> IF p > 14 THEN alt_sgdma_list ELSE NULL
       [] x = sgdma_out -> IF p > 22 THEN sgdma_in ELSE NULL
       [] x = alt_fs_list -> IF p > 29 THEN hostfs ELSE x
       [] x = hostfs -> IF p > 29 THEN alt_fs_list ELSE NULL]
RanAt(p) == [i \in 1 .. (IF p > 31 THEN p - 31 ELSE 0) |-> Ctors[Len(Ctors) + 1 - i]]

\* What the program finds in front of step p of its start, whatever was there before the reset: each
\* part of it once the step that prepares it is over.
Fresh(p) ==
  /\ p > 1 => handler = TableAt(p) /\ alt_irq_active = MaskAt(p)
  /\ p > 2 => heap_end = alt_heap_start /\ next = ListsAt(p) /\ streams = StreamsAt(p)
  /\ p > 3 => ienable = MaskAt(p)
  /\ \A id \in Irqs : p > DeviceAt(id) => Irq[id] \in inited /\ (id \in ie <=> id = 2)
  /\ ran = RanAt(p)

\* How many sections without interrupts the program is in.
Depth ==
  IF at = MainAt THEN IF call = NULL THEN 0 ELSE IF call[1] \in {"mask", "leave"} THEN 2 ELSE 1
  ELSE IF at \in {7, 8, 11, 16, 17, 20, 24, 25, 28} THEN 1
  ELSE IF at \in {9, 10, 18, 19, 26, 27} THEN 2 ELSE 0

\* What so many sections will restore.  An interrupt is only serviced outside of all of them.
Saved(d) == IF d = 0 THEN <<>> ELSE IF d = 1 THEN <<TRUE>> ELSE <<FALSE, TRUE>>
SectionInv ==
  /\ contexts = Saved(Depth)
  /\ isr = NULL => (status <=> at > 4 /\ Depth = 0)
  /\ isr # NULL => ~status /\ at > 4 /\ Depth = 0

\* In main the devices are ready, and interrupts that are enabled have a handler, except while one
\* is taken away.
RunningInv ==
  /\ \A id \in Irqs : Irq[id] \in inited
  /\ ienable = alt_irq_active
  /\ \A id \in ienable : handler[id] = NULL => call # NULL /\ call[1] \in {"inner", "mask"} /\ id = call[2]

\* A change of the heap that is under way has been found not to shrink it too far.
CallInv ==
  /\ call # NULL => at = MainAt
  /\ call # NULL /\ call[1] = "sbrk" => heap_end + call[2] >= alt_heap_start

\* What has run when main is over.
RanInv ==
  /\ at = MainAt => ran = Reverse(Ctors)
  /\ at > MainAt /\ ~killed => ran = Reverse(Ctors) \o [i \in 1 .. at - MainAt - 1 |-> Dtors[Len(Dtors) + 1 - i]]
  /\ killed => at = Len(Steps)

Types ==
  /\ at \in 1 .. Len(Steps) /\ ie \subseteq Irqs /\ requests \subseteq Irqs
  /\ ienable \subseteq Irqs /\ alt_irq_active \subseteq Irqs
  /\ handler \in [Irqs -> Entries \cup {NULL}] /\ isr \in Irqs \cup {NULL}
  /\ status \in BOOLEAN /\ killed \in BOOLEAN /\ call \in Calls \cup {NULL}
  /\ inited \subseteq Entries /\ next \in [Lists \cup Entries -> Lists \cup Entries \cup {NULL}]

HeapInv ==
  /\ heap_end \in alt_heap_start .. alt_heap_limit
  /\ stack_limit \in Int /\ stack_pointer \in Int /\ checks \in BOOLEAN /\ overflown \in BOOLEAN
  /\ checks /\ ~overflown => stack_limit <= stack_pointer

MainInv ==
  /\ Types /\ HeapInv /\ SectionInv /\ CallInv /\ RanInv /\ HandlersReady
  /\ \A p \in 1 .. MainAt - 1 : at = p => Fresh(p)
  /\ at >= MainAt => RunningInv

-----------------------------------------------------------------------------
(* The steps *)

\* The lists and the devices are different objects.
LEMMA Distinct ==
  /\ NULL \notin Lists \cup Entries
  /\ alt_dev_list \notin {alt_fs_list, alt_sgdma_list} \cup Entries
  /\ alt_fs_list \notin {alt_sgdma_list} \cup Entries
  /\ alt_sgdma_list \notin Entries
  /\ sgdma_in \notin {sgdma_out, jtag_uart, hostfs, alt_dev_null}
  /\ sgdma_out \notin {jtag_uart, hostfs, alt_dev_null}
  /\ jtag_uart \notin {hostfs, alt_dev_null} /\ hostfs # alt_dev_null
<1> DEFINE objects == <<NULL, alt_dev_list, alt_fs_list, alt_sgdma_list, sgdma_in, sgdma_out, jtag_uart, hostfs,
                        alt_dev_null>>
<1>1. \A i, j \in 1 .. 9 : objects[i] = objects[j] => i = j
  BY MainAssumption DEF MainAssumption
<1>2. ASSUME NEW i \in 1 .. 9, NEW j \in 1 .. 9, i # j PROVE objects[i] # objects[j]
  BY <1>1, <1>2
<1>3. /\ objects[1] = NULL /\ objects[2] = alt_dev_list /\ objects[3] = alt_fs_list
      /\ objects[4] = alt_sgdma_list /\ objects[5] = sgdma_in /\ objects[6] = sgdma_out
      /\ objects[7] = jtag_uart /\ objects[8] = hostfs /\ objects[9] = alt_dev_null
  OBVIOUS
<1> HIDE DEF objects
<1>4. NULL \notin Lists \cup Entries
  BY <1>2, <1>3 DEF Lists, Entries
<1>5. alt_dev_list \notin {alt_fs_list, alt_sgdma_list} \cup Entries /\ alt_fs_list \notin {alt_sgdma_list} \cup Entries
  BY <1>2, <1>3 DEF Entries
<1>6. alt_sgdma_list \notin Entries
  BY <1>2, <1>3 DEF Entries
<1>7. /\ sgdma_in \notin {sgdma_out, jtag_uart, hostfs, alt_dev_null}
      /\ sgdma_out \notin {jtag_uart, hostfs, alt_dev_null}
      /\ jtag_uart \notin {hostfs, alt_dev_null} /\ hostfs # alt_dev_null
  BY <1>2, <1>3
<1> QED
  BY <1>4, <1>5, <1>6, <1>7

\* The interrupts and their devices.
LEMMA Constants ==
  /\ Irqs = {0, 1, 2} /\ Irq \in [Irqs -> Entries]
  /\ Irq[0] = sgdma_in /\ Irq[1] = sgdma_out /\ Irq[2] = jtag_uart
  /\ NULL \notin Irqs /\ NULL \notin Calls
  /\ Len(Ctors) \in Nat /\ Len(Dtors) \in Nat
<1>1. SGDMA_IN.IRQ = 0 /\ SGDMA_OUT.IRQ = 1 /\ JTAG_UART.IRQ = 2
  BY DEF SGDMA_IN, SGDMA_OUT, JTAG_UART
<1>2. Irqs = {0, 1, 2} /\ NULL \notin Irqs /\ NULL \notin Calls
  BY <1>1, MainAssumption, IrqAssumption DEF MainAssumption, IrqAssumption
<1>3. Irq = [id \in Irqs |-> CASE id = 0 -> sgdma_in [] id = 1 -> sgdma_out [] id = 2 -> jtag_uart]
  BY <1>1 DEF Irq
<1>4. Len(Ctors) \in Nat /\ Len(Dtors) \in Nat
  BY MainAssumption DEF MainAssumption
<1>5. Irq[0] = sgdma_in /\ Irq[1] = sgdma_out /\ Irq[2] = jtag_uart
  BY <1>2, <1>3
<1>6. Irq \in [Irqs -> Entries]
  <2> DEFINE device(id) == CASE id = 0 -> sgdma_in [] id = 1 -> sgdma_out [] id = 2 -> jtag_uart
  <2>1. ASSUME NEW id \in Irqs PROVE device(id) \in Entries
    BY <1>2 DEF Entries
  <2> HIDE DEF device
  <2>2. [id \in Irqs |-> device(id)] \in [Irqs -> Entries]
    BY <2>1
  <2> QED
    BY <1>3, <2>2, Zenon DEF device
<1> QED
  BY <1>2, <1>4, <1>5, <1>6

\* A sequence of n elements, of whatever kind.
Listed(s, n) == n \in Nat /\ s = [i \in 1 .. n |-> s[i]]

\* A sequence of k elements that are those of two others.
Joined(r, k, s, n, t, m) ==
  /\ Len(r) = k /\ Listed(r, k)
  /\ (\A i \in 1 .. n : r[i] = s[i]) /\ (\A i \in 1 .. m : r[n + i] = t[i])

\* Where the elements of two sequences are when they are joined.
LEMMA Join ==
  ASSUME NEW n, NEW m, NEW s, NEW t, NEW k, k = n + m, Listed(s, n), Listed(t, m)
  PROVE  Joined(s \o t, k, s, n, t, m)
<1> DEFINE A == {s[i] : i \in 1 .. n} \cup {t[i] : i \in 1 .. m}
<1>1. s \in [1 .. n -> A] /\ t \in [1 .. m -> A] /\ n \in Nat /\ m \in Nat
  BY DEF Listed
<1> HIDE DEF A
<1>2. s \in Seq(A) /\ t \in Seq(A) /\ Len(s) = n /\ Len(t) = m
  BY <1>1
<1> DEFINE r == s \o t
<1>3. /\ r \in Seq(A) /\ Len(r) = n + m
      /\ \A i \in 1 .. n + m : r[i] = IF i <= n THEN s[i] ELSE t[i - n]
  BY <1>2, ConcatProperties
<1> HIDE DEF r
<1>4. r \in [1 .. n + m -> A]
  BY <1>3, LenProperties
<1>5. r = [i \in 1 .. n + m |-> r[i]] /\ n + m \in Nat
  BY <1>1, <1>4
<1>6. \A i \in 1 .. n : i \in 1 .. n + m /\ i <= n
  BY <1>1
<1>7. \A i \in 1 .. m : n + i \in 1 .. n + m /\ ~(n + i <= n) /\ (n + i) - n = i
  BY <1>1
<1>8. (\A i \in 1 .. n : r[i] = s[i]) /\ (\A i \in 1 .. m : r[n + i] = t[i])
  BY <1>3, <1>6, <1>7
<1> QED
  BY <1>3, <1>5, <1>8 DEF Listed, Joined, r

\* The start up to the constructors, in one piece.
Prefix ==
  <<Does("clear_bss", NULL), Does("alt_load", NULL)>> \o alt_irq_init \o alt_sys_init \o <<Does("redirect", NULL)>>

\* The start up to the constructors, step by step.
LEMMA PrefixIs ==
  /\ Listed(Prefix, 30)
  /\ Prefix[1] = Does("clear_bss", NULL) /\ Prefix[2] = Does("alt_load", NULL)
  /\ Prefix[3] = Does("irq_init", NULL) /\ Prefix[4] = Does("cpu_enable", NULL)
  /\ Prefix[5] = Does("uart", 2) /\ Prefix[6] = Does("disable", 2) /\ Prefix[7] = Does("handler", 2)
  /\ Prefix[8] = Does("disable", 2) /\ Prefix[9] = Does("enable", 2) /\ Prefix[10] = Does("restore", 2)
  /\ Prefix[11] = Does("restore", 2) /\ Prefix[12] = Does("insert", <<jtag_uart, alt_dev_list>>)
  /\ Prefix[13] = Does("sgdma", 0) /\ Prefix[14] = Does("insert", <<Irq[0], alt_sgdma_list>>)
  /\ Prefix[15] = Does("disable", 0) /\ Prefix[16] = Does("handler", 0) /\ Prefix[17] = Does("disable", 0)
  /\ Prefix[18] = Does("enable", 0) /\ Prefix[19] = Does("restore", 0) /\ Prefix[20] = Does("restore", 0)
  /\ Prefix[21] = Does("sgdma", 1) /\ Prefix[22] = Does("insert", <<Irq[1], alt_sgdma_list>>)
  /\ Prefix[23] = Does("disable", 1) /\ Prefix[24] = Does("handler", 1) /\ Prefix[25] = Does("disable", 1)
  /\ Prefix[26] = Does("enable", 1) /\ Prefix[27] = Does("restore", 1) /\ Prefix[28] = Does("restore", 1)
  /\ Prefix[29] = Does("insert", <<hostfs, alt_fs_list>>) /\ Prefix[30] = Does("redirect", NULL)
<1>1. Listed(Prefix, 30)
  BY DEF Listed, Prefix, alt_irq_init, alt_sys_init, UartInit, SgdmaInit, Register
<1>2. /\ Prefix[1] = Does("clear_bss", NULL) /\ Prefix[2] = Does("alt_load", NULL)
      /\ Prefix[3] = Does("irq_init", NULL) /\ Prefix[4] = Does("cpu_enable", NULL)
      /\ Prefix[5] = Does("uart", 2) /\ Prefix[6] = Does("disable", 2) /\ Prefix[7] = Does("handler", 2)
      /\ Prefix[8] = Does("disable", 2) /\ Prefix[9] = Does("enable", 2) /\ Prefix[10] = Does("restore", 2)
      /\ Prefix[11] = Does("restore", 2) /\ Prefix[12] = Does("insert", <<jtag_uart, alt_dev_list>>)
  BY DEF Prefix, alt_irq_init, alt_sys_init, UartInit, SgdmaInit, Register
<1>3. /\ Prefix[13] = Does("sgdma", 0) /\ Prefix[14] = Does("insert", <<Irq[0], alt_sgdma_list>>)
      /\ Prefix[15] = Does("disable", 0) /\ Prefix[16] = Does("handler", 0) /\ Prefix[17] = Does("disable", 0)
      /\ Prefix[18] = Does("enable", 0) /\ Prefix[19] = Does("restore", 0) /\ Prefix[20] = Does("restore", 0)
  BY DEF Prefix, alt_irq_init, alt_sys_init, UartInit, SgdmaInit, Register
<1>4. /\ Prefix[21] = Does("sgdma", 1) /\ Prefix[22] = Does("insert", <<Irq[1], alt_sgdma_list>>)
      /\ Prefix[23] = Does("disable", 1) /\ Prefix[24] = Does("handler", 1) /\ Prefix[25] = Does("disable", 1)
      /\ Prefix[26] = Does("enable", 1) /\ Prefix[27] = Does("restore", 1) /\ Prefix[28] = Does("restore", 1)
      /\ Prefix[29] = Does("insert", <<hostfs, alt_fs_list>>) /\ Prefix[30] = Does("redirect", NULL)
  BY DEF Prefix, alt_irq_init, alt_sys_init, UartInit, SgdmaInit, Register
<1> QED
  BY <1>1, <1>2, <1>3, <1>4

\* What runs a list of constructors or destructors.
LEMMA RunsIs ==
  ASSUME NEW list, Len(list) \in Nat
  PROVE  /\ Listed(Runs(list), Len(list))
         /\ \A i \in 1 .. Len(list) : Runs(list)[i] = Does("run", list[Len(list) + 1 - i])
BY DEF Listed, Runs

\* A sequence of one element.
LEMMA OneIs ==
  ASSUME NEW x
  PROVE  Listed(<<x>>, 1) /\ <<x>>[1] = x
BY DEF Listed

\* All of the steps: the start, main, the destructors and the end.
LEMMA StepsAre ==
  /\ MainAt = Len(Ctors) + 31 /\ Len(Steps) = MainAt + Len(Dtors) + 1
  /\ \A i \in 1 .. 30 : Steps[i] = Prefix[i]
  /\ \A i \in 1 .. Len(Ctors) : Steps[30 + i] = Does("run", Ctors[Len(Ctors) + 1 - i])
  /\ Steps[MainAt] = Does("main", NULL)
  /\ \A i \in 1 .. Len(Dtors) : Steps[MainAt + i] = Does("run", Dtors[Len(Dtors) + 1 - i])
  /\ Steps[Len(Steps)] = Does("exit", NULL)
<1> DEFINE c == Len(Ctors)
<1> DEFINE d == Len(Dtors)
<1>0. c \in Nat /\ d \in Nat
  BY Constants
<1> DEFINE rc == Runs(Ctors)
<1> DEFINE rd == Runs(Dtors)
<1>1. /\ Listed(rc, c) /\ \A i \in 1 .. c : rc[i] = Does("run", Ctors[c + 1 - i])
      /\ Listed(rd, d) /\ \A i \in 1 .. d : rd[i] = Does("run", Dtors[d + 1 - i])
  BY <1>0, RunsIs
<1> DEFINE m == <<Does("main", NULL)>>
<1> DEFINE e == <<Does("exit", NULL)>>
<1>2. Listed(m, 1) /\ Listed(e, 1) /\ m[1] = Does("main", NULL) /\ e[1] = Does("exit", NULL)
  BY OneIs
<1> DEFINE a1 == Prefix \o rc
<1> DEFINE a2 == a1 \o m
<1> DEFINE a3 == a2 \o rd
<1> DEFINE a4 == a3 \o e
<1>3. Startup = a1 /\ Steps = a4
  BY DEF Startup, Steps, Prefix
<1> DEFINE n1 == 30 + c
<1> DEFINE n2 == n1 + 1
<1> DEFINE n3 == n2 + d
<1> HIDE DEF c, d, rc, rd, m, e, n1, n2, n3
<1>4. Joined(a1, n1, Prefix, 30, rc, c)
  BY <1>1, PrefixIs, Join DEF n1
<1> HIDE DEF a1
<1>5. Joined(a2, n2, a1, n1, m, 1)
  <2>1. Listed(a1, n1)
    BY <1>4 DEF Joined
  <2> QED
    BY <1>2, <2>1, Join DEF n2
<1> HIDE DEF a2
<1>6. Joined(a3, n3, a2, n2, rd, d)
  <2>1. Listed(a2, n2)
    BY <1>5 DEF Joined
  <2> QED
    BY <1>1, <2>1, Join DEF n3
<1> HIDE DEF a3
<1>7. Joined(a4, n3 + 1, a3, n3, e, 1)
  <2>1. Listed(a3, n3)
    BY <1>6 DEF Joined
  <2> QED
    BY <1>2, <2>1, Join
<1> HIDE DEF a4
<1>8. MainAt = c + 31 /\ Len(Steps) = MainAt + d + 1
  BY <1>0, <1>3, <1>4, <1>7 DEF MainAt, Joined, n1, n2, n3
<1>9. \A i \in 1 .. 30 : Steps[i] = Prefix[i]
  <2> SUFFICES ASSUME NEW i \in 1 .. 30 PROVE Steps[i] = Prefix[i]
    OBVIOUS
  <2>1. i \in 1 .. n1 /\ i \in 1 .. n2 /\ i \in 1 .. n3
    BY <1>0 DEF n1, n2, n3
  <2>2. a4[i] = a3[i] /\ a3[i] = a2[i] /\ a2[i] = a1[i] /\ a1[i] = Prefix[i]
    BY <2>1, <1>4, <1>5, <1>6, <1>7 DEF Joined
  <2> QED
    BY <1>3, <2>2
<1>10. \A i \in 1 .. c : Steps[30 + i] = rc[i]
  <2> SUFFICES ASSUME NEW i \in 1 .. c PROVE Steps[30 + i] = rc[i]
    OBVIOUS
  <2> DEFINE j == 30 + i
  <2>1. j \in 1 .. n1 /\ j \in 1 .. n2 /\ j \in 1 .. n3
    BY <1>0 DEF n1, n2, n3
  <2>2. a1[j] = rc[i]
    BY <1>4 DEF Joined
  <2> HIDE DEF j
  <2>3. a4[j] = a3[j] /\ a3[j] = a2[j] /\ a2[j] = a1[j]
    BY <2>1, <1>5, <1>6, <1>7 DEF Joined
  <2> QED
    BY <1>3, <2>2, <2>3 DEF j
<1>11. Steps[MainAt] = m[1]
  <2>1. MainAt = n1 + 1 /\ MainAt \in 1 .. n2 /\ MainAt \in 1 .. n3
    BY <1>0, <1>8 DEF n1, n2, n3
  <2> QED
    BY <1>3, <1>5, <1>6, <1>7, <2>1 DEF Joined
<1>12. \A i \in 1 .. d : Steps[MainAt + i] = rd[i]
  <2> SUFFICES ASSUME NEW i \in 1 .. d PROVE Steps[MainAt + i] = rd[i]
    OBVIOUS
  <2> DEFINE j == n2 + i
  <2>1. j \in 1 .. n3 /\ MainAt + i = j
    BY <1>0, <1>8 DEF n1, n2, n3
  <2>2. a3[j] = rd[i]
    BY <1>6 DEF Joined
  <2> HIDE DEF j
  <2>3. a4[j] = a3[j]
    BY <2>1, <1>7 DEF Joined
  <2> QED
    BY <1>3, <2>1, <2>2, <2>3
<1>13. Steps[Len(Steps)] = e[1]
  <2>1. Len(Steps) = n3 + 1
    BY <1>3, <1>7 DEF Joined
  <2> QED
    BY <1>3, <1>7, <2>1 DEF Joined
<1> QED
  BY <1>1, <1>2, <1>8, <1>9, <1>10, <1>11, <1>12, <1>13 DEF c, d

\* What each step of the start does.
LEMMA Operations ==
  /\ Prefix[1].op = "clear_bss" /\ Prefix[2].op = "alt_load" /\ Prefix[3].op = "irq_init"
  /\ Prefix[4].op = "cpu_enable" /\ Prefix[5].op = "uart"
  /\ Prefix[13].op = "sgdma" /\ Prefix[21].op = "sgdma"
  /\ Prefix[30].op = "redirect"
  /\ \A i \in {6, 8, 15, 17, 23, 25} : Prefix[i].op = "disable"
  /\ \A i \in {12, 14, 22, 29} : Prefix[i].op = "insert"
  /\ \A i \in {7, 16, 24} : Prefix[i].op = "handler"
  /\ \A i \in {9, 18, 26} : Prefix[i].op = "enable"
  /\ \A i \in {10, 11, 19, 20, 27, 28} : Prefix[i].op = "restore"
  /\ Prefix[5].arg = 2 /\ Prefix[7].arg = 2 /\ Prefix[9].arg = 2
  /\ Prefix[13].arg = 0 /\ Prefix[16].arg = 0 /\ Prefix[18].arg = 0
  /\ Prefix[21].arg = 1 /\ Prefix[24].arg = 1 /\ Prefix[26].arg = 1
  /\ Prefix[12].arg = <<jtag_uart, alt_dev_list>> /\ Prefix[14].arg = <<sgdma_in, alt_sgdma_list>>
  /\ Prefix[22].arg = <<sgdma_out, alt_sgdma_list>> /\ Prefix[29].arg = <<hostfs, alt_fs_list>>
<1>1. \A op, arg : Does(op, arg).op = op /\ Does(op, arg).arg = arg
  BY DEF Does
<1>2. Irq[0] = sgdma_in /\ Irq[1] = sgdma_out
  BY Constants
<1>3. /\ Prefix[1].op = "clear_bss" /\ Prefix[2].op = "alt_load" /\ Prefix[3].op = "irq_init"
      /\ Prefix[4].op = "cpu_enable" /\ Prefix[5].op = "uart"
      /\ Prefix[13].op = "sgdma" /\ Prefix[21].op = "sgdma" /\ Prefix[30].op = "redirect"
  BY <1>1, PrefixIs
<1>4. \A i \in {6, 8, 15, 17, 23, 25} : Prefix[i].op = "disable"
  BY <1>1, PrefixIs
<1>5. \A i \in {12, 14, 22, 29} : Prefix[i].op = "insert"
  BY <1>1, PrefixIs
<1>6. (\A i \in {7, 16, 24} : Prefix[i].op = "handler") /\ (\A i \in {9, 18, 26} : Prefix[i].op = "enable")
  BY <1>1, PrefixIs
<1>7. \A i \in {10, 11, 19, 20, 27, 28} : Prefix[i].op = "restore"
  BY <1>1, PrefixIs
<1>8. /\ Prefix[5].arg = 2 /\ Prefix[7].arg = 2 /\ Prefix[9].arg = 2
      /\ Prefix[13].arg = 0 /\ Prefix[16].arg = 0 /\ Prefix[18].arg = 0
      /\ Prefix[21].arg = 1 /\ Prefix[24].arg = 1 /\ Prefix[26].arg = 1
  BY <1>1, PrefixIs
<1>9. Prefix[12].arg = <<jtag_uart, alt_dev_list>> /\ Prefix[29].arg = <<hostfs, alt_fs_list>>
  BY PrefixIs DEF Does
<1>10. Prefix[14].arg = <<Irq[0], alt_sgdma_list>> /\ Prefix[22].arg = <<Irq[1], alt_sgdma_list>>
  BY PrefixIs DEF Does
<1> QED
  BY <1>2, <1>3, <1>4, <1>5, <1>6, <1>7, <1>8, <1>9, <1>10

\* Step p does this operation.
Op(p, op) == Steps[p].op = op

\* Where the program is when it does what.
LEMMA Where ==
  ASSUME NEW p \in 1 .. Len(Steps)
  PROVE  /\ Op(p, "clear_bss") => p = 1
         /\ Op(p, "alt_load") => p = 2
         /\ Op(p, "irq_init") => p = 3
         /\ Op(p, "cpu_enable") => p = 4
         /\ Op(p, "uart") => p = 5
         /\ Op(p, "disable") => p \in {6, 8, 15, 17, 23, 25}
         /\ Op(p, "handler") => p \in {7, 16, 24}
         /\ Op(p, "enable") => p \in {9, 18, 26}
         /\ Op(p, "restore") => p \in {10, 11, 19, 20, 27, 28}
         /\ Op(p, "sgdma") => p \in {13, 21}
         /\ Op(p, "insert") => p \in {12, 14, 22, 29}
         /\ Op(p, "redirect") => p = 30
         /\ Op(p, "run") => p \in (31 .. MainAt - 1) \cup (MainAt + 1 .. Len(Steps) - 1)
         /\ Op(p, "main") => p = MainAt
<1>1. /\ Len(Ctors) \in Nat /\ Len(Dtors) \in Nat
      /\ MainAt = Len(Ctors) + 31 /\ Len(Steps) = MainAt + Len(Dtors) + 1
  BY Constants, StepsAre
<1>2. CASE p \in 1 .. 30
  <2>1. Steps[p].op = Prefix[p].op
    <3>1. \A i \in 1 .. 30 : Steps[i] = Prefix[i]
      BY StepsAre
    <3> QED
      BY <1>2, <3>1
  <2>2. CASE p \in {1}
    <3>1. Prefix[1].op = "clear_bss"
      BY Operations
    <3>2. Steps[p].op = "clear_bss"
      BY ONLY <2>1, <2>2, <3>1
    <3> QED
      BY <2>2, <3>2 DEF Op
  <2>3. CASE p \in {2}
    <3>1. Prefix[2].op = "alt_load"
      BY Operations
    <3>2. Steps[p].op = "alt_load"
      BY ONLY <2>1, <2>3, <3>1
    <3> QED
      BY <2>3, <3>2 DEF Op
  <2>4. CASE p \in {3}
    <3>1. Prefix[3].op = "irq_init"
      BY Operations
    <3>2. Steps[p].op = "irq_init"
      BY ONLY <2>1, <2>4, <3>1
    <3> QED
      BY <2>4, <3>2 DEF Op
  <2>5. CASE p \in {4}
    <3>1. Prefix[4].op = "cpu_enable"
      BY Operations
    <3>2. Steps[p].op = "cpu_enable"
      BY ONLY <2>1, <2>5, <3>1
    <3> QED
      BY <2>5, <3>2 DEF Op
  <2>6. CASE p \in {5}
    <3>1. Prefix[5].op = "uart"
      BY Operations
    <3>2. Steps[p].op = "uart"
      BY ONLY <2>1, <2>6, <3>1
    <3> QED
      BY <2>6, <3>2 DEF Op
  <2>7. CASE p \in {6, 8, 15, 17, 23, 25}
    <3>1. \A i \in {6, 8, 15, 17, 23, 25} : Prefix[i].op = "disable"
      BY Operations
    <3>2. Steps[p].op = "disable"
      BY ONLY <2>1, <2>7, <3>1
    <3> QED
      BY <2>7, <3>2 DEF Op
  <2>8. CASE p \in {7, 16, 24}
    <3>1. \A i \in {7, 16, 24} : Prefix[i].op = "handler"
      BY Operations
    <3>2. Steps[p].op = "handler"
      BY ONLY <2>1, <2>8, <3>1
    <3> QED
      BY <2>8, <3>2 DEF Op
  <2>9. CASE p \in {9, 18, 26}
    <3>1. \A i \in {9, 18, 26} : Prefix[i].op = "enable"
      BY Operations
    <3>2. Steps[p].op = "enable"
      BY ONLY <2>1, <2>9, <3>1
    <3> QED
      BY <2>9, <3>2 DEF Op
  <2>10. CASE p \in {10, 11, 19, 20, 27, 28}
    <3>1. \A i \in {10, 11, 19, 20, 27, 28} : Prefix[i].op = "restore"
      BY Operations
    <3>2. Steps[p].op = "restore"
      BY ONLY <2>1, <2>10, <3>1
    <3> QED
      BY <2>10, <3>2 DEF Op
  <2>11. CASE p \in {13, 21}
    <3>1. Prefix[13].op = "sgdma" /\ Prefix[21].op = "sgdma"
      BY Operations
    <3>2. Steps[p].op = "sgdma"
      BY ONLY <2>1, <2>11, <3>1
    <3> QED
      BY <2>11, <3>2 DEF Op
  <2>12. CASE p \in {12, 14, 22, 29}
    <3>1. \A i \in {12, 14, 22, 29} : Prefix[i].op = "insert"
      BY Operations
    <3>2. Steps[p].op = "insert"
      BY ONLY <2>1, <2>12, <3>1
    <3> QED
      BY <2>12, <3>2 DEF Op
  <2>13. CASE p \in {30}
    <3>1. Prefix[30].op = "redirect"
      BY Operations
    <3>2. Steps[p].op = "redirect"
      BY ONLY <2>1, <2>13, <3>1
    <3> QED
      BY <2>13, <3>2 DEF Op
  <2> QED
    BY <1>2, <2>2, <2>3, <2>4, <2>5, <2>6, <2>7, <2>8, <2>9, <2>10, <2>11, <2>12, <2>13
<1>3. CASE p \in 31 .. MainAt - 1
  <2>1. p - 30 \in 1 .. Len(Ctors) /\ 30 + (p - 30) = p
    BY <1>1, <1>3
  <2>2. Steps[p] = Does("run", Ctors[Len(Ctors) + 1 - (p - 30)])
    <3>1. \A i \in 1 .. Len(Ctors) : Steps[30 + i] = Does("run", Ctors[Len(Ctors) + 1 - i])
      BY StepsAre
    <3> QED
      BY <2>1, <3>1
  <2>3. Steps[p].op = "run"
    BY <2>2 DEF Does
  <2> QED
    BY <1>3, <2>3 DEF Op
<1>4. CASE p = MainAt
  <2>1. Steps[p].op = "main"
    BY <1>4, StepsAre DEF Does
  <2> QED
    BY <1>4, <2>1 DEF Op
<1>5. CASE p \in MainAt + 1 .. Len(Steps) - 1
  <2>1. p - MainAt \in 1 .. Len(Dtors) /\ MainAt + (p - MainAt) = p
    BY <1>1, <1>5
  <2>2. Steps[p] = Does("run", Dtors[Len(Dtors) + 1 - (p - MainAt)])
    <3>1. \A i \in 1 .. Len(Dtors) : Steps[MainAt + i] = Does("run", Dtors[Len(Dtors) + 1 - i])
      BY StepsAre
    <3> QED
      BY <2>1, <3>1
  <2>3. Steps[p].op = "run"
    BY <2>2 DEF Does
  <2> QED
    BY <1>5, <2>3 DEF Op
<1>6. CASE p = Len(Steps)
  <2>1. Steps[p].op = "exit"
    BY <1>6, StepsAre DEF Does
  <2> QED
    BY <2>1 DEF Op
<1> QED
  BY <1>1, <1>2, <1>3, <1>4, <1>5, <1>6

-----------------------------------------------------------------------------
(* The start *)

\* What the program does where, during its start and its end.
LEMMA StartAt ==
  ASSUME MainInv, StartupStep, NEW p \in Int, p = at
  PROVE  /\ p \in 1 .. Len(Steps) /\ isr = NULL /\ at' = p + 1 /\ UNCHANGED <<killed, call, resets, isr>>
         /\ \/ p = 1 /\ clear_bss
            \/ p = 2 /\ alt_load
            \/ p = 3 /\ InitIrq /\ altera_nios2_gen2_irq_init
            \/ p = 4 /\ InitIrq /\ alt_irq_cpu_enable_interrupts
            \/ p \in {6, 8, 15, 17, 23, 25} /\ RegisterStep /\ alt_irq_disable_all
            \/ p \in {7, 16, 24} /\ RegisterStep /\ SetHandler(Arg, Irq[Arg])
            \/ p \in {9, 18, 26} /\ RegisterStep /\ EnableRegistered(Arg)
            \/ p \in {10, 11, 19, 20, 27, 28} /\ RegisterStep /\ alt_irq_enable_all
            \/ p \in {13, 21} /\ SgdmaReset
            \/ p = 5 /\ UartControl
            \/ p \in {12, 14, 22, 29} /\ Insert
            \/ p = 30 /\ Redirect
            \/ p \in (31 .. MainAt - 1) \cup (MainAt + 1 .. Len(Steps) - 1) /\ Run
<1>1. p \in 1 .. Len(Steps) /\ \A op : Steps[at].op = op => Op(p, op)
  BY DEF MainInv, Types, Op
<1> USE DEF Step, At
<1>2. CASE clear_bss
  BY <1>1, <1>2, Where DEF clear_bss
<1>3. CASE alt_load
  BY <1>1, <1>3, Where DEF alt_load, irqVars
<1>4. CASE InitIrq
  BY <1>1, <1>4, Where DEF InitIrq, altera_nios2_gen2_irq_init, alt_irq_cpu_enable_interrupts
<1>5. CASE RegisterStep
  BY <1>1, <1>5, Where DEF RegisterStep, alt_irq_disable_all, SetHandler, EnableRegistered, alt_irq_enable,
                           alt_irq_disable, alt_irq_enable_all
<1>6. CASE SgdmaReset
  BY <1>1, <1>6, Where DEF SgdmaReset, irqVars
<1>7. CASE UartControl
  BY <1>1, <1>7, Where DEF UartControl, irqVars
<1>8. CASE Insert
  BY <1>1, <1>8, Where DEF Insert, irqVars
<1>9. CASE Redirect
  BY <1>1, <1>9, Where DEF Redirect, irqVars
<1>10. CASE Run
  BY <1>1, <1>10, Where DEF Run, irqVars
<1> QED
  BY <1>2, <1>3, <1>4, <1>5, <1>6, <1>7, <1>8, <1>9, <1>10 DEF StartupStep

\* The arguments of the steps.
LEMMA Arguments ==
  /\ Steps[5].arg = 2 /\ Steps[7].arg = 2 /\ Steps[9].arg = 2
  /\ Steps[13].arg = 0 /\ Steps[16].arg = 0 /\ Steps[18].arg = 0
  /\ Steps[21].arg = 1 /\ Steps[24].arg = 1 /\ Steps[26].arg = 1
  /\ Steps[12].arg = <<jtag_uart, alt_dev_list>> /\ Steps[14].arg = <<sgdma_in, alt_sgdma_list>>
  /\ Steps[22].arg = <<sgdma_out, alt_sgdma_list>> /\ Steps[29].arg = <<hostfs, alt_fs_list>>
<1>1. \A i \in {5, 7, 9, 12, 13, 14, 16, 18, 21, 22, 24, 26, 29} : Steps[i] = Prefix[i]
  <2>1. \A i \in 1 .. 30 : Steps[i] = Prefix[i]
    BY StepsAre
  <2> QED
    BY <2>1
<1> QED
  BY <1>1, Operations

-----------------------------------------------------------------------------
(* Sections without interrupts *)

\* Sequences as short as those.
LEMMA Short ==
  ASSUME NEW t, NEW f
  PROVE  /\ <<t>> \o <<>> = <<t>> /\ <<f>> \o <<t>> = <<f, t>>
         /\ Tail(<<t>>) = <<>> /\ Head(<<t>>) = t /\ Tail(<<f, t>>) = <<t>> /\ Head(<<f, t>>) = f
<1> DEFINE S == {t, f}
<1>1. <<f>> \in Seq(S) /\ <<t>> \in Seq(S) /\ <<f, t>> \in Seq(S)
  OBVIOUS
<1>2. <<t>> \o <<>> = <<t>>
  BY <1>1, ConcatEmptySeq
<1> DEFINE r == <<f>> \o <<t>>
<1>3. r \in Seq(S) /\ Len(r) = 2 /\ r[1] = f /\ r[2] = t
  BY <1>1, ConcatProperties
<1> DEFINE q == Tail(<<f, t>>)
<1>4. q \in Seq(S) /\ Len(q) = 1 /\ q[1] = t
  BY <1>1, HeadTailProperties
<1> HIDE DEF r, q
<1>5. r = <<f, t>>
  <2>1. \A i \in 1 .. Len(r) : r[i] = <<f, t>>[i]
    BY <1>3
  <2> QED
    BY <1>1, <1>3, <2>1, SeqEqual
<1>6. q = <<t>>
  <2>1. \A i \in 1 .. Len(q) : q[i] = <<t>>[i]
    BY <1>4
  <2> QED
    BY <1>1, <1>4, <2>1, SeqEqual
<1>7. Tail(<<t>>) = <<>>
  <2>1. Tail(<<t>>) \in Seq(S) /\ Len(Tail(<<t>>)) = 0
    BY <1>1, HeadTailProperties
  <2> QED
    BY <2>1, EmptySeq
<1>8. Head(<<t>>) = t /\ Head(<<f, t>>) = f
  OBVIOUS
<1> QED
  BY <1>2, <1>5, <1>6, <1>7, <1>8 DEF r, q

\* The same for what sections save.
LEMMA ShortBooleans ==
  /\ <<TRUE>> \o <<>> = <<TRUE>> /\ <<FALSE>> \o <<TRUE>> = <<FALSE, TRUE>>
  /\ Tail(<<TRUE>>) = <<>> /\ Head(<<TRUE>>) = TRUE
  /\ Tail(<<FALSE, TRUE>>) = <<TRUE>> /\ Head(<<FALSE, TRUE>>) = FALSE
<1>1. \A t, f : /\ <<t>> \o <<>> = <<t>> /\ <<f>> \o <<t>> = <<f, t>>
                /\ Tail(<<t>>) = <<>> /\ Head(<<t>>) = t /\ Tail(<<f, t>>) = <<t>> /\ Head(<<f, t>>) = f
  BY Short
<1> QED
  BY <1>1, Zenon

\* Sections nest at most twice.
LEMMA DepthIs == Depth \in {0, 1, 2}
BY DEF Depth

\* Entering a section saves what leaving it will restore.
LEMMA Enter ==
  ASSUME SectionInv, status \in BOOLEAN, isr = NULL, at > 4, NEW d \in {0, 1}, d = Depth, alt_irq_disable_all
  PROVE  contexts' = Saved(d + 1) /\ status' = FALSE
<1>1. contexts = Saved(d) /\ (status <=> d = 0)
  BY DEF SectionInv
<1>2. contexts' = <<status>> \o contexts /\ status' = FALSE
  BY DEF alt_irq_disable_all
<1>3. CASE d = 0
  <2>1. status = TRUE /\ contexts = <<>>
    BY <1>1, <1>3 DEF Saved
  <2>2. <<TRUE>> \o <<>> = <<TRUE>>
    BY ShortBooleans, Zenon
  <2>3. Saved(1) = <<TRUE>> /\ d + 1 = 1
    BY <1>3 DEF Saved
  <2> QED
    BY <1>2, <2>1, <2>2, <2>3
<1>4. CASE d = 1
  <2>1. status = FALSE /\ contexts = <<TRUE>>
    BY <1>1, <1>4 DEF Saved
  <2>2. <<FALSE>> \o <<TRUE>> = <<FALSE, TRUE>>
    BY ShortBooleans, Zenon
  <2>3. Saved(2) = <<FALSE, TRUE>> /\ d + 1 = 2
    BY <1>4 DEF Saved
  <2> QED
    BY <1>2, <2>1, <2>2, <2>3
<1> QED
  BY <1>3, <1>4

\* Leaving a section restores what entering it has saved.
LEMMA Leave ==
  ASSUME SectionInv, isr = NULL, NEW d \in {1, 2}, d = Depth, alt_irq_enable_all
  PROVE  contexts' = Saved(d - 1) /\ (status' <=> d = 1) /\ status' \in BOOLEAN
<1>1. contexts = Saved(d)
  BY DEF SectionInv
<1>2. contexts' = Tail(contexts) /\ status' = Head(contexts)
  BY DEF alt_irq_enable_all
<1>3. CASE d = 1
  <2>1. contexts = <<TRUE>> /\ Saved(0) = <<>> /\ d - 1 = 0
    BY <1>1, <1>3 DEF Saved
  <2>2. Tail(<<TRUE>>) = <<>> /\ Head(<<TRUE>>) = TRUE
    BY ShortBooleans, Zenon
  <2> QED
    BY <1>2, <1>3, <2>1, <2>2
<1>4. CASE d = 2
  <2>1. contexts = <<FALSE, TRUE>> /\ Saved(1) = <<TRUE>> /\ d - 1 = 1
    BY <1>1, <1>4 DEF Saved
  <2>2. Tail(<<FALSE, TRUE>>) = <<TRUE>> /\ Head(<<FALSE, TRUE>>) = FALSE
    BY ShortBooleans, Zenon
  <2>3. status' = FALSE /\ contexts' = <<TRUE>>
    BY <1>2, <2>1, <2>2, Zenon
  <2>4. d # 1 /\ d - 1 = 1
    BY <1>4
  <2> QED
    BY <2>1, <2>3, <2>4, Zenon
<1> QED
  BY <1>3, <1>4

\* The steps of the start enter and leave their sections in order.
LEMMA SectionStart ==
  ASSUME MainInv, StartupStep
  PROVE  SectionInv' /\ status' \in BOOLEAN
<1>0. PICK p \in Int : p = at
  BY DEF MainInv, Types
<1>1. /\ p \in 1 .. Len(Steps) /\ isr = NULL /\ isr' = NULL /\ at' = p + 1 /\ call' = call
      /\ SectionInv /\ status \in BOOLEAN /\ (p # MainAt => call = NULL)
  BY <1>0, StartAt DEF MainInv, Types, CallInv
<1>2. MainAt \in Int /\ MainAt >= 31
  BY StepsAre, Constants
<1>3. contexts = Saved(Depth) /\ (status <=> p > 4 /\ Depth = 0)
  BY <1>0, <1>1 DEF SectionInv
<1> DEFINE Goal == contexts' = Saved(Depth') /\ (status' <=> p + 1 > 4 /\ Depth' = 0) /\ status' \in BOOLEAN
<1>4. SUFFICES Goal
  BY <1>1 DEF SectionInv
<1>5. CASE p \in 1 .. 3 /\ (contexts' = <<>> /\ status' = FALSE)
  <2>1. Depth' = 0 /\ ~(p + 1 > 4)
    BY <1>0, <1>1, <1>2, <1>5 DEF Depth
  <2>2. status' \in BOOLEAN
    BY <1>5, Zenon
  <2>3. Saved(0) = <<>>
    BY DEF Saved
  <2> QED
    BY <1>5, <2>1, <2>2, <2>3
<1>6. ASSUME UNCHANGED <<status, contexts>>, p \in {5, 7, 9, 12, 13, 14, 16, 18, 21, 22, 24, 26, 29} \/ p >= 30, p # MainAt
      PROVE  Goal
  <2>1. CASE p >= 30
    BY <1>0, <1>1, <1>2, <1>3, <1>6, <2>1 DEF Depth
  <2>2. CASE p \in {5, 12, 13, 14, 21, 22, 29}
    BY <1>0, <1>1, <1>2, <1>3, <1>6, <2>2 DEF Depth
  <2>3. CASE p \in {7, 16, 24}
    BY <1>0, <1>1, <1>2, <1>3, <1>6, <2>3 DEF Depth
  <2>4. CASE p \in {9, 18, 26}
    BY <1>0, <1>1, <1>2, <1>3, <1>6, <2>4 DEF Depth
  <2> QED
    BY <1>6, <2>1, <2>2, <2>3, <2>4
<1>7. CASE p \in {1, 2, 3} /\ UNCHANGED <<status, contexts>>
  <2>1. contexts = <<>> /\ status = FALSE
    BY <1>0, <1>1, <1>2, <1>3, <1>7 DEF Depth, Saved
  <2>2. contexts' = <<>> /\ status' = FALSE /\ p \in 1 .. 3
    BY <1>7, <2>1
  <2> QED
    BY <1>5, <2>2
<1>8. CASE p = 1 /\ clear_bss
  BY <1>7, <1>8 DEF clear_bss
<1>9. CASE p = 2 /\ alt_load
  BY <1>7, <1>9 DEF alt_load, irqVars
<1>10. CASE p = 3 /\ InitIrq /\ altera_nios2_gen2_irq_init
  BY <1>7, <1>10 DEF altera_nios2_gen2_irq_init
<1>11. CASE p = 4 /\ InitIrq /\ alt_irq_cpu_enable_interrupts
  <2>1. status' = TRUE /\ contexts' = contexts
    BY <1>11 DEF alt_irq_cpu_enable_interrupts
  <2>2. Depth = 0 /\ Depth' = 0 /\ p + 1 > 4
    BY <1>0, <1>1, <1>2, <1>11 DEF Depth
  <2> QED
    BY <1>3, <2>1, <2>2
<1>12. CASE p \in {6, 8, 15, 17, 23, 25} /\ RegisterStep /\ alt_irq_disable_all
  <2>1. PICK d \in {0, 1} : d = Depth /\ d + 1 = Depth'
    BY <1>0, <1>1, <1>2, <1>12 DEF Depth
  <2>2. at > 4
    BY <1>0, <1>12
  <2>3. contexts' = Saved(d + 1) /\ status' = FALSE
    BY <1>1, <1>12, <2>1, <2>2, Enter
  <2>4. status' \in BOOLEAN
    BY <2>3, Zenon
  <2>5. Depth' # 0
    BY <2>1
  <2> QED
    BY <2>1, <2>3, <2>4, <2>5
<1>13. CASE p \in {10, 11, 19, 20, 27, 28} /\ RegisterStep /\ alt_irq_enable_all
  <2>1. PICK d \in {1, 2} : d = Depth /\ d - 1 = Depth'
    BY <1>0, <1>1, <1>2, <1>13 DEF Depth
  <2>2. contexts' = Saved(d - 1) /\ (status' <=> d = 1) /\ status' \in BOOLEAN
    BY <1>1, <1>13, <2>1, Leave
  <2> QED
    BY <1>13, <2>1, <2>2
<1>14. CASE p \in {7, 16, 24} /\ RegisterStep /\ SetHandler(Arg, Irq[Arg])
  BY <1>2, <1>6, <1>14 DEF SetHandler
<1>15. CASE p \in {9, 18, 26} /\ RegisterStep /\ EnableRegistered(Arg)
  BY <1>2, <1>6, <1>15 DEF EnableRegistered, alt_irq_enable, alt_irq_disable
<1>16. CASE (p \in {13, 21} /\ SgdmaReset) \/ (p = 5 /\ UartControl)
  BY <1>2, <1>6, <1>16 DEF SgdmaReset, UartControl, irqVars
<1>17. CASE (p \in {12, 14, 22, 29} /\ Insert) \/ (p = 30 /\ Redirect)
  BY <1>2, <1>6, <1>17 DEF Insert, Redirect, irqVars
<1>18. CASE p \in (31 .. MainAt - 1) \cup (MainAt + 1 .. Len(Steps) - 1) /\ Run
  <2>1. p >= 30 /\ p # MainAt
    BY <1>2, <1>18
  <2> QED
    BY <1>6, <1>18, <2>1 DEF Run, irqVars
<1> QED
  BY <1>0, <1>8, <1>9, <1>10, <1>11, <1>12, <1>13, <1>14, <1>15, <1>16, <1>17, <1>18, StartAt

\* What the calls of main are about.
LEMMA CallIs ==
  ASSUME NEW c \in Calls
  PROVE  /\ c[1] \in {"sbrk", "register", "inner", "mask", "leave", "end"}
         /\ c[1] = "sbrk" => c[2] \in Increments
         /\ c[1] = "register" => c[2] \in Irqs \X BOOLEAN
         /\ c[1] \in {"inner", "mask", "leave"} => c[2] \in Irqs
<1>1. CASE c \in {"sbrk"} \X Increments
  <2>1. c[1] = "sbrk" /\ c[2] \in Increments
    BY <1>1
  <2> QED
    BY <2>1
<1>2. CASE c \in {"register"} \X (Irqs \X BOOLEAN)
  <2>1. c[1] = "register" /\ c[2] \in Irqs \X BOOLEAN
    BY <1>2
  <2> QED
    BY <2>1
<1>3. CASE c \in {"inner", "mask", "leave"} \X Irqs
  <2>1. c[1] \in {"inner", "mask", "leave"} /\ c[2] \in Irqs
    BY <1>3
  <2> QED
    BY <2>1
<1>4. CASE c = <<"end", NULL>>
  <2>1. c[1] = "end"
    BY <1>4
  <2> QED
    BY <2>1
<1> QED
  BY <1>1, <1>2, <1>3, <1>4 DEF Calls

-----------------------------------------------------------------------------
(* The heap *)

\* An aligned limit is above every aligned address if it is above the address.
LEMMA Alignment ==
  ASSUME NEW address \in Int, address <= alt_heap_limit
  PROVE  /\ Aligned(address) \in Int
         /\ address <= Aligned(address) /\ Aligned(address) <= alt_heap_limit
<1>1. Align \in Int /\ Align > 0 /\ alt_heap_limit \in Int /\ alt_heap_limit % Align = 0
  BY HeapAssumption DEF HeapAssumption
<1> DEFINE x == address + Align - 1
<1> DEFINE q == x \div Align
<1> DEFINE k == alt_heap_limit \div Align
<1>2. q \in Int /\ k \in Int /\ alt_heap_limit = Align * k
  BY <1>1
<1>3. Align * q <= x /\ x < Align * q + Align
  BY <1>1
<1>4. Aligned(address) = Align * q
  <2>1. q * Align = Align * q
    BY <1>1, <1>2
  <2> QED
    BY <2>1 DEF Aligned
<1>5. x = address + Align - 1 /\ x \in Int
  BY <1>1
<1> HIDE DEF x, q, k
<1>6. q <= k
  <2>1. SUFFICES ASSUME q >= k + 1 PROVE FALSE
    BY <1>2
  <2>2. Align * q >= Align * (k + 1)
    BY <1>1, <1>2, <2>1
  <2>3. Align * (k + 1) = Align * k + Align
    BY <1>1, <1>2
  <2> QED
    BY <1>1, <1>2, <1>3, <1>5, <2>2, <2>3
<1>7. Align * q <= Align * k /\ Align * q \in Int
  BY <1>1, <1>2, <1>6
<1> QED
  BY <1>1, <1>2, <1>3, <1>4, <1>5, <1>7

\* What a step of the program leaves to the heap.
LEMMA HeapActions ==
  ASSUME Next
  PROVE  \/ UNCHANGED heapVars
         \/ heap_end' = alt_heap_start /\ UNCHANGED <<stack_limit, stack_pointer, checks, overflown>>
         \/ SbrkBody \/ Push \/ Pop \/ Reset
<1>1. CASE StartupStep
  BY <1>1 DEF StartupStep, clear_bss, alt_load, InitIrq, RegisterStep, SgdmaReset, UartControl, Insert, Redirect, Run
<1>2. CASE MainStep
  BY <1>2 DEF MainStep, MainReturns, Sbrk, Change, Begin, SetBody, InnerDisable, InnerMask, InnerRestore, End,
              Stack, StartSgdma, alt_kill
<1>3. CASE Interrupt \/ Serve \/ \E id \in Irqs : Request(id)
  BY <1>3 DEF Interrupt, Serve, Request
<1> QED
  BY <1>1, <1>2, <1>3 DEF Next

\* No step moves the end of the heap out of its memory, or lets it pass the stack unnoticed.
LEMMA HeapStep ==
  ASSUME MainInv, Next
  PROVE  HeapInv'
<1> USE DEF HeapInv
<1>0. /\ HeapInv /\ alt_heap_start \in Int /\ alt_heap_limit \in Int /\ alt_heap_start <= alt_heap_limit
      /\ Align \in Int /\ Align > 0
  BY HeapAssumption DEF HeapAssumption, MainInv
<1>1. CASE UNCHANGED heapVars
  BY <1>0, <1>1 DEF heapVars
<1>2. CASE heap_end' = alt_heap_start /\ UNCHANGED <<stack_limit, stack_pointer, checks, overflown>>
  BY <1>0, <1>2
<1>3. CASE SbrkBody
  <2> DEFINE incr == call[2]
  <2>1. Move(incr) /\ heap_end + incr >= alt_heap_start /\ incr \in Int
    <3>1. Move(incr) /\ heap_end + incr >= alt_heap_start /\ call \in Calls /\ call[1] = "sbrk"
      BY <1>3 DEF SbrkBody, MainInv, CallInv, Types
    <3>2. Increments \subseteq Int
      BY MainAssumption DEF MainAssumption
    <3>3. call[2] \in Increments
      BY <3>1, CallIs
    <3> QED
      BY <3>1, <3>2, <3>3
  <2> DEFINE a == Aligned(heap_end)
  <2>2. a \in Int /\ heap_end <= a /\ a <= alt_heap_limit
    BY <1>0, Alignment
  <2> HIDE DEF a, incr
  <2>3. /\ UNCHANGED <<stack_pointer, checks>>
        /\ IF a + incr <= alt_heap_limit THEN heap_end' = a + incr ELSE heap_end' = a
        /\ \/ stack_limit' = heap_end' /\ overflown' = (overflown \/ stack_pointer <= heap_end')
           \/ UNCHANGED <<stack_limit, overflown>>
    BY <2>1 DEF Move, Fits, a
  <2>4. heap_end' \in alt_heap_start .. alt_heap_limit
    BY <1>0, <2>1, <2>2, <2>3
  <2>5. CASE UNCHANGED <<stack_limit, overflown>>
    BY <1>0, <2>3, <2>4, <2>5
  <2>6. CASE stack_limit' = heap_end' /\ overflown' = (overflown \/ stack_pointer <= heap_end')
    BY <1>0, <2>3, <2>4, <2>6
  <2> QED
    BY <2>3, <2>5, <2>6
<1>4. CASE Push
  BY <1>0, <1>4 DEF Push
<1>5. CASE Pop
  BY <1>0, <1>5 DEF Pop
<1>6. CASE Reset
  BY <1>0, <1>6 DEF Reset
<1> QED
  BY <1>1, <1>2, <1>3, <1>4, <1>5, <1>6, HeapActions

\* Where main is among the steps.
LEMMA Lengths ==
  /\ MainAt \in Int /\ MainAt >= 31 /\ MainAt = Len(Ctors) + 31
  /\ Len(Steps) \in Int /\ Len(Steps) = MainAt + Len(Dtors) + 1 /\ Len(Steps) > MainAt
<1>1. MainAt = Len(Ctors) + 31 /\ Len(Steps) = MainAt + Len(Dtors) + 1
  BY StepsAre
<1> QED
  BY <1>1, Constants

\* A step of main is taken in main.
LEMMA InMainAt ==
  ASSUME MainInv, At("main")
  PROVE  at = MainAt /\ isr = NULL /\ MainAt \in Int /\ MainAt >= 31 /\ Len(Steps) \in Int /\ Len(Steps) > MainAt
<1>1. at \in 1 .. Len(Steps) /\ Op(at, "main") /\ isr = NULL
  BY DEF MainInv, Types, At, Op
<1>2. at = MainAt
  BY <1>1, Where
<1> QED
  BY <1>1, <1>2, Lengths

\* What is begun is one of the calls.
LEMMA Begins ==
  ASSUME Sbrk \/ Change
  PROVE  /\ InMain /\ alt_irq_disable_all /\ UNCHANGED <<heapVars, at, requests, ie>>
         /\ call = NULL /\ call' \in Calls /\ call' # NULL
         /\ call'[1] \in {"sbrk", "register"} /\ (call'[1] = "sbrk" => heap_end + call'[2] >= alt_heap_start)
<1>1. CASE Sbrk
  <2>1. PICK incr \in Increments : heap_end + incr >= alt_heap_start /\ Begin("sbrk", incr)
    BY <1>1 DEF Sbrk
  <2>2. call' = <<"sbrk", incr>>
    BY <2>1 DEF Begin
  <2>3. call' \in Calls /\ call'[1] = "sbrk" /\ call'[2] = incr
    BY <2>2 DEF Calls
  <2> QED
    BY <2>1, <2>3, Constants DEF Begin
<1>2. CASE Change
  <2>1. PICK id \in Irqs, on \in BOOLEAN : Begin("register", <<id, on>>)
    BY <1>2 DEF Change
  <2>2. call' = <<"register", <<id, on>>>>
    BY <2>1 DEF Begin
  <2>3. call' \in Calls /\ call'[1] = "register"
    BY <2>2 DEF Calls
  <2> QED
    BY <2>1, <2>3, Constants DEF Begin
<1> QED
  BY <1>1, <1>2

\* What the steps of a call leave for the next one.
LEMMA Continues ==
  ASSUME MainInv, MainStep, call # NULL
  PROVE  /\ InMain /\ call \in Calls
         /\ \/ call[1] = "sbrk" /\ SbrkBody /\ call' = <<"end", NULL>>
            \/ call[1] = "register" /\ SetBody /\ call' = <<"inner", call[2][1]>> /\ call[2] \in Irqs \X BOOLEAN
            \/ call[1] = "inner" /\ InnerDisable /\ call' = <<"mask", call[2]>> /\ call[2] \in Irqs
            \/ call[1] = "mask" /\ InnerMask /\ call' = <<"leave", call[2]>> /\ call[2] \in Irqs
            \/ call[1] = "leave" /\ InnerRestore /\ call' = <<"end", NULL>>
            \/ call[1] = "end" /\ End /\ call' = NULL
            \/ Stack /\ UNCHANGED call
<1>1. call \in Calls
  BY DEF MainInv, Types
<1>2. SbrkBody \/ SetBody \/ InnerDisable \/ InnerMask \/ InnerRestore \/ End \/ Stack
  BY DEF MainStep, MainReturns, Sbrk, Change, Begin, StartSgdma, alt_kill
<1>3. CASE SbrkBody
  BY <1>1, <1>3 DEF SbrkBody
<1>4. CASE SetBody
  BY <1>1, <1>4, CallIs DEF SetBody
<1>5. CASE InnerDisable
  BY <1>1, <1>5, CallIs DEF InnerDisable
<1>6. CASE InnerMask
  BY <1>1, <1>6, CallIs DEF InnerMask
<1>7. CASE InnerRestore
  BY <1>1, <1>7 DEF InnerRestore
<1>8. CASE End
  BY <1>1, <1>8 DEF End
<1>9. CASE Stack
  BY <1>1, <1>9 DEF Stack
<1> QED
  BY <1>2, <1>3, <1>4, <1>5, <1>6, <1>7, <1>8, <1>9

\* A step of main outside of a call.
LEMMA Between ==
  ASSUME MainStep, call = NULL
  PROVE  \/ Sbrk \/ Change
         \/ /\ MainReturns \/ Stack \/ (\E id \in {0, 1} : StartSgdma(id))
               \/ (\E pid \in {-1, 0, 1}, ends \in BOOLEAN : alt_kill(pid, ends))
            /\ UNCHANGED <<irqVars, call>>
BY DEF MainStep, MainReturns, SbrkBody, SetBody, InnerDisable, InnerMask, InnerRestore, End, Stack, StartSgdma, alt_kill

\* The calls of main enter and leave their sections in order.
LEMMA SectionMain ==
  ASSUME MainInv, MainStep
  PROVE  SectionInv' /\ status' \in BOOLEAN
<1>1. /\ at = MainAt /\ isr = NULL /\ MainAt \in Int /\ MainAt >= 31 /\ Len(Steps) > MainAt /\ Len(Steps) \in Int
      /\ SectionInv /\ status \in BOOLEAN /\ at > 4
  <2>1. At("main")
    BY DEF MainStep, MainReturns, Sbrk, Change, Begin, SbrkBody, SetBody, InnerDisable, InnerMask, InnerRestore, End,
           Stack, StartSgdma, alt_kill, InMain
  <2> QED
    BY <2>1, InMainAt DEF MainInv, Types
<1>2. contexts = Saved(Depth) /\ (status <=> Depth = 0)
  BY <1>1 DEF SectionInv
<1>3. SUFFICES isr' = NULL /\ at' > 4 /\ contexts' = Saved(Depth') /\ (status' <=> Depth' = 0) /\ status' \in BOOLEAN
  BY DEF SectionInv
<1>4. CASE Sbrk \/ Change
  <2>1. alt_irq_disable_all /\ at' = at /\ call = NULL /\ call' # NULL /\ call'[1] \in {"sbrk", "register"}
    BY <1>4, Begins
  <2>2. PICK d \in {0, 1} : d = Depth /\ d + 1 = Depth'
    BY <1>1, <2>1 DEF Depth
  <2>3. contexts' = Saved(d + 1) /\ status' = FALSE
    BY <1>1, <2>1, <2>2, Enter
  <2>4. isr' = NULL /\ Depth' # 0
    BY <1>1, <2>1, <2>2 DEF alt_irq_disable_all
  <2>5. status' \in BOOLEAN
    BY <2>3, Zenon
  <2> QED
    BY <1>1, <2>1, <2>2, <2>3, <2>4, <2>5
<1>5. CASE call = NULL /\ UNCHANGED <<irqVars, call>>
  <2>1. at' \in {MainAt, MainAt + 1, Len(Steps)}
    BY <1>1, <1>5 DEF MainStep, MainReturns, Sbrk, Change, Begin, SbrkBody, SetBody, InnerDisable, InnerMask,
                      InnerRestore, End, Stack, StartSgdma, alt_kill
  <2>2. Depth = 0 /\ Depth' = 0
    BY <1>1, <1>5, <2>1 DEF Depth
  <2> QED
    BY <1>1, <1>2, <1>5, <2>1, <2>2 DEF irqVars
<1>6. CASE call # NULL
  <2>2. CASE (call[1] = "sbrk" /\ SbrkBody /\ call' = <<"end", NULL>>) \/ (Stack /\ UNCHANGED call)
    <3>1. at' = at /\ UNCHANGED irqVars
      BY <2>2 DEF SbrkBody, Stack
    <3>2. Depth' = Depth
      <4>1. CASE UNCHANGED call
        BY <1>1, <1>6, <3>1, <4>1 DEF Depth
      <4>2. CASE call[1] = "sbrk" /\ call' = <<"end", NULL>>
        <5>1. call' \in Calls /\ call'[1] = "end"
          BY <4>2 DEF Calls
        <5>2. call' # NULL
          BY <5>1, Constants
        <5> QED
          BY <1>1, <1>6, <3>1, <4>2, <5>1, <5>2 DEF Depth
      <4> QED
        BY <2>2, <4>1, <4>2
    <3> QED
      BY <1>1, <1>2, <3>1, <3>2 DEF irqVars
  <2>3. CASE call[1] = "register" /\ SetBody /\ call' = <<"inner", call[2][1]>> /\ call[2] \in Irqs \X BOOLEAN
    <3>1. call' \in Calls /\ call'[1] = "inner"
      BY <2>3 DEF Calls
    <3>2. call' # NULL
      BY <3>1, Constants
    <3>3. at' = at /\ UNCHANGED <<status, contexts, isr>>
      BY <2>3 DEF SetBody, SetHandler
    <3>4. Depth' = Depth
      BY <1>1, <1>6, <2>3, <3>1, <3>2, <3>3 DEF Depth
    <3> QED
      BY <1>1, <1>2, <3>3, <3>4
  <2>4. CASE call[1] = "inner" /\ InnerDisable /\ call' = <<"mask", call[2]>> /\ call[2] \in Irqs
    <3>1. call' \in Calls /\ call'[1] = "mask"
      BY <2>4 DEF Calls
    <3>2. call' # NULL
      BY <3>1, Constants
    <3>3. at' = at /\ alt_irq_disable_all /\ isr' = isr
      BY <2>4 DEF InnerDisable, alt_irq_disable_all
    <3>4. PICK d \in {0, 1} : d = Depth /\ d + 1 = Depth'
      BY <1>1, <1>6, <2>4, <3>1, <3>2, <3>3 DEF Depth
    <3>5. contexts' = Saved(d + 1) /\ status' = FALSE
      BY <1>1, <3>3, <3>4, Enter
    <3>6. status' \in BOOLEAN
      BY <3>5, Zenon
    <3>7. Depth' # 0
      BY <3>4
    <3> QED
      BY <1>1, <3>3, <3>4, <3>5, <3>6, <3>7
  <2>5. CASE call[1] = "mask" /\ InnerMask /\ call' = <<"leave", call[2]>> /\ call[2] \in Irqs
    <3>1. call' \in Calls /\ call'[1] = "leave"
      BY <2>5 DEF Calls
    <3>2. call' # NULL
      BY <3>1, Constants
    <3>3. at' = at /\ UNCHANGED <<status, contexts, isr>>
      BY <2>5 DEF InnerMask, EnableRegistered, alt_irq_enable, alt_irq_disable
    <3>4. Depth' = Depth
      BY <1>1, <1>6, <2>5, <3>1, <3>2, <3>3 DEF Depth
    <3> QED
      BY <1>1, <1>2, <3>3, <3>4
  <2>6. CASE call[1] = "leave" /\ InnerRestore /\ call' = <<"end", NULL>>
    <3>1. call' \in Calls /\ call'[1] = "end"
      BY <2>6 DEF Calls
    <3>2. call' # NULL
      BY <3>1, Constants
    <3>3. at' = at /\ alt_irq_enable_all /\ isr' = isr
      BY <2>6 DEF InnerRestore, alt_irq_enable_all
    <3>4. Depth = 2 /\ Depth' = 1 /\ 2 \in {1, 2}
      BY <1>1, <1>6, <2>6, <3>1, <3>2, <3>3 DEF Depth
    <3>5. contexts' = Saved(2 - 1) /\ (status' <=> 2 = 1) /\ status' \in BOOLEAN
      BY <1>1, <3>3, <3>4, Leave
    <3> QED
      BY <1>1, <3>3, <3>4, <3>5
  <2>7. CASE call[1] = "end" /\ End /\ call' = NULL
    <3>1. at' = at /\ alt_irq_enable_all /\ isr' = isr
      BY <2>7 DEF End, alt_irq_enable_all
    <3>2. Depth = 1 /\ Depth' = 0 /\ 1 \in {1, 2}
      BY <1>1, <1>6, <2>7, <3>1 DEF Depth
    <3>3. contexts' = Saved(1 - 1) /\ (status' <=> 1 = 1) /\ status' \in BOOLEAN
      BY <1>1, <3>1, <3>2, Leave
    <3> QED
      BY <1>1, <3>1, <3>2, <3>3
  <2> QED
    BY <1>6, <2>2, <2>3, <2>4, <2>5, <2>6, <2>7, Continues
<1> QED
  BY <1>4, <1>5, <1>6, Between

-----------------------------------------------------------------------------
(* Interrupts *)

\* The interrupt that is served is one of those that are requested.
LEMMA LowestIs ==
  ASSUME NEW active, active \subseteq Irqs, active # {}
  PROVE  Lowest(active) \in active
<1>1. \E i \in active : \A j \in active : i <= j
  <2>1. active \subseteq {0, 1, 2}
    BY Constants
  <2>2. CASE 0 \in active
    BY <2>1, <2>2
  <2>3. CASE 0 \notin active /\ 1 \in active
    BY <2>1, <2>3
  <2>4. CASE 0 \notin active /\ 1 \notin active
    <3>1. active = {2}
      BY <2>1, <2>4
    <3> QED
      BY <3>1
  <2> QED
    BY <2>2, <2>3, <2>4
<1> QED
  BY <1>1 DEF Lowest

\* During the start an interrupt is only enabled once its handler and its device are ready.
LEMMA FreshReady ==
  ASSUME NEW p \in 5 .. MainAt - 1, Fresh(p), NEW id \in Irqs, id \in ienable
  PROVE  handler[id] # NULL /\ Irq[id] \in inited
<1>1. p > 1 /\ p > 3 /\ p \in Int
  BY Lengths
<1>2. /\ handler = TableAt(p) /\ ienable = MaskAt(p)
      /\ (p > DeviceAt(id) => Irq[id] \in inited)
  BY <1>1 DEF Fresh
<1>3. p > EnableAt(id) /\ EnableAt(id) \in Int
  BY <1>2, Constants DEF MaskAt, EnableAt
<1>4. p > HandlerAt(id) /\ p > DeviceAt(id)
  BY <1>1, <1>3, Constants DEF EnableAt, HandlerAt, DeviceAt
<1>5. handler[id] = Irq[id]
  BY <1>2, <1>4 DEF TableAt
<1> QED
  BY <1>2, <1>4, <1>5, Constants, Distinct

\* Outside of the sections every interrupt that is enabled finds its handler and its device ready.
LEMMA Ready ==
  ASSUME MainInv, at > 4, Depth = 0, NEW id \in ienable
  PROVE  handler[id] # NULL /\ Irq[id] \in inited
<1>0. at \in Int /\ MainAt \in Int /\ id \in Irqs
  BY Lengths DEF MainInv, Types
<1>1. CASE at < MainAt
  <2>1. PICK p \in 5 .. MainAt - 1 : p = at
    BY <1>0, <1>1
  <2>2. p \in 1 .. MainAt - 1
    BY <1>0
  <2>3. Fresh(p)
    BY <2>1, <2>2 DEF MainInv
  <2> QED
    BY <1>0, <2>3, FreshReady
<1>2. CASE at >= MainAt
  <2>1. RunningInv
    BY <1>2 DEF MainInv
  <2>2. Irq[id] \in inited
    BY <1>0, <2>1 DEF RunningInv
  <2>3. ASSUME handler[id] = NULL PROVE FALSE
    <3>1. call # NULL /\ call[1] \in {"inner", "mask"}
      BY <2>1, <2>3 DEF RunningInv
    <3>2. at = MainAt
      BY <3>1 DEF MainInv, CallInv
    <3> QED
      BY <3>1, <3>2 DEF Depth
  <2> QED
    BY <2>2, <2>3
<1> QED
  BY <1>0, <1>1, <1>2

\* What the interrupts and the devices leave to the program.
program == <<ienable, alt_irq_active, handler, contexts, at, next, streams, ie, ran, inited, killed, call, heap_end>>

\* An interrupt finds what it needs, and leaves the sections as they are.
LEMMA InterruptStep ==
  ASSUME MainInv, Interrupt \/ Serve \/ \E id \in Irqs : Request(id)
  PROVE  /\ UNCHANGED program /\ requests' \subseteq Irqs
         /\ status' \in BOOLEAN /\ isr' \in Irqs \cup {NULL} /\ SectionInv' /\ HandlersReady'
<1>0. /\ Types /\ SectionInv /\ HandlersReady /\ NULL \notin Irqs
  BY Constants DEF MainInv
<1>1. CASE \E id \in Irqs : Request(id)
  <2>1. UNCHANGED <<irqVars, at, call, inited>> /\ UNCHANGED program /\ requests' \subseteq Irqs
    BY <1>0, <1>1 DEF Request, program, irqVars, heapVars, Types
  <2>2. Depth' = Depth
    BY <2>1 DEF Depth
  <2>3. SectionInv' /\ HandlersReady'
    BY <1>0, <2>1, <2>2 DEF SectionInv, HandlersReady, irqVars
  <2> QED
    BY <1>0, <2>1, <2>3 DEF irqVars, Types
<1>2. CASE Interrupt
  <2> DEFINE active == alt_irq_pending(requests)
  <2>1. UNCHANGED program /\ requests' = requests /\ status /\ isr = NULL /\ active # {}
        /\ status' = FALSE /\ isr' = Lowest(active)
    BY <1>2 DEF Interrupt, TakeInterrupt, program, heapVars
  <2>2. active \subseteq Irqs /\ active \subseteq ienable
    BY <1>0 DEF alt_irq_pending, Types
  <2>3. isr' \in active
    BY <2>1, <2>2, LowestIs
  <2>4. at > 4 /\ Depth = 0 /\ Depth' = Depth
    BY <1>0, <2>1 DEF SectionInv, Depth, program
  <2>5. handler[isr'] # NULL /\ Irq[isr'] \in inited
    BY <2>2, <2>3, <2>4, Ready
  <2>6. SectionInv'
    BY <1>0, <2>1, <2>2, <2>3, <2>4 DEF SectionInv, program
  <2>7. HandlersReady'
    BY <2>1, <2>5 DEF HandlersReady, program
  <2> QED
    BY <1>0, <2>1, <2>2, <2>3, <2>6, <2>7 DEF Types
<1>3. CASE Serve
  <2> DEFINE active == alt_irq_pending(requests')
  <2>1. /\ UNCHANGED program /\ isr # NULL /\ requests' \subseteq requests
        /\ \/ isr' = NULL /\ status' = TRUE
           \/ active # {} /\ isr' = Lowest(active) /\ status' = status
    BY <1>3 DEF Serve, ReturnFromHandler, program, heapVars
  <2>2. active \subseteq Irqs /\ active \subseteq ienable /\ requests' \subseteq Irqs
    BY <1>0, <2>1 DEF alt_irq_pending, Types
  <2>3. at > 4 /\ Depth = 0 /\ Depth' = Depth /\ ~status /\ contexts = Saved(Depth)
    BY <1>0, <2>1 DEF SectionInv, Depth, program
  <2>4. CASE isr' = NULL /\ status' = TRUE
    BY <2>1, <2>2, <2>3, <2>4 DEF SectionInv, HandlersReady, program
  <2>5. CASE active # {} /\ isr' = Lowest(active) /\ status' = status
    <3>1. isr' \in active
      BY <2>2, <2>5, LowestIs
    <3>2. handler[isr'] # NULL /\ Irq[isr'] \in inited
      BY <2>2, <2>3, <3>1, Ready
    <3>3. SectionInv'
      BY <1>0, <2>1, <2>2, <2>3, <2>5, <3>1 DEF SectionInv, program
    <3>4. HandlersReady'
      BY <2>1, <3>2 DEF HandlersReady, program
    <3> QED
      BY <1>0, <2>1, <2>2, <2>5, <3>1, <3>3, <3>4 DEF Types
  <2> QED
    BY <2>1, <2>4, <2>5
<1> QED
  BY <1>1, <1>2, <1>3

-----------------------------------------------------------------------------
(* What each part of the start prepares *)

\* The arguments of the steps, by what they do.
LEMMA ArgIs ==
  ASSUME NEW p, p = at
  PROVE  /\ p = 5 => Arg = 2
         /\ p \in {7, 16, 24} => Arg \in Irqs /\ HandlerAt(Arg) = p
         /\ p \in {9, 18, 26} => Arg \in Irqs /\ EnableAt(Arg) = p
         /\ p \in {13, 21} => Arg \in {0, 1} /\ DeviceAt(Arg) = p
         /\ p \in {12, 14, 22, 29} =>
              Arg = CASE p = 12 -> <<jtag_uart, alt_dev_list>> [] p = 14 -> <<sgdma_in, alt_sgdma_list>>
                      [] p = 22 -> <<sgdma_out, alt_sgdma_list>> [] p = 29 -> <<hostfs, alt_fs_list>>
<1>1. Irqs = {0, 1, 2}
  BY Constants
<1>2. CASE p = 5 \/ p \in {7, 16, 24}
  BY <1>1, <1>2, Arguments DEF Arg, HandlerAt
<1>3. CASE p \in {9, 18, 26} \/ p \in {13, 21}
  BY <1>1, <1>3, Arguments DEF Arg, EnableAt, DeviceAt
<1>4. CASE p \in {12, 14, 22, 29}
  BY <1>4, Arguments DEF Arg
<1> QED
  BY <1>2, <1>3, <1>4

\* The start fills the table of handlers.
LEMMA FreshTable ==
  ASSUME MainInv, StartupStep, NEW p \in 1 .. MainAt - 1, p = at
  PROVE  handler' = TableAt(p + 1)
<1>0. p \in Int /\ Irqs = {0, 1, 2} /\ Irq \in [Irqs -> Entries] /\ Fresh(p) /\ handler \in [Irqs -> Entries \cup {NULL}]
  BY Lengths, Constants DEF MainInv, Types
<1>1. CASE p = 1 /\ clear_bss
  <2>1. \A id \in Irqs : ~(p + 1 > HandlerAt(id))
    BY <1>1, <1>0 DEF HandlerAt
  <2> QED
    BY <1>1, <2>1 DEF clear_bss, TableAt
<1>2. ASSUME p > 1, p \notin {7, 16, 24}, UNCHANGED handler PROVE handler' = TableAt(p + 1)
  <2>1. \A id \in Irqs : p + 1 > HandlerAt(id) <=> p > HandlerAt(id)
    BY <1>0, <1>2 DEF HandlerAt
  <2>2. handler = TableAt(p)
    BY <1>2, <1>0 DEF Fresh
  <2> QED
    BY <1>2, <2>1, <2>2 DEF TableAt
<1>3. CASE p \in {7, 16, 24} /\ SetHandler(Arg, Irq[Arg])
  <2> DEFINE i == Arg
  <2>1. i \in Irqs /\ HandlerAt(i) = p
    BY <1>3, ArgIs
  <2>2. handler' = [handler EXCEPT ![i] = Irq[i]]
    BY <1>3 DEF SetHandler
  <2> HIDE DEF i
  <2>3. \A id \in Irqs : p + 1 > HandlerAt(id) <=> (p > HandlerAt(id) \/ id = i)
    BY <1>0, <1>3, <2>1 DEF HandlerAt
  <2>4. handler = TableAt(p)
    BY <1>0, <1>3 DEF Fresh
  <2> QED
    BY <1>0, <2>1, <2>2, <2>3, <2>4 DEF TableAt
<1>4. CASE p = 2 /\ alt_load
  BY <1>2, <1>4 DEF alt_load, irqVars
<1>5. CASE p = 3 /\ InitIrq /\ altera_nios2_gen2_irq_init
  BY <1>2, <1>5 DEF altera_nios2_gen2_irq_init
<1>6. CASE p = 4 /\ InitIrq /\ alt_irq_cpu_enable_interrupts
  BY <1>2, <1>6 DEF alt_irq_cpu_enable_interrupts
<1>7. CASE p \in {6, 8, 15, 17, 23, 25} /\ RegisterStep /\ alt_irq_disable_all
  BY <1>2, <1>7 DEF alt_irq_disable_all
<1>8. CASE p \in {9, 18, 26} /\ RegisterStep /\ EnableRegistered(Arg)
  BY <1>2, <1>8 DEF EnableRegistered, alt_irq_enable, alt_irq_disable
<1>9. CASE p \in {10, 11, 19, 20, 27, 28} /\ RegisterStep /\ alt_irq_enable_all
  BY <1>2, <1>9 DEF alt_irq_enable_all
<1>10. CASE (p \in {13, 21} /\ SgdmaReset) \/ (p = 5 /\ UartControl)
  BY <1>2, <1>10 DEF SgdmaReset, UartControl, irqVars
<1>11. CASE (p \in {12, 14, 22, 29} /\ Insert) \/ (p = 30 /\ Redirect)
  BY <1>2, <1>11 DEF Insert, Redirect, irqVars
<1>12. CASE p \in (31 .. MainAt - 1) \cup (MainAt + 1 .. Len(Steps) - 1) /\ Run
  <2>1. p >= 31
    BY Lengths, <1>0, <1>12
  <2> QED
    BY <1>0, <1>2, <1>12, <2>1 DEF Run, irqVars
<1> QED
  BY <1>0, <1>1, <1>3, <1>4, <1>5, <1>6, <1>7, <1>8, <1>9, <1>10, <1>11, <1>12, StartAt

\* The start enables the interrupts, each for a handler in the table.
LEMMA FreshMask ==
  ASSUME MainInv, StartupStep, NEW p \in 1 .. MainAt - 1, p = at
  PROVE  alt_irq_active' = MaskAt(p + 1) /\ (p >= 3 => ienable' = MaskAt(p + 1))
<1>0. p \in Int /\ Irqs = {0, 1, 2} /\ Irq \in [Irqs -> Entries] /\ NULL \notin Entries /\ Fresh(p)
  BY Lengths, Constants, Distinct DEF MainInv
<1>1. CASE p = 1 /\ clear_bss
  <2>1. \A id \in Irqs : ~(p + 1 > EnableAt(id))
    BY <1>1, <1>0 DEF EnableAt
  <2> QED
    BY <1>1, <2>1 DEF clear_bss, MaskAt
<1>2. ASSUME p > 1, p \notin {9, 18, 26}, UNCHANGED <<alt_irq_active, ienable>>, p # 3
      PROVE alt_irq_active' = MaskAt(p + 1) /\ (p >= 3 => ienable' = MaskAt(p + 1))
  <2>1. \A id \in Irqs : p + 1 > EnableAt(id) <=> p > EnableAt(id)
    BY <1>0, <1>2 DEF EnableAt
  <2>2. alt_irq_active = MaskAt(p) /\ (p > 3 => ienable = MaskAt(p))
    BY <1>2, <1>0 DEF Fresh
  <2>3. p >= 3 => p > 3
    BY <1>0, <1>2
  <2> QED
    BY <1>2, <2>1, <2>2, <2>3 DEF MaskAt
<1>3. CASE p \in {9, 18, 26} /\ RegisterStep /\ EnableRegistered(Arg)
  <2> DEFINE i == Arg
  <2>1. i \in Irqs /\ EnableAt(i) = p
    BY <1>3, ArgIs
  <2>2. EnableRegistered(i)
    BY <1>3
  <2> HIDE DEF i
  <2>3. handler = TableAt(p) /\ alt_irq_active = MaskAt(p)
    BY <1>0, <1>3 DEF Fresh
  <2>4. handler[i] # NULL
    <3>1. p > HandlerAt(i)
      BY <1>3, <1>0, <2>1 DEF EnableAt, HandlerAt
    <3>2. handler[i] = Irq[i]
      BY <2>1, <2>3, <3>1 DEF TableAt
    <3> QED
      BY <1>0, <2>1, <3>2
  <2>5. alt_irq_active' = alt_irq_active \cup {i} /\ ienable' = alt_irq_active'
    BY <2>2, <2>4 DEF EnableRegistered, alt_irq_enable
  <2>6. \A id \in Irqs : p + 1 > EnableAt(id) <=> (p > EnableAt(id) \/ id = i)
    BY <1>0, <1>3, <2>1 DEF EnableAt
  <2>7. MaskAt(p + 1) = MaskAt(p) \cup {i}
    BY <2>1, <2>6 DEF MaskAt
  <2> QED
    BY <2>3, <2>5, <2>7
<1>4. CASE p = 2 /\ alt_load
  BY <1>2, <1>4 DEF alt_load, irqVars
<1>5. CASE p = 3 /\ InitIrq /\ altera_nios2_gen2_irq_init
  <2>1. MaskAt(p) = {} /\ MaskAt(p + 1) = {}
    BY <1>0, <1>5 DEF MaskAt, EnableAt
  <2>2. alt_irq_active = MaskAt(p)
    BY <1>5, <1>0 DEF Fresh
  <2> QED
    BY <1>5, <2>1, <2>2 DEF altera_nios2_gen2_irq_init
<1>6. CASE p = 4 /\ InitIrq /\ alt_irq_cpu_enable_interrupts
  BY <1>2, <1>6 DEF alt_irq_cpu_enable_interrupts
<1>7. CASE p \in {6, 8, 15, 17, 23, 25} /\ RegisterStep /\ alt_irq_disable_all
  BY <1>2, <1>7 DEF alt_irq_disable_all
<1>8. CASE p \in {7, 16, 24} /\ RegisterStep /\ SetHandler(Arg, Irq[Arg])
  BY <1>2, <1>8 DEF SetHandler
<1>9. CASE p \in {10, 11, 19, 20, 27, 28} /\ RegisterStep /\ alt_irq_enable_all
  BY <1>2, <1>9 DEF alt_irq_enable_all
<1>10. CASE (p \in {13, 21} /\ SgdmaReset) \/ (p = 5 /\ UartControl)
  BY <1>2, <1>10 DEF SgdmaReset, UartControl, irqVars
<1>11. CASE (p \in {12, 14, 22, 29} /\ Insert) \/ (p = 30 /\ Redirect)
  BY <1>2, <1>11 DEF Insert, Redirect, irqVars
<1>12. CASE p \in (31 .. MainAt - 1) \cup (MainAt + 1 .. Len(Steps) - 1) /\ Run
  <2>1. p >= 31
    BY Lengths, <1>0, <1>12
  <2> QED
    BY <1>0, <1>2, <1>12, <2>1 DEF Run, irqVars
<1> QED
  BY <1>0, <1>1, <1>3, <1>4, <1>5, <1>6, <1>7, <1>8, <1>9, <1>10, <1>11, <1>12, StartAt

\* The start gets the devices ready.
LEMMA FreshDevices ==
  ASSUME MainInv, StartupStep, NEW p \in 1 .. MainAt - 1, p = at
  PROVE  /\ \A id \in Irqs : p + 1 > DeviceAt(id) => Irq[id] \in inited' /\ (id \in ie' <=> id = 2)
         /\ inited' \subseteq Entries /\ ie' \subseteq Irqs /\ requests' \subseteq Irqs
<1> DEFINE Goal == /\ \A id \in Irqs : p + 1 > DeviceAt(id) => Irq[id] \in inited' /\ (id \in ie' <=> id = 2)
                   /\ inited' \subseteq Entries /\ ie' \subseteq Irqs /\ requests' \subseteq Irqs
<1> SUFFICES Goal
  OBVIOUS
<1>0. /\ p \in Int /\ Irqs = {0, 1, 2} /\ Irq \in [Irqs -> Entries]
      /\ inited \subseteq Entries /\ ie \subseteq Irqs /\ requests \subseteq Irqs
      /\ \A id \in Irqs : p > DeviceAt(id) => Irq[id] \in inited /\ (id \in ie <=> id = 2)
  BY Lengths, Constants DEF MainInv, Types, Fresh
<1>1. ASSUME p \notin {5, 13, 21}, UNCHANGED <<inited, ie, requests>> PROVE Goal
  <2>1. \A id \in Irqs : p + 1 > DeviceAt(id) <=> p > DeviceAt(id)
    BY <1>0, <1>1 DEF DeviceAt
  <2> QED
    BY <1>0, <1>1, <2>1
<1>2. CASE p = 5 /\ UartControl
  <2>1. ie' = ie \cup {2} /\ inited' = inited \cup {Irq[2]} /\ requests' \subseteq requests
    BY <1>2, ArgIs DEF UartControl
  <2>2. \A id \in Irqs : p + 1 > DeviceAt(id) => id = 2
    BY <1>0, <1>2 DEF DeviceAt
  <2> QED
    BY <1>0, <2>1, <2>2
<1>3. CASE p \in {13, 21} /\ SgdmaReset
  <2> DEFINE i == Arg
  <2>1. i \in {0, 1} /\ DeviceAt(i) = p
    BY <1>3, ArgIs
  <2>2. ie' = ie \ {i} /\ inited' = inited \cup {Irq[i]} /\ requests' \subseteq requests
    BY <1>3 DEF SgdmaReset
  <2> HIDE DEF i
  <2>3. \A id \in Irqs : p + 1 > DeviceAt(id) => p > DeviceAt(id) \/ id = i
    BY <1>0, <1>3, <2>1 DEF DeviceAt
  <2> QED
    BY <1>0, <2>1, <2>2, <2>3
<1>4. CASE (p = 1 /\ clear_bss) \/ (p = 2 /\ alt_load)
  BY <1>1, <1>4 DEF clear_bss, alt_load
<1>5. CASE p \in {3, 4} /\ InitIrq
  BY <1>1, <1>5 DEF InitIrq
<1>6. CASE p \in {6, 7, 8, 9, 10, 11, 15, 16, 17, 18, 19, 20, 23, 24, 25, 26, 27, 28} /\ RegisterStep
  BY <1>1, <1>6 DEF RegisterStep
<1>7. CASE (p \in {12, 14, 22, 29} /\ Insert) \/ (p = 30 /\ Redirect)
  BY <1>1, <1>7 DEF Insert, Redirect
<1>8. CASE p \in (31 .. MainAt - 1) \cup (MainAt + 1 .. Len(Steps) - 1) /\ Run
  <2>1. p >= 31
    BY Lengths, <1>0, <1>8
  <2> QED
    BY <1>0, <1>1, <1>8, <2>1 DEF Run
<1> QED
  BY <1>0, <1>2, <1>3, <1>4, <1>5, <1>6, <1>7, <1>8, StartAt

\* The pointers of the lists, one by one.
LEMMA ListsAtIs ==
  ASSUME NEW p \in Int
  PROVE  /\ ListsAt(p) \in [Lists \cup Entries -> Lists \cup Entries \cup {NULL}]
         /\ ListsAt(p)[alt_dev_list] = IF p > 12 THEN jtag_uart ELSE alt_dev_null
         /\ ListsAt(p)[jtag_uart] = IF p > 12 THEN alt_dev_null ELSE NULL
         /\ ListsAt(p)[alt_dev_null] = alt_dev_list
         /\ ListsAt(p)[alt_sgdma_list] = IF p > 22 THEN sgdma_out ELSE IF p > 14 THEN sgdma_in ELSE alt_sgdma_list
         /\ ListsAt(p)[sgdma_in] = IF p > 14 THEN alt_sgdma_list ELSE NULL
         /\ ListsAt(p)[sgdma_out] = IF p > 22 THEN sgdma_in ELSE NULL
         /\ ListsAt(p)[alt_fs_list] = IF p > 29 THEN hostfs ELSE alt_fs_list
         /\ ListsAt(p)[hostfs] = IF p > 29 THEN alt_fs_list ELSE NULL
<1> DEFINE of(x) ==
  CASE x = alt_dev_list -> IF p > 12 THEN jtag_uart ELSE alt_dev_null
    [] x = alt_dev_null -> alt_dev_list
    [] x = jtag_uart -> IF p > 12 THEN alt_dev_null ELSE NULL
    [] x = alt_sgdma_list -> IF p > 22 THEN sgdma_out ELSE IF p > 14 THEN sgdma_in ELSE x
    [] x = sgdma_in -> IF p > 14 THEN alt_sgdma_list ELSE NULL
    [] x = sgdma_out -> IF p > 22 THEN sgdma_in ELSE NULL
    [] x = alt_fs_list -> IF p > 29 THEN hostfs ELSE x
    [] x = hostfs -> IF p > 29 THEN alt_fs_list ELSE NULL
<1>1. Lists \cup Entries = {alt_dev_list, alt_fs_list, alt_sgdma_list, sgdma_in, sgdma_out, jtag_uart, hostfs,
                             alt_dev_null}
  BY DEF Lists, Entries
<1>2. /\ of(alt_dev_list) = IF p > 12 THEN jtag_uart ELSE alt_dev_null
      /\ of(jtag_uart) = IF p > 12 THEN alt_dev_null ELSE NULL
      /\ of(alt_dev_null) = alt_dev_list
      /\ of(alt_sgdma_list) = IF p > 22 THEN sgdma_out ELSE IF p > 14 THEN sgdma_in ELSE alt_sgdma_list
      /\ of(sgdma_in) = IF p > 14 THEN alt_sgdma_list ELSE NULL
      /\ of(sgdma_out) = IF p > 22 THEN sgdma_in ELSE NULL
      /\ of(alt_fs_list) = IF p > 29 THEN hostfs ELSE alt_fs_list
      /\ of(hostfs) = IF p > 29 THEN alt_fs_list ELSE NULL
  BY Distinct DEF Lists, Entries
<1>3. ListsAt(p) = [x \in Lists \cup Entries |-> of(x)]
  BY DEF ListsAt
<1> HIDE DEF of
<1>4. \A x \in Lists \cup Entries : of(x) \in Lists \cup Entries \cup {NULL}
  BY <1>1, <1>2
<1> QED
  BY <1>1, <1>2, <1>3, <1>4

\* The lists are the ones in front of step p if all of their pointers are.
LEMMA ListsAre ==
  ASSUME NEW p \in Int, NEW f \in [Lists \cup Entries -> Lists \cup Entries \cup {NULL}],
         f[alt_dev_list] = IF p > 12 THEN jtag_uart ELSE alt_dev_null,
         f[jtag_uart] = IF p > 12 THEN alt_dev_null ELSE NULL,
         f[alt_dev_null] = alt_dev_list,
         f[alt_sgdma_list] = IF p > 22 THEN sgdma_out ELSE IF p > 14 THEN sgdma_in ELSE alt_sgdma_list,
         f[sgdma_in] = IF p > 14 THEN alt_sgdma_list ELSE NULL,
         f[sgdma_out] = IF p > 22 THEN sgdma_in ELSE NULL,
         f[alt_fs_list] = IF p > 29 THEN hostfs ELSE alt_fs_list,
         f[hostfs] = IF p > 29 THEN alt_fs_list ELSE NULL
  PROVE  f = ListsAt(p)
<1> DEFINE g == ListsAt(p)
<1>1. /\ g \in [Lists \cup Entries -> Lists \cup Entries \cup {NULL}]
      /\ f[alt_dev_list] = g[alt_dev_list] /\ f[jtag_uart] = g[jtag_uart] /\ f[alt_sgdma_list] = g[alt_sgdma_list]
      /\ f[sgdma_in] = g[sgdma_in] /\ f[sgdma_out] = g[sgdma_out]
      /\ f[alt_fs_list] = g[alt_fs_list] /\ f[hostfs] = g[hostfs] /\ f[alt_dev_null] = g[alt_dev_null]
  BY ListsAtIs
<1> HIDE DEF g
<1>2. \A x \in Lists \cup Entries : f[x] = g[x]
  BY <1>1 DEF Lists, Entries
<1>3. f = g
  BY <1>1, <1>2
<1> QED
  BY <1>3 DEF g

\* The pointers of the lists as they are initialised, one by one.
InitialPointers(f) ==
  /\ f[alt_dev_list] = alt_dev_null /\ f[alt_dev_null] = alt_dev_list
  /\ f[alt_sgdma_list] = alt_sgdma_list /\ f[alt_fs_list] = alt_fs_list
  /\ f[jtag_uart] = NULL /\ f[sgdma_in] = NULL /\ f[sgdma_out] = NULL /\ f[hostfs] = NULL

LEMMA InitialListsAre ==
  InitialLists \in [Lists \cup Entries -> Lists \cup Entries \cup {NULL}] /\ InitialPointers(InitialLists)
<1> DEFINE e == [x \in Lists \cup Entries |-> IF x \in Lists THEN x ELSE NULL]
<1>1. /\ e \in [Lists \cup Entries -> Lists \cup Entries \cup {NULL}]
      /\ \A x \in Lists : e[x] = x
      /\ \A x \in Entries : x \notin Lists => e[x] = NULL
  OBVIOUS
<1>2. InitialLists = [e EXCEPT ![alt_dev_list] = alt_dev_null, ![alt_dev_null] = alt_dev_list]
  BY DEF InitialLists
<1> HIDE DEF e
<1>3. /\ {alt_dev_list, alt_fs_list, alt_sgdma_list} = Lists
      /\ {sgdma_in, sgdma_out, jtag_uart, hostfs, alt_dev_null} = Entries
      /\ \A x \in Entries : x \notin Lists
  BY Distinct DEF Lists, Entries
<1>4. InitialLists \in [Lists \cup Entries -> Lists \cup Entries \cup {NULL}]
  BY <1>1, <1>2, <1>3
<1>5. InitialLists[alt_dev_list] = alt_dev_null /\ InitialLists[alt_dev_null] = alt_dev_list
  BY <1>1, <1>2, <1>3
<1>6. \A x \in Lists \cup Entries : x \notin {alt_dev_list, alt_dev_null} => InitialLists[x] = e[x]
  BY <1>1, <1>2
<1>7. /\ InitialLists[alt_sgdma_list] = alt_sgdma_list /\ InitialLists[alt_fs_list] = alt_fs_list
  BY <1>1, <1>3, <1>6, Distinct
<1>8. /\ InitialLists[jtag_uart] = NULL /\ InitialLists[sgdma_in] = NULL
      /\ InitialLists[sgdma_out] = NULL /\ InitialLists[hostfs] = NULL
  BY <1>1, <1>3, <1>6, Distinct
<1> QED
  BY <1>4, <1>5, <1>7, <1>8 DEF InitialPointers

\* An entry is inserted behind the head of its list.
LEMMA InsertStep ==
  ASSUME NEW entry \in Entries, NEW list \in Lists, NEW p \in Int, next = ListsAt(p), Arg = <<entry, list>>, Insert
  PROVE  /\ next' \in [Lists \cup Entries -> Lists \cup Entries \cup {NULL}]
         /\ next'[list] = entry /\ next'[entry] = next[list]
         /\ \A x \in Lists \cup Entries : x # list /\ x # entry => next'[x] = next[x]
<1>1. next \in [Lists \cup Entries -> Lists \cup Entries \cup {NULL}]
  BY ListsAtIs
<1>2. next' = [next EXCEPT ![entry] = next[list], ![list] = entry]
  BY DEF Insert
<1>3. entry # list
  BY Distinct DEF Lists, Entries
<1> QED
  BY <1>1, <1>2, <1>3

\* The start builds the lists and an empty heap.
LEMMA FreshLists ==
  ASSUME MainInv, StartupStep, NEW p \in 1 .. MainAt - 1, p = at
  PROVE  p >= 2 => heap_end' = alt_heap_start /\ next' = ListsAt(p + 1)
<1> DEFINE Goal == heap_end' = alt_heap_start /\ next' = ListsAt(p + 1)
<1> SUFFICES ASSUME p >= 2 PROVE Goal
  OBVIOUS
<1> DEFINE q == p + 1
<1>0. p \in Int /\ q \in Int /\ (p > 2 => heap_end = alt_heap_start /\ next = ListsAt(p))
  BY Lengths DEF MainInv, Fresh
<1>1. CASE p = 2 /\ alt_load
  <2>1. InitialLists \in [Lists \cup Entries -> Lists \cup Entries \cup {NULL}] /\ InitialPointers(InitialLists)
    BY InitialListsAre
  <2>2. /\ ~(q > 12) /\ ~(q > 14) /\ ~(q > 22) /\ ~(q > 29)
    BY <1>1
  <2> HIDE DEF q
  <2>3. InitialLists = ListsAt(q)
    <3>1. /\ alt_dev_list \in Lists \cup Entries /\ alt_fs_list \in Lists \cup Entries
          /\ alt_sgdma_list \in Lists \cup Entries /\ sgdma_in \in Lists \cup Entries
          /\ sgdma_out \in Lists \cup Entries /\ jtag_uart \in Lists \cup Entries /\ hostfs \in Lists \cup Entries
          /\ alt_dev_null \in Lists \cup Entries
      BY DEF Lists, Entries
    <3> QED
      BY <1>0, <2>1, <2>2, <3>1, ListsAre DEF InitialPointers
  <2> QED
    BY <1>1, <2>3 DEF alt_load, q
<1>2. ASSUME p > 2, p \notin {12, 14, 22, 29}, UNCHANGED <<heap_end, next>> PROVE Goal
  <2>1. ListsAt(p) = ListsAt(q)
    <3>1. (p > 12 <=> q > 12) /\ (p > 14 <=> q > 14) /\ (p > 22 <=> q > 22) /\ (p > 29 <=> q > 29)
      BY <1>0, <1>2
    <3> DEFINE f == ListsAt(p)
    <3>2. f \in [Lists \cup Entries -> Lists \cup Entries \cup {NULL}]
      BY <1>0, ListsAtIs
    <3> HIDE DEF q
    <3>3. /\ f[alt_dev_list] = IF q > 12 THEN jtag_uart ELSE alt_dev_null
          /\ f[jtag_uart] = IF q > 12 THEN alt_dev_null ELSE NULL
          /\ f[alt_dev_null] = alt_dev_list
          /\ f[alt_sgdma_list] = IF q > 22 THEN sgdma_out ELSE IF q > 14 THEN sgdma_in ELSE alt_sgdma_list
          /\ f[sgdma_in] = IF q > 14 THEN alt_sgdma_list ELSE NULL
          /\ f[sgdma_out] = IF q > 22 THEN sgdma_in ELSE NULL
          /\ f[alt_fs_list] = IF q > 29 THEN hostfs ELSE alt_fs_list
          /\ f[hostfs] = IF q > 29 THEN alt_fs_list ELSE NULL
      BY <1>0, <3>1, ListsAtIs
    <3> HIDE DEF f
    <3>4. f = ListsAt(q)
      BY <1>0, <3>2, <3>3, ListsAre
    <3> QED
      BY <3>4 DEF f
  <2> QED
    BY <1>0, <1>2, <2>1
<1>3. CASE p \in {12, 14, 22, 29} /\ Insert
  <2>0. heap_end' = alt_heap_start /\ next = ListsAt(p)
    BY <1>0, <1>3 DEF Insert, heapVars
  <2>1. CASE p = 12
    <3>1. Arg = <<jtag_uart, alt_dev_list>> /\ jtag_uart \in Entries /\ alt_dev_list \in Lists
      BY <2>1, ArgIs DEF Lists, Entries
    <3>2. /\ next' \in [Lists \cup Entries -> Lists \cup Entries \cup {NULL}]
          /\ next'[alt_dev_list] = jtag_uart /\ next'[jtag_uart] = next[alt_dev_list]
          /\ \A x \in Lists \cup Entries : x # alt_dev_list /\ x # jtag_uart => next'[x] = next[x]
      BY <1>0, <1>3, <2>0, <3>1, InsertStep
    <3>3. q > 12 /\ ~(q > 14) /\ ~(q > 22) /\ ~(q > 29) /\ ~(p > 12) /\ ~(p > 14) /\ ~(p > 22) /\ ~(p > 29)
      BY <2>1
    <3> HIDE DEF q
    <3>4. /\ next'[alt_sgdma_list] = next[alt_sgdma_list] /\ next'[sgdma_in] = next[sgdma_in]
          /\ next'[sgdma_out] = next[sgdma_out] /\ next'[alt_fs_list] = next[alt_fs_list] /\ next'[hostfs] = next[hostfs]
          /\ next'[alt_dev_null] = next[alt_dev_null]
      BY <3>2, Distinct DEF Lists, Entries
    <3>5. next' = ListsAt(q)
      <4>1. /\ next'[alt_dev_list] = IF q > 12 THEN jtag_uart ELSE alt_dev_null
            /\ next'[jtag_uart] = IF q > 12 THEN alt_dev_null ELSE NULL
            /\ next'[alt_dev_null] = alt_dev_list
            /\ next'[alt_sgdma_list] = IF q > 22 THEN sgdma_out ELSE IF q > 14 THEN sgdma_in ELSE alt_sgdma_list
            /\ next'[sgdma_in] = IF q > 14 THEN alt_sgdma_list ELSE NULL
            /\ next'[sgdma_out] = IF q > 22 THEN sgdma_in ELSE NULL
            /\ next'[alt_fs_list] = IF q > 29 THEN hostfs ELSE alt_fs_list
            /\ next'[hostfs] = IF q > 29 THEN alt_fs_list ELSE NULL
        BY <1>0, <2>0, <3>2, <3>3, <3>4, ListsAtIs
      <4> QED
        BY <1>0, <3>2, <4>1, ListsAre
    <3> QED
      BY <2>0, <3>5 DEF q
  <2>2. CASE p = 14
    <3>1. Arg = <<sgdma_in, alt_sgdma_list>> /\ sgdma_in \in Entries /\ alt_sgdma_list \in Lists
      BY <2>2, ArgIs DEF Lists, Entries
    <3>2. /\ next' \in [Lists \cup Entries -> Lists \cup Entries \cup {NULL}]
          /\ next'[alt_sgdma_list] = sgdma_in /\ next'[sgdma_in] = next[alt_sgdma_list]
          /\ \A x \in Lists \cup Entries : x # alt_sgdma_list /\ x # sgdma_in => next'[x] = next[x]
      BY <1>0, <1>3, <2>0, <3>1, InsertStep
    <3>3. q > 12 /\ q > 14 /\ ~(q > 22) /\ ~(q > 29) /\ p > 12 /\ ~(p > 14) /\ ~(p > 22) /\ ~(p > 29)
      BY <2>2
    <3> HIDE DEF q
    <3>4. /\ next'[alt_dev_list] = next[alt_dev_list] /\ next'[jtag_uart] = next[jtag_uart]
          /\ next'[sgdma_out] = next[sgdma_out] /\ next'[alt_fs_list] = next[alt_fs_list] /\ next'[hostfs] = next[hostfs]
          /\ next'[alt_dev_null] = next[alt_dev_null]
      BY <3>2, Distinct DEF Lists, Entries
    <3>5. next' = ListsAt(q)
      <4>1. /\ next'[alt_dev_list] = IF q > 12 THEN jtag_uart ELSE alt_dev_null
            /\ next'[jtag_uart] = IF q > 12 THEN alt_dev_null ELSE NULL
            /\ next'[alt_dev_null] = alt_dev_list
            /\ next'[alt_sgdma_list] = IF q > 22 THEN sgdma_out ELSE IF q > 14 THEN sgdma_in ELSE alt_sgdma_list
            /\ next'[sgdma_in] = IF q > 14 THEN alt_sgdma_list ELSE NULL
            /\ next'[sgdma_out] = IF q > 22 THEN sgdma_in ELSE NULL
            /\ next'[alt_fs_list] = IF q > 29 THEN hostfs ELSE alt_fs_list
            /\ next'[hostfs] = IF q > 29 THEN alt_fs_list ELSE NULL
        BY <1>0, <2>0, <3>2, <3>3, <3>4, ListsAtIs
      <4> QED
        BY <1>0, <3>2, <4>1, ListsAre
    <3> QED
      BY <2>0, <3>5 DEF q
  <2>3. CASE p = 22
    <3>1. Arg = <<sgdma_out, alt_sgdma_list>> /\ sgdma_out \in Entries /\ alt_sgdma_list \in Lists
      BY <2>3, ArgIs DEF Lists, Entries
    <3>2. /\ next' \in [Lists \cup Entries -> Lists \cup Entries \cup {NULL}]
          /\ next'[alt_sgdma_list] = sgdma_out /\ next'[sgdma_out] = next[alt_sgdma_list]
          /\ \A x \in Lists \cup Entries : x # alt_sgdma_list /\ x # sgdma_out => next'[x] = next[x]
      BY <1>0, <1>3, <2>0, <3>1, InsertStep
    <3>3. q > 12 /\ q > 14 /\ q > 22 /\ ~(q > 29) /\ p > 12 /\ p > 14 /\ ~(p > 22) /\ ~(p > 29)
      BY <2>3
    <3> HIDE DEF q
    <3>4. /\ next'[alt_dev_list] = next[alt_dev_list] /\ next'[jtag_uart] = next[jtag_uart]
          /\ next'[sgdma_in] = next[sgdma_in] /\ next'[alt_fs_list] = next[alt_fs_list] /\ next'[hostfs] = next[hostfs]
          /\ next'[alt_dev_null] = next[alt_dev_null]
      BY <3>2, Distinct DEF Lists, Entries
    <3>5. next' = ListsAt(q)
      <4>1. /\ next'[alt_dev_list] = IF q > 12 THEN jtag_uart ELSE alt_dev_null
            /\ next'[jtag_uart] = IF q > 12 THEN alt_dev_null ELSE NULL
            /\ next'[alt_dev_null] = alt_dev_list
            /\ next'[alt_sgdma_list] = IF q > 22 THEN sgdma_out ELSE IF q > 14 THEN sgdma_in ELSE alt_sgdma_list
            /\ next'[sgdma_in] = IF q > 14 THEN alt_sgdma_list ELSE NULL
            /\ next'[sgdma_out] = IF q > 22 THEN sgdma_in ELSE NULL
            /\ next'[alt_fs_list] = IF q > 29 THEN hostfs ELSE alt_fs_list
            /\ next'[hostfs] = IF q > 29 THEN alt_fs_list ELSE NULL
        BY <1>0, <2>0, <3>2, <3>3, <3>4, ListsAtIs
      <4> QED
        BY <1>0, <3>2, <4>1, ListsAre
    <3> QED
      BY <2>0, <3>5 DEF q
  <2>4. CASE p = 29
    <3>1. Arg = <<hostfs, alt_fs_list>> /\ hostfs \in Entries /\ alt_fs_list \in Lists
      BY <2>4, ArgIs DEF Lists, Entries
    <3>2. /\ next' \in [Lists \cup Entries -> Lists \cup Entries \cup {NULL}]
          /\ next'[alt_fs_list] = hostfs /\ next'[hostfs] = next[alt_fs_list]
          /\ \A x \in Lists \cup Entries : x # alt_fs_list /\ x # hostfs => next'[x] = next[x]
      BY <1>0, <1>3, <2>0, <3>1, InsertStep
    <3>3. q > 12 /\ q > 14 /\ q > 22 /\ q > 29 /\ p > 12 /\ p > 14 /\ p > 22 /\ ~(p > 29)
      BY <2>4
    <3> HIDE DEF q
    <3>4. /\ next'[alt_dev_list] = next[alt_dev_list] /\ next'[jtag_uart] = next[jtag_uart]
          /\ next'[sgdma_in] = next[sgdma_in] /\ next'[sgdma_out] = next[sgdma_out]
          /\ next'[alt_sgdma_list] = next[alt_sgdma_list] /\ next'[alt_dev_null] = next[alt_dev_null]
      BY <3>2, Distinct DEF Lists, Entries
    <3>5. next' = ListsAt(q)
      <4>1. /\ next'[alt_dev_list] = IF q > 12 THEN jtag_uart ELSE alt_dev_null
            /\ next'[jtag_uart] = IF q > 12 THEN alt_dev_null ELSE NULL
            /\ next'[alt_dev_null] = alt_dev_list
            /\ next'[alt_sgdma_list] = IF q > 22 THEN sgdma_out ELSE IF q > 14 THEN sgdma_in ELSE alt_sgdma_list
            /\ next'[sgdma_in] = IF q > 14 THEN alt_sgdma_list ELSE NULL
            /\ next'[sgdma_out] = IF q > 22 THEN sgdma_in ELSE NULL
            /\ next'[alt_fs_list] = IF q > 29 THEN hostfs ELSE alt_fs_list
            /\ next'[hostfs] = IF q > 29 THEN alt_fs_list ELSE NULL
        BY <1>0, <2>0, <3>2, <3>3, <3>4, ListsAtIs
      <4> QED
        BY <1>0, <3>2, <4>1, ListsAre
    <3> QED
      BY <2>0, <3>5 DEF q
  <2> QED
    BY <1>3, <2>1, <2>2, <2>3, <2>4
<1>4. CASE p = 3 /\ InitIrq
  BY <1>2, <1>4 DEF InitIrq, heapVars
<1>5. CASE p = 4 /\ InitIrq
  BY <1>2, <1>5 DEF InitIrq, heapVars
<1>6. CASE p \in {6, 7, 8, 9, 10, 11, 15, 16, 17, 18, 19, 20, 23, 24, 25, 26, 27, 28} /\ RegisterStep
  BY <1>2, <1>6 DEF RegisterStep, heapVars
<1>7. CASE (p \in {13, 21} /\ SgdmaReset) \/ (p = 5 /\ UartControl)
  BY <1>2, <1>7 DEF SgdmaReset, UartControl, heapVars
<1>8. CASE p = 30 /\ Redirect
  BY <1>2, <1>8 DEF Redirect, heapVars
<1>9. CASE p \in (31 .. MainAt - 1) \cup (MainAt + 1 .. Len(Steps) - 1) /\ Run
  <2>1. p >= 31
    BY Lengths, <1>0, <1>9
  <2> QED
    BY <1>0, <1>2, <1>9, <2>1 DEF Run, heapVars
<1> QED
  BY <1>0, <1>1, <1>3, <1>4, <1>5, <1>6, <1>7, <1>8, <1>9, StartAt

\* The start connects the streams.
LEMMA FreshStreams ==
  ASSUME MainInv, StartupStep, NEW p \in 1 .. MainAt - 1, p = at
  PROVE  p >= 2 => streams' = StreamsAt(p + 1)
<1> SUFFICES ASSUME p >= 2 PROVE streams' = StreamsAt(p + 1)
  OBVIOUS
<1>0. p \in Int /\ (p > 2 => streams = StreamsAt(p) /\ next = ListsAt(p))
  BY Lengths DEF MainInv, Fresh
<1>1. ASSUME p > 2, p # 30, UNCHANGED streams PROVE streams' = StreamsAt(p + 1)
  BY <1>0, <1>1 DEF StreamsAt
<1>2. CASE p = 2 /\ alt_load
  BY <1>2 DEF alt_load, StreamsAt
<1>3. CASE p = 30 /\ Redirect
  <2>1. next[alt_dev_list] = jtag_uart
    BY <1>0, <1>3, ListsAtIs
  <2> QED
    BY <1>3, <2>1 DEF Redirect, StreamsAt
<1>4. CASE p \in {3, 4} /\ InitIrq
  BY <1>1, <1>4 DEF InitIrq
<1>5. CASE p \in {6, 7, 8, 9, 10, 11, 15, 16, 17, 18, 19, 20, 23, 24, 25, 26, 27, 28} /\ RegisterStep
  BY <1>1, <1>5 DEF RegisterStep
<1>6. CASE (p \in {13, 21} /\ SgdmaReset) \/ (p = 5 /\ UartControl)
  BY <1>1, <1>6 DEF SgdmaReset, UartControl
<1>7. CASE p \in {12, 14, 22, 29} /\ Insert
  BY <1>1, <1>7 DEF Insert
<1>8. CASE p \in (31 .. MainAt - 1) \cup (MainAt + 1 .. Len(Steps) - 1) /\ Run
  <2>1. p >= 31
    BY Lengths, <1>0, <1>8
  <2> QED
    BY <1>0, <1>1, <1>8, <2>1 DEF Run
<1> QED
  BY <1>0, <1>2, <1>3, <1>4, <1>5, <1>6, <1>7, <1>8, StartAt

\* Going backwards through a list.
LEMMA AppendBack ==
  ASSUME NEW n \in Nat, NEW k \in Int, NEW f
  PROVE  Append([i \in 1 .. n |-> f[k - i]], f[k - (n + 1)]) = [i \in 1 .. n + 1 |-> f[k - i]]
<1> DEFINE A == {f[k - i] : i \in 1 .. n + 1}
<1> DEFINE s == [i \in 1 .. n |-> f[k - i]]
<1> DEFINE t == [i \in 1 .. n + 1 |-> f[k - i]]
<1> DEFINE e == f[k - (n + 1)]
<1>1. s \in Seq(A) /\ Len(s) = n /\ e \in A /\ t \in Seq(A) /\ Len(t) = n + 1
  <2>1. s \in [1 .. n -> A] /\ e \in A
    OBVIOUS
  <2>2. t \in [1 .. n + 1 -> A] /\ n + 1 \in Nat
    OBVIOUS
  <2> HIDE DEF s, t, e, A
  <2> QED
    BY <2>1, <2>2
<1>2. \A i \in 1 .. n : s[i] = t[i]
  OBVIOUS
<1>3. t[n + 1] = e
  OBVIOUS
<1> HIDE DEF s, t, e, A
<1>4. Append(s, e) \in Seq(A) /\ Len(Append(s, e)) = n + 1 /\ Append(s, e)[n + 1] = e
      /\ \A i \in 1 .. n : Append(s, e)[i] = s[i]
  BY <1>1, AppendProperties
<1>5. \A i \in 1 .. n + 1 : Append(s, e)[i] = t[i]
  <2>1. \A i \in 1 .. n + 1 : i \in 1 .. n \/ i = n + 1
    OBVIOUS
  <2> QED
    BY <1>2, <1>3, <1>4, <2>1
<1>6. Append(s, e) = t
  BY <1>1, <1>4, <1>5, SeqEqual
<1> QED
  BY <1>6 DEF s, t, e

\* A constructor is run.
LEMMA RunStep ==
  ASSUME Run, NEW p, p = at, p \in 31 .. MainAt - 1, ran = RanAt(p)
  PROVE  ran' = RanAt(p + 1)
<1> DEFINE n == p - 31
<1> DEFINE k == Len(Ctors) + 1
<1>1. p \in Int /\ n \in Nat /\ k \in Int /\ n + 1 = p - 30 /\ n + 1 \in 1 .. Len(Ctors) /\ 30 + (n + 1) = p
  BY Lengths, Constants
<1>2. Steps[30 + (n + 1)] = Does("run", Ctors[Len(Ctors) + 1 - (n + 1)])
  BY <1>1, StepsAre
<1>3. ran' = Append(ran, Ctors[k - (n + 1)])
  BY <1>1, <1>2 DEF Run, Arg, Does
<1>4. ran = [i \in 1 .. n |-> Ctors[k - i]]
  <2>1. (IF p > 31 THEN p - 31 ELSE 0) = n
    BY <1>1
  <2> QED
    BY <2>1 DEF RanAt
<1>5. RanAt(p + 1) = [i \in 1 .. n + 1 |-> Ctors[k - i]]
  <2>1. (IF p + 1 > 31 THEN (p + 1) - 31 ELSE 0) = n + 1
    BY <1>1
  <2> QED
    BY <2>1 DEF RanAt
<1> HIDE DEF n, k
<1> QED
  BY <1>1, <1>3, <1>4, <1>5, AppendBack

\* The start runs the constructors in order.
LEMMA FreshRan ==
  ASSUME MainInv, StartupStep, NEW p \in 1 .. MainAt - 1, p = at
  PROVE  ran' = RanAt(p + 1)
<1>0. p \in Int /\ ran = RanAt(p)
  BY Lengths DEF MainInv, Fresh
<1>1. ASSUME p <= 30, UNCHANGED ran PROVE ran' = RanAt(p + 1)
  <2>1. (IF p > 31 THEN p - 31 ELSE 0) = 0 /\ (IF p + 1 > 31 THEN (p + 1) - 31 ELSE 0) = 0
    BY <1>0, <1>1
  <2>2. RanAt(p) = RanAt(p + 1)
    BY <2>1 DEF RanAt
  <2> QED
    BY <1>0, <1>1, <2>2
<1>2. CASE (p = 1 /\ clear_bss) \/ (p = 2 /\ alt_load)
  BY <1>1, <1>2 DEF clear_bss, alt_load
<1>3. CASE p \in {3, 4} /\ InitIrq
  BY <1>1, <1>3 DEF InitIrq
<1>4. CASE p \in {6, 7, 8, 9, 10, 11, 15, 16, 17, 18, 19, 20, 23, 24, 25, 26, 27, 28} /\ RegisterStep
  BY <1>1, <1>4 DEF RegisterStep
<1>5. CASE (p \in {13, 21} /\ SgdmaReset) \/ (p = 5 /\ UartControl)
  BY <1>1, <1>5 DEF SgdmaReset, UartControl
<1>6. CASE (p \in {12, 14, 22, 29} /\ Insert) \/ (p = 30 /\ Redirect)
  BY <1>1, <1>6 DEF Insert, Redirect
<1>7. CASE p \in (31 .. MainAt - 1) \cup (MainAt + 1 .. Len(Steps) - 1) /\ Run
  <2>1. p \in 31 .. MainAt - 1
    BY Lengths, <1>0, <1>7
  <2> QED
    BY <1>0, <1>7, <2>1, RunStep
<1> QED
  BY <1>0, <1>2, <1>3, <1>4, <1>5, <1>6, <1>7, StartAt

\* Whatever it was before the start, the system is as the steps up to here leave it.
LEMMA FreshStep ==
  ASSUME MainInv, StartupStep, NEW p \in 1 .. MainAt - 1, p = at
  PROVE  Fresh(p + 1)'
<1> DEFINE q == p + 1
<1>1. handler' = TableAt(q) /\ alt_irq_active' = MaskAt(q) /\ ran' = RanAt(q)
  BY FreshTable, FreshMask, FreshRan
<1>2. q > 2 => heap_end' = alt_heap_start /\ next' = ListsAt(q) /\ streams' = StreamsAt(q)
  BY FreshLists, FreshStreams, Lengths
<1>3. q > 3 => ienable' = MaskAt(q)
  BY FreshMask, Lengths
<1>4. \A id \in Irqs : q > DeviceAt(id) => Irq[id] \in inited' /\ (id \in ie' <=> id = 2)
  BY FreshDevices
<1> HIDE DEF q
<1>5. Fresh(q)'
  BY <1>1, <1>2, <1>3, <1>4 DEF Fresh, TableAt, MaskAt, StreamsAt, RanAt, ListsAt, DeviceAt
<1> QED
  BY <1>5 DEF q

-----------------------------------------------------------------------------
(* Every step keeps the invariant *)

\* What main starts with.
LEMMA FreshMain ==
  ASSUME Fresh(MainAt)'
  PROVE  /\ RunningInv' /\ handler' = Irq /\ ienable' = Irqs /\ alt_irq_active' = Irqs
         /\ heap_end' = alt_heap_start /\ next' = ListsAt(MainAt) /\ streams' = [fd \in 0 .. 2 |-> jtag_uart]
         /\ ran' = Reverse(Ctors) /\ \A id \in Irqs : id \in ie' <=> id = 2
<1> DEFINE m == MainAt
<1>0. m \in Int /\ m >= 31 /\ m = Len(Ctors) + 31 /\ Len(Ctors) \in Nat /\ Irqs = {0, 1, 2} /\ Irq \in [Irqs -> Entries]
  BY Lengths, Constants
<1>1. /\ handler' = TableAt(m) /\ alt_irq_active' = MaskAt(m) /\ streams' = StreamsAt(m) /\ ran' = RanAt(m)
      /\ heap_end' = alt_heap_start /\ next' = ListsAt(m) /\ ienable' = MaskAt(m)
      /\ \A id \in Irqs : m > DeviceAt(id) => Irq[id] \in inited' /\ (id \in ie' <=> id = 2)
  <2>1. m > 1 /\ m > 2 /\ m > 3
    BY <1>0
  <2> QED
    BY <2>1 DEF Fresh, TableAt, MaskAt, StreamsAt, RanAt, ListsAt, DeviceAt
<1> HIDE DEF m
<1>2. \A id \in Irqs : m > DeviceAt(id) /\ m > HandlerAt(id) /\ m > EnableAt(id)
  BY <1>0 DEF DeviceAt, HandlerAt, EnableAt
<1>3. handler' = Irq
  BY <1>0, <1>1, <1>2 DEF TableAt
<1>4. MaskAt(m) = Irqs
  BY <1>2 DEF MaskAt
<1>5. RanAt(m) = Reverse(Ctors)
  <2>1. (IF m > 31 THEN m - 31 ELSE 0) = Len(Ctors)
    BY <1>0
  <2>2. \A i \in 1 .. Len(Ctors) : Len(Ctors) + 1 - i = (Len(Ctors) - i) + 1
    BY <1>0
  <2> QED
    BY <2>1, <2>2 DEF RanAt, Reverse
<1>6. StreamsAt(m) = [fd \in 0 .. 2 |-> jtag_uart]
  <2>1. m > 30
    BY <1>0
  <2> QED
    BY <2>1 DEF StreamsAt
<1>7. RunningInv'
  <2>1. \A id \in Irqs : handler'[id] # NULL
    BY <1>0, <1>3, Distinct
  <2> QED
    BY <1>1, <1>2, <1>4, <2>1 DEF RunningInv
<1> QED
  BY <1>1, <1>2, <1>3, <1>4, <1>5, <1>6, <1>7 DEF m

\* The start keeps the types.
LEMMA TypesStart ==
  ASSUME MainInv, StartupStep
  PROVE  Types'
<1>0. PICK p \in Int : p = at
  BY DEF MainInv, Types
<1>1. /\ p \in 1 .. Len(Steps) /\ isr' = NULL /\ at' = p + 1 /\ killed' = killed /\ call' = call
      /\ Types /\ Irqs = {0, 1, 2} /\ Irq \in [Irqs -> Entries]
  BY <1>0, StartAt, Constants DEF MainInv
<1>2. status' \in BOOLEAN
  BY SectionStart
<1>3. p \in 1 .. MainAt - 1 \/ (p \in MainAt + 1 .. Len(Steps) - 1 /\ Run)
  BY <1>0, <1>1, StartAt, Lengths
<1>4. CASE p \in 1 .. MainAt - 1
  <2>1. at' \in 1 .. Len(Steps)
    BY <1>1, <1>4, Lengths
  <2>2. handler' \in [Irqs -> Entries \cup {NULL}]
    <3>1. handler' = TableAt(p + 1)
      BY <1>0, <1>4, FreshTable
    <3> QED
      BY <1>1, <3>1 DEF TableAt
  <2>3. alt_irq_active' \subseteq Irqs /\ ienable' \subseteq Irqs
    <3>1. alt_irq_active' = MaskAt(p + 1) /\ (p >= 3 => ienable' = MaskAt(p + 1))
      BY <1>0, <1>4, FreshMask
    <3>2. MaskAt(p + 1) \subseteq Irqs
      BY DEF MaskAt
    <3>3. ASSUME ~(p >= 3) PROVE ienable' \subseteq Irqs
      <4>1. p \in {1, 2}
        BY <1>4, <3>3
      <4>2. (p = 1 /\ clear_bss) \/ (p = 2 /\ alt_load)
        BY <1>0, <4>1, StartAt, Lengths
      <4> QED
        BY <1>1, <4>2 DEF clear_bss, alt_load, irqVars, Types
    <3> QED
      BY <3>1, <3>2, <3>3
  <2>4. inited' \subseteq Entries /\ ie' \subseteq Irqs /\ requests' \subseteq Irqs
    BY <1>0, <1>4, FreshDevices
  <2>5. next' \in [Lists \cup Entries -> Lists \cup Entries \cup {NULL}]
    <3>1. CASE p = 1
      <4>1. clear_bss
        BY <1>0, <3>1, StartAt, Lengths
      <4> QED
        BY <1>1, <4>1 DEF clear_bss, Types
    <3>2. CASE p >= 2
      <4>1. next' = ListsAt(p + 1)
        BY <1>0, <1>4, <3>2, FreshLists
      <4>2. p + 1 \in Int
        OBVIOUS
      <4> QED
        BY <4>1, <4>2, ListsAtIs
    <3> QED
      BY <1>4, <3>1, <3>2
  <2>6. killed' \in BOOLEAN /\ call' \in Calls \cup {NULL} /\ isr' \in Irqs \cup {NULL}
    BY <1>1 DEF Types
  <2> QED
    BY <1>2, <2>1, <2>2, <2>3, <2>4, <2>5, <2>6 DEF Types
<1>5. CASE p \in MainAt + 1 .. Len(Steps) - 1 /\ Run
  <2>1. at' \in 1 .. Len(Steps)
    BY <1>1, <1>5, Lengths
  <2> QED
    BY <1>1, <1>2, <1>5, <2>1 DEF Types, Run, irqVars
<1> QED
  BY <1>3, <1>4, <1>5

\* After main nothing is left to do but the destructors.
LEMMA AfterMain ==
  ASSUME MainInv, StartupStep, NEW p \in Int, p = at, p >= MainAt
  PROVE  Run /\ p \in MainAt + 1 .. Len(Steps) - 1
<1>1. p \in 1 .. Len(Steps)
  BY DEF MainInv, Types
<1> QED
  BY <1>1, StartAt, Lengths

\* The start prepares what main relies on.
LEMMA RunningStart ==
  ASSUME MainInv, StartupStep
  PROVE  /\ \A p \in 1 .. MainAt - 1 : at' = p => Fresh(p)'
         /\ at' >= MainAt => RunningInv'
<1>0. PICK p \in Int : p = at
  BY DEF MainInv, Types
<1>1. p \in 1 .. Len(Steps) /\ at' = p + 1 /\ call' = call
  BY <1>0, StartAt
<1>2. CASE p < MainAt
  <2>1. p \in 1 .. MainAt - 1
    BY <1>1, <1>2, Lengths
  <2>2. Fresh(p + 1)'
    BY <1>0, <2>1, FreshStep
  <2>3. ASSUME NEW q \in 1 .. MainAt - 1, at' = q PROVE Fresh(q)'
    <3>1. p + 1 = q
      BY <1>1, <2>3
    <3> QED
      BY <2>2, <3>1
  <2>4. ASSUME at' >= MainAt PROVE RunningInv'
    <3>1. p + 1 = MainAt
      BY <1>1, <1>2, <2>4, Lengths
    <3>2. Fresh(MainAt)'
      BY <2>2, <3>1
    <3> QED
      BY <3>2, FreshMain
  <2> QED
    BY <2>3, <2>4
<1>3. CASE p >= MainAt
  <2>1. Run /\ p \in MainAt + 1 .. Len(Steps) - 1
    BY <1>0, <1>3, AfterMain
  <2>2. at' > MainAt
    BY <1>1, <2>1, Lengths
  <2>3. RunningInv
    BY <1>0, <1>3 DEF MainInv
  <2>4. RunningInv'
    BY <1>1, <2>1, <2>3 DEF RunningInv, Run, irqVars
  <2>5. \A q \in 1 .. MainAt - 1 : at' # q
    BY <2>2, Lengths
  <2> QED
    BY <2>4, <2>5
<1> QED
  BY <1>0, <1>2, <1>3, Lengths

\* What is appended to a part is appended to the whole.
LEMMA AppendToBoth ==
  ASSUME NEW s, NEW t, NEW n \in Nat, NEW m \in Nat, Listed(s, n), Listed(t, m), NEW e
  PROVE  Append(s \o t, e) = s \o Append(t, e)
<1> DEFINE A == {s[i] : i \in 1 .. n} \cup {t[i] : i \in 1 .. m} \cup {e}
<1>1. s \in [1 .. n -> A] /\ t \in [1 .. m -> A] /\ e \in A
  BY DEF Listed
<1> HIDE DEF A
<1>2. s \in Seq(A) /\ t \in Seq(A)
  BY <1>1
<1> DEFINE a == s \o t
<1> DEFINE b == Append(t, e)
<1>3. /\ a \in Seq(A) /\ Len(a) = Len(s) + Len(t)
      /\ \A i \in 1 .. Len(s) + Len(t) : a[i] = IF i <= Len(s) THEN s[i] ELSE t[i - Len(s)]
  BY <1>2, ConcatProperties
<1>4. /\ b \in Seq(A) /\ Len(b) = Len(t) + 1 /\ b[Len(t) + 1] = e
      /\ \A i \in 1 .. Len(t) : b[i] = t[i]
  BY <1>1, <1>2, AppendProperties
<1> HIDE DEF a, b
<1> DEFINE x == Append(a, e)
<1> DEFINE y == s \o b
<1>5. /\ x \in Seq(A) /\ Len(x) = Len(a) + 1 /\ x[Len(a) + 1] = e
      /\ \A i \in 1 .. Len(a) : x[i] = a[i]
  <2>1. a \in Seq(A) /\ e \in A
    BY <1>1, <1>3
  <2> QED
    BY <2>1, AppendProperties
<1>6. /\ y \in Seq(A) /\ Len(y) = Len(s) + Len(b)
      /\ \A i \in 1 .. Len(s) + Len(b) : y[i] = IF i <= Len(s) THEN s[i] ELSE b[i - Len(s)]
  BY <1>2, <1>4, ConcatProperties
<1> HIDE DEF x, y
<1>7. Len(s) \in Nat /\ Len(t) \in Nat
  BY <1>2
<1>8. \A i \in 1 .. Len(x) : x[i] = y[i]
  <2> SUFFICES ASSUME NEW i \in 1 .. Len(x) PROVE x[i] = y[i]
    OBVIOUS
  <2>1. CASE i <= Len(s)
    <3>1. i \in 1 .. Len(s) + Len(t) /\ i \in 1 .. Len(a) /\ i \in 1 .. Len(s) + Len(b)
      BY <1>3, <1>4, <1>5, <1>7, <2>1
    <3>2. x[i] = a[i] /\ a[i] = s[i] /\ y[i] = s[i]
      BY <1>3, <1>5, <1>6, <2>1, <3>1
    <3> QED
      BY <3>2
  <2>2. CASE i > Len(s) /\ i <= Len(s) + Len(t)
    <3>1. i - Len(s) \in 1 .. Len(t) /\ i \in 1 .. Len(a) /\ i \in 1 .. Len(s) + Len(b) /\ ~(i <= Len(s))
      BY <1>3, <1>4, <1>5, <1>7, <2>2
    <3> QED
      BY <1>3, <1>4, <1>5, <1>6, <3>1
  <2>3. CASE i = Len(s) + Len(t) + 1
    <3>1. i - Len(s) = Len(t) + 1 /\ i = Len(a) + 1 /\ i \in 1 .. Len(s) + Len(b) /\ ~(i <= Len(s))
      BY <1>3, <1>4, <1>7, <2>3
    <3> QED
      BY <1>4, <1>5, <1>6, <3>1
  <2>4. i <= Len(s) \/ (i > Len(s) /\ i <= Len(s) + Len(t)) \/ i = Len(s) + Len(t) + 1
    <3>1. i \in Int /\ i <= Len(s) + Len(t) + 1
      BY <1>3, <1>5, <1>7
    <3> QED
      BY <1>7, <3>1
  <2> QED
    BY <2>1, <2>2, <2>3, <2>4
<1>9. x = y
  <2>1. x \in Seq(A) /\ y \in Seq(A) /\ Len(x) = Len(y)
    BY <1>3, <1>4, <1>5, <1>6, <1>7
  <2> QED
    BY <1>8, <2>1, SeqEqual
<1> QED
  BY <1>9 DEF x, y, a, b

\* A reversed list.
LEMMA ReversedIs ==
  ASSUME NEW list, Len(list) \in Nat
  PROVE  /\ Reverse(list) = [i \in 1 .. Len(list) |-> list[Len(list) + 1 - i]]
         /\ Listed(Reverse(list), Len(list))
         /\ Reverse(list) \o <<>> = Reverse(list)
<1>1. \A i \in 1 .. Len(list) : Len(list) + 1 - i = (Len(list) - i) + 1
  OBVIOUS
<1>2. Reverse(list) = [i \in 1 .. Len(list) |-> list[Len(list) + 1 - i]]
  BY <1>1 DEF Reverse
<1>3. Listed(Reverse(list), Len(list))
  BY <1>2 DEF Listed
<1>4. Reverse(list) \o <<>> = Reverse(list)
  <2> DEFINE A == {list[Len(list) + 1 - i] : i \in 1 .. Len(list)}
  <2>1. Reverse(list) \in Seq(A)
    BY <1>2
  <2> HIDE DEF A
  <2> QED
    BY <2>1, ConcatEmptySeq
<1> QED
  BY <1>2, <1>3, <1>4

\* The steps before and after main run what is to be run.
LEMMA RanStart ==
  ASSUME MainInv, StartupStep
  PROVE  RanInv'
<1>0. PICK p \in Int : p = at
  BY DEF MainInv, Types
<1>1. p \in 1 .. Len(Steps) - 1 /\ p # MainAt /\ at' = p + 1 /\ killed' = killed
  BY <1>0, StartAt, Lengths
<1>2. ~killed'
  BY <1>0, <1>1, Lengths DEF MainInv, RanInv
<1>3. CASE p < MainAt
  <2>1. p \in 1 .. MainAt - 1
    BY <1>1, <1>3, Lengths
  <2>2. Fresh(p + 1)'
    BY <1>0, <2>1, FreshStep
  <2>3. ASSUME at' = MainAt PROVE ran' = Reverse(Ctors)
    <3>1. p + 1 = MainAt
      BY <1>1, <2>3
    <3>2. Fresh(MainAt)'
      BY <2>2, <3>1
    <3> QED
      BY <3>2, FreshMain
  <2>4. ~(at' > MainAt)
    BY <1>1, <2>1, Lengths
  <2> QED
    BY <1>2, <2>3, <2>4 DEF RanInv, MainAt
<1>4. CASE p > MainAt
  <2> DEFINE n == p - MainAt - 1
  <2> DEFINE k == Len(Dtors) + 1
  <2>1. Run /\ p \in MainAt + 1 .. Len(Steps) - 1 /\ p >= MainAt
    BY <1>0, <1>4, AfterMain, Lengths
  <2>2. /\ n \in Nat /\ k \in Int /\ n + 1 \in 1 .. Len(Dtors) /\ MainAt + (n + 1) = p
        /\ at' > MainAt /\ at' - MainAt - 1 = n + 1 /\ at - MainAt - 1 = n /\ at > MainAt
    BY <1>0, <1>1, <2>1, Lengths, Constants
  <2>3. Steps[MainAt + (n + 1)] = Does("run", Dtors[Len(Dtors) + 1 - (n + 1)])
    BY <2>2, StepsAre
  <2>4. ran' = Append(ran, Dtors[k - (n + 1)])
    BY <1>0, <2>1, <2>2, <2>3 DEF Run, Arg, Does
  <2>5. ran = Reverse(Ctors) \o [i \in 1 .. n |-> Dtors[k - i]]
    <3>1. ~killed /\ RanInv
      BY <1>1, <1>2 DEF MainInv
    <3>2. ran = Reverse(Ctors) \o [i \in 1 .. at - MainAt - 1 |-> Dtors[Len(Dtors) + 1 - i]]
      BY <2>2, <3>1 DEF RanInv
    <3> QED
      BY <2>2, <3>2
  <2> HIDE DEF n, k
  <2>6. Append([i \in 1 .. n |-> Dtors[k - i]], Dtors[k - (n + 1)]) = [i \in 1 .. n + 1 |-> Dtors[k - i]]
    BY <2>2, AppendBack
  <2> DEFINE t == [i \in 1 .. n |-> Dtors[k - i]]
  <2> DEFINE c == Reverse(Ctors)
  <2> DEFINE e == Dtors[k - (n + 1)]
  <2>7. Listed(t, n) /\ Listed(c, Len(Ctors)) /\ Len(Ctors) \in Nat /\ n \in Nat
    BY <2>2, ReversedIs, Constants DEF Listed
  <2> HIDE DEF t, c, e
  <2>8. Append(c \o t, e) = c \o Append(t, e)
    BY <2>7, AppendToBoth
  <2>9. ran' = Reverse(Ctors) \o [i \in 1 .. n + 1 |-> Dtors[k - i]]
    BY <2>4, <2>5, <2>6, <2>8 DEF t, c, e
  <2>10. ran' = Reverse(Ctors) \o [i \in 1 .. at' - MainAt - 1 |-> Dtors[Len(Dtors) + 1 - i]]
    <3>1. at' - MainAt - 1 = n + 1
      BY <2>2
    <3> DEFINE g(m) == [i \in 1 .. m |-> Dtors[Len(Dtors) + 1 - i]]
    <3>2. ran' = Reverse(Ctors) \o g(n + 1)
      <4>1. \A i \in 1 .. n + 1 : k - i = Len(Dtors) + 1 - i
        BY <2>2, Constants DEF k
      <4>2. [i \in 1 .. n + 1 |-> Dtors[k - i]] = g(n + 1)
        BY <4>1
      <4> QED
        BY <2>9, <4>2
    <3> HIDE DEF g
    <3>3. ran' = Reverse(Ctors) \o g(at' - MainAt - 1)
      BY <3>1, <3>2
    <3> QED
      BY <3>3 DEF g
  <2>11. at' # MainAt
    BY <2>2, Lengths
  <2> QED
    BY <1>2, <2>10, <2>11 DEF RanInv, MainAt, Startup, Runs, alt_irq_init, alt_sys_init, UartInit, SgdmaInit, Register
<1> QED
  BY <1>1, <1>3, <1>4, Lengths

\* The steps before and after main keep the invariant.
LEMMA StartStep ==
  ASSUME MainInv, StartupStep
  PROVE  MainInv'
<1>1. PICK p \in Int : p = at
  BY DEF MainInv, Types
<1>2. isr' = NULL /\ UNCHANGED <<isr, call>> /\ p # MainAt
  BY <1>1, StartAt, Lengths
<1>3. call' = NULL
  BY <1>1, <1>2 DEF MainInv, CallInv
<1>4. CallInv'
  BY <1>3 DEF CallInv
<1>5. HandlersReady'
  BY <1>2 DEF HandlersReady
<1>6. HeapInv'
  BY HeapStep DEF Next
<1> QED
  BY <1>4, <1>5, <1>6, TypesStart, SectionStart, RanStart, RunningStart DEF MainInv

\* The calls of main.
LEMMA MainTypes ==
  ASSUME MainInv, MainStep
  PROVE  /\ isr = NULL /\ isr' = NULL /\ at = MainAt /\ UNCHANGED <<next, streams, ran, inited, resets>>
         /\ call' \in Calls \cup {NULL} /\ ie' \subseteq Irqs /\ requests' = requests
         /\ \/ at' = at /\ killed' = killed
            \/ at' = at + 1 /\ killed' = killed /\ call' = NULL
            \/ at' = Len(Steps) /\ killed' = TRUE /\ call' = NULL
<1>1. at = MainAt /\ isr = NULL /\ Types /\ Irqs = {0, 1, 2}
  <2>1. At("main")
    BY DEF MainStep, MainReturns, Sbrk, Change, Begin, SbrkBody, SetBody, InnerDisable, InnerMask, InnerRestore, End,
           Stack, StartSgdma, alt_kill, InMain
  <2> QED
    BY <2>1, InMainAt, Constants DEF MainInv
<1>2. CASE Sbrk \/ Change
  BY <1>1, <1>2, Begins DEF InMain, alt_irq_disable_all, Types
<1>3. CASE call = NULL /\ UNCHANGED <<irqVars, call>>
  <2>1. CASE MainReturns
    BY <1>1, <1>3, <2>1 DEF MainReturns, InMain, irqVars, Types
  <2>2. CASE Stack
    BY <1>1, <1>3, <2>2 DEF Stack, InMain, irqVars, Types
  <2>3. CASE \E id \in {0, 1} : StartSgdma(id)
    BY <1>1, <1>3, <2>3 DEF StartSgdma, InMain, irqVars, Types
  <2>4. CASE \E pid \in {-1, 0, 1}, ends \in BOOLEAN : alt_kill(pid, ends)
    BY <1>1, <1>3, <2>4 DEF alt_kill, irqVars, Types
  <2>5. CASE Sbrk \/ Change
    BY <1>2, <2>5
  <2> QED
    BY <1>3, <2>1, <2>2, <2>3, <2>4, <2>5, Between
<1>4. CASE call # NULL
  <2>1. UNCHANGED <<next, streams, ran, inited, killed, resets, at, requests, ie, isr>>
    BY <1>4 DEF MainStep, MainReturns, Sbrk, Change, Begin, SbrkBody, SetBody, InnerDisable, InnerMask, InnerRestore,
                End, Stack, StartSgdma, alt_kill, InMain, irqVars, alt_irq_disable_all, alt_irq_enable_all, SetHandler,
                EnableRegistered, alt_irq_enable, alt_irq_disable
  <2>2. call' \in Calls \cup {NULL}
    <3>1. CASE call' = <<"end", NULL>> \/ call' = NULL \/ call' = call
      BY <1>1, <3>1 DEF Calls, Types
    <3>2. CASE call' = <<"inner", call[2][1]>> /\ call[2] \in Irqs \X BOOLEAN
      BY <3>2 DEF Calls
    <3>3. CASE (call' = <<"mask", call[2]>> \/ call' = <<"leave", call[2]>>) /\ call[2] \in Irqs
      BY <3>3 DEF Calls
    <3> QED
      BY <1>4, <3>1, <3>2, <3>3, Continues
  <2> QED
    BY <1>1, <2>1, <2>2 DEF Types
<1> QED
  BY <1>2, <1>3, <1>4, Between

\* In main a handler is taken away before its interrupt is disabled, within one section.
LEMMA MainHandlers ==
  ASSUME MainInv, MainStep
  PROVE  /\ handler' \in [Irqs -> Entries \cup {NULL}] /\ ienable' \subseteq Irqs /\ alt_irq_active' \subseteq Irqs
         /\ RunningInv'
<1>1. /\ at = MainAt /\ inited' = inited /\ RunningInv /\ handler \in [Irqs -> Entries \cup {NULL}]
      /\ ienable \subseteq Irqs /\ alt_irq_active \subseteq Irqs /\ Irq \in [Irqs -> Entries]
  <2>1. at = MainAt /\ inited' = inited /\ MainAt \in Int
    BY MainTypes, Lengths
  <2>2. RunningInv
    BY <2>1 DEF MainInv
  <2>3. handler \in [Irqs -> Entries \cup {NULL}] /\ ienable \subseteq Irqs /\ alt_irq_active \subseteq Irqs
    BY DEF MainInv, Types
  <2> QED
    BY <2>1, <2>2, <2>3, Constants
<1> DEFINE Same == UNCHANGED <<handler, ienable, alt_irq_active>>
<1> DEFINE Goal == /\ handler' \in [Irqs -> Entries \cup {NULL}] /\ ienable' \subseteq Irqs /\ alt_irq_active' \subseteq Irqs
                   /\ RunningInv'
<1>2. ASSUME Same, call # NULL /\ call[1] \in {"inner", "mask"} =>
                      call' # NULL /\ call'[1] \in {"inner", "mask"} /\ call'[2] = call[2]
      PROVE  Goal
  <2>1. RunningInv'
    BY <1>1, <1>2 DEF RunningInv
  <2> QED
    BY <1>1, <1>2, <2>1
<1>3. CASE Sbrk \/ Change
  <2>1. call = NULL /\ Same
    BY <1>3, Begins DEF alt_irq_disable_all
  <2> QED
    BY <1>2, <2>1
<1>4. CASE call = NULL /\ UNCHANGED <<irqVars, call>>
  BY <1>2, <1>4 DEF irqVars
<1>5. CASE call[1] = "sbrk" /\ SbrkBody
  BY <1>2, <1>5 DEF SbrkBody, irqVars
<1>6. CASE call # NULL /\ call[1] = "register" /\ SetBody /\ call' = <<"inner", call[2][1]>> /\ call[2] \in Irqs \X BOOLEAN
  <2> DEFINE i == call[2][1]
  <2>1. i \in Irqs /\ call' \in Calls /\ call'[1] = "inner" /\ call'[2] = i
    BY <1>6 DEF Calls
  <2>2. call' # NULL
    BY <2>1, Constants
  <2>3. PICK h \in Entries \cup {NULL} : handler' = [handler EXCEPT ![i] = h]
    <3>1. SetHandler(i, IF call[2][2] THEN Irq[i] ELSE NULL)
      BY <1>6 DEF SetBody
    <3>2. (IF call[2][2] THEN Irq[i] ELSE NULL) \in Entries \cup {NULL}
      BY <1>1, <2>1
    <3> QED
      BY <3>1, <3>2 DEF SetHandler
  <2>4. UNCHANGED <<ienable, alt_irq_active>>
    BY <1>6 DEF SetBody, SetHandler
  <2> HIDE DEF i
  <2>5. handler' \in [Irqs -> Entries \cup {NULL}] /\ \A id \in Irqs : id # i => handler'[id] = handler[id]
    BY <1>1, <2>1, <2>3
  <2>6. ASSUME NEW id \in ienable', handler'[id] = NULL PROVE id = i
    <3>1. id \in ienable /\ id \in Irqs
      BY <1>1, <2>4, <2>6
    <3>2. handler[id] # NULL
      BY <1>1, <1>6, <3>1 DEF RunningInv
    <3> QED
      BY <2>5, <2>6, <3>1, <3>2
  <2>7. RunningInv'
    BY <1>1, <2>1, <2>2, <2>4, <2>6 DEF RunningInv
  <2> QED
    BY <1>1, <2>4, <2>5, <2>7
<1>7. CASE call # NULL /\ call[1] = "inner" /\ InnerDisable /\ call' = <<"mask", call[2]>> /\ call[2] \in Irqs
  <2>1. call' \in Calls /\ call'[1] = "mask" /\ call'[2] = call[2] /\ Same
    BY <1>7 DEF Calls, InnerDisable, alt_irq_disable_all
  <2>2. call' # NULL
    BY <2>1, Constants
  <2> QED
    BY <1>2, <2>1, <2>2
<1>8. CASE call # NULL /\ call[1] = "mask" /\ InnerMask /\ call' = <<"leave", call[2]>> /\ call[2] \in Irqs
  <2> DEFINE i == call[2]
  <2>1. EnableRegistered(i) /\ i \in Irqs
    BY <1>8 DEF InnerMask
  <2> HIDE DEF i
  <2>2. handler' = handler /\ ienable' = alt_irq_active'
        /\ \/ handler[i] # NULL /\ ienable' = alt_irq_active \cup {i}
           \/ ienable' = alt_irq_active \ {i}
    BY <2>1 DEF EnableRegistered, alt_irq_enable, alt_irq_disable
  <2>3. ASSUME NEW id \in ienable' PROVE handler'[id] # NULL
    <3>1. CASE id = i
      BY <2>2, <2>3, <3>1
    <3>2. CASE id # i
      <4>1. id \in ienable
        BY <1>1, <2>2, <2>3, <3>2 DEF RunningInv
      <4>2. id # call[2]
        BY <3>2 DEF i
      <4> QED
        BY <1>1, <2>2, <4>1, <4>2 DEF RunningInv
    <3> QED
      BY <3>1, <3>2
  <2>4. RunningInv'
    BY <1>1, <2>2, <2>3 DEF RunningInv
  <2> QED
    BY <1>1, <2>1, <2>2, <2>4
<1>9. CASE call[1] = "leave" /\ InnerRestore
  BY <1>2, <1>9 DEF InnerRestore, alt_irq_enable_all
<1>10. CASE call[1] = "end" /\ End
  BY <1>2, <1>10 DEF End, alt_irq_enable_all
<1>11. CASE Stack /\ UNCHANGED call
  BY <1>2, <1>11 DEF Stack, irqVars
<1> QED
  BY <1>3, <1>4, <1>5, <1>6, <1>7, <1>8, <1>9, <1>10, <1>11, Between, Continues

\* A call goes through its steps.
LEMMA MainCalls ==
  ASSUME MainInv, MainStep
  PROVE  CallInv' /\ RanInv'
<1> DEFINE m == MainAt
<1>1. /\ at = m /\ ran' = ran /\ m \in Int /\ Len(Steps) \in Int /\ Len(Steps) > m
      /\ ran = Reverse(Ctors) /\ killed = FALSE
  <2>1. at = MainAt /\ ran' = ran /\ RanInv /\ killed \in BOOLEAN
    BY MainTypes DEF MainInv, Types
  <2> QED
    BY <2>1, Lengths DEF RanInv
<1>2. \/ at' = at /\ killed' = killed
      \/ at' = at + 1 /\ killed' = killed /\ call' = NULL
      \/ at' = Len(Steps) /\ killed' = TRUE /\ call' = NULL
  BY MainTypes
<1>3. CallInv'
  <2>1. call' # NULL => at' = MainAt
    BY <1>1, <1>2
  <2>2. ASSUME call' # NULL, call'[1] = "sbrk" PROVE heap_end' + call'[2] >= alt_heap_start
    <3>1. CASE Sbrk \/ Change
      BY <2>2, <3>1, Begins DEF heapVars
    <3>2. CASE call # NULL
      <4>1. CASE call' = <<"end", NULL>> \/ call' = <<"mask", call[2]>> \/ call' = <<"leave", call[2]>>
                 \/ call' = <<"inner", call[2][1]>>
        BY <2>2, <4>1
      <4>2. CASE Stack /\ UNCHANGED call
        BY <2>2, <3>2, <4>2 DEF Stack, Push, Pop, MainInv, CallInv
      <4> QED
        BY <2>2, <3>2, <4>1, <4>2, Continues
    <3>3. CASE call = NULL /\ UNCHANGED <<irqVars, call>>
      BY <2>2, <3>3
    <3> QED
      BY <3>1, <3>2, <3>3, Between
  <2> QED
    BY <2>1, <2>2 DEF CallInv, MainAt, Startup, Runs, alt_irq_init, alt_sys_init, UartInit, SgdmaInit, Register
<1>4. RanInv'
  <2>1. CASE at' = at /\ killed' = killed
    <3>1. ~(at' > MainAt /\ ~killed') /\ ~killed' /\ ran' = Reverse(Ctors)
      BY <1>1, <2>1
    <3> QED
      BY <3>1 DEF RanInv, MainAt
  <2>2. CASE at' = at + 1 /\ killed' = killed
    <3>1. at' # MainAt /\ ~killed' /\ at' - MainAt - 1 = 0
      BY <1>1, <2>2
    <3> DEFINE g(n) == [i \in 1 .. n |-> Dtors[Len(Dtors) + 1 - i]]
    <3>2. g(0) = <<>>
      OBVIOUS
    <3> HIDE DEF g
    <3>3. ran' = Reverse(Ctors) \o g(at' - MainAt - 1)
      BY <1>1, <3>1, <3>2, ReversedIs, Constants
    <3>4. ran' = Reverse(Ctors) \o [i \in 1 .. at' - MainAt - 1 |-> Dtors[Len(Dtors) + 1 - i]]
      BY <3>3 DEF g
    <3> QED
      BY <3>1, <3>4 DEF RanInv, MainAt, Startup, Runs, alt_irq_init, alt_sys_init, UartInit, SgdmaInit, Register
  <2>3. CASE at' = Len(Steps) /\ killed' = TRUE
    <3>1. at' # MainAt /\ killed' /\ at' = Len(Steps)
      BY <1>1, <2>3
    <3> QED
      BY <3>1 DEF RanInv, MainAt, Steps, Startup, Runs, alt_irq_init, alt_sys_init, UartInit, SgdmaInit, Register
  <2> QED
    BY <1>2, <2>1, <2>2, <2>3
<1> QED
  BY <1>3, <1>4

\* The steps of main keep the invariant.
LEMMA MainStepKeeps ==
  ASSUME MainInv, MainStep
  PROVE  MainInv'
<1>1. /\ isr' = NULL /\ at = MainAt /\ UNCHANGED <<next, streams, ran, inited, resets>>
      /\ call' \in Calls \cup {NULL} /\ ie' \subseteq Irqs /\ requests' = requests
      /\ at' >= MainAt /\ at' \in 1 .. Len(Steps) /\ killed' \in BOOLEAN
  <2>1. /\ isr' = NULL /\ at = MainAt /\ UNCHANGED <<next, streams, ran, inited, resets>>
        /\ call' \in Calls \cup {NULL} /\ ie' \subseteq Irqs /\ requests' = requests
    BY MainTypes
  <2>2. \/ at' = at /\ killed' = killed
        \/ at' = at + 1 /\ killed' = killed
        \/ at' = Len(Steps) /\ killed' = TRUE
    BY MainTypes
  <2>3. at' >= MainAt /\ at' \in 1 .. Len(Steps)
    BY <2>1, <2>2, Lengths
  <2>4. killed \in BOOLEAN
    BY DEF MainInv, Types
  <2>5. killed' \in BOOLEAN
    BY <2>2, <2>4, Zenon
  <2> QED
    BY <2>1, <2>3, <2>5
<1>2. /\ handler' \in [Irqs -> Entries \cup {NULL}] /\ ienable' \subseteq Irqs /\ alt_irq_active' \subseteq Irqs
      /\ RunningInv'
  BY MainHandlers
<1>3. SectionInv' /\ status' \in BOOLEAN
  BY SectionMain
<1>4. Types'
  BY <1>1, <1>2, <1>3 DEF Types, MainInv
<1>5. \A p \in 1 .. MainAt - 1 : at' # p
  BY <1>1, Lengths
<1>6. HandlersReady'
  BY <1>1 DEF HandlersReady
<1>7. HeapInv'
  BY HeapStep DEF Next
<1> QED
  BY <1>2, <1>3, <1>4, <1>5, <1>6, <1>7, MainCalls DEF MainInv

\* What is left to the program is kept as it is.
LEMMA InterruptKeeps ==
  ASSUME MainInv, Interrupt \/ Serve \/ \E id \in Irqs : Request(id)
  PROVE  MainInv'
<1>1. /\ UNCHANGED program /\ requests' \subseteq Irqs
      /\ status' \in BOOLEAN /\ isr' \in Irqs \cup {NULL} /\ SectionInv' /\ HandlersReady'
  BY InterruptStep
<1>2. Types'
  BY <1>1 DEF MainInv, Types, program
<1>3. HeapInv'
  BY HeapStep DEF Next
<1>4. CallInv'
  BY <1>1 DEF MainInv, CallInv, program
<1>5. RanInv'
  BY <1>1 DEF MainInv, RanInv, program
<1>6. at' >= MainAt => RunningInv'
  BY <1>1 DEF MainInv, RunningInv, program
<1>7. ASSUME NEW p \in 1 .. MainAt - 1, at' = p PROVE Fresh(p)'
  <2>1. Fresh(p)
    BY <1>1, <1>7 DEF MainInv, program
  <2>2. /\ UNCHANGED <<ienable, alt_irq_active, handler, next, streams, ie, ran, inited, heap_end>>
    BY <1>1, <1>7 DEF program, Interrupt, Serve, Request
  <2> QED
    BY <2>1, <2>2 DEF Fresh
<1> QED
  BY <1>1, <1>2, <1>3, <1>4, <1>5, <1>6, <1>7 DEF MainInv

\* At a reset no device is ready.
LEMMA AtReset ==
  ASSUME NEW p \in 1 .. MainAt - 1, p = 1
  PROVE  \A id \in Irqs : ~(p > DeviceAt(id))
BY Constants DEF DeviceAt

\* A reset keeps the memory, whatever the program was doing.
LEMMA ResetKeeps ==
  ASSUME MainInv, Reset
  PROVE  MainInv'
<1>0. Types /\ NULL \notin Irqs
  BY Constants DEF MainInv
<1>1. /\ at' = 1 /\ status' = FALSE /\ ienable' \subseteq Irqs /\ contexts' = <<>> /\ isr' = NULL
      /\ requests' \subseteq Irqs /\ ie' \subseteq Irqs
      /\ ran' = <<>> /\ inited' = {} /\ killed' = FALSE /\ call' = NULL
      /\ UNCHANGED <<alt_irq_active, handler, next, streams>>
  BY <1>0 DEF Reset, Types, memory
<1>2. Types'
  <2>1. at' \in 1 .. Len(Steps)
    BY <1>1, Lengths
  <2>2. status' \in BOOLEAN /\ killed' \in BOOLEAN
    BY <1>1, Zenon
  <2> QED
    BY <1>0, <1>1, <2>1, <2>2 DEF Types
<1>3. HeapInv'
  BY HeapStep DEF Next
<1>4. CallInv' /\ HandlersReady'
  BY <1>1 DEF CallInv, HandlersReady
<1>5. at' # MainAt /\ ~(at' > MainAt) /\ ~(at' >= MainAt)
  BY <1>1, Lengths
<1>6. RanInv'
  BY <1>1, <1>5 DEF RanInv, MainAt
<1>7. SectionInv'
  <2>1. Depth' = 0
    BY <1>1, <1>5 DEF Depth, MainAt
  <2> QED
    BY <1>1, <2>1 DEF SectionInv, Saved
<1>8. ASSUME NEW p \in 1 .. MainAt - 1, at' = p PROVE Fresh(p)'
  <2>1. p = 1
    BY <1>1, <1>8
  <2>2. ~(p > 1) /\ ~(p > 2) /\ ~(p > 3) /\ ~(p > 31)
    BY <2>1
  <2>3. \A id \in Irqs : ~(p > DeviceAt(id))
    BY <2>1, AtReset
  <2>4. RanAt(p) = <<>>
    BY <2>2 DEF RanAt
  <2> QED
    BY <1>1, <2>2, <2>3, <2>4 DEF Fresh, DeviceAt, RanAt
<1> QED
  BY <1>2, <1>3, <1>4, <1>5, <1>6, <1>7, <1>8 DEF MainInv

\* The first start begins with the invariant.
LEMMA MainInit == Init => MainInv
<1> SUFFICES ASSUME Init PROVE MainInv
  OBVIOUS
<1>1. /\ at = 1 /\ status = FALSE /\ contexts = <<>> /\ isr = NULL /\ killed = FALSE /\ call = NULL /\ ran = <<>>
      /\ next = InitialLists /\ ienable \subseteq Irqs /\ alt_irq_active = {} /\ requests = {} /\ ie = {} /\ inited = {}
      /\ handler = [id \in Irqs |-> NULL]
  BY DEF Init
<1>2. Types
  <2>1. at \in 1 .. Len(Steps)
    BY <1>1, Lengths
  <2>2. next \in [Lists \cup Entries -> Lists \cup Entries \cup {NULL}]
    BY <1>1, InitialListsAre
  <2>3. status \in BOOLEAN /\ killed \in BOOLEAN
    BY <1>1, Zenon
  <2> QED
    BY <1>1, <2>1, <2>2, <2>3 DEF Types
<1>3. HeapInv
  <2>1. heap_end = alt_heap_start /\ stack_limit = alt_heap_start /\ stack_pointer = alt_heap_limit
    BY DEF Init, HeapInit
  <2>2. checks \in BOOLEAN /\ overflown \in BOOLEAN
    BY Zenon DEF Init, HeapInit
  <2> QED
    BY <2>1, <2>2, HeapAssumption DEF HeapInv, HeapAssumption
<1>4. at # MainAt /\ ~(at > MainAt) /\ ~(at >= MainAt)
  BY <1>1, Lengths
<1>5. CallInv /\ HandlersReady /\ RanInv
  BY <1>1, <1>4 DEF CallInv, HandlersReady, RanInv
<1>6. SectionInv
  <2>1. Depth = 0
    BY <1>1, <1>4 DEF Depth
  <2> QED
    BY <1>1, <2>1 DEF SectionInv, Saved
<1>7. ASSUME NEW p \in 1 .. MainAt - 1, at = p PROVE Fresh(p)
  <2>1. p = 1
    BY <1>1, <1>7
  <2>2. ~(p > 1) /\ ~(p > 2) /\ ~(p > 3) /\ ~(p > 31)
    BY <2>1
  <2>3. \A id \in Irqs : ~(p > DeviceAt(id))
    BY <2>1, AtReset
  <2>4. RanAt(p) = <<>>
    BY <2>2 DEF RanAt
  <2> QED
    BY <1>1, <2>2, <2>3, <2>4 DEF Fresh
<1> QED
  BY <1>2, <1>3, <1>4, <1>5, <1>6, <1>7 DEF MainInv

\* It holds as long as nothing happens.
LEMMA MainStays == ASSUME MainInv, UNCHANGED mainVars PROVE MainInv'
<1>1. /\ UNCHANGED <<status, ienable, alt_irq_active, handler, contexts, isr>>
      /\ UNCHANGED <<heap_end, stack_limit, stack_pointer, checks, overflown>>
      /\ UNCHANGED <<at, next, streams, requests, ie, ran, inited, killed, call, resets>>
  BY DEF mainVars, irqVars, heapVars
<1>2. Types' /\ HeapInv'
  BY <1>1 DEF MainInv, Types, HeapInv
<1>3. SectionInv' /\ CallInv'
  BY <1>1 DEF MainInv, SectionInv, CallInv, Depth
<1>4. RanInv' /\ HandlersReady' /\ (at' >= MainAt => RunningInv')
  BY <1>1 DEF MainInv, RanInv, HandlersReady, RunningInv
<1>5. \A p \in 1 .. MainAt - 1 : at' = p => Fresh(p)'
  BY <1>1 DEF MainInv, Fresh
<1> QED
  BY <1>2, <1>3, <1>4, <1>5 DEF MainInv

\* The invariant holds from the first start on, through any resets.
THEOREM MainKeepsInv == Spec => []MainInv
<1>1. MainInv /\ [Next]_mainVars => MainInv'
  <2> SUFFICES ASSUME MainInv, [Next]_mainVars PROVE MainInv'
    OBVIOUS
  <2> QED
    BY StartStep, MainStepKeeps, InterruptKeeps, ResetKeeps, MainStays DEF Next
<1> QED
  BY <1>1, MainInit, PTL DEF Spec

\* The heap stays in its memory whatever a program asks for, aligned or not, and whatever a reset
\* has left there (alt_sbrk).
THEOREM HeapKept == Spec => []HeapInBounds
<1>1. MainInv => HeapInBounds
  BY HeapAssumption DEF MainInv, HeapInv, HeapInBounds, HeapAssumption
<1> QED
  BY <1>1, MainKeepsInv, PTL

\* No interrupt finds a handler missing or a device that is not ready, and sections without
\* interrupts nest (alt_irq_handler, alt_ic_isr_register, alt_irq_disable_all).
THEOREM InterruptsAreKept == Spec => []InterruptsKept
<1>1. MainInv => HandlersReady
  BY DEF MainInv
<1>2. MainInv => SectionsNest
  <2> SUFFICES ASSUME MainInv, at > 4, isr = NULL PROVE status <=> contexts = <<>>
    BY DEF SectionsNest
  <2>1. contexts = Saved(Depth) /\ (status <=> Depth = 0)
    BY DEF MainInv, SectionInv
  <2>2. Saved(Depth) = <<>> <=> Depth = 0
    <3>1. Saved(0) = <<>> /\ Saved(1) # <<>> /\ Saved(2) # <<>>
      BY DEF Saved
    <3> QED
      BY <3>1, DepthIs
  <2> QED
    BY <2>1, <2>2
<1> QED
  BY <1>1, <1>2, MainKeepsInv, PTL DEF InterruptsKept

\* The state in which main is entered.
Entered ==
  /\ next = [InitialLists EXCEPT ![alt_dev_list] = jtag_uart, ![jtag_uart] = alt_dev_null,
                                 ![alt_fs_list] = hostfs, ![hostfs] = alt_fs_list,
                                 ![alt_sgdma_list] = sgdma_out, ![sgdma_out] = sgdma_in,
                                 ![sgdma_in] = alt_sgdma_list]
  /\ streams = [fd \in 0 .. 2 |-> jtag_uart] /\ heap_end = alt_heap_start
  /\ handler = Irq /\ ienable = Irqs /\ alt_irq_active = Irqs /\ ie = {2}
  /\ ran = Reverse(Ctors)

\* The lists main finds.
LEMMA ListsAtMain ==
  ListsAt(MainAt) = [InitialLists EXCEPT ![alt_dev_list] = jtag_uart, ![jtag_uart] = alt_dev_null,
                                         ![alt_fs_list] = hostfs, ![hostfs] = alt_fs_list,
                                         ![alt_sgdma_list] = sgdma_out, ![sgdma_out] = sgdma_in,
                                         ![sgdma_in] = alt_sgdma_list]
<1> DEFINE f == [InitialLists EXCEPT ![alt_dev_list] = jtag_uart, ![jtag_uart] = alt_dev_null,
                                     ![alt_fs_list] = hostfs, ![hostfs] = alt_fs_list,
                                     ![alt_sgdma_list] = sgdma_out, ![sgdma_out] = sgdma_in,
                                     ![sgdma_in] = alt_sgdma_list]
<1> DEFINE m == MainAt
<1>1. m \in Int /\ m > 12 /\ m > 14 /\ m > 22 /\ m > 29
  BY Lengths
<1>2. /\ f \in [Lists \cup Entries -> Lists \cup Entries \cup {NULL}]
      /\ f[alt_dev_list] = jtag_uart /\ f[jtag_uart] = alt_dev_null /\ f[alt_dev_null] = alt_dev_list
      /\ f[alt_sgdma_list] = sgdma_out
      /\ f[sgdma_in] = alt_sgdma_list /\ f[sgdma_out] = sgdma_in /\ f[alt_fs_list] = hostfs /\ f[hostfs] = alt_fs_list
  <2>1. /\ InitialLists \in [Lists \cup Entries -> Lists \cup Entries \cup {NULL}]
        /\ InitialLists[alt_dev_null] = alt_dev_list
    BY InitialListsAre DEF InitialPointers
  <2>2. /\ alt_dev_list \in Lists \cup Entries /\ alt_fs_list \in Lists \cup Entries
        /\ alt_sgdma_list \in Lists \cup Entries /\ sgdma_in \in Lists \cup Entries
        /\ sgdma_out \in Lists \cup Entries /\ jtag_uart \in Lists \cup Entries /\ hostfs \in Lists \cup Entries
        /\ alt_dev_null \in Lists \cup Entries
    BY DEF Lists, Entries
  <2> QED
    BY <2>1, <2>2, Distinct DEF Entries
<1> HIDE DEF f, m
<1>3. f = ListsAt(m)
  BY <1>1, <1>2, ListsAre
<1> QED
  BY <1>3 DEF f, m

\* main is only entered by the last step of the start.
LEMMA Enters ==
  ASSUME MainInv, [Next]_mainVars, at # MainAt, at' = MainAt
  PROVE  Entered'
<1>1. PICK p \in Int : p = at
  BY DEF MainInv, Types
<1>2. CASE StartupStep
  <2>1. p \in 1 .. Len(Steps) /\ at' = p + 1
    BY <1>1, <1>2, StartAt
  <2>2. p \in 1 .. MainAt - 1 /\ p + 1 = MainAt
    BY <2>1, Lengths
  <2>3. Fresh(p + 1)'
    BY <1>1, <1>2, <2>2, FreshStep
  <2>4. Fresh(MainAt)'
    BY <2>2, <2>3
  <2>5. /\ handler' = Irq /\ ienable' = Irqs /\ alt_irq_active' = Irqs
        /\ heap_end' = alt_heap_start /\ next' = ListsAt(MainAt) /\ streams' = [fd \in 0 .. 2 |-> jtag_uart]
        /\ ran' = Reverse(Ctors) /\ \A id \in Irqs : id \in ie' <=> id = 2
    BY <2>4, FreshMain
  <2>6. ie' = {2}
    <3>1. Types' /\ Irqs = {0, 1, 2}
      BY <1>2, StartStep, Constants DEF MainInv
    <3> QED
      BY <2>5, <3>1 DEF Types
  <2> QED
    BY <2>5, <2>6, ListsAtMain DEF Entered
<1>3. CASE MainStep
  <2>1. at = MainAt
    BY <1>3, MainTypes
  <2> QED
    BY <2>1
<1>4. CASE Reset
  BY <1>4, Lengths DEF Reset
<1>5. CASE Interrupt \/ Serve \/ (\E id \in Irqs : Request(id)) \/ UNCHANGED mainVars
  BY <1>5 DEF Interrupt, Serve, Request, mainVars
<1> QED
  BY <1>2, <1>3, <1>4, <1>5 DEF Next

\* What has run at the end.
LEMMA Ends == MainInv => EndsInOrder
<1> SUFFICES ASSUME MainInv, at = Len(Steps), ~killed PROVE ran = Reverse(Ctors) \o Reverse(Dtors)
  BY DEF EndsInOrder
<1>1. at > MainAt /\ at - MainAt - 1 = Len(Dtors)
  BY Lengths, Constants
<1> DEFINE g(n) == [i \in 1 .. n |-> Dtors[Len(Dtors) + 1 - i]]
<1>2. ran = Reverse(Ctors) \o g(at - MainAt - 1)
  BY <1>1 DEF MainInv, RanInv
<1> HIDE DEF g
<1>3. ran = Reverse(Ctors) \o g(Len(Dtors))
  BY <1>1, <1>2
<1>4. g(Len(Dtors)) = Reverse(Dtors)
  BY ReversedIs, Constants DEF g
<1> QED
  BY <1>3, <1>4

\* Every start begins main with a fresh system, whatever was there before, and a program that ends
\* has run its constructors and its destructors (alt_main, crt0, exit).
THEOREM StartsAndEnds == Spec => StartsAndEndsClean
<1>1. MainInv /\ [Next]_mainVars => [at # MainAt /\ at' = MainAt => Entered']_mainVars
  BY Enters
<1>2. [at # MainAt /\ at' = MainAt => Entered']_mainVars =>
        [at # MainAt /\ at' = MainAt =>
           /\ next' = [InitialLists EXCEPT ![alt_dev_list] = jtag_uart, ![jtag_uart] = alt_dev_null,
                                           ![alt_fs_list] = hostfs, ![hostfs] = alt_fs_list,
                                           ![alt_sgdma_list] = sgdma_out, ![sgdma_out] = sgdma_in,
                                           ![sgdma_in] = alt_sgdma_list]
           /\ streams' = [fd \in 0 .. 2 |-> jtag_uart] /\ heap_end' = alt_heap_start
           /\ handler' = Irq /\ ienable' = Irqs /\ alt_irq_active' = Irqs /\ ie' = {2}
           /\ ran' = Reverse(Ctors)]_mainVars
  BY DEF Entered
<1>3. Spec => MainStartsClean
  BY <1>1, <1>2, MainKeepsInv, PTL DEF Spec, MainStartsClean
<1>4. Spec => []EndsInOrder
  BY Ends, MainKeepsInv, PTL
<1> QED
  BY <1>3, <1>4, PTL DEF StartsAndEndsClean

-----------------------------------------------------------------------------
(* What the address map gives the drivers *)

Names == DOMAIN Slave

\* The slaves.
LEMMA NamesOfSlaves ==
  Names = {"sdram", "debug_mem", "performance_counter", "sgdma_in", "sgdma_out", "pll", "acc_bilinear_scaling",
           "jtag_uart"}
BY DEF Names, Slave

\* Where each slave begins and how far it reaches, in ascending order.
LEMMA Spans ==
  /\ Slave["sdram"].BASE = 33554432 /\ Slave["sdram"].SPAN = 33554432
  /\ Slave["debug_mem"].BASE = 67110912 /\ Slave["debug_mem"].SPAN = 2048
  /\ Slave["performance_counter"].BASE = 67112960 /\ Slave["performance_counter"].SPAN = 128
  /\ Slave["sgdma_in"].BASE = 67113088 /\ Slave["sgdma_in"].SPAN = 64
  /\ Slave["sgdma_out"].BASE = 67113152 /\ Slave["sgdma_out"].SPAN = 64
  /\ Slave["pll"].BASE = 67113216 /\ Slave["pll"].SPAN = 16
  /\ Slave["acc_bilinear_scaling"].BASE = 67113232 /\ Slave["acc_bilinear_scaling"].SPAN = 16
  /\ Slave["jtag_uart"].BASE = 67113248 /\ Slave["jtag_uart"].SPAN = 8
<1>1. Slave["sdram"].BASE = 33554432 /\ Slave["sdram"].SPAN = 33554432
  BY SMT DEF Slave, SDRAM
<1>2. Slave["debug_mem"].BASE = 67110912 /\ Slave["debug_mem"].SPAN = 2048
  BY SMT DEF Slave, DEBUG_MEM
<1>3. Slave["performance_counter"].BASE = 67112960 /\ Slave["performance_counter"].SPAN = 128
  BY SMT DEF Slave, PERFORMANCE_COUNTER
<1>4. Slave["sgdma_in"].BASE = 67113088 /\ Slave["sgdma_in"].SPAN = 64
  BY SMT DEF Slave, SGDMA_IN
<1>5. Slave["sgdma_out"].BASE = 67113152 /\ Slave["sgdma_out"].SPAN = 64
  BY SMT DEF Slave, SGDMA_OUT
<1>6. Slave["pll"].BASE = 67113216 /\ Slave["pll"].SPAN = 16
  BY SMT DEF Slave, PLL
<1>7. Slave["acc_bilinear_scaling"].BASE = 67113232 /\ Slave["acc_bilinear_scaling"].SPAN = 16
  BY SMT DEF Slave, ACC_BILINEAR_SCALING
<1>8. Slave["jtag_uart"].BASE = 67113248 /\ Slave["jtag_uart"].SPAN = 8
  BY SMT DEF Slave, JTAG_UART
<1>9. QED
  BY <1>1, <1>2, <1>3, <1>4, <1>5, <1>6, <1>7, <1>8, SMT

\* No address is that of two slaves: a driver that stays within its own does not reach another one.
THEOREM OneSlave ==
  ASSUME NEW s \in Names, NEW t \in Names, NEW addr \in Int,
         HoldsAddress(Slave[s], addr), HoldsAddress(Slave[t], addr)
  PROVE  s = t
BY NamesOfSlaves, Spans, SMT DEF HoldsAddress

\* Every register a driver accesses lies within its slave, the bytes of it included.
THEOREM RegistersWithin ==
  ASSUME NEW s \in Names, NEW reg \in Registers[s], NEW byte \in 0 .. reg[2] - 1
  PROVE  HoldsAddress(Slave[s], Slave[s].BASE + reg[1] + byte)
<1>1. CASE s \in {"sgdma_in", "sgdma_out"}
  <2>1. PICK n \in {0, 1, 4, 8} : reg = <<4 * n, 4>>
    BY <1>1 DEF Registers, SgdmaRegisters
  <2>2. reg[1] \in 0 .. 32 /\ byte \in 0 .. 3
    BY <2>1
  <2>3. QED
    BY <1>1, <2>2, Spans, SMT DEF HoldsAddress
<1>2. CASE s = "jtag_uart"
  <2>1. PICK n \in {0, 1} : reg = <<4 * n, 4>>
    BY <1>2 DEF Registers, UartRegisters
  <2>2. reg[1] \in 0 .. 4 /\ byte \in 0 .. 3
    BY <2>1
  <2>3. QED
    BY <1>2, <2>2, Spans, SMT DEF HoldsAddress
<1>3. CASE s = "performance_counter"
  <2>1. PICK section \in 0 .. 3, n \in 0 .. 2 : reg = <<4 * (4 * section + n), 4>>
    BY <1>3 DEF Registers, CounterRegisters
  <2>2. reg[1] \in 0 .. 56 /\ byte \in 0 .. 3
    BY <2>1
  <2>3. QED
    BY <1>3, <2>2, Spans, SMT DEF HoldsAddress
<1>4. CASE s = "acc_bilinear_scaling"
  <2>1. reg[1] \in 0 .. 10 /\ byte \in 0 .. 1
    BY <1>4 DEF Registers, AccRegisters
  <2>2. QED
    BY <1>4, <2>1, Spans, SMT DEF HoldsAddress
<1>5. CASE s \in {"sdram", "debug_mem", "pll"}
  BY <1>5 DEF Registers
<1>6. QED
  BY <1>1, <1>2, <1>3, <1>4, <1>5, NamesOfSlaves
==============================================================================
