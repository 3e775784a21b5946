------------------------------ MODULE nios2_proofs ------------------------------
(***************************************************************************)
(* The processor, and the controllers that work beside it.                 *)
(*                                                                         *)
(* What the SGDMA driver guarantees to any program that makes any of its   *)
(* calls, with any number of descriptors and any arguments, although it    *)
(* has no lock: the controller works on whole descriptors, it is pointed   *)
(* at a chain while it is idle, and a blocking transfer returns the status *)
(* of its own chain.  Its descriptors and buffers are in memory that a     *)
(* cache may be in front of: the flushing functions leave nothing of a     *)
(* region there, for caches and lines of any size and any region.          *)
(*                                                                         *)
(* The emulation of multiplications and divisions is exact, for registers  *)
(* of any width and any operands: quotients and remainders by powers of    *)
(* two first; then one turn of each loop, as arithmetic; then what the     *)
(* loops leave; then the exception code around them.                       *)
(***************************************************************************)
EXTENDS altera_avalon_sgdma, alt_cache, alt_exceptions, TLAPS

Labels == {"reset", "idle", "construct", "fill", "own", "check", "run", "status", "pointer", "go",
           "wait", "stop", "read"}

ControlBits == {"OWNED", "EOP", "READ_FIXED", "WRITE_FIXED"}
Descriptor == [next : Descriptors \cup {Null}, control : SUBSET ControlBits, status : SUBSET {"ERROR"}]

SgdmaTypeOK ==
  /\ pc \in Labels /\ call \in {"async", "sync"}
  /\ desc \in Descriptors \cup {Null} /\ nextDesc \in Descriptors \cup {Null}
  /\ mem \in [Descriptors -> Descriptor]
  /\ pointer \in Descriptors \cup {Null} /\ busy \in BOOLEAN
  /\ isr \in {"none", "callback", "return"}

\* A descriptor is constructed outside of the controller: it is neither owned nor worked on, and
\* the one it will point to is not worked on as long as it may be owned.
ConstructInv ==
  /\ pc \in {"construct", "fill", "own"} =>
       desc \in Descriptors /\ nextDesc \in Descriptors /\ nextDesc # desc
       /\ ~Owned(desc) /\ (busy => pointer # desc)
  /\ pc = "construct" => ~Owned(nextDesc) \/ (~busy /\ "POLL_EN" \notin control)
  /\ pc = "own" => mem[desc].status = {}
  /\ filling = IF pc = "fill" THEN {desc} ELSE {}

\* A chain ends or goes on behind its descriptors, and one that has failed is not owned.
ChainsInv == \A d \in Descriptors : mem[d].next # d /\ (mem[d].status # {} => ~Owned(d))

\* Without polling nothing sets the controller going between the check and the start.
SetupInv ==
  "POLL_EN" \notin control =>
    /\ pc \in {"run", "status", "pointer", "go"} => ~busy
    /\ pc = "pointer" => status = {}
    /\ pc \in {"go", "wait", "stop", "read"} /\ call = "sync" => status = events

SyncInv == pc \in {"wait", "stop", "read"} => call = "sync"

SgdmaInv == SgdmaTypeOK /\ ConstructInv /\ ChainsInv /\ SetupInv /\ SyncInv /\ WholeDescriptors

LEMMA SgdmaInitInv == SgdmaInit => SgdmaInv
BY SgdmaAssumption DEF SgdmaInit, SgdmaInv, SgdmaTypeOK, Descriptor, ControlBits, Labels, ConstructInv, ChainsInv, SetupInv, SyncInv,
   WholeDescriptors, Owned

-----------------------------------------------------------------------------
(* The steps *)

LEMMA CallKeepsInv == SgdmaInv /\ Call => SgdmaInv'
<1> SUFFICES ASSUME SgdmaInv, Call PROVE SgdmaInv'
  OBVIOUS
<1> USE SgdmaAssumption DEF SgdmaInv, SgdmaTypeOK, Labels, ConstructInv, ChainsInv, SetupInv, SyncInv,
        WholeDescriptors, Owned, InCall, At, Goto, callVars, devVars, coreVars, ghosts, NoArgs
<1>1. CASE DisownNext
  BY <1>1 DEF DisownNext, Descriptor
<1>2. CASE Fill
  <2>1. mem' = [mem EXCEPT ![desc].next = nextDesc, ![desc].status = {}]
    BY <1>2 DEF Fill
  <2>2. /\ mem' \in [Descriptors -> Descriptor]
        /\ \A d \in Descriptors : /\ mem'[d].control = mem[d].control
                                  /\ d # desc => mem'[d] = mem[d]
                                  /\ d = desc => mem'[d].next = nextDesc /\ mem'[d].status = {}
    <3>1. mem \in [Descriptors -> Descriptor] /\ desc \in Descriptors /\ nextDesc \in Descriptors
      BY <1>2 DEF Fill
    <3>2. QED
      BY ONLY <2>1, <3>1 DEF Descriptor
  <2>3. QED
    BY <1>2, <2>2 DEF Fill
<1>3. CASE Own
  <2> DEFINE c == {"OWNED"} \cup Flag("EOP", GenerateEop(args)) \cup Flag("READ_FIXED", ReadFixed(args))
                    \cup Flag("WRITE_FIXED", WriteFixedOrSop(args))
  <2>1. mem' = [mem EXCEPT ![desc].control = c]
    BY <1>3 DEF Own
  <2>2. c \in SUBSET ControlBits
    <3>1. Flag("EOP", GenerateEop(args)) \subseteq ControlBits
      BY DEF Flag, ControlBits
    <3>2. Flag("READ_FIXED", ReadFixed(args)) \subseteq ControlBits
      BY DEF Flag, ControlBits
    <3>3. Flag("WRITE_FIXED", WriteFixedOrSop(args)) \subseteq ControlBits
      BY DEF Flag, ControlBits
    <3>4. QED
      BY ONLY <3>1, <3>2, <3>3 DEF c, ControlBits
  <2> HIDE DEF c
  <2>3. /\ mem' \in [Descriptors -> Descriptor]
        /\ \A d \in Descriptors : /\ mem'[d].next = mem[d].next /\ mem'[d].status = mem[d].status
                                  /\ d # desc => mem'[d] = mem[d]
    <3>1. mem \in [Descriptors -> Descriptor] /\ desc \in Descriptors
      BY <1>3 DEF Own
    <3>2. QED
      BY ONLY <2>1, <2>2, <3>1 DEF Descriptor
  <2>4. QED
    BY <1>3, <2>3 DEF Own
<1>4. CASE CheckBusy
  BY <1>4 DEF CheckBusy, IsBusy
<1>5. CASE WaitIdle
  BY <1>5 DEF WaitIdle
<1>6. CASE AsyncGo
  BY <1>6 DEF AsyncGo, AsyncControl, IOWR_CONTROL
<1>7. CASE SyncGo
  BY <1>7 DEF SyncGo, IOWR_CONTROL
<1>8. CASE WaitDone
  BY <1>8 DEF WaitDone
<1>9. CASE SyncStop
  BY <1>9 DEF SyncStop, IOWR_CONTROL
<1>10. CASE SyncRead
  BY <1>10 DEF SyncRead
<1>11. CASE ClearRun
  BY <1>11 DEF ClearRun, IOWR_CONTROL
<1>12. CASE ClearOld
  BY <1>12 DEF ClearOld, ClearStatus
<1>13. CASE Point
  BY <1>13 DEF Point
<1>14. QED
  BY <1>1, <1>2, <1>3, <1>4, <1>5, <1>6, <1>7, <1>8, <1>9, <1>10, <1>11, <1>12, <1>13 DEF Call

\* What the program does between its calls, and how it begins one.
LEMMA ProgramKeepsInv == SgdmaInv /\ Program => SgdmaInv'
<1> SUFFICES ASSUME SgdmaInv, Program PROVE SgdmaInv'
  OBVIOUS
<1> USE SgdmaAssumption DEF SgdmaInv, SgdmaTypeOK, Labels, ConstructInv, ChainsInv, SetupInv, SyncInv,
        WholeDescriptors, Owned, At, Goto, callVars, devVars, coreVars, ghosts, NoArgs
<1>1. CASE alt_avalon_sgdma_init
  BY <1>1 DEF alt_avalon_sgdma_init
<1>2. CASE Call
  BY <1>2, CallKeepsInv
<1>3. CASE \E name \in Names : alt_avalon_sgdma_open(name)
  BY <1>3 DEF alt_avalon_sgdma_open
<1>4. CASE \E d \in Descriptors : \E c \in {"async", "sync"} : Enter("check", c, d, Null, NoArgs)
  BY <1>4 DEF Enter
<1>5. ASSUME NEW d \in Descriptors, NEW n \in Descriptors, NEW a \in Args, Construct(d, n, a)
      PROVE  SgdmaInv'
  <2>1. ~Owned(d)
    BY <1>5 DEF Construct, alt_avalon_sgdma_check_descriptor_status, EIO, EINPROGRESS
  <2>2. QED
    BY <1>5, <2>1 DEF Construct, InUse, Enter
<1>6. CASE (\E bits \in Controls : RegisterCallback(TRUE, bits)) \/ RegisterCallback(FALSE, {})
  BY <1>6 DEF RegisterCallback
<1>7. ASSUME NEW bits, SetControl(bits)
      PROVE  SgdmaInv'
  BY <1>7 DEF SetControl, IOWR_CONTROL
<1>8. QED
  BY <1>1, <1>2, <1>3, <1>4, <1>5, <1>6, <1>7 DEF Program, SgdmaStart, SgdmaStop, EnablePoll, DisablePoll

\* The interrupt routine and the callback: a transfer is only started when the program is in none.
LEMMA ServiceKeepsInv == SgdmaInv /\ (Irq \/ Callback \/ Return) => SgdmaInv'
<1> SUFFICES ASSUME SgdmaInv, Irq \/ Callback \/ Return PROVE SgdmaInv'
  OBVIOUS
<1> USE DEF SgdmaInv, SgdmaTypeOK, Labels, ConstructInv, ChainsInv, SetupInv, SyncInv, WholeDescriptors, Owned,
        callVars, devVars, coreVars, ghosts
<1>1. CASE Irq
  BY <1>1 DEF Irq
<1>2. CASE Callback
  <2>1. CASE UNCHANGED coreVars
    BY <1>2, <2>1 DEF Callback
  <2>2. CASE pc = "idle" /\ \E d \in Descriptors : pointer' = d /\ busy' = TRUE
    BY <1>2, <2>2 DEF Callback
  <2>3. QED
    BY <1>2, <2>1, <2>2 DEF Callback
<1>3. CASE Return
  BY <1>3 DEF Return
<1>4. QED
  BY <1>1, <1>2, <1>3

\* The controller leaves the descriptor of a construction alone, and reports to the transfer it runs.
LEMMA ControllerKeepsInv == SgdmaInv /\ (Complete \/ Error \/ Polls) => SgdmaInv'
<1> SUFFICES ASSUME SgdmaInv, Complete \/ Error \/ Polls PROVE SgdmaInv'
  OBVIOUS
<1> USE DEF SgdmaInv, SgdmaTypeOK, Labels, ConstructInv, ChainsInv, SetupInv, SyncInv, WholeDescriptors, Owned,
        callVars, devVars, coreVars, ghosts
<1>1. CASE Complete
  <2>1. mem' = [mem EXCEPT ![pointer].control = @ \ {"OWNED"}] /\ pointer \in Descriptors
        /\ mem \in [Descriptors -> Descriptor]
    BY <1>1 DEF Complete
  <2>2. /\ mem' \in [Descriptors -> Descriptor]
        /\ \A d \in Descriptors : /\ mem'[d].next = mem[d].next /\ mem'[d].status = mem[d].status
                                  /\ Owned(d)' => Owned(d)
    BY ONLY <2>1 DEF Descriptor, Owned
  <2>3. pointer' \in Descriptors \cup {Null} /\ (busy' => Owned(pointer')) /\ busy' \in BOOLEAN
    BY <1>1, <2>1 DEF Complete, Descriptor
  <2>4. /\ UNCHANGED <<pc, call, desc, nextDesc, args, isr, filling, control>>
        /\ \E what : status' = status \cup what /\ events' = IF call = "sync" THEN events \cup what ELSE events
    BY <1>1 DEF Complete, Report
  <2>5. busy /\ pointer \in Descriptors
    BY <1>1 DEF Complete
  <2>6. SgdmaTypeOK'
    BY <2>2, <2>3, <2>4
  <2>7. ConstructInv' /\ WholeDescriptors'
    BY <2>2, <2>3, <2>4, <2>5
  <2>8. ChainsInv' /\ SetupInv' /\ SyncInv'
    BY <2>2, <2>4, <2>5
  <2>9. QED
    BY <2>6, <2>7, <2>8
<1>2. CASE Error
  <2>1. mem' = [mem EXCEPT ![pointer].control = @ \ {"OWNED"}, ![pointer].status = {"ERROR"}]
        /\ pointer \in Descriptors /\ mem \in [Descriptors -> Descriptor]
    BY <1>2 DEF Error
  <2> DEFINE m == [mem EXCEPT ![pointer].control = @ \ {"OWNED"}]
  <2>2. /\ mem' \in [Descriptors -> Descriptor] /\ "OWNED" \notin mem'[pointer].control
        /\ \A d \in Descriptors : /\ mem'[d].next = mem[d].next
                                  /\ d # pointer => mem'[d].status = mem[d].status
                                  /\ Owned(d)' => Owned(d)
    <3>1. m \in [Descriptors -> Descriptor] /\ "OWNED" \notin m[pointer].control
          /\ \A d \in Descriptors : m[d].next = mem[d].next /\ m[d].status = mem[d].status
                                   /\ m[d].control \subseteq mem[d].control
      BY ONLY <2>1 DEF m, Descriptor
    <3>2. mem' = [m EXCEPT ![pointer].status = {"ERROR"}]
      BY ONLY <2>1 DEF m
    <3> HIDE DEF m
    <3>3. pointer \in Descriptors
      BY <2>1
    <3>4. /\ mem' \in [Descriptors -> Descriptor] /\ "OWNED" \notin mem'[pointer].control
          /\ \A d \in Descriptors : mem'[d].next = m[d].next /\ mem'[d].control = m[d].control
          /\ \A d \in Descriptors \ {pointer} : mem'[d].status = m[d].status
      BY ONLY <3>1, <3>2, <3>3 DEF Descriptor
    <3>5. QED
      BY ONLY <3>1, <3>3, <3>4 DEF Owned
  <2>3. /\ UNCHANGED <<pc, call, desc, nextDesc, args, isr, filling, control, pointer>>
        /\ \E what : status' = status \cup what /\ events' = IF call = "sync" THEN events \cup what ELSE events
    BY <1>2 DEF Error, Report
  <2>4. busy /\ pointer \in Descriptors /\ busy' = FALSE
    BY <1>2 DEF Error
  <2>5. SgdmaTypeOK'
    BY <2>2, <2>3, <2>4
  <2>6. ConstructInv' /\ WholeDescriptors'
    BY <2>2, <2>3, <2>4
  <2>7. ChainsInv' /\ SetupInv' /\ SyncInv'
    BY <2>2, <2>3, <2>4
  <2>8. QED
    BY <2>5, <2>6, <2>7
<1>3. CASE Polls
  BY <1>3 DEF Polls
<1>4. QED
  BY <1>1, <1>2, <1>3

\* In every state of the driver.
THEOREM SgdmaKeepsInv == SgdmaSpec => []SgdmaInv
<1>1. SgdmaInit => SgdmaInv
  BY SgdmaInitInv
<1>2. SgdmaInv /\ [SgdmaNext]_sgdmaVars => SgdmaInv'
  <2>1. SgdmaInv /\ UNCHANGED sgdmaVars => SgdmaInv'
    BY DEF SgdmaInv, SgdmaTypeOK, ConstructInv, ChainsInv, SetupInv, SyncInv, WholeDescriptors, Owned,
           sgdmaVars, callVars, devVars, coreVars, ghosts
  <2>2. QED
    BY <2>1, ProgramKeepsInv, ServiceKeepsInv, ControllerKeepsInv DEF SgdmaNext
<1>3. QED
  BY <1>1, <1>2, PTL DEF SgdmaSpec

\* The controller never works on a descriptor that is being written (WholeDescriptors): the driver
\* hands it over by its control byte, written last (alt_avalon_sgdma_construct_descriptor_burst).
THEOREM DescriptorsAreWhole == SgdmaSpec => []WholeDescriptors
<1>1. SgdmaInv => WholeDescriptors
  BY DEF SgdmaInv
<1>2. QED
  BY <1>1, SgdmaKeepsInv, PTL

\* Unless it polls, the controller is idle when it is pointed at a chain (PointedWhileIdle): what
\* both transfers do after the check of BUSY does not set it going before they are done.
THEOREM PointedAtWhileIdle == SgdmaSpec => []PointedWhileIdle
<1>1. SgdmaInv => PointedWhileIdle
  BY DEF SgdmaInv, SetupInv, PointedWhileIdle
<1>2. QED
  BY <1>1, SgdmaKeepsInv, PTL

\* Unless the controller polls, alt_avalon_sgdma_do_sync_transfer returns what has happened to its
\* own chain and nothing of the transfers before or between (OwnStatus).
THEOREM StatusIsOwn == SgdmaSpec => []OwnStatus
<1>1. SgdmaInv => OwnStatus
  BY DEF SgdmaInv, SetupInv, SyncInv, OwnStatus
<1>2. QED
  BY <1>1, SgdmaKeepsInv, PTL

-----------------------------------------------------------------------------
(* Lines *)

LEMMA Division ==
  ASSUME NEW n \in Nat \ {0}, NEW a \in Nat
  PROVE  a \div n \in Nat /\ a % n \in 0 .. n - 1 /\ a = n * (a \div n) + (a % n)
OBVIOUS

\* Quotient and remainder are the only numbers of their kind.
LEMMA QuotientNat ==
  ASSUME NEW n \in Nat \ {0}, NEW q \in Nat, NEW rem \in 0 .. n - 1
  PROVE  (n * q + rem) \div n = q /\ (n * q + rem) % n = rem
<1> DEFINE a == n * q + rem
<1>1. a \in Nat
  <2>1. n * q \in Nat
    OBVIOUS
  <2> QED
    BY <2>1
<1> DEFINE p == a \div n
<1> DEFINE s == a % n
<1>2. p \in Nat /\ s \in 0 .. n - 1 /\ a = n * p + s
  BY <1>1, Division
<1> HIDE DEF p, s
<1>3. n * p + s = n * q + rem
  BY <1>2
<1>4. ~(p > q)
  <2>1. p > q => n * p >= n * (q + 1)
    BY <1>2
  <2>2. n * (q + 1) = n * q + n /\ n * q \in Nat /\ n * p \in Nat
    BY <1>2
  <2> QED
    BY <1>2, <1>3, <2>1, <2>2
<1>5. ~(q > p)
  <2>1. q > p => n * q >= n * (p + 1)
    BY <1>2
  <2>2. n * (p + 1) = n * p + n /\ n * q \in Nat /\ n * p \in Nat
    BY <1>2
  <2> QED
    BY <1>2, <1>3, <2>1, <2>2
<1>6. p = q
  BY <1>2, <1>4, <1>5
<1>7. n * p \in Nat /\ n * p = n * q
  BY <1>2, <1>6
<1>8. s = rem
  BY <1>2, <1>3, <1>7
<1> QED
  BY <1>6, <1>8 DEF p, s

LEMMA LineIs ==
  ASSUME NEW a \in Nat
  PROVE  LineOf(a) \in Nat /\ a % Line \in 0 .. Line - 1 /\ a = Line * LineOf(a) + (a % Line)
BY Division, CacheAssumption DEF CacheAssumption, LineOf

LEMMA LineGrows ==
  ASSUME NEW a \in Nat, NEW b \in Nat, a <= b
  PROVE  LineOf(a) <= LineOf(b)
<1> DEFINE p == LineOf(a)
<1> DEFINE q == LineOf(b)
<1>1. /\ p \in Nat /\ a % Line \in 0 .. Line - 1 /\ a = Line * p + (a % Line)
      /\ q \in Nat /\ b % Line \in 0 .. Line - 1 /\ b = Line * q + (b % Line)
      /\ Line \in Nat \ {0}
  BY LineIs, CacheAssumption DEF CacheAssumption
<1> HIDE DEF p, q
<1>2. q < p => Line * p >= Line * (q + 1)
  BY <1>1
<1>3. Line * (q + 1) = Line * q + Line /\ Line * q \in Nat /\ Line * p \in Nat
  BY <1>1
<1> QED
  BY <1>1, <1>2, <1>3 DEF p, q

\* A line on, with the same place in it.
LEMMA NextLine ==
  ASSUME NEW a \in Nat
  PROVE  LineOf(a + Line) = LineOf(a) + 1 /\ (a + Line) % Line = a % Line
<1> DEFINE q == LineOf(a)
<1> DEFINE rem == a % Line
<1>1. q \in Nat /\ rem \in 0 .. Line - 1 /\ a = Line * q + rem /\ Line \in Nat \ {0}
  BY LineIs, CacheAssumption DEF CacheAssumption
<1> HIDE DEF q, rem
<1>2. a + Line = Line * (q + 1) + rem
  <2>1. Line * (q + 1) = Line * q + Line /\ Line * q \in Nat
    BY <1>1
  <2> QED
    BY <1>1, <2>1
<1>3. q + 1 \in Nat
  BY <1>1
<1>4. (Line * (q + 1) + rem) \div Line = q + 1 /\ (Line * (q + 1) + rem) % Line = rem
  BY <1>1, <1>3, QuotientNat
<1> QED
  BY <1>2, <1>4 DEF LineOf, q, rem

\* An address that begins a line lies in a later line than all before it, one that does not in that
\* of the address before.
LEMMA LineBegins ==
  ASSUME NEW a \in Nat, NEW b \in Nat, a < b, b % Line = 0
  PROVE  LineOf(a) < LineOf(b)
<1> DEFINE p == LineOf(a)
<1> DEFINE q == LineOf(b)
<1>1. /\ p \in Nat /\ a % Line \in 0 .. Line - 1 /\ a = Line * p + (a % Line)
      /\ q \in Nat /\ b = Line * q + 0 /\ Line \in Nat \ {0}
  BY LineIs, CacheAssumption DEF CacheAssumption
<1> HIDE DEF p, q
<1>2. q <= p => Line * p >= Line * q
  BY <1>1
<1>3. Line * q \in Nat /\ Line * p \in Nat
  BY <1>1
<1> QED
  BY <1>1, <1>2, <1>3 DEF p, q

LEMMA WithinLine ==
  ASSUME NEW a \in Nat, a % Line # 0
  PROVE  a - 1 \in Nat /\ LineOf(a - 1) = LineOf(a)
<1> DEFINE q == LineOf(a)
<1> DEFINE rem == a % Line
<1>1. q \in Nat /\ rem \in 0 .. Line - 1 /\ a = Line * q + rem /\ Line \in Nat \ {0} /\ rem # 0
  BY LineIs, CacheAssumption DEF CacheAssumption
<1> HIDE DEF q, rem
<1>2. a - 1 = Line * q + (rem - 1) /\ rem - 1 \in 0 .. Line - 1 /\ a - 1 \in Nat
  <2>1. Line * q \in Nat
    BY <1>1
  <2> QED
    BY <1>1, <2>1
<1>3. (Line * q + (rem - 1)) \div Line = q
  BY <1>1, <1>2, QuotientNat
<1> QED
  BY <1>2, <1>3 DEF LineOf, q

\* The cache has a whole number of lines, the first of which have their own numbers as indices.
LEMMA IndexIs ==
  /\ Size \div Line \in Nat \ {0}
  /\ \A l \in Nat : Index(l) \in 0 .. (Size \div Line) - 1
  /\ \A a \in 0 .. Size - 1 : Index(LineOf(a)) = LineOf(a)
  /\ \A a \in Nat : a >= Size => LineOf(a) >= Size \div Line
<1> DEFINE n == Size \div Line
<1>1. n = LineOf(Size) /\ Size \in Nat \ {0} /\ Size % Line = 0 /\ 0 \in Nat
  BY CacheAssumption DEF CacheAssumption, LineOf
<1>2. LineOf(0) \in Nat /\ LineOf(0) < n /\ n \in Nat
  BY <1>1, LineBegins, LineIs
<1>3. n \in Nat \ {0}
  BY <1>2
<1> HIDE DEF n
<1>4. \A l \in Nat : l % n \in 0 .. n - 1
  BY <1>3, Division
<1>5. \A l \in 0 .. n - 1 : l % n = l
  <2> SUFFICES ASSUME NEW l \in 0 .. n - 1 PROVE l % n = l
    OBVIOUS
  <2>1. (n * 0 + l) % n = l
    BY <1>3, QuotientNat
  <2>2. n * 0 + l = l
    BY <1>3
  <2> QED
    BY <2>1, <2>2
<1>6. \A a \in 0 .. Size - 1 : LineOf(a) \in 0 .. n - 1
  <2> SUFFICES ASSUME NEW a \in 0 .. Size - 1 PROVE LineOf(a) \in 0 .. n - 1
    OBVIOUS
  <2>1. a \in Nat /\ a < Size /\ Size \in Nat
    BY <1>1
  <2> QED
    BY <1>1, <1>3, <2>1, LineBegins, LineIs
<1>7. \A a \in Nat : a >= Size => LineOf(a) >= n
  BY <1>1, LineGrows
<1>8. \A l : Index(l) = l % n
  BY DEF Index, n
<1> QED
  BY <1>3, <1>4, <1>5, <1>6, <1>7, <1>8 DEF n

-----------------------------------------------------------------------------
(* Functions of the cache *)

ByIndex == {"dcache_flush_all", "icache_flush"}
CacheFunctions == {"dcache_flush", "no_writeback", "uncached_malloc"} \cup ByIndex

CacheTypes ==
  /\ cached \subseteq Nat /\ dirty \subseteq cached /\ discarded \subseteq Nat
  /\ i \in Nat /\ block \in Nat \cup {NoBlock}
  /\ op = NoOp \/ op \in [name : CacheFunctions, start : Nat, len : Nat]

\* The address goes from the start in steps of a line, and stops in the first one behind the region.
Steps ==
  op # NoOp => i >= op.start /\ i % Line = op.start % Line /\ i < op.start + op.len + Line

\* No line is left of what lies behind the address, nor, if all of the cache is flushed, any line
\* with the indices of it.
Behind ==
  op # NoOp =>
    /\ \A l \in cached : l \notin LineOf(op.start) .. LineOf(i) - 1
    /\ op.name = "dcache_flush_all" =>
         op.start = 0 /\ op.len = Size /\ \A l \in cached : Index(l) \notin 0 .. LineOf(i) - 1

\* What may be discarded of a region.
Droppable == IF op.name = "no_writeback" THEN Lines(op.start, op.len + Line - 1) ELSE {}
Dropped == op # NoOp => discarded \subseteq Droppable

GivenBlock == op.name = "uncached_malloc" => op.start \in 0 .. Memory - 1 /\ block = op.start + Memory

CacheInv == CacheTypes /\ Steps /\ Behind /\ Dropped /\ GivenBlock

\* What each of the instructions does to the line it is about.
LEMMA InstructionIs ==
  ASSUME CacheTypes, op # NoOp, NEW addr \in Nat, Instruction(addr)
  PROVE  /\ cached' \subseteq cached /\ LineOf(addr) \notin cached' /\ dirty' \subseteq cached'
         /\ op.name \in ByIndex => \A l \in cached' : Index(l) # Index(LineOf(addr))
         /\ discarded' \subseteq discarded \cup (IF op.name = "no_writeback" THEN {LineOf(addr)} ELSE {})
<1>1. op.name \in CacheFunctions
  BY DEF CacheTypes
<1>2. CASE op.name \in {"dcache_flush", "uncached_malloc"}
  BY <1>2 DEF Instruction, flushda, Drop, CacheTypes, ByIndex
<1>3. CASE op.name = "no_writeback"
  BY <1>3 DEF Instruction, initda, Drop, CacheTypes, ByIndex
<1>4. CASE op.name \in ByIndex
  BY <1>4 DEF Instruction, flushd, Drop, CacheTypes, ByIndex
<1> QED
  BY <1>1, <1>2, <1>3, <1>4 DEF CacheFunctions

\* The beginning of a function.
LEMMA StartKeeps ==
  ASSUME CacheInv, NEW name \in CacheFunctions, NEW start \in Nat, NEW len \in Nat, Starts(name, start, len),
         name = "dcache_flush_all" => start = 0 /\ len = Size,
         name = "uncached_malloc" => start \in 0 .. Memory - 1 /\ block' = start + Memory,
         block' \in Nat \cup {NoBlock}
  PROVE  CacheInv'
<1>1. op' = [name |-> name, start |-> start, len |-> len] /\ i' = start /\ discarded' = {}
      /\ cached' = cached /\ dirty' = dirty
  BY DEF Starts
<1>2. Line \in Nat \ {0} /\ LineOf(start) \in Nat
  BY LineIs, CacheAssumption DEF CacheAssumption
<1>3. CacheTypes'
  BY <1>1 DEF CacheInv, CacheTypes
<1>4. Steps'
  BY <1>1, <1>2 DEF Steps
<1>5. Behind'
  <2>1. LineOf(start) .. LineOf(start) - 1 = {}
    BY <1>2
  <2>2. start = 0 => 0 .. LineOf(start) - 1 = {}
    <3>1. LineOf(0) = 0
      <4>1. (Line * 0 + 0) \div Line = 0
        BY <1>2, QuotientNat
      <4>2. Line * 0 + 0 = 0
        BY <1>2
      <4> QED
        BY <4>1, <4>2 DEF LineOf
    <3> QED
      BY <3>1
  <2>3. op'.start = start /\ op'.len = len /\ op'.name = name
    BY <1>1
  <2> QED
    BY <1>1, <2>1, <2>2, <2>3 DEF Behind
<1>6. Dropped' /\ GivenBlock'
  BY <1>1 DEF Dropped, GivenBlock
<1> QED
  BY <1>3, <1>4, <1>5, <1>6 DEF CacheInv

LEMMA LoopKeeps ==
  ASSUME CacheInv, Loop
  PROVE  CacheInv'
<1>1. /\ op # NoOp /\ op' = op /\ block' = block /\ i' = i + Line /\ Instruction(i) /\ i < op.start + op.len
      /\ i \in Nat /\ Line \in Nat \ {0} /\ op \in [name : CacheFunctions, start : Nat, len : Nat]
  BY CacheAssumption DEF Loop, CacheInv, CacheTypes, CacheAssumption
<1>2. /\ cached' \subseteq cached /\ LineOf(i) \notin cached' /\ dirty' \subseteq cached'
      /\ op.name \in ByIndex => \A l \in cached' : Index(l) # Index(LineOf(i))
      /\ discarded' \subseteq discarded \cup (IF op.name = "no_writeback" THEN {LineOf(i)} ELSE {})
  BY <1>1, InstructionIs DEF CacheInv
<1>3. LineOf(i) \in Nat /\ LineOf(i') = LineOf(i) + 1 /\ i' % Line = i % Line
  BY <1>1, LineIs, NextLine
<1>4. CacheTypes'
  BY <1>1, <1>2, <1>3 DEF CacheInv, CacheTypes
<1>5. Steps'
  BY <1>1, <1>3 DEF CacheInv, Steps
<1>6. Behind'
  <2>1. LineOf(op.start) \in Nat
    BY <1>1, LineIs
  <2>2. \A l \in cached' : l \notin LineOf(op.start) .. LineOf(i') - 1
    BY <1>1, <1>2, <1>3, <2>1 DEF CacheInv, Behind, CacheTypes
  <2>3. ASSUME op.name = "dcache_flush_all", NEW l \in cached'
        PROVE  Index(l) \notin 0 .. LineOf(i') - 1
    <3>1. l \in cached /\ l \in Nat /\ Index(l) \in Nat
      BY <1>2, IndexIs DEF CacheInv, CacheTypes
    <3>2. Index(l) \notin 0 .. LineOf(i) - 1
      BY <1>1, <2>3, <3>1 DEF CacheInv, Behind
    <3>3. i \in 0 .. Size - 1
      BY <1>1, <2>3, CacheAssumption DEF CacheInv, Behind, CacheAssumption
    <3>4. Index(l) # LineOf(i)
      BY <1>2, <2>3, <3>3, IndexIs DEF ByIndex
    <3> QED
      BY <1>3, <3>1, <3>2, <3>4
  <2> QED
    BY <1>1, <2>2, <2>3 DEF CacheInv, Behind
<1>7. Dropped'
  <2>1. op.name = "no_writeback" => LineOf(i) \in Lines(op.start, op.len + Line - 1)
    <3>1. i \in op.start .. op.start + (op.len + Line - 1) - 1
      BY <1>1 DEF CacheInv, Steps
    <3> QED
      BY <3>1 DEF Lines
  <2> QED
    BY <1>1, <1>2, <2>1 DEF CacheInv, Dropped, Droppable
<1>8. GivenBlock'
  BY <1>1 DEF CacheInv, GivenBlock
<1> QED
  BY <1>4, <1>5, <1>6, <1>7, <1>8 DEF CacheInv

\* What is left when a function returns.
LEMMA FinishFlushes ==
  ASSUME CacheInv, Finish
  PROVE  /\ CacheInv'
         /\ Lines(op.start, op.len) \cap cached' = {}
         /\ op.name = "dcache_flush_all" => cached' = {}
         /\ discarded' \subseteq Droppable
<1>1. /\ op # NoOp /\ op' = NoOp /\ block' = block /\ i' = 0 /\ i >= op.start + op.len
      /\ i \in Nat /\ Line \in Nat \ {0} /\ op \in [name : CacheFunctions, start : Nat, len : Nat]
      /\ i % Line = op.start % Line /\ i < op.start + op.len + Line
  BY CacheAssumption DEF Finish, CacheInv, CacheTypes, CacheAssumption, Steps
<1>2. LineOf(op.start) \in Nat /\ LineOf(i) \in Nat /\ LineOf(op.start) <= LineOf(i)
  BY <1>1, LineIs, LineGrows
<1>3. \A l \in cached : l \in Nat /\ l \notin LineOf(op.start) .. LineOf(i) - 1
  BY <1>1 DEF CacheInv, CacheTypes, Behind
<1>4. /\ cached' \subseteq cached /\ dirty' \subseteq cached'
      /\ discarded' \subseteq discarded \cup (IF op.name = "no_writeback" /\ Unaligned THEN {LineOf(i)} ELSE {})
      /\ Unaligned => LineOf(i) \notin cached'
  <2>1. CASE Unaligned
    BY <1>1, <2>1, InstructionIs DEF Finish, CacheInv
  <2>2. CASE ~Unaligned
    BY <2>2 DEF Finish, CacheInv, CacheTypes
  <2> QED
    BY <2>1, <2>2
<1>5. Lines(op.start, op.len) \cap cached' = {}
  <2> SUFFICES ASSUME NEW a \in op.start .. op.start + op.len - 1, LineOf(a) \in cached'
               PROVE  FALSE
    BY DEF Lines
  <2>1. a \in Nat /\ a < i /\ op.start <= a
    BY <1>1
  <2>2. LineOf(a) \in Nat /\ LineOf(op.start) <= LineOf(a) /\ LineOf(a) <= LineOf(i)
    BY <1>1, <2>1, LineIs, LineGrows
  <2>3. LineOf(a) = LineOf(i)
    BY <1>2, <1>3, <1>4, <2>2
  <2>4. CASE Unaligned
    BY <1>4, <2>3, <2>4
  <2>5. CASE ~Unaligned
    BY <1>1, <1>2, <2>1, <2>2, <2>3, <2>5, LineBegins DEF Unaligned
  <2> QED
    BY <2>4, <2>5
<1>6. op.name = "dcache_flush_all" => cached' = {}
  <2> SUFFICES ASSUME op.name = "dcache_flush_all", NEW l \in cached' PROVE FALSE
    OBVIOUS
  <2>1. op.start = 0 /\ op.len = Size /\ Index(l) \notin 0 .. LineOf(i) - 1
    BY <1>1, <1>4 DEF CacheInv, Behind
  <2>2. i >= Size
    BY <1>1, <2>1, CacheAssumption DEF CacheAssumption
  <2>3. LineOf(i) >= Size \div Line /\ Index(l) \in 0 .. (Size \div Line) - 1 /\ Size \div Line \in Nat
    BY <1>1, <1>3, <1>4, <2>2, IndexIs
  <2> QED
    BY <1>2, <2>1, <2>3
<1>7. discarded' \subseteq Droppable
  <2>1. Unaligned => LineOf(i) \in Lines(op.start, op.len + Line - 1)
    <3> SUFFICES ASSUME Unaligned PROVE LineOf(i) \in Lines(op.start, op.len + Line - 1)
      OBVIOUS
    <3>1. i % Line # 0
      BY <1>1 DEF Unaligned
    <3>2. i - 1 \in Nat /\ LineOf(i - 1) = LineOf(i)
      BY <1>1, <3>1, WithinLine
    <3>3. CASE i = op.start
      <4>1. Line # 1
        <5>1. i % Line \in 0 .. Line - 1
          BY <1>1, LineIs
        <5> QED
          BY <3>1, <5>1
      <4>2. i \in op.start .. op.start + (op.len + Line - 1) - 1
        BY <1>1, <3>3, <4>1
      <4> QED
        BY <4>2 DEF Lines
    <3>4. CASE i # op.start
      <4>1. i - 1 \in op.start .. op.start + (op.len + Line - 1) - 1
        BY <1>1, <3>4 DEF CacheInv, Steps
      <4> QED
        BY <3>2, <4>1 DEF Lines
    <3> QED
      BY <3>3, <3>4
  <2> QED
    BY <1>1, <1>4, <2>1 DEF CacheInv, Dropped, Droppable
<1>8. CacheInv'
  <2>1. discarded' \subseteq Nat
    BY <1>2, <1>4 DEF CacheInv, CacheTypes
  <2>2. CacheTypes'
    BY <1>1, <1>3, <1>4, <2>1 DEF CacheInv, CacheTypes
  <2> QED
    BY <1>1, <2>2 DEF CacheInv, Steps, Behind, Dropped, GivenBlock, NoOp
<1> QED
  BY <1>5, <1>6, <1>7, <1>8

LEMMA CacheStep ==
  ASSUME CacheInv, [CacheNext]_cacheVars
  PROVE  CacheInv' /\ (Finish \/ UNCHANGED cacheVars \/ op = NoOp \/ op' # NoOp)
<1>1. /\ Line \in Nat \ {0} /\ Size \in Nat \ {0} /\ Memory \in Nat
      /\ block \in Nat \cup {NoBlock}
  BY CacheAssumption DEF CacheAssumption, CacheInv, CacheTypes
<1>2. ASSUME NEW start \in 0 .. Memory - 1, NEW len \in 0 .. Memory - start,
             \/ alt_dcache_flush(start, len) \/ alt_dcache_flush_no_writeback(start, len)
             \/ alt_icache_flush(start, len)
      PROVE  CacheInv' /\ op = NoOp
  <2>1. PICK name \in CacheFunctions \ {"dcache_flush_all", "uncached_malloc"}, n \in Nat : Starts(name, start, n) /\ block' = block
    BY <1>1, <1>2 DEF alt_dcache_flush, alt_dcache_flush_no_writeback, alt_icache_flush, CacheFunctions, ByIndex
  <2>2. start \in Nat
    BY <1>1
  <2> QED
    BY <1>1, <2>1, <2>2, StartKeeps DEF Starts
<1>3. ASSUME NEW start \in 0 .. Memory - 1, NEW len \in 0 .. Memory - start, len > 0, alt_uncached_malloc(start, len)
      PROVE  CacheInv' /\ op = NoOp
  <2> DEFINE aligned_size == ((len + Line - 1) \div Line) * Line
  <2>1. start \in Nat /\ len + Line - 1 \in Nat
    BY <1>1
  <2>2. (len + Line - 1) \div Line \in Nat
    BY <1>1, <2>1, Division
  <2>3. aligned_size \in Nat
    BY <1>1, <2>2
  <2> HIDE DEF aligned_size
  <2>4. Starts("uncached_malloc", start, aligned_size) /\ block' = start + Memory
    BY <1>3 DEF alt_uncached_malloc, aligned_size
  <2>5. "uncached_malloc" \in CacheFunctions /\ block' \in Nat
    BY <1>1, <2>1, <2>4 DEF CacheFunctions
  <2> QED
    BY <2>1, <2>3, <2>4, <2>5, StartKeeps DEF Starts
<1>4. CASE alt_dcache_flush_all
  <2>1. "dcache_flush_all" \in CacheFunctions
    BY DEF CacheFunctions, ByIndex
  <2>2. Starts("dcache_flush_all", 0, Size) /\ block' = block /\ 0 \in Nat /\ Size \in Nat
    BY <1>1, <1>4 DEF alt_dcache_flush_all
  <2> QED
    BY <1>1, <2>1, <2>2, StartKeeps DEF Starts
<1>5. CASE alt_icache_flush_all
  <2>1. "icache_flush" \in CacheFunctions
    BY DEF CacheFunctions, ByIndex
  <2>2. Starts("icache_flush", 0, Size) /\ block' = block /\ 0 \in Nat /\ Size \in Nat
    BY <1>1, <1>5 DEF alt_icache_flush_all, alt_icache_flush
  <2> QED
    BY <1>1, <2>1, <2>2, StartKeeps DEF Starts
<1>6. CASE alt_uncached_free(block)
  <2>1. op = NoOp /\ op' = NoOp /\ block' = NoBlock /\ UNCHANGED <<cached, dirty, discarded, i>>
    BY <1>6 DEF alt_uncached_free
  <2> QED
    BY <2>1 DEF CacheInv, CacheTypes, Steps, Behind, Dropped, GivenBlock, NoOp
<1>7. ASSUME NEW line \in 0 .. (Memory \div Line) - 1, NEW writes \in BOOLEAN, Access(line, writes)
      PROVE  CacheInv' /\ op = NoOp
  <2>1. line \in Nat
    BY <1>1, Division
  <2>2. op = NoOp /\ op' = NoOp /\ UNCHANGED <<discarded, i, block>>
        /\ cached' \subseteq cached \cup {line} /\ dirty' \subseteq cached'
    BY <1>7 DEF Access, CacheInv, CacheTypes
  <2>3. CacheTypes'
    BY <2>1, <2>2 DEF CacheInv, CacheTypes
  <2> QED
    BY <2>2, <2>3 DEF CacheInv, Steps, Behind, Dropped, GivenBlock, NoOp
<1>8. CASE Loop
  BY <1>8, LoopKeeps DEF Loop
<1>9. CASE Finish
  BY <1>9, FinishFlushes
<1>10. CASE UNCHANGED cacheVars
  BY <1>10 DEF cacheVars, CacheInv, CacheTypes, Steps, Behind, Dropped, Droppable, GivenBlock
<1>11. CASE CacheNext
  BY <1>2, <1>3, <1>4, <1>5, <1>6, <1>7, <1>8, <1>9, <1>11 DEF CacheNext, alt_uncached_free
<1> QED
  BY <1>10, <1>11

\* Once a function returns, nothing of the region is in the cache, and of the changes memory is
\* behind of only those were dropped that were to be (RegionIsFlushed: alt_dcache_flush.c,
\* alt_dcache_flush_no_writeback.c, alt_icache_flush.c and those that flush all).
THEOREM RegionsAreFlushed == CacheSpec => RegionIsFlushed
<1>1. CacheInit => CacheInv
  BY DEF CacheInit, CacheInv, CacheTypes, Steps, Behind, Dropped, GivenBlock, NoOp
<1>2. CacheInv /\ [CacheNext]_cacheVars => CacheInv'
  BY CacheStep
<1> DEFINE Flushes ==
       op # NoOp /\ op' = NoOp =>
         /\ Lines(op.start, op.len) \cap cached' = {}
         /\ op.name = "dcache_flush_all" => cached' = {}
         /\ discarded' \subseteq
              (IF op.name = "no_writeback" THEN Lines(op.start, op.len + Line - 1) ELSE {})
         /\ op.name = "uncached_malloc" => Lines(alt_remap_cached(block), op.len) \cap cached' = {}
<1>3. CacheInv /\ [CacheNext]_cacheVars => [Flushes]_cacheVars
  <2> SUFFICES ASSUME CacheInv, [CacheNext]_cacheVars, op # NoOp, op' = NoOp, ~UNCHANGED cacheVars
               PROVE  Flushes
    OBVIOUS
  <2>1. Finish
    BY CacheStep
  <2>2. /\ Lines(op.start, op.len) \cap cached' = {}
        /\ op.name = "dcache_flush_all" => cached' = {}
        /\ discarded' \subseteq Droppable
    BY <2>1, FinishFlushes
  <2>3. op.name = "uncached_malloc" => alt_remap_cached(block) = op.start
    <3> SUFFICES ASSUME op.name = "uncached_malloc" PROVE alt_remap_cached(block) = op.start
      OBVIOUS
    <3>1. op.start \in 0 .. Memory - 1 /\ block = op.start + Memory /\ Memory \in Nat
      BY CacheAssumption DEF CacheInv, GivenBlock, CacheAssumption
    <3>2. Memory \in Nat \ {0} /\ 1 \in Nat
      BY <3>1
    <3>3. (Memory * 1 + op.start) % Memory = op.start
      BY <3>1, <3>2, QuotientNat
    <3>4. Memory * 1 + op.start = block
      BY <3>1
    <3> QED
      BY <3>3, <3>4 DEF alt_remap_cached
  <2> QED
    BY <2>2, <2>3 DEF Droppable
<1> QED
  BY <1>1, <1>2, <1>3, PTL DEF CacheSpec, RegionIsFlushed

-----------------------------------------------------------------------------
(* Quotients *)

LEMMA DivisionInt ==
  ASSUME NEW a \in Int, NEW n \in Nat \ {0}
  PROVE  a \div n \in Int /\ a % n \in 0 .. n - 1 /\ a = n * (a \div n) + (a % n)
OBVIOUS

LEMMA DivisionNat ==
  ASSUME NEW a \in Nat, NEW n \in Nat \ {0}
  PROVE  a \div n \in Nat /\ a % n \in 0 .. n - 1 /\ a = n * (a \div n) + (a % n)
OBVIOUS

\* Quotient and remainder are the only numbers of their kind.
LEMMA TheQuotient ==
  ASSUME NEW n \in Nat \ {0}, NEW q \in Int, NEW s \in 0 .. n - 1
  PROVE  (n * q + s) \div n = q /\ (n * q + s) % n = s
<1> DEFINE a == n * q + s
<1>1. a \in Int
  <2>1. n * q \in Int
    OBVIOUS
  <2> QED
    BY <2>1
<1> DEFINE p == a \div n
<1> DEFINE t == a % n
<1>2. p \in Int /\ t \in 0 .. n - 1 /\ a = n * p + t
  BY <1>1, DivisionInt
<1> HIDE DEF p, t
<1>3. n * p + t = n * q + s
  BY <1>2
<1>4. ~(p > q)
  <2>1. p > q => n * p >= n * (q + 1)
    BY <1>2
  <2>2. n * (q + 1) = n * q + n /\ n * q \in Int /\ n * p \in Int
    BY <1>2
  <2> QED
    BY <1>2, <1>3, <2>1, <2>2
<1>5. ~(q > p)
  <2>1. q > p => n * q >= n * (p + 1)
    BY <1>2
  <2>2. n * (p + 1) = n * p + n /\ n * q \in Int /\ n * p \in Int
    BY <1>2
  <2> QED
    BY <1>2, <1>3, <2>1, <2>2
<1>6. p = q
  BY <1>2, <1>4, <1>5
<1>7. n * p \in Int /\ n * p = n * q
  BY <1>2, <1>6
<1>8. t = s
  BY <1>2, <1>3, <1>7
<1> QED
  BY <1>6, <1>8 DEF p, t

\* A multiple of the divisor comes out of quotient and remainder.
LEMMA MultipleOut ==
  ASSUME NEW a \in Int, NEW n \in Nat \ {0}, NEW c \in Int
  PROVE  (a + n * c) \div n = (a \div n) + c /\ (a + n * c) % n = a % n
<1> DEFINE q == a \div n
<1> DEFINE s == a % n
<1>1. q \in Int /\ s \in 0 .. n - 1 /\ a = n * q + s
  BY DivisionInt
<1> HIDE DEF q, s
<1>2. a + n * c = n * (q + c) + s
  <2>1. n * (q + c) = n * q + n * c /\ n * q \in Int /\ n * c \in Int
    BY <1>1
  <2> QED
    BY <1>1, <2>1
<1>3. (n * (q + c) + s) \div n = q + c /\ (n * (q + c) + s) % n = s
  <2>1. q + c \in Int
    BY <1>1
  <2> QED
    BY <1>1, <2>1, TheQuotient
<1> QED
  BY <1>2, <1>3 DEF q, s

\* Doubling the divisor halves quotients, and lets the remainder grow by the bit cut off.
LEMMA Halving ==
  ASSUME NEW a \in Nat, NEW n \in Nat \ {0}
  PROVE  /\ a \div (2 * n) = (a \div n) \div 2
         /\ a % (2 * n) = (a % n) + n * ((a \div n) % 2)
<1> DEFINE q == a \div n
<1> DEFINE s == a % n
<1>1. q \in Nat /\ s \in 0 .. n - 1 /\ a = n * q + s
  BY DivisionNat
<1> HIDE DEF q, s
<1> DEFINE h == q \div 2
<1> DEFINE b == q % 2
<1>2. h \in Nat /\ b \in {0, 1} /\ q = 2 * h + b
  BY <1>1
<1> HIDE DEF h, b
<1>3. n * b \in 0 .. n
  BY <1>2
<1>4. s + n * b \in 0 .. 2 * n - 1 /\ 2 * n \in Nat \ {0}
  <2>1. CASE b = 0
    <3>1. n * b = 0
      BY <2>1
    <3> QED
      BY <1>1, <3>1
  <2>2. CASE b = 1
    <3>1. n * b = n
      BY <2>2
    <3> QED
      BY <1>1, <3>1
  <2> QED
    BY <1>2, <2>1, <2>2
<1>5. a = (2 * n) * h + (s + n * b)
  <2>1. n * q = n * (2 * h + b)
    BY <1>2
  <2>2. n * (2 * h + b) = (2 * n) * h + n * b /\ (2 * n) * h \in Nat
    BY <1>2
  <2> QED
    BY <1>1, <1>3, <2>1, <2>2
<1>6. /\ ((2 * n) * h + (s + n * b)) \div (2 * n) = h
      /\ ((2 * n) * h + (s + n * b)) % (2 * n) = s + n * b
  <2> DEFINE d == 2 * n
  <2> DEFINE w == s + n * b
  <2>1. d \in Nat \ {0} /\ w \in 0 .. d - 1 /\ h \in Int
    BY <1>2, <1>4
  <2> HIDE DEF d, w
  <2>2. (d * h + w) \div d = h /\ (d * h + w) % d = w
    BY <2>1, TheQuotient
  <2> QED
    BY <2>2 DEF d, w
<1> QED
  BY <1>5, <1>6 DEF q, s, h, b

\* What is cut off before is cut off after.
LEMMA ModTwice ==
  ASSUME NEW u \in Int, NEW v \in Int, NEW n \in Nat \ {0}
  PROVE  (2 * (u % n) + v) % n = (2 * u + v) % n
<1> DEFINE q == u \div n
<1> DEFINE s == u % n
<1>1. q \in Int /\ s \in 0 .. n - 1 /\ u = n * q + s
  BY DivisionInt
<1> HIDE DEF q, s
<1>2. 2 * u + v = (2 * s + v) + n * (2 * q)
  <2>1. n * (2 * q) = 2 * (n * q) /\ n * q \in Int
    BY <1>1
  <2> QED
    BY <1>1, <2>1
<1>3. ((2 * s + v) + n * (2 * q)) % n = (2 * s + v) % n
  <2>1. 2 * s + v \in Int /\ 2 * q \in Int
    BY <1>1
  <2> QED
    BY <2>1, MultipleOut
<1> QED
  BY <1>2, <1>3 DEF s

\* A number below the divisor is its own remainder.
LEMMA ModSmall ==
  ASSUME NEW n \in Nat \ {0}, NEW s \in 0 .. n - 1
  PROVE  s % n = s /\ s \div n = 0
<1>1. n * 0 + s = s /\ 0 \in Int
  OBVIOUS
<1> QED
  BY <1>1, TheQuotient

-----------------------------------------------------------------------------
(* One turn of the loops, over a divisor p that is half of the one before *)

LEMMA BitIs ==
  ASSUME NEW a \in Nat, NEW p \in Nat \ {0}
  PROVE  /\ (a \div p) % 2 \in {0, 1}
         /\ a \div p = 2 * (a \div (2 * p)) + ((a \div p) % 2)
         /\ a % (2 * p) = (a % p) + p * ((a \div p) % 2)
<1>1. a \div p \in Nat
  BY DivisionNat
<1>2. \A q \in Nat : q % 2 \in {0, 1} /\ q = 2 * (q \div 2) + (q % 2)
  OBVIOUS
<1>3. a \div (2 * p) = (a \div p) \div 2 /\ a % (2 * p) = (a % p) + p * ((a \div p) % 2)
  BY Halving
<1> QED
  BY <1>1, <1>2, <1>3

\* The upper half of a product: the bit of the multiplier adds the multiplicand, and a bit is
\* shifted out.
HighTurns(x, y, p) ==
  (((y % p) * x) \div p + (IF (y \div p) % 2 = 1 THEN x ELSE 0)) \div 2 = ((y % (2 * p)) * x) \div (2 * p)

LEMMA HighTurn == ASSUME NEW x \in Nat, NEW y \in Nat, NEW p \in Nat \ {0} PROVE HighTurns(x, y, p)
<1> DEFINE t == (y \div p) % 2
<1> DEFINE m == y % p
<1>1. t \in {0, 1} /\ y % (2 * p) = m + p * t
  BY BitIs
<1>2. m \in Nat
  BY DivisionNat
<1> HIDE DEF t, m
<1>3. (m + p * t) * x = m * x + p * (t * x) /\ m * x \in Nat /\ t * x \in Nat
  <2>1. CASE t = 0
    BY <1>2, <2>1
  <2>2. CASE t = 1
    <3>1. (m + p) * x = m * x + p * x /\ m * x \in Nat
      BY <1>2
    <3>2. p * 1 = p /\ 1 * x = x
      OBVIOUS
    <3> QED
      BY <2>2, <3>1, <3>2
  <2> QED
    BY <1>1, <2>1, <2>2
<1>4. (m * x + p * (t * x)) \div p = ((m * x) \div p) + (t * x)
  <2> DEFINE e == m * x
  <2> DEFINE f == t * x
  <2>1. e \in Int /\ f \in Int
    BY <1>3
  <2> HIDE DEF e, f
  <2>2. (e + p * f) \div p = (e \div p) + f
    BY <2>1, MultipleOut
  <2> QED
    BY <2>2 DEF e, f
<1>5. m * x + p * (t * x) \in Nat
  <2>1. p * (t * x) \in Nat
    BY <1>3
  <2> QED
    BY <1>3, <2>1
<1>6. (m * x + p * (t * x)) \div (2 * p) = ((m * x + p * (t * x)) \div p) \div 2
  BY <1>5, Halving
<1>7. t * x = IF t = 1 THEN x ELSE 0
  BY <1>1
<1> QED
  BY <1>1, <1>3, <1>4, <1>6, <1>7 DEF t, m, HighTurns

\* The lower half: what was added so far is doubled, and the bit adds the multiplicand.
LowTurns(x, y, p, n) ==
  (2 * (((y \div (2 * p)) * x) % n) + (IF (y \div p) % 2 = 1 THEN x ELSE 0)) % n = ((y \div p) * x) % n

LEMMA LowTurn ==
  ASSUME NEW x \in Nat, NEW y \in Nat, NEW p \in Nat \ {0}, NEW n \in Nat \ {0} PROVE LowTurns(x, y, p, n)
<1> DEFINE t == (y \div p) % 2
<1> DEFINE h == y \div (2 * p)
<1> DEFINE v == IF t = 1 THEN x ELSE 0
<1>1. t \in {0, 1} /\ y \div p = 2 * h + t
  BY BitIs
<1>2. h \in Nat
  BY DivisionNat
<1> HIDE DEF t, h
<1>3. h * x \in Nat /\ v \in Nat
  BY <1>2
<1>4. (2 * ((h * x) % n) + v) % n = (2 * (h * x) + v) % n
  <2> DEFINE e == h * x
  <2>1. e \in Int /\ v \in Int
    BY <1>3
  <2> HIDE DEF e, v
  <2>2. (2 * (e % n) + v) % n = (2 * e + v) % n
    BY <2>1, ModTwice
  <2> QED
    BY <2>2 DEF e
<1>5. (2 * h + t) * x = 2 * (h * x) + v
  <2>1. CASE t = 0
    BY <1>2, <2>1
  <2>2. CASE t = 1
    <3>1. (2 * h + 1) * x = 2 * (h * x) + x
      BY <1>2
    <3> QED
      BY <2>2, <3>1
  <2> QED
    BY <1>1, <2>1, <2>2
<1> QED
  BY <1>1, <1>4, <1>5 DEF t, h, LowTurns

\* A number whose upper bits are in front: the first of them is shifted out, and is seen before.
ShiftTurns(y, p, c) ==
  /\ (2 * ((y % (2 * p)) * c)) % (2 * (p * c)) = (y % p) * (2 * c)
  /\ (y % (2 * p)) * c >= p * c <=> (y \div p) % 2 = 1

LEMMA ShiftTurn == ASSUME NEW y \in Nat, NEW p \in Nat \ {0}, NEW c \in Nat \ {0} PROVE ShiftTurns(y, p, c)
<1> DEFINE t == (y \div p) % 2
<1> DEFINE m == y % p
<1>1. t \in {0, 1} /\ y % (2 * p) = m + p * t
  BY BitIs
<1>2. m \in 0 .. p - 1
  BY DivisionNat
<1> HIDE DEF t, m
<1>3. m * c \in Nat /\ p * c \in Nat \ {0} /\ m * c <= p * c - c
  <2>1. m * c <= (p - 1) * c /\ (p - 1) * c = p * c - c /\ p * c \in Nat \ {0}
    BY <1>2
  <2> QED
    BY <1>2, <2>1
<1>4. (m + p * t) * c = m * c + t * (p * c)
  <2>1. CASE t = 0
    BY <1>2, <2>1
  <2>2. CASE t = 1
    <3>1. (m + p) * c = m * c + p * c
      BY <1>2
    <3> QED
      BY <1>2, <2>2, <3>1
  <2> QED
    BY <1>1, <2>1, <2>2
<1> DEFINE w == 2 * (p * c)
<1> DEFINE l == m * c
<1> DEFINE u == p * c
<1>5. l \in Nat /\ u \in Nat \ {0} /\ l < u
  BY <1>3
<1>6. m * (2 * c) = 2 * l
  BY <1>2
<1> HIDE DEF l, u
<1>7. w = 2 * u
  BY DEF u
<1>8. (2 * l + w * t) % w = 2 * l
  <2>1. w \in Nat \ {0} /\ 2 * l \in 0 .. w - 1 /\ t \in Int /\ 2 * l \in Int
    BY <1>1, <1>5, <1>7
  <2> HIDE DEF w
  <2>2. (2 * l + w * t) % w = (2 * l) % w /\ (2 * l) % w = 2 * l
    BY <2>1, MultipleOut, ModSmall
  <2> QED
    BY <2>2
<1>9. 2 * (l + t * u) = 2 * l + w * t
  BY <1>1, <1>5, <1>7
<1>10. (y % (2 * p)) * c = l + t * u
  BY <1>1, <1>4 DEF l, u
<1>11. l + t * u \in Nat /\ (l + t * u >= u <=> t = 1)
  BY <1>1, <1>5
<1> HIDE DEF w
<1>12. (2 * ((y % (2 * p)) * c)) % w = m * (2 * c)
  BY <1>6, <1>8, <1>9, <1>10
<1>13. (y % (2 * p)) * c \in Nat /\ ((y % (2 * p)) * c >= u <=> t = 1)
  BY <1>7, <1>10, <1>11
<1> QED
  BY <1>12, <1>13 DEF m, t, w, u, ShiftTurns

\* A turn of the division in terms of its parts: the dividend's next bit t is in front of what is
\* left of it, l; h of it has been divided so far, with quotient q behind l and remainder s.
BitComesDown(b, c, u, t, l, h, q, s) ==
  /\ (l + q) + u * t \in 0 .. 2 * u - 1 /\ s \in 0 .. 2 * u - 1
  /\ (((l + q) + u * t) \div u) % 2 = t
  /\ (2 * s + t) % (2 * u) = 2 * s + t
  /\ (2 * ((l + q) + u * t)) % (2 * u) = 2 * (l + q)
  /\ (2 * h + t) % b = IF 2 * s + t >= b THEN 2 * s + t - b ELSE 2 * s + t
  /\ (2 * h + t) \div b = 2 * q + (IF 2 * s + t >= b THEN 1 ELSE 0)

LEMMA DivideBit ==
  ASSUME NEW b \in Nat \ {0}, NEW c \in Nat \ {0}, NEW u \in Nat \ {0}, NEW t \in {0, 1},
         NEW l \in Nat, NEW h \in Nat, NEW q \in Nat, NEW s \in 0 .. b - 1,
         l <= u - c, h < c, c <= u, h = b * q + s
  PROVE  BitComesDown(b, c, u, t, l, h, q, s)
<1> DEFINE v == l + q
<1> DEFINE w == 2 * u
<1> DEFINE rest == 2 * s + t
<1>1. q <= h /\ s <= h
  <2>1. b * q >= q /\ b * q \in Nat
    OBVIOUS
  <2> QED
    BY <2>1
<1>2. v \in 0 .. u - 1 /\ v \in Int /\ t \in Int
  BY <1>1
<1>3. rest \in 0 .. w - 1 /\ w \in Nat \ {0} /\ 2 * v \in 0 .. w - 1 /\ 2 * v \in Int
  BY <1>1, <1>2
<1>4. u * t = (IF t = 1 THEN u ELSE 0) /\ w * t = 2 * (u * t)
  BY <1>2
<1>5. rest % w = rest
  <2> HIDE DEF rest, w
  <2> QED
    BY <1>3, ModSmall
<1>6. ((v + u * t) \div u) % 2 = t
  <2> HIDE DEF v
  <2>1. (v + u * t) \div u = (v \div u) + t /\ v \div u = 0
    BY <1>2, MultipleOut, ModSmall
  <2> QED
    BY <2>1
<1>7. (2 * (v + u * t)) % w = 2 * v
  <2>1. 2 * (v + u * t) = 2 * v + w * t
    BY <1>2, <1>4
  <2> DEFINE z == 2 * v
  <2>2. z \in Int /\ z \in 0 .. w - 1 /\ w \in Nat \ {0}
    BY <1>3
  <2> HIDE DEF w, z
  <2>3. (z + w * t) % w = z % w /\ z % w = z
    BY <1>2, <2>2, MultipleOut, ModSmall
  <2> QED
    BY <2>1, <2>3 DEF z
<1>8. 2 * h + t = b * (2 * q) + rest
  <2>1. b * (2 * q) = 2 * (b * q) /\ b * q \in Nat
    OBVIOUS
  <2> QED
    BY <2>1
<1>9. /\ rest >= b => (2 * h + t) \div b = 2 * q + 1 /\ (2 * h + t) % b = rest - b
      /\ rest < b => (2 * h + t) \div b = 2 * q /\ (2 * h + t) % b = rest
  <2>1. rest \in 0 .. 2 * b - 1
    BY <1>2
  <2> DEFINE g == 2 * q
  <2>2. g \in Int /\ g + 1 \in Int
    OBVIOUS
  <2> DEFINE x == 2 * h + t
  <2>3. x = b * g + rest
    BY <1>8
  <2> HIDE DEF rest, g, x
  <2>4. b * (g + 1) = b * g + b /\ b * g \in Int
    BY <2>2
  <2>5. ASSUME rest >= b PROVE x \div b = g + 1 /\ x % b = rest - b
    <3>1. rest - b \in 0 .. b - 1 /\ x = b * (g + 1) + (rest - b)
      BY <2>1, <2>3, <2>4, <2>5
    <3> QED
      BY <2>2, <3>1, TheQuotient
  <2>6. ASSUME rest < b PROVE x \div b = g /\ x % b = rest
    <3>1. rest \in 0 .. b - 1
      BY <2>1, <2>6
    <3> QED
      BY <2>2, <2>3, <3>1, TheQuotient
  <2> QED
    BY <2>5, <2>6 DEF g, x
<1>10. v + u * t \in 0 .. w - 1 /\ s \in 0 .. w - 1
  BY <1>1, <1>2, <1>4
<1>11. rest \in Int
  OBVIOUS
<1> QED
  BY <1>5, <1>6, <1>7, <1>9, <1>10, <1>11 DEF BitComesDown

\* The same for a dividend d of which p is the weight of the next bit, and c the one of the quotient's
\* bits so far.
DivideTurns(d, b, p, c) ==
  LET n == 2 * (p * c)
      a == (d % (2 * p)) * c + ((d \div (2 * p)) \div b)
      rest == 2 * ((d \div (2 * p)) % b) + ((a \div (p * c)) % 2)
  IN /\ (d \div (2 * p)) % b \in 0 .. n - 1 /\ a \in 0 .. n - 1
     /\ rest % n = rest
     /\ (d \div p) % b = IF rest >= b THEN rest - b ELSE rest
     /\ (d % p) * (2 * c) + ((d \div p) \div b) = ((2 * a) % n) + (IF rest >= b THEN 1 ELSE 0)

LEMMA DivideTurn ==
  ASSUME NEW d \in Nat, NEW b \in Nat \ {0}, NEW p \in Nat \ {0}, NEW c \in Nat \ {0}, d < 2 * (p * c)
  PROVE  DivideTurns(d, b, p, c)
<1> DEFINE t == (d \div p) % 2
<1> DEFINE m == d % p
<1> DEFINE h == d \div (2 * p)
<1> DEFINE q == h \div b
<1> DEFINE s == h % b
<1> DEFINE u == p * c
<1> DEFINE l == m * c
<1> DEFINE a == (d % (2 * p)) * c + q
<1>1. t \in {0, 1} /\ d % (2 * p) = m + p * t /\ d \div p = 2 * h + t
  BY BitIs
<1>2. m \in 0 .. p - 1 /\ h \in Nat
  BY DivisionNat
<1>3. h < c
  <2>1. 2 * p \in Nat \ {0} /\ 2 * (p * c) = (2 * p) * c
    OBVIOUS
  <2>2. d = (2 * p) * h + (d % (2 * p)) /\ d % (2 * p) \in Nat
    <3> DEFINE e == 2 * p
    <3>1. e \in Nat \ {0}
      OBVIOUS
    <3> HIDE DEF e
    <3>2. d \div e \in Nat /\ d % e \in Nat /\ d = e * (d \div e) + (d % e)
      BY <3>1, DivisionNat
    <3> QED
      BY <3>2 DEF e
  <2>3. h >= c => (2 * p) * h >= (2 * p) * c
    BY <1>2
  <2>4. (2 * p) * h \in Nat /\ (2 * p) * c \in Nat
    BY <1>2
  <2> QED
    BY <1>2, <2>1, <2>2, <2>3, <2>4
<1> HIDE DEF t, m, h
<1>4. q \in Nat /\ s \in 0 .. b - 1 /\ h = b * q + s
  BY <1>2, DivisionNat
<1> HIDE DEF q, s
<1>5. u \in Nat \ {0} /\ l \in Nat /\ l <= u - c /\ c <= u
  <2>1. m * c <= (p - 1) * c /\ (p - 1) * c = p * c - c /\ p * c \in Nat \ {0} /\ m * c \in Nat
    BY <1>2
  <2>2. 1 * c <= p * c
    OBVIOUS
  <2> QED
    BY <2>1, <2>2
<1>6. (m + p * t) * c = l + t * u
  <2>1. CASE t = 0
    BY <1>2, <2>1
  <2>2. CASE t = 1
    <3>1. (m + p) * c = m * c + p * c
      BY <1>2
    <3> QED
      BY <1>2, <2>2, <3>1
  <2> QED
    BY <1>1, <2>1, <2>2
<1>7. m * (2 * c) = 2 * l
  BY <1>2
<1>8. a = (l + t * u) + q
  BY <1>1, <1>6
<1> HIDE DEF a, u, l
<1>9. t * u = u * t /\ t * u \in Nat
  BY <1>1, <1>5
<1>10. a = (l + q) + u * t
  BY <1>4, <1>5, <1>8, <1>9
<1>11. /\ (l + q) + u * t \in 0 .. 2 * u - 1 /\ s \in 0 .. 2 * u - 1
       /\ (((l + q) + u * t) \div u) % 2 = t
       /\ (2 * s + t) % (2 * u) = 2 * s + t
       /\ (2 * ((l + q) + u * t)) % (2 * u) = 2 * (l + q)
       /\ (2 * h + t) % b = IF 2 * s + t >= b THEN 2 * s + t - b ELSE 2 * s + t
       /\ (2 * h + t) \div b = 2 * q + (IF 2 * s + t >= b THEN 1 ELSE 0)
  <2>1. t \in {0, 1} /\ h \in Nat
    BY <1>1, <1>2
  <2>2. BitComesDown(b, c, u, t, l, h, q, s)
    BY <2>1, <1>3, <1>4, <1>5, DivideBit
  <2> QED
    BY <2>2 DEF BitComesDown
<1> DEFINE rest == 2 * s + ((a \div u) % 2)
<1>12. rest = 2 * s + t /\ rest % (2 * u) = rest /\ a \in 0 .. 2 * u - 1 /\ (2 * a) % (2 * u) = 2 * (l + q)
  BY <1>10, <1>11
<1>13. (d \div p) % b = IF rest >= b THEN rest - b ELSE rest
  BY <1>1, <1>11, <1>12
<1>14. m * (2 * c) + ((d \div p) \div b) = ((2 * a) % (2 * u)) + (IF rest >= b THEN 1 ELSE 0)
  <2> DEFINE one == IF rest >= b THEN 1 ELSE 0
  <2>1. (d \div p) \div b = 2 * q + one
    BY <1>1, <1>11, <1>12
  <2>2. one \in {0, 1}
    OBVIOUS
  <2> HIDE DEF one
  <2>3. 2 * l + (2 * q + one) = 2 * (l + q) + one
    BY <1>4, <1>5, <2>2
  <2> QED
    BY <1>7, <1>12, <2>1, <2>3 DEF one
<1> QED
  BY <1>11, <1>12, <1>13, <1>14 DEF u, a, s, q, h, m, DivideTurns

-----------------------------------------------------------------------------
(* Words *)

Pow(k) == 2 ^ k
W == Pow(Bits)

LEMMA Powers ==
  /\ Pow(0) = 1 /\ Bits \in Nat \ {0} /\ W \in Nat \ {0}
  /\ \A k \in 0 .. Bits : Pow(k) \in Nat \ {0} /\ Bits - k \in 0 .. Bits /\ Pow(k) * Pow(Bits - k) = W
  /\ \A k \in 0 .. Bits - 1 : k + 1 \in 0 .. Bits /\ Pow(k + 1) = 2 * Pow(k)
<1>1. Bits \in Nat \ {0}
  BY ExceptionsAssumption DEF ExceptionsAssumption
<1>2. /\ Pow(0) = 1 /\ Pow(1) = 2
      /\ \A j, k \in 0 .. Bits : Pow(j) \in Nat \ {0} /\ (j + k <= Bits => Pow(j + k) = Pow(j) * Pow(k))
  BY ExponentsAssumption DEF ExponentsAssumption, Pow
<1>3. \A k \in 0 .. Bits : Pow(k) \in Nat \ {0}
  BY <1>1, <1>2
<1>4. ASSUME NEW k \in 0 .. Bits PROVE Bits - k \in 0 .. Bits /\ Pow(k) * Pow(Bits - k) = W
  <2>1. Bits - k \in 0 .. Bits /\ k + (Bits - k) = Bits
    BY <1>1
  <2> QED
    BY <1>1, <1>2, <2>1 DEF W
<1>5. ASSUME NEW k \in 0 .. Bits - 1 PROVE k + 1 \in 0 .. Bits /\ Pow(k + 1) = 2 * Pow(k)
  <2>1. k \in 0 .. Bits /\ 1 \in 0 .. Bits /\ 1 + k = k + 1 /\ 1 + k <= Bits
    BY <1>1
  <2>2. Pow(1 + k) = Pow(1) * Pow(k)
    BY <1>2, <2>1
  <2> QED
    BY <1>1, <1>2, <2>1, <2>2
<1> QED
  BY <1>1, <1>2, <1>3, <1>4, <1>5, SMTT(60) DEF W

LEMMA WordsAre ==
  /\ Words = 0 .. W - 1 /\ (\A x : Mod(x) = x % W) /\ (\A x \in Int : Mod(x) \in Words)
  /\ \A k \in 0 .. Bits - 1 : Pow(Bits - 1) = Pow(k) * Pow(Bits - 1 - k)
  /\ W = 2 * Pow(Bits - 1) /\ Pow(Bits - 1) \in Nat \ {0}
  /\ \A x \in Nat : Negative(x) <=> x >= Pow(Bits - 1)
<1>1. Words = 0 .. W - 1 /\ \A x : Mod(x) = x % W
  BY DEF Words, Mod, W, Pow
<1>2. \A x \in Int : x % W \in 0 .. W - 1
  BY Powers, DivisionInt
<1>3. Bits - 1 \in 0 .. Bits - 1 /\ (Bits - 1) + 1 = Bits /\ Bits - 1 \in 0 .. Bits
  BY Powers
<1>4. W = 2 * Pow(Bits - 1) /\ Pow(Bits - 1) \in Nat \ {0}
  BY <1>3, Powers DEF W
<1>5. ASSUME NEW k \in 0 .. Bits - 1 PROVE Pow(Bits - 1) = Pow(k) * Pow(Bits - 1 - k)
  <2>1. k \in 0 .. Bits /\ Bits - 1 - k \in 0 .. Bits /\ k + (Bits - 1 - k) = Bits - 1 /\ Bits - 1 <= Bits
    BY Powers
  <2> QED
    BY <2>1, ExponentsAssumption DEF ExponentsAssumption, Pow
<1>6. \A x : Negative(x) <=> x >= Pow(Bits - 1)
  BY DEF Negative, Pow
<1> QED
  BY <1>1, <1>2, <1>4, <1>5, <1>6

LEMMA WordsInclude == 0 \in Words /\ (\A x \in Words : x \in Nat) /\ (\A x \in Int : Mod(x) \in Words)
<1>1. Words = 0 .. W - 1 /\ W \in Nat \ {0}
  BY WordsAre, Powers
<1>2. \A x \in Int : Mod(x) \in Words
  BY WordsAre
<1>3. 0 \in Words /\ \A x \in Words : x \in Nat
  BY <1>1
<1> QED
  BY <1>2, <1>3

-----------------------------------------------------------------------------
(* The emulation *)

\* The loops work with these registers.
WorkingRegisters ==
  [n : 0 .. Bits, a : Nat, b : Nat, multiplier : Nat, shifted : Nat, low : Nat, high : Nat, rest : Nat, minus : BOOLEAN]

\* After Bits - n turns, low has the product with the upper bits of the multiplier y and high what
\* is above them of that with the lower ones; b and shifted have the bits to come.
Multiplied(w, x, y) ==
  /\ w.shifted = y \div Pow(Bits - w.n)
  /\ w.b = (y % Pow(w.n)) * Pow(Bits - w.n)
  /\ w.low = ((y \div Pow(w.n)) * x) % W
  /\ w.high = ((y % Pow(Bits - w.n)) * x) \div Pow(Bits - w.n)

\* After as many turns, the upper bits of the dividend d have been divided; the quotient is behind
\* the bits to come.
Divided(w, d) ==
  w.b > 0 =>
    /\ w.a = (d % Pow(w.n)) * Pow(Bits - w.n) + ((d \div Pow(w.n)) \div w.b)
    /\ w.rest = (d \div Pow(w.n)) % w.b

\* One turn of either loop.
LowAfter(w) == Mod(2 * w.low + (IF Negative(w.b) THEN w.a ELSE 0))
HighAfter(w) == (w.high + (IF Bit(w.shifted, 0) = 1 THEN w.a ELSE 0)) \div 2
MultiplyOnce(w) ==
  [w EXCEPT !.low = LowAfter(w), !.high = HighAfter(w), !.b = Mod(2 * w.b), !.shifted = w.shifted \div 2, !.n = w.n - 1]

RestAfter(w) == Mod(2 * w.rest + Bit(w.a, Bits - 1))
DivideOnce(w) ==
  [w EXCEPT !.rest = IF Subtracts(RestAfter(w), w.b) THEN RestAfter(w) - w.b ELSE RestAfter(w),
            !.a = Mod(2 * w.a) + (IF Subtracts(RestAfter(w), w.b) THEN 1 ELSE 0), !.n = w.n - 1]

LEMMA MultiplyTurn ==
  ASSUME NEW x \in Words, NEW y \in Words, NEW w \in WorkingRegisters, w.n > 0, w.a = x, Multiplied(w, x, y),
         NEW v, v = MultiplyOnce(w)
  PROVE  v \in WorkingRegisters /\ v.n = w.n - 1 /\ v.a = x /\ v.multiplier = w.multiplier /\ Multiplied(v, x, y)
<1> DEFINE low == LowAfter(w)
<1> DEFINE high == HighAfter(w)
<1>0. /\ low = Mod(2 * w.low + (IF Negative(w.b) THEN w.a ELSE 0))
      /\ high = (w.high + (IF Bit(w.shifted, 0) = 1 THEN w.a ELSE 0)) \div 2
      /\ v = [w EXCEPT !.low = low, !.high = high, !.b = Mod(2 * w.b), !.shifted = w.shifted \div 2, !.n = w.n - 1]
  BY DEF LowAfter, HighAfter, MultiplyOnce
<1> HIDE DEF low, high
<1> DEFINE n == w.n - 1
<1> DEFINE k == Bits - w.n
<1> DEFINE p == Pow(n)
<1> DEFINE c == Pow(k)
<1>1. n \in 0 .. Bits - 1 /\ n + 1 = w.n /\ k \in 0 .. Bits - 1 /\ k + 1 = Bits - n /\ k = Bits - 1 - n /\ w.n \in 0 .. Bits
  BY Powers DEF WorkingRegisters
<1>2. /\ p \in Nat \ {0} /\ Pow(w.n) = 2 * p
      /\ c \in Nat \ {0} /\ Pow(Bits - n) = 2 * c
  BY <1>1, Powers
<1>3. W = 2 * (p * c) /\ Pow(Bits - 1) = p * c /\ W \in Nat \ {0}
  <2>1. Pow(Bits - 1) = p * c
    BY <1>1, WordsAre
  <2>2. W = 2 * Pow(Bits - 1)
    BY WordsAre
  <2> QED
    BY <2>1, <2>2, Powers
<1>4. x \in Nat /\ y \in Nat
  BY WordsAre, Powers
<1>5. /\ w.shifted = y \div c /\ w.b = (y % (2 * p)) * c
      /\ w.low = ((y \div (2 * p)) * x) % W /\ w.high = ((y % c) * x) \div c
  BY <1>2 DEF Multiplied
<1> HIDE DEF p, c, n, k
<1>50. p \in Nat \ {0} /\ c \in Nat \ {0} /\ y \in Nat /\ x \in Nat /\ W \in Nat \ {0}
  BY <1>2, <1>3, <1>4
<1>51. /\ (2 * ((y % (2 * p)) * c)) % (2 * (p * c)) = (y % p) * (2 * c)
       /\ (y % (2 * p)) * c >= p * c <=> (y \div p) % 2 = 1
  <2>1. ShiftTurns(y, p, c)
    BY <1>50, ShiftTurn
  <2> QED
    BY <2>1 DEF ShiftTurns
<1>52. (2 * (((y \div (2 * p)) * x) % W) + (IF (y \div p) % 2 = 1 THEN x ELSE 0)) % W = ((y \div p) * x) % W
  <2>1. LowTurns(x, y, p, W)
    BY <1>50, LowTurn
  <2> QED
    BY <2>1 DEF LowTurns
<1>6. low = ((y \div p) * x) % W
  <2>1. Negative(w.b) <=> (y \div p) % 2 = 1
    <3>1. w.b \in Nat /\ (w.b >= p * c <=> (y \div p) % 2 = 1)
      BY <1>5, <1>51 DEF WorkingRegisters
    <3> QED
      BY <1>3, <3>1, WordsAre
  <2>2. low = (2 * (((y \div (2 * p)) * x) % W) + (IF (y \div p) % 2 = 1 THEN x ELSE 0)) % W
    BY <1>0, <1>5, <2>1, WordsAre
  <2> QED
    BY <1>52, <2>2
<1>7. high = ((y % (2 * c)) * x) \div (2 * c)
  <2>1. Bit(w.shifted, 0) = (y \div c) % 2
    <3>1. w.shifted \in Nat
      BY DEF WorkingRegisters
    <3>2. w.shifted \div 1 = w.shifted
      BY <3>1
    <3> QED
      BY <1>5, <3>2, Powers DEF Bit, Pow
  <2>2. high = (((y % c) * x) \div c + (IF (y \div c) % 2 = 1 THEN x ELSE 0)) \div 2
    BY <1>0, <1>5, <2>1
  <2>3. HighTurns(x, y, c)
    BY <1>50, HighTurn
  <2> QED
    BY <2>2, <2>3 DEF HighTurns
<1>8. Mod(2 * w.b) = (y % p) * (2 * c)
  BY <1>3, <1>5, <1>51, WordsAre
<1>9. w.shifted \div 2 = y \div (2 * c)
  BY <1>2, <1>4, <1>5, Halving
<1>10. v.n = n /\ v.a = x /\ v.low = low /\ v.high = high /\ v.b = Mod(2 * w.b) /\ v.shifted = w.shifted \div 2
       /\ v.multiplier = w.multiplier
  BY <1>0 DEF WorkingRegisters, n
<1>11. Multiplied(v, x, y)
  BY <1>2, <1>6, <1>7, <1>8, <1>9, <1>10 DEF Multiplied, p
<1>12. low \in Nat /\ high \in Nat /\ Mod(2 * w.b) \in Nat /\ w.shifted \div 2 \in Nat
  <2>1. low \in Nat /\ Mod(2 * w.b) \in Nat
    <3>1. /\ 2 * w.low + (IF Negative(w.b) THEN w.a ELSE 0) \in Int /\ 2 * w.b \in Int
      BY <1>4 DEF WorkingRegisters
    <3> QED
      BY <1>0, <3>1, WordsAre, Powers
  <2>2. w.high + (IF Bit(w.shifted, 0) = 1 THEN w.a ELSE 0) \in Nat /\ w.shifted \in Nat
    BY <1>4 DEF WorkingRegisters
  <2> QED
    BY <1>0, <2>1, <2>2, DivisionNat
<1>13. v \in WorkingRegisters
  <2>1. w.n - 1 \in 0 .. Bits
    BY <1>1, Powers DEF n
  <2> QED
    BY <1>0, <1>12, <2>1 DEF WorkingRegisters
<1> QED
  BY <1>10, <1>11, <1>13 DEF n

LEMMA DivisionTurn ==
  ASSUME NEW d \in Words, NEW w \in WorkingRegisters, w.n > 0, Divided(w, d),
         NEW v, v = DivideOnce(w)
  PROVE  /\ v \in WorkingRegisters /\ v.n = w.n - 1 /\ v.b = w.b /\ v.multiplier = w.multiplier /\ v.minus = w.minus
         /\ Divided(v, d)
<1> DEFINE rest == RestAfter(w)
<1>0. /\ rest = Mod(2 * w.rest + Bit(w.a, Bits - 1))
      /\ v = [w EXCEPT !.rest = IF Subtracts(rest, w.b) THEN rest - w.b ELSE rest,
                       !.a = Mod(2 * w.a) + (IF Subtracts(rest, w.b) THEN 1 ELSE 0), !.n = w.n - 1]
  BY DEF RestAfter, DivideOnce
<1> HIDE DEF rest
<1> DEFINE n == w.n - 1
<1> DEFINE k == Bits - w.n
<1> DEFINE p == Pow(n)
<1> DEFINE c == Pow(k)
<1>1. n \in 0 .. Bits - 1 /\ n + 1 = w.n /\ k \in 0 .. Bits - 1 /\ k + 1 = Bits - n /\ k = Bits - 1 - n /\ w.n \in 0 .. Bits
  BY Powers DEF WorkingRegisters
<1>2. /\ p \in Nat \ {0} /\ Pow(w.n) = 2 * p
      /\ c \in Nat \ {0} /\ Pow(Bits - n) = 2 * c
  BY <1>1, Powers
<1>3. W = 2 * (p * c) /\ Pow(Bits - 1) = p * c /\ W \in Nat \ {0}
  <2>1. Pow(Bits - 1) = p * c
    BY <1>1, WordsAre
  <2>2. W = 2 * Pow(Bits - 1)
    BY WordsAre
  <2> QED
    BY <2>1, <2>2, Powers
<1>4. d \in Nat /\ d < W /\ w.b \in Nat /\ w.a \in Nat /\ w.rest \in Nat
  BY WordsAre, Powers DEF WorkingRegisters
<1>5. Bit(w.a, Bits - 1) = (w.a \div (p * c)) % 2
  BY <1>3 DEF Bit, Pow
<1>6. v.n = n /\ v.b = w.b /\ v.multiplier = w.multiplier /\ v.minus = w.minus
      /\ v.rest = (IF rest >= w.b THEN rest - w.b ELSE rest)
      /\ v.a = Mod(2 * w.a) + (IF rest >= w.b THEN 1 ELSE 0)
  BY <1>0 DEF WorkingRegisters, n, Subtracts
<1>7. v \in WorkingRegisters
  <2>1. (w.a \div (p * c)) % 2 \in Nat
    <3>1. p * c \in Nat \ {0}
      BY <1>2, <1>3, WordsAre
    <3>2. w.a \div (p * c) \in Nat
      BY <1>4, <3>1, DivisionNat
    <3> QED
      BY <3>2
  <2>2. rest \in Nat /\ Mod(2 * w.a) \in Nat
    <3>1. 2 * w.rest + Bit(w.a, Bits - 1) \in Int /\ 2 * w.a \in Int
      <4> DEFINE t == (w.a \div (p * c)) % 2
      <4>1. t \in Nat /\ Bit(w.a, Bits - 1) = t
        BY <1>5, <2>1
      <4> HIDE DEF t
      <4> QED
        BY <1>4, <4>1
    <3>2. \A z \in Int : Mod(z) \in Nat
      BY WordsInclude
    <3> QED
      BY <1>0, <3>1, <3>2
  <2>3. v.rest \in Nat /\ v.a \in Nat
    BY <1>4, <1>6, <2>2
  <2>4. (IF Subtracts(rest, w.b) THEN rest - w.b ELSE rest) \in Nat
        /\ Mod(2 * w.a) + (IF Subtracts(rest, w.b) THEN 1 ELSE 0) \in Nat
    BY <1>4, <2>2 DEF Subtracts
  <2>5. n \in 0 .. Bits
    BY <1>1, Powers
  <2> QED
    BY <1>0, <2>4, <2>5 DEF WorkingRegisters, n
<1>8. Divided(v, d)
  <2> SUFFICES ASSUME w.b > 0
               PROVE  /\ v.a = (d % Pow(n)) * Pow(Bits - n) + ((d \div Pow(n)) \div w.b)
                      /\ v.rest = (d \div Pow(n)) % w.b
    BY <1>6 DEF Divided
  <2> DEFINE b == w.b
  <2>1. b \in Nat \ {0}
    BY <1>4
  <2>2. w.a = (d % (2 * p)) * c + ((d \div (2 * p)) \div b) /\ w.rest = (d \div (2 * p)) % b
    BY <1>2, <2>1 DEF Divided
  <2> HIDE DEF b
  <2> DEFINE r1 == 2 * w.rest + ((w.a \div (p * c)) % 2)
  <2>3. /\ r1 % W = r1
        /\ (d \div p) % b = IF r1 >= b THEN r1 - b ELSE r1
        /\ (d % p) * (2 * c) + ((d \div p) \div b) = ((2 * w.a) % W) + (IF r1 >= b THEN 1 ELSE 0)
    <3>1. d \in Nat /\ b \in Nat \ {0} /\ p \in Nat \ {0} /\ c \in Nat \ {0} /\ d < 2 * (p * c)
      BY <1>2, <1>3, <1>4, <2>1
    <3> DEFINE a0 == (d % (2 * p)) * c + ((d \div (2 * p)) \div b)
    <3> DEFINE r0 == 2 * ((d \div (2 * p)) % b) + ((a0 \div (p * c)) % 2)
    <3>2. /\ r0 % (2 * (p * c)) = r0
          /\ (d \div p) % b = IF r0 >= b THEN r0 - b ELSE r0
          /\ (d % p) * (2 * c) + ((d \div p) \div b) = ((2 * a0) % (2 * (p * c))) + (IF r0 >= b THEN 1 ELSE 0)
      <4>1. DivideTurns(d, b, p, c)
        BY <3>1, DivideTurn
      <4> QED
        BY <4>1 DEF DivideTurns
    <3>3. w.a = a0 /\ r1 = r0 /\ W = 2 * (p * c)
      BY <1>3, <2>2
    <3> HIDE DEF a0, r0, r1
    <3> QED
      BY <3>2, <3>3
  <2>4. rest = r1 /\ Mod(2 * w.a) = (2 * w.a) % W
    BY <1>0, <1>5, <2>3, WordsAre
  <2> QED
    BY <1>2, <1>6, <2>3, <2>4 DEF b
<1> QED
  BY <1>6, <1>7, <1>8 DEF n

-----------------------------------------------------------------------------
(* What the loops leave *)

LEMMA ByOne == \A z \in Nat : z \div 1 = z /\ z % 1 = 0 /\ z * 1 = z /\ 0 * z = 0
OBVIOUS

LEMMA ProductIs ==
  ASSUME NEW x \in Words, NEW y \in Words, r \in WorkingRegisters, r.n = 0, r.a = x, r.multiplier = y,
         Multiplied(r, x, y), instr.op \in Multiplications
  PROVE  Product = Result(instr.op, x, y)
<1>1. x \in 0 .. W - 1 /\ y \in 0 .. W - 1 /\ W \in Nat \ {0} /\ W = 2 ^ Bits
  BY WordsAre, Powers DEF W, Pow
<1> DEFINE z == x * y
<1>2. z \in Int /\ y * x = z
  BY <1>1
<1>3. r.low = z % W /\ r.high = z \div W
  <2>1. Pow(0) = 1 /\ Bits - 0 = Bits /\ Pow(Bits) = W
    BY Powers DEF W
  <2>2. y % W = y /\ y \div 1 = y
    BY <1>1, ModSmall
  <2> QED
    BY <1>2, <2>1, <2>2 DEF Multiplied
<1> DEFINE h == z \div W
<1>4. h \in Int
  BY <1>1, <1>2, DivisionInt
<1>9. \A c \in Int : (z + W * c) \div W = (z \div W) + c
  <2>1. z \in Int /\ W \in Nat \ {0}
    BY <1>1, <1>2
  <2> HIDE DEF z
  <2> QED
    BY <2>1, MultipleOut, ZenonT(60)
<1>5. CASE instr.op \in {"mul", "muli"}
  BY <1>3, <1>5, WordsAre DEF Product, Result
<1>6. CASE instr.op = "mulxuu"
  BY <1>1, <1>3, <1>6 DEF Product, Result
<1>7. CASE instr.op = "mulxsu"
  <2>1. (Signed(x) * y) \div W = h - (IF Negative(x) THEN y ELSE 0)
    <3>1. CASE Negative(x)
      <4>1. Signed(x) * y = z + W * (-y)
        BY <1>1, <3>1 DEF Signed
      <4>2. -y \in Int
        BY <1>1
      <4> HIDE DEF z
      <4>3. (z + W * (-y)) \div W = (z \div W) + (-y)
        BY <1>9, <4>2
      <4> QED
        BY <1>1, <1>4, <3>1, <4>1, <4>3
    <3>2. CASE ~Negative(x)
      BY <1>4, <3>2 DEF Signed
    <3> QED
      BY <3>1, <3>2
  <2> HIDE DEF h
  <2> QED
    BY <1>1, <1>3, <1>7, <2>1 DEF Product, Result, h
<1>8. CASE instr.op = "mulxss"
  <2> DEFINE e == h - (IF Negative(x) THEN y ELSE 0) - (IF Negative(y) THEN x ELSE 0)
  <2>1. e \in Int
    BY <1>1, <1>4
  <2>2. Mod((Signed(x) * Signed(y)) \div W) = Mod(e)
    <3>1. CASE ~Negative(x) /\ ~Negative(y)
      <4>1. e = h /\ Signed(x) = x /\ Signed(y) = y
        BY <1>4, <3>1 DEF Signed
      <4> QED
        BY <4>1
    <3>2. CASE Negative(x) /\ ~Negative(y)
      <4>1. Signed(x) * Signed(y) = z + W * (-y) /\ -y \in Int /\ e = h + (-y)
        BY <1>1, <1>4, <3>2 DEF Signed
      <4> HIDE DEF z, e
      <4>2. (z + W * (-y)) \div W = (z \div W) + (-y)
        BY <1>9, <4>1
      <4> QED
        BY <4>1, <4>2
    <3>3. CASE ~Negative(x) /\ Negative(y)
      <4>1. Signed(x) * Signed(y) = z + W * (-x) /\ -x \in Int /\ e = h + (-x)
        BY <1>1, <1>4, <3>3 DEF Signed
      <4> HIDE DEF z, e
      <4>2. (z + W * (-x)) \div W = (z \div W) + (-x)
        BY <1>9, <4>1
      <4> QED
        BY <4>1, <4>2
    <3>4. CASE Negative(x) /\ Negative(y)
      <4> DEFINE g == W - x - y
      <4>1. Signed(x) * Signed(y) = z + W * g /\ g \in Int /\ h + g = e + W * 1
        <5>1. (x - W) * (y - W) = x * y + W * (W - x - y)
          BY <1>1
        <5> QED
          BY <1>1, <1>4, <3>4, <5>1 DEF Signed
      <4> HIDE DEF z, e, g
      <4>2. (z + W * g) \div W = (z \div W) + g
        BY <1>9, <4>1
      <4>3. e \in Int /\ 1 \in Int /\ W \in Nat \ {0}
        BY <1>1, <2>1
      <4>4. \A a, c \in Int : (a + W * c) % W = a % W
        BY <4>3, MultipleOut
      <4>5. (e + W * 1) % W = e % W
        BY <4>3, <4>4
      <4> QED
        BY <4>1, <4>2, <4>5, WordsAre
    <3> QED
      BY <3>1, <3>2, <3>3, <3>4
  <2> HIDE DEF e, h
  <2> QED
    BY <1>1, <1>3, <1>8, <2>2 DEF Product, Result, e, h
<1> QED
  BY <1>5, <1>6, <1>7, <1>8 DEF Multiplications

\* What is divided: signed operands by their amounts.
Flipped(v) == IF instr.op = "div" /\ Negative(v) THEN Mod(-v) ELSE v

LEMMA FlippedIs ==
  ASSUME NEW v \in Words
  PROVE  /\ Flipped(v) \in Words /\ (v # 0 => Flipped(v) # 0)
         /\ instr.op = "div" => Flipped(v) = Abs(Signed(v))
<1>1. v \in 0 .. W - 1 /\ W \in Nat \ {0} /\ W = 2 ^ Bits /\ Words = 0 .. W - 1
  BY WordsAre, Powers DEF W, Pow
<1>2. CASE Negative(v)
  <2>1. v # 0
    BY <1>1, <1>2, WordsAre
  <2> DEFINE u == W - v
  <2>2. u \in 0 .. W - 1 /\ u \in Int /\ u # 0 /\ -v = u + W * (-1) /\ -1 \in Int
    BY <1>1, <2>1
  <2> HIDE DEF u
  <2>3. (u + W * (-1)) % W = u % W /\ u % W = u
    BY <1>1, <2>2, MultipleOut, ModSmall
  <2>4. Mod(-v) = u
    BY <2>2, <2>3, WordsAre
  <2>5. Abs(Signed(v)) = u
    BY <1>1, <1>2, <2>1 DEF Abs, Signed, u
  <2> QED
    BY <1>1, <1>2, <2>2, <2>4, <2>5 DEF Flipped
<1>3. CASE ~Negative(v)
  BY <1>1, <1>3 DEF Flipped, Abs, Signed
<1> QED
  BY <1>2, <1>3

LEMMA QuotientIs ==
  ASSUME NEW x \in Words, NEW y \in Words, y # 0, r \in WorkingRegisters, r.n = 0, r.b = Flipped(y),
         r.minus = (instr.op = "div" /\ Negative(x) # Negative(y)),
         Divided(r, Flipped(x)), instr.op \in Divisions
  PROVE  Quotient = Result(instr.op, x, y)
<1> DEFINE d == Flipped(x)
<1> DEFINE b == Flipped(y)
<1>1. d \in 0 .. W - 1 /\ b \in 1 .. W - 1 /\ W \in Nat \ {0}
  <2>1. d \in Words /\ b \in Words /\ b # 0
    BY FlippedIs
  <2> HIDE DEF d, b
  <2>2. Words = 0 .. W - 1 /\ W \in Nat \ {0}
    BY WordsAre, Powers
  <2> QED
    BY <2>1, <2>2
<1> DEFINE q == d \div b
<1>2. q \in 0 .. W - 1
  <2> HIDE DEF d, b
  <2>0. d \in Nat /\ b \in Nat \ {0}
    BY <1>1
  <2>1. q \in Nat /\ d = b * q + (d % b) /\ d % b \in Nat
    BY <2>0, DivisionNat
  <2> HIDE DEF q
  <2>2. b * q >= q
    BY <2>0, <2>1
  <2> QED
    BY <1>1, <2>1, <2>2
<1>3. r.a = q
  <2>1. Pow(0) = 1 /\ Bits - 0 = Bits /\ Pow(Bits) = W
    BY Powers DEF W
  <2>2. d % 1 = 0 /\ d \div 1 = d /\ 0 * W = 0
    BY <1>1, ByOne
  <2>3. r.b > 0 /\ r.b = b
    BY <1>1
  <2>4. r.a = (d % Pow(0)) * Pow(Bits) + ((d \div Pow(0)) \div b)
    BY <2>1, <2>3 DEF Divided
  <2> HIDE DEF d, b
  <2> QED
    BY <1>2, <2>1, <2>2, <2>4
<1>4. CASE instr.op = "divu"
  <2>1. d = x /\ b = y
    BY <1>4 DEF Flipped
  <2> QED
    BY <1>3, <1>4, <2>1 DEF Quotient, Result
<1>5. CASE instr.op = "div"
  <2>1. d = Abs(Signed(x)) /\ b = Abs(Signed(y))
    BY <1>5, FlippedIs
  <2> HIDE DEF d, b
  <2> DEFINE g == q
  <2>2. Result(instr.op, x, y) = Mod((IF Negative(x) # Negative(y) THEN -1 ELSE 1) * g)
    BY <1>5, <2>1 DEF Result
  <2>3. g \in 0 .. W - 1 /\ r.a = g
    BY <1>2, <1>3
  <2> HIDE DEF g, q
  <2>4. -1 * g = -g /\ 1 * g = g
    BY <1>1, <2>3
  <2>5. Mod(g) = g
    BY <1>1, <2>3, ModSmall, WordsAre
  <2>6. CASE r.minus
    <3>1. Negative(x) # Negative(y)
      BY <1>5, <2>6
    <3> QED
      BY <2>2, <2>3, <2>4, <2>6, <3>1 DEF Quotient
  <2>7. CASE ~r.minus
    <3>1. ~(Negative(x) # Negative(y))
      BY <1>5, <2>7
    <3> QED
      BY <2>2, <2>3, <2>4, <2>5, <2>7, <3>1 DEF Quotient
  <2>8. r.minus \in BOOLEAN
    BY DEF WorkingRegisters
  <2> QED
    BY <2>6, <2>7, <2>8
<1> QED
  BY <1>4, <1>5 DEF Divisions

-----------------------------------------------------------------------------
(* Whatever instruction has been reached is emulated *)

Instructions ==
  [op : Multiplications \cup Divisions \cup {"trap", "illegal"}, a : Registers, b : Registers, c : Registers, imm : Words]

\* The second operand: from the instruction or, as the first one, from the frame.
Operand(file) == IF instr.op = "muli" THEN instr.imm ELSE file[instr.b]

ReachedInv ==
  /\ step \in {"program", "exception", "multiply", "divide", "unknown", "break"}
  /\ instr.op = "none" => step = "program"
  /\ instr.op # "none" => instr \in Instructions /\ before \in [Registers -> Words] /\ before[0] = 0
  /\ instr.op # "none" /\ step # "program" => regs = before
  /\ step \in {"unknown", "break"} => instr.op \notin Multiplications \cup Divisions

EmulationInv ==
  step \in {"multiply", "divide"} =>
    /\ ea = "next" /\ frame = Frame /\ r \in WorkingRegisters /\ r.multiplier = Operand(frame)
    /\ instr.op \in (IF step = "multiply" THEN Multiplications ELSE Divisions)

MultiplyInv == step = "multiply" => r.a = frame[instr.a] /\ Multiplied(r, frame[instr.a], r.multiplier)

DivideInv ==
  step = "divide" =>
    /\ r.b = Flipped(r.multiplier) /\ Divided(r, Flipped(frame[instr.a]))
    /\ r.minus = (instr.op = "div" /\ Negative(frame[instr.a]) # Negative(r.multiplier))

ExceptionsInv == ReachedInv /\ EmulationInv /\ MultiplyInv /\ DivideInv /\ EmulatedAsHardware

LEMMA Operations == "none" \notin Multiplications \cup Divisions /\ Multiplications \cap Divisions = {}
BY DEF Multiplications, Divisions

\* The frame has words, and in the places of the operands those that the instruction had.
LEMMA FrameIs ==
  ASSUME before \in [Registers -> Words], before[0] = 0, regs = before, instr \in Instructions
  PROVE  /\ Frame \in [Registers -> Words] /\ Frame[instr.a] \in Words /\ Operand(Frame) \in Words
         /\ \A q \in Registers \ {sp} : Frame[q] = before[q]
<1>0. 0 \in Words /\ (\A x \in Words : x \in Nat) /\ (\A x \in Int : Mod(x) \in Words)
  BY WordsInclude
<1>1. \A q \in Registers : before[q] \in Words /\ before[q] - 1 \in Int
  <2>1. \A q \in Registers : before[q] \in Words /\ before[q] \in Nat
    BY <1>0
  <2> QED
    BY <2>1
<1>2. \A q \in Registers : Mod(before[q] - 1) \in Words
  BY <1>0, <1>1
<1>3. Frame \in [Registers -> Words]
  BY <1>0, <1>1, <1>2 DEF Frame
<1>4. \A q \in Registers \ {sp} : Frame[q] = before[q]
  BY DEF Frame
<1>5. instr.a \in Registers /\ instr.b \in Registers /\ instr.imm \in Words
  BY DEF Instructions
<1> QED
  BY <1>3, <1>4, <1>5 DEF Operand

\* An instruction is reached with its operands and no register unlike a word.
LEMMA ReachKeeps ==
  ASSUME ExceptionsInv,
         NEW opn \in Multiplications \cup Divisions \cup {"trap", "illegal"},
         NEW a \in Sources \cup {0}, NEW b \in Sources \cup {0}, NEW c \in Targets \cup {0},
         NEW x \in Words, NEW y \in Words, Reach(opn, a, b, c, x, y)
  PROVE  ExceptionsInv'
<1>1. 0 \in Words /\ \A q \in Registers : Mod(q) \in Words
  <2>1. \A q \in Registers : q \in Int
    BY ExceptionsAssumption DEF ExceptionsAssumption, Registers
  <2>2. 0 \in Words /\ \A z \in Int : Mod(z) \in Words
    BY WordsInclude
  <2> QED
    BY <2>1, <2>2
<1>2. before' \in [Registers -> Words] /\ regs' = before'
  BY <1>1 DEF Reach
<1>3. 0 \in Registers /\ a \in Registers /\ b \in Registers /\ c \in Registers
  BY ExceptionsAssumption DEF ExceptionsAssumption, Registers
<1>4. before'[0] = 0
  BY <1>3 DEF Reach
<1>5. instr' \in Instructions /\ instr'.op # "none" /\ step' = "exception"
  BY <1>3, Operations DEF Reach, Instructions
<1>6. ReachedInv'
  BY <1>2, <1>4, <1>5 DEF ReachedInv
<1> QED
  BY <1>5, <1>6 DEF ExceptionsInv, EmulationInv, MultiplyInv, DivideInv, EmulatedAsHardware

LEMMA IrqEntryKeeps == ExceptionsInv /\ IrqEntry => ExceptionsInv'
BY DEF ExceptionsInv, ReachedInv, EmulationInv, MultiplyInv, DivideInv, EmulatedAsHardware, IrqEntry, Instructions

\* The loop of a multiplication starts with nothing multiplied, that of a division with nothing divided.
LEMMA LoopStarts ==
  /\ \A x, y \in Words, w \in WorkingRegisters :
       w.n = Bits /\ w.shifted = y /\ w.b = y /\ w.low = 0 /\ w.high = 0 => Multiplied(w, x, y)
  /\ \A d \in Words, w \in WorkingRegisters : w.n = Bits /\ w.a = d /\ w.rest = 0 => Divided(w, d)
<1>1. Words = 0 .. W - 1 /\ W \in Nat \ {0} /\ Bits - Bits = 0 /\ Pow(0) = 1 /\ Pow(Bits) = W
  BY WordsAre, Powers DEF W
<1>2. ASSUME NEW x \in Words, NEW y \in Words, NEW w \in WorkingRegisters,
             w.n = Bits, w.shifted = y, w.b = y, w.low = 0, w.high = 0
      PROVE  Multiplied(w, x, y)
  <2>1. y \in Nat /\ x \in Nat /\ y % W = y /\ y \div W = 0 /\ y \div 1 = y /\ y % 1 = 0 /\ y * 1 = y /\ 0 * x = 0
    BY <1>1, ModSmall, ByOne
  <2>2. 0 % W = 0 /\ 0 \div 1 = 0
    BY <1>1, ModSmall, ByOne
  <2> QED
    BY <1>1, <1>2, <2>1, <2>2 DEF Multiplied
<1>3. ASSUME NEW d \in Words, NEW w \in WorkingRegisters, w.n = Bits, w.a = d, w.rest = 0
      PROVE  Divided(w, d)
  <2>0. d \in Nat /\ w.b \in Nat
    BY <1>1 DEF WorkingRegisters
  <2>1. d % W = d /\ d \div W = 0 /\ d * 1 = d /\ d + 0 = d
    <3>1. d \in 0 .. W - 1 /\ W \in Nat \ {0}
      BY <1>1
    <3>2. d % W = d /\ d \div W = 0
      BY <3>1, ModSmall
    <3> QED
      BY <2>0, <3>2
  <2>2. w.b > 0 => 0 \div w.b = 0 /\ 0 % w.b = 0
    <3>1. w.b > 0 => w.b \in Nat \ {0} /\ 0 \in 0 .. w.b - 1
      BY <2>0
    <3> QED
      BY <3>1, ModSmall
  <2> QED
    BY <1>1, <1>3, <2>0, <2>1, <2>2 DEF Divided
<1> QED
  BY <1>2, <1>3

LEMMA NotIrqKeeps == ExceptionsInv /\ NotIrq => ExceptionsInv'
<1> SUFFICES ASSUME ExceptionsInv, NotIrq PROVE ExceptionsInv'
  OBVIOUS
<1>1. /\ step = "exception" /\ ea' = "next" /\ UNCHANGED <<regs, before, instr>>
      /\ instr \in Instructions /\ regs = before /\ before \in [Registers -> Words] /\ before[0] = 0
  BY DEF NotIrq, ExceptionsInv, ReachedInv
<1>2. CASE instr.op \in {"trap", "illegal"}
  <2>1. step' \in {"break", "unknown"} /\ instr.op \notin Multiplications \cup Divisions
    BY <1>2 DEF NotIrq, Multiplications, Divisions
  <2> QED
    BY <1>1, <1>2, <2>1
    DEF ExceptionsInv, ReachedInv, EmulationInv, MultiplyInv, DivideInv, EmulatedAsHardware, Instructions
<1>3. CASE instr.op \in Multiplications \cup Divisions
  <2>1. /\ step' = (IF instr.op \in Divisions THEN "divide" ELSE "multiply") /\ frame' = Frame
        /\ r' = [n |-> Bits, a |-> Flipped(Frame[instr.a]), b |-> Flipped(Operand(Frame)),
                 multiplier |-> Operand(Frame), shifted |-> Operand(Frame), low |-> 0, high |-> 0, rest |-> 0,
                 minus |-> instr.op = "div" /\ Negative(Frame[instr.a]) # Negative(Operand(Frame))]
    BY <1>3 DEF NotIrq, Flipped, Operand, Multiplications, Divisions
  <2> DEFINE x == Frame[instr.a]
  <2> DEFINE y == Operand(Frame)
  <2>2. x \in Words /\ y \in Words /\ Frame' = Frame /\ Operand(frame)' = y
    BY <1>1, <2>1, FrameIs DEF Frame, Operand
  <2>3. Flipped(x) \in Words /\ Flipped(y) \in Words /\ (instr.op \in Multiplications => Flipped(x) = x /\ Flipped(y) = y)
    BY <2>2, FlippedIs DEF Flipped, Multiplications
  <2>4. r' \in WorkingRegisters
    <3>1. Words \subseteq Nat /\ Bits \in 0 .. Bits /\ 0 \in Nat
      BY WordsAre, Powers
    <3> QED
      BY <2>1, <2>2, <2>3, <3>1 DEF WorkingRegisters
  <2>5. ReachedInv'
    BY <1>1, <1>3, <2>1, Operations DEF ReachedInv, Instructions
  <2>6. EmulationInv'
    BY <1>1, <1>3, <2>1, <2>2, <2>4, Operations DEF EmulationInv, Operand
  <2>7. ~EmulatedAsHardware' => FALSE
    BY <2>1 DEF EmulatedAsHardware
  <2>8. MultiplyInv'
    <3>1. step' = "multiply" => instr.op \in Multiplications
      BY <1>3, <2>1
    <3>2. r'.n = Bits /\ r'.a = Flipped(x) /\ r'.b = Flipped(y) /\ r'.multiplier = y /\ r'.shifted = y /\ r'.low = 0 /\ r'.high = 0
      BY <2>1
    <3>3. step' = "multiply" => Multiplied(r', x, y)
      BY <2>2, <2>3, <2>4, <3>1, <3>2, LoopStarts
    <3>4. step' = "multiply" => r'.a = frame'[instr'.a] /\ Multiplied(r', frame'[instr'.a], r'.multiplier)
      BY <1>1, <2>1, <2>3, <3>1, <3>2, <3>3
    <3> QED
      BY <3>4 DEF MultiplyInv, Multiplied
  <2>9. DivideInv'
    <3>1. r'.n = Bits /\ r'.a = Flipped(x) /\ r'.b = Flipped(y) /\ r'.multiplier = y /\ r'.rest = 0
          /\ r'.minus = (instr.op = "div" /\ Negative(x) # Negative(y))
      BY <2>1
    <3>2. Divided(r', Flipped(x))
      BY <2>3, <2>4, <3>1, LoopStarts
    <3>3. frame'[instr'.a] = x /\ instr' = instr
      BY <1>1, <2>1
    <3> QED
      BY <3>1, <3>2, <3>3 DEF DivideInv, Flipped, Divided
  <2> QED
    BY <2>5, <2>6, <2>7, <2>8, <2>9 DEF ExceptionsInv
<1> QED
  BY <1>1, <1>2, <1>3 DEF Instructions
LEMMA MultiplyKeeps == ExceptionsInv /\ Multiply => ExceptionsInv'
<1> SUFFICES ASSUME ExceptionsInv, Multiply PROVE ExceptionsInv'
  OBVIOUS
<1>1. /\ step = "multiply" /\ r.n > 0 /\ UNCHANGED <<regs, before, instr, step, ea, frame>>
  BY DEF Multiply
<1>2. /\ ReachedInv /\ EmulationInv /\ MultiplyInv
      /\ instr.op \in Multiplications /\ instr.op # "none"
  BY <1>1, Operations DEF ExceptionsInv, EmulationInv
<1>3. instr \in Instructions /\ before \in [Registers -> Words] /\ before[0] = 0 /\ regs = before /\ frame = Frame
  BY <1>1, <1>2 DEF ReachedInv, EmulationInv
<1> DEFINE x == frame[instr.a]
<1> DEFINE y == r.multiplier
<1>4. x \in Words /\ y \in Words /\ r \in WorkingRegisters /\ r.a = x /\ Multiplied(r, x, y) /\ y = Operand(frame)
  BY <1>1, <1>2, <1>3, FrameIs DEF EmulationInv, MultiplyInv
<1>5. r' \in WorkingRegisters /\ r'.a = x /\ r'.multiplier = y /\ Multiplied(r', x, y)
  <2>1. r' = MultiplyOnce(r)
    BY DEF Multiply, WorkingRegisters, MultiplyOnce, LowAfter, HighAfter
  <2>0. r.multiplier = y
    OBVIOUS
  <2> HIDE DEF x, y
  <2>2. \A v : v = MultiplyOnce(r) =>
          v \in WorkingRegisters /\ v.a = x /\ v.multiplier = r.multiplier /\ Multiplied(v, x, y)
    BY <1>1, <1>4, MultiplyTurn
  <2> QED
    BY <1>4, <2>0, <2>1, <2>2
<1>6. ReachedInv'
  BY <1>1, <1>2 DEF ReachedInv, Instructions
<1>7. EmulationInv'
  BY <1>1, <1>2, <1>4, <1>5 DEF EmulationInv, Frame, Operand
<1>8. MultiplyInv'
  BY <1>1, <1>5 DEF MultiplyInv, Multiplied
<1> QED
  BY <1>1, <1>6, <1>7, <1>8 DEF ExceptionsInv, DivideInv, EmulatedAsHardware

LEMMA DivideKeeps == ExceptionsInv /\ Divide => ExceptionsInv'
<1> SUFFICES ASSUME ExceptionsInv, Divide PROVE ExceptionsInv'
  OBVIOUS
<1>1. /\ step = "divide" /\ r.n > 0 /\ UNCHANGED <<regs, before, instr, step, ea, frame>>
  BY DEF Divide
<1>2. /\ ReachedInv /\ EmulationInv /\ DivideInv
      /\ instr.op \in Divisions /\ instr.op # "none"
  BY <1>1, Operations DEF ExceptionsInv, EmulationInv
<1>3. instr \in Instructions /\ before \in [Registers -> Words] /\ before[0] = 0 /\ regs = before /\ frame = Frame
  BY <1>1, <1>2 DEF ReachedInv, EmulationInv
<1> DEFINE d == Flipped(frame[instr.a])
<1>4. d \in Words /\ r \in WorkingRegisters /\ Divided(r, d)
  BY <1>1, <1>2, <1>3, FrameIs, FlippedIs DEF EmulationInv, DivideInv
<1>5. r' \in WorkingRegisters /\ r'.b = r.b /\ r'.multiplier = r.multiplier /\ r'.minus = r.minus /\ Divided(r', d)
  <2>1. r' = DivideOnce(r)
    BY DEF Divide, WorkingRegisters, DivideOnce, RestAfter
  <2> HIDE DEF d
  <2> QED
    BY <1>1, <1>4, <2>1, DivisionTurn
<1>6. ReachedInv'
  BY <1>1, <1>2 DEF ReachedInv, Instructions
<1>7. EmulationInv'
  BY <1>1, <1>2, <1>4, <1>5 DEF EmulationInv, Frame, Operand
<1>8. DivideInv'
  BY <1>1, <1>2, <1>5 DEF DivideInv, Divided, Flipped
<1> QED
  BY <1>1, <1>6, <1>7, <1>8 DEF ExceptionsInv, MultiplyInv, EmulatedAsHardware

\* What the loop leaves is the result of the operands that the instruction had.
LEMMA StoreResultKeeps == ExceptionsInv /\ StoreResult => ExceptionsInv'
<1> SUFFICES ASSUME ExceptionsInv, StoreResult PROVE ExceptionsInv'
  OBVIOUS
<1>1. /\ step \in {"multiply", "divide"} /\ r.n = 0 /\ step' = "program" /\ UNCHANGED <<before, instr, ea>>
  BY DEF StoreResult
<1>2. /\ ReachedInv /\ EmulationInv /\ MultiplyInv /\ DivideInv
      /\ instr.op \in (IF step = "multiply" THEN Multiplications ELSE Divisions) /\ instr.op # "none"
  BY <1>1, Operations DEF ExceptionsInv, EmulationInv
<1>3. /\ instr \in Instructions /\ before \in [Registers -> Words] /\ before[0] = 0 /\ regs = before /\ frame = Frame
      /\ ea = "next" /\ r \in WorkingRegisters
  BY <1>1, <1>2 DEF ReachedInv, EmulationInv
<1> DEFINE x == frame[instr.a]
<1> DEFINE y == Operand(frame)
<1> DEFINE result == IF step = "multiply" THEN Product ELSE Quotient
<1>4. /\ x \in Words /\ y \in Words /\ r.multiplier = y
      /\ frame \in [Registers -> Words] /\ \A q \in Registers \ {sp} : frame[q] = before[q]
  BY <1>1, <1>2, <1>3, FrameIs DEF EmulationInv
<1>5. instr.op \in Divisions /\ y # 0 => result = Result(instr.op, x, y)
  <2> SUFFICES ASSUME instr.op \in Divisions, y # 0 PROVE result = Result(instr.op, x, y)
    OBVIOUS
  <2>1. step = "divide"
    BY <1>1, <1>2, Operations
  <2>2. /\ r.b = Flipped(y) /\ Divided(r, Flipped(x))
        /\ r.minus = (instr.op = "div" /\ Negative(x) # Negative(y))
    BY <1>2, <1>4, <2>1 DEF DivideInv
  <2> HIDE DEF x, y
  <2>3. Quotient = Result(instr.op, x, y)
    BY <1>1, <1>3, <1>4, <2>2, QuotientIs
  <2> QED
    BY <2>1, <2>3
<1>6. instr.op \in Multiplications => result = Result(instr.op, x, y)
  <2> SUFFICES ASSUME instr.op \in Multiplications PROVE result = Result(instr.op, x, y)
    OBVIOUS
  <2>1. step = "multiply"
    BY <1>1, <1>2, Operations
  <2>2. r.a = x /\ Multiplied(r, x, y)
    BY <1>2, <1>4, <2>1 DEF MultiplyInv
  <2> HIDE DEF x, y
  <2>3. Product = Result(instr.op, x, y)
    BY <1>1, <1>3, <1>4, <2>2, ProductIs
  <2> QED
    BY <2>1, <2>3
<1>7. regs' = [q \in Registers |-> IF q \in {0, gp, sp} THEN regs[q] ELSE [frame EXCEPT ![instr.c] = result][q]]
  BY DEF StoreResult
<1>8. 0 \in Registers /\ instr.c \in Registers /\ instr.a \in Registers /\ instr.b \in Registers
  BY <1>3, ExceptionsAssumption DEF Instructions, ExceptionsAssumption, Registers
<1>9. \A q \in Registers \ {instr.c} : regs'[q] = before[q]
  BY <1>3, <1>4, <1>7
<1>10. regs'[0] = 0
  BY <1>3, <1>7, <1>8
<1> DEFINE provided == sp \notin {instr.a, instr.c} /\ (instr.op # "muli" => sp # instr.b) /\ gp # instr.c
<1> DEFINE source == IF instr.op = "muli" THEN instr.imm ELSE before[instr.b]
<1>11. ASSUME provided, instr.c # 0, instr.op \in Divisions => source # 0
       PROVE  regs'[instr.c] = Result(instr.op, before[instr.a], source)
  <2>1. x = before[instr.a] /\ y = source
    BY <1>4, <1>8, <1>11 DEF Operand
  <2>2. regs'[instr.c] = result
    BY <1>4, <1>7, <1>8, <1>11
  <2>3. instr.op \in Multiplications \cup Divisions
    BY <1>2
  <2> HIDE DEF x, y, source, result
  <2> QED
    BY <1>5, <1>6, <1>11, <2>1, <2>2, <2>3
<1>12. ReachedInv'
  BY <1>1, <1>2 DEF ReachedInv, Instructions
<1>13. EmulatedAsHardware'
  <2>1. /\ ea' = "next" /\ (\A q \in Registers \ {instr.c} : regs'[q] = before[q]) /\ regs'[0] = 0
    BY <1>1, <1>3, <1>9, <1>10
  <2>2. provided /\ instr.c # 0 /\ (instr.op \in Divisions => source # 0)
          => regs'[instr.c] = Result(instr.op, before[instr.a], source)
    BY <1>11
  <2> QED
    BY <1>1, <2>1, <2>2 DEF EmulatedAsHardware, Result, Signed, Abs
<1> QED
  BY <1>1, <1>12, <1>13 DEF ExceptionsInv, EmulationInv, MultiplyInv, DivideInv

LEMMA OthersKeep ==
  /\ \A result : ExceptionsInv /\ alt_instruction_exception_register(result) => ExceptionsInv'
  /\ ExceptionsInv /\ alt_instruction_exception_entry => ExceptionsInv'
  /\ ExceptionsInv /\ Continue => ExceptionsInv'
  /\ ExceptionsInv /\ UNCHANGED exceptionsVars => ExceptionsInv'
<1>1. ASSUME NEW result, ExceptionsInv, alt_instruction_exception_register(result) PROVE ExceptionsInv'
  BY <1>1, Operations DEF ExceptionsInv, ReachedInv, EmulationInv, MultiplyInv, DivideInv, EmulatedAsHardware, alt_instruction_exception_register
<1>2. ASSUME ExceptionsInv, alt_instruction_exception_entry PROVE ExceptionsInv'
  <2>1. step = "unknown" /\ step' \in {"break", "program"} /\ UNCHANGED <<regs, before, instr>>
        /\ instr.op \notin Multiplications \cup Divisions /\ instr.op # "none"
    BY <1>2 DEF alt_instruction_exception_entry, ExceptionsInv, ReachedInv
  <2> QED
    BY <1>2, <2>1 DEF ExceptionsInv, ReachedInv, EmulationInv, MultiplyInv, DivideInv, EmulatedAsHardware, Instructions
<1>3. ASSUME ExceptionsInv, Continue PROVE ExceptionsInv'
  <2>1. step' = "program" /\ UNCHANGED <<regs, before, instr>>
        /\ instr.op = "trap" /\ instr.op \notin Multiplications \cup Divisions /\ instr.op # "none"
    BY <1>3 DEF Continue, Multiplications, Divisions
  <2> QED
    BY <1>3, <2>1 DEF ExceptionsInv, ReachedInv, EmulationInv, MultiplyInv, DivideInv, EmulatedAsHardware, Instructions
<1>4. ASSUME ExceptionsInv, UNCHANGED exceptionsVars PROVE ExceptionsInv'
  BY <1>4 DEF exceptionsVars, ExceptionsInv, ReachedInv, EmulationInv, MultiplyInv, DivideInv, EmulatedAsHardware,
    Instructions, WorkingRegisters, Frame, Operand, Multiplied, Divided, Flipped
<1> QED
  BY <1>1, <1>2, <1>3, <1>4

\* For every width of the registers, every instruction and all words that it is reached with: an
\* emulated multiplication or division leaves its result in its target and nothing else changed,
\* and the program goes on behind it, whatever interrupts came before (alt_exception_muldiv).
THEOREM EmulationIsExact == ExceptionsSpec => []EmulatedAsHardware
<1>1. ExceptionsInit => ExceptionsInv
  BY Operations DEF ExceptionsInit, ExceptionsInv, ReachedInv, EmulationInv, MultiplyInv, DivideInv, EmulatedAsHardware
<1>2. ExceptionsInv /\ [ExceptionsNext]_exceptionsVars => ExceptionsInv'
  <2> SUFFICES ASSUME ExceptionsInv, [ExceptionsNext]_exceptionsVars PROVE ExceptionsInv'
    OBVIOUS
  <2>1. ASSUME NEW opn \in Multiplications \cup Divisions, NEW a \in Sources, NEW b \in Sources, NEW c \in Targets,
               NEW x \in Words, NEW y \in Words, Reach(opn, a, b, c, x, y)
        PROVE  ExceptionsInv'
    BY <2>1, ReachKeeps
  <2>2. ASSUME NEW opn \in {"trap", "illegal"}, Reach(opn, 0, 0, 0, 0, 0) PROVE ExceptionsInv'
    <3>1. 0 \in Words
      BY WordsInclude
    <3> QED
      BY <2>2, <3>1, ReachKeeps
  <2> QED
    BY <2>1, <2>2, IrqEntryKeeps, NotIrqKeeps, MultiplyKeeps, DivideKeeps, StoreResultKeeps, OthersKeep DEF ExceptionsNext
<1>3. ExceptionsInv => EmulatedAsHardware
  BY DEF ExceptionsInv
<1> QED
  BY <1>1, <1>2, <1>3, PTL DEF ExceptionsSpec
===============================================================================
