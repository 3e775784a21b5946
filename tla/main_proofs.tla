------------------------------ MODULE main_proofs ------------------------------
(***************************************************************************)
(* The main program, and the scaling it compares in software and hardware. *)
(*                                                                         *)
(* The blocks of the main loop, for every sequence of jobs on any images,  *)
(* and what it reports of the clocks of each.                              *)
(*                                                                         *)
(* For every image, every pair of factors and every fixed-point format:    *)
(* the loops of bilinear_scaling_sw() read inside the image only, and      *)
(* write means of the pixels they read.                                    *)
(*                                                                         *)
(* The driver is correct for every set of jobs: no DMA into freed memory,  *)
(* flags that tell the truth, a complete image for the caller, and an      *)
(* accelerator that is used by its protocol.                               *)
(*                                                                         *)
(* The double line buffer that the accelerator reads from is type correct, *)
(* a window of consecutive rows and a refinement of RowWindow, for every   *)
(* image size and every RAM depth that holds a row.                        *)
(***************************************************************************)
EXTENDS main_perf, bilinear_scaling_sw, bilinear_scaling_hw, RAM_writer_stream, TLAPS

-----------------------------------------------------------------------------
(* main *)

\* The blocks a job has allocated so far.
JobBlocks ==
  CASE stage = "scale" -> {segment_array}
    [] stage = "deallocate" -> {segment_array, output_sw, output_hw}
    [] OTHER -> {}

\* The image in hand is allocated as a whole; besides images and the blocks of this job there is
\* nothing; and the segment of this job points into that image.
MainInv ==
  /\ MainTypeOK
  /\ loads = 0 => image_in.data \in {NULL, Garbage}
  /\ loads > 0 => image_in.data \in 1 .. loads /\ matrix(image_in.data, image_in.height) \subseteq allocated
  /\ stage \notin {"get_input", "load", "stopped"} \/ num > 0 => loads > 0
  /\ stage = "get_input" \/ stage = "load" => loads <= num
  /\ \A block \in allocated : block[1] \in 1 .. loads \/ block \in JobBlocks
  /\ JobBlocks \subseteq allocated
  /\ stage = "scale" => segment.data = segment_rows(request.ul_x)
  /\ stage \in {"load", "extract", "scale"} => request.dr_y > request.ul_y

LEMMA MainInitInv == Init => MainInv
<1> SUFFICES ASSUME Init PROVE MainInv
  OBVIOUS
<1>1. MainTypeOK
  BY DEF Init, MainTypeOK
<1> QED
  BY <1>1 DEF Init, MainInv, JobBlocks

LEMMA get_inputInv ==
  ASSUME MainInv, get_input
  PROVE  MainInv'
<1> USE DEF get_input, MainInv
<1>1. MainTypeOK'
  BY DEF MainTypeOK
<1>2. JobBlocks' = JobBlocks
  BY DEF JobBlocks
<1> QED
  BY <1>1, <1>2 DEF matrix, MainTypeOK

LEMMA LoadInv ==
  ASSUME MainInv, Load
  PROVE  MainInv'
<1> USE DEF Load, MainInv
<1>1. JobBlocks' = {} /\ JobBlocks = {}
  BY DEF JobBlocks
<1>2. CASE /\ UNCHANGED <<image_in, loads, allocated>>
           /\ stage' = "stopped" \/ (stage' = "extract" /\ ~NeedsImage)
  <2>1. MainTypeOK'
    BY <1>2 DEF MainTypeOK
  <2> QED
    BY <1>1, <1>2, <2>1 DEF matrix, MainTypeOK, NeedsImage
<1>3. CASE bin2image /\ stage' = "extract"
  <2>1. PICK size \in Sizes :
          /\ image_in' = [data |-> loads + 1, height |-> size.height, width |-> size.width]
          /\ loads' = loads + 1
          /\ allocated' = allocated \cup matrix(loads + 1, size.height)
    BY <1>3 DEF bin2image
  <2>2. MainTypeOK'
    BY <1>3, <2>1, MainAssumption DEF MainTypeOK
  <2>3. \A block \in allocated' : block[1] \in 1 .. loads'
    BY <1>1, <2>1 DEF matrix, Row, MainTypeOK
  <2>4. matrix(image_in.data, image_in.height)' \subseteq allocated'
    BY <2>1 DEF matrix
  <2> QED
    BY <1>1, <1>3, <2>1, <2>2, <2>3, <2>4 DEF MainTypeOK
<1> QED
  BY <1>2, <1>3

LEMMA extract_segmentInv ==
  ASSUME MainInv, extract_segment
  PROVE  MainInv'
<1> USE DEF extract_segment, MainInv
<1>1. JobBlocks' = {segment_array} /\ JobBlocks = {}
  BY DEF JobBlocks
<1>2. MainTypeOK'
  BY DEF MainTypeOK
<1>3. segment'.data = segment_rows(request.ul_x)'
  BY DEF segment_rows, seg_height
<1> QED
  BY <1>1, <1>2, <1>3 DEF matrix, MainTypeOK

LEMMA ScaleInv ==
  ASSUME MainInv, Scale
  PROVE  MainInv'
<1> USE DEF Scale, MainInv
<1>1. JobBlocks' = JobBlocks \cup {output_sw, output_hw}
  BY DEF JobBlocks
<1>2. MainTypeOK'
  BY DEF MainTypeOK
<1> QED
  BY <1>1, <1>2 DEF matrix, MainTypeOK

LEMMA DeallocateInv ==
  ASSUME MainInv, Deallocate
  PROVE  MainInv'
<1> USE DEF Deallocate, MainInv
<1>1. JobBlocks' = {} /\ JobBlocks = freed
  BY DEF JobBlocks, freed
<1>2. MainTypeOK'
  BY DEF MainTypeOK
<1>3. loads \in Nat \ {0} /\ image_in.data \in 1 .. loads
  BY DEF MainTypeOK
<1>4. matrix(image_in.data, image_in.height) \cap freed = {}
  BY <1>3 DEF matrix, freed, Row, Array, segment_array, output_sw, output_hw
<1>5. matrix(image_in.data, image_in.height)' \subseteq allocated'
  BY <1>3, <1>4 DEF matrix
<1> QED
  BY <1>1, <1>2, <1>3, <1>5 DEF MainTypeOK

LEMMA MainInvariant == Spec => []MainInv
<1>1. MainInv /\ [Next]_vars => MainInv'
  <2> SUFFICES ASSUME MainInv, [Next]_vars PROVE MainInv'
    OBVIOUS
  <2>1. CASE UNCHANGED vars
    <3>1. MainTypeOK'
      BY <2>1 DEF vars, MainInv, MainTypeOK
    <3>2. JobBlocks' = JobBlocks
      BY <2>1 DEF vars, JobBlocks
    <3> QED
      BY <2>1, <3>1, <3>2 DEF vars, MainInv, matrix, segment_rows, seg_height
  <2> QED
    BY <2>1, get_inputInv, LoadInv, extract_segmentInv, ScaleInv, DeallocateInv DEF Next
<1> QED
  BY <1>1, MainInitInv, PTL DEF Spec

\* The counters agree: no image is loaded without a job that asks for it.
THEOREM MainTypeCorrect == Spec => []MainTypeOK
<1>1. MainInv => MainTypeOK
  BY DEF MainInv
<1> QED
  BY <1>1, MainInvariant, PTL

\* A segment that fits is cut from an image that is there, although it owns none of its rows.
THEOREM SegmentAlive == Spec => []ReadsLive
<1>1. ASSUME MainInv PROVE ReadsLive
  <2> SUFFICES ASSUME stage = "scale" PROVE ReadsLive
    BY DEF ReadsLive
  <2> USE <1>1 DEF MainInv
  <2>1. image_in.data \in 1 .. loads /\ loads \in Nat
    BY DEF MainTypeOK
  <2>2. segment_array \in allocated
    BY DEF JobBlocks
  <2>3. ASSUME Fits, NEW i \in DOMAIN segment.data PROVE segment.data[i] \in allocated
    <3>1. {request.ul_x, request.ul_y, request.dr_x, request.dr_y} \subseteq Nat
      BY MainAssumption DEF MainTypeOK
    <3>2. seg_height \in Nat /\ request.ul_x \in Nat
      BY <3>1 DEF seg_height
    <3>3. uint16(seg_height) \in Nat /\ uint16(seg_height) <= seg_height
      BY <3>2 DEF uint16
    <3>4. i \in 0 .. uint16(seg_height) - 1 /\ segment.data[i] = Row(image_in.data, i + request.ul_x)
      BY DEF segment_rows
    <3>5. i + request.ul_x \in -1 .. image_in.height - 1
      BY <2>3, <3>2, <3>3, <3>4 DEF Fits, MainTypeOK
    <3> QED
      BY <2>1, <3>4, <3>5 DEF matrix
  <2> QED
    BY <2>1, <2>2, <2>3 DEF ReadsLive
<1> QED
  BY <1>1, MainInvariant, PTL

\* Nothing is freed twice, and nothing that was not allocated.
THEOREM NoDoubleFree == Spec => []FreesAllocated
<1>1. MainInv => FreesAllocated
  BY DEF MainInv, FreesAllocated, JobBlocks, freed
<1> QED
  BY <1>1, MainInvariant, PTL

\* Between jobs only images that were loaded are allocated.
THEOREM JobsCleanUp == Spec => []OnlyImagesStay
<1>1. MainInv => OnlyImagesStay
  BY DEF MainInv, OnlyImagesStay, JobBlocks
<1> QED
  BY <1>1, MainInvariant, PTL

\* The blocks of all jobs together.
THEOREM BlocksAreKept == Spec => []BlocksKept
BY SegmentAlive, NoDoubleFree, JobsCleanUp, PTL DEF BlocksKept

-----------------------------------------------------------------------------
(* What the report of a job shows *)

\* What the accesses before number p leave running, how often each section has begun by then, and
\* when a register is read.
RunsAt(p, n) == p - 1 \in Measured(n)
StartsAt(p, n) == IF p > 2 * n + 1 THEN 1 ELSE 0
ReadAt(n, register) == IF n = 0 THEN 9 + register ELSE 8 + 4 * n + register

Low(n) == spent[n] % WORD
High(n) == (spent[n] \div WORD) % WORD

\* The registers, and that a section is not longer than all of the job.
PerfTypes ==
  /\ at \in 1 .. 19
  /\ clocks \in [AllSections -> Nat] /\ spent \in [AllSections -> Nat]
  /\ running \in [AllSections -> BOOLEAN] /\ starts \in [AllSections -> Nat]
  /\ report \in [AllSections -> [0 .. 2 -> Nat]]
  /\ spent[0] <= MaxClocks /\ \A n \in AllSections : spent[n] <= spent[0]

\* A job makes all of its accesses while it scales.
Places ==
  /\ stage \notin {"scale", "deallocate"} => at = 1
  /\ stage = "deallocate" => at = 19
  /\ at = 1 => spent = NoTime

\* The counter agrees with the clocks that have passed, once it is reset.
CountsAgree ==
  at > 1 => /\ clocks = spent
            /\ \A n \in AllSections : running[n] <=> RunsAt(at, n)
            /\ \A n \in AllSections : n # 0 => starts[n] = StartsAt(at, n)

\* What has been read is what was spent, since nothing is counted while a report reads.
ReadRight ==
  \A n \in AllSections :
    /\ at > ReadAt(n, 0) => report[n][0] = Low(n)
    /\ at > ReadAt(n, 1) => report[n][1] = High(n)
    /\ n # 0 /\ at > ReadAt(n, 2) => report[n][2] = 1

PerfInv == PerfTypes /\ Places /\ CountsAgree /\ ReadRight

\* The sections of this program: the total time and the two scalings.
LEMMA ThreeSections == AllSections = {0, 1, 2} /\ NumSections = 2
BY PerfAssumption DEF AllSections, PerfAssumption

\* The accesses of a job one after the other.
LEMMA AccessesAre ==
  /\ Len(Accesses) = 18
  /\ Accesses[1] = PERF_RESET /\ Accesses[2] = PERF_BEGIN(0)
  /\ Accesses[3] = PERF_BEGIN(1) /\ Accesses[4] = PERF_END(1)
  /\ Accesses[5] = PERF_BEGIN(2) /\ Accesses[6] = PERF_END(2)
  /\ \A p \in {7, 8, 11, 15} : Accesses[p] = PERF_END(0)
  /\ Accesses[9] = IORD(0, 0) /\ Accesses[10] = IORD(0, 1)
  /\ Accesses[12] = IORD(1, 0) /\ Accesses[13] = IORD(1, 1) /\ Accesses[14] = IORD(1, 2)
  /\ Accesses[16] = IORD(2, 0) /\ Accesses[17] = IORD(2, 1) /\ Accesses[18] = IORD(2, 2)
<1> USE DEF SectionReport, perf_get_total_time, perf_get_section_time, perf_get_num_starts, PERF_STOP_MEASURING
<1>1. /\ SectionReport(1)[1] = PERF_END(0) /\ SectionReport(1)[2] = IORD(1, 0)
      /\ SectionReport(1)[3] = IORD(1, 1) /\ SectionReport(1)[4] = IORD(1, 2)
  OBVIOUS
<1>2. /\ SectionReport(2)[1] = PERF_END(0) /\ SectionReport(2)[2] = IORD(2, 0)
      /\ SectionReport(2)[3] = IORD(2, 1) /\ SectionReport(2)[4] = IORD(2, 2)
  OBVIOUS
<1> DEFINE r == SectionReports
<1>3. r = [i \in 1 .. 8 |-> SectionReport((i - 1) \div 4 + 1)[((i - 1) % 4) + 1]]
  BY ThreeSections DEF SectionReports
<1>4. \A i \in 1 .. 4 : (i - 1) \div 4 + 1 = 1 /\ ((i - 1) % 4) + 1 = i
  OBVIOUS
<1>5. \A i \in 1 .. 4 : (i + 4 - 1) \div 4 + 1 = 2 /\ ((i + 4 - 1) % 4) + 1 = i
  OBVIOUS
<1> HIDE DEF r, SectionReport
<1>6. \A i \in 1 .. 4 : r[i] = SectionReport(1)[i]
  BY <1>3, <1>4
<1>7. \A i \in 1 .. 4 : r[i + 4] = SectionReport(2)[i]
  BY <1>3, <1>5
<1>8. /\ r[1] = PERF_END(0) /\ r[2] = IORD(1, 0) /\ r[3] = IORD(1, 1) /\ r[4] = IORD(1, 2)
  BY <1>1, <1>6
<1>9. /\ r[5] = PERF_END(0) /\ r[6] = IORD(2, 0) /\ r[7] = IORD(2, 1) /\ r[8] = IORD(2, 2)
  <2>1. r[1 + 4] = PERF_END(0) /\ r[2 + 4] = IORD(2, 0) /\ r[3 + 4] = IORD(2, 1) /\ r[4 + 4] = IORD(2, 2)
    BY <1>2, <1>7
  <2> QED
    BY <2>1
<1> DEFINE w == <<PERF_END(0), IORD(1, 0), IORD(1, 1), IORD(1, 2),
                  PERF_END(0), IORD(2, 0), IORD(2, 1), IORD(2, 2)>>
<1>10. r = w
  <2>1. \A i \in 1 .. 8 : r[i] = w[i]
    BY <1>8, <1>9
  <2>2. r = [i \in 1 .. 8 |-> r[i]] /\ w = [i \in 1 .. 8 |-> w[i]]
    BY <1>3
  <2> QED
    BY <2>1, <2>2
<1>11. SectionReports = w
  BY <1>10 DEF r
<1>12. perf_print_formatted_report = <<PERF_END(0), PERF_END(0), IORD(0, 0), IORD(0, 1)>> \o w
  BY <1>11 DEF perf_print_formatted_report
<1> QED
  BY <1>12 DEF Accesses, PERF_START_MEASURING, w

\* The counter understands one thing in each access.
LEMMA AccessIs ==
  ASSUME NEW n \in Nat, NEW register \in 0 .. 2
  PROVE  /\ Resets(PERF_RESET) /\ ~Reads(PERF_RESET) /\ ~Begins(PERF_RESET) /\ ~Ends(PERF_RESET)
         /\ Begins(PERF_BEGIN(n)) /\ ~Reads(PERF_BEGIN(n)) /\ ~Resets(PERF_BEGIN(n)) /\ ~Ends(PERF_BEGIN(n))
         /\ Ends(PERF_END(n)) /\ ~Reads(PERF_END(n)) /\ ~Resets(PERF_END(n)) /\ ~Begins(PERF_END(n))
         /\ PERF_BEGIN(n).section = n /\ PERF_END(n).section = n
         /\ Reads(IORD(n, register)) /\ IORD(n, register).section = n /\ IORD(n, register).register = register
BY DEF PERF_RESET, PERF_BEGIN, PERF_END, IOWR, IORD, Reads, Resets, Begins, Ends

\* What each access of a job does to the counter.
LEMMA AccessMoves ==
  ASSUME PerfInv, Access
  PROVE  /\ at \in 1 .. 18 /\ at' = at + 1 /\ stage = "scale" /\ stage' = stage /\ spent' = spent
         /\ at <= 8 \/ at \in {11, 15} => report' = report
         /\ at = 1 => clocks' = NoTime /\ running' = [n \in AllSections |-> FALSE] /\ starts' = NoTime
         /\ \A n \in AllSections :
              at = 2 * n + (IF n = 0 THEN 2 ELSE 1) =>
                /\ running' = [running EXCEPT ![n] = TRUE] /\ starts' = [starts EXCEPT ![n] = @ + 1]
                /\ clocks' = clocks
         /\ \A n \in AllSections :
              (n # 0 /\ at = 2 * n + 2) \/ (n = 0 /\ at \in {7, 8, 11, 15}) =>
                running' = [running EXCEPT ![n] = FALSE] /\ UNCHANGED <<clocks, starts>>
         /\ \A n \in AllSections, register \in 0 .. 2 :
              at = ReadAt(n, register) /\ ~(n = 0 /\ register = 2) =>
                /\ report' = [report EXCEPT ![n][register] = Value(IORD(n, register))]
                /\ UNCHANGED counterVars
<1>1. /\ at \in 1 .. 18 /\ at' = at + 1 /\ stage = "scale" /\ stage' = stage /\ spent' = spent
  BY AccessesAre DEF Access, vars, PerfInv, PerfTypes
<1> DEFINE access == Accesses[at]
<1>2. /\ Reads(access) => report' = [report EXCEPT ![access.section][access.register] = Value(access)]
                          /\ UNCHANGED counterVars
      /\ ~Reads(access) => Write(access) /\ report' = report
  BY DEF Access
<1> HIDE DEF access
<1>3. ASSUME at = 1
      PROVE  /\ report' = report
             /\ clocks' = NoTime /\ running' = [n \in AllSections |-> FALSE] /\ starts' = NoTime
  <2>1. access = PERF_RESET
    BY <1>3, AccessesAre DEF access
  <2> QED
    BY <2>1, <1>2, AccessIs DEF Write, NoTime
<1>4. ASSUME NEW n \in AllSections, at = 2 * n + (IF n = 0 THEN 2 ELSE 1)
      PROVE  /\ running' = [running EXCEPT ![n] = TRUE] /\ starts' = [starts EXCEPT ![n] = @ + 1]
             /\ clocks' = clocks /\ report' = report
  <2>1. access = PERF_BEGIN(n) /\ n \in Nat
    BY <1>4, AccessesAre, ThreeSections DEF access
  <2>2. ~Reads(access) /\ ~Resets(access) /\ ~Ends(access) /\ access.section = n
    BY <2>1, AccessIs
  <2> QED
    BY <2>2, <1>2 DEF Write
<1>5. ASSUME NEW n \in AllSections, (n # 0 /\ at = 2 * n + 2) \/ (n = 0 /\ at \in {7, 8, 11, 15})
      PROVE  running' = [running EXCEPT ![n] = FALSE] /\ UNCHANGED <<clocks, starts>> /\ report' = report
  <2>1. access = PERF_END(n) /\ n \in Nat
    BY <1>5, AccessesAre, ThreeSections DEF access
  <2>2. ~Reads(access) /\ ~Resets(access) /\ ~Begins(access) /\ access.section = n
    BY <2>1, AccessIs
  <2> QED
    BY <2>2, <1>2 DEF Write
<1>6. ASSUME NEW n \in AllSections, NEW register \in 0 .. 2,
             at = ReadAt(n, register), ~(n = 0 /\ register = 2)
      PROVE  /\ report' = [report EXCEPT ![n][register] = Value(IORD(n, register))]
             /\ UNCHANGED counterVars
  <2>1. n \in {0, 1, 2} /\ n \in Nat /\ register \in {0, 1, 2}
    BY ThreeSections
  <2>2. access = IORD(n, register)
    <3>1. CASE n = 0
      BY <3>1, <2>1, <1>6, AccessesAre DEF access, ReadAt
    <3>2. CASE n = 1
      BY <3>2, <2>1, <1>6, AccessesAre DEF access, ReadAt
    <3>3. CASE n = 2
      BY <3>3, <2>1, <1>6, AccessesAre DEF access, ReadAt
    <3> QED
      BY <2>1, <3>1, <3>2, <3>3
  <2> QED
    BY <2>1, <2>2, <1>2, AccessIs
<1>7. at <= 8 \/ at \in {11, 15} => report' = report
  <2>1. 0 \in AllSections /\ 1 \in AllSections /\ 2 \in AllSections
    BY ThreeSections
  <2>2. CASE at \in {2, 7, 8, 11, 15}
    BY <2>1, <2>2, <1>4, <1>5
  <2>3. CASE at \in {3, 4}
    BY <2>1, <2>3, <1>4, <1>5
  <2>4. CASE at \in {5, 6}
    BY <2>1, <2>4, <1>4, <1>5
  <2> QED
    BY <1>1, <1>3, <2>2, <2>3, <2>4
<1> QED
  BY <1>1, <1>3, <1>4, <1>5, <1>6, <1>7

\* A count of clocks is put together of its two words.
LEMMA TwoWords ==
  ASSUME NEW c \in Nat, c < WORD * WORD
  PROVE  ((c \div WORD) % WORD) * WORD + (c % WORD) = c
<1>1. WORD \in Nat \ {0, 1}
  BY CounterAssumption DEF CounterAssumption
<1>2. c = WORD * (c \div WORD) + (c % WORD) /\ c \div WORD \in Int /\ c % WORD \in 0 .. WORD - 1
  BY <1>1
<1> DEFINE q == c \div WORD
<1> DEFINE r == c % WORD
<1>3. c = WORD * q + r /\ q \in Int /\ r \in 0 .. WORD - 1
  BY <1>2
<1> HIDE DEF q, r
<1>4. q \in 0 .. WORD - 1
  <2>1. ASSUME q < 0 PROVE FALSE
    <3>1. WORD * q <= WORD * (-1)
      BY <2>1, <1>1, <1>3
    <3> QED
      BY <3>1, <1>1, <1>3
  <2>2. ASSUME q >= WORD PROVE FALSE
    <3>1. WORD * q >= WORD * WORD
      BY <2>2, <1>1, <1>3
    <3> QED
      BY <3>1, <1>1, <1>3
  <2> QED
    BY <2>1, <2>2, <1>1, <1>3
<1>5. q % WORD = q
  <2>1. q = WORD * (q \div WORD) + (q % WORD) /\ q \div WORD \in Int /\ q % WORD \in 0 .. WORD - 1
    BY <1>1, <1>4
  <2> DEFINE k == q \div WORD
  <2> DEFINE m == q % WORD
  <2>2. q = WORD * k + m /\ k \in Int /\ m \in 0 .. WORD - 1
    BY <2>1
  <2> HIDE DEF k, m
  <2>3. k = 0
    <3>1. ASSUME k < 0 PROVE FALSE
      <4>1. WORD * k <= WORD * (-1)
        BY <3>1, <1>1, <2>2
      <4> QED
        BY <4>1, <1>1, <1>4, <2>2
    <3>2. ASSUME k > 0 PROVE FALSE
      <4>1. WORD * k >= WORD * 1
        BY <3>2, <1>1, <2>2
      <4> QED
        BY <4>1, <1>1, <1>4, <2>2
    <3> QED
      BY <3>1, <3>2, <2>2
  <2>4. q = m
    BY <2>2, <2>3, <1>1
  <2> QED
    BY <2>4 DEF m
<1>6. q * WORD + r = c
  BY <1>1, <1>3
<1> QED
  BY <1>5, <1>6 DEF q, r

\* Each access is one of these.
LEMMA Kinds ==
  ASSUME at \in 1 .. 18
  PROVE  \/ at = 1
         \/ \E n \in AllSections : at = 2 * n + (IF n = 0 THEN 2 ELSE 1)
         \/ \E n \in AllSections : (n # 0 /\ at = 2 * n + 2) \/ (n = 0 /\ at \in {7, 8, 11, 15})
         \/ \E n \in AllSections, register \in 0 .. 2 : at = ReadAt(n, register) /\ ~(n = 0 /\ register = 2)
<1>1. 0 \in AllSections /\ 1 \in AllSections /\ 2 \in AllSections
  BY ThreeSections
<1>2. /\ ReadAt(0, 0) = 9 /\ ReadAt(0, 1) = 10 /\ ReadAt(1, 0) = 12 /\ ReadAt(1, 1) = 13
      /\ ReadAt(1, 2) = 14 /\ ReadAt(2, 0) = 16 /\ ReadAt(2, 1) = 17 /\ ReadAt(2, 2) = 18
  BY DEF ReadAt
<1>3. CASE at \in {2, 3, 5}
  BY <1>1, <1>3
<1>4. CASE at \in {4, 6, 7, 8, 11, 15}
  BY <1>1, <1>4
<1>5. CASE at \in {9, 10}
  BY <1>1, <1>2, <1>5
<1>6. CASE at \in {12, 13, 14}
  BY <1>1, <1>2, <1>6
<1>7. CASE at \in {16, 17, 18}
  BY <1>1, <1>2, <1>7
<1> QED
  BY <1>3, <1>4, <1>5, <1>6, <1>7

\* A value that is read is a natural number.
LEMMA ValueIs ==
  ASSUME PerfTypes, NEW n \in AllSections, NEW register \in 0 .. 2
  PROVE  /\ Value(IORD(n, register)) \in Nat
         /\ Value(IORD(n, 0)) = clocks[n] % WORD
         /\ Value(IORD(n, 1)) = (clocks[n] \div WORD) % WORD
         /\ Value(IORD(n, 2)) = starts[n] % WORD
<1>1. WORD \in Nat \ {0, 1}
  BY CounterAssumption DEF CounterAssumption
<1>2. clocks[n] \in Nat /\ starts[n] \in Nat
  BY DEF PerfTypes
<1>3. clocks[n] % WORD \in Nat /\ (clocks[n] \div WORD) % WORD \in Nat /\ starts[n] % WORD \in Nat
  BY <1>1, <1>2
<1> QED
  BY <1>3 DEF Value, IORD

\* Each access leaves the counter and what has been read as they should be.
LEMMA AccessKeeps ==
  ASSUME PerfInv, Access
  PROVE  PerfInv'
<1>1. /\ at \in 1 .. 18 /\ at' = at + 1 /\ stage = "scale" /\ stage' = stage /\ spent' = spent
  BY AccessMoves
<1>2. Places'
  BY <1>1 DEF Places
<1>3. AllSections = {0, 1, 2}
  BY ThreeSections
<1> DEFINE Others == at \in 1 .. 19 /\ spent \in [AllSections -> Nat] /\ spent[0] <= MaxClocks
                     /\ \A n \in AllSections : spent[n] <= spent[0]
<1>4. Others'
  BY <1>1 DEF PerfInv, PerfTypes
<1>5. CASE at = 1
  <2>1. /\ clocks' = NoTime /\ running' = [n \in AllSections |-> FALSE] /\ starts' = NoTime
        /\ report' = report /\ at' = 2 /\ spent' = NoTime
    BY <1>1, <1>5, AccessMoves DEF PerfInv, Places
  <2>2. PerfTypes'
    BY <1>4, <2>1 DEF PerfInv, PerfTypes, NoTime
  <2>3. CountsAgree'
    BY <1>3, <2>1 DEF CountsAgree, RunsAt, StartsAt, Measured, NoTime
  <2>4. ReadRight'
    BY <1>3, <2>1 DEF ReadRight, ReadAt
  <2> QED
    BY <1>2, <2>2, <2>3, <2>4 DEF PerfInv
<1>6. ASSUME NEW n \in AllSections, at = 2 * n + (IF n = 0 THEN 2 ELSE 1)
      PROVE  PerfInv'
  <2>1. /\ running' = [running EXCEPT ![n] = TRUE] /\ starts' = [starts EXCEPT ![n] = @ + 1]
        /\ clocks' = clocks
    BY <1>6, AccessMoves
  <2>2. at \in {2, 3, 5} /\ (n = 0 <=> at = 2) /\ (n = 1 <=> at = 3) /\ (n = 2 <=> at = 5)
    BY <1>3, <1>6
  <2>3. report' = report
    BY <2>2, AccessMoves
  <2>4. PerfTypes'
    BY <1>4, <2>1, <2>3 DEF PerfInv, PerfTypes
  <2>5. CountsAgree'
    <3>1. \A m \in AllSections : RunsAt(at + 1, m) <=> (m = n \/ RunsAt(at, m))
      BY <1>3, <2>2 DEF RunsAt, Measured
    <3>2. \A m \in AllSections : m # 0 => StartsAt(at + 1, m) = StartsAt(at, m) + (IF m = n THEN 1 ELSE 0)
      BY <1>3, <2>2 DEF StartsAt
    <3> QED
      BY <1>1, <2>1, <2>2, <3>1, <3>2 DEF PerfInv, PerfTypes, CountsAgree
  <2>6. ReadRight'
    BY <1>1, <1>3, <2>2 DEF ReadRight, ReadAt
  <2> QED
    BY <1>2, <2>4, <2>5, <2>6 DEF PerfInv
<1>7. ASSUME NEW n \in AllSections, (n # 0 /\ at = 2 * n + 2) \/ (n = 0 /\ at \in {7, 8, 11, 15})
      PROVE  PerfInv'
  <2>1. running' = [running EXCEPT ![n] = FALSE] /\ UNCHANGED <<clocks, starts>>
    BY <1>7, AccessMoves
  <2>2. at \in {4, 6, 7, 8, 11, 15} /\ (n = 1 <=> at = 4) /\ (n = 2 <=> at = 6)
    BY <1>3, <1>7
  <2>3. report' = report
    BY <2>2, AccessMoves
  <2>4. PerfTypes'
    BY <1>4, <2>1, <2>3 DEF PerfInv, PerfTypes
  <2>5. CountsAgree'
    <3>1. \A m \in AllSections : RunsAt(at + 1, m) <=> (m # n /\ RunsAt(at, m))
      BY <1>3, <2>2, <1>7 DEF RunsAt, Measured
    <3>2. \A m \in AllSections : m # 0 => StartsAt(at + 1, m) = StartsAt(at, m)
      BY <1>3, <2>2 DEF StartsAt
    <3> QED
      BY <1>1, <2>1, <2>2, <3>1, <3>2 DEF PerfInv, PerfTypes, CountsAgree
  <2>6. ReadRight'
    <3>1. \A m \in AllSections : Low(m)' = Low(m) /\ High(m)' = High(m)
      BY <1>1 DEF Low, High
    <3>2. \A m \in AllSections, register \in 0 .. 2 :
            m # 0 \/ register # 2 => (at + 1 > ReadAt(m, register) <=> at > ReadAt(m, register))
      BY <1>3, <2>2 DEF ReadAt
    <3> QED
      BY <1>1, <2>3, <3>1, <3>2 DEF PerfInv, ReadRight
  <2> QED
    BY <1>2, <2>4, <2>5, <2>6 DEF PerfInv
<1>8. ASSUME NEW n \in AllSections, NEW register \in 0 .. 2,
             at = ReadAt(n, register), ~(n = 0 /\ register = 2)
      PROVE  PerfInv'
  <2> DEFINE value == Value(IORD(n, register))
  <2>1. report' = [report EXCEPT ![n][register] = value] /\ UNCHANGED counterVars
    BY <1>8, AccessMoves
  <2>2. value \in Nat
    BY ValueIs DEF PerfInv
  <2>3. clocks[n] = spent[n] /\ (n # 0 => starts[n] = 1) /\ at >= 9
    BY <1>3, <1>8 DEF PerfInv, CountsAgree, StartsAt, ReadAt
  <2>4. /\ register = 0 => value = Low(n)
        /\ register = 1 => value = High(n)
        /\ n # 0 /\ register = 2 => value = 1
    <3>1. register = 2 /\ n # 0 => 1 % WORD = 1
      BY CounterAssumption DEF CounterAssumption
    <3> QED
      BY <2>3, <3>1, ValueIs DEF PerfInv, Low, High
  <2> HIDE DEF value
  <2>5. /\ report' \in [AllSections -> [0 .. 2 -> Nat]]
        /\ report'[n][register] = value
        /\ \A m \in AllSections, r \in 0 .. 2 : m # n \/ r # register => report'[m][r] = report[m][r]
    BY <2>1, <2>2 DEF PerfInv, PerfTypes
  <2>6. PerfTypes'
    BY <1>4, <2>1, <2>5 DEF PerfInv, PerfTypes, counterVars
  <2>7. CountsAgree'
    <3>1. \A m \in AllSections : RunsAt(at + 1, m) <=> RunsAt(at, m)
      BY <1>1, <1>3, <2>3 DEF RunsAt, Measured
    <3>2. \A m \in AllSections : m # 0 => StartsAt(at + 1, m) = StartsAt(at, m)
      BY <1>1, <1>3, <2>3 DEF StartsAt
    <3> QED
      BY <1>1, <2>1, <2>3, <3>1, <3>2 DEF PerfInv, CountsAgree, counterVars
  <2>8. ReadRight'
    <3>1. \A m \in AllSections : Low(m)' = Low(m) /\ High(m)' = High(m)
      BY <1>1 DEF Low, High
    <3>2. \A m \in AllSections, r \in 0 .. 2 :
            (m # 0 \/ r # 2) /\ (m # n \/ r # register) => (at + 1 > ReadAt(m, r) <=> at > ReadAt(m, r))
      BY <1>1, <1>3, <1>8 DEF ReadAt
    <3>3. ASSUME NEW m \in AllSections, NEW r \in {0, 1, 2}, m # 0 \/ r # 2, at' > ReadAt(m, r)
          PROVE  report'[m][r] = IF r = 0 THEN Low(m) ELSE IF r = 1 THEN High(m) ELSE 1
      <4>1. CASE m = n /\ r = register
        BY <4>1, <2>4, <2>5, <3>3
      <4>2. CASE m # n \/ r # register
        <5>1. at > ReadAt(m, r)
          BY <4>2, <1>1, <3>2, <3>3
        <5>2. report'[m][r] = report[m][r]
          BY <4>2, <2>5
        <5> QED
          BY <5>1, <5>2, <3>3 DEF PerfInv, ReadRight
      <4> QED
        BY <4>1, <4>2
    <3>4. ASSUME NEW m \in AllSections
          PROVE  /\ at' > ReadAt(m, 0) => report'[m][0] = Low(m)'
                 /\ at' > ReadAt(m, 1) => report'[m][1] = High(m)'
                 /\ m # 0 /\ at' > ReadAt(m, 2) => report'[m][2] = 1
      BY <3>1, <3>3
    <3> QED
      BY <3>4 DEF ReadRight, ReadAt
  <2> QED
    BY <1>2, <2>6, <2>7, <2>8 DEF PerfInv
<1> QED
  BY <1>1, <1>5, <1>6, <1>7, <1>8, Kinds

\* A clock that passes is counted where it is spent.
LEMMA PassClockKeeps ==
  ASSUME PerfInv, PassClock
  PROVE  PerfInv'
<1>1. AllSections = {0, 1, 2}
  BY ThreeSections
<1>2. /\ stage = "scale" /\ stage' = stage /\ UNCHANGED <<at, report, running, starts>>
      /\ spent[0] < MaxClocks /\ running[0]
      /\ clocks' = [n \in AllSections |-> IF running[n] THEN clocks[n] + 1 ELSE clocks[n]]
      /\ spent' = [n \in AllSections |-> IF RunsAt(at, n) THEN spent[n] + 1 ELSE spent[n]]
  BY DEF PassClock, Clock, vars, RunsAt
<1>3. MaxClocks \in Int
  BY CounterAssumption, PerfAssumption DEF CounterAssumption, PerfAssumption
<1>4. \A n \in AllSections : RunsAt(at, n) => RunsAt(at, 0)
  BY <1>1 DEF PerfInv, PerfTypes, RunsAt, Measured
<1>5. PerfTypes'
  <2>1. spent'[0] <= MaxClocks /\ \A n \in AllSections : spent'[n] <= spent'[0]
    BY <1>1, <1>2, <1>3, <1>4 DEF PerfInv, PerfTypes
  <2> QED
    BY <1>2, <2>1 DEF PerfInv, PerfTypes
<1>6. Places'
  <2>1. at = 1 => \A n \in AllSections : ~RunsAt(at, n)
    BY <1>1 DEF RunsAt, Measured
  <2> QED
    BY <1>2, <2>1 DEF PerfInv, Places, NoTime
<1>7. CountsAgree'
  <2>1. CASE at > 1
    <3>1. \A n \in AllSections : running[n] <=> RunsAt(at, n)
      BY <2>1 DEF PerfInv, CountsAgree
    <3>2. clocks = spent
      BY <2>1 DEF PerfInv, CountsAgree
    <3>3. \A n \in AllSections : (IF running[n] THEN clocks[n] + 1 ELSE clocks[n])
                                 = (IF RunsAt(at, n) THEN spent[n] + 1 ELSE spent[n])
      BY <3>1, <3>2
    <3>4. clocks' = spent'
      BY <1>2, <3>3
    <3> QED
      BY <1>2, <3>4 DEF PerfInv, CountsAgree
  <2> QED
    BY <1>2, <2>1 DEF CountsAgree
<1>8. ReadRight'
  <2>1. CASE at > 9
    <3>1. RunsAt(at, 0)
      <4>1. \A n \in AllSections : running[n] <=> RunsAt(at, n)
        BY <2>1 DEF PerfInv, PerfTypes, CountsAgree
      <4>2. 0 \in AllSections
        BY <1>1
      <4> QED
        BY <4>1, <4>2, <1>2, Zenon
    <3> QED
      BY <2>1, <3>1 DEF PerfInv, PerfTypes, RunsAt, Measured
  <2>2. CASE ~(at > 9)
    BY <1>1, <1>2, <2>2 DEF PerfInv, PerfTypes, ReadRight, ReadAt
  <2> QED
    BY <2>1, <2>2
<1> QED
  BY <1>5, <1>6, <1>7, <1>8 DEF PerfInv

\* Nothing is measured before the first job.
LEMMA PerfInitInv == PerfInit => PerfInv
<1> SUFFICES ASSUME PerfInit PROVE PerfInv
  OBVIOUS
<1>1. MaxClocks >= 0 /\ MaxClocks \in Int
  BY CounterAssumption, PerfAssumption DEF CounterAssumption, PerfAssumption
<1>2. /\ at = 1 /\ stage = "get_input" /\ spent = NoTime
      /\ report = [n \in AllSections |-> [register \in 0 .. 2 |-> 0]]
      /\ clocks = NoTime /\ running = [n \in AllSections |-> FALSE] /\ starts = NoTime
  BY DEF PerfInit, Init, ResetState, NoTime, NoReport
<1>3. PerfTypes
  BY <1>1, <1>2, ThreeSections DEF PerfTypes, NoTime
<1> QED
  BY <1>2, <1>3, ThreeSections DEF PerfInv, Places, CountsAgree, ReadRight, ReadAt

\* What does not touch the counter, and where the job goes on.
LEMMA PerfFrame ==
  ASSUME PerfInv, UNCHANGED perfVars, Places'
  PROVE  PerfInv'
<1>1. UNCHANGED <<clocks, running, starts, at, report, spent>>
  BY DEF perfVars, counterVars
<1> QED
  BY <1>1 DEF PerfInv, PerfTypes, CountsAgree, ReadRight, Low, High, RunsAt, StartsAt, ReadAt

\* Every step, of the program or of the board.
LEMMA PerfStep ==
  ASSUME PerfInv, PerfNext \/ UNCHANGED <<vars, perfVars>>
  PROVE  PerfInv'
<1>1. CASE UNCHANGED <<vars, perfVars>>
  BY <1>1, PerfFrame DEF PerfInv, Places, vars, perfVars
<1>2. CASE (get_input \/ Load \/ extract_segment) /\ UNCHANGED perfVars
  <2>1. stage \in {"get_input", "load", "extract"}
    BY <1>2 DEF get_input, Load, extract_segment
  <2>2. stage' # "deallocate"
    BY <1>2 DEF get_input, Load, extract_segment, bin2image
  <2>3. at = 1 /\ at' = at /\ spent' = spent /\ spent = NoTime
    BY <1>2, <2>1 DEF PerfInv, Places, perfVars
  <2>4. Places'
    BY <2>2, <2>3 DEF Places, NoTime
  <2> QED
    BY <1>2, <2>4, PerfFrame
<1>3. CASE ScaleAndReport
  <2>1. at = 19 /\ stage' = "deallocate" /\ UNCHANGED perfVars
    BY <1>3, AccessesAre DEF ScaleAndReport, Scale
  <2>2. Places'
    BY <2>1 DEF Places, perfVars
  <2> QED
    BY <2>1, <2>2, PerfFrame
<1>4. CASE NextJob
  <2>1. /\ at' = 1 /\ stage' = "get_input" /\ spent' = NoTime /\ UNCHANGED <<clocks, running, starts>>
        /\ report' = [n \in AllSections |-> [register \in 0 .. 2 |-> 0]]
    BY <1>4 DEF NextJob, Deallocate, NoReport, counterVars
  <2>2. MaxClocks >= 0 /\ MaxClocks \in Int
    BY CounterAssumption, PerfAssumption DEF CounterAssumption, PerfAssumption
  <2>3. PerfTypes'
    BY <2>1, <2>2, ThreeSections DEF PerfInv, PerfTypes, NoTime
  <2> QED
    BY <2>1, <2>3, ThreeSections DEF PerfInv, Places, CountsAgree, ReadRight, ReadAt, NoTime
<1> QED
  BY <1>1, <1>2, <1>3, <1>4, AccessKeeps, PassClockKeeps DEF PerfNext

\* The report of each job shows the clocks that job has taken, both words of each count belonging
\* together (main.c:139-185, perf_print_formatted_report.c).
THEOREM ReportsAreMeasured == PerfSpec => []ReportIsMeasured
<1>1. PerfInv => ReportIsMeasured
  <2> SUFFICES ASSUME PerfInv, stage = "deallocate", NEW n \in AllSections
               PROVE  report[n][1] * WORD + report[n][0] = spent[n] /\ (n # 0 => report[n][2] = 1)
    BY DEF ReportIsMeasured
  <2>1. at = 19 /\ n \in {0, 1, 2}
    BY ThreeSections DEF PerfInv, Places
  <2>2. report[n][0] = Low(n) /\ report[n][1] = High(n) /\ (n # 0 => report[n][2] = 1)
    BY <2>1 DEF PerfInv, ReadRight, ReadAt
  <2>3. spent[n] \in Nat /\ spent[n] < WORD * WORD
    <3>1. WORD \in Nat /\ MaxClocks \in Int /\ MaxClocks <= WORD * WORD - 1
      BY CounterAssumption, PerfAssumption DEF CounterAssumption, PerfAssumption
    <3>2. spent[n] \in Nat /\ spent[0] \in Nat /\ spent[n] <= spent[0] /\ spent[0] <= MaxClocks
      BY <2>1, ThreeSections DEF PerfInv, PerfTypes
    <3>3. WORD * WORD \in Nat
      BY <3>1
    <3> QED
      BY <3>1, <3>2, <3>3
  <2> QED
    BY <2>2, <2>3, TwoWords DEF Low, High
<1> QED
  BY <1>1, PerfInitInv, PerfStep, PTL DEF PerfSpec


-----------------------------------------------------------------------------

-----------------------------------------------------------------------------
(* bilinear_scaling_sw *)

\* Euclidean division.
LEMMA Division ==
  ASSUME NEW a \in Nat, NEW b \in Nat \ {0}
  PROVE  /\ a \div b \in Nat /\ a % b \in 0 .. b - 1
         /\ a = b * (a \div b) + (a % b)
  OBVIOUS

\* Multiplication by a natural number is monotone.
LEMMA Monotone ==
  ASSUME NEW a \in Nat, NEW b \in Nat, NEW c \in Nat, a <= b
  PROVE  a * c <= b * c /\ c * a <= c * b
  OBVIOUS

\* A quotient is below n exactly when the dividend is below n times the divisor.
LEMMA QuotientBelow ==
  ASSUME NEW a \in Nat, NEW b \in Nat \ {0}, NEW n \in Nat, a < b * n
  PROVE  a \div b < n
<1>1. a \div b \in Nat /\ b * (a \div b) <= a
  BY Division
<1>2. CASE n <= a \div b
  BY <1>1, <1>2, Monotone
<1> QED
  BY <1>1, <1>2

\* The product of natural numbers is one.
LEMMA Products ==
  ASSUME NEW a \in Nat, NEW b \in Nat
  PROVE  a * b \in Nat
  OBVIOUS

\* A remainder is at most the number divided.
LEMMA CutOff ==
  ASSUME NEW a \in Nat, NEW b \in Nat \ {0}
  PROVE  a % b \in Nat /\ a % b <= a
  BY Division, Products

\* The step between two output pixels is at most the reciprocal of the factor: to_fixed_point
\* rounds down, and the bits it cuts off make it only smaller.
LEMMA IncrementBound ==
  ASSUME NEW s \in Nat \ {0}
  PROVE  increment(s) \in Nat /\ s * increment(s) <= SCALE_ONE * ONE_NFRAC
<1> DEFINE one == SCALE_ONE * ONE_NFRAC
           q == one \div s
           p == 2 ^ (BILINEAR_SCALING_NINT + BILINEAR_SCALING_NFRAC)
<1>1. p \in Nat \ {0} /\ one \in Nat
  BY PowersAssumption, Products
<1>2. increment(s) = q % p
  BY DEF increment, to_fixed_point, ONE_NFRAC
<1> HIDE DEF p, one
<1>3. q \in Nat /\ one % s \in Nat /\ one = s * q + (one % s)
  BY <1>1, Division
<1> HIDE DEF q
<1>4. q % p \in Nat /\ q % p <= q
  BY <1>1, <1>3, CutOff
<1>5. s * (q % p) <= s * q
  BY <1>3, <1>4, Monotone
<1>6. s * (q % p) \in Nat /\ s * q \in Nat
  BY <1>3, <1>4, Products
<1>7. s * (q % p) <= one
  BY <1>1, <1>3, <1>5, <1>6
<1> QED
  BY <1>2, <1>4, <1>7 DEF one

\* The accumulated coordinate of an output pixel is inside the input: the output is as long as
\* the factor allows, and not longer.
LEMMA CoordinateInBounds ==
  ASSUME NEW n \in Nat \ {0}, NEW s \in Nat \ {0}, NEW i \in Nat, i < output_size(n, s)
  PROVE  GET_INT(i * increment(s)) \in 0 .. n - 1
<1> DEFINE d == increment(s)
           l == output_size(n, s)
<1>0. SCALE_ONE \in Nat \ {0} /\ ONE_NFRAC \in Nat \ {0} /\ d \in Nat /\ n * s \in Nat
  BY PowersAssumption, IncrementBound, Products
<1>1. l \in Nat /\ SCALE_ONE * l <= n * s
  BY <1>0, Division DEF output_size
<1>2. s * d <= SCALE_ONE * ONE_NFRAC
  BY IncrementBound
<1>3. i < l
  OBVIOUS
<1> HIDE DEF d, l
<1>4. SCALE_ONE * (i + 1) <= n * s
  <2>1. SCALE_ONE * (i + 1) <= SCALE_ONE * l
    BY <1>0, <1>1, <1>3, Monotone
  <2> QED
    BY <2>1, <1>0, <1>1, Products
<1>5. s * (i * d) < s * (ONE_NFRAC * n)
  <2>1. i * (s * d) <= i * (SCALE_ONE * ONE_NFRAC)
    BY <1>0, <1>2, Monotone, Products
  <2>2. ONE_NFRAC * (SCALE_ONE * (i + 1)) <= ONE_NFRAC * (n * s)
    BY <1>0, <1>4, Monotone, Products
  <2>3. i * (SCALE_ONE * ONE_NFRAC) < ONE_NFRAC * (SCALE_ONE * (i + 1))
    <3>1. SCALE_ONE * ONE_NFRAC \in Nat \ {0}
      BY <1>0
    <3>2. ONE_NFRAC * (SCALE_ONE * (i + 1)) = i * (SCALE_ONE * ONE_NFRAC) + SCALE_ONE * ONE_NFRAC
      BY <1>0
    <3> QED
      BY <3>1, <3>2, Products
  <2>4. i * (s * d) = s * (i * d) /\ ONE_NFRAC * (n * s) = s * (ONE_NFRAC * n)
    BY <1>0
  <2> QED
    BY <2>1, <2>2, <2>3, <2>4, <1>0, Products
<1>6. i * d < ONE_NFRAC * n
  <2>1. i * d \in Nat /\ ONE_NFRAC * n \in Nat
    BY <1>0, Products
  <2>2. CASE ONE_NFRAC * n <= i * d
    BY <2>1, <2>2, <1>5, Monotone, Products
  <2> QED
    BY <2>1, <2>2
<1>7. (i * d) \div ONE_NFRAC < n /\ (i * d) \div ONE_NFRAC \in Nat
  BY <1>0, <1>6, QuotientBelow, Division, Products
<1> QED
  BY <1>7 DEF GET_INT, d

\* Rounded down, a weighted mean of two values lies between any two bounds on them.
LEMMA WeightedMean ==
  ASSUME NEW low \in Nat, NEW high \in Nat, NEW a \in low .. high, NEW b \in low .. high,
         NEW w \in 0 .. ONE_NFRAC - 1
  PROVE  ((ONE_NFRAC - w) * a + w * b) \div ONE_NFRAC \in low .. high
<1> DEFINE one == ONE_NFRAC
           c == one - w
           m == c * a + w * b
<1>0. one \in Nat \ {0} /\ w \in Nat /\ c \in Nat /\ c + w = one /\ a \in Nat /\ b \in Nat
  BY PowersAssumption
<1> HIDE DEF one, c
<1>1. /\ c * low <= c * a /\ c * a <= c * high
      /\ w * low <= w * b /\ w * b <= w * high
  BY <1>0, Monotone
<1>2. /\ one * low = c * low + w * low
      /\ one * high = c * high + w * high
  BY <1>0
<1>3. m \in Nat /\ one * low <= m /\ m <= one * high
  BY <1>0, <1>1, <1>2, Products
<1>4. m \div one \in Nat /\ m % one \in 0 .. one - 1 /\ m = one * (m \div one) + (m % one)
  BY <1>0, <1>3, Division
<1> HIDE DEF m
<1> DEFINE q == m \div one
<1>5. q <= high
  <2>1. CASE high + 1 <= q
    <3>1. one * (high + 1) <= one * q
      BY <1>0, <1>4, <2>1, Monotone
    <3>2. one * (high + 1) = one * high + one
      BY <1>0
    <3> QED
      BY <3>1, <3>2, <1>0, <1>3, <1>4, Products
  <2> QED
    BY <2>1, <1>4
<1>6. low <= q
  <2>1. CASE q + 1 <= low
    <3>1. one * (q + 1) <= one * low
      BY <1>0, <1>4, <2>1, Monotone
    <3>2. one * (q + 1) = one * q + one
      BY <1>0, <1>4
    <3> QED
      BY <3>1, <3>2, <1>0, <1>3, <1>4, Products
  <2> QED
    BY <2>1, <1>4
<1> QED
  BY <1>4, <1>5, <1>6 DEF m, one, c

\* The two means one after the other, as the code computes them.
LEMMA Interpolation ==
  ASSUME NEW low \in Nat, NEW high \in Nat,
         NEW tl \in low .. high, NEW tr \in low .. high,
         NEW bl \in low .. high, NEW br \in low .. high,
         NEW ax \in 0 .. ONE_NFRAC - 1, NEW ay \in 0 .. ONE_NFRAC - 1
  PROVE  interpolate(tl, tr, bl, br, ax, ay) \in low .. high
<1> DEFINE top == ((ONE_NFRAC - ax) * tl + ax * tr) \div ONE_NFRAC
           bot == ((ONE_NFRAC - ax) * bl + ax * br) \div ONE_NFRAC
<1>1. top \in low .. high /\ bot \in low .. high
  BY WeightedMean
<1>2. interpolate(tl, tr, bl, br, ax, ay) = ((ONE_NFRAC - ay) * top + ay * bot) \div ONE_NFRAC
  BY DEF interpolate
<1> HIDE DEF top, bot
<1> QED
  BY <1>1, <1>2, WeightedMean

------------------------------------------------------------------------------
\* The inductive invariant: the accumulators are the products of the closed form, and every
\* pixel written so far is a mean of input pixels.
LoopInv ==
  /\ TypeOK
  /\ y = v * increment_y /\ x = u * increment_x
  /\ OutputWithinInput

\* What the loops compute once, before they start.
Parameters == <<increment_x, increment_y, output_width, output_height, InputValues>>

\* The size of the output is a number.
LEMMA OutputSize ==
  ASSUME NEW n \in Nat, NEW s \in Nat
  PROVE  output_size(n, s) \in Nat
  BY PowersAssumption, Products, Division DEF output_size

\* What the assumption on the inputs says of the current ones.
LEMMA InputFacts ==
  ASSUME LoopInv
  PROVE  /\ input.width \in Nat \ {0} /\ input.height \in Nat \ {0}
         /\ sx \in Nat \ {0} /\ sy \in Nat \ {0}
         /\ input.data \in [0 .. input.height - 1 -> [0 .. input.width - 1 -> PixelValue]]
  BY InputAssumption DEF LoopInv, TypeOK

\* The neighbour of a coordinate of the image is a coordinate of the image.
LEMMA NextInBounds ==
  ASSUME NEW n \in Nat \ {0}, NEW floor \in 0 .. n - 1
  PROVE  saturated_next(floor, n) \in 0 .. n - 1
  BY DEF saturated_next

\* The accumulated coordinates index existing pixels.
LEMMA Bounds ==
  ASSUME LoopInv
  PROVE  AccessInBounds
<1> SUFFICES ASSUME InLoopBody
             PROVE  /\ {floor_y, floor_y1} \subseteq 0 .. input.height - 1
                    /\ {floor_x, floor_x1} \subseteq 0 .. input.width - 1
  BY DEF AccessInBounds
<1>1. floor_x \in 0 .. input.width - 1
  BY InputFacts, CoordinateInBounds DEF LoopInv, TypeOK, InLoopBody, output_width, floor_x, increment_x
<1>2. floor_y \in 0 .. input.height - 1
  BY InputFacts, CoordinateInBounds DEF LoopInv, TypeOK, InLoopBody, output_height, floor_y, increment_y
<1>3. floor_x1 \in 0 .. input.width - 1 /\ floor_y1 \in 0 .. input.height - 1
  BY <1>1, <1>2, InputFacts, NextInBounds DEF floor_x1, floor_y1
<1> QED
  BY <1>1, <1>2, <1>3

\* The pixels of the input are bytes.
LEMMA InputValuesBytes ==
  ASSUME LoopInv
  PROVE  InputValues \subseteq PixelValue
<1> DEFINE PixelRow == [0 .. input.width - 1 -> PixelValue]
<1>1. input.data \in [0 .. input.height - 1 -> PixelRow]
  BY InputFacts
<1>2. ASSUME NEW r \in 0 .. input.height - 1, NEW c \in 0 .. input.width - 1
      PROVE  input.data[r][c] \in PixelValue
  <2>1. input.data[r] \in PixelRow
    BY <1>1
  <2> QED
    BY <2>1
<1>3. ASSUME NEW value \in InputValues PROVE value \in PixelValue
  <2>1. PICK r \in 0 .. input.height - 1, c \in 0 .. input.width - 1 : value = input.data[r][c]
    BY DEF InputValues
  <2>2. input.data[r][c] \in PixelValue
    BY <1>2
  <2> QED
    BY <2>1, <2>2
<1> QED
  BY <1>3

\* Of four natural numbers one is the least and one the greatest.
LEMMA Extremes ==
  ASSUME NEW S \in SUBSET Nat, NEW a \in S, NEW b \in S, NEW c \in S, NEW d \in S
  PROVE  \E low, high \in S : /\ a \in low .. high /\ b \in low .. high
                               /\ c \in low .. high /\ d \in low .. high
<1>1. \E low \in S : low <= a /\ low <= b /\ low <= c /\ low <= d
  OBVIOUS
<1>2. \E high \in S : a <= high /\ b <= high /\ c <= high /\ d <= high
  OBVIOUS
<1> QED
  BY <1>1, <1>2

\* The pixel the loop body computes lies between two pixels of the input.
LEMMA PixelWithinInput ==
  ASSUME LoopInv, InLoopBody
  PROVE  /\ OutputPixel \in PixelValue
         /\ \E low, high \in InputValues : low <= OutputPixel /\ OutputPixel <= high
<1> DEFINE tl == input.data[floor_y][floor_x]    tr == input.data[floor_y][floor_x1]
           bl == input.data[floor_y1][floor_x]   br == input.data[floor_y1][floor_x1]
<1>1. /\ floor_y \in 0 .. input.height - 1 /\ floor_y1 \in 0 .. input.height - 1
      /\ floor_x \in 0 .. input.width - 1 /\ floor_x1 \in 0 .. input.width - 1
  BY Bounds DEF AccessInBounds
<1>2. tl \in InputValues /\ tr \in InputValues /\ bl \in InputValues /\ br \in InputValues
  BY <1>1 DEF InputValues
<1>3. InputValues \subseteq Nat
  BY InputValuesBytes DEF PixelValue
<1> HIDE DEF tl, tr, bl, br
<1>4. PICK low, high \in InputValues : /\ tl \in low .. high /\ tr \in low .. high
                                       /\ bl \in low .. high /\ br \in low .. high
  BY <1>2, <1>3, Extremes
<1>5. GET_FRAC(x) \in 0 .. ONE_NFRAC - 1 /\ GET_FRAC(y) \in 0 .. ONE_NFRAC - 1
  <2>1. x \in Nat /\ y \in Nat
    BY DEF LoopInv, TypeOK
  <2> QED
    BY <2>1, PowersAssumption, Division DEF GET_FRAC
<1>6. OutputPixel \in low .. high
  BY <1>3, <1>4, <1>5, Interpolation DEF OutputPixel, tl, tr, bl, br
<1>7. InputValues \subseteq 0 .. 255
  BY InputValuesBytes DEF PixelValue
<1> QED
  BY <1>3, <1>4, <1>6, <1>7 DEF PixelValue

\* The invariant holds initially and every iteration preserves it.
LEMMA LoopInvariant == SwSpec => []LoopInv
<1>1. SwInit => LoopInv
  <2> SUFFICES ASSUME SwInit PROVE LoopInv
    OBVIOUS
  <2>1. /\ input \in Inputs /\ <<sx, sy>> \in Factors /\ sx \in Nat \ {0} /\ sy \in Nat \ {0}
        /\ input.width \in Nat \ {0} /\ input.height \in Nat \ {0}
    <3>1. PICK factors \in Factors : sx = factors[1] /\ sy = factors[2]
      BY DEF SwInit
    <3>2. factors \in (Nat \ {0}) \X (Nat \ {0})
      BY InputAssumption
    <3>3. factors = <<sx, sy>> /\ sx \in Nat \ {0} /\ sy \in Nat \ {0}
      BY <3>1, <3>2
    <3>4. input \in Inputs
      BY DEF SwInit
    <3>5. input.width \in Nat \ {0} /\ input.height \in Nat \ {0}
      BY <3>4, InputAssumption
    <3> QED
      BY <3>3, <3>4, <3>5
  <2>2. /\ increment_x \in Nat /\ increment_y \in Nat
        /\ output_width \in Nat /\ output_height \in Nat
    BY <2>1, IncrementBound, OutputSize DEF increment_x, increment_y, output_width, output_height
  <2>3. v = 0 /\ u = 0 /\ y = 0 /\ x = 0 /\ output = <<>>
    BY DEF SwInit
  <2>4. TypeOK
    BY <2>1, <2>2, <2>3 DEF TypeOK
  <2>5. y = v * increment_y /\ x = u * increment_x
    BY <2>2, <2>3
  <2> QED
    BY <2>3, <2>4, <2>5 DEF LoopInv, OutputWithinInput
<1>2. LoopInv /\ [SwNext]_swVars => LoopInv'
  <2> SUFFICES ASSUME LoopInv, [SwNext]_swVars PROVE LoopInv'
    OBVIOUS
  <2>0. /\ increment_x \in Nat /\ increment_y \in Nat
        /\ output_width \in Nat /\ output_height \in Nat
    BY InputFacts, IncrementBound, OutputSize
       DEF increment_x, increment_y, output_width, output_height
  <2>1. CASE InnerLoop
    <3>1. InLoopBody
      BY <2>1 DEF InnerLoop, InLoopBody
    <3>2. Parameters' = Parameters
      BY <2>1 DEF InnerLoop, Parameters, increment_x, increment_y, output_width, output_height,
                  InputValues
    <3>3. x' = u' * increment_x'
      BY <2>0, <2>1, <3>2 DEF InnerLoop, LoopInv, TypeOK, Parameters
    <3>4. output' \in Seq(PixelValue) /\ OutputWithinInput'
      <4>1. InputValues' = InputValues
        BY <3>2 DEF Parameters
      <4>2. /\ output' = Append(output, OutputPixel) /\ OutputPixel \in PixelValue
            /\ \E low, high \in InputValues : low <= OutputPixel /\ OutputPixel <= high
        BY <2>1, <3>1, PixelWithinInput DEF InnerLoop
      <4>3. \A i \in DOMAIN output :
              \E low, high \in InputValues : low <= output[i] /\ output[i] <= high
        BY DEF LoopInv, OutputWithinInput
      <4>4. output \in Seq(PixelValue)
        BY DEF LoopInv, TypeOK
      <4>5. \A i \in DOMAIN output' :
              \E low, high \in InputValues : low <= output'[i] /\ output'[i] <= high
        BY <4>2, <4>3, <4>4
      <4> QED
        BY <4>1, <4>2, <4>4, <4>5 DEF OutputWithinInput
    <3>5. TypeOK'
      BY <2>0, <2>1, <3>1, <3>2, <3>4 DEF InnerLoop, InLoopBody, LoopInv, TypeOK, Parameters
    <3> QED
      BY <2>1, <3>2, <3>3, <3>4, <3>5 DEF InnerLoop, LoopInv, Parameters
  <2>2. CASE OuterLoop
    <3>1. Parameters' = Parameters
      BY <2>2 DEF OuterLoop, Parameters, increment_x, increment_y, output_width, output_height,
                  InputValues
    <3>2. y' = v' * increment_y' /\ x' = u' * increment_x'
      BY <2>0, <2>2, <3>1 DEF OuterLoop, LoopInv, TypeOK, Parameters
    <3>3. TypeOK'
      BY <2>0, <2>2, <3>1 DEF OuterLoop, LoopInv, TypeOK, Parameters
    <3> QED
      BY <2>2, <3>1, <3>2, <3>3 DEF OuterLoop, LoopInv, OutputWithinInput, Parameters
  <2>3. CASE UNCHANGED swVars
    <3>1. Parameters' = Parameters
      BY <2>3 DEF swVars, Parameters, increment_x, increment_y, output_width, output_height,
                  InputValues
    <3> QED
      BY <2>3, <3>1 DEF swVars, LoopInv, TypeOK, OutputWithinInput, Parameters
  <2> QED
    BY <2>1, <2>2, <2>3 DEF SwNext
<1> QED
  BY <1>1, <1>2, PTL DEF SwSpec

\* Loop counters stay in range and every value written fits its byte.
THEOREM TypeCorrect == SwSpec => []TypeOK
<1>1. LoopInv => TypeOK
  BY DEF LoopInv
<1> QED
  BY <1>1, LoopInvariant, PTL

\* The software model never reads outside the image, whatever its size and the factors
\* (bilinear_scaling.c:62-65 has no check).
THEOREM ReadsInBounds == SwSpec => []AccessInBounds
<1>1. LoopInv => AccessInBounds
  BY Bounds
<1> QED
  BY <1>1, LoopInvariant, PTL

\* The coordinates it accumulates are those of the closed form the accelerator is checked with.
THEOREM NoDrift == SwSpec => []AccumulatesClosedForm
<1>1. LoopInv => AccumulatesClosedForm
  BY DEF LoopInv, AccumulatesClosedForm, group, floor_x, floor_y, floor_x1, floor_y1,
         increment_x, increment_y
<1> QED
  BY <1>1, LoopInvariant, PTL

\* Both of every read: it exists, and it is the one the accelerator is checked with.
THEOREM ReadsRight == SwSpec => []ReadsRightPixels
BY ReadsInBounds, NoDrift, PTL DEF ReadsRightPixels

\* Every pixel written lies between two pixels of the input: none overflows its byte.
THEOREM OutputBounded == SwSpec => []OutputWithinInput
<1>1. LoopInv => OutputWithinInput
  BY DEF LoopInv
<1> QED
  BY <1>1, LoopInvariant, PTL

-----------------------------------------------------------------------------
(* bilinear_scaling_hw *)

Preparing == {"create_transmit", "create_receive", "terminate", "params"}
Running == {"wait_tx", "wait_rx", "ctl"}
Ending == {"clear_rx", "clear_tx", "stop", "free"}

Flag(d) == IF d = "sgdma_out" THEN tx_done ELSE rx_done
Count(d) == IF d = "sgdma_out" THEN in_rows ELSE out_rows

\* The program has not yet started device d, has started it, or is through with it.
Before(d) == pc \in {"register", "idle", "start_out"} \cup Preparing
               \/ (d = "sgdma_in" /\ pc = "start_in")
During(d) == pc \in Running \/ (d = "sgdma_out" /\ pc = "start_in")
After == pc \in Ending

Quiet(d) == ~busy[d] /\ ~irq[d] /\ isr # d

\* A device at rest, ...
Idle(d) == Quiet(d) /\ Flag(d) = 0 /\ "RUN" \notin control[d]
\* ... on its way through the chain, ...
Walking(d) == desc[d] < Rows(d) /\ ~irq[d] /\ isr # d /\ Flag(d) = 0
\* ... at the end of it, with one notice of that on its way to the program.
Walked(d) ==
  /\ desc[d] = Rows(d) /\ ~busy[d]
  /\ \/ irq[d] /\ isr # d /\ Flag(d) = 0
     \/ ~irq[d] /\ isr = d /\ Flag(d) = 0
     \/ ~irq[d] /\ isr # d /\ Flag(d) = 1

DeviceInv(d) ==
  /\ Before(d) => Idle(d) /\ Count(d) = 0
  /\ During(d) => /\ control[d] = ControlBits /\ desc[d] = Count(d)
                  /\ Walking(d) \/ Walked(d)
  /\ After => Quiet(d) /\ desc[d] = Rows(d) /\ Count(d) = 0

\* The chain of a device: so many rows, and the end.
Built(d) == \A i \in 0 .. Rows(d) : owned[d][i] <=> i < Rows(d)

ChainInv ==
  /\ pc = "create_transmit" =>
       /\ \A i \in 0 .. Rows("sgdma_out") : i < built => owned["sgdma_out"][i]
       /\ ~owned["sgdma_out"][Rows("sgdma_out")]
  /\ pc = "create_receive" =>
       /\ Built("sgdma_out")
       /\ \A i \in 0 .. Rows("sgdma_in") : i < built => owned["sgdma_in"][i]
       /\ ~owned["sgdma_in"][Rows("sgdma_in")]
  /\ pc = "create_transmit" => ~owned["sgdma_in"][Rows("sgdma_in")]
  /\ pc \in {"terminate", "params", "start_out", "start_in"} \cup Running \cup Ending =>
       \A d \in Device : Built(d)

ProgramInv ==
  /\ pc \notin {"register", "idle"} =>
       /\ job \in Jobs
       /\ live = {"output", "transmit_descriptors", "receive_descriptors"}
  /\ pc # "register" => callback = [d \in Device |-> TRUE]
  /\ pc \in {"start_out", "start_in"} \cup Running \cup Ending => registers = job
  /\ pc \in {"wait_rx", "ctl"} => tx_done = 1
  /\ pc = "ctl" => rx_done = 1
  /\ pc \in {"clear_tx", "stop", "free"} => rx_done = 0
  /\ pc \in {"stop", "free"} => tx_done = 0
  /\ pc = "free" => \A d \in Device : "RUN" \notin control[d]
  /\ pc \notin {"create_transmit", "create_receive"} => built = 0

HwInv == HwTypeOK /\ ProgramInv /\ ChainInv /\ \A d \in Device : DeviceInv(d)

\* What the assumptions say of the job in hand.
LEMMA JobFacts ==
  ASSUME job \in Jobs \cup {NoJob}
  PROVE  /\ \A d \in Device : Rows(d) \in Nat
         /\ job \in Jobs => \A d \in Device : Rows(d) \in Nat \ {0}
         /\ job.height \in Nat /\ output_rows \in Nat
<1>1. CASE job \in Jobs
  BY <1>1, DriverAssumption DEF Rows, RowsOf, output_rows
<1>2. CASE job = NoJob /\ job \notin Jobs
  <2>1. NoJob.height = 0 /\ NoJob.sy = 1
    BY DriverAssumption
  <2>2. 0 \div SCALE_ONE = 0
    BY PowersAssumption
  <2>3. output_size(0, 1) = 0
    BY <2>2 DEF output_size
  <2> QED
    BY <1>2, <2>1, <2>3 DEF Rows, RowsOf, output_rows
<1> QED
  BY <1>1, <1>2

\* The initial state.
LEMMA HwInitInv == HwInit => HwInv
<1> SUFFICES ASSUME HwInit PROVE HwInv
  OBVIOUS
<1>1. job.height = 0 /\ job \in Jobs \cup {NoJob} /\ Rows("sgdma_out") \in Nat
  BY DriverAssumption, JobFacts DEF HwInit, Device
<1>2. HwTypeOK
  BY <1>1 DEF HwInit, HwTypeOK, Labels, Device, ControlBits
<1>3. ProgramInv /\ ChainInv
  BY DEF HwInit, ProgramInv, ChainInv, Running, Ending
<1>4. \A d \in Device : DeviceInv(d)
  BY DEF HwInit, DeviceInv, Before, During, After, Idle, Quiet, Flag, Count, Device,
         Running, Ending, Preparing
<1> QED
  BY <1>2, <1>3, <1>4 DEF HwInv

\* A device nothing happens to keeps its part of the invariant while the program stays in the
\* same phase towards it.
LEMMA DeviceFrame ==
  ASSUME NEW d \in Device, DeviceInv(d),
         Rows(d)' = Rows(d) \/ Before(d)', Flag(d)' = Flag(d), Count(d)' = Count(d),
         busy'[d] = busy[d], irq'[d] = irq[d], desc'[d] = desc[d], control'[d] = control[d],
         isr' = isr,
         Before(d)' <=> Before(d), During(d)' <=> During(d), After' <=> After
  PROVE  DeviceInv(d)'
<1>1. CASE Before(d)
  BY <1>1 DEF DeviceInv, Before, During, After, Idle, Quiet, Running, Ending, Preparing
<1>2. CASE ~Before(d)
  BY <1>2 DEF DeviceInv, Before, During, After, Idle, Quiet, Walking, Walked,
         Running, Ending, Preparing
<1> QED
  BY <1>1, <1>2

\* Each step of the program preserves the invariant.
LEMMA RegisterInv ==
  ASSUME HwInv, RegisterCallbacks
  PROVE  HwInv'
<1> USE DEF RegisterCallbacks, At, Goto, HwInv
<1>0. job' = job /\ Rows("sgdma_out")' = Rows("sgdma_out") /\ output_rows' = output_rows
  BY DEF Rows, RowsOf, output_rows
<1>1. HwTypeOK'
  BY <1>0 DEF HwTypeOK, Labels, flagVars, deviceVars, accVars, ProgramInv
<1>2. ProgramInv' /\ ChainInv'
  BY DEF ProgramInv, ChainInv, Running, Ending
<1>3. \A d \in Device : DeviceInv(d)'
  BY DeviceFrame DEF Before, During, After, Flag, Count, Rows, RowsOf, output_rows, Device,
         Running, Ending, Preparing, flagVars, deviceVars, accVars
<1> QED
  BY <1>1, <1>2, <1>3

LEMMA CallInv ==
  ASSUME HwInv, Call
  PROVE  HwInv'
<1> USE DEF Call, At, Goto, HwInv
<1>0. /\ job' \in Jobs /\ \A d \in Device : Rows(d)' \in Nat \ {0}
      /\ job'.height \in Nat /\ built = 0 /\ built' = 0
      /\ \A d \in Device : owned'[d] \in [0 .. Rows(d)' -> BOOLEAN] /\ ~owned'[d][Rows(d)']
  <2>1. job' \in Jobs
    OBVIOUS
  <2>2. \A d \in Device : Rows(d)' \in Nat \ {0}
    BY <2>1, DriverAssumption DEF Rows, RowsOf, output_rows
  <2>3. \A d \in Device : owned'[d] \in [0 .. Rows(d)' -> BOOLEAN] /\ ~owned'[d][Rows(d)']
    <3>1. PICK garbage \in BOOLEAN :
            owned' = [d \in Device |->
                        [i \in 0 .. RowsOf(job', d) |-> garbage /\ i # RowsOf(job', d)]]
      OBVIOUS
    <3>2. ASSUME NEW d \in Device
          PROVE  owned'[d] \in [0 .. Rows(d)' -> BOOLEAN] /\ ~owned'[d][Rows(d)']
      <4>1. owned'[d] = [i \in 0 .. Rows(d)' |-> garbage /\ i # Rows(d)']
        BY <3>1 DEF Rows
      <4>2. Rows(d)' \in 0 .. Rows(d)'
        BY <2>2
      <4> QED
        BY <4>1, <4>2
    <3> QED
      BY <3>2
  <2> QED
    BY <2>1, <2>2, <2>3, DriverAssumption DEF ProgramInv
<1>1. HwTypeOK'
  BY <1>0 DEF HwTypeOK, Labels, flagVars, deviceVars, accVars
<1>2. ProgramInv'
  BY <1>0 DEF ProgramInv, HwTypeOK, Running, Ending
<1>3. ChainInv'
  BY <1>0 DEF ChainInv, Device, Running, Ending
<1>4. \A d \in Device : DeviceInv(d)'
  BY DeviceFrame DEF Before, During, After, Flag, Count, Device,
         Running, Ending, Preparing, flagVars, deviceVars, accVars
<1> QED
  BY <1>1, <1>2, <1>3, <1>4

\* Constructing descriptor i ends the chain behind it.
LEMMA Constructed ==
  ASSUME HwTypeOK, NEW d \in Device, pc \notin {"register", "idle"}, built < Rows(d),
         Rows(d) \in Nat, construct_descriptor(d, built)
  PROVE  /\ DOMAIN owned' = Device
         /\ \A e \in Device : owned'[e] \in [0 .. Rows(e) -> BOOLEAN]
         /\ \A e \in Device \ {d} : owned'[e] = owned[e]
         /\ owned'[d][built] /\ ~owned'[d][built + 1]
         /\ \A i \in 0 .. Rows(d) : i \notin {built, built + 1} => owned'[d][i] = owned[d][i]
<1>1. /\ owned[d] \in [0 .. Rows(d) -> BOOLEAN] /\ DOMAIN owned = Device
      /\ built \in 0 .. Rows(d) /\ built + 1 \in 0 .. Rows(d) /\ built # built + 1
  BY DEF HwTypeOK
<1>2. owned' = [owned EXCEPT ![d] = [[owned[d] EXCEPT ![built + 1] = FALSE] EXCEPT ![built] = TRUE]]
  BY <1>1 DEF construct_descriptor
<1>3. /\ DOMAIN owned' = Device
      /\ owned'[d] = [[owned[d] EXCEPT ![built + 1] = FALSE] EXCEPT ![built] = TRUE]
      /\ \A e \in Device \ {d} : owned'[e] = owned[e]
  BY <1>1, <1>2
<1>4. \A e \in Device : owned[e] \in [0 .. Rows(e) -> BOOLEAN]
  BY DEF HwTypeOK
<1>5. owned'[d] \in [0 .. Rows(d) -> BOOLEAN]
  BY <1>1, <1>3
<1>6. owned'[d][built] /\ ~owned'[d][built + 1]
  BY <1>1, <1>3
<1>7. \A i \in 0 .. Rows(d) : i \notin {built, built + 1} => owned'[d][i] = owned[d][i]
  BY <1>1, <1>3
<1>8. \A e \in Device : owned'[e] \in [0 .. Rows(e) -> BOOLEAN]
  BY <1>3, <1>4, <1>5
<1> QED
  BY <1>3, <1>6, <1>7, <1>8

LEMMA CreateTransmitInv ==
  ASSUME HwInv, CreateTransmit
  PROVE  HwInv'
<1> USE DEF CreateTransmit, Create, At, Goto, HwInv
<1>0. /\ pc = "create_transmit" /\ job' = job /\ job \in Jobs /\ built \in Nat
      /\ job.height \in Nat /\ output_rows \in Nat /\ output_rows' = output_rows
      /\ Rows("sgdma_out") = job.height /\ Rows("sgdma_in") = output_rows
      /\ \A d \in Device : Rows(d)' = Rows(d) /\ Rows(d) \in Nat
  BY JobFacts DEF HwTypeOK, ProgramInv, Rows, RowsOf, output_rows
<1>1. CASE built < Rows("sgdma_out")
  <2>1. construct_descriptor("sgdma_out", built) /\ built' = built + 1 /\ pc' = pc
    BY <1>0, <1>1
  <2>2. /\ DOMAIN owned' = Device
        /\ \A e \in Device : owned'[e] \in [0 .. Rows(e) -> BOOLEAN]
        /\ \A e \in Device \ {"sgdma_out"} : owned'[e] = owned[e]
        /\ owned'["sgdma_out"][built] /\ ~owned'["sgdma_out"][built + 1]
        /\ \A i \in 0 .. Rows("sgdma_out") :
             i \notin {built, built + 1} => owned'["sgdma_out"][i] = owned["sgdma_out"][i]
    BY <1>0, <1>1, <2>1, Constructed DEF Device
  <2>3. HwTypeOK'
    BY <1>0, <1>1, <2>1, <2>2 DEF HwTypeOK, flagVars, deviceVars, accVars
  <2>4. ProgramInv'
    BY <1>0, <2>1 DEF ProgramInv, Running, Ending, flagVars, deviceVars, accVars
  <2>5. ChainInv'
    <3>1. /\ ~owned["sgdma_out"][Rows("sgdma_out")] /\ ~owned["sgdma_in"][Rows("sgdma_in")]
          /\ \A i \in 0 .. Rows("sgdma_out") : i < built => owned["sgdma_out"][i]
      BY <1>0 DEF ChainInv
    <3>2. \A i \in 0 .. Rows("sgdma_out") : i < built' => owned'["sgdma_out"][i]
      BY <1>0, <1>1, <2>1, <2>2, <3>1
    <3>3. ~owned'["sgdma_out"][Rows("sgdma_out")] /\ ~owned'["sgdma_in"][Rows("sgdma_in")]
      BY <1>0, <1>1, <2>2, <3>1 DEF Device
    <3> QED
      BY <1>0, <2>1, <3>2, <3>3 DEF ChainInv, Running, Ending, Device
  <2>6. \A d \in Device : DeviceInv(d)'
    BY <1>0, <2>1, DeviceFrame DEF Before, During, After, Flag, Count, flagVars, deviceVars, accVars
  <2> QED
    BY <2>3, <2>4, <2>5, <2>6
<1>2. CASE ~(built < Rows("sgdma_out"))
  <2>1. owned' = owned /\ built' = 0 /\ pc' = "create_receive"
    BY <1>0, <1>2
  <2>2. HwTypeOK'
    BY <1>0, <2>1 DEF HwTypeOK, Labels, flagVars, deviceVars, accVars
  <2>3. ProgramInv'
    BY <1>0, <2>1 DEF ProgramInv, Running, Ending, flagVars, deviceVars, accVars
  <2>4. ChainInv'
    BY <1>0, <1>2, <2>1 DEF ChainInv, Built, Running, Ending, Device, HwTypeOK
  <2>5. \A d \in Device : DeviceInv(d)'
    BY <1>0, <2>1, DeviceFrame DEF Before, During, After, Flag, Count, Running, Ending, Preparing,
           flagVars, deviceVars, accVars
  <2> QED
    BY <2>2, <2>3, <2>4, <2>5
<1> QED
  BY <1>1, <1>2

LEMMA CreateReceiveInv ==
  ASSUME HwInv, CreateReceive
  PROVE  HwInv'
<1> USE DEF CreateReceive, Create, At, Goto, HwInv
<1>0. /\ pc = "create_receive" /\ job' = job /\ job \in Jobs /\ built \in Nat
      /\ job.height \in Nat /\ output_rows \in Nat /\ output_rows' = output_rows
      /\ Rows("sgdma_out") = job.height /\ Rows("sgdma_in") = output_rows
      /\ \A d \in Device : Rows(d)' = Rows(d) /\ Rows(d) \in Nat
  BY JobFacts DEF HwTypeOK, ProgramInv, Rows, RowsOf, output_rows
<1>1. CASE built < Rows("sgdma_in")
  <2>1. construct_descriptor("sgdma_in", built) /\ built' = built + 1 /\ pc' = pc
    BY <1>0, <1>1
  <2>2. /\ DOMAIN owned' = Device
        /\ \A e \in Device : owned'[e] \in [0 .. Rows(e) -> BOOLEAN]
        /\ \A e \in Device \ {"sgdma_in"} : owned'[e] = owned[e]
        /\ owned'["sgdma_in"][built] /\ ~owned'["sgdma_in"][built + 1]
        /\ \A i \in 0 .. Rows("sgdma_in") :
             i \notin {built, built + 1} => owned'["sgdma_in"][i] = owned["sgdma_in"][i]
    BY <1>0, <1>1, <2>1, Constructed DEF Device
  <2>3. HwTypeOK'
    BY <1>0, <1>1, <2>1, <2>2 DEF HwTypeOK, flagVars, deviceVars, accVars
  <2>4. ProgramInv'
    BY <1>0, <2>1 DEF ProgramInv, Running, Ending, flagVars, deviceVars, accVars
  <2>5. ChainInv'
    <3>1. /\ Built("sgdma_out") /\ ~owned["sgdma_in"][Rows("sgdma_in")]
          /\ \A i \in 0 .. Rows("sgdma_in") : i < built => owned["sgdma_in"][i]
      BY <1>0 DEF ChainInv
    <3>2. Built("sgdma_out")'
      BY <1>0, <2>2, <3>1 DEF Built, Device
    <3>3. \A i \in 0 .. Rows("sgdma_in") : i < built' => owned'["sgdma_in"][i]
      BY <1>0, <1>1, <2>1, <2>2, <3>1
    <3>4. ~owned'["sgdma_in"][Rows("sgdma_in")]
      BY <1>0, <1>1, <2>2, <3>1
    <3> QED
      BY <1>0, <2>1, <3>2, <3>3, <3>4 DEF ChainInv, Running, Ending, Device
  <2>6. \A d \in Device : DeviceInv(d)'
    BY <1>0, <2>1, DeviceFrame DEF Before, During, After, Flag, Count, flagVars, deviceVars, accVars
  <2> QED
    BY <2>3, <2>4, <2>5, <2>6
<1>2. CASE ~(built < Rows("sgdma_in"))
  <2>1. owned' = owned /\ built' = 0 /\ pc' = "terminate"
    BY <1>0, <1>2
  <2>2. HwTypeOK'
    BY <1>0, <2>1 DEF HwTypeOK, Labels, flagVars, deviceVars, accVars
  <2>3. ProgramInv'
    BY <1>0, <2>1 DEF ProgramInv, Running, Ending, flagVars, deviceVars, accVars
  <2>4. ChainInv'
    <3>1. /\ Built("sgdma_out") /\ ~owned["sgdma_in"][Rows("sgdma_in")]
          /\ \A i \in 0 .. Rows("sgdma_in") : i < built => owned["sgdma_in"][i]
      BY <1>0 DEF ChainInv
    <3>2. Built("sgdma_in")
      BY <1>0, <1>2, <3>1 DEF Built
    <3>3. Built("sgdma_out")' /\ Built("sgdma_in")'
      BY <1>0, <2>1, <3>1, <3>2 DEF Built, Device
    <3> QED
      BY <2>1, <3>3 DEF ChainInv, Device
  <2>5. \A d \in Device : DeviceInv(d)'
    BY <1>0, <2>1, DeviceFrame DEF Before, During, After, Flag, Count, Running, Ending, Preparing,
           flagVars, deviceVars, accVars
  <2> QED
    BY <2>2, <2>3, <2>4, <2>5
<1> QED
  BY <1>1, <1>2

LEMMA TerminateInv ==
  ASSUME HwInv, Terminate
  PROVE  HwInv'
<1> USE DEF Terminate, At, Goto, HwInv
<1>0. /\ pc = "terminate" /\ pc' = "params" /\ job' = job /\ job \in Jobs /\ built = 0 /\ built' = 0
      /\ job.height \in Nat /\ output_rows \in Nat /\ output_rows' = output_rows
      /\ \A d \in Device : Rows(d)' = Rows(d) /\ Rows(d) \in Nat
  BY JobFacts DEF HwTypeOK, ProgramInv, Rows, RowsOf, output_rows
<1>1. /\ DOMAIN owned' = Device
      /\ \A d \in Device : owned'[d] = [owned[d] EXCEPT ![Rows(d)] = FALSE]
  OBVIOUS
<1>2. \A d \in Device : owned[d] \in [0 .. Rows(d) -> BOOLEAN]
  BY <1>0 DEF HwTypeOK
<1>3. \A d \in Device : owned'[d] \in [0 .. Rows(d) -> BOOLEAN]
  BY <1>1, <1>2
<1>4. HwTypeOK'
  BY <1>0, <1>1, <1>3 DEF HwTypeOK, Labels, flagVars, deviceVars, accVars
<1>5. ProgramInv'
  BY <1>0 DEF ProgramInv, Running, Ending, flagVars, deviceVars, accVars
<1>6. ASSUME NEW d \in Device PROVE Built(d)'
  <2>1. Built(d)
    BY <1>0 DEF ChainInv
  <2> QED
    BY <1>0, <1>1, <1>2, <2>1 DEF Built
<1>7. ChainInv'
  BY <1>0, <1>6 DEF ChainInv
<1>8. \A d \in Device : DeviceInv(d)'
  BY <1>0, DeviceFrame DEF Before, During, After, Flag, Count, Running, Ending, Preparing,
         flagVars, deviceVars, accVars
<1> QED
  BY <1>4, <1>5, <1>7, <1>8

LEMMA WriteParamsInv ==
  ASSUME HwInv, WriteParams
  PROVE  HwInv'
<1> USE DEF WriteParams, At, Goto, HwInv
<1>0. job' = job /\ output_rows' = output_rows /\ \A d \in Device : Rows(d)' = Rows(d)
  BY DEF Rows, RowsOf, output_rows
<1>1. HwTypeOK'
  BY <1>0 DEF HwTypeOK, Labels, ProgramInv, flagVars, deviceVars, accVars
<1>2. ProgramInv'
  BY <1>0 DEF ProgramInv, Running, Ending, flagVars, deviceVars, accVars
<1>3. ChainInv'
  BY <1>0 DEF ChainInv, Built, Running, Ending
<1>4. \A d \in Device : DeviceInv(d)'
  BY <1>0, DeviceFrame DEF Before, During, After, Flag, Count, Device, Running, Ending, Preparing,
         flagVars, deviceVars, accVars
<1> QED
  BY <1>1, <1>2, <1>3, <1>4

LEMMA StartOutInv ==
  ASSUME HwInv, StartOut
  PROVE  HwInv'
<1> USE DEF StartOut, Start, At, Goto, HwInv
<1>0. job' = job /\ output_rows' = output_rows /\ \A d \in Device : Rows(d)' = Rows(d)
  BY DEF Rows, RowsOf, output_rows
<1>1. /\ ~busy["sgdma_out"] /\ callback["sgdma_out"] /\ Count("sgdma_out") = 0 /\ Rows("sgdma_out") \in Nat \ {0}
      /\ ~irq["sgdma_out"] /\ isr # "sgdma_out" /\ Flag("sgdma_out") = 0
  BY JobFacts DEF DeviceInv, Before, Idle, Quiet, ProgramInv, HwTypeOK, Device
<1>2. /\ desc' = [desc EXCEPT !["sgdma_out"] = 0]
      /\ control' = [control EXCEPT !["sgdma_out"] = ControlBits]
      /\ busy' = busy /\ irq' = irq
  <2>1. control["sgdma_out"] \subseteq ControlBits
    BY DEF HwTypeOK, Device
  <2>2. control["sgdma_out"] \cup chain_control \cup {"RUN", "STOP_DMA_ER"} = ControlBits
    BY <2>1 DEF chain_control, ControlBits
  <2> QED
    BY <1>1, <2>2 DEF do_async_transfer
<1>3. HwTypeOK'
  BY <1>0, <1>2 DEF HwTypeOK, Labels, flagVars, accVars
<1>4. ProgramInv'
  BY <1>0, <1>2 DEF ProgramInv, Running, Ending, flagVars, accVars
<1>5. ChainInv'
  BY <1>0 DEF ChainInv, Built, Running, Ending
<1>6. DeviceInv("sgdma_out")'
  BY <1>0, <1>1, <1>2 DEF DeviceInv, Before, During, After, Walking, Flag, Count, Device, HwTypeOK,
         Running, Ending, Preparing, flagVars, accVars
<1>7. DeviceInv("sgdma_in")'
  BY <1>0, <1>2, DeviceFrame DEF HwTypeOK, Before, During, After, Flag, Count, Device, Running, Ending,
         Preparing, flagVars, accVars
<1> QED
  BY <1>3, <1>4, <1>5, <1>6, <1>7 DEF Device

LEMMA StartInInv ==
  ASSUME HwInv, StartIn
  PROVE  HwInv'
<1> USE DEF StartIn, Start, At, Goto, HwInv
<1>0. job' = job /\ output_rows' = output_rows /\ \A d \in Device : Rows(d)' = Rows(d)
  BY DEF Rows, RowsOf, output_rows
<1>1. /\ ~busy["sgdma_in"] /\ callback["sgdma_in"] /\ Count("sgdma_in") = 0 /\ Rows("sgdma_in") \in Nat \ {0}
      /\ ~irq["sgdma_in"] /\ isr # "sgdma_in" /\ Flag("sgdma_in") = 0
  BY JobFacts DEF DeviceInv, Before, Idle, Quiet, ProgramInv, HwTypeOK, Device
<1>2. /\ desc' = [desc EXCEPT !["sgdma_in"] = 0]
      /\ control' = [control EXCEPT !["sgdma_in"] = ControlBits]
      /\ busy' = busy /\ irq' = irq
  <2>1. control["sgdma_in"] \subseteq ControlBits
    BY DEF HwTypeOK, Device
  <2>2. control["sgdma_in"] \cup chain_control \cup {"RUN", "STOP_DMA_ER"} = ControlBits
    BY <2>1 DEF chain_control, ControlBits
  <2> QED
    BY <1>1, <2>2 DEF do_async_transfer
<1>3. HwTypeOK'
  BY <1>0, <1>2 DEF HwTypeOK, Labels, flagVars, accVars
<1>4. ProgramInv'
  BY <1>0, <1>2 DEF ProgramInv, Running, Ending, flagVars, accVars
<1>5. ChainInv'
  BY <1>0 DEF ChainInv, Built, Running, Ending
<1>6. DeviceInv("sgdma_in")'
  BY <1>0, <1>1, <1>2 DEF DeviceInv, Before, During, After, Walking, Flag, Count, Device, HwTypeOK,
         Running, Ending, Preparing, flagVars, accVars
<1>7. DeviceInv("sgdma_out")'
  BY <1>0, <1>2, DeviceFrame DEF HwTypeOK, Before, During, After, Flag, Count, Device, Running, Ending,
         Preparing, flagVars, accVars
<1> QED
  BY <1>3, <1>4, <1>5, <1>6, <1>7 DEF Device

LEMMA WaitTxInv ==
  ASSUME HwInv, WaitTx
  PROVE  HwInv'
<1> USE DEF WaitTx, Poll, At, Goto, HwInv
<1>0. job' = job /\ output_rows' = output_rows /\ \A d \in Device : Rows(d)' = Rows(d)
  BY DEF Rows, RowsOf, output_rows
<1>1. HwTypeOK'
  BY <1>0 DEF HwTypeOK, Labels, ProgramInv, flagVars, deviceVars, accVars
<1>2. ProgramInv'
  BY <1>0 DEF ProgramInv, HwTypeOK, Running, Ending, flagVars, deviceVars, accVars
<1>3. ChainInv'
  BY <1>0 DEF ChainInv, Built, Running, Ending
<1>4. \A d \in Device : DeviceInv(d)'
  BY <1>0, DeviceFrame DEF Before, During, After, Flag, Count, Device, Running, Ending, Preparing,
         flagVars, deviceVars, accVars
<1> QED
  BY <1>1, <1>2, <1>3, <1>4

LEMMA WaitRxInv ==
  ASSUME HwInv, WaitRx
  PROVE  HwInv'
<1> USE DEF WaitRx, Poll, At, Goto, HwInv
<1>0. job' = job /\ output_rows' = output_rows /\ \A d \in Device : Rows(d)' = Rows(d)
  BY DEF Rows, RowsOf, output_rows
<1>1. HwTypeOK'
  BY <1>0 DEF HwTypeOK, Labels, ProgramInv, flagVars, deviceVars, accVars
<1>2. ProgramInv'
  BY <1>0 DEF ProgramInv, HwTypeOK, Running, Ending, flagVars, deviceVars, accVars
<1>3. ChainInv'
  BY <1>0 DEF ChainInv, Built, Running, Ending
<1>4. \A d \in Device : DeviceInv(d)'
  BY <1>0, DeviceFrame DEF Before, During, After, Flag, Count, Device, Running, Ending, Preparing,
         flagVars, deviceVars, accVars
<1> QED
  BY <1>1, <1>2, <1>3, <1>4

LEMMA WriteCtlInv ==
  ASSUME HwInv, WriteCtl
  PROVE  HwInv'
<1> USE DEF WriteCtl, At, Goto, HwInv
<1>0. job' = job /\ output_rows' = output_rows /\ \A d \in Device : Rows(d)' = Rows(d)
  BY DEF Rows, RowsOf, output_rows
<1>1. HwTypeOK'
  BY <1>0 DEF HwTypeOK, Labels, ProgramInv, flagVars, deviceVars, accVars
<1>2. ProgramInv'
  BY <1>0 DEF ProgramInv, Running, Ending, flagVars, deviceVars, accVars
<1>3. ChainInv'
  BY <1>0 DEF ChainInv, Built, Running, Ending
<1>4. \A d \in Device : DeviceInv(d)'
  BY <1>0 DEF ProgramInv, DeviceInv, Before, During, After, Idle, Quiet, Walking, Walked, Flag, Count, Device,
         Running, Ending, Preparing, flagVars, deviceVars, accVars
<1> QED
  BY <1>1, <1>2, <1>3, <1>4

LEMMA ClearRxInv ==
  ASSUME HwInv, ClearRx
  PROVE  HwInv'
<1> USE DEF ClearRx, At, Goto, HwInv
<1>0. job' = job /\ output_rows' = output_rows /\ \A d \in Device : Rows(d)' = Rows(d)
  BY DEF Rows, RowsOf, output_rows
<1>1. HwTypeOK'
  BY <1>0 DEF HwTypeOK, Labels, ProgramInv, flagVars, deviceVars, accVars
<1>2. ProgramInv'
  BY <1>0 DEF ProgramInv, Running, Ending, flagVars, deviceVars, accVars
<1>3. ChainInv'
  BY <1>0 DEF ChainInv, Built, Running, Ending
<1>4. \A d \in Device : DeviceInv(d)'
  BY <1>0 DEF DeviceInv, Before, During, After, Idle, Quiet, Walking, Walked, Flag, Count, Device,
         Running, Ending, Preparing, flagVars, deviceVars, accVars
<1> QED
  BY <1>1, <1>2, <1>3, <1>4

LEMMA ClearTxInv ==
  ASSUME HwInv, ClearTx
  PROVE  HwInv'
<1> USE DEF ClearTx, At, Goto, HwInv
<1>0. job' = job /\ output_rows' = output_rows /\ \A d \in Device : Rows(d)' = Rows(d)
  BY DEF Rows, RowsOf, output_rows
<1>1. HwTypeOK'
  BY <1>0 DEF HwTypeOK, Labels, ProgramInv, flagVars, deviceVars, accVars
<1>2. ProgramInv'
  BY <1>0 DEF ProgramInv, Running, Ending, flagVars, deviceVars, accVars
<1>3. ChainInv'
  BY <1>0 DEF ChainInv, Built, Running, Ending
<1>4. \A d \in Device : DeviceInv(d)'
  BY <1>0 DEF DeviceInv, Before, During, After, Idle, Quiet, Walking, Walked, Flag, Count, Device,
         Running, Ending, Preparing, flagVars, deviceVars, accVars
<1> QED
  BY <1>1, <1>2, <1>3, <1>4

LEMMA StopInv ==
  ASSUME HwInv, Stop
  PROVE  HwInv'
<1> USE DEF Stop, At, Goto, HwInv
<1>0. job' = job /\ output_rows' = output_rows /\ \A d \in Device : Rows(d)' = Rows(d)
  BY DEF Rows, RowsOf, output_rows
<1>1. HwTypeOK'
  BY <1>0 DEF HwTypeOK, Labels, ProgramInv, flagVars, deviceVars, accVars
<1>2. ProgramInv'
  BY <1>0 DEF ProgramInv, Running, Ending, flagVars, deviceVars, accVars
<1>3. ChainInv'
  BY <1>0 DEF ChainInv, Built, Running, Ending
<1>4. \A d \in Device : DeviceInv(d)'
  BY <1>0 DEF DeviceInv, Before, During, After, Idle, Quiet, Walking, Walked, Flag, Count, Device,
         Running, Ending, Preparing, flagVars, deviceVars, accVars
<1> QED
  BY <1>1, <1>2, <1>3, <1>4

LEMMA FreeInv ==
  ASSUME HwInv, Free
  PROVE  HwInv'
<1> USE DEF Free, At, Goto, HwInv
<1>0. job' = job /\ output_rows' = output_rows /\ \A d \in Device : Rows(d)' = Rows(d)
  BY DEF Rows, RowsOf, output_rows
<1>1. HwTypeOK'
  BY <1>0 DEF HwTypeOK, Labels, ProgramInv, flagVars, deviceVars, accVars
<1>2. ProgramInv'
  BY <1>0 DEF ProgramInv, Running, Ending, flagVars, deviceVars, accVars
<1>3. ChainInv'
  BY <1>0 DEF ChainInv, Built, Running, Ending
<1>4. \A d \in Device : DeviceInv(d)'
  BY <1>0 DEF ProgramInv, DeviceInv, Before, During, After, Idle, Quiet, Walking, Walked, Flag, Count, Device,
         Running, Ending, Preparing, flagVars, deviceVars, accVars
<1> QED
  BY <1>1, <1>2, <1>3, <1>4

LEMMA EnterIsrInv ==
  ASSUME HwInv, NEW d \in Device, EnterIsr(d)
  PROVE  HwInv'
<1> USE DEF EnterIsr, HwInv
<1>0. job' = job /\ output_rows' = output_rows /\ \A e \in Device : Rows(e)' = Rows(e)
  BY DEF programVars, Rows, RowsOf, output_rows
<1>1. HwTypeOK'
  BY <1>0 DEF HwTypeOK, programVars, flagVars, accVars
<1>2. ProgramInv' /\ ChainInv'
  BY <1>0 DEF ProgramInv, ChainInv, Built, Device, programVars, flagVars, accVars
<1>3. \A e \in Device : DeviceInv(e)'
  BY <1>0 DEF HwTypeOK, DeviceInv, Before, During, After, Idle, Quiet, Walking, Walked, Flag, Count, Device,
         Running, Ending, Preparing, programVars, flagVars, accVars
<1> QED
  BY <1>1, <1>2, <1>3

LEMMA CallbackInv ==
  ASSUME HwInv, NEW d \in Device, Callback(d)
  PROVE  HwInv'
<1> USE DEF Callback, HwInv
<1>0. job' = job /\ output_rows' = output_rows /\ \A e \in Device : Rows(e)' = Rows(e)
  BY DEF programVars, Rows, RowsOf, output_rows
<1>1. During(d) /\ callback[d]
  BY DEF DeviceInv, Before, During, After, Idle, Quiet, Running, Ending, Preparing, ProgramInv,
         HwTypeOK, Labels, Device
<1>2. HwTypeOK'
  BY <1>0 DEF HwTypeOK, programVars, deviceVars, accVars
<1>3. ProgramInv'
  BY <1>0, <1>1 DEF ProgramInv, During, Running, Ending, HwTypeOK, programVars, deviceVars, accVars
<1>4. ChainInv'
  BY <1>0 DEF ChainInv, Built, Device, programVars
<1>5. \A e \in Device : DeviceInv(e)'
  BY <1>0, <1>1 DEF HwTypeOK, DeviceInv, Before, During, After, Idle, Quiet, Walking, Walked, Flag, Count,
         Device, Running, Ending, Preparing, programVars, deviceVars, accVars
<1> QED
  BY <1>2, <1>3, <1>4, <1>5

\* Only a device on its way through its chain has a descriptor to start with.
LEMMA OnlyWalkingStarts ==
  ASSUME HwInv, NEW d \in Device, busy[d] \/ Startable(d)
  PROVE  During(d) /\ Walking(d) /\ Built(d) /\ owned[d] \in [0 .. Rows(d) -> BOOLEAN]
<1>1. Before(d) \/ During(d) \/ After
  BY DEF HwInv, HwTypeOK, Labels, Before, During, After, Running, Ending, Preparing, Device
<1>2. ~Before(d)
  BY DEF HwInv, DeviceInv, Idle, Quiet, Startable
<1>3. Built(d) /\ owned[d] \in [0 .. Rows(d) -> BOOLEAN] /\ Rows(d) \in Nat
  BY <1>1, <1>2, JobFacts DEF HwInv, ChainInv, HwTypeOK, During, After, Running, Ending
<1>4. ~(After \/ Walked(d))
  <2> SUFFICES ASSUME After \/ Walked(d) PROVE FALSE
    OBVIOUS
  <2>1. ~busy[d] /\ desc[d] = Rows(d)
    BY DEF HwInv, DeviceInv, Quiet, Walked
  <2>2. Startable(d) /\ owned[d][Rows(d)]
    BY <2>1 DEF Startable
  <2> QED
    BY <1>3, <2>2 DEF Built
<1> QED
  BY <1>1, <1>2, <1>3, <1>4 DEF HwInv, DeviceInv

LEMMA BeginInv ==
  ASSUME HwInv, NEW d \in Device, Begin(d)
  PROVE  HwInv'
<1> USE DEF Begin, HwInv
<1>0. job' = job /\ output_rows' = output_rows /\ \A e \in Device : Rows(e)' = Rows(e)
  BY DEF programVars, Rows, RowsOf, output_rows
<1>1. During(d) /\ Walking(d)
  BY OnlyWalkingStarts
<1>2. HwTypeOK'
  BY <1>0 DEF HwTypeOK, programVars, flagVars, accVars
<1>3. ProgramInv' /\ ChainInv'
  BY <1>0 DEF ProgramInv, ChainInv, Built, Device, programVars, flagVars, accVars
<1>4. \A e \in Device : DeviceInv(e)'
  BY <1>0, <1>1 DEF HwTypeOK, DeviceInv, Before, During, After, Idle, Quiet, Walking, Walked, Flag, Count,
         Device, Running, Ending, Preparing, programVars, flagVars, accVars
<1> QED
  BY <1>2, <1>3, <1>4

LEMMA TransferInv ==
  ASSUME HwInv, NEW d \in Device, Transfer(d)
  PROVE  HwInv'
<1> USE DEF Transfer, HwInv
<1>0. job' = job /\ output_rows' = output_rows /\ \A e \in Device : Rows(e)' = Rows(e)
  BY DEF Rows, RowsOf, output_rows
<1>1. During(d) /\ Walking(d) /\ Built(d) /\ owned[d] \in [0 .. Rows(d) -> BOOLEAN]
  BY OnlyWalkingStarts
<1>2. control[d] = ControlBits /\ desc[d] = Count(d) /\ Rows(d) \in Nat /\ desc[d] \in Nat
  BY <1>1, JobFacts DEF DeviceInv, HwTypeOK
<1>3. owned' = owned
  BY <1>2 DEF ControlBits
<1>4. owned[d][desc[d] + 1] <=> desc[d] + 1 < Rows(d)
  BY <1>1, <1>2 DEF Built, Walking
<1>5. /\ busy' \in [Device -> BOOLEAN] /\ irq' \in [Device -> BOOLEAN]
      /\ busy'[d] <=> desc[d] + 1 < Rows(d)
      /\ irq'[d] <=> irq[d] \/ ~(desc[d] + 1 < Rows(d))
      /\ \A e \in Device \ {d} : busy'[e] = busy[e] /\ irq'[e] = irq[e]
  <2>1. "RUN" \in control[d] /\ {"IE_GLOBAL", "IE_CHAIN_COMPLETED"} \subseteq control[d]
    BY <1>2 DEF ControlBits
  <2>2. owned[d][desc[d] + 1] \in BOOLEAN
    BY <1>1, <1>2 DEF Walking
  <2>3. busy \in [Device -> BOOLEAN] /\ irq \in [Device -> BOOLEAN]
    BY DEF HwTypeOK
  <2> DEFINE more == owned[d][desc[d] + 1]
             done == irq[d] \/ (~more /\ {"IE_GLOBAL", "IE_CHAIN_COMPLETED"} \subseteq control[d])
             next == more /\ "RUN" \in control[d]
  <2>4. busy' = [busy EXCEPT ![d] = next] /\ irq' = [irq EXCEPT ![d] = done]
    OBVIOUS
  <2>5. /\ next \in BOOLEAN /\ (next <=> desc[d] + 1 < Rows(d))
        /\ done \in BOOLEAN /\ (done <=> irq[d] \/ ~(desc[d] + 1 < Rows(d)))
    BY <1>4, <2>1, <2>2, <2>3
  <2> HIDE DEF next, done
  <2> QED
    BY <2>3, <2>4, <2>5
<1>6. /\ in_rows' = IF d = "sgdma_out" THEN in_rows + 1 ELSE in_rows
      /\ out_rows' = IF d = "sgdma_out" THEN out_rows ELSE out_rows + 1
      /\ registers' = registers
  BY DEF Acc!Take, Acc!Deliver
<1>7. HwTypeOK'
  <2>1. desc' \in [Device -> Nat] /\ in_rows' \in Nat /\ out_rows' \in Nat
    BY <1>6 DEF HwTypeOK
  <2>2. \A e \in Device : pc' \notin {"register", "idle"} => owned'[e] \in [0 .. Rows(e)' -> BOOLEAN]
    BY <1>0, <1>3 DEF HwTypeOK
  <2> QED
    BY <1>0, <1>3, <1>5, <1>6, <2>1, <2>2 DEF HwTypeOK, flagVars
<1>8. ProgramInv' /\ ChainInv'
  BY <1>0, <1>3, <1>6 DEF ProgramInv, ChainInv, Built, Device, flagVars
<1>9. DeviceInv(d)'
  BY <1>0, <1>1, <1>2, <1>5, <1>6 DEF HwTypeOK, DeviceInv, Before, During, After, Walking, Walked, Flag,
         Count, Device, Running, Ending, Preparing, flagVars
<1>10. ASSUME NEW e \in Device, e # d PROVE DeviceInv(e)'
  BY <1>0, <1>5, <1>6, <1>10, DeviceFrame DEF HwTypeOK, Before, During, After, Flag, Count, Device,
         flagVars
<1> QED
  BY <1>7, <1>8, <1>9, <1>10

LEMMA HwStep ==
  ASSUME HwInv, [HwNext]_hwVars
  PROVE  HwInv'
<1>1. CASE Program
  BY <1>1, RegisterInv, CallInv, CreateTransmitInv, CreateReceiveInv, TerminateInv, WriteParamsInv,
     StartOutInv, StartInInv, WaitTxInv, WaitRxInv, WriteCtlInv, ClearRxInv, ClearTxInv, StopInv, FreeInv
     DEF Program
<1>2. CASE \E d \in Device : EnterIsr(d) \/ Callback(d) \/ Begin(d) \/ Transfer(d)
  BY <1>2, EnterIsrInv, CallbackInv, BeginInv, TransferInv
<1>3. CASE UNCHANGED hwVars
  <2>1. job' = job /\ output_rows' = output_rows /\ \A d \in Device : Rows(d)' = Rows(d)
    BY <1>3 DEF hwVars, programVars, Rows, RowsOf, output_rows
  <2>2. HwTypeOK' /\ ProgramInv' /\ ChainInv'
    BY <1>3, <2>1 DEF HwInv, HwTypeOK, ProgramInv, ChainInv, Built, Device, Running, Ending,
           hwVars, programVars, flagVars, deviceVars, accVars
  <2>3. \A d \in Device : DeviceInv(d)'
    BY <1>3, <2>1, DeviceFrame DEF HwInv, Before, During, After, Flag, Count, Device,
           hwVars, programVars, flagVars, deviceVars, accVars
  <2> QED
    BY <2>2, <2>3 DEF HwInv
<1> QED
  BY <1>1, <1>2, <1>3 DEF HwNext

LEMMA HwInvariant == HwSpec => []HwInv
BY HwInitInv, HwStep, PTL DEF HwSpec

\* Types, and the bounds of the descriptor loops: no element beyond the allocated chain is touched.
THEOREM HwTypeCorrect == HwSpec => []HwTypeOK
<1>1. HwInv => HwTypeOK
  BY DEF HwInv
<1> QED
  BY <1>1, HwInvariant, PTL

\* Nothing is freed under a controller at work, nor one that is about to be: only a device on its
\* way through its chain has anything to do, and the program waits for each of them.
THEOREM NoUseAfterFree == HwSpec => []MemoryAlive
<1>1. ASSUME HwInv PROVE MemoryAlive
  <2> SUFFICES ASSUME NEW d \in Device, busy[d] \/ Startable(d)
               PROVE  Blocks(d) \subseteq live
    BY DEF MemoryAlive
  <2>1. During(d)
    BY <1>1, OnlyWalkingStarts
  <2>2. live = {"output", "transmit_descriptors", "receive_descriptors"}
    BY <1>1, <2>1 DEF HwInv, ProgramInv, During, Running
  <2> QED
    BY <2>2 DEF Blocks
<1> QED
  BY <1>1, HwInvariant, PTL

\* A flag is set only by the end of the whole chain of this call.
THEOREM FlagsTellTheTruth == HwSpec => []DoneMeansDone
<1>1. ASSUME HwInv PROVE DoneMeansDone
  <2>1. \A d \in Device : Flag(d) # 0 => ~busy[d] /\ desc[d] = Rows(d)
    BY <1>1 DEF HwInv, HwTypeOK, Labels, DeviceInv, Before, During, After, Running, Ending, Preparing,
           Idle, Quiet, Walking, Walked, Device
  <2> QED
    BY <2>1 DEF DoneMeansDone, Flag, Rows, RowsOf, output_rows, Device
<1> QED
  BY <1>1, HwInvariant, PTL

\* No call meets a busy device or a left-over interrupt, so that the driver never answers EBUSY.
THEOREM NeverBusy == HwSpec => []StartsClean
<1>1. HwInv => StartsClean
  BY DEF HwInv, DeviceInv, Before, Idle, Quiet, Flag, StartsClean, Device
<1> QED
  BY <1>1, HwInvariant, PTL

\* The descriptors are freed, and the image is returned, only after its last row was written.
THEOREM ImageComplete == HwSpec => []OutputWritten
<1>1. ASSUME HwInv PROVE OutputWritten
  BY <1>1 DEF HwInv, ProgramInv, DeviceInv, During, After, Running, Ending, Walking, Walked, Quiet,
         Flag, Rows, RowsOf, output_rows, OutputWritten, Device
<1> QED
  BY <1>1, HwInvariant, PTL

\* No call has anything to do with the calls before it.
THEOREM SeparateCalls == HwSpec => []CallsAreSeparate
BY FlagsTellTheTruth, NeverBusy, ImageComplete, PTL DEF CallsAreSeparate

\* Each step of the system is a step of the accelerator, or none of it.
LEMMA HwStepUsesAccelerator ==
  ASSUME HwInv, [HwNext]_hwVars
  PROVE  [Acc!RowsNext]_(Acc!rowVars)
<1> USE DEF Acc!rowVars
<1>1. CASE WriteParams
  <2>1. in_rows = 0 /\ out_rows = 0 /\ job \in Jobs
    BY <1>1 DEF WriteParams, At, HwInv, DeviceInv, Before, Preparing, Count, Device, ProgramInv
  <2>2. Acc!Program
    BY <1>1, <2>1 DEF WriteParams, Acc!Program
  <2> QED
    BY <2>2 DEF Acc!RowsNext
<1>2. CASE WriteCtl
  <2>1. registers = job /\ job \in Jobs /\ tx_done = 1 /\ rx_done = 1
    BY <1>2 DEF WriteCtl, At, HwInv, ProgramInv, Running
  <2>2. \A d \in Device : Count(d) = Rows(d)
    BY <1>2, <2>1 DEF WriteCtl, At, HwInv, DeviceInv, During, Running, Walking, Walked, Flag, Device
  <2>3. in_rows = registers.height /\ out_rows = output_size(registers.height, registers.sy)
    BY <2>1, <2>2 DEF Count, Rows, RowsOf, Device
  <2>4. Acc!RestartRows
    BY <1>2, <2>1, <2>3 DEF WriteCtl, Acc!RestartRows, Acc!OutputComplete, Acc!out_height,
           output_size, Acc!output_size, SCALE_ONE, Acc!SCALE_ONE
  <2> QED
    BY <2>4 DEF Acc!RowsNext
<1>3. CASE \E d \in Device : Transfer(d)
  BY <1>3 DEF Transfer, Acc!RowsNext
<1>4. CASE UNCHANGED accVars
  BY <1>4 DEF accVars
<1>5. WriteParams \/ WriteCtl \/ (\E d \in Device : Transfer(d)) \/ UNCHANGED accVars
  BY DEF HwNext, Program, RegisterCallbacks, Call, CreateTransmit, CreateReceive, Create, Terminate,
         StartOut, StartIn, Start, WaitTx, WaitRx, Poll, ClearRx, ClearTx, Stop, Free, EnterIsr, Callback,
         Begin, hwVars
<1> QED
  BY <1>1, <1>2, <1>3, <1>4, <1>5

\* The program and the two controllers together keep to the protocol of the accelerator.
THEOREM DriverUsesAccelerator == HwSpec => UsesAccelerator
<1>1. HwInit => Acc!RowsInit
  BY DEF HwInit, Acc!RowsInit
<1> QED
  BY <1>1, HwInvariant, HwStepUsesAccelerator, PTL DEF HwSpec, UsesAccelerator, Acc!RowsSpec

-----------------------------------------------------------------------------
(* RAM_writer_stream *)

\* The four named parts are inductive together: that a filled RAM holds the
\* right row needs the write address to follow the source, which needs every
\* accepted pixel to be stored, which needs the order in which RAMs fill.
StreamInv ==
  /\ StreamTypeOK
  /\ PositionFollowsSource
  /\ PartialRowIntact
  /\ WindowIsConsecutive

USE DepthAssumption, StreamAssumption

\* A ready buffer has its selected RAM free (the heart of AcceptedIsStored).
LEMMA ReadyMeansFree ==
  ASSUME StreamInv, w_asi_input_data_ready
  PROVE  ~r_ram_filled[r_ram_sel]
  BY DEF StreamInv, StreamTypeOK, WindowIsConsecutive, w_asi_input_data_ready, Rams, Other

\* What one edge writes, once it is known that the selected RAM is free.
LEMMA WriteTarget ==
  ASSUME StreamInv, NEW valid \in BOOLEAN
  PROVE  \A i \in Rams : w_wr_array(valid)[i] <=> w_wr(valid) /\ i = r_ram_sel
  <1>1. w_wr(valid) => ~r_ram_filled[r_ram_sel]
    BY ReadyMeansFree DEF w_wr
  <1>2. QED
    BY <1>1 DEF w_wr_array

LEMMA InitInv == StreamInit => StreamInv
  BY DEF StreamInit, WriterInit, StreamInv, StreamTypeOK, PositionFollowsSource,
         PartialRowIntact, WindowIsConsecutive, Rams, Other

\* Every register keeps its range at an edge.
LEMMA EdgeTypeOK ==
  ASSUME StreamInv,
         NEW valid \in BOOLEAN, NEW rd \in BOOLEAN,
         NEW rd_addr \in 0 .. Width - 1, NEW ram_reset \in SUBSET Rams,
         Edge(valid, rd, rd_addr, ram_reset)
  PROVE  StreamTypeOK'
  <1> USE DEF Edge, WriterClock, StreamInv, StreamTypeOK, Rams, Other
  <1>1. Width \in Nat /\ C_RAM_DEPTH \in Nat /\ Width <= C_RAM_DEPTH /\ Height \in Nat
    OBVIOUS
  <1>2. \A i \in Rams : NextAddress(i, eop) \in 0 .. C_RAM_DEPTH - 1
    <2>1. ASSUME NEW i \in Rams, NEW a \in 0 .. C_RAM_DEPTH - 1, c_wr_addr[i] = a
          PROVE  NextAddress(i, eop) \in 0 .. C_RAM_DEPTH - 1
      BY ONLY <1>1, <2>1 DEF NextAddress
    <2>2. QED
      BY <2>1
  <1>3. (c_wr_addr \in [Rams -> 0 .. C_RAM_DEPTH - 1])'
    BY <1>2 DEF WRITE_POSITION
  <1>4. (r_ram_filled \in [Rams -> BOOLEAN])'
    BY DEF RAM_FILLED_STATUSES
  <1>5. (r_ram_sel \in Rams)'
    BY DEF RAM_SELECT
  <1>6. (c_row_count \in Nat)'
    BY DEF COUNT_ROWS
  <1>7. valid => Pixel(image, row, col) \in Nat \X Nat \X Nat
    BY <1>1 DEF Pixel
  <1>8. (memory \in [Rams -> [0 .. C_RAM_DEPTH - 1 -> (Nat \X Nat \X Nat) \cup {NoPixel}]])'
    BY <1>7 DEF WRITE_PROCESS, w_wr_array, w_wr
  <1>9. (data_out \in [Rams -> (Nat \X Nat \X Nat) \cup {NoPixel}])'
    BY <1>1 DEF READ_PROCESS
  <1>10. (image \in Nat /\ row \in 0 .. Height /\ col \in 0 .. Width - 1)'
    BY <1>1 DEF AdvanceSource, eop, w_wr, sourceVars
  <1>11. QED
    BY <1>3, <1>4, <1>5, <1>6, <1>8, <1>9, <1>10

-----------------------------------------------------------------------------
(* The window *)

\* How an edge moves the write position and the filled flags, in terms of
\* accepted = w_wr(valid) and completed = accepted /\ eop.
LEMMA EdgeMoves ==
  ASSUME StreamInv,
         NEW valid \in BOOLEAN, NEW rd \in BOOLEAN,
         NEW rd_addr \in 0 .. Width - 1, NEW ram_reset \in SUBSET Rams,
         Edge(valid, rd, rd_addr, ram_reset)
  PROVE  /\ image' = image
         /\ ~w_wr(valid) => /\ UNCHANGED <<row, col, r_ram_sel, c_wr_addr, c_row_count, memory>>
                            /\ r_ram_filled' = [i \in Rams |-> r_ram_filled[i] /\ i \notin ram_reset]
         /\ w_wr(valid) => /\ ~r_ram_filled[r_ram_sel]
                           /\ memory' = [memory EXCEPT ![r_ram_sel][col] = Pixel(image, row, col)]
         /\ w_wr(valid) /\ ~eop =>
              /\ row' = row /\ col' = col + 1 /\ r_ram_sel' = r_ram_sel
              /\ c_row_count' = c_row_count
              /\ c_wr_addr' = [c_wr_addr EXCEPT ![r_ram_sel] = col + 1]
              /\ r_ram_filled' = [i \in Rams |-> r_ram_filled[i] /\ i \notin ram_reset]
         /\ w_wr(valid) /\ eop =>
              /\ row' = row + 1 /\ col' = 0 /\ r_ram_sel' = Other(r_ram_sel)
              /\ c_row_count' = c_row_count + 1
              /\ c_wr_addr' = [c_wr_addr EXCEPT ![r_ram_sel] = 0]
              /\ r_ram_filled' = [i \in Rams |-> (r_ram_filled[i] \/ i = r_ram_sel) /\ i \notin ram_reset]
  <1> DEFINE s == r_ram_sel
  <1>1. /\ c_wr_addr \in [Rams -> 0 .. C_RAM_DEPTH - 1] /\ s \in Rams /\ col \in 0 .. Width - 1
        /\ r_ram_filled \in [Rams -> BOOLEAN] /\ row \in 0 .. Height /\ c_wr_addr[s] = col
        /\ Width \in Nat /\ C_RAM_DEPTH \in Nat /\ Width <= C_RAM_DEPTH /\ Height \in Nat
        /\ memory \in [Rams -> [0 .. C_RAM_DEPTH - 1 -> (Nat \X Nat \X Nat) \cup {NoPixel}]]
    BY DEF StreamInv, StreamTypeOK, PositionFollowsSource
  <1>2. \A i \in Rams : w_wr_array(valid)[i] <=> w_wr(valid) /\ i = s
    BY WriteTarget
  <1>3. w_wr(valid) => row < Height
    BY DEF Edge, w_wr
  <1>4. w_wr(valid) => ~r_ram_filled[s]
    BY ReadyMeansFree DEF w_wr
  <1>5. ~w_wr(valid) => UNCHANGED <<r_ram_sel, c_wr_addr, c_row_count, memory>>
    <2>1. ~w_wr(valid) => c_wr_addr' = c_wr_addr
      BY <1>1, <1>2 DEF Edge, WriterClock, WRITE_POSITION
    <2>2. ~w_wr(valid) => memory' = memory
      BY <1>1, <1>2 DEF Edge, WriterClock, WRITE_PROCESS
    <2>3. QED
      BY <1>1, <1>2, <2>1, <2>2 DEF Edge, WriterClock, RAM_SELECT, COUNT_ROWS
  <1>6. w_wr(valid) => memory' = [memory EXCEPT ![s][col] = Pixel(image, row, col)]
    BY <1>1, <1>2 DEF Edge, WriterClock, WRITE_PROCESS
  <1>7. r_ram_filled' = [i \in Rams |-> (r_ram_filled[i] \/ (w_wr(valid) /\ eop /\ i = s)) /\ i \notin ram_reset]
    BY DEF Edge, WriterClock, RAM_FILLED_STATUSES
  <1>8. w_wr(valid) /\ ~eop => NextAddress(s, eop) = col + 1
    BY <1>1, <1>3 DEF NextAddress, eop
  <1>9. w_wr(valid) /\ ~eop => c_wr_addr' = [c_wr_addr EXCEPT ![s] = col + 1]
    BY <1>1, <1>2, <1>8 DEF Edge, WriterClock, WRITE_POSITION
  <1>10. w_wr(valid) /\ eop => c_wr_addr' = [c_wr_addr EXCEPT ![s] = 0]
    BY <1>1, <1>2 DEF Edge, WriterClock, WRITE_POSITION, NextAddress
  <1>11. w_wr(valid) => /\ r_ram_sel' = (IF eop THEN Other(s) ELSE s)
                        /\ c_row_count' = (IF eop THEN c_row_count + 1 ELSE c_row_count)
    BY <1>1, <1>2 DEF Edge, WriterClock, RAM_SELECT, COUNT_ROWS
  <1>12. /\ image' = image
         /\ w_wr(valid) => /\ col' = (IF eop THEN 0 ELSE col + 1)
                           /\ row' = (IF eop THEN row + 1 ELSE row)
         /\ ~w_wr(valid) => row' = row /\ col' = col
    BY DEF Edge, AdvanceSource, sourceVars
  <1>13. QED
    BY <1>4, <1>5, <1>6, <1>7, <1>9, <1>10, <1>11, <1>12

\* The position, the partial row and the window survive an edge.
LEMMA EdgeWindow ==
  ASSUME StreamInv,
         NEW valid \in BOOLEAN, NEW rd \in BOOLEAN,
         NEW rd_addr \in 0 .. Width - 1, NEW ram_reset \in SUBSET Rams,
         Edge(valid, rd, rd_addr, ram_reset)
  PROVE  PositionFollowsSource' /\ PartialRowIntact' /\ WindowIsConsecutive'
  <1> DEFINE s == r_ram_sel
             o == Other(r_ram_sel)
  <1>1. /\ s \in Rams /\ o \in Rams /\ s # o /\ Other(o) = s /\ Rams = {s, o}
        /\ r_ram_filled \in [Rams -> BOOLEAN] /\ c_wr_addr \in [Rams -> 0 .. C_RAM_DEPTH - 1]
        /\ col \in 0 .. Width - 1 /\ row \in 0 .. Height
        /\ Width \in Nat /\ C_RAM_DEPTH \in Nat /\ Width <= C_RAM_DEPTH /\ Height \in Nat
        /\ memory \in [Rams -> [0 .. C_RAM_DEPTH - 1 -> (Nat \X Nat \X Nat) \cup {NoPixel}]]
    BY DEF StreamInv, StreamTypeOK, Rams, Other
  <1>2. /\ c_row_count = row /\ c_wr_addr[s] = col /\ c_wr_addr[o] = 0
        /\ ~r_ram_filled[s] => \A c \in 0 .. Width - 1 : c < col => memory[s][c] = Pixel(image, row, c)
        /\ r_ram_filled[o] => row >= 1 /\ \A c \in 0 .. Width - 1 : memory[o][c] = Pixel(image, row - 1, c)
        /\ r_ram_filled[s] => row >= 2 /\ \A c \in 0 .. Width - 1 : memory[s][c] = Pixel(image, row - 2, c)
        /\ r_ram_filled[s] => r_ram_filled[o] /\ col = 0
        /\ row = Height => col = 0
    BY DEF StreamInv, PositionFollowsSource, PartialRowIntact, WindowIsConsecutive, HoldsRow
  <1>3. Legal(valid, eop, ram_reset)
    BY DEF Edge
  <1>4. CASE ~w_wr(valid)
    <2>1. /\ image' = image /\ row' = row /\ col' = col /\ r_ram_sel' = s
          /\ c_wr_addr' = c_wr_addr /\ c_row_count' = c_row_count /\ memory' = memory
          /\ r_ram_filled' = [i \in Rams |-> r_ram_filled[i] /\ i \notin ram_reset]
      BY <1>4, EdgeMoves
    <2>2. PositionFollowsSource'
      BY <1>2, <2>1 DEF PositionFollowsSource
    <2>3. r_ram_filled[s] /\ ~r_ram_filled'[s] => col = 0
      BY <1>2
    <2>4. PartialRowIntact'
      BY <1>1, <1>2, <2>1, <2>3 DEF PartialRowIntact
    <2>5. r_ram_filled'[s] => r_ram_filled'[o]
      BY <1>1, <1>2, <1>3, <2>1 DEF Legal
    <2>6. WindowIsConsecutive'
      BY <1>1, <1>2, <2>1, <2>5 DEF WindowIsConsecutive, HoldsRow
    <2>7. QED
      BY <2>2, <2>4, <2>6
  <1>5. CASE w_wr(valid) /\ ~eop
    <2>1. /\ image' = image /\ row' = row /\ col' = col + 1 /\ r_ram_sel' = s
          /\ c_row_count' = c_row_count /\ c_wr_addr' = [c_wr_addr EXCEPT ![s] = col + 1]
          /\ r_ram_filled' = [i \in Rams |-> r_ram_filled[i] /\ i \notin ram_reset]
          /\ ~r_ram_filled[s] /\ memory' = [memory EXCEPT ![s][col] = Pixel(image, row, col)]
      BY <1>5, EdgeMoves
    <2>2. PositionFollowsSource'
      BY <1>1, <1>2, <1>5, <2>1 DEF PositionFollowsSource, Edge, w_wr
    <2>3. PartialRowIntact'
      BY <1>1, <1>2, <2>1 DEF PartialRowIntact, Pixel
    <2>4. WindowIsConsecutive'
      BY <1>1, <1>2, <2>1 DEF WindowIsConsecutive, HoldsRow, Pixel
    <2>5. QED
      BY <2>2, <2>3, <2>4
  <1>6. CASE w_wr(valid) /\ eop
    <2>1. /\ image' = image /\ row' = row + 1 /\ col' = 0 /\ r_ram_sel' = o
          /\ c_row_count' = c_row_count + 1 /\ c_wr_addr' = [c_wr_addr EXCEPT ![s] = 0]
          /\ r_ram_filled' = [i \in Rams |-> (r_ram_filled[i] \/ i = s) /\ i \notin ram_reset]
          /\ ~r_ram_filled[s] /\ memory' = [memory EXCEPT ![s][col] = Pixel(image, row, col)]
          /\ col = Width - 1
      BY <1>6, EdgeMoves DEF eop
    <2>2. PositionFollowsSource'
      BY <1>1, <1>2, <2>1 DEF PositionFollowsSource
    <2>3. PartialRowIntact'
      BY <1>1, <2>1 DEF PartialRowIntact
    <2>4. r_ram_filled'[o] => r_ram_filled'[s]
      BY <1>1, <1>3, <1>6, <2>1 DEF Legal
    <2>5. \A c \in 0 .. Width - 1 : memory'[s][c] = Pixel(image, row, c)
      BY <1>1, <1>2, <2>1 DEF Pixel
    <2>6. \A c \in 0 .. Width - 1 : memory'[o][c] = memory[o][c]
      BY <1>1, <2>1
    <2>7. r_ram_filled'[o] => row' >= 2 /\ \A c \in 0 .. Width - 1 : memory'[o][c] = Pixel(image, row' - 2, c)
      BY <1>1, <1>2, <2>1, <2>6 DEF Pixel
    <2>8. r_ram_filled'[s] => row' >= 1 /\ \A c \in 0 .. Width - 1 : memory'[s][c] = Pixel(image, row' - 1, c)
      BY <1>1, <2>1, <2>5 DEF Pixel
    <2>9. WindowIsConsecutive'
      BY <1>1, <2>1, <2>4, <2>7, <2>8 DEF WindowIsConsecutive, HoldsRow
    <2>10. QED
      BY <2>2, <2>3, <2>9
  <1>7. QED
    BY <1>4, <1>5, <1>6

\* The restart gives both RAMs back and moves nothing else.
LEMMA NewImageMoves ==
  ASSUME StreamInv, NewImage
  PROVE  /\ row = Height /\ image' = image + 1 /\ row' = 0 /\ col' = 0
         /\ c_row_count' = 0
         /\ UNCHANGED <<r_ram_sel, c_wr_addr, memory, data_out>>
         /\ r_ram_filled' = [i \in Rams |-> FALSE]
  <1> USE DEF NewImage, WriterClock
  <1>1. \A i \in Rams : w_wr_array(FALSE)[i] = FALSE
    BY DEF w_wr_array, w_wr
  <1>2. /\ c_wr_addr \in [Rams -> 0 .. C_RAM_DEPTH - 1] /\ r_ram_sel \in Rams
        /\ memory \in [Rams -> [0 .. C_RAM_DEPTH - 1 -> (Nat \X Nat \X Nat) \cup {NoPixel}]]
    BY DEF StreamInv, StreamTypeOK
  <1>3. UNCHANGED <<c_wr_addr, memory>>
    BY <1>1, <1>2 DEF WRITE_POSITION, WRITE_PROCESS
  <1>4. UNCHANGED <<r_ram_sel, data_out>> /\ c_row_count' = 0
    BY <1>1, <1>2 DEF RAM_SELECT, COUNT_ROWS, READ_PROCESS
  <1>5. r_ram_filled' = [i \in Rams |-> FALSE]
    BY DEF RAM_FILLED_STATUSES
  <1>6. QED
    BY <1>3, <1>4, <1>5

LEMMA NewImageInv ==
  ASSUME StreamInv, NewImage
  PROVE  StreamInv'
  <1>1. StreamTypeOK /\ PositionFollowsSource
    BY DEF StreamInv
  <1>2. /\ image' = image + 1 /\ row' = 0 /\ col' = 0 /\ c_row_count' = 0 /\ row = Height
        /\ r_ram_sel' = r_ram_sel /\ c_wr_addr' = c_wr_addr
        /\ memory' = memory /\ data_out' = data_out
        /\ r_ram_filled' = [i \in Rams |-> FALSE]
    BY NewImageMoves
  <1>3. 0 \in 0 .. Height /\ 0 \in 0 .. Width - 1 /\ 0 # Height
    OBVIOUS
  <1>4. StreamTypeOK'
    BY <1>1, <1>2, <1>3 DEF StreamTypeOK
  <1>5. PositionFollowsSource'
    BY <1>1, <1>2, <1>3 DEF PositionFollowsSource
  <1>6. PartialRowIntact'
    BY <1>2 DEF PartialRowIntact
  <1>7. WindowIsConsecutive'
    BY <1>1, <1>2 DEF WindowIsConsecutive, StreamTypeOK, Rams, Other
  <1>8. QED
    BY <1>4, <1>5, <1>6, <1>7 DEF StreamInv

LEMMA StutterInv ==
  ASSUME StreamInv, UNCHANGED streamVars
  PROVE  StreamInv'
  BY DEF StreamInv, streamVars, writerVars, sourceVars, StreamTypeOK, PositionFollowsSource,
         PartialRowIntact, WindowIsConsecutive, HoldsRow, Rams, Other

\* The strengthened invariant holds of every image size and RAM depth.
THEOREM StreamInvariant == StreamSpec => []StreamInv
  <1>1. StreamInit => StreamInv
    BY InitInv
  <1>2. StreamInv /\ [StreamNext]_streamVars => StreamInv'
    <2> SUFFICES ASSUME StreamInv, [StreamNext]_streamVars
                 PROVE  StreamInv'
      OBVIOUS
    <2>1. CASE \E valid, rd \in BOOLEAN, rd_addr \in 0 .. Width - 1, ram_reset \in SUBSET Rams :
                 Edge(valid, rd, rd_addr, ram_reset)
      BY <2>1, EdgeTypeOK, EdgeWindow DEF StreamInv
    <2>2. CASE NewImage
      BY <2>2, NewImageInv
    <2>3. CASE UNCHANGED streamVars
      BY <2>3, StutterInv
    <2>4. QED
      BY <2>1, <2>2, <2>3 DEF StreamNext
  <1>3. QED
    BY <1>1, <1>2, PTL DEF StreamSpec

\* Every register of RAM_writer.vhd stays in its declared range.
THEOREM StreamTypeCorrect == StreamSpec => []StreamTypeOK
  <1>1. StreamInv => StreamTypeOK
    BY DEF StreamInv
  <1>2. QED
    BY <1>1, StreamInvariant, PTL

\* The filled RAMs always hold consecutive complete rows of the current image,
\* the selected one the older (RAM_writer.vhd:130-196).
THEOREM WindowAlwaysConsecutive == StreamSpec => []WindowIsConsecutive
  <1>1. StreamInv => WindowIsConsecutive
    BY DEF StreamInv
  <1>2. QED
    BY <1>1, StreamInvariant, PTL

\* No pixel is accepted and lost (RAM_writer.vhd:95-101).
THEOREM NoPixelLost == StreamSpec => []AcceptedIsStored
  <1>1. StreamInv => AcceptedIsStored
    BY ReadyMeansFree DEF AcceptedIsStored, w_wr, w_wr_array, StreamInv, StreamTypeOK
  <1>2. QED
    BY <1>1, StreamInvariant, PTL

-----------------------------------------------------------------------------
(* Refinement *)

\* The double line buffer implements the sliding window of two rows.
THEOREM StreamImplementsWindow == StreamSpec => ImplementsWindow
  <1> USE DEF RowsHeld
  <1>1. StreamInit => Window!WindowInit
    <2>1. StreamInit => RowsHeld = 0 /\ row = 0 /\ image = 0
      BY DEF StreamInit, WriterInit, Rams
    <2>2. QED
      BY <2>1 DEF Window!WindowInit
  <1>2. StreamInv /\ [StreamNext]_streamVars => [Window!WindowNext]_(Window!windowVars)
    <2> SUFFICES ASSUME StreamInv, [StreamNext]_streamVars
                 PROVE  [Window!WindowNext]_(Window!windowVars)
      OBVIOUS
    <2> USE DEF Window!windowVars, Window!WindowNext
    <2>1. /\ r_ram_filled \in [Rams -> BOOLEAN] /\ r_ram_sel \in Rams
          /\ row \in 0 .. Height /\ Height \in Nat
          /\ r_ram_filled[r_ram_sel] => row >= 2 /\ r_ram_filled[Other(r_ram_sel)]
          /\ r_ram_filled[Other(r_ram_sel)] => row >= 1
      BY DEF StreamInv, StreamTypeOK, WindowIsConsecutive
    <2>2. ASSUME NEW valid \in BOOLEAN, NEW rd \in BOOLEAN,
                 NEW rd_addr \in 0 .. Width - 1, NEW ram_reset \in SUBSET Rams,
                 Edge(valid, rd, rd_addr, ram_reset)
          PROVE  [Window!WindowNext]_(Window!windowVars)
      <3>1. CASE w_wr(valid) /\ eop
        <4>1. /\ image' = image /\ row' = row + 1 /\ row < Height /\ ~r_ram_filled[r_ram_sel]
              /\ r_ram_filled' = [i \in Rams |-> (r_ram_filled[i] \/ i = r_ram_sel) /\ i \notin ram_reset]
          BY <2>2, <3>1, EdgeMoves DEF eop
        <4>2. Window!Accept
          BY <2>1, <4>1 DEF Window!Accept, Rams, Other
        <4>3. QED
          BY <4>2
      <3>2. CASE ~(w_wr(valid) /\ eop)
        <4>1. /\ image' = image /\ row' = row
              /\ r_ram_filled' = [i \in Rams |-> r_ram_filled[i] /\ i \notin ram_reset]
          BY <2>2, <3>2, EdgeMoves
        <4>2. Window!Release \/ UNCHANGED Window!windowVars
          BY <2>1, <4>1 DEF Window!Release, Rams, Other
        <4>3. QED
          BY <4>2
      <3>3. QED
        BY <3>1, <3>2
    <2>3. CASE NewImage
      <3>1. /\ row = Height /\ image' = image + 1 /\ row' = 0
            /\ RowsHeld' = 0
        BY <2>3, NewImageMoves DEF Rams
      <3>2. Window!Restart
        BY <3>1 DEF Window!Restart
      <3>3. QED
        BY <3>2
    <2>4. CASE UNCHANGED streamVars
      BY <2>4 DEF streamVars, writerVars, sourceVars
    <2>5. QED
      BY <2>2, <2>3, <2>4 DEF StreamNext
  <1>3. QED
    BY <1>1, <1>2, StreamInvariant, PTL DEF StreamSpec, ImplementsWindow, Window!WindowSpec

\* What is accepted is stored, in consecutive rows.
THEOREM RowsAreHeld == StreamSpec => []BufferHoldsRows
BY WindowAlwaysConsecutive, NoPixelLost, PTL DEF BufferHoldsRows
=============================================================================
