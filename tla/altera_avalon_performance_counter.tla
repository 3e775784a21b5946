------------------ MODULE altera_avalon_performance_counter ------------------
(***************************************************************************)
(* The performance counter unit as the driver uses it: sections that count *)
(* clocks in two words while they run, and only while section 0, the total *)
(* time, runs.  A report reads the words one by one.                       *)
(***************************************************************************)
EXTENDS Integers, Sequences

CONSTANTS NumSections, WORD  \* WORD stands for 2^32

ASSUME CounterAssumption == NumSections \in Nat /\ WORD \in Nat \ {0, 1}

VARIABLES clocks, running, starts  \* Of each section

counterVars == <<clocks, running, starts>>

AllSections == 0 .. NumSections

ResetState ==
  /\ clocks = [n \in AllSections |-> 0]
  /\ running = [n \in AllSections |-> FALSE]
  /\ starts = [n \in AllSections |-> 0]

-----------------------------------------------------------------------------
(* The accesses of a program: to the registers of section n, which follow register 4n *)

IOWR(n, register, data) == [section |-> n, register |-> register, data |-> data]
IORD(n, register) == [section |-> n, register |-> register]

PERF_BEGIN(n) == IOWR(n, 1, 0)
PERF_END(n) == IOWR(n, 0, 0)
PERF_RESET == IOWR(0, 0, 1)

\* Mutant: the registers that begin and end are exchanged.
PERF_STOP_Begin == PERF_BEGIN(0)

PERF_STOP_MEASURING == PERF_END(0)
PERF_START_MEASURING == PERF_BEGIN(0)

\* The program stops measuring before it reads the two words of a section.
perf_get_section_time(n) == <<PERF_STOP_MEASURING, IORD(n, 0), IORD(n, 1)>>
perf_get_total_time == perf_get_section_time(0)
perf_get_num_starts(n) == <<IORD(n, 2)>>

\* The accesses of perf_print_formatted_report, which are those of its version for the small
\* library too: four for each section.
SectionReport(n) == perf_get_section_time(n) \o perf_get_num_starts(n)
SectionReports == [i \in 1 .. 4 * NumSections |-> SectionReport((i - 1) \div 4 + 1)[((i - 1) % 4) + 1]]

perf_print_formatted_report == <<PERF_STOP_MEASURING>> \o perf_get_total_time \o SectionReports

-----------------------------------------------------------------------------
(* The unit *)

Reads(access) == "data" \notin DOMAIN access
Resets(access) == ~Reads(access) /\ access.section = 0 /\ access.register = 0 /\ access.data = 1
Begins(access) == ~Reads(access) /\ access.register = 1
Ends(access) == ~Reads(access) /\ access.register = 0 /\ ~Resets(access)

Write(access) ==
  \/ /\ Resets(access)
     /\ clocks' = [n \in AllSections |-> 0]
     /\ running' = [n \in AllSections |-> FALSE]
     /\ starts' = [n \in AllSections |-> 0]
  \/ /\ Begins(access)
     /\ running' = [running EXCEPT ![access.section] = TRUE]
     /\ starts' = [starts EXCEPT ![access.section] = @ + 1]
     /\ UNCHANGED clocks
  \/ /\ Ends(access)
     /\ running' = [running EXCEPT ![access.section] = FALSE]
     /\ UNCHANGED <<clocks, starts>>

\* The low word, the high word, and the times the section has been begun.
Value(access) ==
  LET n == access.section
  IN IF access.register = 0 THEN clocks[n] % WORD
     ELSE IF access.register = 1 THEN clocks[n] \div WORD % WORD
     ELSE starts[n] % WORD

\* A clock passes.
Clock ==
  /\ running[0]
  /\ clocks' = [n \in AllSections |-> IF running[n] THEN clocks[n] + 1 ELSE clocks[n]]
  /\ UNCHANGED <<running, starts>>
==============================================================================
