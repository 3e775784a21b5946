------------------------------ MODULE main_perf ------------------------------
(***************************************************************************)
(* What a job of main.c does between its segment and the deallocation, for *)
(* the performance counter: the clocks of either scaling are counted, and  *)
(* a report reads them afterwards.  Clocks pass at any time.               *)
(***************************************************************************)
EXTENDS main, altera_avalon_performance_counter

CONSTANT MaxClocks  \* Bound on the clocks that pass in a job

\* The two words of a section hold the clocks of a job.
ASSUME PerfAssumption == NumSections = 2 /\ MaxClocks \in 0 .. WORD * WORD - 1

VARIABLES
  at,      \* The next access of this job to the counter
  report,  \* What has been read: of each section the values of its registers
  spent    \* Clocks that have passed since the start, and between begin and end of each section

perfVars == <<counterVars, at, report, spent>>

\* The scalings, and saving their outputs, take clocks between these accesses.
Accesses ==
  <<PERF_RESET, PERF_START_MEASURING,
    PERF_BEGIN(1), PERF_END(1),
    PERF_BEGIN(2), PERF_END(2)>> \o perf_print_formatted_report

\* The number of accesses that have been made when a section begins and ends.
Measured(n) == IF n = 0 THEN 2 .. 6 ELSE {2 * n + 1}

NoReport == [n \in AllSections |-> [register \in 0 .. 2 |-> 0]]
NoTime == [n \in AllSections |-> 0]

\* alt_sys_init has reset the counter.
PerfInit == Init /\ ResetState /\ at = 1 /\ report = NoReport /\ spent = NoTime

Access ==
  /\ stage = "scale" /\ at <= Len(Accesses)
  /\ LET access == Accesses[at]
     IN IF Reads(access)
        THEN /\ report' = [report EXCEPT ![access.section][access.register] = Value(access)]
             /\ UNCHANGED counterVars
        ELSE Write(access) /\ UNCHANGED report
  /\ at' = at + 1
  /\ UNCHANGED <<vars, spent>>

PassClock ==
  /\ stage = "scale" /\ spent[0] < MaxClocks /\ Clock
  /\ spent' = [n \in AllSections |-> IF at - 1 \in Measured(n) THEN spent[n] + 1 ELSE spent[n]]
  /\ UNCHANGED <<vars, at, report>>

\* The outputs are allocated by the scalings; main says so in one step, when the report is printed.
ScaleAndReport == at = Len(Accesses) + 1 /\ Scale /\ UNCHANGED perfVars

NextJob == Deallocate /\ at' = 1 /\ report' = NoReport /\ spent' = NoTime /\ UNCHANGED counterVars

PerfNext ==
  \/ (get_input \/ Load \/ extract_segment) /\ UNCHANGED perfVars
  \/ Access \/ PassClock \/ ScaleAndReport \/ NextJob

PerfSpec == PerfInit /\ [][PerfNext]_<<vars, perfVars>>

-----------------------------------------------------------------------------
(* Properties *)

\* The report of a job shows the clocks its two scalings have taken and all of its clocks up to
\* the report, whole although the words are read one by one, and nothing of the jobs before.
ReportIsMeasured ==
  stage = "deallocate" =>
    \A n \in AllSections :
      /\ report[n][1] * WORD + report[n][0] = spent[n]
      /\ n # 0 => report[n][2] = 1
==============================================================================
