------------------------------- MODULE printing -------------------------------
(* The two printf functions of the HAL together. *)
EXTENDS alt_printf, alt_log_printf

\* Both printf functions print what the C standard says of the directives they are given, whatever was
\* printed before and whatever interrupts do in between.
PrintsAsAsked == PrintedAsAsked /\ ConvertsAsAsked
===============================================================================
