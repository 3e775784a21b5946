----------------------------- MODULE MC_callbacks -----------------------------
(* The two services that call back into the program from an interrupt, each  *)
(* in behaviours of its own: the clock and the SGDMA driver.  The time of    *)
(* day and the alarms have only the tick counter in common, which neither    *)
(* moves, so that either the one or the other is used.  A second has six     *)
(* microseconds and two ticks, the tick counter wraps around after two       *)
(* seconds, and the product in 32 bits before; the time is set to the end of *)
(* the first second and to the beginning of the second one.                  *)
EXTENDS alt_time, altera_avalon_sgdma

VARIABLE part

MCTimes == {[sec |-> 0, usec |-> 5], [sec |-> 1, usec |-> 1]}

\* Rows of a stream, each a packet.
MCArgs == {[kind |-> "mem_to_stream", fixed |-> FALSE, sop |-> TRUE, eop |-> TRUE]}

MCControls == {{"IE_GLOBAL", "IE_CHAIN", "IE_ERROR"}}

MCInit ==
  /\ part \in {"alarms", "time", "sgdma"}
  /\ TimeInit /\ SgdmaInit
  /\ part # "sgdma" => control = {} /\ ~busy /\ ~irq

MCNext ==
  /\ UNCHANGED part
  /\ \/ part = "alarms" /\ TimeNext /\ UNCHANGED <<sgdmaVars, alt_resettime>>
     \/ part = "time" /\ TimeNext /\ UNCHANGED <<sgdmaVars, listVars>>
     \/ part = "sgdma" /\ SgdmaNext /\ UNCHANGED timeVars

\* The fairness of TimeSpec and SgdmaSpec, in the behaviours in which they run.
MCFairness ==
  /\ WF_timeVars(part = "alarms" /\ Visit /\ UNCHANGED <<tick_rate, alt_resettime, delay>>)
  /\ \A step \in 1 .. 5 :
       WF_sgdmaVars(/\ part = "sgdma"
                    /\ \/ step = 1 /\ Call
                       \/ step = 2 /\ Irq
                       \/ step = 3 /\ Callback
                       \/ step = 4 /\ Return
                       \/ step = 5 /\ Complete)

MCSpec == MCInit /\ [][MCNext]_<<part, timeVars, sgdmaVars>> /\ MCFairness

\* Callbacks of the SGDMA driver that may start a transfer at any time.
AnyCallbackSpec ==
  MCInit /\ [][\/ MCNext
               \/ part = "sgdma" /\ CallbackInCall /\ UNCHANGED <<part, timeVars>>]_<<part, timeVars, sgdmaVars>>
===============================================================================
