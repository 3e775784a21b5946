------------------------------- MODULE alt_alarm -------------------------------
(***************************************************************************)
(* The alarms of the HAL: start and stop, called by the program or by a    *)
(* callback, and alt_tick, which the interrupt of a system clock runs.     *)
(* start and stop disable interrupts, so that only the callbacks alt_tick  *)
(* calls come in between its steps.  The list is modelled by its pointers, *)
(* and the tick counter wraps around at TICKS, which is 2^32 in the code.  *)
(***************************************************************************)
EXTENDS Integers

CONSTANTS Alarms, Head,  \* What is in alt_alarm_list, and its head
          TICKS,
          Longest        \* Bound on the ticks an alarm is started with

\* An alarm of TICKS - 1 ticks, which is 2^32 - 1, would be called at once: its time, one tick
\* later, is the present one.
ASSUME AlarmAssumption ==
  /\ Head \notin Alarms /\ TICKS \in Nat \ {0, 1}
  /\ Longest \in 0 .. TICKS - 2

VARIABLES
  nticks,         \* _alt_nticks
  next, previous, \* The pointers of the list
  time, rollover, \* Of each alarm
  alarm, next_,   \* Local variables of alt_tick; alarm is Head while it does not run
  registered,     \* Alarms that have been started and neither stopped nor finished
  due             \* Ticks until each of them is to be called

listVars == <<next, previous>>
vars == <<nticks, listVars, time, rollover, alarm, next_, registered, due>>

Init ==
  /\ nticks = 0 /\ alarm = Head /\ next_ = Head /\ registered = {}
  /\ next = [x \in Alarms \cup {Head} |-> x] /\ previous = [x \in Alarms \cup {Head} |-> x]
  /\ time = [a \in Alarms |-> 0] /\ rollover = [a \in Alarms |-> FALSE] /\ due = [a \in Alarms |-> 0]

-----------------------------------------------------------------------------
(* alt_llist_insert, alt_llist_remove, for the pointers as they are after the call *)

Inserted(a) ==
  /\ next' = [next EXCEPT ![a] = next[Head], ![Head] = a]
  /\ previous' = [previous EXCEPT ![a] = Head, ![next[Head]] = a]

\* The entry points to itself afterwards, so that it can be removed again.
Removed(a) ==
  /\ next' = [next EXCEPT ![previous[a]] = next[a], ![a] = a]
  /\ previous' = [previous EXCEPT ![next[a]] = previous[a], ![a] = a]

-----------------------------------------------------------------------------
(* alt_alarm_start, alt_alarm_stop *)

\* The time lies behind a roll-over of the counter.
StartRollover(at) == at < nticks

\* An alarm that is in the list already must not be started.
alt_alarm_start(a, ticks) ==
  /\ a \notin registered
  /\ LET at == (ticks + nticks + 1) % TICKS
     IN time' = [time EXCEPT ![a] = at] /\ rollover' = [rollover EXCEPT ![a] = StartRollover(at)]
  /\ Inserted(a)
  /\ registered' = registered \cup {a} /\ due' = [due EXCEPT ![a] = ticks + 1]

alt_alarm_stop(a) ==
  /\ Removed(a) /\ registered' = registered \ {a}
  /\ UNCHANGED <<time, rollover, due>>

Start(a, ticks) == alarm = Head /\ alt_alarm_start(a, ticks) /\ UNCHANGED <<nticks, alarm, next_>>
Stop(a) == alarm = Head /\ alt_alarm_stop(a) /\ UNCHANGED <<nticks, alarm, next_>>

-----------------------------------------------------------------------------
(* alt_tick *)

\* Without alarms there is nothing more to do.
Tick ==
  /\ alarm = Head
  /\ nticks' = (nticks + 1) % TICKS
  /\ alarm' = next[Head] /\ next_' = next[next[Head]]
  /\ due' = [a \in Alarms |-> IF a \in registered THEN due[a] - 1 ELSE due[a]]
  /\ UNCHANGED <<listVars, time, rollover, registered>>

StillRollover(a) == rollover[a] /\ nticks # 0

Expired(a) == time[a] <= nticks /\ ~StillRollover(a)

\* Mutant: the next alarm is read from the list after the callback.
Advance_After == alarm' = next'[alarm] /\ next_' = next'[alarm]

\* On to the alarm that was next when this one was looked at.
Advance == alarm' = next_ /\ next_' = IF next_ = Head THEN Head ELSE next'[next_]

NotYet ==
  /\ alarm # Head /\ ~Expired(alarm)
  /\ rollover' = [rollover EXCEPT ![alarm] = StillRollover(alarm)]
  /\ UNCHANGED <<nticks, listVars, time, registered, due>> /\ Advance

\* Mutant: the next time is not looked at for a roll-over.
Rearms_NoRollover(a, ticks) ==
  /\ time' = [time EXCEPT ![a] = (@ + ticks) % TICKS]
  /\ rollover' = [rollover EXCEPT ![a] = FALSE]

Rearms(a, ticks) ==
  LET at == (time[a] + ticks) % TICKS
  IN /\ time' = [time EXCEPT ![a] = at]
     /\ rollover' = [rollover EXCEPT ![a] = at < nticks]

\* The callback asks to be called again; it may have stopped an alarm, itself among them. It
\* must not have stopped the next one, which alt_tick goes on to and would not come back from.
CallAgain(ticks) ==
  /\ alarm # Head /\ Expired(alarm) /\ Rearms(alarm, ticks)
  /\ due' = [due EXCEPT ![alarm] = ticks]
  /\ \/ UNCHANGED <<listVars, registered>>
     \/ \E a \in Alarms \ {next_} : Removed(a) /\ registered' = registered \ {a}
  /\ UNCHANGED nticks /\ Advance

\* The callback starts another alarm, which is not looked at in this tick, and asks to be called again.
CallStarts(ticks) ==
  /\ alarm # Head /\ Expired(alarm)
  /\ \E a \in Alarms \ (registered \cup {alarm}), first \in 0 .. Longest :
       LET at == (first + nticks + 1) % TICKS
           again == (time[alarm] + ticks) % TICKS
       IN /\ time' = [time EXCEPT ![a] = at, ![alarm] = again]
          /\ rollover' = [rollover EXCEPT ![a] = StartRollover(at), ![alarm] = again < nticks]
          /\ Inserted(a) /\ registered' = registered \cup {a}
          /\ due' = [due EXCEPT ![a] = first + 1, ![alarm] = ticks]
  /\ UNCHANGED nticks /\ Advance

\* The callback returns 0, which stops its alarm.
CallLast ==
  /\ alarm # Head /\ Expired(alarm)
  /\ rollover' = [rollover EXCEPT ![alarm] = FALSE]
  /\ Removed(alarm) /\ registered' = registered \ {alarm}
  /\ UNCHANGED <<nticks, time, due>> /\ Advance

Visit == NotYet \/ CallLast \/ \E ticks \in 1 .. TICKS - 1 : CallAgain(ticks) \/ CallStarts(ticks)

Next ==
  \/ \E a \in Alarms : Stop(a) \/ \E ticks \in 0 .. Longest : Start(a, ticks)
  \/ Tick \/ Visit

\* The interrupt routine goes on once it has begun.
Spec == Init /\ [][Next]_vars /\ WF_vars(Visit)

-----------------------------------------------------------------------------
(* Properties *)

Entries == registered \cup {Head}

AlarmTypeOK ==
  /\ nticks \in 0 .. TICKS - 1 /\ {alarm, next_} \subseteq Alarms \cup {Head}
  /\ time \in [Alarms -> 0 .. TICKS - 1] /\ rollover \in [Alarms -> BOOLEAN]
  /\ registered \subseteq Alarms /\ due \in [Alarms -> -1 .. TICKS]

\* The list holds the registered alarms: its pointers agree in both directions, and what has been
\* stopped, even twice or by a callback, points to itself.
ListIsRegistered ==
  \A x \in Alarms \cup {Head} :
    /\ previous[next[x]] = x /\ next[previous[x]] = x
    /\ IF x \in Entries THEN next[x] \in Entries ELSE next[x] = x

\* An alarm is called when it is due, and not before: between two ticks every registered alarm
\* still has ticks to wait, around a roll-over of the counter too, and the flag "will prevent the
\* subsequent tick event from causing an alarm too early".
CalledWhenDue ==
  /\ alarm = Head => \A a \in registered : due[a] > 0
  /\ alarm \in registered /\ Expired(alarm) => due[alarm] <= 0

\* alt_tick comes to the end of the list.
TickEnds == alarm # Head ~> alarm = Head

\* The list is whole whatever callbacks do to it, and its alarms are called in time.
AlarmsKept == AlarmTypeOK /\ ListIsRegistered /\ CalledWhenDue
===============================================================================
