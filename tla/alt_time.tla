-------------------------------- MODULE alt_time --------------------------------
(***************************************************************************)
(* The time of day over the tick counter of alt_alarm: the system clock is *)
(* registered once, settimeofday remembers when the counter was 0, and     *)
(* gettimeofday adds the counter to that.  Delays do without a clock: they *)
(* count loops.  The board has no system clock; the calls then fail.       *)
(*                                                                         *)
(* Numbers are scaled: ALT_US stands for the microseconds of a second,     *)
(* WORD for 2^32 where a product overflows, TICKS where the counter does,  *)
(* and INT_MAX bounds one run of the delay loop.                           *)
(***************************************************************************)
EXTENDS alt_alarm

CONSTANTS ALT_US, WORD, INT_MAX,
          LoopsPerUs,   \* ALT_CPU_FREQ / (cycles_per_loop * 1000000), 5 on the board
          Rates,        \* Ticks per second that a system clock may have
          Times         \* The times that are set: [sec, usec]

ASSUME TimeAssumption ==
  /\ ALT_US \in Nat \ {0} /\ WORD \in Nat \ {0} /\ LoopsPerUs \in Nat \ {0}
  /\ INT_MAX \in LoopsPerUs .. WORD - 1
  /\ Times \subseteq [sec : Nat, usec : 0 .. ALT_US - 1]
  /\ Rates \subseteq {r \in 1 .. ALT_US : ALT_US % r = 0}

VARIABLES tick_rate,      \* _alt_tick_rate
          alt_resettime,  \* [sec, usec]
          delay           \* The delay the program is in, as the set of its record [us, turns]

timeVars == <<vars, tick_rate, alt_resettime, delay>>

TimeInit == Init /\ tick_rate = 0 /\ alt_resettime = [sec |-> 0, usec |-> 0] /\ delay = {}

\* The first clock that is registered stays.
alt_sysclk_init(rate) ==
  /\ alarm = Head /\ tick_rate = 0 /\ delay = {}
  /\ tick_rate' = rate /\ UNCHANGED <<vars, alt_resettime, delay>>

usec_per_tick == ALT_US \div tick_rate

\* Microseconds behind the last full second: in 64 bits for gettimeofday, ...
Fraction == (nticks * usec_per_tick) % ALT_US

\* ... but in 32 bits for settimeofday.
Fraction32 == ((nticks * usec_per_tick) % WORD) % ALT_US

\* Mutant: the carry into the seconds is forgotten.
Normal_NoCarry(sec, usec) ==
  IF usec < 0 THEN IF sec <= 0 THEN [sec |-> 0, usec |-> 0] ELSE [sec |-> sec - 1, usec |-> usec + ALT_US]
  ELSE [sec |-> sec, usec |-> usec]

\* The two loops that bring the microseconds into a second; time does not go below 0.
Normal(sec, usec) ==
  IF usec < 0 THEN IF sec <= 0 THEN [sec |-> 0, usec |-> 0] ELSE [sec |-> sec - 1, usec |-> usec + ALT_US]
  ELSE [sec |-> sec + usec \div ALT_US, usec |-> usec % ALT_US]

\* Without a clock the call fails, and so do the others.
gettimeofday == Normal(alt_resettime.sec + nticks \div tick_rate, alt_resettime.usec + Fraction)

settimeofday(t) ==
  /\ alarm = Head /\ tick_rate # 0
  /\ alt_resettime' = [sec |-> t.sec - nticks \div tick_rate, usec |-> t.usec - Fraction32]
  /\ UNCHANGED <<vars, tick_rate, delay>>

\* The time of a process is that of the system; without a clock it is 0 and an error.
times == IF tick_rate = 0 THEN 0 ELSE nticks

-----------------------------------------------------------------------------
(* alt_busy_sleep, for the turns of its loops *)

PerLoop == INT_MAX \div LoopsPerUs
big_loops(us) == us \div PerLoop

\* A loop that ends when the counter, decremented first, is zero: with 0 it takes all words.
bne(counter) == IF counter = 0 THEN WORD ELSE counter

\* A loop that ends when the counter, decremented first, is not positive.
bgt(counter) == IF counter = 0 THEN 1 ELSE counter

\* Mutant: the rest is what a big loop has in turns, not in microseconds.
Rest_Turns(us) == us - big_loops(us) * INT_MAX

\* What is left when each of the big loops has taken its microseconds.
Rest(us) == us - big_loops(us) * PerLoop

alt_busy_sleep(us) ==
  IF big_loops(us) = 0 THEN bgt(us * LoopsPerUs)
  ELSE big_loops(us) * bne(INT_MAX) + bne(Rest(us) * LoopsPerUs)

\* The loops look at no clock and change nothing of it; they are entered here before one is
\* registered, as on the board.
usleep(us) ==
  /\ tick_rate = 0 /\ delay = {}
  /\ delay' = {[us |-> us, turns |-> alt_busy_sleep(us)]}
  /\ UNCHANGED <<vars, tick_rate, alt_resettime>>

Slept == delay # {} /\ delay' = {} /\ UNCHANGED <<vars, tick_rate, alt_resettime>>

-----------------------------------------------------------------------------

\* Alarms are started only with a clock, and only a clock ticks.
Alarms_ == tick_rate # 0 /\ Next /\ UNCHANGED <<tick_rate, alt_resettime, delay>>

TimeNext ==
  \/ Alarms_
  \/ \E rate \in Rates : alt_sysclk_init(rate)
  \/ \E t \in Times : settimeofday(t)
  \/ \E us \in 0 .. WORD - 1 : usleep(us)
  \/ Slept

TimeSpec ==
  TimeInit /\ [][TimeNext]_timeVars
  /\ WF_timeVars(Visit /\ UNCHANGED <<tick_rate, alt_resettime, delay>>)

-----------------------------------------------------------------------------
(* Properties *)

\* The time in microseconds, before it is kept from going below 0.
Raw == alt_resettime.sec * ALT_US + alt_resettime.usec + nticks * usec_per_tick
InUs(t) == t.sec * ALT_US + t.usec

\* The time that has been set is the time that is got, as long as the 32 bits of settimeofday
\* hold what the 64 bits of gettimeofday do (with a tick of a millisecond for 71 minutes after
\* the start), and from then on it goes on with each tick by the length of a tick, unless it
\* would be negative, which it is after the counter has wrapped around; it is always a time.
TimeIsKept ==
  [][/\ \A t \in Times :
          settimeofday(t) /\ nticks * usec_per_tick < WORD => gettimeofday' = t
     /\ tick_rate # 0 /\ times' = times + 1 /\ Raw >= 0 =>
          InUs(gettimeofday') = InUs(gettimeofday) + usec_per_tick
     /\ tick_rate # 0 => gettimeofday.usec \in 0 .. ALT_US - 1]_timeVars

\* A delay takes the turns that were asked for, unless nothing is left after the big loops: then it
\* takes all words more, which the board needs 13 minutes for.
Delays ==
  \A d \in delay :
    big_loops(d.us) = 0 \/ Rest(d.us) # 0 =>
      d.turns \in d.us * LoopsPerUs .. d.us * LoopsPerUs + big_loops(d.us) * (LoopsPerUs - 1) + 1
=================================================================================
