----------------------------- MODULE alt_time_proofs -----------------------------
(***************************************************************************)
(* The alarms and the time of day, for any number of alarms, any width of  *)
(* the tick counter and whatever callbacks do: the list stays whole, each  *)
(* alarm is called at the tick it is due, and the time goes on with the    *)
(* ticks.                                                                  *)
(***************************************************************************)
EXTENDS alt_time, TLAPS

Nodes == Alarms \cup {Head}

\* While alt_tick runs it stands on an alarm of the list, and knows the one behind it.
TickInv ==
  /\ alarm # Head => alarm \in registered
  /\ next_ = IF alarm = Head THEN Head ELSE next[alarm]

\* The list is in an order in which the pointers lead from each alarm to the one right behind it,
\* so that it has no other cycle than the one through its head.
Ordered(pos) ==
  /\ \A x, y \in registered : pos[x] = pos[y] => x = y
  /\ next[Head] = Head => registered = {}
  /\ next[Head] # Head => \A y \in registered : pos[next[Head]] <= pos[y]
  /\ \A x \in registered :
       IF next[x] = Head THEN \A y \in registered : pos[y] <= pos[x]
       ELSE /\ pos[x] < pos[next[x]]
            /\ \A y \in registered : pos[y] <= pos[x] \/ pos[next[x]] <= pos[y]

\* Has alt_tick still to look at an alarm?
Ahead(pos, a) == alarm # Head /\ pos[alarm] <= pos[a]

\* The time of an alarm is the tick at which it is due, and the flag tells that the counter wraps
\* around before; for an alarm that is ahead it tells so for the tick before this one.
OnTime(a) ==
  IF nticks + due[a] < TICKS THEN time[a] = nticks + due[a] /\ ~rollover[a]
  ELSE time[a] = nticks + due[a] - TICKS /\ rollover[a]

Scheduled(pos, a) ==
  IF Ahead(pos, a)
  THEN /\ due[a] \in 0 .. TICKS - 2
       /\ IF nticks = 0 THEN time[a] = due[a] /\ rollover[a] ELSE OnTime(a)
  ELSE due[a] \in 1 .. TICKS - 1 /\ OnTime(a)

Types ==
  /\ AlarmTypeOK
  /\ next \in [Nodes -> Nodes] /\ previous \in [Nodes -> Nodes]

AlarmInv ==
  /\ Types /\ ListIsRegistered /\ TickInv
  /\ \E pos \in [Alarms -> Int] : Ordered(pos) /\ \A a \in registered : Scheduled(pos, a)

LEMMA ModSum ==
  ASSUME NEW n \in Nat \ {0}, NEW k \in 0 .. 2 * n - 1
  PROVE  k % n = IF k < n THEN k ELSE k - n
<1>1. k = n * (k \div n) + (k % n) /\ (k % n) \in 0 .. n - 1 /\ k \div n \in Int
  OBVIOUS
<1> DEFINE q == k \div n
<1> DEFINE r == k % n
<1>2. k = n * q + r /\ r \in 0 .. n - 1 /\ q \in Int
  BY <1>1
<1> HIDE DEF q, r
<1>3. q = 0 \/ q = 1
  BY <1>2, SMT
<1>4. CASE q = 0
  BY <1>2, <1>4, SMT DEF r
<1>5. CASE q = 1
  BY <1>2, <1>5, SMT DEF r
<1> QED
  BY <1>3, <1>4, <1>5

-----------------------------------------------------------------------------
(* The list *)

LEMMA InsertKeepsList ==
  ASSUME AlarmAssumption, Types, ListIsRegistered,
         NEW a \in Alarms \ registered, Inserted(a), registered' = registered \cup {a}
  PROVE  /\ next' \in [Nodes -> Nodes] /\ previous' \in [Nodes -> Nodes]
         /\ ListIsRegistered'
<1>1. next \in [Nodes -> Nodes] /\ previous \in [Nodes -> Nodes] /\ registered \subseteq Alarms
  BY DEF Types, AlarmTypeOK
<1>2. next' \in [Nodes -> Nodes] /\ previous' \in [Nodes -> Nodes]
  BY <1>1 DEF Inserted, Nodes
<1>3. next[a] = a /\ previous[a] = a /\ a # Head
  BY <1>1 DEF ListIsRegistered, Entries, AlarmAssumption
<1>4. next[Head] \in registered \cup {Head}
  BY <1>1 DEF ListIsRegistered, Entries
<1>5. \A x \in Nodes : next'[x] = IF x = Head THEN a ELSE IF x = a THEN next[Head] ELSE next[x]
  BY <1>1, <1>3 DEF Inserted, Nodes
<1>6. \A x \in Nodes : previous'[x] = IF x = next[Head] THEN a ELSE IF x = a THEN Head ELSE previous[x]
  BY <1>1, <1>3, <1>4 DEF Inserted, Nodes
<1>7. \A x \in Nodes : previous[next[x]] = x /\ next[previous[x]] = x
  BY DEF ListIsRegistered, Nodes
<1>8. \A x \in Nodes : IF x \in Entries THEN next[x] \in Entries ELSE next[x] = x
  BY DEF ListIsRegistered, Nodes
<1>9. ASSUME NEW x \in Nodes
      PROVE  previous'[next'[x]] = x /\ next'[previous'[x]] = x
  BY <1>1, <1>2, <1>3, <1>4, <1>5, <1>6, <1>7, <1>9 DEF Nodes
<1>10. ASSUME NEW x \in Nodes
       PROVE  IF x \in Entries' THEN next'[x] \in Entries' ELSE next'[x] = x
  BY <1>1, <1>3, <1>4, <1>5, <1>8, <1>10 DEF Nodes, Entries
<1> QED
  BY <1>2, <1>9, <1>10 DEF ListIsRegistered, Nodes

LEMMA RemoveKeepsList ==
  ASSUME AlarmAssumption, Types, ListIsRegistered,
         NEW a \in Alarms, Removed(a), registered' = registered \ {a}
  PROVE  /\ next' \in [Nodes -> Nodes] /\ previous' \in [Nodes -> Nodes]
         /\ ListIsRegistered'
         /\ \A x \in Nodes : next'[x] = IF x = a THEN a ELSE IF next[x] = a THEN next[a] ELSE next[x]
<1>1. next \in [Nodes -> Nodes] /\ previous \in [Nodes -> Nodes] /\ registered \subseteq Alarms
  BY DEF Types, AlarmTypeOK
<1>2. next' \in [Nodes -> Nodes] /\ previous' \in [Nodes -> Nodes]
  BY <1>1 DEF Removed, Nodes
<1>3. a # Head /\ a \in Nodes
  BY DEF AlarmAssumption, Nodes
<1>4. \A x \in Nodes : previous[next[x]] = x /\ next[previous[x]] = x
  BY DEF ListIsRegistered, Nodes
<1>5. \A x \in Nodes : next'[x] = IF x = a THEN a ELSE IF next[x] = a THEN next[a] ELSE next[x]
  BY <1>1, <1>3, <1>4 DEF Removed
<1>6. \A x \in Nodes : previous'[x] = IF x = a THEN a ELSE IF previous[x] = a THEN previous[a] ELSE previous[x]
  BY <1>1, <1>3, <1>4 DEF Removed
<1>7. \A x \in Nodes : IF x \in Entries THEN next[x] \in Entries ELSE next[x] = x
  BY DEF ListIsRegistered, Nodes
<1>8. ASSUME NEW x \in Nodes
      PROVE  previous'[next'[x]] = x /\ next'[previous'[x]] = x
  BY <1>1, <1>2, <1>3, <1>4, <1>5, <1>6, <1>8
<1>9. ASSUME NEW x \in Nodes
      PROVE  IF x \in Entries' THEN next'[x] \in Entries' ELSE next'[x] = x
  BY <1>1, <1>3, <1>4, <1>5, <1>7, <1>9 DEF Entries
<1> QED
  BY <1>2, <1>5, <1>8, <1>9 DEF ListIsRegistered, Nodes

\* A new alarm comes before all others.
First(pos, a) == [pos EXCEPT ![a] = IF next[Head] = Head THEN 0 ELSE pos[next[Head]] - 1]

LEMMA InsertKeepsOrder ==
  ASSUME AlarmAssumption, Types, ListIsRegistered, NEW pos \in [Alarms -> Int], Ordered(pos),
         NEW a \in Alarms \ registered, Inserted(a), registered' = registered \cup {a},
         NEW new, new = First(pos, a)
  PROVE  /\ new \in [Alarms -> Int]
         /\ \A x \in Alarms \ {a} : new[x] = pos[x]
         /\ \A x \in registered : new[a] < pos[x]
         /\ Ordered(new)'
<1>1. next \in [Nodes -> Nodes] /\ registered \subseteq Alarms /\ a \in Alarms /\ a # Head
  BY DEF Types, AlarmTypeOK, AlarmAssumption
<1>2. next[Head] \in registered \cup {Head}
  BY DEF ListIsRegistered, Entries
<1>3. \A x \in Nodes : next'[x] = IF x = Head THEN a ELSE IF x = a THEN next[Head] ELSE next[x]
  BY <1>1 DEF Inserted, Nodes
<1>4. new \in [Alarms -> Int] /\ \A x \in Alarms \ {a} : new[x] = pos[x]
  BY <1>1, <1>2 DEF First
<1>5. \A x \in registered : next[x] \in registered \cup {Head}
  BY <1>1 DEF ListIsRegistered, Entries
<1>6. \A x \in registered : x \in Alarms /\ x # Head /\ x # a /\ new[x] = pos[x] /\ pos[x] \in Int
  BY <1>1, <1>4 DEF AlarmAssumption
<1>7. new[a] = IF next[Head] = Head THEN 0 ELSE pos[next[Head]] - 1
  BY <1>1 DEF First
<1>8. \A x \in registered : new[a] < pos[x]
  BY <1>2, <1>6, <1>7 DEF Ordered
<1>9. new[a] \in Int
  BY <1>1, <1>4
<1>10. \A x, y \in registered' : new[x] = new[y] => x = y
  BY <1>6, <1>8, <1>9 DEF Ordered
<1>11. next'[Head] = a
  BY <1>3 DEF Nodes
<1>12. \A y \in registered' : new[a] <= new[y]
  BY <1>6, <1>8, <1>9
<1>13. ASSUME NEW x \in registered'
       PROVE  IF next'[x] = Head THEN \A y \in registered' : new[y] <= new[x]
              ELSE /\ new[x] < new[next'[x]]
                   /\ \A y \in registered' : new[y] <= new[x] \/ new[next'[x]] <= new[y]
  <2>1. CASE x = a
    <3>1. next'[x] = next[Head]
      BY <1>1, <1>3, <2>1 DEF Nodes
    <3> QED
      BY <1>2, <1>6, <1>8, <1>9, <2>1, <3>1 DEF Ordered
  <2>2. CASE x \in registered
    <3>1. next'[x] = next[x]
      BY <1>1, <1>3, <1>6, <2>2 DEF Nodes
    <3> QED
      BY <1>5, <1>6, <1>8, <1>9, <2>2, <3>1 DEF Ordered
  <2> QED
    BY <2>1, <2>2
<1> QED
  BY <1>1, <1>4, <1>8, <1>10, <1>11, <1>12, <1>13 DEF Ordered

LEMMA RemoveKeepsOrder ==
  ASSUME AlarmAssumption, Types, ListIsRegistered, NEW pos \in [Alarms -> Int], Ordered(pos),
         NEW a \in Alarms, Removed(a), registered' = registered \ {a}
  PROVE  Ordered(pos)'
<1>1. next \in [Nodes -> Nodes] /\ registered \subseteq Alarms /\ a # Head /\ Head \notin registered
  BY DEF Types, AlarmTypeOK, AlarmAssumption
<1>2. \A x \in Nodes : next'[x] = IF x = a THEN a ELSE IF next[x] = a THEN next[a] ELSE next[x]
  BY RemoveKeepsList
<1>3. \A x \in registered \cup {Head} : next[x] \in registered \cup {Head}
  BY <1>1 DEF ListIsRegistered, Entries
<1>4. \A x \in registered : pos[x] \in Int
  BY <1>1
<1>5. a \notin registered => next[a] = a /\ \A x \in registered \cup {Head} : next[x] # a
  BY <1>1, <1>3 DEF ListIsRegistered, Entries
<1>6. \A x \in registered \cup {Head} : x # a => next'[x] = IF next[x] = a THEN next[a] ELSE next[x]
  BY <1>1, <1>2 DEF Nodes
<1>7. next'[Head] = Head => registered' = {}
  BY <1>1, <1>3, <1>4, <1>5, <1>6 DEF Ordered
<1>8. next'[Head] # Head => \A y \in registered' : pos[next'[Head]] <= pos[y]
  BY <1>1, <1>3, <1>4, <1>5, <1>6 DEF Ordered
<1>9. ASSUME NEW x \in registered'
      PROVE  IF next'[x] = Head THEN \A y \in registered' : pos[y] <= pos[x]
             ELSE /\ pos[x] < pos[next'[x]]
                  /\ \A y \in registered' : pos[y] <= pos[x] \/ pos[next'[x]] <= pos[y]
  BY <1>1, <1>3, <1>4, <1>5, <1>6, <1>9 DEF Ordered
<1> QED
  BY <1>1, <1>7, <1>8, <1>9 DEF Ordered

-----------------------------------------------------------------------------
(* The times *)

\* A time that is reached in d ticks, and whether the counter wraps around before.
LEMMA TimeIn ==
  ASSUME AlarmAssumption, NEW n \in 0 .. TICKS - 1, NEW d \in 1 .. TICKS - 1
  PROVE  LET at == (n + d) % TICKS
         IN /\ at \in 0 .. TICKS - 1
            /\ IF n + d < TICKS THEN at = n + d /\ ~(at < n) ELSE at = n + d - TICKS /\ at < n
<1> DEFINE k == n + d
<1>1. TICKS \in Nat \ {0} /\ k \in 0 .. 2 * TICKS - 1
  BY DEF AlarmAssumption
<1> HIDE DEF k
<1>2. k % TICKS = IF k < TICKS THEN k ELSE k - TICKS
  BY <1>1, ModSum
<1>3. (n + d) % TICKS = IF n + d < TICKS THEN n + d ELSE n + d - TICKS
  BY <1>2 DEF k
<1> QED
  BY <1>1, <1>3 DEF k

\* alt_tick calls an alarm exactly when it is due; otherwise it brings its flag up to date.
LEMMA ExpiredWhenDue ==
  ASSUME AlarmAssumption, Types, NEW pos \in [Alarms -> Int],
         NEW a \in registered, Ahead(pos, a), Scheduled(pos, a)
  PROVE  /\ Expired(a) <=> due[a] = 0
         /\ Expired(a) => time[a] = nticks
         /\ ~Expired(a) =>
              /\ due[a] \in 1 .. TICKS - 2
              /\ IF nticks + due[a] < TICKS THEN time[a] = nticks + due[a] /\ ~StillRollover(a)
                 ELSE time[a] = nticks + due[a] - TICKS /\ StillRollover(a)
<1>1. /\ a \in Alarms /\ TICKS \in Nat \ {0, 1} /\ nticks \in 0 .. TICKS - 1
      /\ time[a] \in 0 .. TICKS - 1 /\ rollover[a] \in BOOLEAN
  BY DEF Types, AlarmTypeOK, AlarmAssumption
<1>2. due[a] \in 0 .. TICKS - 2 /\ IF nticks = 0 THEN time[a] = due[a] /\ rollover[a] ELSE OnTime(a)
  BY DEF Scheduled
<1>3. CASE nticks = 0
  BY <1>1, <1>2, <1>3 DEF Expired, StillRollover
<1>4. CASE nticks # 0
  BY <1>1, <1>2, <1>4 DEF Expired, StillRollover, OnTime
<1> QED
  BY <1>3, <1>4

\* From one alarm to the next: the one alt_tick stood on is behind it, the others stay as they were.
LEMMA AdvanceMoves ==
  ASSUME AlarmAssumption, Types, ListIsRegistered, TickInv, NEW pos \in [Alarms -> Int], Ordered(pos),
         alarm # Head, Advance, next' \in [Nodes -> Nodes], next_ \in registered' \cup {Head}
  PROVE  /\ TickInv' /\ {alarm', next_'} \subseteq Nodes
         /\ \A y \in registered : Ahead(pos, y)' <=> Ahead(pos, y) /\ y # alarm
<1>1. next \in [Nodes -> Nodes] /\ registered \subseteq Alarms /\ Head \notin registered
  BY DEF Types, AlarmTypeOK, AlarmAssumption
<1>2. alarm \in registered /\ next_ = next[alarm]
  BY DEF TickInv
<1>3. next_ \in registered \cup {Head}
  BY <1>1, <1>2 DEF ListIsRegistered, Entries
<1>4. TickInv' /\ {alarm', next_'} \subseteq Nodes
  BY <1>1, <1>3 DEF Advance, TickInv, Nodes
<1>5. \A y \in registered : pos[y] \in Int
  BY <1>1
<1>6. ASSUME NEW y \in registered
      PROVE  (alarm' # Head /\ pos[alarm'] <= pos[y]) <=> (pos[alarm] <= pos[y] /\ y # alarm)
  <2>1. alarm' = next[alarm]
    BY <1>2 DEF Advance
  <2> QED
    BY <1>2, <1>3, <1>5, <1>6, <2>1 DEF Ordered
<1> QED
  BY <1>4, <1>6 DEF Ahead

-----------------------------------------------------------------------------
(* Every step keeps the invariant *)

LEMMA AlarmInit == ASSUME AlarmAssumption, Init PROVE AlarmInv
<1> DEFINE pos == [a \in Alarms |-> 0]
<1>1. Types /\ TickInv
  BY DEF AlarmAssumption, Init, Types, AlarmTypeOK, TickInv, Nodes
<1>2. ListIsRegistered
  BY DEF Init, ListIsRegistered, Entries
<1>3. pos \in [Alarms -> Int] /\ Ordered(pos) /\ \A a \in registered : Scheduled(pos, a)
  BY DEF Init, Ordered
<1> QED
  BY <1>1, <1>2, <1>3 DEF AlarmInv

LEMMA StartKeeps ==
  ASSUME AlarmAssumption, AlarmInv, NEW a \in Alarms, NEW ticks \in 0 .. Longest, Start(a, ticks)
  PROVE  AlarmInv'
<1>1. PICK pos \in [Alarms -> Int] : Ordered(pos) /\ \A x \in registered : Scheduled(pos, x)
  BY DEF AlarmInv
<1> USE DEF AlarmInv
<1>2. /\ alarm = Head /\ a \in Alarms \ registered /\ Inserted(a) /\ registered' = registered \cup {a}
      /\ UNCHANGED <<nticks, alarm, next_>> /\ due' = [due EXCEPT ![a] = ticks + 1]
  BY DEF Start, alt_alarm_start
<1>0. PICK new : new = First(pos, a)
  OBVIOUS
<1>3. /\ next' \in [Nodes -> Nodes] /\ previous' \in [Nodes -> Nodes] /\ ListIsRegistered'
  BY <1>2, InsertKeepsList
<1>4. new \in [Alarms -> Int] /\ Ordered(new)'
  BY <1>0, <1>1, <1>2, InsertKeepsOrder
<1>5. TickInv'
  BY <1>2 DEF TickInv
<1>6. /\ ticks + 1 \in 1 .. TICKS - 1 /\ nticks \in 0 .. TICKS - 1 /\ TICKS \in Nat \ {0, 1} /\ Longest \in Nat
      /\ registered \subseteq Alarms /\ due \in [Alarms -> -1 .. TICKS]
      /\ time \in [Alarms -> 0 .. TICKS - 1] /\ rollover \in [Alarms -> BOOLEAN]
  BY DEF Types, AlarmTypeOK, AlarmAssumption
<1> DEFINE at == (ticks + nticks + 1) % TICKS
<1>7. time' = [time EXCEPT ![a] = at] /\ rollover' = [rollover EXCEPT ![a] = at < nticks]
  BY DEF Start, alt_alarm_start, StartRollover
<1>8. /\ at \in 0 .. TICKS - 1
      /\ IF nticks + (ticks + 1) < TICKS THEN at = nticks + (ticks + 1) /\ ~(at < nticks)
         ELSE at = nticks + (ticks + 1) - TICKS /\ at < nticks
  <2>1. at = (nticks + (ticks + 1)) % TICKS
    <3>1. ticks + nticks + 1 = nticks + (ticks + 1)
      BY <1>6
    <3> QED
      BY <3>1
  <2> QED
    BY <1>6, <2>1, TimeIn
<1> HIDE DEF at
<1>9. Types'
  BY <1>2, <1>3, <1>6, <1>7, <1>8 DEF Types, AlarmTypeOK
<1>10. ASSUME NEW x \in registered' PROVE Scheduled(new, x)'
  <2>1. ~Ahead(new, x)'
    BY <1>2 DEF Ahead
  <2>2. CASE x = a
    BY <1>2, <1>6, <1>7, <1>8, <2>1, <2>2 DEF Scheduled, OnTime
  <2>3. CASE x \in registered /\ x # a
    <3>1. due'[x] = due[x] /\ time'[x] = time[x] /\ rollover'[x] = rollover[x] /\ nticks' = nticks
      BY <1>2, <1>6, <1>7, <2>3
    <3>2. due[x] \in 1 .. TICKS - 1 /\ OnTime(x)
      BY <1>1, <1>2, <2>3 DEF Scheduled, Ahead
    <3> QED
      BY <2>1, <3>1, <3>2 DEF Scheduled, OnTime
  <2> QED
    BY <1>2, <2>2, <2>3
<1> QED
  BY <1>3, <1>4, <1>5, <1>9, <1>10

LEMMA StopKeeps ==
  ASSUME AlarmAssumption, AlarmInv, NEW a \in Alarms, Stop(a)
  PROVE  AlarmInv'
<1>1. PICK pos \in [Alarms -> Int] : Ordered(pos) /\ \A x \in registered : Scheduled(pos, x)
  BY DEF AlarmInv
<1> USE DEF AlarmInv
<1>2. /\ alarm = Head /\ Removed(a) /\ registered' = registered \ {a}
      /\ UNCHANGED <<nticks, alarm, next_, time, rollover, due>>
  BY DEF Stop, alt_alarm_stop
<1>3. /\ next' \in [Nodes -> Nodes] /\ previous' \in [Nodes -> Nodes] /\ ListIsRegistered'
  BY <1>2, RemoveKeepsList
<1>4. Ordered(pos)'
  BY <1>1, <1>2, RemoveKeepsOrder
<1>5. TickInv'
  BY <1>2 DEF TickInv
<1>6. Types'
  BY <1>2, <1>3 DEF Types, AlarmTypeOK
<1>7. ASSUME NEW x \in registered' PROVE Scheduled(pos, x)'
  BY <1>1, <1>2 DEF Scheduled, Ahead, OnTime
<1> QED
  BY <1>3, <1>4, <1>5, <1>6, <1>7

LEMMA TickKeeps ==
  ASSUME AlarmAssumption, AlarmInv, Tick
  PROVE  AlarmInv'
<1>1. PICK pos \in [Alarms -> Int] : Ordered(pos) /\ \A x \in registered : Scheduled(pos, x)
  BY DEF AlarmInv
<1> USE DEF AlarmInv
<1>2. /\ alarm = Head /\ alarm' = next[Head] /\ next_' = next[next[Head]]
      /\ UNCHANGED <<next, previous, time, rollover, registered>>
      /\ due' = [a \in Alarms |-> IF a \in registered THEN due[a] - 1 ELSE due[a]]
      /\ nticks' = (nticks + 1) % TICKS
  BY DEF Tick, listVars
<1>3. /\ nticks \in 0 .. TICKS - 1 /\ TICKS \in Nat \ {0, 1} /\ registered \subseteq Alarms
      /\ due \in [Alarms -> -1 .. TICKS] /\ next \in [Nodes -> Nodes]
      /\ time \in [Alarms -> 0 .. TICKS - 1] /\ rollover \in [Alarms -> BOOLEAN]
      /\ Head \notin registered /\ Head \in Nodes
  BY DEF Types, AlarmTypeOK, AlarmAssumption, Nodes
<1>4. nticks' = IF nticks + 1 < TICKS THEN nticks + 1 ELSE 0
  <2>1. /\ (nticks + 1) % TICKS \in 0 .. TICKS - 1
        /\ IF nticks + 1 < TICKS THEN (nticks + 1) % TICKS = nticks + 1
           ELSE (nticks + 1) % TICKS = nticks + 1 - TICKS
    <3>1. 1 \in 1 .. TICKS - 1
      BY <1>3
    <3> QED
      BY <1>3, <3>1, TimeIn
  <2> QED
    BY <1>2, <1>3, <2>1
<1>5. next[Head] \in registered \cup {Head}
  BY <1>3 DEF ListIsRegistered, Entries
<1>6. ListIsRegistered' /\ Ordered(pos)'
  BY <1>1, <1>2 DEF ListIsRegistered, Entries, Ordered
<1>7. TickInv'
  BY <1>2, <1>3, <1>5 DEF TickInv
<1>8. \A x \in registered : due[x] \in 1 .. TICKS - 1 /\ OnTime(x) /\ due'[x] = due[x] - 1
  BY <1>1, <1>2, <1>3 DEF Scheduled, Ahead
<1>9. Types'
  <2>1. due' \in [Alarms -> -1 .. TICKS]
    <3>1. \A x \in Alarms : (IF x \in registered THEN due[x] - 1 ELSE due[x]) \in -1 .. TICKS
      BY <1>3, <1>8
    <3> QED
      BY <1>2, <3>1
  <2> QED
    BY <1>2, <1>3, <1>4, <2>1 DEF Types, AlarmTypeOK, Nodes
<1>10. ASSUME NEW x \in registered' PROVE Scheduled(pos, x)'
  <2>1. x \in registered /\ next[Head] # Head
    BY <1>1, <1>2 DEF Ordered
  <2>2. Ahead(pos, x)'
    BY <1>1, <1>2, <1>3, <1>5, <2>1 DEF Ahead, Ordered
  <2>3. /\ due[x] \in 1 .. TICKS - 1 /\ OnTime(x) /\ due'[x] = due[x] - 1
        /\ time'[x] = time[x] /\ rollover'[x] = rollover[x]
        /\ time[x] \in 0 .. TICKS - 1 /\ rollover[x] \in BOOLEAN
    BY <1>2, <1>3, <1>8, <2>1
  <2>4. due'[x] \in 0 .. TICKS - 2
    BY <1>3, <2>3
  <2>5. IF nticks' = 0 THEN time'[x] = due'[x] /\ rollover'[x] ELSE OnTime(x)'
    BY <1>3, <1>4, <2>3 DEF OnTime
  <2> QED
    BY <2>2, <2>4, <2>5 DEF Scheduled
<1> QED
  BY <1>6, <1>7, <1>9, <1>10

\* What holds when alt_tick looks at an alarm.
LEMMA Visited ==
  ASSUME AlarmAssumption, AlarmInv, alarm # Head,
         NEW pos \in [Alarms -> Int], \A x \in registered : Scheduled(pos, x)
  PROVE  /\ alarm \in registered /\ alarm \in Alarms /\ next_ = next[alarm]
         /\ next_ \in registered \cup {Head}
         /\ Ahead(pos, alarm) /\ (Expired(alarm) <=> due[alarm] = 0)
         /\ Expired(alarm) => time[alarm] = nticks
         /\ ~Expired(alarm) =>
              /\ due[alarm] \in 1 .. TICKS - 2
              /\ IF nticks + due[alarm] < TICKS
                 THEN time[alarm] = nticks + due[alarm] /\ ~StillRollover(alarm)
                 ELSE time[alarm] = nticks + due[alarm] - TICKS /\ StillRollover(alarm)
<1> USE DEF AlarmInv
<1>1. alarm \in registered /\ alarm \in Alarms /\ next_ = next[alarm]
  BY DEF TickInv, Types, AlarmTypeOK
<1>2. next_ \in registered \cup {Head}
  BY <1>1 DEF ListIsRegistered, Entries
<1>3. Ahead(pos, alarm)
  BY <1>1 DEF Ahead
<1> QED
  BY <1>1, <1>2, <1>3, ExpiredWhenDue

\* The other alarms stay as they were, as long as nothing of them is changed.
LEMMA OthersKeep ==
  ASSUME NEW pos \in [Alarms -> Int], NEW new \in [Alarms -> Int], NEW x,
         Scheduled(pos, x), Ahead(new, x)' <=> Ahead(pos, x), nticks' = nticks,
         due'[x] = due[x], time'[x] = time[x], rollover'[x] = rollover[x]
  PROVE  Scheduled(new, x)'
BY DEF Scheduled, OnTime

LEMMA NotYetKeeps ==
  ASSUME AlarmAssumption, AlarmInv, NotYet
  PROVE  AlarmInv'
<1>1. PICK pos \in [Alarms -> Int] : Ordered(pos) /\ \A x \in registered : Scheduled(pos, x)
  BY DEF AlarmInv
<1> USE DEF AlarmInv
<1>2. /\ alarm # Head /\ ~Expired(alarm) /\ Advance
      /\ rollover' = [rollover EXCEPT ![alarm] = StillRollover(alarm)]
      /\ UNCHANGED <<nticks, next, previous, time, registered, due>>
  BY DEF NotYet, listVars
<1>3. /\ alarm \in registered /\ alarm \in Alarms /\ next_ = next[alarm]
      /\ next_ \in registered \cup {Head}
      /\ due[alarm] \in 1 .. TICKS - 2
      /\ IF nticks + due[alarm] < TICKS
         THEN time[alarm] = nticks + due[alarm] /\ ~StillRollover(alarm)
         ELSE time[alarm] = nticks + due[alarm] - TICKS /\ StillRollover(alarm)
  BY <1>1, <1>2, Visited
<1>4. /\ registered \subseteq Alarms /\ next \in [Nodes -> Nodes] /\ rollover \in [Alarms -> BOOLEAN]
      /\ nticks \in 0 .. TICKS - 1 /\ TICKS \in Nat \ {0, 1}
  BY DEF Types, AlarmTypeOK, AlarmAssumption
<1>5. next' \in [Nodes -> Nodes] /\ next_ \in registered' \cup {Head}
  BY <1>2, <1>3, <1>4
<1>6. /\ TickInv' /\ {alarm', next_'} \subseteq Nodes
      /\ \A y \in registered : Ahead(pos, y)' <=> Ahead(pos, y) /\ y # alarm
  BY <1>1, <1>2, <1>5, AdvanceMoves
<1>7. ListIsRegistered' /\ Ordered(pos)'
  BY <1>1, <1>2 DEF ListIsRegistered, Entries, Ordered
<1>8. StillRollover(alarm) \in BOOLEAN
  BY <1>3, <1>4 DEF StillRollover
<1>9. Types'
  BY <1>2, <1>4, <1>6, <1>8 DEF Types, AlarmTypeOK, Nodes
<1>10. ASSUME NEW x \in registered' PROVE Scheduled(pos, x)'
  <2>1. CASE x = alarm
    <3>1. ~Ahead(pos, x)'
      BY <1>3, <1>6, <2>1
    <3>2. rollover'[x] = StillRollover(alarm) /\ due'[x] = due[alarm] /\ time'[x] = time[alarm] /\ nticks' = nticks
      BY <1>2, <1>3, <1>4, <2>1
    <3> QED
      BY <1>3, <1>4, <3>1, <3>2 DEF Scheduled, OnTime
  <2>2. CASE x # alarm
    <3>1. rollover'[x] = rollover[x]
      BY <1>2, <1>3, <1>4, <2>2
    <3> QED
      BY <1>1, <1>2, <1>6, <2>2, <3>1, OthersKeep
  <2> QED
    BY <2>1, <2>2
<1> QED
  BY <1>6, <1>7, <1>9, <1>10

LEMMA CallLastKeeps ==
  ASSUME AlarmAssumption, AlarmInv, CallLast
  PROVE  AlarmInv'
<1>1. PICK pos \in [Alarms -> Int] : Ordered(pos) /\ \A x \in registered : Scheduled(pos, x)
  BY DEF AlarmInv
<1> USE DEF AlarmInv
<1>2. /\ alarm # Head /\ Expired(alarm) /\ Advance /\ Removed(alarm)
      /\ rollover' = [rollover EXCEPT ![alarm] = FALSE] /\ registered' = registered \ {alarm}
      /\ UNCHANGED <<nticks, time, due>>
  BY DEF CallLast
<1>3. /\ alarm \in registered /\ alarm \in Alarms /\ next_ = next[alarm]
      /\ next_ \in registered \cup {Head}
  BY <1>1, <1>2, Visited
<1>4. /\ registered \subseteq Alarms /\ next \in [Nodes -> Nodes] /\ rollover \in [Alarms -> BOOLEAN]
      /\ Head \notin registered
  BY DEF Types, AlarmTypeOK, AlarmAssumption
<1>5. next' \in [Nodes -> Nodes] /\ previous' \in [Nodes -> Nodes] /\ ListIsRegistered'
  BY <1>2, <1>3, RemoveKeepsList
<1>6. Ordered(pos)'
  BY <1>1, <1>2, <1>3, RemoveKeepsOrder
<1>7. next_ \in registered' \cup {Head}
  BY <1>1, <1>2, <1>3 DEF Ordered
<1>8. /\ TickInv' /\ {alarm', next_'} \subseteq Nodes
      /\ \A y \in registered : Ahead(pos, y)' <=> Ahead(pos, y) /\ y # alarm
  BY <1>1, <1>2, <1>5, <1>7, AdvanceMoves
<1>9. Types'
  BY <1>2, <1>4, <1>5, <1>8 DEF Types, AlarmTypeOK, Nodes
<1>10. ASSUME NEW x \in registered' PROVE Scheduled(pos, x)'
  <2>1. x \in registered /\ x # alarm
    BY <1>2
  <2>2. rollover'[x] = rollover[x]
    BY <1>2, <1>4, <2>1
  <2> QED
    BY <1>1, <1>2, <1>8, <2>1, <2>2, OthersKeep
<1> QED
  BY <1>5, <1>6, <1>8, <1>9, <1>10

\* The alarm that has been called is due again in the ticks its callback asked for.
LEMMA CalledAgain ==
  ASSUME AlarmAssumption, Types, NEW new \in [Alarms -> Int], NEW ticks \in 1 .. TICKS - 1,
         NEW x, ~Ahead(new, x)', time[x] = nticks, nticks' = nticks, due'[x] = ticks,
         time'[x] = (time[x] + ticks) % TICKS,
         rollover'[x] = ((time[x] + ticks) % TICKS < nticks)
  PROVE  Scheduled(new, x)'
<1>1. nticks \in 0 .. TICKS - 1 /\ TICKS \in Nat \ {0, 1}
  BY DEF Types, AlarmTypeOK, AlarmAssumption
<1> DEFINE at == (nticks + ticks) % TICKS
<1>2. IF nticks + ticks < TICKS THEN at = nticks + ticks /\ ~(at < nticks)
      ELSE at = nticks + ticks - TICKS /\ at < nticks
  BY <1>1, TimeIn
<1>3. time'[x] = at /\ rollover'[x] = (at < nticks)
  OBVIOUS
<1> HIDE DEF at
<1> QED
  BY <1>1, <1>2, <1>3 DEF Scheduled, OnTime

LEMMA CallAgainKeeps ==
  ASSUME AlarmAssumption, AlarmInv, NEW ticks \in 1 .. TICKS - 1, CallAgain(ticks)
  PROVE  AlarmInv'
<1>1. PICK pos \in [Alarms -> Int] : Ordered(pos) /\ \A x \in registered : Scheduled(pos, x)
  BY DEF AlarmInv
<1> USE DEF AlarmInv
<1> DEFINE at == (time[alarm] + ticks) % TICKS
<1>2. /\ alarm # Head /\ Expired(alarm) /\ Advance /\ nticks' = nticks
      /\ time' = [time EXCEPT ![alarm] = at] /\ rollover' = [rollover EXCEPT ![alarm] = at < nticks]
      /\ due' = [due EXCEPT ![alarm] = ticks]
  BY DEF CallAgain, Rearms
<1>3. /\ alarm \in registered /\ alarm \in Alarms /\ next_ = next[alarm]
      /\ next_ \in registered \cup {Head} /\ time[alarm] = nticks
  BY <1>1, <1>2, Visited
<1>4. /\ registered \subseteq Alarms /\ next \in [Nodes -> Nodes] /\ rollover \in [Alarms -> BOOLEAN]
      /\ previous \in [Nodes -> Nodes] /\ time \in [Alarms -> 0 .. TICKS - 1]
      /\ due \in [Alarms -> -1 .. TICKS] /\ nticks \in 0 .. TICKS - 1 /\ TICKS \in Nat \ {0, 1}
  BY DEF Types, AlarmTypeOK, AlarmAssumption
<1>5. at \in 0 .. TICKS - 1
  BY <1>3, <1>4, TimeIn
<1>6. /\ next' \in [Nodes -> Nodes] /\ previous' \in [Nodes -> Nodes] /\ ListIsRegistered'
      /\ Ordered(pos)' /\ registered' \subseteq registered /\ next_ \in registered' \cup {Head}
  <2>1. CASE UNCHANGED <<listVars, registered>>
    BY <1>1, <1>3, <1>4, <2>1 DEF listVars, ListIsRegistered, Entries, Ordered
  <2>2. CASE \E a \in Alarms \ {next_} : Removed(a) /\ registered' = registered \ {a}
    <3>1. PICK a \in Alarms \ {next_} : Removed(a) /\ registered' = registered \ {a}
      BY <2>2
    <3>2. next' \in [Nodes -> Nodes] /\ previous' \in [Nodes -> Nodes] /\ ListIsRegistered'
      BY <3>1, RemoveKeepsList
    <3>3. Ordered(pos)'
      BY <1>1, <3>1, RemoveKeepsOrder
    <3> QED
      BY <1>3, <3>1, <3>2, <3>3
  <2> QED
    BY <2>1, <2>2 DEF CallAgain
<1>7. /\ TickInv' /\ {alarm', next_'} \subseteq Nodes
      /\ \A y \in registered : Ahead(pos, y)' <=> Ahead(pos, y) /\ y # alarm
  BY <1>1, <1>2, <1>6, AdvanceMoves
<1>8. Types'
  <2> HIDE DEF at
  <2>1. time' \in [Alarms -> 0 .. TICKS - 1]
    BY <1>2, <1>4, <1>5
  <2> DEFINE early == at < nticks
  <2>2. rollover' \in [Alarms -> BOOLEAN]
    <3>1. early \in BOOLEAN /\ rollover' = [rollover EXCEPT ![alarm] = early]
      BY <1>2
    <3> HIDE DEF early
    <3> QED
      BY <1>4, <3>1
  <2>3. ticks \in -1 .. TICKS
    BY <1>4
  <2>4. due' \in [Alarms -> -1 .. TICKS]
    BY <1>2, <1>4, <2>3
  <2> QED
    BY <1>2, <1>4, <1>6, <1>7, <2>1, <2>2, <2>4 DEF Types, AlarmTypeOK, Nodes
<1>9. ASSUME NEW x \in registered' PROVE Scheduled(pos, x)'
  <2>1. x \in registered /\ x \in Alarms
    BY <1>4, <1>6
  <2>2. CASE x = alarm
    <3>1. ~Ahead(pos, x)'
      BY <1>3, <1>7, <2>2
    <3>2. /\ time[x] = nticks /\ due'[x] = ticks /\ time'[x] = (time[x] + ticks) % TICKS
          /\ rollover'[x] = ((time[x] + ticks) % TICKS < nticks)
      BY <1>2, <1>3, <1>4, <2>2
    <3> QED
      BY <1>2, <3>1, <3>2, CalledAgain
  <2>3. CASE x # alarm
    <3>1. rollover'[x] = rollover[x] /\ time'[x] = time[x] /\ due'[x] = due[x]
      BY <1>2, <1>4, <2>1, <2>3
    <3> QED
      BY <1>1, <1>2, <1>7, <2>1, <2>3, <3>1, OthersKeep
  <2> QED
    BY <2>2, <2>3
<1> QED
  BY <1>6, <1>7, <1>8, <1>9

LEMMA CallStartsKeeps ==
  ASSUME AlarmAssumption, AlarmInv, NEW ticks \in 1 .. TICKS - 1, CallStarts(ticks)
  PROVE  AlarmInv'
<1>1. PICK pos \in [Alarms -> Int] : Ordered(pos) /\ \A x \in registered : Scheduled(pos, x)
  BY DEF AlarmInv
<1> USE DEF AlarmInv
<1> DEFINE again == (time[alarm] + ticks) % TICKS
<1>2. PICK a \in Alarms \ (registered \cup {alarm}), first \in 0 .. Longest :
        /\ time' = [time EXCEPT ![a] = (first + nticks + 1) % TICKS, ![alarm] = again]
        /\ rollover' = [rollover EXCEPT ![a] = (first + nticks + 1) % TICKS < nticks, ![alarm] = again < nticks]
        /\ Inserted(a) /\ registered' = registered \cup {a}
        /\ due' = [due EXCEPT ![a] = first + 1, ![alarm] = ticks]
  BY DEF CallStarts, StartRollover
<1>3. alarm # Head /\ Expired(alarm) /\ Advance /\ nticks' = nticks
  BY DEF CallStarts
<1>4. /\ alarm \in registered /\ alarm \in Alarms /\ next_ = next[alarm]
      /\ next_ \in registered \cup {Head} /\ time[alarm] = nticks
  BY <1>1, <1>3, Visited
<1>5. /\ registered \subseteq Alarms /\ next \in [Nodes -> Nodes] /\ rollover \in [Alarms -> BOOLEAN]
      /\ previous \in [Nodes -> Nodes] /\ time \in [Alarms -> 0 .. TICKS - 1]
      /\ due \in [Alarms -> -1 .. TICKS] /\ nticks \in 0 .. TICKS - 1 /\ TICKS \in Nat \ {0, 1}
      /\ a \in Alarms \ registered /\ a # alarm /\ first + 1 \in 1 .. TICKS - 1 /\ Longest \in Nat
      /\ Head \notin Alarms
  BY DEF Types, AlarmTypeOK, AlarmAssumption
<1> DEFINE at == (first + nticks + 1) % TICKS
<1>6. again \in 0 .. TICKS - 1
  BY <1>4, <1>5, TimeIn
<1>7. /\ at \in 0 .. TICKS - 1
      /\ IF nticks + (first + 1) < TICKS THEN at = nticks + (first + 1) /\ ~(at < nticks)
         ELSE at = nticks + (first + 1) - TICKS /\ at < nticks
  <2>1. first + nticks + 1 = nticks + (first + 1)
    BY <1>5
  <2>2. at = (nticks + (first + 1)) % TICKS
    BY <2>1
  <2> QED
    BY <1>5, <2>2, TimeIn
<1>8. PICK new : new = First(pos, a)
  OBVIOUS
<1>9. /\ next' \in [Nodes -> Nodes] /\ previous' \in [Nodes -> Nodes] /\ ListIsRegistered'
  BY <1>2, <1>5, InsertKeepsList
<1>10. /\ new \in [Alarms -> Int] /\ Ordered(new)'
       /\ \A x \in Alarms \ {a} : new[x] = pos[x]
       /\ \A x \in registered : new[a] < pos[x]
  BY <1>1, <1>2, <1>5, <1>8, InsertKeepsOrder
<1>11. next_ \in registered' \cup {Head}
  BY <1>2, <1>4
<1>12. /\ TickInv' /\ {alarm', next_'} \subseteq Nodes
       /\ \A y \in registered : Ahead(pos, y)' <=> Ahead(pos, y) /\ y # alarm
  BY <1>1, <1>3, <1>9, <1>11, AdvanceMoves
<1>13. alarm' \in registered \cup {Head}
  BY <1>3, <1>4 DEF Advance
<1>14. (\A y \in registered : Ahead(new, y)' <=> Ahead(pos, y) /\ y # alarm) /\ ~Ahead(new, a)'
  <2>1. \A y \in registered : y \in Alarms \ {a} /\ new[y] = pos[y] /\ pos[y] \in Int
    BY <1>5, <1>10
  <2>2. \A y \in registered : Ahead(new, y)' <=> Ahead(pos, y)'
    BY <1>13, <2>1 DEF Ahead
  <2>3. ~Ahead(new, a)'
    BY <1>5, <1>10, <1>13, <2>1 DEF Ahead
  <2> QED
    BY <1>12, <2>2, <2>3
<1> HIDE DEF at
<1>15. /\ time'[a] = at /\ rollover'[a] = (at < nticks) /\ due'[a] = first + 1
       /\ time'[alarm] = again /\ rollover'[alarm] = (again < nticks) /\ due'[alarm] = ticks
       /\ \A x \in Alarms \ {a, alarm} : time'[x] = time[x] /\ rollover'[x] = rollover[x] /\ due'[x] = due[x]
  BY <1>2, <1>4, <1>5 DEF at
<1>16. Types'
  <2> HIDE DEF again
  <2>1. time' = [time EXCEPT ![a] = at, ![alarm] = again]
    BY <1>2 DEF at
  <2>2. time' \in [Alarms -> 0 .. TICKS - 1]
    BY <1>5, <1>6, <1>7, <2>1
  <2> DEFINE early == at < nticks
  <2> DEFINE late == again < nticks
  <2>3. rollover' \in [Alarms -> BOOLEAN]
    <3>1. /\ early \in BOOLEAN /\ late \in BOOLEAN
          /\ rollover' = [rollover EXCEPT ![a] = early, ![alarm] = late]
      BY <1>2 DEF at, again
    <3> HIDE DEF early, late
    <3> QED
      BY <1>5, <3>1
  <2>4. first + 1 \in -1 .. TICKS /\ ticks \in -1 .. TICKS
    BY <1>5
  <2>5. due' \in [Alarms -> -1 .. TICKS]
    BY <1>2, <1>5, <2>4
  <2> QED
    BY <1>2, <1>3, <1>5, <1>9, <1>12, <2>2, <2>3, <2>5 DEF Types, AlarmTypeOK, Nodes
<1>17. ASSUME NEW x \in registered' PROVE Scheduled(new, x)'
  <2>1. CASE x = a
    BY <1>3, <1>5, <1>7, <1>14, <1>15, <2>1 DEF Scheduled, OnTime
  <2>2. CASE x = alarm
    <3>1. ~Ahead(new, x)'
      BY <1>4, <1>14, <2>2
    <3>2. /\ time[x] = nticks /\ due'[x] = ticks /\ time'[x] = (time[x] + ticks) % TICKS
          /\ rollover'[x] = ((time[x] + ticks) % TICKS < nticks)
      BY <1>4, <1>15, <2>2
    <3> QED
      BY <1>3, <1>10, <3>1, <3>2, CalledAgain
  <2>3. CASE x \in registered /\ x # alarm
    <3>1. rollover'[x] = rollover[x] /\ time'[x] = time[x] /\ due'[x] = due[x]
      BY <1>5, <1>15, <2>3
    <3>2. Scheduled(pos, x) /\ (Ahead(new, x)' <=> Ahead(pos, x))
      BY <1>1, <1>14, <2>3
    <3> QED
      BY <1>3, <1>10, <3>1, <3>2, OthersKeep
  <2> QED
    BY <1>2, <2>1, <2>2, <2>3
<1> QED
  BY <1>9, <1>10, <1>12, <1>16, <1>17

-----------------------------------------------------------------------------
(* The theorems *)

LEMMA AlarmStep ==
  ASSUME AlarmAssumption, AlarmInv, Next PROVE AlarmInv'
<1>1. CASE \E a \in Alarms : Stop(a) \/ \E ticks \in 0 .. Longest : Start(a, ticks)
  BY <1>1, StopKeeps, StartKeeps
<1>2. CASE Tick
  BY <1>2, TickKeeps
<1>3. CASE Visit
  BY <1>3, NotYetKeeps, CallLastKeeps, CallAgainKeeps, CallStartsKeeps DEF Visit
<1> QED
  BY <1>1, <1>2, <1>3 DEF Next

LEMMA AlarmStutter ==
  ASSUME AlarmInv, UNCHANGED vars PROVE AlarmInv'
<1>1. PICK pos \in [Alarms -> Int] : Ordered(pos) /\ \A x \in registered : Scheduled(pos, x)
  BY DEF AlarmInv
<1>2. Ordered(pos)' /\ \A x \in registered' : Scheduled(pos, x)'
  BY <1>1 DEF vars, listVars, Ordered, Scheduled, Ahead, OnTime
<1>3. Types' /\ ListIsRegistered' /\ TickInv'
  BY DEF AlarmInv, vars, listVars, Types, AlarmTypeOK, ListIsRegistered, Entries, TickInv
<1> QED
  BY <1>2, <1>3 DEF AlarmInv

LEMMA AlarmInvKeeps == ASSUME AlarmAssumption, AlarmInv PROVE AlarmsKept
<1>1. PICK pos \in [Alarms -> Int] : Ordered(pos) /\ \A x \in registered : Scheduled(pos, x)
  BY DEF AlarmInv
<1>2. alarm = Head => \A a \in registered : due[a] > 0
  BY <1>1 DEF Scheduled, Ahead, AlarmAssumption
<1>3. alarm # Head => (Expired(alarm) <=> due[alarm] = 0)
  BY <1>1, Visited
<1>4. Head \notin registered
  BY DEF AlarmInv, Types, AlarmTypeOK, AlarmAssumption
<1>5. CalledWhenDue
  BY <1>2, <1>3, <1>4 DEF CalledWhenDue
<1> QED
  BY <1>5 DEF AlarmsKept, AlarmInv, Types

\* Whatever is started and stopped, by the program or by callbacks, the list holds the registered
\* alarms, and each one is called at the tick it is due (alt_tick.c, alt_alarm_start.c).
THEOREM AlarmsAreKept == Spec => []AlarmsKept
<1>1. Init => AlarmInv
  BY AlarmInit, AlarmAssumption
<1>2. AlarmInv /\ [Next]_vars => AlarmInv'
  BY AlarmStep, AlarmStutter, AlarmAssumption
<1>3. AlarmInv => AlarmsKept
  BY AlarmInvKeeps, AlarmAssumption
<1> QED
  BY <1>1, <1>2, <1>3, PTL DEF Spec

\* The alarms of a system whose time is set and got in between are kept as well.
THEOREM AlarmsAreKeptInTime == TimeSpec => []AlarmsKept
<1>1. TimeInit => AlarmInv
  BY AlarmInit, AlarmAssumption DEF TimeInit
<1>2. AlarmInv /\ [TimeNext]_timeVars => AlarmInv'
  <2> SUFFICES ASSUME AlarmInv, [TimeNext]_timeVars PROVE AlarmInv'
    OBVIOUS
  <2>1. Next \/ UNCHANGED vars
    BY DEF TimeNext, Alarms_, alt_sysclk_init, settimeofday, usleep, Slept, timeVars
  <2> QED
    BY <2>1, AlarmStep, AlarmStutter, AlarmAssumption
<1>3. AlarmInv => AlarmsKept
  BY AlarmInvKeeps, AlarmAssumption
<1> QED
  BY <1>1, <1>2, <1>3, PTL DEF TimeSpec

-----------------------------------------------------------------------------
(* Delays *)

LEMMA TurnsOfDelay ==
  ASSUME TimeAssumption, NEW us \in Nat,
         big_loops(us) = 0 \/ Rest(us) # 0
  PROVE  alt_busy_sleep(us) \in
           us * LoopsPerUs .. us * LoopsPerUs + big_loops(us) * (LoopsPerUs - 1) + 1
<1> DEFINE L == LoopsPerUs
<1> DEFINE P == PerLoop
<1> DEFINE big == big_loops(us)
<1> DEFINE rest == Rest(us)
<1> DEFINE e == INT_MAX % L
<1>1. L \in Nat \ {0} /\ INT_MAX \in Nat /\ INT_MAX >= L
  BY DEF TimeAssumption
<1>2. P \in Nat /\ e \in 0 .. L - 1 /\ INT_MAX = L * P + e
  BY <1>1 DEF PerLoop
<1>3. P >= 1
  <2> HIDE DEF P, e, L
  <2>1. CASE P = 0
    <3>1. L * P = 0
      BY <1>1, <2>1
    <3> QED
      BY <1>1, <1>2, <3>1
  <2> QED
    BY <1>2, <2>1
<1> HIDE DEF P
<1>4. big \in Nat /\ rest \in 0 .. P - 1 /\ us = big * P + rest
  <2>1. big = us \div P /\ rest = us - big * P
    BY DEF big_loops, Rest, P
  <2>2. us \div P \in Nat /\ us % P \in 0 .. P - 1 /\ us = P * (us \div P) + (us % P)
    BY <1>2, <1>3
  <2> HIDE DEF big, rest
  <2>3. big * P = P * big
    BY <1>2, <2>1, <2>2
  <2> QED
    BY <1>2, <2>1, <2>2, <2>3
<1> HIDE DEF L, big, rest, e
<1>5. us * L \in Nat /\ (us * L = 0 => us * L + 1 = 1)
  BY <1>1
<1>6. CASE big = 0
  <2>1. alt_busy_sleep(us) = IF us * L = 0 THEN 1 ELSE us * L
    BY <1>6 DEF alt_busy_sleep, bgt, big, L
  <2>2. big * (L - 1) = 0
    BY <1>1, <1>6
  <2> QED
    BY <1>5, <2>1, <2>2 DEF L, big
<1>7. CASE big # 0 /\ rest # 0
  <2>1. rest * L \in Nat \ {0}
    BY <1>1, <1>2, <1>4, <1>7
  <2>2. alt_busy_sleep(us) = big * INT_MAX + rest * L
    BY <1>1, <1>7, <2>1 DEF alt_busy_sleep, bne, big, L, rest
  <2>3. big * INT_MAX = big * P * L + big * e
    BY <1>1, <1>2, <1>4
  <2>4. us * L = big * P * L + rest * L
    BY <1>1, <1>2, <1>4
  <2>5. big * e \in 0 .. big * (L - 1)
    BY <1>1, <1>2, <1>4
  <2>6. big * P * L \in Nat /\ big * (L - 1) \in Nat
    BY <1>1, <1>2, <1>4
  <2> QED
    BY <1>5, <2>1, <2>2, <2>3, <2>4, <2>5, <2>6 DEF L, big
<1> QED
  BY <1>6, <1>7 DEF big, rest

\* A delay that leaves something behind its big loops takes the turns it should, one per big loop
\* more or less (alt_busy_sleep.c).
THEOREM DelaysTakeTheirTurns == TimeSpec => []Delays
<1> DEFINE Inv == \A d \in delay : d.us \in Nat /\ d.turns = alt_busy_sleep(d.us)
<1>1. TimeInit => Inv
  BY DEF TimeInit
<1>2. Inv /\ [TimeNext]_timeVars => Inv'
  <2> SUFFICES ASSUME Inv, TimeNext \/ UNCHANGED timeVars PROVE Inv'
    OBVIOUS
  <2>1. CASE delay' = delay
    BY <2>1
  <2>2. CASE Slept
    BY <2>2 DEF Slept
  <2>3. CASE \E us \in 0 .. WORD - 1 : usleep(us)
    <3>1. PICK us \in 0 .. WORD - 1 : delay' = {[us |-> us, turns |-> alt_busy_sleep(us)]}
      BY <2>3 DEF usleep
    <3>2. us \in Nat
      BY DEF TimeAssumption
    <3> QED
      BY <3>1, <3>2
  <2> QED
    BY <2>1, <2>2, <2>3 DEF TimeNext, Alarms_, alt_sysclk_init, settimeofday, timeVars
<1>3. Inv => Delays
  BY TurnsOfDelay, TimeAssumption DEF Delays
<1> QED
  BY <1>1, <1>2, <1>3, PTL DEF TimeSpec

-----------------------------------------------------------------------------
(* The time of day *)

LEMMA Remainder ==
  ASSUME NEW b \in Nat \ {0}, NEW q \in Nat, NEW s \in 0 .. b - 1
  PROVE  (b * q + s) % b = s
<1> DEFINE x == b * q + s
<1> DEFINE y == x \div b
<1> DEFINE r == x % b
<1>1. x \in Nat
  OBVIOUS
<1>2. y \in Nat /\ r \in 0 .. b - 1 /\ x = b * y + r
  BY <1>1
<1>3. b * (y - q) = s - r
  <2> HIDE DEF y, r
  <2>1. b * y + r = b * q + s
    BY <1>2
  <2> QED
    BY <1>2, <2>1
<1> HIDE DEF y, r, x
<1>4. y - q = 0
  <2>1. s - r > -b /\ s - r < b
    BY <1>2
  <2>2. CASE y - q >= 1
    <3>1. b * (y - q) >= b
      BY <1>2, <2>2
    <3> QED
      BY <1>2, <1>3, <2>1, <3>1
  <2>3. CASE y - q <= -1
    <3>1. b * (q - y) >= b
      BY <1>2, <2>3
    <3>2. b * (q - y) = -(b * (y - q))
      BY <1>2
    <3> QED
      BY <1>2, <1>3, <2>1, <3>1, <3>2
  <2> QED
    BY <1>2, <2>2, <2>3
<1>5. r = s
  <2>1. b * (y - q) = 0
    BY <1>4
  <2> QED
    BY <1>2, <1>3, <2>1
<1> QED
  BY <1>5 DEF r, x

\* The full seconds and the fraction behind them are the microseconds of all ticks.
LEMMA SecondsAndFraction ==
  ASSUME NEW A \in Nat \ {0}, NEW r \in 1 .. A, A % r = 0, NEW n \in Nat
  PROVE  /\ A \div r \in Nat /\ n \div r \in Nat
         /\ (n * (A \div r)) % A \in 0 .. A - 1
         /\ (n \div r) * A + ((n * (A \div r)) % A) = n * (A \div r)
<1> DEFINE u == A \div r
<1> DEFINE q == n \div r
<1> DEFINE m == n % r
<1>1. u \in Nat /\ A = r * u
  <2>1. A = r * (A \div r) + (A % r) /\ A \div r \in Nat
    OBVIOUS
  <2> HIDE DEF u
  <2> QED
    BY <2>1 DEF u
<1>2. q \in Nat /\ m \in 0 .. r - 1 /\ n = r * q + m
  OBVIOUS
<1> HIDE DEF u, q, m
<1>3. u >= 1
  <2>1. CASE u = 0
    BY <1>1, <2>1
  <2> QED
    BY <1>1, <2>1
<1>4. m * u \in 0 .. A - 1
  <2>1. (r - m) * u >= u
    BY <1>1, <1>2
  <2>2. (r - m) * u = r * u - m * u
    BY <1>1, <1>2
  <2>3. m * u \in Nat
    BY <1>1, <1>2
  <2> QED
    BY <1>1, <1>3, <2>1, <2>2, <2>3
<1>5. n * u = A * q + m * u
  <2>1. (r * q + m) * u = (r * u) * q + m * u
    BY <1>1, <1>2
  <2> QED
    BY <1>1, <1>2, <2>1
<1> DEFINE s == m * u
<1>6. (n * u) % A = s
  <2> HIDE DEF s
  <2>1. s \in 0 .. A - 1 /\ n * u = A * q + s
    BY <1>4, <1>5 DEF s
  <2>2. (A * q + s) % A = s
    BY <1>2, <2>1, Remainder
  <2> QED
    BY <2>1, <2>2
<1>7. q * A = A * q
  BY <1>2
<1> QED
  BY <1>1, <1>2, <1>4, <1>5, <1>6, <1>7 DEF u, q

\* A time that is not negative keeps its microseconds when it is brought into a second.
LEMMA NormalKeepsUs ==
  ASSUME TimeAssumption, NEW sec \in Int, NEW usec \in 1 - ALT_US .. 2 * ALT_US - 2
  PROVE  /\ Normal(sec, usec).usec \in 0 .. ALT_US - 1
         /\ sec * ALT_US + usec >= 0 => InUs(Normal(sec, usec)) = sec * ALT_US + usec
<1>1. ALT_US \in Nat \ {0}
  BY DEF TimeAssumption
<1>2. CASE usec < 0 /\ sec <= 0
  <2>1. Normal(sec, usec) = [sec |-> 0, usec |-> 0]
    BY <1>2 DEF Normal
  <2>2. sec * ALT_US <= 0
    BY <1>1, <1>2
  <2> QED
    BY <1>1, <1>2, <2>1, <2>2
<1>3. CASE usec < 0 /\ sec > 0
  <2>1. Normal(sec, usec) = [sec |-> sec - 1, usec |-> usec + ALT_US]
    BY <1>3 DEF Normal
  <2>2. (sec - 1) * ALT_US = sec * ALT_US - ALT_US
    BY <1>1
  <2> QED
    BY <1>1, <1>3, <2>1, <2>2 DEF InUs
<1>4. CASE usec >= 0
  <2> DEFINE q == usec \div ALT_US
  <2> DEFINE m == usec % ALT_US
  <2>1. Normal(sec, usec) = [sec |-> sec + q, usec |-> m]
    BY <1>4 DEF Normal
  <2>2. q \in Nat /\ m \in 0 .. ALT_US - 1 /\ usec = ALT_US * q + m
    BY <1>1, <1>4
  <2> HIDE DEF q, m
  <2>3. (sec + q) * ALT_US = sec * ALT_US + ALT_US * q
    BY <1>1, <2>2
  <2>4. InUs(Normal(sec, usec)) = (sec + q) * ALT_US + m
    BY <2>1 DEF InUs
  <2>5. sec * ALT_US \in Int /\ ALT_US * q \in Int
    BY <1>1, <2>2
  <2> QED
    BY <1>1, <2>1, <2>2, <2>3, <2>4, <2>5
<1> QED
  BY <1>1, <1>2, <1>3, <1>4

LEMMA GetsUs ==
  ASSUME TimeAssumption, NEW rate \in Rates, NEW n \in Nat,
         NEW sec \in Int, NEW usec \in 1 - ALT_US .. ALT_US - 1
  PROVE  LET per == ALT_US \div rate
             got == Normal(sec + (n \div rate), usec + ((n * per) % ALT_US))
             us == sec * ALT_US + usec + n * per
         IN /\ per \in Nat /\ n * per \in Nat
            /\ got.usec \in 0 .. ALT_US - 1
            /\ us >= 0 => InUs(got) = us
<1> DEFINE per == ALT_US \div rate
<1> DEFINE q == n \div rate
<1> DEFINE f == (n * per) % ALT_US
<1>1. ALT_US \in Nat \ {0} /\ rate \in 1 .. ALT_US /\ ALT_US % rate = 0
  BY DEF TimeAssumption
<1>2. per \in Nat /\ q \in Nat /\ f \in 0 .. ALT_US - 1 /\ q * ALT_US + f = n * per
  BY <1>1, SecondsAndFraction
<1> HIDE DEF f, per, q
<1>3. (sec + q) * ALT_US = sec * ALT_US + q * ALT_US
  BY <1>1, <1>2
<1>4. n * per \in Nat /\ sec * ALT_US \in Int /\ q * ALT_US \in Int
  BY <1>1, <1>2
<1>5. sec + q \in Int /\ usec + f \in 1 - ALT_US .. 2 * ALT_US - 2
  BY <1>1, <1>2
<1>6. /\ Normal(sec + q, usec + f).usec \in 0 .. ALT_US - 1
      /\ (sec + q) * ALT_US + (usec + f) >= 0 =>
           InUs(Normal(sec + q, usec + f)) = (sec + q) * ALT_US + (usec + f)
  BY <1>5, NormalKeepsUs
<1>7. (sec + q) * ALT_US + (usec + f) = sec * ALT_US + usec + n * per
  BY <1>1, <1>2, <1>3, <1>4
<1>8. /\ per \in Nat /\ n * per \in Nat
      /\ Normal(sec + q, usec + f).usec \in 0 .. ALT_US - 1
      /\ sec * ALT_US + usec + n * per >= 0 =>
           InUs(Normal(sec + q, usec + f)) = sec * ALT_US + usec + n * per
  BY <1>2, <1>4, <1>6, <1>7
<1> QED
  BY <1>8 DEF per, q, f

\* What is remembered is a time less a fraction of a second.
TimeInv ==
  /\ nticks \in 0 .. TICKS - 1 /\ tick_rate \in Rates \cup {0}
  /\ alt_resettime \in [sec : Int, usec : 1 - ALT_US .. ALT_US - 1]

LEMMA FractionIsOne ==
  ASSUME TimeAssumption, AlarmAssumption, TimeInv, tick_rate # 0
  PROVE  /\ nticks \in Nat /\ nticks \div tick_rate \in Nat /\ nticks * usec_per_tick \in Nat
         /\ Fraction \in 0 .. ALT_US - 1 /\ Fraction32 \in 0 .. ALT_US - 1
         /\ nticks * usec_per_tick < WORD => Fraction32 = Fraction
<1>1. /\ ALT_US \in Nat \ {0} /\ tick_rate \in 1 .. ALT_US /\ ALT_US % tick_rate = 0 /\ WORD \in Nat \ {0}
      /\ nticks \in Nat
  BY DEF TimeAssumption, AlarmAssumption, TimeInv
<1> DEFINE p == nticks * usec_per_tick
<1>2. /\ usec_per_tick \in Nat /\ nticks \div tick_rate \in Nat
  BY <1>1, SecondsAndFraction DEF usec_per_tick
<1>3. p \in Nat
  BY <1>1, <1>2
<1>4. Fraction = p % ALT_US /\ Fraction32 = (p % WORD) % ALT_US
  BY DEF Fraction, Fraction32
<1> HIDE DEF p
<1>5. p % ALT_US \in 0 .. ALT_US - 1 /\ p % WORD \in Nat /\ (p < WORD => p % WORD = p)
  BY <1>1, <1>3
<1>6. (p % WORD) % ALT_US \in 0 .. ALT_US - 1
  BY <1>1, <1>5
<1> QED
  BY <1>1, <1>2, <1>3, <1>4, <1>5, <1>6 DEF p

LEMMA TimeStep ==
  ASSUME TimeAssumption, AlarmAssumption, AlarmTypeOK', TimeInv, [TimeNext]_timeVars
  PROVE  TimeInv'
<1>1. nticks' \in 0 .. TICKS - 1
  BY DEF AlarmTypeOK
<1>2. tick_rate' \in Rates \cup {0}
  BY DEF TimeInv, TimeNext, Alarms_, alt_sysclk_init, settimeofday, usleep, Slept, timeVars
<1>3. alt_resettime' \in [sec : Int, usec : 1 - ALT_US .. ALT_US - 1]
  <2>1. CASE alt_resettime' = alt_resettime
    BY <2>1 DEF TimeInv
  <2>2. CASE \E t \in Times : settimeofday(t)
    <3>1. PICK t \in Times : settimeofday(t)
      BY <2>2
    <3>2. t.sec \in Int /\ t.usec \in 0 .. ALT_US - 1 /\ ALT_US \in Nat
      BY DEF TimeAssumption
    <3>3. nticks \div tick_rate \in Nat /\ Fraction32 \in 0 .. ALT_US - 1
      BY <3>1, FractionIsOne DEF settimeofday
    <3>4. alt_resettime' = [sec |-> t.sec - (nticks \div tick_rate), usec |-> t.usec - Fraction32]
      BY <3>1 DEF settimeofday
    <3>5. t.sec - (nticks \div tick_rate) \in Int /\ t.usec - Fraction32 \in 1 - ALT_US .. ALT_US - 1
      BY <3>2, <3>3
    <3> QED
      BY <3>4, <3>5
  <2> QED
    BY <2>1, <2>2 DEF TimeNext, Alarms_, alt_sysclk_init, usleep, Slept, timeVars
<1> QED
  BY <1>1, <1>2, <1>3 DEF TimeInv

\* What is set is got.
LEMMA SetIsGot ==
  ASSUME TimeAssumption, AlarmAssumption, TimeInv, NEW t \in Times, settimeofday(t),
         nticks * usec_per_tick < WORD
  PROVE  gettimeofday' = t
<1>1. tick_rate # 0 /\ nticks' = nticks /\ tick_rate' = tick_rate
  BY DEF settimeofday, vars
<1>2. alt_resettime' = [sec |-> t.sec - (nticks \div tick_rate), usec |-> t.usec - Fraction]
  BY <1>1, FractionIsOne DEF settimeofday
<1>3. nticks \div tick_rate \in Nat /\ Fraction \in 0 .. ALT_US - 1
  BY <1>1, FractionIsOne
<1>4. /\ t.sec \in Nat /\ t.usec \in 0 .. ALT_US - 1 /\ ALT_US \in Nat \ {0}
      /\ t = [sec |-> t.sec, usec |-> t.usec]
  BY DEF TimeAssumption
<1>5. Fraction' = Fraction
  BY <1>1 DEF Fraction, usec_per_tick
<1> DEFINE q == nticks \div tick_rate
<1> DEFINE f == Fraction
<1> HIDE DEF q, f
<1>6. alt_resettime'.sec + q = t.sec /\ alt_resettime'.usec + f = t.usec
  BY <1>2, <1>3, <1>4 DEF q, f
<1>7. gettimeofday' = Normal(t.sec, t.usec)
  BY <1>1, <1>5, <1>6 DEF gettimeofday, q, f
<1>8. Normal(t.sec, t.usec) = [sec |-> t.sec + (t.usec \div ALT_US), usec |-> t.usec % ALT_US]
  BY <1>4 DEF Normal
<1>9. t.usec \div ALT_US = 0 /\ t.usec % ALT_US = t.usec
  BY <1>4
<1> QED
  BY <1>4, <1>7, <1>8, <1>9

\* A tick moves the time on.
LEMMA TickIsAdded ==
  ASSUME TimeAssumption, AlarmAssumption, TimeInv, TimeInv', [TimeNext]_timeVars,
         tick_rate # 0, times' = times + 1, Raw >= 0
  PROVE  InUs(gettimeofday') = InUs(gettimeofday) + usec_per_tick
<1>1. nticks \in Nat /\ nticks' \in Nat /\ tick_rate \in Rates
  BY DEF TimeInv, AlarmAssumption
<1>2. tick_rate' = tick_rate
  BY DEF TimeNext, Alarms_, alt_sysclk_init, settimeofday, usleep, Slept, timeVars
<1>3. nticks' = nticks + 1
  BY <1>2 DEF times
<1>4. alt_resettime' = alt_resettime
  BY <1>1, <1>3 DEF TimeNext, Alarms_, alt_sysclk_init, settimeofday, usleep, Slept, timeVars, vars
<1> DEFINE sec == alt_resettime.sec
<1> DEFINE usec == alt_resettime.usec
<1> DEFINE per == ALT_US \div tick_rate
<1>5. sec \in Int /\ usec \in 1 - ALT_US .. ALT_US - 1 /\ ALT_US \in Nat
  BY DEF TimeInv, TimeAssumption
<1>6. /\ per \in Nat /\ nticks * per \in Nat
      /\ Raw >= 0 => InUs(gettimeofday) = sec * ALT_US + usec + nticks * per
  BY <1>1, <1>5, GetsUs DEF gettimeofday, Fraction, usec_per_tick, Raw
<1>7. /\ sec * ALT_US + usec + (nticks + 1) * per >= 0 =>
           InUs(gettimeofday') = sec * ALT_US + usec + (nticks + 1) * per
  <2>1. nticks + 1 \in Nat
    BY <1>1
  <2> QED
    BY <1>1, <1>2, <1>3, <1>4, <1>5, <2>1, GetsUs DEF gettimeofday, Fraction, usec_per_tick
<1>8. Raw = sec * ALT_US + usec + nticks * per /\ usec_per_tick = per
  BY DEF Raw, usec_per_tick
<1> HIDE DEF per
<1>9. (nticks + 1) * per = nticks * per + per
  BY <1>1, <1>6
<1>10. sec * ALT_US \in Int
  BY <1>5
<1> HIDE DEF sec, usec
<1> QED
  BY <1>5, <1>6, <1>7, <1>8, <1>9, <1>10

\* The time that is set is the time that is got, until the product in 32 bits overflows, and every
\* tick adds its length to it (alt_settod.c, alt_gettod.c).
THEOREM TimeOfDayIsKept == TimeSpec => TimeIsKept
<1> DEFINE Kept ==
      /\ \A t \in Times : settimeofday(t) /\ nticks * usec_per_tick < WORD => gettimeofday' = t
      /\ tick_rate # 0 /\ times' = times + 1 /\ Raw >= 0 =>
           InUs(gettimeofday') = InUs(gettimeofday) + usec_per_tick
      /\ tick_rate # 0 => gettimeofday.usec \in 0 .. ALT_US - 1
<1>1. TimeInit => TimeInv
  BY TimeAssumption, AlarmAssumption DEF TimeInit, Init, TimeInv, TimeAssumption, AlarmAssumption
<1>2. TimeInv /\ AlarmsKept' /\ [TimeNext]_timeVars => TimeInv'
  BY TimeStep, TimeAssumption, AlarmAssumption DEF AlarmsKept
<1>3. TimeInv /\ tick_rate # 0 => gettimeofday.usec \in 0 .. ALT_US - 1
  <2> SUFFICES ASSUME TimeInv, tick_rate # 0 PROVE gettimeofday.usec \in 0 .. ALT_US - 1
    OBVIOUS
  <2>1. /\ nticks \in Nat /\ tick_rate \in Rates /\ alt_resettime.sec \in Int
        /\ alt_resettime.usec \in 1 - ALT_US .. ALT_US - 1
    BY AlarmAssumption DEF TimeInv, AlarmAssumption
  <2> QED
    BY <2>1, TimeAssumption, GetsUs DEF gettimeofday, Fraction, usec_per_tick
<1>4. TimeInv /\ TimeInv' /\ [TimeNext]_timeVars => Kept
  BY <1>3, SetIsGot, TickIsAdded, TimeAssumption, AlarmAssumption
<1>5. TimeInv /\ TimeInv' /\ [TimeNext]_timeVars => [Kept]_timeVars
  BY <1>4
<1> HIDE DEF Kept
<1>6. TimeSpec => [][Kept]_timeVars
  BY <1>1, <1>2, <1>5, AlarmsAreKeptInTime, PTL DEF TimeSpec
<1> QED
  BY <1>6 DEF TimeIsKept, Kept
==================================================================================
