----------------------------- MODULE alt_fd_proofs -----------------------------
(***************************************************************************)
(* Descriptors are never mixed up, for any devices, any pool and any       *)
(* number of files: what the program holds stays what it is, files are     *)
(* closed, locks are respected by open, failures leave nothing behind, and *)
(* a write reaches the file it was meant for.                              *)
(***************************************************************************)
EXTENDS alt_io, TLAPS

Flags == [excl : BOOLEAN, isdev : BOOLEAN, mode : Modes, nonblock : BOOLEAN]
Descriptors == [dev : Devices \cup {HostFs, None}, priv : Handles \cup {None}, flags : Flags]

\* A standard stream has a device, a free descriptor no flags, and a file, which cannot be
\* locked, a handle.
Kept(i) ==
  /\ i \in Streams => alt_fd_list[i].dev \in Devices
  /\ alt_fd_list[i].dev = None => alt_fd_list[i].flags = NoFlags
  /\ alt_fd_list[i].dev = HostFs =>
       ~alt_fd_list[i].flags.isdev /\ ~alt_fd_list[i].flags.excl /\ alt_fd_list[i].priv \in Handles

\* Before main nothing is open but the streams, and no call has failed.
Startup ==
  ~running => /\ DOMAIN held = {} /\ result = 0 /\ host_open = {}
              /\ \A i \in Fds \ Streams : alt_fd_list[i].dev = None

HeldInv == \A f \in DOMAIN held : alt_fd_list[f].dev # None

\* Each file has a handle of its own, and no other handle is open.
FdInv == /\ FdTypeOK /\ (\A i \in Fds : Kept(i)) /\ Startup
         /\ HeldInv /\ HeldAreOpen /\ HandlesOwned /\ MarkCoversOpen

LEMMA FlagFacts ==
  /\ NoFlags \in Flags /\ ~NoFlags.excl /\ ~NoFlags.isdev
  /\ \A m \in Modes : /\ [NoFlags EXCEPT !.mode = m] \in Flags
                      /\ ~[NoFlags EXCEPT !.mode = m].excl /\ ~[NoFlags EXCEPT !.mode = m].isdev
                      /\ [NoFlags EXCEPT !.isdev = TRUE, !.mode = m] \in Flags
                      /\ [NoFlags EXCEPT !.mode = m, !.isdev = TRUE] \in Flags
BY DEF NoFlags, Flags, Modes

LEMMA FdInitInv == Init => FdInv
<1> SUFFICES ASSUME Init PROVE FdInv
  OBVIOUS
<1>1. Streams \subseteq Fds /\ None # HostFs /\ DevNull # None /\ DevNull # HostFs /\ DevNull \in Devices
  BY FdAssumption DEF Streams, Fds
<1>2. \A i \in Fds : /\ alt_fd_list[i].dev = (IF i \in Streams THEN DevNull ELSE None)
                     /\ alt_fd_list[i].priv = None /\ alt_fd_list[i].flags = NoFlags
  BY DEF Init, NewFd
<1>3. alt_fd_list \in [Fds -> Descriptors]
  BY <1>1, FlagFacts DEF Init, NewFd, Descriptors
<1>4. FdTypeOK
  BY <1>3, FdAssumption DEF Init, FdTypeOK, Descriptors, Flags
<1>5. \A i \in Fds : Kept(i)
  BY <1>1, <1>2 DEF Kept
<1>6. Startup /\ HeldInv /\ HeldAreOpen
  BY <1>2 DEF Init, Startup, running, HeldInv, HeldAreOpen
<1>7. HandlesOwned
  BY <1>1, <1>2 DEF Init, HandlesOwned
<1>8. MarkCoversOpen
  BY <1>1, <1>2 DEF MarkCoversOpen, free
<1> QED
  BY <1>4, <1>5, <1>6, <1>7, <1>8 DEF FdInv

LEMMA GivenFacts ==
  ASSUME FdInv, NEW index \in Fds, Gives(index)
  PROVE  /\ index \notin Streams /\ index > 2 /\ index \notin DOMAIN held
         /\ alt_fd_list[index].dev = None /\ alt_fd_list[index].flags = NoFlags
         /\ HighWater(index) \in -1 .. ALT_MAX_FD - 1
         /\ index <= HighWater(index) /\ alt_max_fd <= HighWater(index)
<1>1. alt_fd_list[index].dev = None
  BY DEF Gives, free
<1>2. Kept(index) /\ HeldInv
  BY DEF FdInv
<1>3. index \notin Streams /\ index \notin DOMAIN held /\ alt_fd_list[index].flags = NoFlags
  BY <1>1, <1>2, FdAssumption DEF Kept, HeldInv
<1>4. index \in 0 .. ALT_MAX_FD - 1 /\ alt_max_fd \in -1 .. ALT_MAX_FD - 1 /\ ALT_MAX_FD \in Nat
  BY FdAssumption DEF FdInv, FdTypeOK, Fds
<1>5. index > 2
  BY <1>3, <1>4 DEF Streams
<1> QED
  BY <1>1, <1>3, <1>4, <1>5 DEF HighWater

\* A step that leaves the descriptors alone and may raise the mark.
LEMMA SameInv ==
  ASSUME FdInv, UNCHANGED <<alt_fd_list, redirected, host_open, held>>,
         alt_max_fd' \in -1 .. ALT_MAX_FD - 1, alt_max_fd <= alt_max_fd', running \/ result' = result
  PROVE  FdInv'
<1>1. FdTypeOK'
  BY DEF FdInv, FdTypeOK
<1>2. \A i \in Fds : Kept(i)'
  BY DEF FdInv, Kept
<1>3. Startup' /\ HeldInv' /\ HeldAreOpen' /\ HandlesOwned'
  BY DEF FdInv, Startup, running, HeldInv, HeldAreOpen, HandlesOwned, Target
<1>4. MarkCoversOpen'
  <2>1. free' = free
    BY DEF free
  <2>2. \A i \in Fds : i \in Int
    BY FdAssumption DEF Fds
  <2> QED
    BY <2>1, <2>2, FdAssumption DEF FdInv, FdTypeOK, MarkCoversOpen
<1> QED
  BY <1>1, <1>2, <1>3, <1>4 DEF FdInv

\* A step that changes the flags of a descriptor of the program.
LEMMA FlagsInv ==
  ASSUME FdInv, NEW f \in DOMAIN held, NEW g \in Flags,
         alt_fd_list' = [alt_fd_list EXCEPT ![f].flags = g],
         alt_fd_list[f].dev = HostFs => ~g.excl /\ ~g.isdev,
         UNCHANGED <<alt_max_fd, redirected, host_open, held>>
  PROVE  FdInv'
<1>1. f \in Fds /\ alt_fd_list \in [Fds -> Descriptors] /\ running
  BY DEF FdInv, FdTypeOK, Startup, Descriptors, Flags
<1>2. alt_fd_list' \in [Fds -> Descriptors]
  BY <1>1 DEF Descriptors
<1>3. \A i \in Fds : /\ alt_fd_list'[i].dev = alt_fd_list[i].dev
                     /\ alt_fd_list'[i].priv = alt_fd_list[i].priv
                     /\ alt_fd_list'[i].flags = IF i = f THEN g ELSE alt_fd_list[i].flags
  BY <1>1 DEF Descriptors
<1>4. FdTypeOK'
  BY <1>2 DEF FdInv, FdTypeOK, Descriptors, Flags
<1>5. \A i \in Fds : Kept(i)'
  <2>1. alt_fd_list[f].dev # None
    BY DEF FdInv, HeldInv
  <2> QED
    BY <1>3, <2>1 DEF FdInv, Kept
<1>6. Startup' /\ HeldInv'
  BY <1>1, <1>3 DEF FdInv, FdTypeOK, Startup, running, HeldInv
<1>7. HeldAreOpen'
  BY <1>1, <1>3 DEF FdInv, FdTypeOK, HeldAreOpen, Target
<1>8. HandlesOwned'
  <2>1. {i \in Fds : alt_fd_list'[i].dev = HostFs} = {i \in Fds : alt_fd_list[i].dev = HostFs}
    BY <1>3
  <2> QED
    BY <1>3, <2>1 DEF FdInv, HandlesOwned
<1>9. MarkCoversOpen'
  BY <1>3 DEF FdInv, MarkCoversOpen, free
<1> QED
  BY <1>4, <1>5, <1>6, <1>7, <1>8, <1>9 DEF FdInv

\* The descriptor is given back: everything is as before.
LEMMA GivesBackSame ==
  ASSUME FdInv, NEW index \in Fds, Gives(index), NEW error, NEW d, NEW g,
         GivesBack([alt_fd_list EXCEPT ![index].dev = d, ![index].flags = g], index, error)
  PROVE  alt_fd_list' = alt_fd_list
<1>1. /\ index > 2 /\ alt_fd_list[index].dev = None /\ alt_fd_list[index].flags = NoFlags
      /\ alt_fd_list \in [Fds -> Descriptors]
  BY GivenFacts DEF FdInv, FdTypeOK, Descriptors, Flags
<1> DEFINE list == [alt_fd_list EXCEPT ![index].dev = d, ![index].flags = g]
           back == [list EXCEPT ![index].flags = NoFlags, ![index].dev = None]
<1>2. alt_fd_list' = back
  BY <1>1 DEF GivesBack, alt_release_fd
<1>3. back = [alt_fd_list EXCEPT ![index] = back[index]]
  BY <1>1
<1>4. back[index] = alt_fd_list[index]
  BY <1>1 DEF Descriptors
<1> QED
  BY <1>1, <1>2, <1>3, <1>4

\* An open that succeeds, of a device or of a file with a handle of its own.
LEMMA OpensInv ==
  ASSUME FdInv, NEW index \in Fds, Gives(index), running, NEW r \in Descriptors,
         Opens([alt_fd_list EXCEPT ![index] = r], index),
         alt_max_fd' = HighWater(index), redirected' = redirected,
         \/ r.dev \in Devices /\ UNCHANGED host_open
         \/ /\ r.dev = HostFs /\ ~r.flags.excl /\ ~r.flags.isdev
            /\ r.priv \in Handles \ host_open /\ host_open' = host_open \cup {r.priv}
  PROVE  FdInv' /\ DOMAIN held' = DOMAIN held \cup {index} /\ held'[index] = Target(r)
<1> DEFINE list == [alt_fd_list EXCEPT ![index] = r]
<1>1. /\ index \notin Streams /\ index > 2 /\ index \notin DOMAIN held
      /\ alt_fd_list[index].dev = None
      /\ HighWater(index) \in -1 .. ALT_MAX_FD - 1
      /\ index <= HighWater(index) /\ alt_max_fd <= HighWater(index)
  BY GivenFacts
<1>2. alt_fd_list \in [Fds -> Descriptors] /\ alt_fd_list' = list
  BY DEF FdInv, FdTypeOK, Descriptors, Flags, Opens
<1>3. alt_fd_list' \in [Fds -> Descriptors]
  BY <1>2
<1>4. alt_fd_list'[index] = r /\ \A i \in Fds : i # index => alt_fd_list'[i] = alt_fd_list[i]
  BY <1>2
<1>5. held' = [i \in DOMAIN held \cup {index} |-> IF i = index THEN Target(r) ELSE held[i]]
  BY <1>2, <1>4 DEF Opens
<1>6. /\ DOMAIN held' = DOMAIN held \cup {index} /\ held'[index] = Target(r)
      /\ \A i \in DOMAIN held : held'[i] = held[i]
  BY <1>1, <1>5
<1>7. None \notin Devices /\ None # HostFs /\ HostFs \notin Devices
  BY FdAssumption
<1>8. FdTypeOK'
  BY <1>1, <1>3, <1>6 DEF FdInv, FdTypeOK, Descriptors, Flags
<1>9. \A i \in Fds : Kept(i)'
  BY <1>1, <1>4, <1>7 DEF FdInv, Kept
<1>10. Startup' /\ HeldInv'
  BY <1>4, <1>6, <1>7 DEF FdInv, FdTypeOK, Startup, running, HeldInv
<1>11. HeldAreOpen'
  BY <1>1, <1>4, <1>6 DEF FdInv, FdTypeOK, HeldAreOpen, Target
<1>12. HandlesOwned'
  <2> DEFINE files == {i \in Fds : alt_fd_list[i].dev = HostFs}
             files2 == {i \in Fds : alt_fd_list'[i].dev = HostFs}
  <2>1. /\ host_open = {alt_fd_list[i].priv : i \in files}
        /\ \A i, j \in files : alt_fd_list[i].priv = alt_fd_list[j].priv => i = j
    BY DEF FdInv, HandlesOwned
  <2>2. index \notin files
    BY <1>1, <1>7
  <2>3. \A i \in files : alt_fd_list'[i] = alt_fd_list[i]
    BY <1>4, <2>2
  <2>4. CASE r.dev \in Devices /\ UNCHANGED host_open
    <3>1. files2 = files
      BY <1>4, <1>7, <2>2, <2>4
    <3> QED
      BY <2>1, <2>3, <2>4, <3>1 DEF HandlesOwned
  <2>5. CASE r.dev = HostFs /\ r.priv \in Handles \ host_open /\ host_open' = host_open \cup {r.priv}
    <3>1. files2 = files \cup {index}
      BY <1>4, <1>7, <2>2, <2>5
    <3>2. host_open' = {alt_fd_list'[i].priv : i \in files2}
      BY <1>4, <2>1, <2>3, <2>5, <3>1
    <3>3. \A i \in files : alt_fd_list'[i].priv # r.priv
      BY <2>1, <2>3, <2>5
    <3>4. \A i, j \in files2 : alt_fd_list'[i].priv = alt_fd_list'[j].priv => i = j
      BY <1>4, <2>1, <2>3, <3>1, <3>3
    <3> QED
      BY <3>2, <3>4 DEF HandlesOwned
  <2> QED
    BY <2>4, <2>5
<1>13. MarkCoversOpen'
  <2>1. \A i \in Fds \ {index} : i \in free' <=> i \in free
    BY <1>4 DEF free
  <2>2. \A i \in Fds : i \in Int
    BY FdAssumption DEF Fds
  <2>3. \A i \in Fds \ {index} : IF i \in Streams THEN i \notin free ELSE i \in free \/ i <= alt_max_fd
    BY DEF FdInv, MarkCoversOpen
  <2> QED
    BY <1>1, <2>1, <2>2, <2>3, FdAssumption DEF FdInv, FdTypeOK, MarkCoversOpen
<1> QED
  BY <1>6, <1>8, <1>9, <1>10, <1>11, <1>12, <1>13 DEF FdInv

LEMMA RedirectInv == ASSUME FdInv, NEW index \in Fds, Redirect(index) PROVE FdInv'
<1> DEFINE stream == IF redirected = 0 THEN 1 ELSE IF redirected = 1 THEN 0 ELSE 2
           mode == IF stream = 0 THEN "read" ELSE "write"
           r == NewFd(Stdio, alt_fd_list[index].priv, [NoFlags EXCEPT !.isdev = TRUE, !.mode = mode])
<1>1. /\ HighWater(index) \in -1 .. ALT_MAX_FD - 1 /\ alt_max_fd <= HighWater(index)
      /\ alt_max_fd' = HighWater(index)
  BY GivenFacts DEF Redirect
<1>2. /\ redirected \in 0 .. 2 /\ redirected' = redirected + 1 /\ ~running
      /\ UNCHANGED <<host_open, result>> /\ alt_fd_list \in [Fds -> Descriptors]
  BY DEF FdInv, FdTypeOK, Redirect, running, Descriptors, Flags
<1>3. stream \in Streams /\ Streams \subseteq Fds /\ mode \in Modes
  BY <1>2, FdAssumption DEF Streams, Fds, Modes
<1>4. Stdio \in Devices /\ Stdio # None /\ Stdio # HostFs /\ None # HostFs
  BY FdAssumption
<1>5. alt_fd_list' = [alt_fd_list EXCEPT ![stream] = r]
  BY DEF Redirect
<1>6. r \in Descriptors /\ r.dev = Stdio
  <2>1. alt_fd_list[index].priv \in Handles \cup {None}
    BY <1>2 DEF Descriptors
  <2>2. [NoFlags EXCEPT !.isdev = TRUE, !.mode = mode] \in Flags
    BY <1>3, FlagFacts
  <2> HIDE DEF mode
  <2> QED
    BY <2>1, <2>2, <1>4 DEF NewFd, Descriptors
<1> HIDE DEF stream, mode, r
<1>7. /\ alt_fd_list' \in [Fds -> Descriptors] /\ alt_fd_list'[stream] = r
      /\ \A i \in Fds : i # stream => alt_fd_list'[i] = alt_fd_list[i]
  BY <1>2, <1>3, <1>5, <1>6
<1>8. DOMAIN held = {} /\ host_open = {} /\ result = 0 /\ \A i \in Fds \ Streams : alt_fd_list[i].dev = None
  BY <1>2 DEF FdInv, Startup
<1>9. /\ redirected = 2 => held' = [i \in Streams |-> Target(alt_fd_list'[i])]
      /\ redirected # 2 => held' = held
  BY <1>2 DEF Redirect
<1>10. /\ redirected = 2 => DOMAIN held' = Streams /\ \A i \in Streams : held'[i] = Target(alt_fd_list'[i])
       /\ redirected # 2 => DOMAIN held' = {}
  BY <1>8, <1>9
<1>11. FdTypeOK'
  BY <1>1, <1>2, <1>3, <1>7, <1>8, <1>10 DEF FdInv, FdTypeOK, Descriptors, Flags
<1>12. \A i \in Fds : Kept(i)'
  BY <1>4, <1>6, <1>7 DEF FdInv, Kept
<1>13. Startup'
  BY <1>2, <1>3, <1>7, <1>8, <1>10 DEF Startup, running
<1>14. HeldInv' /\ HeldAreOpen'
  <2>1. \A i \in Streams : alt_fd_list'[i].dev # None
    BY <1>3, <1>12, FdAssumption DEF Kept
  <2> QED
    BY <1>10, <2>1 DEF HeldInv, HeldAreOpen
<1>15. HandlesOwned'
  <2>1. \A i \in Fds : alt_fd_list'[i].dev # HostFs
    BY <1>3, <1>4, <1>7, <1>8, <1>12, FdAssumption DEF Kept
  <2> QED
    BY <1>2, <1>8, <2>1 DEF HandlesOwned
<1>16. MarkCoversOpen'
  <2>1. \A i \in Streams : i \notin free'
    BY <1>3, <1>12, FdAssumption DEF Kept, free
  <2>2. \A i \in Fds \ Streams : i \in free'
    BY <1>3, <1>7, <1>8 DEF free
  <2> QED
    BY <2>1, <2>2 DEF MarkCoversOpen
<1> QED
  BY <1>11, <1>12, <1>13, <1>14, <1>15, <1>16 DEF FdInv

\* What a close does to the list, to the program's descriptors and to the host's files.
LEMMA CloseFacts ==
  ASSUME FdInv, NEW f \in DOMAIN held, Close(f)
  PROVE  /\ f \in Fds /\ running
         /\ f \in Streams => UNCHANGED <<alt_fd_list, host_open>> /\ DOMAIN held' = DOMAIN held
         /\ f \notin Streams =>
              /\ alt_fd_list' = [alt_fd_list EXCEPT ![f].flags = NoFlags, ![f].dev = None]
              /\ DOMAIN held' = DOMAIN held \ {f}
         /\ \A i \in DOMAIN held' : held'[i] = held[i]
<1>1. f \in Fds /\ f \in 0 .. ALT_MAX_FD - 1 /\ ALT_MAX_FD \in Nat /\ running
  BY FdAssumption DEF FdInv, FdTypeOK, Startup, Fds
<1>2. f \in Streams <=> ~(f > 2)
  BY <1>1 DEF Streams
<1>3. held' = [i \in DOMAIN held \ ({f} \ Streams) |-> held[i]]
  BY DEF Close
<1>4. f \in Streams => alt_fd_list[f].dev # HostFs
  BY <1>1, FdAssumption DEF FdInv, Kept
<1>5. f \in Streams => host_open' = host_open
  BY <1>4 DEF Close
<1> QED
  BY <1>1, <1>2, <1>3, <1>5 DEF Close, alt_release_fd

LEMMA CloseInv == ASSUME FdInv, NEW f \in DOMAIN held, Close(f) PROVE FdInv'
<1>1. /\ f \in Fds /\ running /\ alt_fd_list \in [Fds -> Descriptors]
      /\ UNCHANGED <<alt_max_fd, redirected>> /\ running'
  BY CloseFacts DEF FdInv, FdTypeOK, Descriptors, Flags, Close, running
<1>2. CASE f \in Streams
  <2>1. UNCHANGED <<alt_fd_list, host_open>> /\ DOMAIN held' = DOMAIN held /\ \A i \in DOMAIN held' : held'[i] = held[i]
    BY <1>2, CloseFacts
  <2>2. free' = free
    BY <2>1 DEF free
  <2> QED
    BY <1>1, <2>1, <2>2 DEF FdInv, FdTypeOK, Kept, Startup, HeldInv, HeldAreOpen, HandlesOwned, MarkCoversOpen, Target
<1>3. CASE f \notin Streams
  <2>1. /\ alt_fd_list' = [alt_fd_list EXCEPT ![f].flags = NoFlags, ![f].dev = None]
        /\ DOMAIN held' = DOMAIN held \ {f} /\ \A i \in DOMAIN held' : held'[i] = held[i]
    BY <1>3, CloseFacts
  <2>2. None # HostFs /\ NoFlags \in Flags
    BY FdAssumption, FlagFacts
  <2>3. alt_fd_list' \in [Fds -> Descriptors]
    BY <1>1, <2>1, <2>2 DEF Descriptors
  <2>4. /\ \A i \in Fds : i # f => alt_fd_list'[i] = alt_fd_list[i]
        /\ alt_fd_list'[f].dev = None /\ alt_fd_list'[f].flags = NoFlags
    BY <1>1, <2>1 DEF Descriptors
  <2>5. host_open' = host_open \ {h \in {alt_fd_list[f].priv} : alt_fd_list[f].dev = HostFs}
    BY DEF Close
  <2>6. FdTypeOK'
    BY <1>1, <2>1, <2>3, <2>5 DEF FdInv, FdTypeOK, Descriptors, Flags
  <2>7. \A i \in Fds : Kept(i)'
    BY <1>3, <2>2, <2>4 DEF FdInv, Kept
  <2>8. Startup' /\ HeldInv'
    BY <1>1, <2>1, <2>4 DEF FdInv, FdTypeOK, Startup, HeldInv
  <2>9. HeldAreOpen'
    BY <2>1, <2>4 DEF FdInv, FdTypeOK, HeldAreOpen, Target
  <2>10. HandlesOwned'
    <3> DEFINE files == {i \in Fds : alt_fd_list[i].dev = HostFs}
               files2 == {i \in Fds : alt_fd_list'[i].dev = HostFs}
    <3>1. /\ host_open = {alt_fd_list[i].priv : i \in files}
          /\ \A i, j \in files : alt_fd_list[i].priv = alt_fd_list[j].priv => i = j
      BY DEF FdInv, HandlesOwned
    <3>2. files2 = files \ {f}
      BY <1>1, <2>2, <2>4
    <3>3. host_open' = {alt_fd_list[i].priv : i \in files \ {f}}
      BY <1>1, <2>5, <3>1
    <3> QED
      BY <2>4, <3>1, <3>2, <3>3 DEF HandlesOwned
  <2>11. MarkCoversOpen'
    BY <1>1, <1>3, <2>4 DEF FdInv, MarkCoversOpen, free
  <2> QED
    BY <2>6, <2>7, <2>8, <2>9, <2>10, <2>11 DEF FdInv
<1> QED
  BY <1>2, <1>3

LEMMA DescriptorIs ==
  \A x \in Descriptors : x = [dev |-> x.dev, priv |-> x.priv, flags |-> x.flags]
BY DEF Descriptors

\* What an open of a device does: the descriptor is given back, or it is given to the program
\* and no lock was found.
LEMMA OpenDeviceFacts ==
  ASSUME FdInv, NEW index \in Fds, NEW dev \in Devices, NEW mode \in Modes, OpenDevice(index, dev, mode)
  PROVE  \/ UNCHANGED <<alt_fd_list, redirected, host_open, held>> /\ result' = EACCES
         \/ \E r \in Descriptors :
              /\ r.dev = dev /\ result' = index /\ UNCHANGED <<redirected, host_open>>
              /\ Opens([alt_fd_list EXCEPT ![index] = r], index)
              /\ ~alt_file_locked([alt_fd_list EXCEPT ![index] = r], alt_max_fd', index)
<1> DEFINE flags == [NoFlags EXCEPT !.mode = mode, !.isdev = TRUE]
           list == [alt_fd_list EXCEPT ![index].dev = dev, ![index].flags = flags]
           r == [dev |-> dev, priv |-> alt_fd_list[index].priv, flags |-> flags]
<1>1. alt_fd_list \in [Fds -> Descriptors]
  BY DEF FdInv, FdTypeOK, Descriptors, Flags
<1>2. flags \in Flags
  BY FlagFacts
<1>3. /\ Gives(index) /\ UNCHANGED <<redirected, host_open>>
      /\ IF alt_file_locked(list, alt_max_fd', index) THEN GivesBack(list, index, EACCES) ELSE Opens(list, index)
  BY DEF OpenDevice
<1> HIDE DEF flags
<1>4. r \in Descriptors /\ r.dev = dev
  BY <1>1, <1>2 DEF Descriptors
<1>5. list = [alt_fd_list EXCEPT ![index] = r]
  <2>1. list = [alt_fd_list EXCEPT ![index] = list[index]]
    BY <1>1
  <2>2. /\ list[index] \in Descriptors
        /\ list[index].dev = dev /\ list[index].flags = flags /\ list[index].priv = alt_fd_list[index].priv
    BY <1>1, <1>2 DEF Descriptors
  <2>3. list[index] = r
    BY <2>2, DescriptorIs
  <2> QED
    BY <2>1, <2>3
<1>6. CASE alt_file_locked(list, alt_max_fd', index)
  <2>1. GivesBack(list, index, EACCES)
    BY <1>3, <1>6
  <2>2. alt_fd_list' = alt_fd_list
    BY <1>3, <2>1, GivesBackSame
  <2> QED
    BY <1>3, <2>1, <2>2 DEF GivesBack
<1>7. CASE ~alt_file_locked(list, alt_max_fd', index)
  <2>1. Opens(list, index) /\ result' = index
    BY <1>3, <1>7 DEF Opens
  <2> HIDE DEF r, list
  <2> QED
    BY <1>3, <1>4, <1>5, <1>7, <2>1
<1> QED
  BY <1>6, <1>7

\* What an open of a file does: nothing, or the descriptor has a handle of its own.
LEMMA OpenFileFacts ==
  ASSUME FdInv, NEW index \in Fds, NEW mode \in Modes, OpenFile(index, mode)
  PROVE  \/ UNCHANGED <<alt_fd_list, redirected, host_open, held>> /\ result' = EIO
         \/ \E r \in Descriptors :
              /\ r.dev = HostFs /\ ~r.flags.excl /\ ~r.flags.isdev
              /\ r.priv \in Handles \ host_open /\ host_open' = host_open \cup {r.priv}
              /\ redirected' = redirected /\ result' = index
              /\ Opens([alt_fd_list EXCEPT ![index] = r], index)
<1> DEFINE flags == [NoFlags EXCEPT !.mode = mode]
           list == [alt_fd_list EXCEPT ![index].dev = HostFs, ![index].flags = flags]
<1>1. alt_fd_list \in [Fds -> Descriptors]
  BY DEF FdInv, FdTypeOK, Descriptors, Flags
<1>2. flags \in Flags /\ ~flags.excl /\ ~flags.isdev
  BY FlagFacts
<1>3. Gives(index) /\ redirected' = redirected
  BY DEF OpenFile
<1> HIDE DEF flags
<1>4. CASE GivesBack(list, index, EIO) /\ UNCHANGED host_open
  <2>1. alt_fd_list' = alt_fd_list
    BY <1>3, <1>4, GivesBackSame
  <2> QED
    BY <1>3, <1>4, <2>1 DEF GivesBack
<1>5. ASSUME NEW handle \in Handles \ host_open,
             Opens([list EXCEPT ![index].priv = handle], index), host_open' = host_open \cup {handle}
      PROVE  \E r \in Descriptors :
               /\ r.dev = HostFs /\ ~r.flags.excl /\ ~r.flags.isdev
               /\ r.priv \in Handles \ host_open /\ host_open' = host_open \cup {r.priv}
               /\ redirected' = redirected /\ result' = index
               /\ Opens([alt_fd_list EXCEPT ![index] = r], index)
  <2> DEFINE r == [dev |-> HostFs, priv |-> handle, flags |-> flags]
  <2>1. r \in Descriptors /\ r.dev = HostFs /\ r.priv = handle /\ r.flags = flags
    BY <1>2 DEF Descriptors
  <2>2. [list EXCEPT ![index].priv = handle] = [alt_fd_list EXCEPT ![index] = r]
    <3> DEFINE new == [list EXCEPT ![index].priv = handle]
    <3>1. new = [alt_fd_list EXCEPT ![index] = new[index]]
      BY <1>1
    <3>2. /\ new[index] \in Descriptors
          /\ new[index].dev = HostFs /\ new[index].flags = flags /\ new[index].priv = handle
      BY <1>1, <1>2 DEF Descriptors
    <3>3. new[index] = r
      BY <3>2, DescriptorIs
    <3> QED
      BY <3>1, <3>3
  <2>3. result' = index
    BY <1>5 DEF Opens
  <2> HIDE DEF r, list
  <2> QED
    BY <1>2, <1>3, <1>5, <2>1, <2>2, <2>3
<1>6. \/ GivesBack(list, index, EIO) /\ UNCHANGED host_open
      \/ \E handle \in Handles \ host_open :
           Opens([list EXCEPT ![index].priv = handle], index) /\ host_open' = host_open \cup {handle}
  BY DEF OpenFile, flags
<1> QED
  BY <1>4, <1>5, <1>6

LEMMA OpenDeviceInv ==
  ASSUME FdInv, NEW index \in Fds, NEW dev \in Devices, NEW mode \in Modes, OpenDevice(index, dev, mode)
  PROVE  FdInv'
<1>1. /\ running /\ Gives(index) /\ alt_max_fd' = HighWater(index)
      /\ HighWater(index) \in -1 .. ALT_MAX_FD - 1 /\ alt_max_fd <= HighWater(index)
  BY GivenFacts DEF OpenDevice
<1>2. CASE UNCHANGED <<alt_fd_list, redirected, host_open, held>>
  BY <1>1, <1>2, SameInv
<1>3. ASSUME NEW r \in Descriptors, r.dev = dev, UNCHANGED <<redirected, host_open>>,
             Opens([alt_fd_list EXCEPT ![index] = r], index)
      PROVE  FdInv'
  BY <1>1, <1>3, OpensInv
<1> QED
  BY <1>2, <1>3, OpenDeviceFacts

LEMMA OpenFileInv ==
  ASSUME FdInv, NEW index \in Fds, NEW mode \in Modes, OpenFile(index, mode)
  PROVE  FdInv'
<1>1. /\ running /\ Gives(index) /\ alt_max_fd' = HighWater(index)
      /\ HighWater(index) \in -1 .. ALT_MAX_FD - 1 /\ alt_max_fd <= HighWater(index)
  BY GivenFacts DEF OpenFile
<1>2. CASE UNCHANGED <<alt_fd_list, redirected, host_open, held>>
  BY <1>1, <1>2, SameInv
<1>3. ASSUME NEW r \in Descriptors, r.dev = HostFs, ~r.flags.excl, ~r.flags.isdev, redirected' = redirected,
             r.priv \in Handles \ host_open, host_open' = host_open \cup {r.priv},
             Opens([alt_fd_list EXCEPT ![index] = r], index)
      PROVE  FdInv'
  BY <1>1, <1>3, OpensInv
<1> QED
  BY <1>2, <1>3, OpenFileFacts

\* What the calls that change flags do: a file system is not locked.
LEMMA FlagChanges ==
  ASSUME FdInv, NEW f \in DOMAIN held,
         Lock(f) \/ Unlock(f) \/ \E nonblock \in BOOLEAN : Fcntl(f, nonblock)
  PROVE  /\ \E g \in Flags : /\ alt_fd_list' = [alt_fd_list EXCEPT ![f].flags = g]
                             /\ alt_fd_list[f].dev = HostFs => ~g.excl /\ ~g.isdev
                             /\ result' < 0 => g = alt_fd_list[f].flags
         /\ UNCHANGED <<alt_max_fd, redirected, host_open, held>>
<1> DEFINE flags == alt_fd_list[f].flags
<1>1. f \in Fds /\ alt_fd_list \in [Fds -> Descriptors] /\ flags \in Flags
  BY DEF FdInv, FdTypeOK, Descriptors, Flags
<1>2. alt_fd_list[f].dev = HostFs => ~flags.excl /\ ~flags.isdev
  BY <1>1 DEF FdInv, Kept
<1>3. \A g, h \in Flags :
        (g.excl = h.excl /\ g.isdev = h.isdev /\ g.mode = h.mode /\ g.nonblock = h.nonblock) => g = h
  <2> SUFFICES ASSUME NEW g \in Flags, NEW h \in Flags,
                      g.excl = h.excl, g.isdev = h.isdev, g.mode = h.mode, g.nonblock = h.nonblock
               PROVE  g = h
    OBVIOUS
  <2> DEFINE Is(x) == [excl |-> x.excl, isdev |-> x.isdev, mode |-> x.mode, nonblock |-> x.nonblock]
  <2>1. g = Is(g) /\ h = Is(h)
    BY DEF Flags
  <2>2. Is(g) = Is(h)
    OBVIOUS
  <2> HIDE DEF Is
  <2> QED
    BY <2>1, <2>2
<1>4. CASE Lock(f)
  <2> DEFINE granted == flags.isdev /\ Others(f) = {}
             g == [flags EXCEPT !.excl = flags.excl \/ granted]
  <2>1. alt_fd_list' = [alt_fd_list EXCEPT ![f].flags = g]
    BY <1>1, <1>4 DEF Lock
  <2>2. granted \in BOOLEAN /\ (granted => flags.isdev)
    BY <1>1 DEF Flags
  <2>3. result' = IF granted THEN 0 ELSE IF flags.isdev THEN EACCES ELSE ENOTTY
    BY <1>4 DEF Lock
  <2> HIDE DEF granted
  <2>4. /\ g \in Flags /\ g.isdev = flags.isdev /\ g.mode = flags.mode /\ g.nonblock = flags.nonblock
        /\ ~granted => g.excl = flags.excl
    BY <1>1, <2>2 DEF Flags
  <2>5. alt_fd_list[f].dev = HostFs => ~g.excl /\ ~g.isdev
    BY <1>2, <2>2, <2>4
  <2>6. result' < 0 => g = flags
    <3>1. result' < 0 => ~granted
      BY <2>3
    <3> HIDE DEF g, flags
    <3> QED
      BY <1>1, <1>3, <2>4, <3>1
  <2> QED
    BY <1>4, <2>1, <2>4, <2>5, <2>6 DEF Lock
<1>5. CASE Unlock(f)
  <2> DEFINE g == [flags EXCEPT !.excl = flags.excl /\ ~flags.isdev]
  <2>1. alt_fd_list' = [alt_fd_list EXCEPT ![f].flags = g]
    BY <1>1, <1>5 DEF Unlock
  <2>2. result' = IF flags.isdev THEN 0 ELSE ENOTTY
    BY <1>5 DEF Unlock
  <2>3. /\ g \in Flags /\ g.isdev = flags.isdev /\ g.mode = flags.mode /\ g.nonblock = flags.nonblock
        /\ ~flags.isdev => g.excl = flags.excl
        /\ g.excl => flags.excl
    BY <1>1 DEF Flags
  <2>4. alt_fd_list[f].dev = HostFs => ~g.excl /\ ~g.isdev
    BY <1>2, <2>3
  <2>5. result' < 0 => g = flags
    <3>1. result' < 0 => ~flags.isdev
      BY <2>2
    <3> HIDE DEF g, flags
    <3> QED
      BY <1>1, <1>3, <2>3, <3>1
  <2> QED
    BY <1>5, <2>1, <2>3, <2>4, <2>5 DEF Unlock
<1>6. ASSUME NEW nonblock \in BOOLEAN, Fcntl(f, nonblock)
      PROVE  \E g \in Flags : /\ alt_fd_list' = [alt_fd_list EXCEPT ![f].flags = g]
                              /\ alt_fd_list[f].dev = HostFs => ~g.excl /\ ~g.isdev
                              /\ result' < 0 => g = flags
  <2> DEFINE g == [flags EXCEPT !.nonblock = nonblock]
  <2>1. alt_fd_list' = [alt_fd_list EXCEPT ![f].flags = g] /\ result' = 0
    BY <1>1, <1>6 DEF Fcntl
  <2>2. g \in Flags /\ g.isdev = flags.isdev /\ g.excl = flags.excl
    BY <1>1 DEF Flags
  <2>3. (alt_fd_list[f].dev = HostFs => ~g.excl /\ ~g.isdev) /\ (result' < 0 => g = flags)
    BY <1>2, <2>1, <2>2
  <2> HIDE DEF g
  <2> QED
    BY <2>1, <2>2, <2>3
<1>7. (\E nonblock \in BOOLEAN : Fcntl(f, nonblock)) => UNCHANGED <<alt_max_fd, redirected, host_open, held>>
  BY DEF Fcntl
<1> QED
  BY <1>4, <1>5, <1>6, <1>7

\* Held descriptors are places of the pool, so that each disjunct of Next is an action above.
LEMMA FdNextInv == FdInv /\ [Next]_vars => FdInv'
<1> SUFFICES ASSUME FdInv, [Next]_vars PROVE FdInv'
  OBVIOUS
<1>1. alt_max_fd \in -1 .. ALT_MAX_FD - 1 /\ alt_max_fd <= alt_max_fd
  BY FdAssumption DEF FdInv, FdTypeOK
<1>2. CASE OpenUnknown \/ OpenFull \/ UseNegative
  <2>1. running /\ UNCHANGED <<alt_fd_list, alt_max_fd, redirected, host_open, held>>
    BY <1>2 DEF OpenUnknown, OpenFull, UseNegative, Fails
  <2> QED
    BY <1>1, <2>1, SameInv
<1>3. CASE \E index \in Fds : Redirect(index)
  BY <1>3, RedirectInv
<1>4. CASE \E index \in Fds, mode \in Modes : OpenFile(index, mode) \/ \E dev \in Devices : OpenDevice(index, dev, mode)
  BY <1>4, OpenFileInv, OpenDeviceInv
<1>5. ASSUME NEW f \in Fds, Close(f) PROVE FdInv'
  <2>1. f \in DOMAIN held
    BY <1>5 DEF Close
  <2> QED
    BY <1>5, <2>1, CloseInv
<1>6. ASSUME NEW f \in Fds, Lock(f) \/ Unlock(f) \/ \E nonblock \in BOOLEAN : Fcntl(f, nonblock) PROVE FdInv'
  <2>1. f \in DOMAIN held
    BY <1>6 DEF Lock, Unlock, Fcntl
  <2>2. PICK g \in Flags : /\ alt_fd_list' = [alt_fd_list EXCEPT ![f].flags = g]
                           /\ alt_fd_list[f].dev = HostFs => ~g.excl /\ ~g.isdev
    BY <1>6, <2>1, FlagChanges
  <2>3. UNCHANGED <<alt_max_fd, redirected, host_open, held>>
    BY <1>6, <2>1, FlagChanges
  <2> QED
    BY <2>1, <2>2, <2>3, FlagsInv
<1>7. CASE UNCHANGED vars
  BY <1>1, <1>7, SameInv DEF vars
<1> QED
  BY <1>2, <1>3, <1>4, <1>5, <1>6, <1>7 DEF Next

THEOREM FdInvariant == Spec => []FdInv
BY FdInitInv, FdNextInv, PTL DEF Spec

\* Every descriptor, the mark and the host's files keep their types.
THEOREM FdTypes == Spec => []FdTypeOK
<1>1. FdInv => FdTypeOK
  BY DEF FdInv
<1> QED
  BY <1>1, FdInvariant, PTL

\* A descriptor refers to the device or file it was opened for until the program closes it,
\* whatever is opened, closed, locked or refused in between.
THEOREM HeldStayOpen == Spec => []HeldAreOpen
<1>1. FdInv => HeldAreOpen
  BY DEF FdInv
<1> QED
  BY <1>1, FdInvariant, PTL

\* open and close leave no file of the host open without a descriptor, nor one with two.
THEOREM HandlesHaveOwners == Spec => []HandlesOwned
<1>1. FdInv => HandlesOwned
  BY DEF FdInv
<1> QED
  BY <1>1, FdInvariant, PTL

\* alt_file_locked, which looks up to the mark only, sees every open descriptor.
THEOREM MarkIsEnough == Spec => []MarkCoversOpen
<1>1. FdInv => MarkCoversOpen
  BY DEF FdInv
<1> QED
  BY <1>1, FdInvariant, PTL

\* A lock that was found by nobody is not there: the descriptors of the program are at most at
\* the mark.
LEMMA NoLockOnOpened ==
  ASSUME FdInv, NEW index \in Fds, Gives(index), alt_max_fd' = HighWater(index), NEW r \in Descriptors,
         ~alt_file_locked([alt_fd_list EXCEPT ![index] = r], alt_max_fd', index),
         NEW f \in DOMAIN held, alt_fd_list[f].flags.excl
  PROVE  r.dev # held[f].dev
<1> DEFINE list == [alt_fd_list EXCEPT ![index] = r]
<1>1. /\ index > 2 /\ f # index /\ alt_max_fd' \in -1 .. ALT_MAX_FD - 1
      /\ index <= alt_max_fd' /\ alt_max_fd <= alt_max_fd'
  BY GivenFacts
<1>2. f \in Fds /\ f \in 0 .. ALT_MAX_FD - 1 /\ ALT_MAX_FD \in Nat /\ alt_max_fd \in -1 .. ALT_MAX_FD - 1
      /\ index \in 0 .. ALT_MAX_FD - 1 /\ DOMAIN alt_fd_list = Fds
  BY FdAssumption DEF FdInv, FdTypeOK, Fds
<1>3. f \notin free
  BY <1>2 DEF FdInv, HeldInv, free
<1>4. f \in Streams \/ f <= alt_max_fd
  BY <1>2, <1>3 DEF FdInv, MarkCoversOpen
<1>5. f \in 0 .. alt_max_fd'
  BY <1>1, <1>2, <1>4 DEF Streams
<1>6. list[f] = alt_fd_list[f] /\ list[index] = r
  BY <1>1, <1>2
<1>7. ~(list[f].dev = list[index].dev /\ list[f].flags.excl)
  BY <1>1, <1>5 DEF alt_file_locked
<1>8. held[f].dev = alt_fd_list[f].dev
  BY DEF FdInv, HeldAreOpen, Target
<1> QED
  BY <1>6, <1>7, <1>8

\* A new descriptor is of no device that another one holds for itself.
Respects ==
  \A index \in Fds, f \in DOMAIN held :
    (index \in DOMAIN held' \ DOMAIN held /\ alt_fd_list[f].flags.excl) => held'[index].dev # held[f].dev

\* The search for locks misses none.
LEMMA RespectsStep == FdInv /\ [Next]_vars => [Respects]_vars
<1> SUFFICES ASSUME FdInv, [Next]_vars,
                    NEW given \in Fds, NEW f \in DOMAIN held,
                    given \in DOMAIN held' \ DOMAIN held, alt_fd_list[f].flags.excl
             PROVE  held'[given].dev # held[f].dev
  BY DEF Respects
<1>1. f \in Fds /\ running
  BY DEF FdInv, FdTypeOK, Startup
<1>2. held' # held
  OBVIOUS
<1>3. ~OpenUnknown /\ ~OpenFull /\ ~UseNegative /\ ~UNCHANGED vars
  BY <1>2 DEF OpenUnknown, OpenFull, UseNegative, Fails, vars
<1>4. \A i \in Fds : ~Redirect(i)
  BY <1>1, FdAssumption DEF Redirect, running
<1>5. ASSUME NEW i \in Fds PROVE ~Close(i)
  <2> SUFFICES ASSUME Close(i) PROVE FALSE
    OBVIOUS
  <2>1. i \in DOMAIN held /\ DOMAIN held' \subseteq DOMAIN held
    BY CloseFacts DEF Close
  <2> QED
    BY <2>1
<1>6. \A i \in Fds : /\ ~Lock(i) /\ ~Unlock(i)
                     /\ \A nonblock \in BOOLEAN : ~Fcntl(i, nonblock)
  BY <1>2 DEF Lock, Unlock, Fcntl
<1>7. ASSUME NEW index \in Fds, NEW dev \in Devices, NEW mode \in Modes, OpenDevice(index, dev, mode)
      PROVE  held'[given].dev # held[f].dev
  <2>1. PICK r \in Descriptors :
          /\ Opens([alt_fd_list EXCEPT ![index] = r], index) /\ UNCHANGED <<redirected, host_open>> /\ r.dev = dev
          /\ ~alt_file_locked([alt_fd_list EXCEPT ![index] = r], alt_max_fd', index)
    BY <1>2, <1>7, OpenDeviceFacts
  <2>2. Gives(index) /\ alt_max_fd' = HighWater(index)
    BY <1>7 DEF OpenDevice
  <2>3. DOMAIN held' = DOMAIN held \cup {index} /\ held'[index] = Target(r)
    BY <1>1, <2>1, <2>2, OpensInv
  <2>4. r.dev # held[f].dev
    BY <2>1, <2>2, NoLockOnOpened
  <2> QED
    BY <2>3, <2>4 DEF Target
<1>8. ASSUME NEW index \in Fds, NEW mode \in Modes, OpenFile(index, mode)
      PROVE  held'[given].dev # held[f].dev
  <2>1. PICK r \in Descriptors :
          /\ r.dev = HostFs /\ ~r.flags.excl /\ ~r.flags.isdev
          /\ r.priv \in Handles \ host_open /\ host_open' = host_open \cup {r.priv}
          /\ redirected' = redirected /\ Opens([alt_fd_list EXCEPT ![index] = r], index)
    BY <1>2, <1>8, OpenFileFacts
  <2>2. Gives(index) /\ alt_max_fd' = HighWater(index)
    BY <1>8 DEF OpenFile
  <2>3. DOMAIN held' = DOMAIN held \cup {index} /\ held'[index] = Target(r)
    BY <1>1, <2>1, <2>2, OpensInv
  <2>4. held[f].dev # HostFs
    BY <1>1 DEF FdInv, Kept, HeldAreOpen, Target
  <2> QED
    BY <2>1, <2>3, <2>4 DEF Target
<1> QED
  BY <1>3, <1>4, <1>5, <1>6, <1>7, <1>8 DEF Next

LEMMA RespectsIs ==
  [Respects]_vars <=> [\A index \in Fds, f \in DOMAIN held :
                         /\ index \in DOMAIN held' \ DOMAIN held
                         /\ alt_fd_list[f].flags.excl
                         => held'[index].dev # held[f].dev]_vars
BY DEF Respects

\* open never hands out a device that another descriptor holds for itself, with any number of
\* descriptors: the search for locks misses none.
THEOREM OpenRespectsLocks == Spec => OpenRespectsLock
BY RespectsStep, RespectsIs, FdInvariant, PTL DEF Spec, OpenRespectsLock

\* A failed call leaves everything as it was, if the program holds what it did.
Leaves == result' < 0 /\ UNCHANGED held => UNCHANGED <<alt_fd_list, host_open>>

\* An open that fails gives back what it took.
LEMMA LeavesStep == FdInv /\ [Next]_vars => [Leaves]_vars
<1> SUFFICES ASSUME FdInv, [Next]_vars, result' < 0, UNCHANGED held, ~UNCHANGED vars
             PROVE  UNCHANGED <<alt_fd_list, host_open>>
  BY DEF Leaves
<1>1. CASE OpenUnknown \/ OpenFull \/ UseNegative
  BY <1>1 DEF OpenUnknown, OpenFull, UseNegative, Fails
<1>2. ASSUME NEW i \in Fds PROVE ~Redirect(i) /\ ~(i < 0)
  <2>1. i \in 0 .. ALT_MAX_FD - 1 /\ ALT_MAX_FD \in Nat
    BY FdAssumption DEF Fds
  <2>2. ~running => result = 0
    BY DEF FdInv, Startup
  <2> QED
    BY <2>1, <2>2 DEF Redirect, running
<1>3. ASSUME NEW index \in Fds, NEW dev \in Devices, NEW mode \in Modes, OpenDevice(index, dev, mode)
      PROVE  UNCHANGED <<alt_fd_list, host_open>>
  BY <1>2, <1>3, OpenDeviceFacts
<1>4. ASSUME NEW index \in Fds, NEW mode \in Modes, OpenFile(index, mode)
      PROVE  UNCHANGED <<alt_fd_list, host_open>>
  BY <1>2, <1>4, OpenFileFacts
<1>5. ASSUME NEW f \in Fds, Close(f) PROVE UNCHANGED <<alt_fd_list, host_open>>
  <2>1. f \in DOMAIN held
    BY <1>5 DEF Close
  <2>2. f \in Streams
    BY <1>5, <2>1, CloseFacts
  <2> QED
    BY <1>5, <2>1, <2>2, CloseFacts
<1>6. ASSUME NEW f \in Fds, Lock(f) \/ Unlock(f) \/ \E nonblock \in BOOLEAN : Fcntl(f, nonblock)
      PROVE  UNCHANGED <<alt_fd_list, host_open>>
  <2>1. f \in DOMAIN held
    BY <1>6 DEF Lock, Unlock, Fcntl
  <2>2. alt_fd_list' = [alt_fd_list EXCEPT ![f].flags = alt_fd_list[f].flags] /\ UNCHANGED host_open
    BY <1>6, <2>1, FlagChanges
  <2>3. alt_fd_list \in [Fds -> Descriptors]
    BY DEF FdInv, FdTypeOK, Descriptors, Flags
  <2>4. alt_fd_list' = alt_fd_list
    <3> DEFINE list == [alt_fd_list EXCEPT ![f].flags = alt_fd_list[f].flags]
    <3>1. list = [alt_fd_list EXCEPT ![f] = list[f]]
      BY <1>6, <2>3
    <3>2. /\ list[f] \in Descriptors /\ list[f].dev = alt_fd_list[f].dev
          /\ list[f].priv = alt_fd_list[f].priv /\ list[f].flags = alt_fd_list[f].flags
      BY <1>6, <2>3 DEF Descriptors
    <3>3. list[f] = alt_fd_list[f]
      BY <1>6, <2>3, <3>2, DescriptorIs
    <3> QED
      BY <1>6, <2>2, <2>3, <3>1, <3>3
  <2> QED
    BY <2>2, <2>4
<1> QED
  BY <1>1, <1>2, <1>3, <1>4, <1>5, <1>6 DEF Next

LEMMA LeavesIs ==
  [Leaves]_vars <=> [result' < 0 /\ UNCHANGED held => UNCHANGED <<alt_fd_list, host_open>>]_vars
BY DEF Leaves

\* A call that fails gives every descriptor it took back as it was and leaves no file open at the
\* host, unless it is a close.
THEOREM FailuresLeaveNothing == Spec => FailureLeavesNothing
BY LeavesStep, LeavesIs, FdInvariant, PTL DEF Spec, FailureLeavesNothing

\* Descriptors and files of the host keep what they were opened for, with one owner.
THEOREM DescriptorsAreKept == Spec => []DescriptorsKept
BY HeldStayOpen, HandlesHaveOwners, PTL DEF DescriptorsKept

\* No call touches what another one holds or locks.
THEOREM OthersAreRespected == Spec => CallsRespectOthers
BY OpenRespectsLocks, FailuresLeaveNothing DEF CallsRespectOthers

-----------------------------------------------------------------------------
(* The calls of alt_io *)

\* Each file that is open at the host has a name that is there, and no step mixes them up.
HostInv ==
  /\ changed \in [Files -> {0, 1}]
  /\ DOMAIN file_of = Handles /\ \A h \in host_open : file_of[h] \in Files

IoInv == FdInv /\ HostInv

\* A call that reports something and does nothing else.
Reports == running /\ UNCHANGED <<alt_fd_list, alt_max_fd, redirected, host_open, held>>

\* A call of alt_io is one of alt_fd, or one that leaves descriptors alone.
LEMMA IoIsFd ==
  ASSUME FdInv, [IoNext]_ioVars
  PROVE  [Next]_vars \/ Reports
<1>1. CASE UNCHANGED ioVars
  BY <1>1 DEF ioVars
<1>2. DOMAIN held \subseteq Fds /\ \A f \in DOMAIN held : running
  BY DEF FdInv, FdTypeOK, Startup
<1>3. ASSUME NEW f, NEW values, DeviceAnswers(f, values) PROVE Reports
  BY <1>2, <1>3 DEF DeviceAnswers, Reports
<1>4. ASSUME NEW name, NEW mode \in Modes, OpenName(name, mode) PROVE Next
  <2>1. alt_find_dev(name) \subseteq Devices
    BY DEF alt_find_dev
  <2> QED
    BY <1>4, <2>1 DEF OpenName, Next
<1>5. ASSUME NEW f, CloseFd(f) PROVE Next
  <2>1. f \in Fds
    BY <1>2, <1>5 DEF CloseFd, Close
  <2> QED
    BY <1>5, <2>1 DEF CloseFd, Next
<1>6. ASSUME UseNegative PROVE Next
  BY <1>6 DEF Next
<1>7. CASE FdOnly
  BY <1>7 DEF FdOnly, Next
<1>8. ASSUME NEW f, Read(f) \/ Write(f) \/ Lseek(f) \/ Fstat(f) \/ Isatty(f) \/ FcntlRest(f) \/ IoctlRest(f)
      PROVE  Reports
  BY <1>3, <1>8 DEF Read, Write, Lseek, Fstat, Isatty, FcntlRest, IoctlRest
<1>9. CASE IoCalls
  BY <1>4, <1>5, <1>7, <1>8, <1>9 DEF IoCalls
<1>10. CASE \E name \in Names : StatOpen(name)
  <2>1. "read" \in Modes
    BY DEF Modes
  <2> QED
    BY <1>4, <1>10, <2>1 DEF StatOpen
<1>11. CASE StatFstat
  BY <1>6, <1>8, <1>11 DEF StatFstat
<1>12. CASE StatClose
  BY <1>5, <1>6, <1>12 DEF StatClose
<1> QED
  BY <1>1, <1>9, <1>10, <1>11, <1>12 DEF IoNext

LEMMA ReportsKeeps == ASSUME FdInv, Reports PROVE FdInv'
<1>1. alt_max_fd \in -1 .. ALT_MAX_FD - 1 /\ alt_max_fd <= alt_max_fd
  BY FdAssumption DEF FdInv, FdTypeOK
<1> QED
  BY <1>1, SameInv DEF Reports

\* Opening a file gives its handle the name of it, and closing it takes just that one away.
LEMMA OpenKeepsHost ==
  ASSUME IoInv, NEW name, NEW mode, OpenName(name, mode)
  PROVE  HostInv' /\ changed' = changed
<1>1. CASE UNCHANGED <<host_open, file_of, changed>>
  BY <1>1 DEF IoInv, HostInv
<1>2. CASE \E index \in Fds : OpenFile(index, mode) /\ (HostName(name) \notin Files => result' < 0)
                              /\ file_of' = [h \in Handles |-> IF h \in host_open' \ host_open THEN HostName(name) ELSE file_of[h]]
                              /\ UNCHANGED changed
  <2>1. PICK index \in Fds : OpenFile(index, mode)
    BY <1>2
  <2>2. index \in 0 .. ALT_MAX_FD - 1 /\ ALT_MAX_FD \in Nat
    BY FdAssumption DEF Fds
  <2>3. host_open' = host_open \/ (result' = index /\ host_open' \subseteq Handles)
    BY <2>1 DEF OpenFile, Opens, IoInv, FdInv, FdTypeOK
  <2>4. host_open' # host_open => HostName(name) \in Files
    BY <1>2, <2>2, <2>3
  <2>5. host_open' \subseteq Handles
    BY <2>3 DEF IoInv, FdInv, FdTypeOK
  <2>6. \A h \in host_open' : file_of'[h] \in Files
    BY <1>2, <2>4, <2>5 DEF IoInv, HostInv
  <2> QED
    BY <1>2, <2>6 DEF IoInv, HostInv
<1>3. ASSUME NEW index, NEW dev, OpenDevice(index, dev, mode) PROVE UNCHANGED host_open
  BY <1>3 DEF OpenDevice
<1>4. OpenUnknown \/ OpenFull => UNCHANGED host_open
  BY DEF OpenUnknown, OpenFull, Fails
<1> QED
  BY <1>1, <1>2, <1>3, <1>4 DEF OpenName, hostVars

LEMMA CloseKeepsHost ==
  ASSUME IoInv, NEW f, CloseFd(f)
  PROVE  HostInv' /\ changed' = changed
<1>1. host_open' \subseteq host_open
  BY DEF CloseFd, Close
<1>2. host_open \subseteq Handles
  BY DEF IoInv, FdInv, FdTypeOK
<1> QED
  BY <1>1, <1>2 DEF CloseFd, IoInv, HostInv

\* Whoever writes to a file holds a descriptor of it and has opened it for writing.
Writers ==
  \A file \in Files :
    changed'[file] # changed[file] =>
      \E f \in DOMAIN held : /\ held[f].dev = HostFs /\ file_of[held[f].priv] = file
                             /\ alt_fd_list[f].flags.mode = "write"

LEMMA WriteIsOwn ==
  ASSUME IoInv, NEW f, Write(f)
  PROVE  HostInv' /\ Writers
<1>1. /\ f \in DOMAIN held /\ UNCHANGED <<file_of, host_open>>
      /\ changed' = IF MayWrite(f) /\ Dev(f) = HostFs /\ result' = 1
                    THEN [changed EXCEPT ![file_of[alt_fd_list[f].priv]] = 1 - @] ELSE changed
  BY DEF Write, DeviceAnswers
<1>2. changed' \in [Files -> {0, 1}]
  <2>1. changed \in [Files -> {0, 1}]
    BY DEF IoInv, HostInv
  <2>2. CASE changed' = changed
    BY <2>1, <2>2
  <2>3. CASE changed' = [changed EXCEPT ![file_of[alt_fd_list[f].priv]] = 1 - @]
    <3> DEFINE wr == file_of[alt_fd_list[f].priv]
    <3>1. \A file \in Files : changed'[file] = IF file = wr THEN 1 - changed[file] ELSE changed[file]
      BY <2>1, <2>3
    <3>2. \A file \in Files : changed'[file] \in {0, 1}
      BY <2>1, <3>1
    <3>3. changed' = [file \in Files |-> changed'[file]]
      BY <2>1, <2>3
    <3> QED
      BY <3>2, <3>3
  <2> QED
    BY <1>1, <2>2, <2>3
<1>3. Writers
  <2> SUFFICES ASSUME NEW file \in Files, changed'[file] # changed[file]
               PROVE  /\ held[f].dev = HostFs /\ file_of[held[f].priv] = file
                      /\ alt_fd_list[f].flags.mode = "write"
    BY <1>1 DEF Writers
  <2>1. MayWrite(f) /\ Dev(f) = HostFs /\ file = file_of[alt_fd_list[f].priv]
    BY <1>1 DEF IoInv, HostInv
  <2>2. held[f] = Target(alt_fd_list[f]) /\ f \in Fds
    BY <1>1 DEF IoInv, FdInv, HeldAreOpen, FdTypeOK
  <2>3. alt_fd_list[f].flags.mode \in Modes
    BY <2>2 DEF IoInv, FdInv, FdTypeOK
  <2> QED
    BY <2>1, <2>2, <2>3 DEF MayWrite, Mode, Dev, Target, Modes
<1> QED
  BY <1>1, <1>2, <1>3 DEF IoInv, HostInv

LEMMA IoStep ==
  ASSUME IoInv, [IoNext]_ioVars
  PROVE  IoInv' /\ Writers
<1>1. FdInv'
  BY IoIsFd, ReportsKeeps, FdNextInv DEF IoInv
<1>2. UNCHANGED <<host_open, file_of, changed>> => HostInv' /\ Writers
  BY DEF IoInv, HostInv, Writers
<1>3. ASSUME NEW f, Read(f) \/ Lseek(f) \/ Fstat(f) \/ Isatty(f) \/ FcntlRest(f) \/ IoctlRest(f)
      PROVE  UNCHANGED <<host_open, file_of, changed>>
  BY <1>3 DEF DeviceAnswers, Read, Lseek, Fstat, Isatty, FcntlRest, IoctlRest, hostVars
<1>4. UseNegative => UNCHANGED host_open
  BY DEF UseNegative, Fails
<1>5. FdOnly => UNCHANGED <<host_open, file_of, changed>>
  BY <1>4 DEF FdOnly, Redirect, Lock, Unlock, Fcntl, hostVars
<1>6. HostInv' /\ Writers
  <2>1. CASE UNCHANGED ioVars
    BY <1>2, <2>1 DEF ioVars, vars, hostVars
  <2>2. CASE \E name \in Names, mode \in Modes : OpenName(name, mode)
    BY <2>2, OpenKeepsHost DEF Writers
  <2>3. CASE \E f \in Fds : CloseFd(f)
    BY <2>3, CloseKeepsHost DEF Writers
  <2>4. CASE \E f \in Fds : Write(f)
    BY <2>4, WriteIsOwn
  <2>5. CASE \E f \in Fds : Read(f) \/ Lseek(f) \/ Fstat(f) \/ Isatty(f) \/ FcntlRest(f) \/ IoctlRest(f)
    BY <1>2, <1>3, <2>5
  <2>6. CASE \E name \in Names : StatOpen(name)
    BY <2>6, OpenKeepsHost DEF StatOpen, Writers
  <2>7. CASE StatFstat
    <3>1. UNCHANGED <<host_open, file_of, changed>>
      BY <1>3, <1>4, <2>7 DEF StatFstat, hostVars
    <3> QED
      BY <1>2, <3>1
  <2>8. CASE StatClose
    <3>1. CASE UseNegative /\ UNCHANGED hostVars
      BY <1>2, <1>4, <3>1 DEF hostVars
    <3>2. CASE CloseFd(stat.fd)
      BY <3>2, CloseKeepsHost DEF Writers
    <3> QED
      BY <2>8, <3>1, <3>2 DEF StatClose
  <2>9. IoCalls => \/ FdOnly \/ \E name \in Names, mode \in Modes : OpenName(name, mode)
                   \/ \E f \in Fds : CloseFd(f) \/ Write(f)
                   \/ \E f \in Fds : Read(f) \/ Lseek(f) \/ Fstat(f) \/ Isatty(f) \/ FcntlRest(f) \/ IoctlRest(f)
    BY DEF IoCalls
  <2> QED
    BY <1>2, <1>5, <2>1, <2>2, <2>3, <2>4, <2>5, <2>6, <2>7, <2>8, <2>9 DEF IoNext
<1> QED
  BY <1>1, <1>6 DEF IoInv

LEMMA IoInvariant == IoSpec => []IoInv
<1>1. IoInit => IoInv
  <2> SUFFICES ASSUME IoInit PROVE IoInv
    OBVIOUS
  <2>1. FdInv
    BY FdInitInv DEF IoInit
  <2> QED
    BY <2>1 DEF IoInit, Init, IoInv, HostInv
<1>2. IoInv /\ [IoNext]_ioVars => IoInv'
  BY IoStep
<1> QED
  BY <1>1, <1>2, PTL DEF IoSpec

\* Reading, writing, seeking, asking and stat leave every descriptor what it was opened for
\* (alt_read.c, alt_write.c, alt_lseek.c, alt_fstat.c, alt_stat.c).
THEOREM DescriptorsAreKeptInUse == IoSpec => []DescriptorsKept
<1>1. IoInv => DescriptorsKept
  BY DEF IoInv, FdInv, DescriptorsKept
<1> QED
  BY <1>1, IoInvariant, PTL

\* Nor do they, stat with its ignored errors included, touch what others hold or lock.
THEOREM OthersAreRespectedInUse == IoSpec => CallsRespectOthers
<1>1. IoInv /\ [IoNext]_ioVars => [Respects]_vars /\ [Leaves]_vars
  <2> SUFFICES ASSUME IoInv, [IoNext]_ioVars PROVE [Respects]_vars /\ [Leaves]_vars
    OBVIOUS
  <2>1. CASE [Next]_vars
    BY <2>1, RespectsStep, LeavesStep DEF IoInv
  <2>2. CASE Reports
    BY <2>2 DEF Reports, Respects, Leaves
  <2> QED
    BY <2>1, <2>2, IoIsFd DEF IoInv
<1> QED
  BY <1>1, RespectsIs, LeavesIs, IoInvariant, PTL DEF IoSpec, CallsRespectOthers, OpenRespectsLock, FailureLeavesNothing

\* A write changes the file its descriptor was opened for, although a descriptor that is released
\* keeps its handle and the host gives handles anew (alt_write.c, altera_hostfs.c, alt_release_fd.c).
THEOREM WritersAlone == IoSpec => OnlyWritersChange
<1>1. IoInv /\ [IoNext]_ioVars => [Writers]_ioVars
  BY IoStep
<1>2. [Writers]_ioVars <=>
        [\A file \in Files :
           changed'[file] # changed[file] =>
             \E f \in DOMAIN held : /\ held[f].dev = HostFs /\ file_of[held[f].priv] = file
                                    /\ alt_fd_list[f].flags.mode = "write"]_ioVars
  BY DEF Writers
<1> QED
  BY <1>1, <1>2, IoInvariant, PTL DEF IoSpec, OnlyWritersChange
================================================================================
