--------------------------------- MODULE alt_io ---------------------------------
(***************************************************************************)
(* What the program does with the descriptors of alt_fd: it opens devices  *)
(* and files by name, reads, writes, seeks and asks about them.  The files *)
(* are the host's, which the image files are read from and written to; of  *)
(* their contents the model keeps a bit that every write flips.            *)
(*                                                                         *)
(* result has the error a call reports, with a minus, whether the call     *)
(* returns it (ioctl, fstat of a file) or returns -1 and sets errno.       *)
(***************************************************************************)
EXTENDS alt_fd, Sequences

CONSTANTS Names,       \* What the program asks for, as sequences of characters
          NameOf,      \* Names of the devices
          Mount,       \* The name of the host file system
          Files        \* Names of the files at the host

ASSUME IoAssumption ==
  /\ NameOf \in [Devices -> Seq(STRING)] /\ Mount \in Seq(STRING) /\ Len(Mount) > 1
  /\ Names \subseteq Seq(STRING)

VARIABLES
  file_of,             \* At the host: the file of each handle that is open
  changed,             \* At the host: flips with each write to the file
  stat                 \* The call alt_stat is about to make, and on which descriptor

hostVars == <<file_of, changed>>
ioVars == <<vars, hostVars, stat>>

NoStat == [next |-> "open", fd |-> 0]
Idle == stat = NoStat

IoInit == Init /\ file_of = [h \in Handles |-> None] /\ changed = [f \in Files |-> 0] /\ stat = NoStat

ENOTSUP == -134
EINVAL == -22

-----------------------------------------------------------------------------
(* Names *)

\* A device has to be named in full.
alt_find_dev(name) == {d \in Devices : NameOf[d] = name}

\* The name of a mount point, without a slash at its end.
Root == IF Mount[Len(Mount)] = "/" THEN SubSeq(Mount, 1, Len(Mount) - 1) ELSE Mount

\* A file system has to be named by the beginning, up to a slash or the end of the name.
alt_find_file(name) ==
  /\ Len(name) >= Len(Root) /\ SubSeq(name, 1, Len(Root)) = Root
  /\ Len(name) > Len(Root) => name[Len(Root) + 1] = "/"

\* What alt_hostfs_open tells the host: the name behind the mount point and the slash.
HostName(name) == SubSeq(name, Len(Mount) + 2, Len(name))

-----------------------------------------------------------------------------
(* open, close, and what changes nothing in the list *)

OpenName(name, mode) ==
  LET devs == alt_find_dev(name)
  IN \/ devs = {} /\ ~alt_find_file(name) /\ OpenUnknown /\ UNCHANGED hostVars
     \/ (devs # {} \/ alt_find_file(name)) /\ OpenFull /\ UNCHANGED hostVars
     \/ \E index \in Fds, dev \in devs : OpenDevice(index, dev, mode) /\ UNCHANGED hostVars
     \/ /\ devs = {} /\ alt_find_file(name)
        /\ \E index \in Fds : OpenFile(index, mode)
        /\ HostName(name) \notin Files => result' < 0
        /\ file_of' = [h \in Handles |-> IF h \in host_open' \ host_open THEN HostName(name) ELSE file_of[h]]
        /\ UNCHANGED changed

CloseFd(f) ==
  /\ Close(f)
  /\ file_of' = [h \in Handles |-> IF h \in host_open' THEN file_of[h] ELSE None]
  /\ UNCHANGED changed

\* A call on descriptor f that reports one of some values.
DeviceAnswers(f, values) ==
  /\ f \in DOMAIN held /\ result' \in values
  /\ UNCHANGED <<alt_fd_list, alt_max_fd, redirected, host_open, held>>

Dev(f) == alt_fd_list[f].dev
Mode(f) == alt_fd_list[f].flags.mode

\* Which devices have a function for what not all of them can: the host's alone can seek and tell
\* about files, that of the UART alone takes requests of its own.
HasSeekAndFstat(f) == Dev(f) = HostFs
HasIoctl(f) == Dev(f) \notin {DevNull, HostFs}

\* Mutant: how the file was opened is not looked at.
MayWrite_Any(f) == Dev(f) # None

\* The access mode, and a function to call: all devices have one for writing.
MayWrite(f) == Mode(f) # "read"
MayRead(f) == Mode(f) # "write" /\ Dev(f) # DevNull

\* alt_hostfs_read, altera_avalon_jtag_uart_read_fd: the count, or an error of the host.
Read(f) == DeviceAnswers(f, IF MayRead(f) THEN {1, EIO} ELSE {EACCES}) /\ UNCHANGED hostVars

\* alt_dev_null_write, altera_avalon_jtag_uart_write_fd and alt_hostfs_write.
Write(f) ==
  /\ DeviceAnswers(f, IF ~MayWrite(f) THEN {EACCES} ELSE IF Dev(f) = DevNull THEN {1} ELSE {1, EIO})
  /\ changed' = IF MayWrite(f) /\ Dev(f) = HostFs /\ result' = 1
                THEN [changed EXCEPT ![file_of[alt_fd_list[f].priv]] = 1 - @] ELSE changed
  /\ UNCHANGED file_of

\* Only files can be positioned.
Lseek(f) == DeviceAnswers(f, IF HasSeekAndFstat(f) THEN {0, EIO} ELSE {ENOTSUP}) /\ UNCHANGED hostVars

\* All other devices are said to be character devices.
Fstat(f) == DeviceAnswers(f, IF HasSeekAndFstat(f) THEN {0, EIO} ELSE {0}) /\ UNCHANGED hostVars

\* For a file the answer of fstat is looked at whether it has failed or not: what it has left
\* unwritten may say anything.
Isatty(f) == DeviceAnswers(f, IF HasSeekAndFstat(f) THEN {0, 1} ELSE {1}) /\ UNCHANGED hostVars

\* F_GETFL reports the flags, and there is no other command.
FcntlRest(f) == DeviceAnswers(f, {0, EINVAL}) /\ UNCHANGED hostVars

\* Requests for the driver itself, for which that of the UART may have an answer.
IoctlRest(f) == DeviceAnswers(f, IF HasIoctl(f) THEN {0, ENOTTY} ELSE {ENOTTY}) /\ UNCHANGED hostVars

-----------------------------------------------------------------------------
(* alt_stat: open, fstat and close, whatever they report *)

StatOpen(name) ==
  /\ Idle /\ OpenName(name, "read")
  /\ stat' = [next |-> "fstat", fd |-> result']

\* A failed open makes both other calls fail, and their error replaces its own.
StatFstat ==
  /\ stat.next = "fstat" /\ stat' = [stat EXCEPT !.next = "close"]
  /\ IF stat.fd < 0 THEN UseNegative /\ UNCHANGED hostVars ELSE Fstat(stat.fd)

StatClose ==
  /\ stat.next = "close" /\ stat' = NoStat
  /\ IF stat.fd < 0 THEN UseNegative /\ UNCHANGED hostVars ELSE CloseFd(stat.fd)

-----------------------------------------------------------------------------
\* Calls of alt_fd that leave the host alone.
FdOnly ==
  /\ UNCHANGED hostVars
  /\ \/ UseNegative
     \/ \E index \in Fds : Redirect(index)
     \/ \E f \in Fds : Lock(f) \/ Unlock(f)
     \/ \E f \in Fds, nonblock \in BOOLEAN : Fcntl(f, nonblock)

IoCalls ==
  \/ FdOnly
  \/ \E name \in Names, mode \in Modes : OpenName(name, mode)
  \/ \E f \in Fds : CloseFd(f) \/ Read(f) \/ Write(f) \/ Lseek(f) \/ Fstat(f) \/ Isatty(f) \/ FcntlRest(f) \/ IoctlRest(f)

IoNext ==
  \/ Idle /\ IoCalls /\ UNCHANGED stat
  \/ \E name \in Names : StatOpen(name)
  \/ StatFstat \/ StatClose

IoSpec == IoInit /\ [][IoNext]_ioVars

-----------------------------------------------------------------------------
(* Properties *)

\* A file at the host changes only by a write through a descriptor that the program holds for just
\* that file and has opened for writing: no other descriptor's handle is mixed up for it, although
\* a descriptor that is released keeps its handle.
OnlyWritersChange ==
  [][\A file \in Files :
       changed'[file] # changed[file] =>
         \E f \in DOMAIN held : /\ held[f].dev = HostFs /\ file_of[held[f].priv] = file
                                /\ alt_fd_list[f].flags.mode = "write"]_ioVars
=================================================================================
