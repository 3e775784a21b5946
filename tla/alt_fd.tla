-------------------------------- MODULE alt_fd --------------------------------
(***************************************************************************)
(* The file descriptors of the HAL: open, close, ioctl for exclusive       *)
(* access and fcntl, over the registered devices and the host file system, *)
(* which images are read from and results are written to.  The system runs *)
(* one thread, so that a call is a step.  The calls that use a descriptor  *)
(* without changing it are in alt_io.                                      *)
(***************************************************************************)
EXTENDS Integers

CONSTANTS ALT_MAX_FD,
          Devices,             \* In alt_dev_list
          DevNull, Stdio,      \* Two of them: "/dev/null", and the one of the standard streams
          HostFs,              \* In alt_fs_list
          Handles,             \* Files of the host, while they are open
          None

ASSUME FdAssumption ==
  /\ ALT_MAX_FD \in Nat /\ ALT_MAX_FD > 3
  /\ DevNull \in Devices /\ Stdio \in Devices /\ HostFs \notin Devices
  /\ None \notin Devices \cup {HostFs} \cup Handles

VARIABLES
  alt_fd_list,       \* dev, priv and fd_flags, of which excl is ALT_FD_EXCL, isdev is ALT_FD_DEV
  alt_max_fd,
  redirected,        \* How many standard streams have been redirected
  host_open,         \* Handles that are open at the host
  held,              \* What the program has been given each of its descriptors for
  result             \* Of the last call: a descriptor or 0, or an error

vars == <<alt_fd_list, alt_max_fd, redirected, host_open, held, result>>

Fds == 0 .. ALT_MAX_FD - 1
Streams == 0 .. 2
Modes == {"read", "write"}  \* O_RDONLY, O_WRONLY

\* Errors, as ALT_ERRNO has them without the sign.
EIO == -5
EACCES == -13
ENODEV == -19
EMFILE == -24
ENOTTY == -25
EBADFD == -81

NoFlags == [excl |-> FALSE, isdev |-> FALSE, mode |-> "read", nonblock |-> FALSE]
NewFd(dev, priv, flags) == [dev |-> dev, priv |-> priv, flags |-> flags]

Init ==
  /\ alt_fd_list = [i \in Fds |-> NewFd(IF i \in Streams THEN DevNull ELSE None, None, NoFlags)]
  /\ alt_max_fd = -1 /\ redirected = 0 /\ host_open = {}
  /\ held = [i \in {} |-> None] /\ result = 0

\* Whom the calls with a descriptor are passed on to.
Target(fd) == [dev |-> fd.dev, priv |-> fd.priv]

-----------------------------------------------------------------------------
(* The pool of descriptors *)

free == {i \in Fds : alt_fd_list[i].dev = None}

\* The descriptor alt_get_fd gives: the first one that is free.
Gives(index) == index \in free /\ \A i \in 0 .. index - 1 : i \notin free

HighWater(index) == IF index > alt_max_fd THEN index ELSE alt_max_fd

\* The private data is left behind.
alt_release_fd(list, index) ==
  IF index > 2 THEN [list EXCEPT ![index].flags = NoFlags, ![index].dev = None] ELSE list

alt_file_locked(list, max, index) ==
  \E i \in 0 .. max : i # index /\ list[i].dev = list[index].dev /\ list[i].flags.excl

\* The descriptors alt_fd_lock looks at: the one at the mark is not among them.
Others(index) == {i \in 0 .. alt_max_fd - 1 : i # index /\ alt_fd_list[i].dev = alt_fd_list[index].dev}

-----------------------------------------------------------------------------
(* alt_io_redirect, before main: each stream takes over what open gives *)

Redirect(index) ==
  /\ redirected < 3
  /\ Gives(index) /\ alt_max_fd' = HighWater(index)
  /\ LET stream == IF redirected = 0 THEN 1 ELSE IF redirected = 1 THEN 0 ELSE 2
         mode == IF stream = 0 THEN "read" ELSE "write"
     IN alt_fd_list' = [alt_fd_list EXCEPT
                          ![stream] = NewFd(Stdio, alt_fd_list[index].priv,
                                            [NoFlags EXCEPT !.isdev = TRUE, !.mode = mode])]
  /\ redirected' = redirected + 1
  /\ held' = IF redirected < 2 THEN held ELSE [i \in Streams |-> Target(alt_fd_list'[i])]
  /\ UNCHANGED <<host_open, result>>

running == redirected = 3

-----------------------------------------------------------------------------
(* open *)

\* A call that fails before anything is opened.
Fails(error) == result' = error /\ UNCHANGED <<alt_fd_list, alt_max_fd, redirected, host_open, held>>

OpenUnknown == running /\ Fails(ENODEV)

OpenFull == running /\ free = {} /\ Fails(EMFILE)

\* An open that succeeds: the list with the new descriptor.
Opens(list, index) ==
  /\ alt_fd_list' = list /\ result' = index
  /\ held' = [i \in DOMAIN held \cup {index} |-> IF i = index THEN Target(list[i]) ELSE held[i]]

\* Mutant: the descriptor is kept.
GivesBack_Kept(list, index, error) ==
  /\ alt_fd_list' = list /\ result' = error /\ UNCHANGED held

\* An open that fails: the descriptor is given back.
GivesBack(list, index, error) ==
  /\ alt_fd_list' = alt_release_fd(list, index) /\ result' = error /\ UNCHANGED held

OpenDevice(index, dev, mode) ==
  /\ running /\ Gives(index) /\ alt_max_fd' = HighWater(index)
  /\ LET list == [alt_fd_list EXCEPT ![index].dev = dev,
                                     ![index].flags = [NoFlags EXCEPT !.mode = mode, !.isdev = TRUE]]
     IN IF alt_file_locked(list, alt_max_fd', index) THEN GivesBack(list, index, EACCES)
        ELSE Opens(list, index)
  /\ UNCHANGED <<redirected, host_open>>

\* alt_hostfs_open; the host opens the file or refuses to.
OpenFile(index, mode) ==
  /\ running /\ Gives(index) /\ alt_max_fd' = HighWater(index)
  /\ LET list == [alt_fd_list EXCEPT ![index].dev = HostFs, ![index].flags = [NoFlags EXCEPT !.mode = mode]]
     IN \/ /\ GivesBack(list, index, EIO) /\ UNCHANGED host_open
        \/ \E handle \in Handles \ host_open :
             /\ Opens([list EXCEPT ![index].priv = handle], index)
             /\ host_open' = host_open \cup {handle}
  /\ UNCHANGED redirected

-----------------------------------------------------------------------------
(* Calls with a descriptor that was given to the program *)

\* The number a failed open returned, and nothing else, is caught.
UseNegative == running /\ Fails(EBADFD)

\* Mutant: nobody tells the host.
Close_NoCallback(f) ==
  /\ f \in DOMAIN held
  /\ alt_fd_list' = alt_release_fd(alt_fd_list, f)
  /\ held' = [i \in DOMAIN held \ ({f} \ Streams) |-> held[i]]
  /\ result' = 0 /\ UNCHANGED <<host_open, alt_max_fd, redirected>>

\* The driver is called, and the descriptor is released whatever it returns; a handle is closed
\* at the host.
Close(f) ==
  /\ f \in DOMAIN held
  /\ host_open' = host_open \ {h \in {alt_fd_list[f].priv} : alt_fd_list[f].dev = HostFs}
  /\ alt_fd_list' = alt_release_fd(alt_fd_list, f)
  /\ held' = [i \in DOMAIN held \ ({f} \ Streams) |-> held[i]]
  /\ result' \in (IF alt_fd_list[f].dev = DevNull THEN {0} ELSE {0, EIO}) /\ UNCHANGED <<alt_max_fd, redirected>>

\* TIOCEXCL; a file system has no ioctl.
Lock(f) ==
  /\ f \in DOMAIN held
  /\ LET isdev == alt_fd_list[f].flags.isdev
         granted == isdev /\ Others(f) = {}
     IN /\ alt_fd_list' = [alt_fd_list EXCEPT ![f].flags.excl = @ \/ granted]
        /\ result' = IF granted THEN 0 ELSE IF isdev THEN EACCES ELSE ENOTTY
  /\ UNCHANGED <<alt_max_fd, redirected, host_open, held>>

\* TIOCNXCL
Unlock(f) ==
  /\ f \in DOMAIN held
  /\ alt_fd_list' = [alt_fd_list EXCEPT ![f].flags.excl = @ /\ ~alt_fd_list[f].flags.isdev]
  /\ result' = (IF alt_fd_list[f].flags.isdev THEN 0 ELSE ENOTTY)
  /\ UNCHANGED <<alt_max_fd, redirected, host_open, held>>

\* F_SETFL, which has the flags of the call replace O_NONBLOCK only.
Fcntl(f, nonblock) ==
  /\ f \in DOMAIN held
  /\ alt_fd_list' = [alt_fd_list EXCEPT ![f].flags.nonblock = nonblock]
  /\ result' = 0 /\ UNCHANGED <<alt_max_fd, redirected, host_open, held>>

Next ==
  \/ OpenUnknown \/ OpenFull \/ UseNegative
  \/ \E index \in Fds : Redirect(index)
  \/ \E index \in Fds, mode \in Modes : OpenFile(index, mode) \/ \E dev \in Devices : OpenDevice(index, dev, mode)
  \/ \E f \in Fds : Close(f) \/ Lock(f) \/ Unlock(f)
  \/ \E f \in Fds, nonblock \in BOOLEAN : Fcntl(f, nonblock)

Spec == Init /\ [][Next]_vars

-----------------------------------------------------------------------------
(* Properties *)

FdTypeOK ==
  /\ alt_fd_list \in [Fds -> [dev : Devices \cup {HostFs, None}, priv : Handles \cup {None},
                              flags : [excl : BOOLEAN, isdev : BOOLEAN, mode : Modes, nonblock : BOOLEAN]]]
  /\ alt_max_fd \in -1 .. ALT_MAX_FD - 1 /\ redirected \in 0 .. 3
  /\ host_open \subseteq Handles /\ DOMAIN held \subseteq Fds

\* A descriptor the program holds refers to the device or the file it was opened for until the
\* program closes it: none is given twice or taken away.
HeldAreOpen == \A f \in DOMAIN held : Target(alt_fd_list[f]) = held[f]

\* The files that are open at the host are those of the descriptors, one each: none is left open
\* by an open that fails or a close.
HandlesOwned ==
  LET files == {i \in Fds : alt_fd_list[i].dev = HostFs}
  IN /\ host_open = {alt_fd_list[i].priv : i \in files}
     /\ \A i, j \in files : alt_fd_list[i].priv = alt_fd_list[j].priv => i = j

\* The standard streams always have a device, and no open descriptor lies above the mark, to
\* which alt_file_locked looks for locks.
MarkCoversOpen ==
  \A i \in Fds : IF i \in Streams THEN i \notin free ELSE i \in free \/ i <= alt_max_fd

\* open does not give out a device that another descriptor holds for itself.
OpenRespectsLock ==
  [][\A index \in Fds, f \in DOMAIN held :
       /\ index \in DOMAIN held' \ DOMAIN held
       /\ alt_fd_list[f].flags.excl
       => held'[index].dev # held[f].dev]_vars

\* A call that returns an error has changed no descriptor, except for a close that has released one.
FailureLeavesNothing ==
  [][result' < 0 /\ UNCHANGED held => UNCHANGED <<alt_fd_list, host_open>>]_vars

\* Of each descriptor and of each file of the host: it stays what it was opened for, with one owner.
DescriptorsKept == HeldAreOpen /\ HandlesOwned

\* What a call may never do to the descriptors of others, whether it succeeds or fails.
CallsRespectOthers == OpenRespectsLock /\ FailureLeavesNothing
===============================================================================
