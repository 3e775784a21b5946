------------------------------- MODULE CharFifo -------------------------------
(***************************************************************************)
(* What a ring buffer of the UART driver promises: a bounded queue of      *)
(* characters, taken in the order they were put, each of them once.  The   *)
(* characters are numbered as they are put.                                *)
(***************************************************************************)
EXTENDS Integers, Sequences

CONSTANT Capacity

VARIABLES put,     \* How many characters have been put
          queue,
          taken    \* The characters taken

fifoVars == <<put, queue, taken>>

FifoInit == put = 0 /\ queue = <<>> /\ taken = <<>>

Put ==
  \E n \in 1 .. Capacity - Len(queue) :
    /\ put' = put + n
    /\ queue' = queue \o [i \in 1 .. n |-> put + i]
    /\ UNCHANGED taken

Take ==
  \E n \in 1 .. Len(queue) :
    /\ taken' = taken \o SubSeq(queue, 1, n)
    /\ queue' = SubSeq(queue, n + 1, Len(queue))
    /\ UNCHANGED put

FifoSpec == FifoInit /\ [][Put \/ Take]_fifoVars
===============================================================================
