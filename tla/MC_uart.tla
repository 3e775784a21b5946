------------------------------- MODULE MC_uart -------------------------------
(* The UART driver on this board, which has no system clock, and on one that has. *)
EXTENDS altera_avalon_jtag_uart

Setup(a, w, t) == [alarm |-> a, written |-> w, typed |-> t]

SmallSetups == {Setup(FALSE, 4, 0), Setup(FALSE, 0, 5), Setup(FALSE, 2, 2), Setup(TRUE, 4, 0)}
==============================================================================
