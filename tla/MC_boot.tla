------------------------------- MODULE MC_boot -------------------------------
(* The devices of this system, a heap of four bytes in words of two, and one reset. *)
EXTENDS alt_main

IrqsDef == 0 .. 2
CtorsDef == <<"ctor 1", "ctor 2">>
DtorsDef == <<"dtor 1", "dtor 2">>
IncrementsDef == {-2, 1, 2}
==============================================================================
