----------------------------- MODULE RAM_writer -----------------------------
(***************************************************************************)
(* The double line buffer of the accelerator (hardware/RAM_writer.vhd and  *)
(* its two hardware/RAM.vhd).  Pixels arrive on an Avalon-ST input; a row  *)
(* ends with the beat that carries end-of-packet.  Rows go alternately to  *)
(* RAM 0 and RAM 1, and whoever reads the rows gives a RAM back by raising *)
(* its bit of ram_reset.                                                   *)
(*                                                                         *)
(* The circuit is synchronous: one step, Clock, is one rising edge.  Every *)
(* VHDL process is an operator that sets the registers the process sets,   *)
(* every concurrent assignment is a state function, and the ports that the *)
(* surrounding logic drives are the parameters of Clock.                   *)
(***************************************************************************)
EXTENDS Naturals

CONSTANTS C_RAM_DEPTH,  \* Words in one RAM, 2^G_RAM_ADDR_WIDTH
          NoPixel       \* Content of a word that was never written

ASSUME DepthAssumption == C_RAM_DEPTH \in Nat \ {0}

VARIABLES c_wr_addr,     \* Write address of each RAM
          r_ram_filled,  \* Does the RAM hold a complete row?
          r_ram_sel,     \* RAM the next pixel is written to
          c_row_count,   \* Complete rows accepted since the last restart
          memory,        \* Contents of the RAMs
          data_out       \* Read register of each RAM

writerVars == <<c_wr_addr, r_ram_filled, r_ram_sel, c_row_count, memory, data_out>>

Rams == {0, 1}
Other(i) == 1 - i

-----------------------------------------------------------------------------
(* Combinational signals *)

\* Mutant: always ready.
ready_Always == TRUE

w_asi_input_data_ready == ~(r_ram_filled[0] /\ r_ram_filled[1])

w_wr(valid) == valid /\ w_asi_input_data_ready

\* A pixel is stored only if the selected RAM has been given back: with the
\* other RAM free but the selected one filled, it is accepted and lost.
w_wr_array(valid) == [i \in Rams |-> w_wr(valid) /\ ~r_ram_filled[i] /\ r_ram_sel = i]

-----------------------------------------------------------------------------
(* Clocked processes *)

NextAddress(i, eop) ==
  IF eop \/ c_wr_addr[i] = C_RAM_DEPTH - 1 THEN 0 ELSE c_wr_addr[i] + 1

WRITE_POSITION(valid, eop) ==
  c_wr_addr' = [i \in Rams |-> IF w_wr_array(valid)[i] THEN NextAddress(i, eop)
                                                       ELSE c_wr_addr[i]]

\* The reset of a RAM overrides the row that completes in the same cycle.
RAM_FILLED_STATUSES(valid, eop, ram_reset) ==
  r_ram_filled' = [i \in Rams |-> /\ \/ r_ram_filled[i]
                                     \/ w_wr(valid) /\ eop /\ r_ram_sel = i
                                  /\ i \notin ram_reset]

\* Mutant: the selection does not toggle.
RAM_SELECT_Stuck(valid, eop) == r_ram_sel' = r_ram_sel

RAM_SELECT(valid, eop) ==
  r_ram_sel' = IF w_wr_array(valid)[r_ram_sel] /\ eop THEN Other(r_ram_sel) ELSE r_ram_sel

COUNT_ROWS(valid, eop, reset_row_count) ==
  c_row_count' = IF reset_row_count THEN 0
                 ELSE IF w_wr(valid) /\ eop THEN c_row_count + 1
                 ELSE c_row_count

READ_PROCESS(rd, rd_addr) ==
  data_out' = IF rd THEN [i \in Rams |-> memory[i][rd_addr]] ELSE data_out

WRITE_PROCESS(valid, data) ==
  memory' = [i \in Rams |-> IF w_wr_array(valid)[i]
                            THEN [memory[i] EXCEPT ![c_wr_addr[i]] = data]
                            ELSE memory[i]]

-----------------------------------------------------------------------------
\* The state after the power-on reset.
WriterInit ==
  /\ c_wr_addr = [i \in Rams |-> 0]
  /\ r_ram_filled = [i \in Rams |-> FALSE]
  /\ r_ram_sel = 0
  /\ c_row_count = 0
  /\ memory = [i \in Rams |-> [a \in 0 .. C_RAM_DEPTH - 1 |-> NoPixel]]
  /\ data_out = [i \in Rams |-> NoPixel]

\* One rising edge.  valid, data and eop are the input stream, rd and rd_addr
\* the read port, ram_reset the set of RAMs given back, reset_row_count the
\* restart between two images.
WriterClock(valid, data, eop, rd, rd_addr, ram_reset, reset_row_count) ==
  /\ WRITE_POSITION(valid, eop)
  /\ RAM_FILLED_STATUSES(valid, eop, ram_reset)
  /\ RAM_SELECT(valid, eop)
  /\ COUNT_ROWS(valid, eop, reset_row_count)
  /\ READ_PROCESS(rd, rd_addr)
  /\ WRITE_PROCESS(valid, data)
=============================================================================
