------------------------- MODULE acc_bilinear_scaling -------------------------
(***************************************************************************)
(* The accelerator (hardware/acc_bilinear_scaling.vhd) around its double   *)
(* line buffer RAM_writer.  Pixels of the input image stream in, pixels of *)
(* the scaled image stream out.                                            *)
(*                                                                         *)
(* As in RAM_writer, a step is a rising edge, a VHDL process an operator,  *)
(* a combinational signal a state function, and a port a parameter.  Where *)
(* a product of pixel values and weights moves through the pipeline, the   *)
(* model moves the pixels and the weights themselves: what has to be right *)
(* is which pixels meet which weights, at which output position.           *)
(***************************************************************************)
EXTENDS Integers, RAM_writer

CONSTANTS C_NFRAC,       \* Fractional bits of the input coordinates
          C_SCALE_FRAC   \* Fractional bits of the scaling factors

ASSUME FracAssumption == C_NFRAC \in Nat /\ C_SCALE_FRAC \in Nat

VARIABLES current_state,             \* st_wait, st_read or st_process
          r_read_status,             \* Cycle of the read, 0 to 2 (one-hot in the code)
          register_map,              \* Parameters written by the software
          r_width_out, r_height_out, \* Size of the output image
          c_x_out, c_y_out,          \* Output pixel being computed
          r_x, r_y,                  \* Its input coordinates, fixed point
          r_top, r_bottom,           \* Pixel group: left and right pixel of two rows
          r_subp, r_alpha_y_d1,      \* Pipeline: weighted along x ...
          r_subp_top_bot, r_prod,    \* ... along y, and the sum
          r_valid, r_last, r_sop,    \* Output handshake; index 0 is the output port
          r_flush,                   \* Sticky: drop what is left of the input image
          r_reinit,                  \* Restart of the output counters
          r_ctl_reset                \* Restart requested by the software

accVars == <<current_state, r_read_status, register_map, r_width_out, r_height_out,
             c_x_out, c_y_out, r_x, r_y, r_top, r_bottom, r_subp, r_alpha_y_d1,
             r_subp_top_bot, r_prod, r_valid, r_last, r_sop, r_flush, r_reinit, r_ctl_reset>>

Params == {"sx", "sy", "x_inc", "y_inc", "width", "height", "ctl"}
NoWrite == [addr |-> "none", data |-> 0]

Stages == 0 .. 2   \* C_VALID_DELAY pipeline stages

-----------------------------------------------------------------------------
(* Combinational signals *)

floor(x) == x \div 2 ^ C_NFRAC
alpha(x) == x % 2 ^ C_NFRAC

r_floor_x == floor(r_x)
r_floor_y == floor(r_y)
w_x_incremented == r_x + register_map["x_inc"]
w_y_incremented == r_y + register_map["y_inc"]

last_x == c_x_out = r_width_out - 1
last_y == c_y_out = r_height_out - 1

w_proc_flag(ready) ==
  /\ floor(w_x_incremented) > r_floor_x \/ last_x
  /\ current_state = "st_process"
  /\ ready

\* Mutant: off by one at the bottom of the image.
w_need_new_row_AtBottom ==
  /\ last_x
  /\ floor(w_y_incremented) > r_floor_y
  /\ floor(w_y_incremented) < register_map["height"]

w_need_new_row ==
  /\ last_x
  /\ floor(w_y_incremented) > r_floor_y
  /\ floor(w_y_incremented) < register_map["height"] - 1

w_ram_rd == current_state = "st_read"

c_ram_rd_addr ==
  IF current_state = "st_read" /\ r_read_status > 0 /\ r_floor_x # register_map["width"] - 1
  THEN r_floor_x + 1
  ELSE r_floor_x

\* The RAMs given back.  r_ram_sel is the active RAM: of two filled ones the
\* older, so the top row.
top_RAM == r_ram_sel
bottom_RAM == Other(r_ram_sel)

\* Mutant: the wrong RAM is given back for the next row.
RAM_RESET_PROC_Swapped ==
  IF w_need_new_row THEN {bottom_RAM}
  ELSE IF r_floor_y > c_row_count THEN Rams
  ELSE IF r_floor_y = c_row_count THEN {bottom_RAM}
  ELSE IF r_flush \/ (last_x /\ last_y) THEN Rams
  ELSE {}

RAM_RESET_PROC ==
  IF w_need_new_row THEN {top_RAM}
  ELSE IF r_floor_y > c_row_count THEN Rams
  ELSE IF r_floor_y = c_row_count THEN {bottom_RAM}
  ELSE IF r_flush \/ (last_x /\ last_y) THEN Rams
  ELSE {}

\* The read of a pixel group takes three cycles.
read_done == r_read_status = 2

NEXT_STATE_PROCESS(ready) ==
  CASE current_state = "st_wait" ->
         IF r_ram_filled[0] /\ r_ram_filled[1] THEN "st_read" ELSE "st_wait"
    [] current_state = "st_read" ->
         IF read_done THEN "st_process" ELSE "st_read"
    [] current_state = "st_process" ->
         IF ~w_proc_flag(ready) THEN "st_process"
         ELSE IF c_x_out < r_width_out - 1 THEN "st_read"
         ELSE "st_wait"

-----------------------------------------------------------------------------
(* Clocked processes *)

CONTROL_STATE(ready) == current_state' = NEXT_STATE_PROCESS(ready)

\* The coordinates and the position of the next output pixel.  At the last
\* pixel of the image the position stops until r_reinit.
next_x == IF floor(w_x_incremented) < register_map["width"] /\ ~last_x
          THEN w_x_incremented ELSE 0

next_y == IF floor(w_y_incremented) < register_map["height"] /\ ~last_y
          THEN w_y_incremented ELSE 0

next_x_out == IF c_x_out + 1 <= r_width_out - 1 THEN c_x_out + 1
              ELSE IF last_x /\ last_y /\ ~r_reinit THEN c_x_out ELSE 0

next_y_out == IF c_y_out + 1 <= r_height_out - 1 THEN c_y_out + 1
              ELSE IF last_y /\ ~r_reinit THEN c_y_out ELSE 0

\* A position register moves with the pixels, and is restarted by r_reinit.
Moved(ready, reg, moves, value) ==
  IF ready /\ r_reinit THEN 0 ELSE IF moves THEN value ELSE reg

POSITION(ready) ==
  LET step == ready /\ current_state = "st_process"
  IN  /\ r_x' = Moved(ready, r_x, step, next_x)
      /\ r_y' = Moved(ready, r_y, step /\ last_x, next_y)
      /\ c_x_out' = Moved(ready, c_x_out, step, next_x_out)
      /\ c_y_out' = Moved(ready, c_y_out, step /\ last_x, next_y_out)

\* v_floor_y, which decides whether the top row saturates: at the end of an
\* output row it has already been overwritten with the floor of the next one.
v_floor_y == IF last_x THEN floor(w_y_incremented) ELSE r_floor_y

v_top == IF v_floor_y # register_map["height"] - 1 THEN r_top ELSE r_bottom

\* The pixel group with its weight along x, and later along y.
weighted_along_x == [topleft |-> v_top[0], topright |-> v_top[1],
                     botleft |-> r_bottom[0], botright |-> r_bottom[1],
                     alpha_x |-> alpha(r_x)]

\* Mutant: the weight along y is not delayed with the pixels.
weighted_along_y_Undelayed == [group |-> r_subp, alpha_y |-> alpha(r_y)]

weighted_along_y == [group |-> r_subp, alpha_y |-> r_alpha_y_d1]

Shift(reg, in) == [i \in Stages |-> IF i = 2 THEN in ELSE reg[i + 1]]

\* The pipeline moves with the ready of the output, a bubble when not processing.
PIPELINE(ready) ==
  LET processing == current_state = "st_process"
  IN  IF ready
      THEN /\ r_subp' = IF processing THEN weighted_along_x ELSE r_subp
           /\ r_alpha_y_d1' = alpha(r_y)
           /\ r_subp_top_bot' = weighted_along_y
           /\ r_prod' = r_subp_top_bot
           /\ r_valid' = Shift(r_valid, processing)
           /\ r_last' = Shift(r_last, processing /\ last_x)
           /\ r_sop' = Shift(r_sop, processing /\ c_x_out = 0)
      ELSE UNCHANGED <<r_subp, r_alpha_y_d1, r_subp_top_bot, r_prod, r_valid, r_last, r_sop>>

PROCESSING(ready) == POSITION(ready) /\ PIPELINE(ready)

\* Mutant: the flush flag is not sticky.
next_flush_NotSticky == ~r_ctl_reset /\ last_x /\ last_y

next_flush == ~r_ctl_reset /\ (r_flush \/ (last_x /\ last_y))

\* eop is the bare line of the input stream, with or without valid.
FLUSH_PROCESS(eop, ready) ==
  /\ r_flush' = next_flush
  /\ r_reinit' = (last_x /\ last_y /\ (w_proc_flag(ready) \/ eop))

CTL_REG_PROC(mm) == r_ctl_reset' = (mm.addr = "ctl" /\ mm.data % 2 = 1)

READ_DATA_BUFFERS ==
  LET Buffer(i) == /\ r_top' = [r_top EXCEPT ![i] = data_out[top_RAM]]
                   /\ r_bottom' = [r_bottom EXCEPT ![i] = data_out[bottom_RAM]]
  IN  IF current_state = "st_read"
      THEN /\ r_read_status' = (r_read_status + 1) % 3
           /\ CASE r_read_status = 0 -> UNCHANGED <<r_top, r_bottom>>
                [] r_read_status = 1 -> Buffer(0)
                [] r_read_status = 2 -> Buffer(1)
      ELSE UNCHANGED <<r_read_status, r_top, r_bottom>>

OUTPUT_DIMS_CALC ==
  /\ r_width_out' = (register_map["width"] * register_map["sx"]) \div 2 ^ C_SCALE_FRAC
  /\ r_height_out' = (register_map["height"] * register_map["sy"]) \div 2 ^ C_SCALE_FRAC

WRITE_MM(mm) ==
  register_map' = IF mm.addr \in Params THEN [register_map EXCEPT ![mm.addr] = mm.data]
                                        ELSE register_map

-----------------------------------------------------------------------------
NoGroup == [topleft |-> NoPixel, topright |-> NoPixel,
            botleft |-> NoPixel, botright |-> NoPixel, alpha_x |-> 0]

\* The state after the power-on reset.
AccInit ==
  /\ WriterInit
  /\ current_state = "st_wait"
  /\ r_read_status = 0
  /\ register_map = [p \in Params |-> 0]
  /\ r_width_out = 0 /\ r_height_out = 0
  /\ c_x_out = 0 /\ c_y_out = 0 /\ r_x = 0 /\ r_y = 0
  /\ r_top = [i \in {0, 1} |-> NoPixel] /\ r_bottom = [i \in {0, 1} |-> NoPixel]
  /\ r_subp = NoGroup /\ r_alpha_y_d1 = 0
  /\ r_subp_top_bot = [group |-> NoGroup, alpha_y |-> 0]
  /\ r_prod = [group |-> NoGroup, alpha_y |-> 0]
  /\ r_valid = [i \in Stages |-> FALSE]
  /\ r_last = [i \in Stages |-> FALSE]
  /\ r_sop = [i \in Stages |-> FALSE]
  /\ r_flush = FALSE /\ r_reinit = FALSE /\ r_ctl_reset = FALSE

\* One rising edge: valid, data and eop from the input stream, ready from the
\* output stream, mm the write on the parameter port.
AccClock(valid, data, eop, ready, mm) ==
  /\ WriterClock(valid, data, eop, w_ram_rd, c_ram_rd_addr, RAM_RESET_PROC, r_ctl_reset)
  /\ CONTROL_STATE(ready)
  /\ PROCESSING(ready)
  /\ FLUSH_PROCESS(eop, ready)
  /\ CTL_REG_PROC(mm)
  /\ READ_DATA_BUFFERS
  /\ OUTPUT_DIMS_CALC
  /\ WRITE_MM(mm)

\* What the output port shows.
aso_valid == r_valid[0]
aso_last == r_last[0]
aso_sop == r_sop[0]
aso_data == r_prod
=============================================================================
