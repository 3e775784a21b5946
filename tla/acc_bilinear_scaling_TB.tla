------------------------ MODULE acc_bilinear_scaling_TB ------------------------
(***************************************************************************)
(* The accelerator between the three parties of its test bench:            *)
(*   - a source that streams the input image, one packet per row, with     *)
(*     arbitrary gaps (hardware/avs_source.vhd),                           *)
(*   - a sink that takes the output and may withhold ready                 *)
(*     (hardware/avs_sink.vhd),                                            *)
(*   - a host that writes the parameters, lets source and sink run until   *)
(*     both are done, and writes the restart bit.  It runs a list of jobs, *)
(*     each programmed in the order of bilinear_scaling_hw.c.              *)
(* Every step is one rising edge of the common clock.                      *)
(***************************************************************************)
EXTENDS acc_bilinear_scaling, Sequences

CONSTANT JobLists  \* The sequences of jobs to run, records [width, height, sx, sy, stall];
                   \* stall bounds the cycles in a row the sink is not ready

ASSUME JobsAssumption ==
  \A jl \in JobLists : \A j \in 1 .. Len(jl) :
    /\ jl[j].width \in 1 .. C_RAM_DEPTH
    /\ jl[j].stall \in Nat

\* What 2 ^ is of the fixed-point widths.
ASSUME ExponentsAssumption ==
  2 ^ C_NFRAC \in Nat \ {0} /\ 2 ^ C_SCALE_FRAC \in Nat \ {0} /\ 2 ^ (4 + C_NFRAC) \in Nat \ {0}

VARIABLES jobs,       \* The jobs the host has to do
          pc,         \* The host: "params", "run", "ctl", "restart" or "done"
          param,      \* Parameter the host writes next
          image,      \* Jobs completed
          row, col,   \* Input pixel the source presents
          rx_y, rx_x, \* Output pixel the sink expects
          stall       \* Cycles since the sink was last ready

hostVars == <<jobs, pc, param, image>>
sourceVars == <<row, col>>
sinkVars == <<rx_y, rx_x, stall>>
tbVars == <<writerVars, accVars, hostVars, sourceVars, sinkVars>>

Model == INSTANCE bilinear_scaling
           WITH BILINEAR_SCALING_SF_NINT <- 3, BILINEAR_SCALING_SF_NFRAC <- C_SCALE_FRAC,
                BILINEAR_SCALING_NINT <- 4, BILINEAR_SCALING_NFRAC <- C_NFRAC

Pixel(i, r, c) == <<i, r, c>>

Job == jobs[IF image < Len(jobs) THEN image + 1 ELSE image]
out_width == Model!output_size(Job.width, Job.sx)
out_height == Model!output_size(Job.height, Job.sy)

-----------------------------------------------------------------------------
(* The parties *)

\* The order of the writes in bilinear_scaling_hw.
ParamWrites == <<[addr |-> "width",  data |-> Job.width],
                 [addr |-> "height", data |-> Job.height],
                 [addr |-> "x_inc",  data |-> Model!increment(Job.sx)],
                 [addr |-> "y_inc",  data |-> Model!increment(Job.sy)],
                 [addr |-> "sx",     data |-> Job.sx],
                 [addr |-> "sy",     data |-> Job.sy]>>

host_write == CASE pc = "params" -> ParamWrites[param]
                [] pc = "ctl" -> [addr |-> "ctl", data |-> 1]
                [] OTHER -> NoWrite

sending == pc = "run" /\ row < Job.height

\* The end-of-packet line of the source is a register of its own: it is up
\* with the last pixel of a row whether or not valid is.
source_last == sending /\ col = Job.width - 1

tx_done == pc = "run" /\ row = Job.height
rx_done == pc = "run" /\ rx_y = out_height

Source(valid) ==
  IF w_wr(valid)
  THEN /\ col' = IF source_last THEN 0 ELSE col + 1
       /\ row' = IF source_last THEN row + 1 ELSE row
  ELSE UNCHANGED sourceVars

Sink(ready) ==
  /\ stall' = IF ready THEN 0 ELSE stall + 1
  /\ IF ready /\ aso_valid
     THEN /\ rx_x' = IF rx_x = out_width - 1 THEN 0 ELSE rx_x + 1
          /\ rx_y' = IF rx_x = out_width - 1 THEN rx_y + 1 ELSE rx_y
     ELSE UNCHANGED <<rx_y, rx_x>>

-----------------------------------------------------------------------------
TBInit ==
  /\ AccInit
  /\ jobs \in JobLists
  /\ pc = "params" /\ param = 1 /\ image = 0
  /\ row = 0 /\ col = 0
  /\ rx_y = 0 /\ rx_x = 0 /\ stall = 0

\* The host programs the accelerator; nothing streams.
WriteParams(ready) ==
  /\ pc = "params"
  /\ AccClock(FALSE, NoPixel, FALSE, ready, host_write)
  /\ Sink(ready)
  /\ IF param < Len(ParamWrites) THEN pc' = pc /\ param' = param + 1
                                 ELSE pc' = "run" /\ param' = 1
  /\ UNCHANGED <<jobs, image, sourceVars>>

\* Source and sink run.
Stream(valid, ready) ==
  /\ pc = "run" /\ ~(tx_done /\ rx_done)
  /\ valid => sending
  /\ AccClock(valid, Pixel(image, row, col), source_last, ready, NoWrite)
  /\ Source(valid)
  /\ Sink(ready)
  /\ UNCHANGED hostVars

\* Both are done: the host leaves its two waiting loops ...
Finish(ready) ==
  /\ tx_done /\ rx_done
  /\ AccClock(FALSE, NoPixel, FALSE, ready, NoWrite)
  /\ Sink(ready)
  /\ pc' = "ctl"
  /\ UNCHANGED <<jobs, param, image, sourceVars>>

\* ... and writes the restart bit, which takes effect one cycle later.
WriteCtl(ready) ==
  /\ pc = "ctl"
  /\ AccClock(FALSE, NoPixel, FALSE, ready, host_write)
  /\ Sink(ready)
  /\ pc' = "restart"
  /\ UNCHANGED <<jobs, param, image, sourceVars>>

Restart(ready) ==
  /\ pc = "restart"
  /\ AccClock(FALSE, NoPixel, FALSE, ready, NoWrite)
  /\ pc' = IF image + 1 < Len(jobs) THEN "params" ELSE "done"
  /\ image' = image + 1
  /\ row' = 0 /\ col' = 0
  /\ rx_y' = 0 /\ rx_x' = 0 /\ stall' = IF ready THEN 0 ELSE stall + 1
  /\ UNCHANGED <<jobs, param>>

Idle(ready) ==
  /\ pc = "done"
  /\ AccClock(FALSE, NoPixel, FALSE, ready, NoWrite)
  /\ stall' = IF ready THEN 0 ELSE stall + 1
  /\ UNCHANGED <<hostVars, sourceVars, rx_y, rx_x>>

Edge(valid, ready) ==
  /\ ~ready => stall < Job.stall
  /\ \/ Stream(valid, ready)
     \/ ~valid /\ (WriteParams(ready) \/ Finish(ready) \/ WriteCtl(ready) \/ Restart(ready) \/ Idle(ready))

TBNext == \E valid, ready \in BOOLEAN : Edge(valid, ready)

\* The source presents its pixels, and the sink takes them, again and again:
\* both draw valid and ready at random, with probabilities above 0.
TBSpec == TBInit /\ [][TBNext]_tbVars /\ WF_tbVars(Edge(sending, TRUE))

-----------------------------------------------------------------------------
(* Properties *)

\* The jobs that the test bench promises something for. A row has the four pixels it takes to
\* fill the pipeline and fits a RAM, the output more than one column, and no row is lost to a
\* sink that is not ready: its stalls leave the four clocks of the pipeline in a row, and
\* before the restart there are none.
Handled(jl) ==
  /\ jl \in Seq([width : Nat, height : Nat, sx : Nat, sy : Nat, stall : Nat]) /\ Len(jl) > 0
  /\ \A i \in 1 .. Len(jl) :
       /\ jl[i].width \in 4 .. C_RAM_DEPTH /\ jl[i].height > 0
       /\ jl[i].sx > 0 /\ jl[i].sy > 0
       /\ Model!output_size(jl[i].width, jl[i].sx) > 1
       /\ Model!output_size(jl[i].height, jl[i].sy) > 0
       /\ jl[i].stall <= IF i = Len(jl) THEN jl[i].width - 4 ELSE 0

\* While a job is programmed, the size of the output is computed from the new size and the old
\* factors, or from a new width and an old height. None of these is an output of one pixel, whose
\* end would be reached at once.
NeverLost(jl) ==
  \A i \in 1 .. Len(jl) - 1 : \A h \in {jl[i].height, jl[i + 1].height} :
    ~ /\ Model!output_size(jl[i + 1].width, jl[i].sx) = 1
      /\ Model!output_size(h, jl[i].sy) = 1

\* The pipeline does not hold pixels of three output rows: a row has more pixels than that takes,
\* or the sink stalls for less than the clocks between two rows.
RowByRow(jl) ==
  \A i \in 1 .. Len(jl) : Model!output_size(jl[i].width, jl[i].sx) > 2 \/ jl[i].stall < 4

\* An image has a pair of rows: with one row alone both sides would wait for the other.
HasPair(jl) == \A i \in 1 .. Len(jl) : jl[i].height > 1

\* The group the software model computes output pixel (v, u) from.
Expected(v, u) ==
  LET g == Model!group(Job.width, Job.height, Job.sx, Job.sy, v, u)
      At(p) == Pixel(image, p[1], p[2])
  IN  [group |-> [topleft |-> At(g.topleft), topright |-> At(g.topright),
                  botleft |-> At(g.botleft), botright |-> At(g.botright),
                  alpha_x |-> g.alpha_x],
       alpha_y |-> g.alpha_y]

TopSaturates(v) == Model!GET_INT(v * Model!increment(Job.sy)) = Job.height - 1

\* The deviation of the last column, see OutputMatchesModel.
RowEndDeviates(v, u) == u = out_width - 1 /\ (TopSaturates(v) # TopSaturates(v + 1))

\* avs_sink: every pixel equals the output of the software model.
OutputMatchesModel ==
  aso_valid => aso_data = Expected(rx_y, rx_x)

\* The same without the pixels of the last column that v_floor_y gets wrong.
OutputMatchesModelButRowEnd ==
  aso_valid /\ ~RowEndDeviates(rx_y, rx_x) => aso_data = Expected(rx_y, rx_x)

\* avs_sink: end-of-packet closes every output row and nothing else, and
\* start-of-packet opens it.
PacketsAreRows ==
  aso_valid => /\ aso_last <=> rx_x = out_width - 1
               /\ aso_sop <=> rx_x = 0

\* When the next job is programmed, the accelerator is back in its first
\* position with empty RAMs and nothing to flush.
RestartIsClean ==
  pc = "params" => /\ c_x_out = 0 /\ c_y_out = 0 /\ r_x = 0 /\ r_y = 0
                   /\ c_row_count = 0 /\ r_ram_filled = [i \in Rams |-> FALSE]
                   /\ ~r_flush /\ ~r_reinit
                   /\ current_state = "st_wait"

\* The processing logic keeps to the protocol of the buffer: every edge is one
\* of RAM_writer_stream, in which the RAMs are a sliding window of the input.
Buffer(w, h) == INSTANCE RAM_writer_stream WITH Width <- w, Height <- h, Images <- 100

Sizes == UNION {{<<jl[j].width, jl[j].height>> : j \in 1 .. Len(jl)} : jl \in JobLists}

KeepsWindow ==
  [][\A s \in Sizes :
       s = <<Job.width, Job.height>> /\ ~r_flush => Buffer(s[1], s[2])!StreamNext
    ]_<<writerVars, image, row, col>>

\* The whole is the row pipeline the driver relies on: no output row before its input rows, no
\* input row too far ahead, and nothing of the next image before the restart.
Rows == INSTANCE acc_rows
          WITH Jobs <- UNION {{jl[i] : i \in 1 .. Len(jl)} : jl \in JobLists},
               job <- Job, in_rows <- row, out_rows <- rx_y,
               BILINEAR_SCALING_SF_NINT <- 3, BILINEAR_SCALING_SF_NFRAC <- C_SCALE_FRAC,
               BILINEAR_SCALING_NINT <- 4, BILINEAR_SCALING_NFRAC <- C_NFRAC

ImplementsRows == Rows!RowsSpec

\* Every job is completed, the input consumed and the output delivered.
JobsComplete == <>(pc = "done")

\* What the sink compares, both the data and the packets.
SinkIsSatisfied == OutputMatchesModelButRowEnd /\ PacketsAreRows
=============================================================================
