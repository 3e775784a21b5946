-------------------- MODULE acc_bilinear_scaling_TB_proofs --------------------
(***************************************************************************)
(* The accelerator in its test bench satisfies the sink: for every list of *)
(* jobs that is Handled, every RAM depth and every fixed-point format,     *)
(* each pixel that is put out is the one of the software model, at its     *)
(* place in its row, except the pixels of the last column that v_floor_y   *)
(* gets wrong.                                                             *)
(*                                                                         *)
(* The inductive invariant TBInv says where the accelerator is with a job: *)
(*   Programming  the parameters are being written, everything is empty,   *)
(*   Running      the pixels are being computed: the RAMs are a window of  *)
(*                consecutive rows, and the accelerator is Waiting for the *)
(*                pair of rows of its position or Working on the pixel,    *)
(*   Over         the last pixel has entered the pipeline, and the input   *)
(*                that is left is dropped,                                 *)
(*   Lost         the end was taken for reached before it began,           *)
(*   Done         no job is left.                                          *)
(* What makes it inductive is a race: at the last pixel of a row the top   *)
(* row is given back before its pixels are read, and the source overwrites *)
(* it meanwhile. PairKept bounds how far it can have come by the clocks    *)
(* that Elapsed since, and a row has more pixels than that (Handled).      *)
(*                                                                         *)
(* From this invariant follow the protocol of the buffer (KeepsToProtocol) *)
(* and, for jobs that are never Lost (NothingIsLost), the clean restart    *)
(* and the row pipeline that the driver is verified against: RowsInv ties  *)
(* the rows taken to the rows that the pixels in the pipeline belong to.   *)
(*                                                                         *)
(* The last part is about progress: the host's phases, and within an image *)
(* the count Spent of what has been done of it, never go back, and every   *)
(* edge on which the source presents its pixel and the sink takes one gets *)
(* further (NeverStuck), at most Limit times for an image.  PairComes says *)
(* why: the accelerator never waits for a row behind the last one.         *)
(***************************************************************************)
EXTENDS acc_bilinear_scaling_TB, TLAPS

-----------------------------------------------------------------------------
(* The inductive invariant *)

\* One, as a coordinate and as a scaling factor.
One == 2 ^ C_NFRAC
ScaleOne == 2 ^ C_SCALE_FRAC

\* Input row and column of an output pixel, those of the top left pixel of its group, and the
\* row and the column of the other pixels of the group.
x_inc == Model!increment(Job.sx)
y_inc == Model!increment(Job.sy)
Row(v) == Model!GET_INT(v * y_inc)
Column(u) == Model!GET_INT(u * x_inc)
NextRow(v) == Model!saturated_next(Row(v), Job.height)
NextColumn(u) == Model!saturated_next(Column(u), Job.width)

\* The bounds on a job that the proofs use.
JobFacts ==
  /\ C_RAM_DEPTH \in Nat /\ Job.width \in Nat /\ 4 <= Job.width /\ Job.width <= C_RAM_DEPTH
  /\ Job.height \in Nat \ {0} /\ Job.sx \in Nat \ {0} /\ Job.sy \in Nat \ {0}
  /\ Job.stall \in Nat /\ Job.stall <= Job.width - 4
  /\ image + 1 < Len(jobs) => Job.stall = 0
  /\ out_width \in Nat /\ out_width > 1 /\ out_height \in Nat \ {0}
  /\ x_inc \in Nat /\ y_inc \in Nat

\* The first n writes of the host are in the registers.
Programmed(n) == \A k \in 1 .. n : register_map[ParamWrites[k].addr] = ParamWrites[k].data

\* The host is in order, and the accelerator has the parameters it wrote.
HostInv ==
  /\ Handled(jobs)
  /\ image \in Nat /\ image <= Len(jobs) /\ (pc = "done" <=> image = Len(jobs))
  /\ pc \in {"params", "run", "ctl", "restart", "done"}
  /\ param \in 1 .. 6 /\ (pc # "params" => param = 1)
  /\ register_map \in [Params -> Nat]
  /\ Programmed(IF pc = "params" THEN param - 1 ELSE 6)
  /\ pc # "params" => r_width_out = out_width
  /\ stall \in Nat /\ stall <= Job.stall
  /\ r_ctl_reset <=> pc = "restart"
  /\ DOMAIN r_top = {0, 1} /\ DOMAIN r_bottom = {0, 1}

\* The RAMs, their counters and the source are in bounds.
PixelSet == (Nat \X Nat \X Nat) \cup {NoPixel}
MemoryType == memory \in [Rams -> [0 .. C_RAM_DEPTH - 1 -> PixelSet]]
BufferType ==
  /\ c_wr_addr \in [Rams -> 0 .. C_RAM_DEPTH - 1] /\ r_ram_filled \in [Rams -> BOOLEAN]
  /\ r_ram_sel \in Rams /\ c_row_count \in Nat /\ MemoryType
  /\ row \in 0 .. Job.height /\ col \in 0 .. Job.width - 1
  /\ row = Job.height => col = 0

\* RAM i holds row r of the image.
HoldsRow(i, r) == \A c \in 0 .. Job.width - 1 : memory[i][c] = Pixel(image, r, c)

\* The two RAMs are a window of consecutive rows, as in RAM_writer_stream.
Window ==
  /\ c_row_count = row
  /\ c_wr_addr[r_ram_sel] = col /\ c_wr_addr[Other(r_ram_sel)] = 0
  /\ ~r_ram_filled[r_ram_sel] =>
       \A c \in 0 .. Job.width - 1 : c < col => memory[r_ram_sel][c] = Pixel(image, row, c)
  /\ r_ram_filled[Other(r_ram_sel)] => row >= 1 /\ HoldsRow(Other(r_ram_sel), row - 1)
  /\ r_ram_filled[r_ram_sel] => /\ row >= 2 /\ HoldsRow(r_ram_sel, row - 2)
                                /\ r_ram_filled[Other(r_ram_sel)] /\ col = 0

\* What the window demands of the RAMs given back.
Legal(valid, ram_reset) ==
  /\ Other(r_ram_sel) \in ram_reset /\ r_ram_filled[r_ram_sel] => r_ram_sel \in ram_reset
  /\ w_wr(valid) /\ source_last /\ r_ram_sel \in ram_reset /\ r_ram_filled[Other(r_ram_sel)]
       => Other(r_ram_sel) \in ram_reset

Both == r_ram_filled[0] /\ r_ram_filled[1]
NoneFilled == r_ram_filled = [i \in Rams |-> FALSE]

\* The position behind p, in the order in which pixels are output.
NextPos(p) == IF p[2] = out_width - 1 THEN <<p[1] + 1, 0>> ELSE <<p[1], p[2] + 1>>

\* The positions of the pixels in the pipeline: the sink expects At0, and At3 is
\* the first that has not entered the pipeline.
At0 == <<rx_y, rx_x>>
At1 == IF r_valid[0] THEN NextPos(At0) ELSE At0
At2 == IF r_valid[1] THEN NextPos(At1) ELSE At1
At3 == IF r_valid[2] THEN NextPos(At2) ELSE At2

\* What stage i holds is right for position p.
StageOK(valid, last, sop, content, p) ==
  valid => /\ RowEndDeviates(p[1], p[2]) \/ content = Expected(p[1], p[2])
           /\ last <=> p[2] = out_width - 1
           /\ sop <=> p[2] = 0

\* Every stage of the pipeline is right.
PipelineInv ==
  /\ rx_y \in Nat /\ rx_x \in 0 .. out_width - 1
  /\ r_valid \in [Stages -> BOOLEAN]
  /\ StageOK(r_valid[0], r_last[0], r_sop[0], r_prod, At0)
  /\ StageOK(r_valid[1], r_last[1], r_sop[1], r_subp_top_bot, At1)
  /\ StageOK(r_valid[2], r_last[2], r_sop[2], weighted_along_y, At2)

NothingValid == r_valid = [i \in Stages |-> FALSE]

\* What enters the pipeline.
Entering == [group |-> weighted_along_x, alpha_y |-> alpha(r_y)]

\* The position is the first of the image, and nothing is read or processed.
AtOrigin == r_x = 0 /\ r_y = 0 /\ c_x_out = 0 /\ c_y_out = 0
Quiet == current_state = "st_wait" /\ r_read_status = 0 /\ ~Both

\* The position registers are those of output pixel (c_y_out, c_x_out).
PositionInv ==
  /\ c_x_out \in 0 .. out_width - 1 /\ c_y_out \in 0 .. out_height - 1
  /\ r_x = c_x_out * x_inc /\ r_y = c_y_out * y_inc

\* The image is being scaled: what holds at every position.
Streaming ==
  /\ pc = "run" /\ BufferType /\ Window /\ ~r_reinit
  /\ PositionInv /\ PipelineInv /\ At3 = <<c_y_out, c_x_out>>

\* The top row of the pair that output row v is computed from.
TopRow(v) == IF Row(v) = Job.height - 1 THEN Job.height - 2 ELSE Row(v)

\* Before the first pixel of an output row: its pair is there, or rows to be skipped are on
\* their way, or its top row is there.
Waiting ==
  /\ current_state = "st_wait" /\ r_read_status = 0 /\ c_x_out = 0 /\ ~r_flush
  /\ \/ Both /\ row = TopRow(c_y_out) + 2
     \/ ~r_ram_filled[r_ram_sel] /\ Row(c_y_out) >= row
     \/ ~r_ram_filled[r_ram_sel] /\ r_ram_filled[Other(r_ram_sel)] /\ Row(c_y_out) = row - 1

\* At the last pixel of a row the top row is given back early, and overwritten while the
\* pixel is still being read and processed, but never by a whole row.
LastPixel == c_x_out = out_width - 1 /\ c_y_out = out_height - 1
Needed == /\ c_x_out = out_width - 1 /\ Row(c_y_out + 1) > Row(c_y_out)
          /\ Row(c_y_out + 1) < Job.height - 1
Leaving == LastPixel \/ Needed
Elapsed == IF current_state = "st_read" THEN r_read_status - 1 ELSE 2 + stall
PairKept ==
  \/ Both
  \/ /\ Leaving /\ ~r_ram_filled[r_ram_sel] /\ col <= Elapsed
     /\ LastPixel \/ r_ram_filled[Other(r_ram_sel)]

\* The pixels of the pair of rows.
Top(c) == Pixel(image, TopRow(c_y_out), c)
Bottom(c) == Pixel(image, TopRow(c_y_out) + 1, c)

\* The left and the right pixels of the group are read and on their way.
LeftRead == r_top[0] = Top(Column(c_x_out)) /\ r_bottom[0] = Bottom(Column(c_x_out))
RightRead == r_top[1] = Top(NextColumn(c_x_out)) /\ r_bottom[1] = Bottom(NextColumn(c_x_out))
OnTheWay(c) == data_out[top_RAM] = Top(c) /\ data_out[bottom_RAM] = Bottom(c)

\* The pixels of a group are read in three clocks, the left ones first ...
Reading ==
  /\ current_state = "st_read"
  /\ \/ r_read_status = 0 /\ Both
     \/ /\ r_read_status = 1 /\ OnTheWay(Column(c_x_out))
        /\ HoldsRow(top_RAM, TopRow(c_y_out)) /\ HoldsRow(bottom_RAM, TopRow(c_y_out) + 1)
     \/ r_read_status = 2 /\ LeftRead /\ OnTheWay(NextColumn(c_x_out))

\* ... and then wait for the sink.
Processing == current_state = "st_process" /\ r_read_status = 0 /\ LeftRead /\ RightRead

\* A pixel is being computed.
Working ==
  /\ r_height_out = out_height /\ row = TopRow(c_y_out) + 2
  /\ r_flush => LastPixel
  /\ PairKept
  /\ Reading \/ Processing

Running == Streaming /\ (Waiting \/ Working)

\* Without stalls, the position is the first again by the time the host can restart.
Restarted ==
  \/ r_valid[2] /\ r_reinit
  \/ c_x_out = 0 /\ c_y_out = 0 /\ r_valid[1]
  \/ c_x_out = 0 /\ c_y_out = 0 /\ ~r_reinit /\ NoneFilled

\* The last pixel has entered the pipeline; the rows left are dropped, until the restart.
Over ==
  /\ pc \in {"run", "ctl", "restart"} /\ BufferType
  /\ Quiet /\ r_flush /\ r_x = 0 /\ r_y = 0
  /\ c_row_count = row /\ row >= 1
  /\ c_wr_addr[Other(r_ram_sel)] = 0 /\ (col = 0 => c_wr_addr[r_ram_sel] = 0)
  /\ r_ram_filled[r_ram_sel] => col = 0
  /\ Job.stall = 0 => Restarted
  /\ PipelineInv /\ At3 = <<out_height, 0>>
  /\ pc # "run" => NothingValid /\ row = Job.height

\* The parameters are being written, and everything is empty.
Programming ==
  /\ pc = "params"
  /\ Quiet /\ AtOrigin /\ ~r_reinit /\ NoneFilled /\ NothingValid
  /\ c_wr_addr = [i \in Rams |-> 0] /\ r_ram_sel \in Rams /\ MemoryType
  /\ c_row_count = 0 /\ row = 0 /\ col = 0 /\ rx_y = 0 /\ rx_x = 0

\* The end of the image was taken for reached while the parameters were written: the width of
\* the new job and the factor of the old one made an output one column wide. The input is
\* dropped, and nothing is put out.
Lost ==
  /\ pc = "run" /\ BufferType
  /\ Quiet /\ AtOrigin /\ ~r_reinit /\ r_flush /\ NothingValid
  /\ rx_y = 0

Done == pc = "done" /\ Quiet /\ NothingValid

TBInv == HostInv /\ (Programming \/ Lost \/ Running \/ Over \/ Done)

-----------------------------------------------------------------------------
(* Fixed-point numbers *)

\* Euclidean division.
LEMMA Division ==
  ASSUME NEW a \in Nat, NEW b \in Nat \ {0}
  PROVE  /\ a \div b \in Nat /\ a % b \in 0 .. b - 1
         /\ a = b * (a \div b) + (a % b)
  OBVIOUS

\* Multiplication by a natural number is monotone.
LEMMA Monotone ==
  ASSUME NEW a \in Nat, NEW b \in Nat, NEW c \in Nat, a <= b
  PROVE  a * c <= b * c /\ c * a <= c * b
  OBVIOUS

\* The product of natural numbers is one.
LEMMA Products ==
  ASSUME NEW a \in Nat, NEW b \in Nat
  PROVE  a * b \in Nat
  OBVIOUS

\* A quotient is below n exactly when the dividend is below n times the divisor.
LEMMA QuotientBelow ==
  ASSUME NEW a \in Nat, NEW b \in Nat \ {0}, NEW n \in Nat
  PROVE  a \div b < n <=> a < b * n
<1> DEFINE q == a \div b
<1>1. q \in Nat /\ a % b \in 0 .. b - 1 /\ a = b * q + (a % b)
  BY Division
<1> HIDE DEF q
<1>2. CASE n <= q
  <2>1. b * n <= b * q /\ b * n \in Nat /\ b * q \in Nat
    BY <1>1, <1>2, Monotone, Products
  <2> QED
    BY <1>1, <1>2, <2>1 DEF q
<1>3. CASE q < n
  <2>1. b * (q + 1) <= b * n /\ b * (q + 1) = b * q + b
    BY <1>1, <1>3, Monotone
  <2>2. b * n \in Nat /\ b * q \in Nat
    BY <1>1, Products
  <2>3. a < b * n
    BY <1>1, <2>1, <2>2
  <2> QED
    BY <1>3, <2>3 DEF q
<1> QED
  BY <1>1, <1>2, <1>3

\* The fixed-point operators of the software model, in the terms of the circuit.
LEMMA FixedPoint ==
  /\ One \in Nat \ {0} /\ ScaleOne \in Nat \ {0}
  /\ \A x \in Nat : /\ Model!GET_INT(x) = x \div One /\ floor(x) = x \div One /\ x \div One \in Nat
                    /\ alpha(x) = Model!GET_FRAC(x)
  /\ \A n, s \in Nat : Model!output_size(n, s) = (n * s) \div ScaleOne
  BY ExponentsAssumption, Division DEF One, ScaleOne, floor, alpha, Model!GET_INT, Model!GET_FRAC, Model!ONE_NFRAC,
     Model!output_size, Model!SCALE_ONE

\* The step between two output pixels is at most the reciprocal of the factor: to_fixed_point
\* rounds down, and the bits it cuts off make it only smaller.
LEMMA IncrementBound ==
  ASSUME NEW s \in Nat \ {0}
  PROVE  Model!increment(s) \in Nat /\ s * Model!increment(s) <= ScaleOne * One
<1> DEFINE one == ScaleOne * One
           q == one \div s
           p == 2 ^ (4 + C_NFRAC)
<1>1. p \in Nat \ {0} /\ one \in Nat
  BY ExponentsAssumption, Products DEF One, ScaleOne
<1>2. Model!increment(s) = q % p
  BY DEF Model!increment, Model!to_fixed_point, Model!SCALE_ONE, One, ScaleOne
<1> HIDE DEF p, one
<1>3. q \in Nat /\ one % s \in Nat /\ one = s * q + (one % s)
  BY <1>1, Division
<1> HIDE DEF q
<1>4. q % p \in Nat /\ q % p <= q
  <2>1. q \div p \in Nat /\ q % p \in 0 .. p - 1 /\ q = p * (q \div p) + (q % p)
    BY <1>1, <1>3, Division
  <2>2. p * (q \div p) \in Nat
    BY <1>1, <2>1, Products
  <2> QED
    BY <1>1, <1>3, <2>1, <2>2
<1>5. s * (q % p) <= s * q
  BY <1>3, <1>4, Monotone
<1>6. s * (q % p) \in Nat /\ s * q \in Nat
  BY <1>3, <1>4, Products
<1>7. s * (q % p) <= one
  BY <1>1, <1>3, <1>5, <1>6
<1> QED
  BY <1>2, <1>4, <1>7 DEF one

\* How far the coordinate of an output pixel is from the end of the input.
LEMMA CoordinateBound ==
  ASSUME NEW n \in Nat \ {0}, NEW s \in Nat \ {0}, NEW i \in Nat, i < Model!output_size(n, s)
  PROVE  /\ i * Model!increment(s) \in Nat
         /\ s * (i * Model!increment(s)) <= One * (n * s) - One * ScaleOne
         /\ One * (n * s) \in Nat /\ One * ScaleOne \in Nat
<1> DEFINE d == Model!increment(s)
           l == Model!output_size(n, s)
<1>0. ScaleOne \in Nat \ {0} /\ One \in Nat \ {0} /\ d \in Nat /\ n * s \in Nat
  BY FixedPoint, IncrementBound, Products
<1>1. l = (n * s) \div ScaleOne
  BY FixedPoint
<1>2. l \in Nat /\ ScaleOne * l <= n * s
  BY <1>0, <1>1, Division
<1>3. s * d <= ScaleOne * One /\ i < l
  BY IncrementBound
<1> HIDE DEF d, l
<1>4. ScaleOne * (i + 1) <= n * s
  <2>1. ScaleOne * (i + 1) <= ScaleOne * l
    BY <1>0, <1>2, <1>3, Monotone
  <2> QED
    BY <2>1, <1>0, <1>2, Products
<1>5. i * (s * d) <= i * (ScaleOne * One)
  BY <1>0, <1>3, Monotone, Products
<1>6. One * (ScaleOne * (i + 1)) <= One * (n * s)
  BY <1>0, <1>4, Monotone, Products
<1>7. One * (ScaleOne * (i + 1)) = i * (ScaleOne * One) + One * ScaleOne
  BY <1>0
<1>8. i * (s * d) = s * (i * d)
  BY <1>0
<1>9. /\ i * d \in Nat /\ One * (n * s) \in Nat /\ One * ScaleOne \in Nat /\ s * (i * d) \in Nat
      /\ i * (ScaleOne * One) \in Nat
  BY <1>0, Products
<1>10. s * (i * d) <= One * (n * s) - One * ScaleOne
  BY <1>5, <1>6, <1>7, <1>8, <1>9
<1> QED
  BY <1>9, <1>10 DEF d

\* A factor can be cancelled.
LEMMA Cancel ==
  ASSUME NEW a \in Nat, NEW b \in Nat, NEW c \in Nat \ {0}, c * a < c * b
  PROVE  a < b
<1>1. CASE b <= a
  BY <1>1, Monotone, Products
<1> QED
  BY <1>1

\* The coordinate of an output pixel is inside the input: the output is as long as the factor
\* allows, and not longer.
LEMMA CoordinateInBounds ==
  ASSUME NEW n \in Nat \ {0}, NEW s \in Nat \ {0}, NEW i \in Nat, i < Model!output_size(n, s)
  PROVE  Model!GET_INT(i * Model!increment(s)) \in 0 .. n - 1
<1> DEFINE x == i * Model!increment(s)
<1>1. /\ x \in Nat /\ s * x <= One * (n * s) - One * ScaleOne
      /\ One * (n * s) \in Nat /\ One * ScaleOne \in Nat
  BY CoordinateBound
<1>2. One \in Nat \ {0} /\ ScaleOne \in Nat \ {0} /\ Model!GET_INT(x) = x \div One /\ x \div One \in Nat
  BY <1>1, FixedPoint
<1> HIDE DEF x
<1>3. s * x < s * (One * n)
  <2>1. One * ScaleOne > 0 /\ One * (n * s) = s * (One * n)
    BY <1>2
  <2>2. s * x \in Nat
    BY <1>1, Products
  <2> QED
    BY <1>1, <2>1, <2>2
<1>4. x < One * n
  BY <1>1, <1>2, <1>3, Cancel, Products
<1>5. x \div One < n
  BY <1>1, <1>2, <1>4, QuotientBelow
<1> QED
  BY <1>2, <1>5 DEF x

\* The last row of the input is not reached from further away than the row before it: a step
\* is at most a row long when enlarging, and when reducing the last row is never reached.
LEMMA LastRowFromNear ==
  ASSUME NEW n \in Nat \ {0}, NEW s \in Nat \ {0}, NEW i \in Nat,
         i + 1 < Model!output_size(n, s), Model!GET_INT((i + 1) * Model!increment(s)) = n - 1
  PROVE  Model!GET_INT(i * Model!increment(s)) >= n - 2
<1> DEFINE d == Model!increment(s)
           x == (i + 1) * d
           y == i * d
<1>1. /\ x \in Nat /\ s * x <= One * (n * s) - One * ScaleOne
      /\ One * (n * s) \in Nat /\ One * ScaleOne \in Nat
  BY CoordinateBound
<1>2. One \in Nat \ {0} /\ ScaleOne \in Nat \ {0} /\ d \in Nat /\ s * d <= ScaleOne * One
  BY FixedPoint, IncrementBound
<1>3. y \in Nat /\ x = y + d
  BY <1>2, Products
<1>4. Model!GET_INT(x) = x \div One /\ Model!GET_INT(y) = y \div One /\ y \div One \in Nat
  BY <1>1, <1>3, FixedPoint
<1>5. x \div One = n - 1
  BY <1>4
<1> HIDE DEF d, x, y
<1>6. ASSUME s < ScaleOne
      PROVE  y \div One >= n - 2
  <2>1. One * s < One * ScaleOne /\ One * s \in Nat
    <3>1. ScaleOne = s + (ScaleOne - s) /\ ScaleOne - s \in Nat \ {0}
      BY <1>2, <1>6
    <3> DEFINE k == ScaleOne - s
    <3>2. k \in Nat \ {0} /\ ScaleOne = s + k
      BY <3>1
    <3> HIDE DEF k
    <3>3. One * (s + k) = One * s + One * k /\ One * k \in Nat \ {0} /\ One * s \in Nat
      BY ONLY <1>2, <3>2, s \in Nat \ {0}
    <3>4. One * ScaleOne = One * s + One * k
      BY <3>2, <3>3
    <3> QED
      BY <3>3, <3>4
  <2>2. s * (One * (n - 1)) = One * (n * s) - One * s
    BY <1>2
  <2>3. s * x \in Nat /\ One * (n - 1) \in Nat /\ n - 1 \in Nat
    BY <1>1, <1>2, Products
  <2>4. s * x < s * (One * (n - 1))
    BY <1>1, <2>1, <2>2, <2>3
  <2>5. x < One * (n - 1)
    BY <1>1, <2>3, <2>4, Cancel
  <2>6. x \div One < n - 1
    BY <1>1, <1>2, <2>3, <2>5, QuotientBelow
  <2> QED
    BY <1>5, <2>6
<1>7. ASSUME ScaleOne <= s
      PROVE  y \div One >= n - 2
  <2>1. d <= One
    <3>1. CASE One < d
      <4>1. ScaleOne * One <= s * One /\ s * One \in Nat /\ ScaleOne * One \in Nat /\ s * d \in Nat
        BY <1>2, <1>7, Monotone, Products
      <4>2. s * (One + 1) <= s * d /\ s * (One + 1) = s * One + s
        BY <1>2, <3>1, Monotone
      <4> QED
        BY <1>2, <4>1, <4>2
    <3> QED
      BY <1>2, <3>1
  <2>2. CASE y \div One < n - 2
    <3>1. n - 2 \in Nat /\ n - 1 \in Nat
      BY <1>4, <2>2
    <3>2. y < One * (n - 2)
      BY <1>2, <1>3, <2>2, <3>1, QuotientBelow
    <3>3. One * (n - 2) + One = One * (n - 1) /\ One * (n - 2) \in Nat /\ One * (n - 1) \in Nat
      BY <1>2, <3>1
    <3>4. x < One * (n - 1)
      BY <1>2, <1>3, <2>1, <3>2, <3>3
    <3>5. x \div One < n - 1
      BY <1>1, <1>2, <3>1, <3>4, QuotientBelow
    <3> QED
      BY <1>5, <3>5
  <2>3. n - 2 \in Int
    OBVIOUS
  <2> QED
    BY <1>4, <2>2, <2>3
<1>8. y \div One >= n - 2
  BY <1>2, <1>6, <1>7
<1> QED
  BY <1>4, <1>8 DEF y, d

-----------------------------------------------------------------------------
(* The job *)

\* The job in hand is within the bounds.
LEMMA JobIsHandled == HostInv => JobFacts /\ Len(jobs) \in Nat \ {0}
<1> SUFFICES ASSUME HostInv PROVE JobFacts /\ Len(jobs) \in Nat \ {0}
  OBVIOUS
<1>1. Handled(jobs) /\ image \in Nat /\ image <= Len(jobs)
  BY DEF HostInv
<1>2. Len(jobs) \in Nat /\ Len(jobs) > 0
  BY <1>1 DEF Handled
<1>3. PICK i \in 1 .. Len(jobs) : Job = jobs[i] /\ (image + 1 < Len(jobs) => i # Len(jobs))
  <2>1. CASE image < Len(jobs)
    <3>1. image + 1 \in 1 .. Len(jobs) /\ Job = jobs[image + 1]
      BY <1>1, <1>2, <2>1 DEF Job
    <3> QED
      BY <1>1, <1>2, <3>1
  <2>2. CASE ~(image < Len(jobs))
    <3>1. image = Len(jobs) /\ image \in 1 .. Len(jobs) /\ Job = jobs[image]
      BY <1>1, <1>2, <2>2 DEF Job
    <3> QED
      BY <1>1, <1>2, <3>1
  <2> QED
    BY <2>1, <2>2
<1>4. Job \in [width : Nat, height : Nat, sx : Nat, sy : Nat, stall : Nat]
  <2> DEFINE R == [width : Nat, height : Nat, sx : Nat, sy : Nat, stall : Nat]
  <2>1. jobs \in Seq(R)
    BY <1>1 DEF Handled
  <2> HIDE DEF R
  <2>2. \A k \in 1 .. Len(jobs) : jobs[k] \in R
    BY <2>1
  <2> QED
    BY <1>3, <2>2 DEF R
<1>5. /\ Job.width \in 4 .. C_RAM_DEPTH /\ Job.height > 0 /\ Job.sx > 0 /\ Job.sy > 0
      /\ Model!output_size(Job.width, Job.sx) > 1 /\ Model!output_size(Job.height, Job.sy) > 0
      /\ Job.stall <= IF i = Len(jobs) THEN Job.width - 4 ELSE 0
  BY <1>1, <1>3 DEF Handled
<1>6. /\ Job.width \in Nat /\ Job.height \in Nat \ {0} /\ Job.sx \in Nat \ {0} /\ Job.sy \in Nat \ {0}
      /\ Job.stall \in Nat /\ C_RAM_DEPTH \in Nat
  BY <1>4, <1>5, DepthAssumption
<1>7. out_width \in Nat /\ out_height \in Nat
  <2>1. Job.width * Job.sx \in Nat /\ Job.height * Job.sy \in Nat
    BY <1>6, Products
  <2>2. out_width = (Job.width * Job.sx) \div ScaleOne /\ out_height = (Job.height * Job.sy) \div ScaleOne
    BY <1>6, FixedPoint DEF out_width, out_height
  <2>3. ScaleOne \in Nat \ {0}
    BY FixedPoint
  <2> QED
    BY <2>1, <2>2, <2>3, Division
<1>8. x_inc \in Nat /\ y_inc \in Nat
  BY <1>6, IncrementBound DEF x_inc, y_inc
<1>9. Job.stall <= Job.width - 4 /\ (image + 1 < Len(jobs) => Job.stall = 0)
  BY <1>3, <1>5, <1>6
<1> QED
  BY <1>2, <1>5, <1>6, <1>7, <1>8, <1>9 DEF JobFacts, out_width, out_height

\* The input coordinates of the output pixels.
LEMMA Geometry ==
  ASSUME JobFacts
  PROVE  /\ \A u \in Nat : u * x_inc \in Nat /\ Column(u) \in Nat /\ (u + 1) * x_inc = u * x_inc + x_inc
         /\ \A v \in Nat : v * y_inc \in Nat /\ Row(v) \in Nat /\ (v + 1) * y_inc = v * y_inc + y_inc
         /\ \A u \in 0 .. out_width - 1 : Column(u) \in 0 .. Job.width - 1
         /\ \A v \in 0 .. out_height - 1 : Row(v) \in 0 .. Job.height - 1
         /\ \A v \in Nat : v + 1 < out_height /\ Row(v + 1) = Job.height - 1 => Row(v) >= Job.height - 2
         /\ Row(0) = 0 /\ Column(0) = 0 /\ floor(0) = 0
<1>1. x_inc \in Nat /\ y_inc \in Nat /\ out_width \in Nat /\ out_height \in Nat
  BY DEF JobFacts
<1>2. ASSUME NEW u \in Nat
      PROVE  u * x_inc \in Nat /\ Column(u) \in Nat /\ (u + 1) * x_inc = u * x_inc + x_inc
  <2>1. u * x_inc \in Nat /\ (u + 1) * x_inc = u * x_inc + x_inc
    BY <1>1
  <2> QED
    BY <2>1, FixedPoint DEF Column
<1>3. ASSUME NEW v \in Nat
      PROVE  v * y_inc \in Nat /\ Row(v) \in Nat /\ (v + 1) * y_inc = v * y_inc + y_inc
  <2>1. v * y_inc \in Nat /\ (v + 1) * y_inc = v * y_inc + y_inc
    BY <1>1
  <2> QED
    BY <2>1, FixedPoint DEF Row
<1>4. ASSUME NEW u \in 0 .. out_width - 1
      PROVE  Column(u) \in 0 .. Job.width - 1
  <2>1. Job.width \in Nat \ {0} /\ Job.sx \in Nat \ {0} /\ u \in Nat /\ u < out_width
    BY <1>1 DEF JobFacts
  <2> QED
    BY <2>1, CoordinateInBounds DEF Column, x_inc, out_width
<1>5. ASSUME NEW v \in 0 .. out_height - 1
      PROVE  Row(v) \in 0 .. Job.height - 1
  <2>1. Job.height \in Nat \ {0} /\ Job.sy \in Nat \ {0} /\ v \in Nat /\ v < out_height
    BY <1>1 DEF JobFacts
  <2> QED
    BY <2>1, CoordinateInBounds DEF Row, y_inc, out_height
<1>6. ASSUME NEW v \in Nat, v + 1 < out_height, Row(v + 1) = Job.height - 1
      PROVE  Row(v) >= Job.height - 2
  <2>1. Job.height \in Nat \ {0} /\ Job.sy \in Nat \ {0}
    BY DEF JobFacts
  <2> QED
    BY <1>6, <2>1, LastRowFromNear DEF Row, y_inc, out_height
<1>7. Row(0) = 0 /\ Column(0) = 0 /\ floor(0) = 0
  <2>1. 0 * x_inc = 0 /\ 0 * y_inc = 0
    BY <1>1
  <2>2. 0 \div One = 0
    <3>1. One \in Nat \ {0}
      BY FixedPoint
    <3>2. 0 \div One \in Nat /\ 0 \div One < 1
      BY <3>1, Division, QuotientBelow
    <3> QED
      BY <3>2
  <2> QED
    BY <2>1, <2>2, FixedPoint DEF Row, Column
<1> QED
  BY <1>2, <1>3, <1>4, <1>5, <1>6, <1>7

\* The parameters in the registers, once they are all written.
LEMMA Registers ==
  Programmed(6) => /\ register_map["width"] = Job.width /\ register_map["height"] = Job.height
                   /\ register_map["x_inc"] = x_inc /\ register_map["y_inc"] = y_inc
                   /\ register_map["sx"] = Job.sx /\ register_map["sy"] = Job.sy
<1> SUFFICES ASSUME Programmed(6)
             PROVE  /\ register_map["width"] = Job.width /\ register_map["height"] = Job.height
                    /\ register_map["x_inc"] = x_inc /\ register_map["y_inc"] = y_inc
                    /\ register_map["sx"] = Job.sx /\ register_map["sy"] = Job.sy
  OBVIOUS
<1>1. \A k \in 1 .. 6 : register_map[ParamWrites[k].addr] = ParamWrites[k].data
  BY DEF Programmed
<1>2. /\ ParamWrites[1] = [addr |-> "width", data |-> Job.width]
      /\ ParamWrites[2] = [addr |-> "height", data |-> Job.height]
      /\ ParamWrites[3] = [addr |-> "x_inc", data |-> x_inc]
      /\ ParamWrites[4] = [addr |-> "y_inc", data |-> y_inc]
      /\ ParamWrites[5] = [addr |-> "sx", data |-> Job.sx]
      /\ ParamWrites[6] = [addr |-> "sy", data |-> Job.sy]
  BY DEF ParamWrites, x_inc, y_inc
<1> HIDE DEF ParamWrites
<1>3. 1 \in 1 .. 6 /\ 2 \in 1 .. 6 /\ 3 \in 1 .. 6 /\ 4 \in 1 .. 6 /\ 5 \in 1 .. 6 /\ 6 \in 1 .. 6
  OBVIOUS
<1> QED
  BY <1>1, <1>2, <1>3

\* What the size registers are loaded with.
LEMMA Dimensions ==
  ASSUME JobFacts
  PROVE  /\ (Job.width * Job.sx) \div 2 ^ C_SCALE_FRAC = out_width
         /\ (Job.height * Job.sy) \div 2 ^ C_SCALE_FRAC = out_height
  BY FixedPoint DEF JobFacts, out_width, out_height, ScaleOne

\* The same job as before: so are all its dimensions and expectations.
LEMMA SameJob ==
  ASSUME UNCHANGED <<jobs, image>>
  PROVE  /\ Job' = Job /\ out_width' = out_width /\ out_height' = out_height
         /\ x_inc' = x_inc /\ y_inc' = y_inc
         /\ \A v : Row(v)' = Row(v) /\ Column(v)' = Column(v) /\ NextColumn(v)' = NextColumn(v)
         /\ JobFacts <=> JobFacts'
<1>1. Job' = Job
  BY DEF Job
<1>2. out_width' = out_width /\ out_height' = out_height /\ x_inc' = x_inc /\ y_inc' = y_inc
  BY <1>1 DEF out_width, out_height, x_inc, y_inc
<1>3. ASSUME NEW v
      PROVE  Row(v)' = Row(v) /\ Column(v)' = Column(v) /\ NextColumn(v)' = NextColumn(v)
  BY <1>1, <1>2 DEF Row, Column, NextColumn
<1>4. JobFacts <=> JobFacts'
  BY <1>1, <1>2 DEF JobFacts
<1> QED
  BY <1>1, <1>2, <1>3, <1>4

-----------------------------------------------------------------------------
(* The line buffer *)

\* A clock edge without a pixel on the input.
LEMMA NoPixelMoves ==
  ASSUME c_wr_addr \in [Rams -> 0 .. C_RAM_DEPTH - 1], r_ram_sel \in Rams, MemoryType,
         NEW ready \in BOOLEAN, NEW mm, AccClock(FALSE, NoPixel, FALSE, ready, mm)
  PROVE  /\ UNCHANGED <<c_wr_addr, r_ram_sel, memory>>
         /\ r_ram_filled' = [i \in Rams |-> r_ram_filled[i] /\ i \notin RAM_RESET_PROC]
         /\ c_row_count' = IF r_ctl_reset THEN 0 ELSE c_row_count
<1>0. WriterClock(FALSE, NoPixel, FALSE, w_ram_rd, c_ram_rd_addr, RAM_RESET_PROC, r_ctl_reset)
  BY DEF AccClock
<1>1. ~w_wr(FALSE) /\ \A i \in Rams : w_wr_array(FALSE)[i] = FALSE
  BY DEF w_wr_array, w_wr
<1>2. c_wr_addr' = c_wr_addr
  BY <1>0, <1>1 DEF WriterClock, WRITE_POSITION
<1>3. memory' = memory
  BY <1>0, <1>1 DEF WriterClock, WRITE_PROCESS, MemoryType
<1>4. r_ram_sel' = r_ram_sel
  BY <1>0, <1>1 DEF WriterClock, RAM_SELECT
<1>5. r_ram_filled' = [i \in Rams |-> r_ram_filled[i] /\ i \notin RAM_RESET_PROC]
  BY <1>0, <1>1 DEF WriterClock, RAM_FILLED_STATUSES
<1> QED
  BY <1>0, <1>1, <1>2, <1>3, <1>4, <1>5 DEF WriterClock, COUNT_ROWS

\* A clock edge with a pixel that is stored.
LEMMA PixelMoves ==
  ASSUME c_wr_addr \in [Rams -> 0 .. C_RAM_DEPTH - 1], r_ram_sel \in Rams, MemoryType, C_RAM_DEPTH \in Nat,
         NEW data, NEW eop \in BOOLEAN, NEW rd, NEW rd_addr, NEW ram_reset, NEW valid, w_wr(valid), 
         ~r_ram_filled[r_ram_sel],
         WriterClock(valid, data, eop, rd, rd_addr, ram_reset, FALSE)
  PROVE  /\ c_wr_addr' = [c_wr_addr EXCEPT ![r_ram_sel] = NextAddress(r_ram_sel, eop)]
         /\ memory' = [memory EXCEPT ![r_ram_sel][c_wr_addr[r_ram_sel]] = data]
         /\ r_ram_sel' = IF eop THEN Other(r_ram_sel) ELSE r_ram_sel
         /\ r_ram_filled' = [i \in Rams |-> (r_ram_filled[i] \/ (eop /\ i = r_ram_sel)) /\ i \notin ram_reset]
         /\ c_row_count' = IF eop THEN c_row_count + 1 ELSE c_row_count
<1>1. \A i \in Rams : w_wr_array(valid)[i] <=> i = r_ram_sel
  BY DEF w_wr_array
<1>2. c_wr_addr' = [c_wr_addr EXCEPT ![r_ram_sel] = NextAddress(r_ram_sel, eop)]
  BY <1>1 DEF WriterClock, WRITE_POSITION
<1>3. memory' = [memory EXCEPT ![r_ram_sel][c_wr_addr[r_ram_sel]] = data]
  BY <1>1 DEF WriterClock, WRITE_PROCESS, MemoryType
<1>4. r_ram_sel' = IF eop THEN Other(r_ram_sel) ELSE r_ram_sel
  BY <1>1 DEF WriterClock, RAM_SELECT
<1>5. r_ram_filled' = [i \in Rams |-> (r_ram_filled[i] \/ (eop /\ i = r_ram_sel)) /\ i \notin ram_reset]
  BY DEF WriterClock, RAM_FILLED_STATUSES
<1> QED
  BY <1>2, <1>3, <1>4, <1>5 DEF WriterClock, COUNT_ROWS

\* An edge while the image streams: the source, the buffer and its reader.
BufferEdge(valid, rd, rd_addr, ram_reset) ==
  /\ pc = "run" /\ (valid => sending) /\ Source(valid)
  /\ WriterClock(valid, Pixel(image, row, col), source_last, rd, rd_addr, ram_reset, FALSE)
  /\ UNCHANGED <<jobs, image>>

\* The source moves with the pixels the buffer accepts, within the image.
LEMMA SourceMoves ==
  ASSUME JobFacts, BufferType, pc = "run", NEW valid \in BOOLEAN, valid => sending, Source(valid)
  PROVE  /\ ~w_wr(valid) => UNCHANGED <<row, col>>
         /\ w_wr(valid) => /\ row < Job.height
                           /\ source_last <=> col = Job.width - 1
                           /\ col' = IF source_last THEN 0 ELSE col + 1
                           /\ row' = IF source_last THEN row + 1 ELSE row
         /\ row' \in 0 .. Job.height /\ col' \in 0 .. Job.width - 1 /\ (row' = Job.height => col' = 0)
<1>1. /\ row \in 0 .. Job.height /\ col \in 0 .. Job.width - 1 /\ (row = Job.height => col = 0)
      /\ Job.width \in Nat /\ Job.height \in Nat
  BY DEF JobFacts, BufferType
<1>2. CASE w_wr(valid)
  <2>1. row < Job.height /\ (source_last <=> col = Job.width - 1)
    BY <1>2 DEF w_wr, sending, source_last
  <2>2. col' = (IF source_last THEN 0 ELSE col + 1) /\ row' = (IF source_last THEN row + 1 ELSE row)
    BY <1>2 DEF Source
  <2>3. row' \in 0 .. Job.height /\ col' \in 0 .. Job.width - 1 /\ (row' = Job.height => col' = 0)
    BY <1>1, <2>1, <2>2
  <2> QED
    BY <1>2, <2>1, <2>2, <2>3
<1>3. CASE ~w_wr(valid)
  BY <1>1, <1>3 DEF Source, sourceVars
<1> QED
  BY <1>2, <1>3

\* There are two RAMs, and each is the other of the other.
LEMMA TwoRams ==
  ASSUME NEW s \in Rams
  PROVE  /\ Other(s) \in Rams /\ s # Other(s) /\ Rams = {s, Other(s)} /\ Other(Other(s)) = s
         /\ \A b : b[0] /\ b[1] <=> b[s] /\ b[Other(s)]
<1>1. CASE s = 0
  <2>1. Other(s) = 1 /\ Other(1) = 0
    BY <1>1 DEF Other
  <2> QED
    BY <1>1, <2>1 DEF Rams
<1>2. CASE s = 1
  <2>1. Other(s) = 0 /\ Other(0) = 1
    BY <1>2 DEF Other
  <2> QED
    BY <1>2, <2>1 DEF Rams
<1> QED
  BY <1>1, <1>2 DEF Rams

\* The registers of the buffer keep their ranges at an edge.
LEMMA BufferTypeKept ==
  ASSUME JobFacts, BufferType, image \in Nat, NEW valid \in BOOLEAN,
         NEW rd, NEW rd_addr, NEW ram_reset, BufferEdge(valid, rd, rd_addr, ram_reset)
  PROVE  BufferType'
<1>1. /\ C_RAM_DEPTH \in Nat \ {0} /\ c_wr_addr \in [Rams -> 0 .. C_RAM_DEPTH - 1]
      /\ r_ram_filled \in [Rams -> BOOLEAN] /\ r_ram_sel \in Rams /\ c_row_count \in Nat /\ MemoryType
  BY DepthAssumption DEF BufferType
<1>2. /\ row' \in 0 .. Job.height /\ col' \in 0 .. Job.width - 1 /\ (row' = Job.height => col' = 0)
      /\ Job' = Job
  BY SourceMoves, SameJob DEF BufferEdge
<1>3. \A i \in Rams : NextAddress(i, source_last) \in 0 .. C_RAM_DEPTH - 1
  <2>1. ASSUME NEW i \in Rams, NEW a \in 0 .. C_RAM_DEPTH - 1, c_wr_addr[i] = a
        PROVE  NextAddress(i, source_last) \in 0 .. C_RAM_DEPTH - 1
    BY ONLY <1>1, <2>1 DEF NextAddress
  <2>2. QED
    BY <1>1, <2>1
<1>4. (c_wr_addr \in [Rams -> 0 .. C_RAM_DEPTH - 1])'
  BY <1>1, <1>3 DEF BufferEdge, WriterClock, WRITE_POSITION
<1>5. (r_ram_filled \in [Rams -> BOOLEAN])'
  BY DEF BufferEdge, WriterClock, RAM_FILLED_STATUSES
<1>6. (r_ram_sel \in Rams)'
  BY <1>1 DEF BufferEdge, WriterClock, RAM_SELECT, Rams, Other
<1>7. (c_row_count \in Nat)'
  BY <1>1 DEF BufferEdge, WriterClock, COUNT_ROWS
<1>8. Pixel(image, row, col) \in PixelSet
  <2>1. row \in Nat /\ col \in Nat
    BY DEF BufferType, JobFacts
  <2> QED
    BY <2>1 DEF Pixel, PixelSet
<1>9. MemoryType'
  BY <1>1, <1>8 DEF BufferEdge, WriterClock, WRITE_PROCESS, MemoryType
<1> QED
  BY <1>2, <1>4, <1>5, <1>6, <1>7, <1>9 DEF BufferType

\* Which pixel an edge stores, and how it moves the window.
LEMMA BufferMoves ==
  ASSUME JobFacts, BufferType, Window, NEW valid \in BOOLEAN,
         NEW rd, NEW rd_addr, NEW ram_reset, BufferEdge(valid, rd, rd_addr, ram_reset)
  PROVE  /\ ~w_wr(valid) => /\ UNCHANGED <<row, col, r_ram_sel, c_wr_addr, c_row_count, memory>>
                            /\ r_ram_filled' = [i \in Rams |-> r_ram_filled[i] /\ i \notin ram_reset]
         /\ w_wr(valid) => /\ ~r_ram_filled[r_ram_sel]
                           /\ memory' = [memory EXCEPT ![r_ram_sel][col] = Pixel(image, row, col)]
         /\ w_wr(valid) /\ ~source_last =>
              /\ row' = row /\ col' = col + 1 /\ r_ram_sel' = r_ram_sel
              /\ c_row_count' = c_row_count
              /\ c_wr_addr' = [c_wr_addr EXCEPT ![r_ram_sel] = col + 1]
              /\ r_ram_filled' = [i \in Rams |-> r_ram_filled[i] /\ i \notin ram_reset]
         /\ w_wr(valid) /\ source_last =>
              /\ row' = row + 1 /\ col' = 0 /\ r_ram_sel' = Other(r_ram_sel)
              /\ c_row_count' = c_row_count + 1 /\ col = Job.width - 1
              /\ c_wr_addr' = [c_wr_addr EXCEPT ![r_ram_sel] = 0]
              /\ r_ram_filled' = [i \in Rams |-> (r_ram_filled[i] \/ i = r_ram_sel) /\ i \notin ram_reset]
<1>1. /\ C_RAM_DEPTH \in Nat \ {0} /\ c_wr_addr \in [Rams -> 0 .. C_RAM_DEPTH - 1]
      /\ r_ram_filled \in [Rams -> BOOLEAN] /\ r_ram_sel \in Rams /\ c_row_count \in Nat /\ MemoryType
      /\ col \in 0 .. Job.width - 1 /\ Job.width \in Nat /\ Job.width <= C_RAM_DEPTH
      /\ c_wr_addr[r_ram_sel] = col
  BY DepthAssumption DEF BufferType, JobFacts, Window
<1>2. /\ ~w_wr(valid) => UNCHANGED <<row, col>>
      /\ w_wr(valid) => /\ source_last <=> col = Job.width - 1
                        /\ col' = IF source_last THEN 0 ELSE col + 1
                        /\ row' = IF source_last THEN row + 1 ELSE row
  BY SourceMoves DEF BufferEdge
<1>3. CASE ~w_wr(valid)
  <2>1. /\ UNCHANGED <<c_wr_addr, r_ram_sel, memory>>
        /\ r_ram_filled' = [i \in Rams |-> r_ram_filled[i] /\ i \notin ram_reset]
        /\ c_row_count' = c_row_count
    <3>1. \A i \in Rams : w_wr_array(valid)[i] = FALSE
      BY <1>3 DEF w_wr_array
    <3>2. c_wr_addr' = c_wr_addr
      BY <1>1, <3>1 DEF BufferEdge, WriterClock, WRITE_POSITION
    <3>3. memory' = memory
      BY <1>1, <3>1 DEF BufferEdge, WriterClock, WRITE_PROCESS, MemoryType
    <3>4. r_ram_sel' = r_ram_sel
      BY <1>1, <3>1 DEF BufferEdge, WriterClock, RAM_SELECT
    <3>5. r_ram_filled' = [i \in Rams |-> r_ram_filled[i] /\ i \notin ram_reset]
      BY <1>3 DEF BufferEdge, WriterClock, RAM_FILLED_STATUSES
    <3> QED
      BY <1>3, <3>2, <3>3, <3>4, <3>5 DEF BufferEdge, WriterClock, COUNT_ROWS
  <2> QED
    BY <1>2, <1>3, <2>1
<1>4. CASE w_wr(valid)
  <2>1. ~r_ram_filled[r_ram_sel]
    BY <1>1, <1>4 DEF w_wr, w_asi_input_data_ready, Window, Rams, Other
  <2>2. source_last \in BOOLEAN
    BY DEF source_last
  <2>3. /\ c_wr_addr' = [c_wr_addr EXCEPT ![r_ram_sel] = NextAddress(r_ram_sel, source_last)]
        /\ memory' = [memory EXCEPT ![r_ram_sel][c_wr_addr[r_ram_sel]] = Pixel(image, row, col)]
        /\ r_ram_sel' = IF source_last THEN Other(r_ram_sel) ELSE r_ram_sel
        /\ r_ram_filled' = [i \in Rams |-> (r_ram_filled[i] \/ (source_last /\ i = r_ram_sel)) /\ i \notin ram_reset]
        /\ c_row_count' = IF source_last THEN c_row_count + 1 ELSE c_row_count
    BY <1>1, <1>4, <2>1, <2>2, PixelMoves DEF BufferEdge
  <2>4. NextAddress(r_ram_sel, source_last) = IF source_last THEN 0 ELSE col + 1
    BY <1>1, <1>2, <1>4 DEF NextAddress
  <2>5. CASE source_last
    BY <1>1, <1>2, <1>4, <2>1, <2>3, <2>4, <2>5
  <2>6. CASE ~source_last
    BY <1>1, <1>2, <1>4, <2>1, <2>3, <2>4, <2>6
  <2> QED
    BY <2>5, <2>6
<1> QED
  BY <1>3, <1>4

\* The window survives an edge at which RAMs are given back legally.
LEMMA WindowKept ==
  ASSUME JobFacts, BufferType, Window, NEW valid \in BOOLEAN,
         NEW rd, NEW rd_addr, NEW ram_reset, BufferEdge(valid, rd, rd_addr, ram_reset),
         Legal(valid, ram_reset)
  PROVE  Window'
<1> DEFINE s == r_ram_sel
           o == Other(r_ram_sel)
           W == Job.width
<1>1. /\ s \in Rams /\ o \in Rams /\ s # o /\ Other(o) = s /\ Rams = {s, o}
      /\ r_ram_filled \in [Rams -> BOOLEAN] /\ c_wr_addr \in [Rams -> 0 .. C_RAM_DEPTH - 1]
      /\ col \in 0 .. W - 1 /\ row \in Nat
      /\ W \in Nat /\ C_RAM_DEPTH \in Nat /\ W <= C_RAM_DEPTH
      /\ memory \in [Rams -> [0 .. C_RAM_DEPTH - 1 -> PixelSet]]
  <2>1. s \in Rams /\ r_ram_filled \in [Rams -> BOOLEAN] /\ c_wr_addr \in [Rams -> 0 .. C_RAM_DEPTH - 1]
    BY DEF BufferType
  <2>2. o \in Rams /\ s # o /\ Other(o) = s /\ Rams = {s, o}
    BY <2>1, TwoRams
  <2>3. col \in 0 .. W - 1 /\ row \in Nat /\ W \in Nat /\ C_RAM_DEPTH \in Nat /\ W <= C_RAM_DEPTH
    BY DEF BufferType, JobFacts
  <2>4. memory \in [Rams -> [0 .. C_RAM_DEPTH - 1 -> PixelSet]]
    BY DEF BufferType, MemoryType
  <2> QED
    BY <2>1, <2>2, <2>3, <2>4
<1>2. /\ c_row_count = row /\ c_wr_addr[s] = col /\ c_wr_addr[o] = 0
      /\ ~r_ram_filled[s] => \A c \in 0 .. W - 1 : c < col => memory[s][c] = Pixel(image, row, c)
      /\ r_ram_filled[o] => row >= 1 /\ \A c \in 0 .. W - 1 : memory[o][c] = Pixel(image, row - 1, c)
      /\ r_ram_filled[s] => row >= 2 /\ \A c \in 0 .. W - 1 : memory[s][c] = Pixel(image, row - 2, c)
      /\ r_ram_filled[s] => r_ram_filled[o] /\ col = 0
  BY DEF Window, HoldsRow
<1>3. Job' = Job /\ image' = image
  BY SameJob DEF BufferEdge
<1>4. CASE ~w_wr(valid)
  <2>1. /\ row' = row /\ col' = col /\ r_ram_sel' = s
        /\ c_wr_addr' = c_wr_addr /\ c_row_count' = c_row_count /\ memory' = memory
        /\ r_ram_filled' = [i \in Rams |-> r_ram_filled[i] /\ i \notin ram_reset]
    BY <1>4, BufferMoves
  <2>2. r_ram_filled'[s] => r_ram_filled'[o]
    BY <1>1, <1>2, <2>1 DEF Legal
  <2> QED
    BY <1>1, <1>2, <1>3, <2>1, <2>2 DEF Window, HoldsRow
<1>5. CASE w_wr(valid) /\ ~source_last
  <2>1. /\ row' = row /\ col' = col + 1 /\ r_ram_sel' = s
        /\ c_row_count' = c_row_count /\ c_wr_addr' = [c_wr_addr EXCEPT ![s] = col + 1]
        /\ r_ram_filled' = [i \in Rams |-> r_ram_filled[i] /\ i \notin ram_reset]
        /\ ~r_ram_filled[s] /\ memory' = [memory EXCEPT ![s][col] = Pixel(image, row, col)]
    BY <1>5, BufferMoves
  <2>2. \A c \in 0 .. W - 1 : c < col' => memory'[s][c] = Pixel(image, row, c)
    BY <1>1, <1>2, <2>1
  <2>3. \A c \in 0 .. W - 1 : memory'[o][c] = memory[o][c]
    BY <1>1, <2>1
  <2> QED
    BY <1>1, <1>2, <1>3, <2>1, <2>2, <2>3 DEF Window, HoldsRow, Pixel
<1>6. CASE w_wr(valid) /\ source_last
  <2>1. /\ row' = row + 1 /\ col' = 0 /\ r_ram_sel' = o
        /\ c_row_count' = c_row_count + 1 /\ c_wr_addr' = [c_wr_addr EXCEPT ![s] = 0]
        /\ r_ram_filled' = [i \in Rams |-> (r_ram_filled[i] \/ i = s) /\ i \notin ram_reset]
        /\ ~r_ram_filled[s] /\ memory' = [memory EXCEPT ![s][col] = Pixel(image, row, col)]
        /\ col = W - 1
    BY <1>6, BufferMoves
  <2>2. r_ram_filled'[o] => r_ram_filled'[s]
    BY <1>1, <1>6, <2>1 DEF Legal
  <2>3. \A c \in 0 .. W - 1 : memory'[s][c] = Pixel(image, row, c)
    BY <1>1, <1>2, <2>1
  <2>4. \A c \in 0 .. W - 1 : memory'[o][c] = memory[o][c]
    BY <1>1, <2>1
  <2>5. r_ram_filled'[o] => row' >= 2 /\ \A c \in 0 .. W - 1 : memory'[o][c] = Pixel(image, row' - 2, c)
    <3>1. row' - 2 = row - 1
      BY <1>1, <2>1
    <3> QED
      BY <1>1, <1>2, <2>1, <2>4, <3>1
  <2>6. r_ram_filled'[s] => row' >= 1 /\ \A c \in 0 .. W - 1 : memory'[s][c] = Pixel(image, row' - 1, c)
    <3>1. row' - 1 = row
      BY <1>1, <2>1
    <3> QED
      BY <1>1, <2>1, <2>3, <3>1
  <2>7. c_wr_addr'[s] = 0 /\ c_wr_addr'[o] = 0
    BY <1>1, <1>2, <2>1
  <2>8. \A c \in 0 .. W - 1 : ~(c < 0)
    BY <1>1
  <2> QED
    BY <1>1, <1>2, <1>3, <2>1, <2>2, <2>5, <2>6, <2>7, <2>8 DEF Window, HoldsRow, Pixel
<1> QED
  BY <1>4, <1>5, <1>6

-----------------------------------------------------------------------------
(* The pipeline *)

\* The expectations of an unchanged job.
LEMMA SameExpectations ==
  ASSUME UNCHANGED <<jobs, image>>
  PROVE  /\ \A v, u : Expected(v, u)' = Expected(v, u)
         /\ \A v, u : RowEndDeviates(v, u)' <=> RowEndDeviates(v, u)
<1>1. Job' = Job /\ out_width' = out_width
  BY SameJob
<1>2. ASSUME NEW v, NEW u
      PROVE  Expected(v, u)' = Expected(v, u)
  BY <1>1 DEF Expected, Pixel
<1>3. ASSUME NEW v, NEW u
      PROVE  RowEndDeviates(v, u)' <=> RowEndDeviates(v, u)
  BY <1>1 DEF RowEndDeviates, TopSaturates
<1> QED
  BY <1>2, <1>3

\* The pipeline moves one stage with the ready of the sink, and takes in what is right for the
\* position being computed.
LEMMA PipelineKept ==
  ASSUME JobFacts, PipelineInv, UNCHANGED <<jobs, image>>, NEW ready \in BOOLEAN, PIPELINE(ready), Sink(ready),
         StageOK(ready /\ current_state = "st_process", last_x, c_x_out = 0, Entering, At3)
  PROVE  /\ PipelineInv'
         /\ At3' = IF ready /\ current_state = "st_process" THEN NextPos(At3) ELSE At3
<1> DEFINE processing == current_state = "st_process"
<1>1. out_width' = out_width /\ out_width \in Nat /\ out_width > 1
  BY SameJob DEF JobFacts
<1>2. \A p : NextPos(p)' = NextPos(p)
  BY <1>1 DEF NextPos
<1>3. rx_y \in Nat /\ rx_x \in 0 .. out_width - 1 /\ r_valid \in [Stages -> BOOLEAN]
  BY DEF PipelineInv
<1>4. CASE ~ready
  <2>1. UNCHANGED <<r_subp, r_alpha_y_d1, r_subp_top_bot, r_prod, r_valid, r_last, r_sop, rx_y, rx_x>>
    BY <1>4 DEF PIPELINE, Sink
  <2>2. At0' = At0
    BY <2>1 DEF At0
  <2>3. At1' = At1
    BY <1>2, <2>1, <2>2 DEF At1
  <2>4. At2' = At2
    BY <1>2, <2>1, <2>3 DEF At2
  <2>5. At3' = At3
    BY <1>2, <2>1, <2>4 DEF At3
  <2>6. weighted_along_y' = weighted_along_y
    BY <2>1 DEF weighted_along_y
  <2>7. PipelineInv'
    BY <1>1, <2>1, <2>2, <2>3, <2>4, <2>6, SameExpectations DEF PipelineInv, StageOK
  <2> QED
    BY <1>4, <2>5, <2>7
<1>5. CASE ready
  <2>1. /\ r_subp' = IF processing THEN weighted_along_x ELSE r_subp
        /\ r_alpha_y_d1' = alpha(r_y)
        /\ r_subp_top_bot' = weighted_along_y
        /\ r_prod' = r_subp_top_bot
    BY <1>5 DEF PIPELINE
  <2>2. /\ r_valid' = [i \in Stages |-> IF i = 2 THEN processing ELSE r_valid[i + 1]]
        /\ r_last' = [i \in Stages |-> IF i = 2 THEN processing /\ last_x ELSE r_last[i + 1]]
        /\ r_sop' = [i \in Stages |-> IF i = 2 THEN processing /\ c_x_out = 0 ELSE r_sop[i + 1]]
    BY <1>5 DEF PIPELINE, Shift
  <2>3. /\ r_valid'[0] = r_valid[1] /\ r_valid'[1] = r_valid[2] /\ (r_valid'[2] <=> processing)
        /\ r_valid' \in [Stages -> BOOLEAN]
        /\ r_last'[0] = r_last[1] /\ r_last'[1] = r_last[2] /\ (r_last'[2] <=> processing /\ last_x)
        /\ r_sop'[0] = r_sop[1] /\ r_sop'[1] = r_sop[2] /\ (r_sop'[2] <=> processing /\ c_x_out = 0)
    <3>1. r_valid'[0] = r_valid[1] /\ r_valid'[1] = r_valid[2] /\ r_valid'[2] = processing
      BY <2>2 DEF Stages
    <3>2. r_valid' \in [Stages -> BOOLEAN]
      BY <1>3, <2>2 DEF Stages
    <3>3. r_last'[0] = r_last[1] /\ r_last'[1] = r_last[2] /\ r_last'[2] = (processing /\ last_x)
      BY <2>2 DEF Stages
    <3>4. r_sop'[0] = r_sop[1] /\ r_sop'[1] = r_sop[2] /\ r_sop'[2] = (processing /\ c_x_out = 0)
      BY <2>2 DEF Stages
    <3> QED
      BY <3>1, <3>2, <3>3, <3>4
  <2>4. At0' = At1
    BY <1>3, <1>5 DEF At0, At1, NextPos, Sink, aso_valid
  <2>5. rx_y' \in Nat /\ rx_x' \in 0 .. out_width - 1
    BY <1>1, <1>3, <1>5 DEF Sink
  <2>6. At1' = At2
    BY <1>2, <2>3, <2>4 DEF At1, At2
  <2>7. At2' = At3
    BY <1>2, <2>3, <2>6 DEF At2, At3
  <2>8. At3' = IF processing THEN NextPos(At3) ELSE At3
    BY <1>2, <2>3, <2>7 DEF At3
  <2>9. processing => weighted_along_y' = Entering
    BY <2>1 DEF weighted_along_y, Entering
  <2>10. StageOK(r_valid[0], r_last[0], r_sop[0], r_prod, At0)'
    BY <1>1, <2>1, <2>3, <2>4, SameExpectations DEF PipelineInv, StageOK
  <2>11. StageOK(r_valid[1], r_last[1], r_sop[1], r_subp_top_bot, At1)'
    BY <1>1, <2>1, <2>3, <2>6, SameExpectations DEF PipelineInv, StageOK
  <2>12. StageOK(r_valid[2], r_last[2], r_sop[2], weighted_along_y, At2)'
    BY <1>1, <1>5, <2>3, <2>7, <2>9, SameExpectations DEF StageOK
  <2> QED
    BY <1>1, <1>5, <2>3, <2>5, <2>8, <2>10, <2>11, <2>12 DEF PipelineInv
<1> QED
  BY <1>4, <1>5

-----------------------------------------------------------------------------
(* The position *)

\* The pixel group of an output pixel, and the top row of the window it is read from.
LEMMA ExpectedGroup ==
  ASSUME NEW v, NEW u
  PROVE  Expected(v, u) =
           [group |-> [topleft |-> Pixel(image, Row(v), Column(u)),
                       topright |-> Pixel(image, Row(v), NextColumn(u)),
                       botleft |-> Pixel(image, NextRow(v), Column(u)),
                       botright |-> Pixel(image, NextRow(v), NextColumn(u)),
                       alpha_x |-> Model!GET_FRAC(u * x_inc)],
            alpha_y |-> Model!GET_FRAC(v * y_inc)]
  BY DEF Expected, Model!group, Row, Column, NextRow, NextColumn, x_inc, y_inc

\* What the combinational signals mean then.
LEMMA Signals ==
  ASSUME JobFacts, Programmed(6), r_width_out = out_width, PositionInv
  PROVE  /\ r_floor_x = Column(c_x_out) /\ floor(w_x_incremented) = Column(c_x_out + 1)
         /\ r_floor_y = Row(c_y_out) /\ floor(w_y_incremented) = Row(c_y_out + 1)
         /\ alpha(r_x) = Model!GET_FRAC(c_x_out * x_inc) /\ alpha(r_y) = Model!GET_FRAC(c_y_out * y_inc)
         /\ last_x <=> c_x_out = out_width - 1
         /\ w_x_incremented = (c_x_out + 1) * x_inc /\ w_y_incremented = (c_y_out + 1) * y_inc
         /\ w_need_new_row <=> /\ c_x_out = out_width - 1 /\ Row(c_y_out + 1) > Row(c_y_out)
                               /\ Row(c_y_out + 1) < Job.height - 1
<1>1. c_x_out \in Nat /\ c_y_out \in Nat /\ c_x_out + 1 \in Nat /\ c_y_out + 1 \in Nat
  BY DEF PositionInv, JobFacts
<1>2. /\ register_map["x_inc"] = x_inc /\ register_map["y_inc"] = y_inc
      /\ register_map["height"] = Job.height
  BY Registers
<1>3. w_x_incremented = (c_x_out + 1) * x_inc /\ w_y_incremented = (c_y_out + 1) * y_inc
  BY <1>1, <1>2, Geometry DEF w_x_incremented, w_y_incremented, PositionInv
<1>4. \A n \in Nat : n * x_inc \in Nat /\ n * y_inc \in Nat
  BY Geometry
<1>5. \A x \in Nat : floor(x) = Model!GET_INT(x) /\ alpha(x) = Model!GET_FRAC(x)
  BY FixedPoint
<1>6. r_floor_x = Column(c_x_out) /\ floor(w_x_incremented) = Column(c_x_out + 1)
  BY <1>1, <1>3, <1>4, <1>5 DEF r_floor_x, Column, PositionInv
<1>7. r_floor_y = Row(c_y_out) /\ floor(w_y_incremented) = Row(c_y_out + 1)
  BY <1>1, <1>3, <1>4, <1>5 DEF r_floor_y, Row, PositionInv
<1>8. alpha(r_x) = Model!GET_FRAC(c_x_out * x_inc) /\ alpha(r_y) = Model!GET_FRAC(c_y_out * y_inc)
  BY <1>1, <1>4, <1>5 DEF PositionInv
<1>9. last_x <=> c_x_out = out_width - 1
  BY DEF last_x
<1> QED
  BY <1>2, <1>3, <1>6, <1>7, <1>8, <1>9 DEF w_need_new_row

\* The coordinates grow along a row and from row to row.
LEMMA Growing ==
  ASSUME JobFacts
  PROVE  /\ \A u \in Nat : Column(u) <= Column(u + 1)
         /\ \A v \in Nat : Row(v) <= Row(v + 1)
<1>1. ASSUME NEW a \in Nat, NEW b \in Nat
      PROVE  Model!GET_INT(a) <= Model!GET_INT(a + b)
  <2> DEFINE q == a \div One
             r == (a + b) \div One
  <2>1. One \in Nat \ {0} /\ a + b \in Nat
    BY FixedPoint
  <2>2. q \in Nat /\ r \in Nat /\ Model!GET_INT(a) = q /\ Model!GET_INT(a + b) = r
    BY <2>1, FixedPoint
  <2>3. CASE r < q
    <3>1. a + b < One * q
      BY <2>1, <2>2, <2>3, QuotientBelow
    <3>2. ~(a < One * q)
      BY <2>1, <2>2, QuotientBelow
    <3>3. One * q \in Nat
      BY <2>1, <2>2, Products
    <3> QED
      BY <3>1, <3>2, <3>3
  <2> QED
    BY <2>2, <2>3
<1>2. x_inc \in Nat /\ y_inc \in Nat
  BY DEF JobFacts
<1>3. ASSUME NEW u \in Nat PROVE Column(u) <= Column(u + 1)
  BY <1>1, <1>2, Geometry DEF Column
<1>4. ASSUME NEW v \in Nat PROVE Row(v) <= Row(v + 1)
  BY <1>1, <1>2, Geometry DEF Row
<1> QED
  BY <1>3, <1>4

\* An edge while source and sink run, taken apart.
LEMMA StreamStep ==
  ASSUME HostInv, NEW valid \in BOOLEAN, NEW ready \in BOOLEAN, Stream(valid, ready)
  PROVE  /\ UNCHANGED <<jobs, image, pc, param, register_map>>
         /\ pc = "run" /\ Programmed(6) /\ r_width_out = out_width
         /\ BufferEdge(valid, w_ram_rd, c_ram_rd_addr, RAM_RESET_PROC)
         /\ POSITION(ready) /\ PIPELINE(ready) /\ Sink(ready)
         /\ r_flush' <=> (r_flush \/ (last_x /\ last_y))
         /\ r_reinit' <=> (last_x /\ last_y /\ (w_proc_flag(ready) \/ source_last))
         /\ ~r_ctl_reset'
         /\ r_width_out' = out_width /\ r_height_out' = out_height
         /\ current_state' = NEXT_STATE_PROCESS(ready)
         /\ READ_DATA_BUFFERS /\ READ_PROCESS(w_ram_rd, c_ram_rd_addr)
<1>1. /\ pc = "run" /\ (valid => sending) /\ Source(valid) /\ Sink(ready)
      /\ AccClock(valid, Pixel(image, row, col), source_last, ready, NoWrite)
      /\ UNCHANGED <<jobs, pc, param, image>>
  BY DEF Stream, hostVars
<1>2. Programmed(6) /\ r_width_out = out_width /\ ~r_ctl_reset
  BY <1>1 DEF HostInv
<1>3. WriterClock(valid, Pixel(image, row, col), source_last, w_ram_rd, c_ram_rd_addr, RAM_RESET_PROC, FALSE)
  BY <1>1, <1>2 DEF AccClock, WriterClock, COUNT_ROWS
<1>4. BufferEdge(valid, w_ram_rd, c_ram_rd_addr, RAM_RESET_PROC)
  BY <1>1, <1>3 DEF BufferEdge
<1>5. register_map' = register_map
  BY <1>1 DEF AccClock, WRITE_MM, NoWrite, Params
<1>6. JobFacts
  BY JobIsHandled
<1>7. r_width_out' = out_width /\ r_height_out' = out_height
  BY <1>1, <1>2, <1>6, Registers, Dimensions DEF AccClock, OUTPUT_DIMS_CALC
<1>8. ~r_ctl_reset'
  BY <1>1 DEF AccClock, CTL_REG_PROC, NoWrite
<1>9. (r_flush' <=> (r_flush \/ (last_x /\ last_y)))
      /\ (r_reinit' <=> (last_x /\ last_y /\ (w_proc_flag(ready) \/ source_last)))
  BY <1>1, <1>2 DEF AccClock, FLUSH_PROCESS, next_flush
<1>10. /\ POSITION(ready) /\ PIPELINE(ready) /\ current_state' = NEXT_STATE_PROCESS(ready)
       /\ READ_DATA_BUFFERS /\ READ_PROCESS(w_ram_rd, c_ram_rd_addr)
  BY <1>1 DEF AccClock, PROCESSING, CONTROL_STATE, WriterClock
<1> QED
  BY <1>1, <1>2, <1>4, <1>5, <1>7, <1>8, <1>9, <1>10

\* What the position registers hold while nothing is processed.
LEMMA PositionRests ==
  ASSUME NEW ready \in BOOLEAN, POSITION(ready), ~r_reinit, ~(ready /\ current_state = "st_process")
  PROVE  UNCHANGED <<r_x, r_y, c_x_out, c_y_out>>
  BY DEF POSITION, Moved

-----------------------------------------------------------------------------
(* Running *)

\* The RAMs given back while a pixel is read and processed.
LEMMA WorkingReset ==
  ASSUME HostInv, Streaming, Working
  PROVE  RAM_RESET_PROC = IF Needed THEN {r_ram_sel} ELSE IF LastPixel THEN Rams ELSE {}
<1>1. JobFacts /\ Programmed(6) /\ r_width_out = out_width /\ PositionInv /\ c_row_count = row
  BY JobIsHandled DEF HostInv, Streaming, Window
<1>2. /\ r_floor_y = Row(c_y_out) /\ (last_x <=> c_x_out = out_width - 1)
      /\ w_need_new_row <=> Needed
  BY <1>1, Signals DEF Needed
<1>3. last_y <=> c_y_out = out_height - 1
  BY DEF last_y, Working
<1>4. Row(c_y_out) \in Nat /\ Job.height \in Nat
  <2>1. c_y_out \in Nat /\ Job.height \in Nat
    BY <1>1 DEF PositionInv, JobFacts
  <2> QED
    BY <1>1, <2>1, Geometry
<1>5. Row(c_y_out) < c_row_count
  BY <1>1, <1>4 DEF Working, TopRow
<1>6. (r_flush \/ (last_x /\ last_y)) <=> LastPixel
  BY <1>2, <1>3 DEF Working, LastPixel
<1>7. c_row_count \in Nat
  BY DEF Streaming, BufferType
<1> QED
  BY <1>2, <1>4, <1>5, <1>6, <1>7 DEF RAM_RESET_PROC, top_RAM

\* No row completes while a pixel is read and processed, and the pair stays as far as it does.
LEMMA WorkingBuffer ==
  ASSUME HostInv, Streaming, Working,
         NEW valid \in BOOLEAN, BufferEdge(valid, w_ram_rd, c_ram_rd_addr, RAM_RESET_PROC)
  PROVE  /\ BufferType' /\ Window' /\ row' = row /\ r_ram_sel' = r_ram_sel
         /\ Both => memory' = memory /\ col' = 0
         /\ col' <= (IF Both THEN 0 ELSE col + 1)
         /\ ~Leaving => Both /\ Both'
         /\ Leaving => /\ ~r_ram_filled'[r_ram_sel'] /\ ~Both'
                       /\ LastPixel \/ r_ram_filled'[Other(r_ram_sel')]
         /\ Leaving => ~source_last
<1>1. JobFacts /\ BufferType /\ Window /\ PairKept /\ stall \in Nat /\ stall <= Job.stall /\ image \in Nat
  BY JobIsHandled DEF HostInv, Streaming, Working
<1>2. RAM_RESET_PROC = IF Needed THEN {r_ram_sel} ELSE IF LastPixel THEN Rams ELSE {}
  BY WorkingReset
<1>3. /\ r_ram_sel \in Rams /\ Other(r_ram_sel) \in Rams /\ r_ram_sel # Other(r_ram_sel)
      /\ Rams = {r_ram_sel, Other(r_ram_sel)} /\ r_ram_filled \in [Rams -> BOOLEAN]
      /\ Both <=> r_ram_filled[r_ram_sel] /\ r_ram_filled[Other(r_ram_sel)]
      /\ Both' <=> r_ram_filled'[r_ram_sel] /\ r_ram_filled'[Other(r_ram_sel)]
      /\ col \in Nat /\ Job.width \in Nat /\ Job.width >= 4 /\ Job.stall <= Job.width - 4 /\ Job.stall \in Nat
  <2>1. /\ r_ram_sel \in Rams /\ r_ram_filled \in [Rams -> BOOLEAN]
        /\ col \in Nat /\ Job.width \in Nat /\ Job.width >= 4 /\ Job.stall <= Job.width - 4 /\ Job.stall \in Nat
    BY <1>1 DEF BufferType, JobFacts
  <2>2. /\ Other(r_ram_sel) \in Rams /\ r_ram_sel # Other(r_ram_sel) /\ Rams = {r_ram_sel, Other(r_ram_sel)}
        /\ \A b : b[0] /\ b[1] <=> b[r_ram_sel] /\ b[Other(r_ram_sel)]
    BY <2>1, TwoRams
  <2>3. /\ Both <=> r_ram_filled[r_ram_sel] /\ r_ram_filled[Other(r_ram_sel)]
        /\ Both' <=> r_ram_filled'[r_ram_sel] /\ r_ram_filled'[Other(r_ram_sel)]
    BY <2>2 DEF Both
  <2> QED
    BY <2>1, <2>2, <2>3
<1>4. Both => col = 0 /\ ~w_wr(valid)
  BY <1>1, <1>3 DEF Window, w_wr, w_asi_input_data_ready, Both
<1>5. Elapsed <= Job.width - 2
  BY <1>1, <1>3 DEF Elapsed, Working, Reading, Processing
<1>6. Elapsed \in Int
  BY <1>1, <1>3 DEF Elapsed, Working, Reading, Processing
<1>7. col <= Job.width - 2
  BY <1>3, <1>4, <1>5, <1>6, <1>1 DEF PairKept
<1>8. ~source_last
  BY <1>3, <1>7 DEF source_last
<1>9. Legal(valid, RAM_RESET_PROC)
  BY <1>2, <1>3, <1>8 DEF Legal
<1>10. BufferType' /\ Window'
  BY <1>1, <1>9, BufferTypeKept, WindowKept
<1>11. /\ row' = row /\ r_ram_sel' = r_ram_sel
       /\ r_ram_filled' = [i \in Rams |-> r_ram_filled[i] /\ i \notin RAM_RESET_PROC]
       /\ ~w_wr(valid) => memory' = memory /\ col' = col
       /\ w_wr(valid) => col' = col + 1
  BY <1>1, <1>8, BufferMoves
<1>12. Both => memory' = memory /\ col' = 0
  BY <1>4, <1>11
<1>13. col' <= (IF Both THEN 0 ELSE col + 1)
  BY <1>3, <1>4, <1>11
<1>14. ~Leaving => Both /\ Both'
  BY <1>1, <1>2, <1>3, <1>11 DEF PairKept, Leaving
<1>15. Leaving => ~r_ram_filled'[r_ram_sel'] /\ ~Both'
  BY <1>2, <1>3, <1>11 DEF Leaving
<1>16. Leaving => LastPixel \/ r_ram_filled'[Other(r_ram_sel')]
  BY <1>1, <1>2, <1>3, <1>11 DEF PairKept, Leaving
<1> QED
  BY <1>8, <1>10, <1>11, <1>12, <1>13, <1>14, <1>15, <1>16

\* An edge of the running accelerator at which no pixel is processed: the position and what is
\* computed for it stay, and so does the pipeline or moves by a bubble.
LEMMA RestingStep ==
  ASSUME HostInv, Streaming, NEW valid \in BOOLEAN, NEW ready \in BOOLEAN, Stream(valid, ready),
         ~(ready /\ current_state = "st_process")
  PROVE  /\ UNCHANGED <<r_x, r_y, c_x_out, c_y_out>>
         /\ PositionInv' /\ PipelineInv' /\ At3' = <<c_y_out', c_x_out'>>
<1>1. /\ UNCHANGED <<jobs, image>> /\ POSITION(ready) /\ PIPELINE(ready) /\ Sink(ready)
  BY StreamStep
<1>2. JobFacts /\ ~r_reinit /\ PositionInv /\ PipelineInv /\ At3 = <<c_y_out, c_x_out>>
  BY JobIsHandled DEF Streaming
<1>3. UNCHANGED <<r_x, r_y, c_x_out, c_y_out>>
  BY <1>1, <1>2, PositionRests
<1>4. PositionInv'
  BY <1>1, <1>2, <1>3, SameJob DEF PositionInv
<1>5. StageOK(ready /\ current_state = "st_process", last_x, c_x_out = 0, Entering, At3)
  BY DEF StageOK
<1>6. PipelineInv' /\ At3' = At3
  BY <1>1, <1>2, <1>5, PipelineKept
<1> QED
  BY <1>2, <1>3, <1>4, <1>6

\* While the accelerator waits, rows are skipped, accepted one by one, or a pair is there.
LEMMA WaitingStep ==
  ASSUME HostInv, Streaming, Waiting, NEW valid \in BOOLEAN, NEW ready \in BOOLEAN, Stream(valid, ready)
  PROVE  Running'
<1> DEFINE s == r_ram_sel
           o == Other(r_ram_sel)
           t == Row(c_y_out)
<1>1. /\ UNCHANGED <<jobs, image, pc>> /\ pc = "run" /\ Programmed(6) /\ r_width_out = out_width
      /\ BufferEdge(valid, w_ram_rd, c_ram_rd_addr, RAM_RESET_PROC)
      /\ r_flush' <=> (r_flush \/ (last_x /\ last_y))
      /\ r_reinit' <=> (last_x /\ last_y /\ (w_proc_flag(ready) \/ source_last))
      /\ r_height_out' = out_height
      /\ current_state' = NEXT_STATE_PROCESS(ready)
      /\ READ_DATA_BUFFERS
  BY StreamStep
<1>2. JobFacts /\ BufferType /\ Window /\ PositionInv /\ image \in Nat
  BY JobIsHandled DEF HostInv, Streaming
<1>3. current_state = "st_wait" /\ r_read_status = 0 /\ c_x_out = 0 /\ ~r_flush
  BY DEF Waiting
<1>4. /\ UNCHANGED <<r_x, r_y, c_x_out, c_y_out>>
      /\ PositionInv' /\ PipelineInv' /\ At3' = <<c_y_out', c_x_out'>>
  BY <1>3, RestingStep
<1>5. ~last_x /\ r_floor_y = t /\ ~w_need_new_row
  BY <1>1, <1>2, <1>3, Signals DEF JobFacts
<1>6. ~r_flush' /\ ~r_reinit'
  BY <1>1, <1>3, <1>5
<1>7. r_read_status' = 0
  BY <1>1, <1>3 DEF READ_DATA_BUFFERS
<1>8. current_state' = IF Both THEN "st_read" ELSE "st_wait"
  BY <1>1, <1>3 DEF NEXT_STATE_PROCESS, Both
<1>9. /\ Row(c_y_out)' = t /\ TopRow(c_y_out)' = TopRow(c_y_out) /\ out_height' = out_height /\ Job' = Job
  <2>1. Job' = Job /\ out_height' = out_height /\ \A v : Row(v)' = Row(v)
    BY <1>1, SameJob
  <2>2. Row(c_y_out)' = t
    BY <1>4, <2>1 DEF Row, y_inc
  <2> QED
    BY <2>1, <2>2 DEF TopRow
<1>10. c_row_count = row /\ RAM_RESET_PROC = IF t > row THEN Rams ELSE IF t = row THEN {o} ELSE {}
  BY <1>2, <1>3, <1>5 DEF RAM_RESET_PROC, Window, bottom_RAM
<1>11. /\ s \in Rams /\ o \in Rams /\ s # o /\ Rams = {s, o} /\ r_ram_filled \in [Rams -> BOOLEAN]
       /\ Other(o) = s /\ (Both <=> r_ram_filled[s] /\ r_ram_filled[o])
       /\ row \in Nat /\ row <= Job.height /\ Job.height \in Nat /\ t \in Nat /\ t <= Job.height - 1
  <2>1. t \in 0 .. Job.height - 1
    BY <1>2, Geometry DEF PositionInv
  <2> QED
    <3>1. /\ s \in Rams /\ r_ram_filled \in [Rams -> BOOLEAN]
          /\ row \in Nat /\ row <= Job.height /\ Job.height \in Nat
      BY <1>2 DEF BufferType, JobFacts
    <3>2. /\ o \in Rams /\ s # o /\ Rams = {s, o} /\ Other(o) = s
          /\ Both <=> r_ram_filled[s] /\ r_ram_filled[o]
      BY <3>1, TwoRams DEF Both
    <3> QED
      BY <2>1, <3>1, <3>2
<1>12. TopRow(c_y_out) = IF t = Job.height - 1 THEN Job.height - 2 ELSE t
  BY DEF TopRow
<1>13. BufferType'
  BY <1>1, <1>2, BufferTypeKept
<1> HIDE DEF s, o, t
<1>14. CASE Both
  <2>1. row = TopRow(c_y_out) + 2
    BY <1>11, <1>14 DEF Waiting, Both, Rams, s
  <2>2. RAM_RESET_PROC = {}
    BY <1>10, <1>11, <1>12, <2>1
  <2>3. ~w_wr(valid)
    BY <1>14 DEF w_wr, w_asi_input_data_ready, Both
  <2>4. Legal(valid, RAM_RESET_PROC)
    BY <2>2 DEF Legal
  <2>5. Window'
    BY <1>1, <1>2, <2>4, WindowKept
  <2>6. row' = row /\ r_ram_filled' = [i \in Rams |-> r_ram_filled[i] /\ i \notin RAM_RESET_PROC]
    BY <1>1, <1>2, <2>3, BufferMoves
  <2>7. Both'
    BY <1>14, <2>2, <2>6 DEF Both, Rams
  <2>8. Reading'
    BY <1>7, <1>8, <1>14, <2>7 DEF Reading
  <2>9. Working'
    BY <1>1, <1>6, <1>9, <2>1, <2>6, <2>7, <2>8 DEF Working, PairKept
  <2> QED
    BY <1>1, <1>4, <1>6, <1>13, <2>5, <2>9 DEF Running, Streaming
<1>15. CASE ~Both
  <2>1. ~r_ram_filled[s] /\ (t >= row \/ (r_ram_filled[o] /\ t = row - 1))
    BY <1>15 DEF Waiting, s, o, t
  <2>2. Legal(valid, RAM_RESET_PROC)
    BY <1>10, <1>11, <2>1 DEF Legal, s, o
  <2>3. Window'
    BY <1>1, <1>2, <2>2, WindowKept
  <2>4. CASE w_wr(valid) /\ source_last
    <3>1. /\ row' = row + 1 /\ r_ram_sel' = o
          /\ r_ram_filled' = [i \in Rams |-> (r_ram_filled[i] \/ i = s) /\ i \notin RAM_RESET_PROC]
      BY <1>1, <1>2, <2>4, BufferMoves DEF s, o
    <3>2. row < Job.height
      BY <1>1, <2>4 DEF source_last, sending
    <3>3. Both' <=> r_ram_filled'[s] /\ r_ram_filled'[o]
      BY <1>11 DEF Both, Rams
    <3> DEFINE n == row + 1
    <3>4. \/ Both' /\ n = TopRow(c_y_out) + 2
          \/ ~r_ram_filled'[o] /\ t >= n
          \/ ~r_ram_filled'[o] /\ r_ram_filled'[s] /\ t = n - 1
      <4>1. CASE t > row
        <5>1. ~r_ram_filled'[o]
          BY <1>10, <1>11, <3>1, <4>1
        <5>2. t >= n
          BY <1>11, <4>1
        <5> QED
          BY <5>1, <5>2
      <4>2. CASE t = row
        <5>1. RAM_RESET_PROC = {o}
          BY <1>10, <1>11, <4>2
        <5>2. ~r_ram_filled'[o] /\ r_ram_filled'[s]
          BY <1>11, <3>1, <5>1
        <5>3. t = n - 1
          BY <1>11, <4>2
        <5> QED
          BY <5>2, <5>3
      <4>3. CASE t = row - 1 /\ r_ram_filled[o]
        <5>1. RAM_RESET_PROC = {}
          BY <1>10, <1>11, <4>3
        <5>2. r_ram_filled'[o] /\ r_ram_filled'[s]
          BY <1>11, <3>1, <4>3, <5>1
        <5>3. n = TopRow(c_y_out) + 2
          BY <1>11, <1>12, <3>2, <4>3
        <5> QED
          BY <3>3, <5>2, <5>3
      <4> QED
        BY <1>11, <2>1, <4>1, <4>2, <4>3
    <3>5. n = row' /\ s = Other(r_ram_sel')
      <4>1. n = row'
        BY <3>1
      <4>2. s = Other(r_ram_sel')
        BY <1>11, <3>1
      <4> QED
        BY <4>1, <4>2
    <3> HIDE DEF n
    <3>6. Waiting'
      BY <1>3, <1>4, <1>6, <1>7, <1>8, <1>9, <1>15, <3>1, <3>4, <3>5 DEF Waiting
    <3> QED
      BY <1>1, <1>4, <1>6, <1>13, <2>3, <3>6 DEF Running, Streaming
  <2>5. CASE ~(w_wr(valid) /\ source_last)
    <3>1. /\ row' = row /\ r_ram_sel' = s
          /\ r_ram_filled' = [i \in Rams |-> r_ram_filled[i] /\ i \notin RAM_RESET_PROC]
      BY <1>1, <1>2, <2>5, BufferMoves DEF s, o
    <3>2. ~r_ram_filled'[s] /\ (t >= row \/ (r_ram_filled'[o] /\ t = row - 1))
      BY <1>10, <1>11, <2>1, <3>1
    <3>3. Other(s) = o
      BY DEF s, o
    <3>4. Waiting'
      BY <1>3, <1>4, <1>6, <1>7, <1>8, <1>9, <1>15, <3>1, <3>2, <3>3 DEF Waiting
    <3> QED
      BY <1>1, <1>4, <1>6, <1>13, <2>3, <3>4 DEF Running, Streaming
  <2> QED
    BY <2>4, <2>5
<1> QED
  BY <1>14, <1>15

\* What depends on the job and the position only.
LEMMA SamePosition ==
  ASSUME UNCHANGED <<jobs, image, c_x_out, c_y_out>>
  PROVE  /\ Row(c_y_out)' = Row(c_y_out) /\ TopRow(c_y_out)' = TopRow(c_y_out)
         /\ Column(c_x_out)' = Column(c_x_out) /\ NextColumn(c_x_out)' = NextColumn(c_x_out)
         /\ LastPixel' <=> LastPixel
         /\ Leaving' <=> Leaving
         /\ Job' = Job /\ out_height' = out_height /\ out_width' = out_width
<1>1. /\ Job' = Job /\ out_height' = out_height /\ out_width' = out_width /\ x_inc' = x_inc /\ y_inc' = y_inc
  BY SameJob
<1>2. Row(c_y_out)' = Row(c_y_out) /\ Row(c_y_out + 1)' = Row(c_y_out + 1)
  BY <1>1 DEF Row
<1>3. Column(c_x_out)' = Column(c_x_out)
  BY <1>1 DEF Column
<1>4. NextColumn(c_x_out)' = NextColumn(c_x_out)
  BY <1>1, <1>3 DEF NextColumn
<1>5. TopRow(c_y_out)' = TopRow(c_y_out)
  BY <1>1, <1>2 DEF TopRow
<1>6. LastPixel' <=> LastPixel
  BY <1>1 DEF LastPixel
<1>7. Leaving' <=> Leaving
  BY <1>1, <1>2, <1>6 DEF Leaving, Needed
<1> QED
  BY <1>1, <1>2, <1>3, <1>4, <1>5, <1>6, <1>7

\* An edge at which the accelerator keeps working on its pixel: it only has to be one cycle
\* further on than before.
LEMMA PixelStays ==
  ASSUME HostInv, Streaming, Working, NEW valid \in BOOLEAN, NEW ready \in BOOLEAN, Stream(valid, ready),
         ~(ready /\ current_state = "st_process"),
         NEW e \in Nat, Elapsed' = e, ~Both => Elapsed + 1 <= e, (Reading \/ Processing)'
  PROVE  Running'
<1>1. /\ UNCHANGED <<jobs, image, pc>> /\ pc = "run" /\ Programmed(6) /\ r_width_out = out_width
      /\ BufferEdge(valid, w_ram_rd, c_ram_rd_addr, RAM_RESET_PROC)
      /\ r_flush' <=> (r_flush \/ (last_x /\ last_y))
      /\ r_reinit' <=> (last_x /\ last_y /\ (w_proc_flag(ready) \/ source_last))
      /\ r_height_out' = out_height
  BY StreamStep
<1>2. /\ UNCHANGED <<r_x, r_y, c_x_out, c_y_out>>
      /\ PositionInv' /\ PipelineInv' /\ At3' = <<c_y_out', c_x_out'>>
  BY RestingStep
<1>3. /\ BufferType' /\ Window' /\ row' = row /\ r_ram_sel' = r_ram_sel
      /\ col' <= (IF Both THEN 0 ELSE col + 1)
      /\ ~Leaving => Both /\ Both'
      /\ Leaving => /\ ~r_ram_filled'[r_ram_sel'] /\ ~Both'
                    /\ LastPixel \/ r_ram_filled'[Other(r_ram_sel')]
      /\ Leaving => ~source_last
  BY <1>1, WorkingBuffer
<1>4. /\ TopRow(c_y_out)' = TopRow(c_y_out) /\ (LastPixel' <=> LastPixel) /\ (Leaving' <=> Leaving)
      /\ out_height' = out_height
  BY <1>1, <1>2, SamePosition
<1>5. last_x /\ last_y <=> LastPixel
  BY <1>1 DEF last_x, last_y, LastPixel, Working
<1>6. ~r_reinit' /\ (r_flush' => LastPixel')
  BY <1>1, <1>3, <1>4, <1>5 DEF Leaving, w_proc_flag, Working
<1>7. Leaving => col' <= e
  <2>1. col \in Nat /\ col' \in Nat /\ Elapsed \in Int
    <3>1. JobFacts /\ BufferType /\ stall \in Nat
      BY JobIsHandled DEF HostInv, Streaming
    <3>2. Job' = Job
      BY <1>1, SameJob
    <3>3. col \in 0 .. Job.width - 1 /\ Job.width \in Nat
      BY <3>1 DEF BufferType, JobFacts
    <3>4. col' \in 0 .. Job.width - 1
      BY <1>3, <3>2 DEF BufferType
    <3>5. Elapsed \in Int
      BY <3>1 DEF Elapsed, Working, Reading, Processing
    <3> QED
      BY <3>3, <3>4, <3>5
  <2>2. ~Both => col <= Elapsed
    BY DEF Working, PairKept
  <2> DEFINE k == col'
             x == Elapsed
  <2>3. k \in Nat /\ x \in Int /\ k <= (IF Both THEN 0 ELSE col + 1) /\ (~Both => x + 1 <= e /\ col <= x)
    BY <1>3, <2>1, <2>2
  <2> HIDE DEF k, x
  <2>4. k <= e
    BY <2>1, <2>3
  <2> QED
    BY <2>4 DEF k
<1>8. PairKept'
  BY <1>3, <1>4, <1>7 DEF PairKept
<1>9. row' = TopRow(c_y_out)' + 2
  BY <1>3, <1>4 DEF Working
<1>10. Working'
  BY <1>1, <1>4, <1>6, <1>8, <1>9 DEF Working
<1> QED
  BY <1>1, <1>2, <1>3, <1>6, <1>10 DEF Running, Streaming

\* The three cycles of the read of a pixel group.
LEMMA ReadingStep ==
  ASSUME HostInv, Streaming, Working, Reading, NEW valid \in BOOLEAN, NEW ready \in BOOLEAN, Stream(valid, ready)
  PROVE  Running'
<1> DEFINE s == r_ram_sel
           o == Other(r_ram_sel)
           t == TopRow(c_y_out)
           c0 == Column(c_x_out)
           c1 == NextColumn(c_x_out)
<1>1. /\ UNCHANGED <<jobs, image, pc>> /\ pc = "run" /\ Programmed(6) /\ r_width_out = out_width
      /\ BufferEdge(valid, w_ram_rd, c_ram_rd_addr, RAM_RESET_PROC)
      /\ current_state' = NEXT_STATE_PROCESS(ready)
      /\ READ_DATA_BUFFERS /\ READ_PROCESS(w_ram_rd, c_ram_rd_addr) /\ Sink(ready)
  BY StreamStep
<1>2. JobFacts /\ PositionInv /\ Window /\ current_state = "st_read" /\ stall \in Nat
  BY JobIsHandled DEF HostInv, Streaming, Reading
<1>3. r_ram_sel' = r_ram_sel /\ (Both => memory' = memory)
  BY <1>1, WorkingBuffer
<1>4. UNCHANGED <<r_x, r_y, c_x_out, c_y_out>>
  BY <1>2, RestingStep
<1>5. TopRow(c_y_out)' = t /\ Column(c_x_out)' = c0 /\ NextColumn(c_x_out)' = c1 /\ Job' = Job
  BY <1>1, <1>4, SamePosition
<1>6. c0 \in 0 .. Job.width - 1 /\ c1 \in 0 .. Job.width - 1 /\ r_floor_x = c0
      /\ c1 = IF c0 # Job.width - 1 THEN c0 + 1 ELSE c0
  <2>1. c0 \in 0 .. Job.width - 1 /\ r_floor_x = c0 /\ Job.width \in Nat
    BY <1>1, <1>2, Geometry, Signals DEF PositionInv, JobFacts
  <2> QED
    BY <2>1 DEF NextColumn, Model!saturated_next
<1>7. r_ram_sel \in Rams /\ Other(r_ram_sel) \in Rams /\ Rams = {0, 1}
      /\ top_RAM = s /\ bottom_RAM = o /\ top_RAM' = s /\ bottom_RAM' = o
  BY <1>3 DEF Streaming, BufferType, Rams, Other, top_RAM, bottom_RAM
<1>8. data_out' = [i \in Rams |-> memory[i][c_ram_rd_addr]]
  BY <1>1, <1>2 DEF READ_PROCESS, w_ram_rd
<1>9. r_read_status' = (r_read_status + 1) % 3
  BY <1>1, <1>2 DEF READ_DATA_BUFFERS
<1>10. current_state' = IF r_read_status = 2 THEN "st_process" ELSE "st_read"
  BY <1>1, <1>2 DEF NEXT_STATE_PROCESS, read_done
<1>11. row = t + 2 /\ t \in Int /\ row \in Nat
  <2>1. c_y_out \in Nat /\ Job.height \in Nat
    BY <1>2 DEF PositionInv, JobFacts
  <2>2. Row(c_y_out) \in Nat
    BY <1>2, <2>1, Geometry
  <2>3. t \in Int /\ row = t + 2
    BY <2>1, <2>2 DEF Working, TopRow
  <2>4. row \in Nat
    BY <2>1 DEF Streaming, BufferType
  <2> QED
    BY <2>3, <2>4
<1>12. /\ Top(Column(c_x_out))' = Top(c0) /\ Bottom(Column(c_x_out))' = Bottom(c0)
       /\ Top(NextColumn(c_x_out))' = Top(c1) /\ Bottom(NextColumn(c_x_out))' = Bottom(c1)
       /\ \A c : Top(c) = Pixel(image, t, c) /\ Bottom(c) = Pixel(image, t + 1, c)
  BY <1>1, <1>5 DEF Top, Bottom, Pixel
<1>13. /\ HoldsRow(s, t) => memory[s][c0] = Top(c0) /\ memory[s][c1] = Top(c1)
       /\ HoldsRow(o, t + 1) => memory[o][c0] = Bottom(c0) /\ memory[o][c1] = Bottom(c1)
  BY <1>6, <1>12 DEF HoldsRow
<1> HIDE DEF t, c0, c1, s, o
<1>14. CASE r_read_status = 0
  <2>1. Both
    BY <1>14 DEF Reading
  <2>2. HoldsRow(s, t) /\ HoldsRow(o, t + 1)
    <3>1. HoldsRow(s, row - 2) /\ HoldsRow(o, row - 1)
      BY <1>2, <1>7, <2>1 DEF Window, Both, Rams, s, o
    <3>2. row - 2 = t /\ row - 1 = t + 1
      BY <1>11
    <3> QED
      BY <3>1, <3>2
  <2>3. c_ram_rd_addr = c0
    BY <1>6, <1>14 DEF c_ram_rd_addr
  <2>4. data_out'[s] = Top(c0) /\ data_out'[o] = Bottom(c0)
    BY <1>7, <1>8, <1>12, <1>13, <2>2, <2>3 DEF s, o
  <2>5. OnTheWay(Column(c_x_out))'
    BY <1>5, <1>7, <1>12, <2>4 DEF OnTheWay
  <2>6. memory' = memory
    BY <1>3, <2>1
  <2>7. HoldsRow(top_RAM, TopRow(c_y_out))' /\ HoldsRow(bottom_RAM, TopRow(c_y_out) + 1)'
    BY <1>1, <1>5, <1>7, <2>2, <2>6 DEF HoldsRow, Pixel
  <2>8. r_read_status' = 1 /\ current_state' = "st_read"
    BY <1>9, <1>10, <1>14
  <2>9. Reading'
    BY <2>5, <2>7, <2>8 DEF Reading
  <2>10. Elapsed' = 0
    BY <2>8 DEF Elapsed
  <2> QED
    BY <1>2, <2>1, <2>9, <2>10, PixelStays
<1>15. CASE r_read_status = 1
  <2>1. OnTheWay(c0) /\ HoldsRow(s, t) /\ HoldsRow(o, t + 1)
    BY <1>7, <1>15 DEF Reading, c0, t
  <2>2. c_ram_rd_addr = c1
    <3>1. register_map["width"] = Job.width
      BY <1>1, Registers
    <3> QED
      BY <1>2, <1>6, <1>15, <3>1 DEF c_ram_rd_addr
  <2>3. data_out'[s] = Top(c1) /\ data_out'[o] = Bottom(c1)
    BY <1>7, <1>8, <1>12, <1>13, <2>1, <2>2 DEF s, o
  <2>4. OnTheWay(NextColumn(c_x_out))'
    BY <1>5, <1>7, <1>12, <2>3 DEF OnTheWay
  <2>5. r_top' = [r_top EXCEPT ![0] = data_out[top_RAM]] /\ r_bottom' = [r_bottom EXCEPT ![0] = data_out[bottom_RAM]]
    BY <1>1, <1>2, <1>15 DEF READ_DATA_BUFFERS
  <2>6. r_top'[0] = Top(c0) /\ r_bottom'[0] = Bottom(c0)
    BY <2>1, <2>5 DEF OnTheWay, HostInv
  <2>7. LeftRead'
    BY <1>5, <1>12, <2>6 DEF LeftRead
  <2>8. r_read_status' = 2 /\ current_state' = "st_read"
    BY <1>9, <1>10, <1>15
  <2>9. Reading'
    BY <2>4, <2>7, <2>8 DEF Reading
  <2>10. Elapsed' = 1 /\ Elapsed = 0
    BY <1>2, <1>15, <2>8 DEF Elapsed
  <2> QED
    BY <1>2, <2>9, <2>10, PixelStays
<1>16. CASE r_read_status = 2
  <2>1. OnTheWay(c1) /\ LeftRead
    BY <1>16 DEF Reading, c1
  <2>2. r_top' = [r_top EXCEPT ![1] = data_out[top_RAM]] /\ r_bottom' = [r_bottom EXCEPT ![1] = data_out[bottom_RAM]]
    BY <1>1, <1>2, <1>16 DEF READ_DATA_BUFFERS
  <2>3. r_top'[1] = Top(c1) /\ r_bottom'[1] = Bottom(c1) /\ r_top'[0] = r_top[0] /\ r_bottom'[0] = r_bottom[0]
    BY <2>1, <2>2 DEF OnTheWay, HostInv
  <2>4. LeftRead'
    BY <1>5, <1>12, <2>1, <2>3 DEF LeftRead, c0
  <2>5. RightRead'
    BY <1>5, <1>12, <2>3 DEF RightRead
  <2>6. r_read_status' = 0 /\ current_state' = "st_process"
    BY <1>9, <1>10, <1>16
  <2>7. Processing'
    BY <2>4, <2>5, <2>6 DEF Processing
  <2>8. stall' \in Nat
    BY <1>1, <1>2 DEF Sink
  <2>9. PICK k \in Nat : k = stall'
    BY <2>8
  <2>10. Elapsed' = 2 + k /\ Elapsed = 1
    BY <1>2, <1>16, <2>6, <2>9 DEF Elapsed
  <2>11. 2 + k \in Nat /\ Elapsed + 1 <= 2 + k
    BY <2>10
  <2> QED
    BY <1>2, <2>7, <2>10, <2>11, PixelStays
<1> QED
  BY <1>14, <1>15, <1>16 DEF Reading

\* The group that enters the pipeline is the one the software model computes the pixel from, but
\* for the pixels of the last column whose row and the next disagree on the saturation.
LEMMA EnteringRight ==
  ASSUME HostInv, Streaming, Working, Processing
  PROVE  \A ok \in BOOLEAN : StageOK(ok, last_x, c_x_out = 0, Entering, At3)
<1> DEFINE v == c_y_out
           u == c_x_out
           t == Row(c_y_out)
           h == Job.height
<1>1. JobFacts /\ Programmed(6) /\ r_width_out = out_width /\ PositionInv /\ At3 = <<v, u>>
  BY JobIsHandled DEF HostInv, Streaming
<1>2. /\ r_floor_y = Row(v) /\ floor(w_y_incremented) = Row(v + 1) /\ (last_x <=> u = out_width - 1)
      /\ alpha(r_x) = Model!GET_FRAC(u * x_inc) /\ alpha(r_y) = Model!GET_FRAC(v * y_inc)
  BY <1>1, Signals
<1>3. register_map["height"] = h
  BY <1>1, Registers
<1>4. t \in 0 .. h - 1 /\ h \in Nat \ {0}
  BY <1>1, Geometry DEF PositionInv, JobFacts
<1>5. ASSUME ~RowEndDeviates(v, u)
      PROVE  Entering = Expected(v, u)
  <2>1. \A k : TopSaturates(k) <=> Row(k) = h - 1
    BY DEF TopSaturates, Row, y_inc
  <2>2. v_floor_y # h - 1 <=> t # h - 1
    BY <1>2, <1>5, <2>1 DEF v_floor_y, RowEndDeviates
  <2>3. /\ r_top[0] = Pixel(image, TopRow(v), Column(u)) /\ r_top[1] = Pixel(image, TopRow(v), NextColumn(u))
        /\ r_bottom[0] = Pixel(image, TopRow(v) + 1, Column(u))
        /\ r_bottom[1] = Pixel(image, TopRow(v) + 1, NextColumn(u))
    BY DEF Processing, LeftRead, RightRead, Top, Bottom
  <2>4. TopRow(v) + 1 = NextRow(v)
    BY <1>4 DEF TopRow, NextRow, Model!saturated_next
  <2>5. v_top[0] = Pixel(image, t, Column(u)) /\ v_top[1] = Pixel(image, t, NextColumn(u))
    <3>1. CASE t = h - 1
      <4>1. v_top = r_bottom /\ TopRow(v) + 1 = t
        BY <1>3, <1>4, <2>2, <3>1 DEF v_top, TopRow
      <4> QED
        BY <2>3, <4>1
    <3>2. CASE t # h - 1
      <4>1. v_top = r_top /\ TopRow(v) = t
        BY <1>3, <2>2, <3>2 DEF v_top, TopRow
      <4> QED
        BY <2>3, <4>1
    <3> QED
      BY <3>1, <3>2
  <2> QED
    BY <1>2, <2>3, <2>4, <2>5, ExpectedGroup DEF Entering, weighted_along_x
<1> QED
  BY <1>1, <1>2, <1>5 DEF StageOK

\* An edge at which a pixel is processed, taken apart.
LEMMA ProcessedStep ==
  ASSUME HostInv, Streaming, Working, Processing, NEW valid \in BOOLEAN, Stream(valid, TRUE)
  PROVE  /\ PipelineInv' /\ At3' = NextPos(<<c_y_out, c_x_out>>)
         /\ c_x_out # out_width - 1 =>
              /\ PositionInv' /\ c_x_out' = c_x_out + 1 /\ c_y_out' = c_y_out
              /\ ~r_reinit' /\ ~r_flush'
              /\ current_state' = IF Column(c_x_out + 1) > Column(c_x_out) THEN "st_read" ELSE "st_process"
         /\ c_x_out = out_width - 1 => current_state' = "st_wait" /\ r_x' = 0
         /\ c_x_out = out_width - 1 /\ c_y_out # out_height - 1 =>
              /\ PositionInv' /\ c_x_out' = 0 /\ c_y_out' = c_y_out + 1
              /\ ~r_reinit' /\ ~r_flush'
         /\ LastPixel => r_y' = 0 /\ r_reinit' /\ r_flush' /\ r_valid'[2]
         /\ UNCHANGED <<r_read_status, r_top, r_bottom>>
<1> DEFINE v == c_y_out
           u == c_x_out
<1>1. /\ UNCHANGED <<jobs, image>> /\ Programmed(6) /\ r_width_out = out_width
      /\ POSITION(TRUE) /\ PIPELINE(TRUE) /\ Sink(TRUE)
      /\ r_flush' <=> (r_flush \/ (last_x /\ last_y))
      /\ r_reinit' <=> (last_x /\ last_y /\ (w_proc_flag(TRUE) \/ source_last))
      /\ current_state' = NEXT_STATE_PROCESS(TRUE)
      /\ READ_DATA_BUFFERS
  BY StreamStep
<1>2. /\ JobFacts /\ PositionInv /\ PipelineInv /\ At3 = <<v, u>> /\ ~r_reinit
      /\ current_state = "st_process" /\ r_height_out = out_height /\ (r_flush => LastPixel)
  BY JobIsHandled DEF HostInv, Streaming, Working, Processing
<1>3. StageOK(TRUE /\ current_state = "st_process", last_x, c_x_out = 0, Entering, At3)
  BY <1>2, EnteringRight
<1>4. PipelineInv' /\ At3' = NextPos(<<v, u>>)
  BY <1>1, <1>2, <1>3, PipelineKept
<1>5. UNCHANGED <<r_read_status, r_top, r_bottom>>
  BY <1>1, <1>2 DEF READ_DATA_BUFFERS
<1>6. /\ r_floor_x = Column(u) /\ floor(w_x_incremented) = Column(u + 1)
      /\ floor(w_y_incremented) = Row(v + 1)
      /\ w_x_incremented = (u + 1) * x_inc /\ w_y_incremented = (v + 1) * y_inc
  BY <1>1, <1>2, Signals
<1>7. (last_x <=> u = out_width - 1) /\ (last_y <=> v = out_height - 1)
  BY <1>1, <1>2 DEF last_x, last_y
<1>8. /\ r_x' = next_x /\ c_x_out' = next_x_out
      /\ r_y' = (IF last_x THEN next_y ELSE r_y) /\ c_y_out' = (IF last_x THEN next_y_out ELSE c_y_out)
  BY <1>1, <1>2 DEF POSITION, Moved
<1>9. /\ register_map["width"] = Job.width /\ register_map["height"] = Job.height
  BY <1>1, Registers
<1>10. /\ u \in 0 .. out_width - 1 /\ v \in 0 .. out_height - 1 /\ out_width \in Nat /\ out_height \in Nat
       /\ out_width > 1 /\ Job.width \in Nat /\ Job.height \in Nat
  BY <1>2 DEF PositionInv, JobFacts
<1>11. x_inc' = x_inc /\ y_inc' = y_inc /\ out_width' = out_width /\ out_height' = out_height
  BY <1>1, SameJob
<1>12. ASSUME u # out_width - 1
       PROVE  /\ PositionInv' /\ c_x_out' = u + 1 /\ c_y_out' = v
              /\ ~r_reinit' /\ ~r_flush'
              /\ current_state' = IF Column(u + 1) > Column(u) THEN "st_read" ELSE "st_process"
  <2>1. u + 1 \in 0 .. out_width - 1 /\ ~last_x
    BY <1>7, <1>10, <1>12
  <2>2. Column(u + 1) < Job.width
    <3>1. Column(u + 1) \in 0 .. Job.width - 1
      BY <1>2, <2>1, Geometry
    <3> QED
      BY <1>10, <3>1
  <2>3. r_x' = (u + 1) * x_inc /\ r_y' = r_y
    BY <1>6, <1>8, <1>9, <2>1, <2>2 DEF next_x
  <2>4. c_x_out' = u + 1 /\ c_y_out' = v
    <3>1. u + 1 <= r_width_out - 1
      BY <1>1, <1>10, <2>1
    <3> QED
      BY <1>8, <2>1, <3>1 DEF next_x_out
  <2>5. PositionInv'
    BY <1>2, <1>11, <2>1, <2>3, <2>4 DEF PositionInv
  <2>6. ~r_reinit' /\ ~r_flush'
    BY <1>1, <1>2, <1>12, <2>1 DEF LastPixel
  <2>7. u < r_width_out - 1
    BY <1>1, <1>10, <2>1
  <2>8. current_state' = IF Column(u + 1) > Column(u) THEN "st_read" ELSE "st_process"
    BY <1>1, <1>2, <1>6, <2>1, <2>7 DEF NEXT_STATE_PROCESS, w_proc_flag
  <2> QED
    BY <2>4, <2>5, <2>6, <2>8
<1>13. ASSUME u = out_width - 1
       PROVE  current_state' = "st_wait" /\ r_x' = 0
  <2>1. ~(u < r_width_out - 1) /\ last_x
    BY <1>1, <1>7, <1>10, <1>13
  <2> QED
    BY <1>1, <1>2, <1>8, <2>1 DEF NEXT_STATE_PROCESS, w_proc_flag, next_x
<1>14. ASSUME u = out_width - 1, v # out_height - 1
       PROVE  /\ PositionInv' /\ c_x_out' = 0 /\ c_y_out' = v + 1
              /\ ~r_reinit' /\ ~r_flush'
  <2>1. v + 1 \in 0 .. out_height - 1 /\ last_x /\ ~last_y /\ ~(u + 1 <= r_width_out - 1)
    BY <1>1, <1>7, <1>10, <1>14
  <2>2. Row(v + 1) < Job.height
    <3>1. Row(v + 1) \in 0 .. Job.height - 1
      BY <1>2, <2>1, Geometry
    <3> QED
      BY <1>10, <3>1
  <2>3. r_x' = 0 /\ r_y' = (v + 1) * y_inc
    BY <1>6, <1>8, <1>9, <2>1, <2>2 DEF next_x, next_y
  <2>4. c_x_out' = 0 /\ c_y_out' = v + 1
    <3>1. v + 1 <= r_height_out - 1
      BY <1>2, <1>10, <2>1
    <3> QED
      BY <1>8, <2>1, <3>1 DEF next_x_out, next_y_out
  <2>5. 0 = 0 * x_inc /\ 0 \in 0 .. out_width - 1
    BY <1>2, <1>10 DEF JobFacts
  <2>6. PositionInv'
    BY <1>11, <2>1, <2>3, <2>4, <2>5 DEF PositionInv
  <2>7. ~r_reinit' /\ ~r_flush'
    BY <1>1, <1>2, <1>14, <2>1 DEF LastPixel
  <2> QED
    BY <2>4, <2>6, <2>7
<1>15. ASSUME LastPixel
       PROVE  r_y' = 0 /\ r_reinit' /\ r_flush' /\ r_valid'[2]
  <2>1. last_x /\ last_y
    BY <1>7, <1>15 DEF LastPixel
  <2>2. r_y' = 0
    BY <1>8, <2>1 DEF next_y
  <2>3. r_reinit' /\ r_flush'
    BY <1>1, <1>2, <2>1 DEF w_proc_flag
  <2>4. r_valid'[2]
    <3>1. r_valid' = Shift(r_valid, current_state = "st_process")
      BY <1>1 DEF PIPELINE
    <3>2. r_valid'[2] = (current_state = "st_process")
      BY <3>1 DEF Shift, Stages
    <3> QED
      BY <1>2, <3>2
  <2> QED
    BY <2>2, <2>3, <2>4
<1> QED
  BY <1>4, <1>5, <1>12, <1>13, <1>14, <1>15

\* An edge at which a pixel is processed, or the sink is not ready for it.
LEMMA ProcessingStep ==
  ASSUME HostInv, Streaming, Working, Processing, NEW valid \in BOOLEAN, NEW ready \in BOOLEAN,
         Stream(valid, ready)
  PROVE  Running' \/ Over'
<1> DEFINE v == c_y_out
           u == c_x_out
           h == Job.height
           w == out_width
<1>1. /\ UNCHANGED <<jobs, image, pc>> /\ pc = "run"
      /\ BufferEdge(valid, w_ram_rd, c_ram_rd_addr, RAM_RESET_PROC)
      /\ r_height_out' = out_height /\ current_state' = NEXT_STATE_PROCESS(ready)
      /\ READ_DATA_BUFFERS /\ Sink(ready)
  BY StreamStep
<1>2. /\ JobFacts /\ PositionInv /\ current_state = "st_process" /\ r_read_status = 0
      /\ LeftRead /\ RightRead /\ row = TopRow(v) + 2 /\ stall \in Nat
  BY JobIsHandled DEF HostInv, Streaming, Working, Processing
<1>3. /\ BufferType' /\ Window' /\ row' = row /\ r_ram_sel' = r_ram_sel
      /\ ~Leaving => Both'
      /\ Leaving => /\ ~r_ram_filled'[r_ram_sel'] /\ ~Both'
                    /\ LastPixel \/ r_ram_filled'[Other(r_ram_sel')]
  BY <1>1, WorkingBuffer
<1>4. /\ u \in 0 .. w - 1 /\ v \in 0 .. out_height - 1 /\ w \in Nat /\ out_height \in Nat \ {0}
      /\ h \in Nat \ {0} /\ Row(v) \in 0 .. h - 1 /\ u + 1 \in Nat /\ v + 1 \in Nat
  <2>1. /\ u \in 0 .. w - 1 /\ v \in 0 .. out_height - 1 /\ w \in Nat /\ out_height \in Nat \ {0}
        /\ h \in Nat \ {0}
    BY <1>2 DEF PositionInv, JobFacts
  <2>2. Row(v) \in 0 .. h - 1
    BY <1>2, <2>1, Geometry
  <2>3. u + 1 \in Nat /\ v + 1 \in Nat
    BY <2>1
  <2> QED
    BY <2>1, <2>2, <2>3
<1>5. /\ Job' = Job /\ out_height' = out_height /\ out_width' = w
      /\ \A k : Row(k)' = Row(k) /\ Column(k)' = Column(k) /\ NextColumn(k)' = NextColumn(k)
  BY <1>1, SameJob
<1>6. CASE ~ready
  <2>1. current_state' = "st_process" /\ UNCHANGED <<r_read_status, r_top, r_bottom>>
    BY <1>1, <1>2, <1>6 DEF NEXT_STATE_PROCESS, w_proc_flag, READ_DATA_BUFFERS
  <2>2. UNCHANGED <<c_x_out, c_y_out>>
    BY <1>6, RestingStep
  <2>3. /\ TopRow(c_y_out)' = TopRow(c_y_out) /\ Column(c_x_out)' = Column(c_x_out)
        /\ NextColumn(c_x_out)' = NextColumn(c_x_out)
    BY <1>1, <2>2, SamePosition
  <2>4. LeftRead' /\ RightRead'
    BY <1>1, <1>2, <2>1, <2>3 DEF LeftRead, RightRead, Top, Bottom, Pixel
  <2>5. Processing'
    BY <1>2, <2>1, <2>4 DEF Processing
  <2>6. Elapsed' = 3 + stall /\ Elapsed = 2 + stall
    <3>1. stall' = stall + 1
      BY <1>1, <1>6 DEF Sink
    <3>2. Elapsed' = 2 + (stall + 1)
      BY <2>1, <3>1 DEF Elapsed
    <3> QED
      BY <1>2, <3>2 DEF Elapsed
  <2>7. 3 + stall \in Nat /\ Elapsed + 1 <= 3 + stall
    BY <1>2, <2>6
  <2> QED
    BY <1>6, <2>5, <2>6, <2>7, PixelStays
<1>7. CASE ready /\ u # w - 1
  <2>1. /\ PipelineInv' /\ At3' = NextPos(<<v, u>>)
        /\ PositionInv' /\ c_x_out' = u + 1 /\ c_y_out' = v
        /\ ~r_reinit' /\ ~r_flush'
        /\ current_state' = IF Column(u + 1) > Column(u) THEN "st_read" ELSE "st_process"
        /\ UNCHANGED <<r_read_status, r_top, r_bottom>>
    BY <1>7, ProcessedStep
  <2>2. At3' = <<c_y_out', c_x_out'>>
    BY <1>7, <2>1 DEF NextPos
  <2>3. ~Leaving
    BY <1>7 DEF Leaving, LastPixel, Needed
  <2>4. TopRow(c_y_out)' = TopRow(v)
    BY <1>5, <2>1 DEF TopRow, Row, y_inc
  <2>5. (Reading \/ Processing)'
    <3>1. CASE Column(u + 1) > Column(u)
      BY <1>2, <1>3, <2>1, <2>3, <3>1 DEF Reading
    <3>2. CASE ~(Column(u + 1) > Column(u))
      <4>1. Column(u + 1) = Column(u)
        <5>1. Column(u) <= Column(u + 1) /\ Column(u) \in Nat /\ Column(u + 1) \in Nat
          <6>1. u \in Nat /\ u + 1 \in Nat
            BY <1>4
          <6>2. Column(u) <= Column(u + 1)
            BY <1>2, <6>1, Growing
          <6> QED
            BY <1>2, <6>1, <6>2, Geometry
        <5> QED
          BY <3>2, <5>1
      <4>2. Column(c_x_out)' = Column(u)
        <5>1. Column(c_x_out)' = Column(u + 1)
          BY <1>5, <2>1 DEF Column, x_inc
        <5> QED
          BY <4>1, <5>1
      <4>3. NextColumn(c_x_out)' = NextColumn(u)
        BY <1>5, <4>2 DEF NextColumn
      <4>4. LeftRead' /\ RightRead'
        BY <1>1, <1>2, <2>1, <2>4, <4>2, <4>3 DEF LeftRead, RightRead, Top, Bottom, Pixel
      <4> QED
        BY <1>2, <2>1, <3>2, <4>4 DEF Processing
    <3> QED
      BY <3>1, <3>2
  <2>6. Working'
    BY <1>1, <1>2, <1>3, <1>5, <2>1, <2>3, <2>4, <2>5 DEF Working, PairKept
  <2> QED
    BY <1>1, <1>3, <2>1, <2>2, <2>6 DEF Running, Streaming
<1>8. CASE ready /\ u = w - 1 /\ v # out_height - 1
  <2>1. /\ PipelineInv' /\ At3' = NextPos(<<v, u>>) /\ current_state' = "st_wait"
        /\ PositionInv' /\ c_x_out' = 0 /\ c_y_out' = v + 1
        /\ ~r_reinit' /\ ~r_flush' /\ r_read_status' = 0
    BY <1>2, <1>8, ProcessedStep
  <2>2. At3' = <<c_y_out', c_x_out'>>
    BY <1>8, <2>1 DEF NextPos
  <2> DEFINE t == Row(v)
             n == Row(v + 1)
  <2>3. n \in 0 .. h - 1 /\ t <= n /\ (n = h - 1 => t >= h - 2) /\ t \in Nat /\ n \in Nat /\ row = TopRow(v) + 2
    <3>1. v + 1 \in 0 .. out_height - 1 /\ v + 1 < out_height /\ v \in Nat
      BY <1>4, <1>8
    <3>2. n \in 0 .. h - 1 /\ t \in Nat /\ n \in Nat
      BY <1>2, <1>4, <3>1, Geometry
    <3>3. n = h - 1 => t >= h - 2
      BY <1>2, <3>1, Geometry
    <3>4. t <= n
      BY <1>2, <3>1, Growing
    <3> QED
      BY <1>2, <3>2, <3>3, <3>4
  <2>4. Leaving <=> n > t /\ n < h - 1
    BY <1>8 DEF Leaving, LastPixel, Needed
  <2>5. ~LastPixel
    BY <1>8 DEF LastPixel
  <2>6. Row(c_y_out)' = n
    BY <1>5, <2>1 DEF Row, y_inc
  <2>7. TopRow(c_y_out)' = TopRow(v + 1)
    BY <1>5, <2>6 DEF TopRow
  <2>8. TopRow(v) = (IF t = h - 1 THEN h - 2 ELSE t) /\ TopRow(v + 1) = (IF n = h - 1 THEN h - 2 ELSE n)
    BY DEF TopRow
  <2> HIDE DEF t, n, h
  <2>9. Waiting'
    <3>1. CASE Leaving
      <4>1. row = t + 2
        BY <1>4, <2>3, <2>4, <2>8, <3>1
      <4>2. n >= row \/ n = row - 1
        BY <2>3, <2>4, <3>1, <4>1
      <4>3. ~r_ram_filled'[r_ram_sel'] /\ r_ram_filled'[Other(r_ram_sel')]
        BY <1>3, <2>5, <3>1
      <4> QED
        BY <1>3, <2>1, <2>6, <4>2, <4>3 DEF Waiting
    <3>2. CASE ~Leaving
      <4>1. row = TopRow(v + 1) + 2
        BY <1>4, <2>3, <2>4, <2>8, <3>2
      <4> QED
        BY <1>3, <2>1, <2>7, <3>2, <4>1 DEF Waiting
    <3> QED
      BY <3>1, <3>2
  <2> QED
    BY <1>1, <1>3, <2>1, <2>2, <2>9 DEF Running, Streaming
<1>9. CASE ready /\ u = w - 1 /\ v = out_height - 1
  <2>1. LastPixel /\ Leaving
    BY <1>9 DEF LastPixel, Leaving
  <2>2. /\ PipelineInv' /\ At3' = NextPos(<<v, u>>) /\ current_state' = "st_wait"
        /\ r_x' = 0 /\ r_y' = 0 /\ r_reinit' /\ r_flush' /\ r_valid'[2] /\ r_read_status' = 0
    BY <1>2, <1>9, <2>1, ProcessedStep
  <2>3. At3' = <<out_height', 0>>
    <3>1. v + 1 = out_height
      BY <1>4, <1>9
    <3> QED
      BY <1>5, <1>9, <2>2, <3>1 DEF NextPos
  <2>4. Quiet' /\ ~r_ram_filled'[r_ram_sel']
    BY <1>3, <2>1, <2>2 DEF Quiet
  <2>5. row >= 1
    BY <1>2, <1>4 DEF TopRow
  <2>6. /\ c_row_count' = row' /\ row' >= 1
        /\ c_wr_addr'[Other(r_ram_sel')] = 0 /\ (col' = 0 => c_wr_addr'[r_ram_sel'] = 0)
    BY <1>3, <2>5 DEF Window
  <2>7. Restarted'
    BY <2>2 DEF Restarted
  <2> QED
    BY <1>1, <1>3, <2>2, <2>3, <2>4, <2>6, <2>7 DEF Over
<1> QED
  BY <1>6, <1>7, <1>8, <1>9

-----------------------------------------------------------------------------
(* The host *)

\* A job of a list.
LEMMA JobOfList ==
  ASSUME NEW jl, Handled(jl), NEW i \in 1 .. Len(jl)
  PROVE  jl[i].stall \in Nat
<1> DEFINE R == [width : Nat, height : Nat, sx : Nat, sy : Nat, stall : Nat]
<1>1. jl \in Seq(R)
  BY DEF Handled
<1> HIDE DEF R
<1>2. jl[i] \in R
  BY <1>1
<1> QED
  BY <1>2 DEF R

\* An edge while nothing is read or processed.
LEMMA QuietStep ==
  ASSUME Quiet, NEW valid \in BOOLEAN, NEW data, NEW eop \in BOOLEAN, NEW ready \in BOOLEAN, NEW mm,
         AccClock(valid, data, eop, ready, mm)
  PROVE  /\ current_state' = "st_wait" /\ r_read_status' = 0 /\ UNCHANGED <<r_top, r_bottom>>
         /\ PIPELINE(ready) /\ (NothingValid => NothingValid')
         /\ r_reinit' <=> last_x /\ last_y /\ eop
         /\ r_flush' <=> ~r_ctl_reset /\ (r_flush \/ (last_x /\ last_y))
         /\ (r_x = 0 => r_x' = 0) /\ (r_y = 0 => r_y' = 0)
         /\ c_x_out' = (IF ready /\ r_reinit THEN 0 ELSE c_x_out)
         /\ c_y_out' = (IF ready /\ r_reinit THEN 0 ELSE c_y_out)
         /\ ~valid => (Both' => Both)
<1>1. current_state = "st_wait" /\ r_read_status = 0 /\ ~Both
  BY DEF Quiet
<1>2. current_state' = "st_wait"
  BY <1>1 DEF AccClock, CONTROL_STATE, NEXT_STATE_PROCESS, Both
<1>3. r_read_status' = 0 /\ UNCHANGED <<r_top, r_bottom>>
  BY <1>1 DEF AccClock, READ_DATA_BUFFERS
<1>4. PIPELINE(ready) /\ POSITION(ready) /\ FLUSH_PROCESS(eop, ready)
  BY DEF AccClock, PROCESSING
<1>5. ASSUME NothingValid
      PROVE  NothingValid'
  <2>1. CASE ready
    <3>1. r_valid' = Shift(r_valid, current_state = "st_process")
      BY <1>4, <2>1 DEF PIPELINE
    <3>2. r_valid' = [i \in Stages |-> IF i = 2 THEN current_state = "st_process" ELSE r_valid[i + 1]]
      BY <3>1 DEF Shift
    <3>3. \A i \in Stages : (IF i = 2 THEN current_state = "st_process" ELSE r_valid[i + 1]) = FALSE
      <4>1. (current_state = "st_process") = FALSE
        BY <1>1
      <4>2. r_valid[1] = FALSE /\ r_valid[2] = FALSE
        BY <1>5 DEF NothingValid, Stages
      <4> QED
        BY <4>1, <4>2 DEF Stages
    <3> QED
      BY <3>2, <3>3 DEF NothingValid
  <2>2. CASE ~ready
    BY <1>4, <1>5, <2>2 DEF PIPELINE, NothingValid
  <2> QED
    BY <2>1, <2>2
<1>6. r_reinit' <=> last_x /\ last_y /\ eop
  BY <1>1, <1>4 DEF FLUSH_PROCESS, w_proc_flag
<1>7. r_flush' <=> ~r_ctl_reset /\ (r_flush \/ (last_x /\ last_y))
  BY <1>4 DEF FLUSH_PROCESS, next_flush
<1>8. /\ (r_x = 0 => r_x' = 0) /\ (r_y = 0 => r_y' = 0)
      /\ c_x_out' = (IF ready /\ r_reinit THEN 0 ELSE c_x_out)
      /\ c_y_out' = (IF ready /\ r_reinit THEN 0 ELSE c_y_out)
  BY <1>1, <1>4 DEF POSITION, Moved
<1>9. ~valid => (Both' => Both)
  BY DEF AccClock, WriterClock, RAM_FILLED_STATUSES, w_wr, Both, Rams
<1> QED
  BY <1>2, <1>3, <1>4, <1>5, <1>6, <1>7, <1>8, <1>9

\* The buffers of the pixel group keep their two entries.
LEMMA GroupKept ==
  ASSUME HostInv, r_read_status \in 0 .. 2, READ_DATA_BUFFERS
  PROVE  (DOMAIN r_top = {0, 1})' /\ (DOMAIN r_bottom = {0, 1})'
<1>1. DOMAIN r_top = {0, 1} /\ DOMAIN r_bottom = {0, 1}
  BY DEF HostInv
<1>2. CASE current_state # "st_read" \/ r_read_status = 0
  BY <1>1, <1>2 DEF READ_DATA_BUFFERS
<1>3. CASE current_state = "st_read" /\ r_read_status = 1
  <2>1. /\ r_top' = [r_top EXCEPT ![0] = data_out[top_RAM]]
        /\ r_bottom' = [r_bottom EXCEPT ![0] = data_out[bottom_RAM]]
    BY <1>3 DEF READ_DATA_BUFFERS
  <2> QED
    BY <1>1, <2>1
<1>4. CASE current_state = "st_read" /\ r_read_status = 2
  <2>1. /\ r_top' = [r_top EXCEPT ![1] = data_out[top_RAM]]
        /\ r_bottom' = [r_bottom EXCEPT ![1] = data_out[bottom_RAM]]
    BY <1>4 DEF READ_DATA_BUFFERS
  <2> QED
    BY <1>1, <2>1
<1> QED
  BY <1>2, <1>3, <1>4

\* The host writes the parameters in their order.
LEMMA ParamWritten ==
  ASSUME HostInv, pc = "params", WRITE_MM(host_write), UNCHANGED <<jobs, image>>
  PROVE  /\ \A n \in 1 .. 6 : param = n => Programmed(n)'
         /\ (register_map \in [Params -> Nat])'
<1>1. /\ register_map \in [Params -> Nat] /\ param \in 1 .. 6
      /\ \A k \in 1 .. param - 1 : register_map[ParamWrites[k].addr] = ParamWrites[k].data
  BY DEF HostInv, Programmed
<1>2. JobFacts
  BY JobIsHandled
<1>3. /\ ParamWrites[1] = [addr |-> "width", data |-> Job.width]
      /\ ParamWrites[2] = [addr |-> "height", data |-> Job.height]
      /\ ParamWrites[3] = [addr |-> "x_inc", data |-> x_inc]
      /\ ParamWrites[4] = [addr |-> "y_inc", data |-> y_inc]
      /\ ParamWrites[5] = [addr |-> "sx", data |-> Job.sx]
      /\ ParamWrites[6] = [addr |-> "sy", data |-> Job.sy]
  BY DEF ParamWrites, x_inc, y_inc
<1>4. ParamWrites' = ParamWrites
  BY SameJob DEF ParamWrites
<1>5. host_write = ParamWrites[param]
  BY DEF host_write
<1> HIDE DEF ParamWrites
<1>6. /\ \A k \in 1 .. 6 : ParamWrites[k].addr \in Params /\ ParamWrites[k].data \in Nat
      /\ \A k, m \in 1 .. 6 : k # m => ParamWrites[k].addr # ParamWrites[m].addr
  <2>1. \A k \in 1 .. 6 : k = 1 \/ k = 2 \/ k = 3 \/ k = 4 \/ k = 5 \/ k = 6
    OBVIOUS
  <2>2. ASSUME NEW k \in 1 .. 6
        PROVE  ParamWrites[k].addr \in Params /\ ParamWrites[k].data \in Nat
    <3>1. /\ "width" \in Params /\ "height" \in Params /\ "x_inc" \in Params /\ "y_inc" \in Params
          /\ "sx" \in Params /\ "sy" \in Params
      BY DEF Params
    <3>2. Job.width \in Nat /\ Job.height \in Nat /\ x_inc \in Nat /\ y_inc \in Nat /\ Job.sx \in Nat /\ Job.sy \in Nat
      BY <1>2 DEF JobFacts
    <3>3. \/ k = 1 \/ k = 2 \/ k = 3 \/ k = 4 \/ k = 5 \/ k = 6
      BY <2>1
    <3> QED
      BY <1>3, <3>1, <3>2, <3>3
  <2>3. ASSUME NEW k \in 1 .. 6, NEW m \in 1 .. 6, k # m
        PROVE  ParamWrites[k].addr # ParamWrites[m].addr
    <3>1. /\ ParamWrites[1].addr = "width" /\ ParamWrites[2].addr = "height" /\ ParamWrites[3].addr = "x_inc"
          /\ ParamWrites[4].addr = "y_inc" /\ ParamWrites[5].addr = "sx" /\ ParamWrites[6].addr = "sy"
      BY <1>3
    <3> QED
      BY ONLY <2>1, <2>3, <3>1
  <2> QED
    BY <2>2, <2>3
<1>7. register_map' = [register_map EXCEPT ![ParamWrites[param].addr] = ParamWrites[param].data]
  BY <1>1, <1>5, <1>6 DEF WRITE_MM
<1>8. (register_map \in [Params -> Nat])'
  BY <1>1, <1>6, <1>7
<1>9. \A k \in 1 .. param : register_map'[ParamWrites[k].addr] = ParamWrites[k].data
  <2> SUFFICES ASSUME NEW k \in 1 .. param
               PROVE  register_map'[ParamWrites[k].addr] = ParamWrites[k].data
    OBVIOUS
  <2>1. k \in 1 .. 6 /\ ParamWrites[k].addr \in Params
    BY <1>1, <1>6
  <2>2. CASE k = param
    BY <1>1, <1>7, <2>1, <2>2
  <2>3. CASE k # param
    <3>1. k \in 1 .. param - 1 /\ ParamWrites[k].addr # ParamWrites[param].addr
      BY <1>1, <1>6, <2>1, <2>3
    <3> QED
      BY <1>1, <1>7, <2>1, <3>1
  <2> QED
    BY <2>2, <2>3
<1>10. \A n \in 1 .. 6 : param = n => Programmed(n)'
  BY <1>4, <1>9 DEF Programmed
<1> QED
  BY <1>8, <1>10

\* What every edge does to the registers of the parameters.
LEMMA RegistersMove ==
  ASSUME HostInv, r_read_status \in 0 .. 2, NEW valid, NEW data, NEW eop, NEW ready, NEW mm,
         AccClock(valid, data, eop, ready, mm)
  PROVE  /\ (DOMAIN r_top = {0, 1})' /\ (DOMAIN r_bottom = {0, 1})'
         /\ mm = NoWrite => register_map' = register_map
         /\ r_ctl_reset' <=> mm.addr = "ctl" /\ mm.data % 2 = 1
         /\ r_width_out' = (register_map["width"] * register_map["sx"]) \div 2 ^ C_SCALE_FRAC
         /\ WRITE_MM(mm)
<1>1. READ_DATA_BUFFERS /\ WRITE_MM(mm) /\ CTL_REG_PROC(mm) /\ OUTPUT_DIMS_CALC
  BY DEF AccClock
<1>2. (DOMAIN r_top = {0, 1})' /\ (DOMAIN r_bottom = {0, 1})'
  BY <1>1, GroupKept
<1>3. mm = NoWrite => register_map' = register_map
  BY <1>1 DEF WRITE_MM, NoWrite, Params
<1>4. r_ctl_reset' <=> mm.addr = "ctl" /\ mm.data % 2 = 1
  BY <1>1 DEF CTL_REG_PROC
<1> QED
  BY <1>1, <1>2, <1>3, <1>4 DEF OUTPUT_DIMS_CALC

\* The sink withholds ready no longer than its job says.
LEMMA StallBounded ==
  ASSUME HostInv, NEW valid \in BOOLEAN, NEW ready \in BOOLEAN, Edge(valid, ready)
  PROVE  stall' \in Nat /\ stall' <= Job.stall /\ (Job.stall = 0 => ready)
<1>1. stall' = IF ready THEN 0 ELSE stall + 1
  BY DEF Edge, Stream, WriteParams, Finish, WriteCtl, Restart, Idle, Sink
<1>2. stall \in Nat /\ Job.stall \in Nat /\ (~ready => stall < Job.stall)
  BY JobIsHandled DEF HostInv, JobFacts, Edge
<1>3. stall' \in Nat /\ stall' <= Job.stall
  <2> DEFINE k == IF ready THEN 0 ELSE stall + 1
  <2>1. k \in Nat /\ k <= Job.stall
    BY <1>2
  <2> HIDE DEF k
  <2>2. stall' = k
    BY <1>1 DEF k
  <2> QED
    BY <2>1, <2>2
<1> QED
  BY <1>2, <1>3

\* The state of the host and of the parameters is kept by every edge.
LEMMA HostKept ==
  ASSUME HostInv, r_read_status \in 0 .. 2, NEW valid \in BOOLEAN, NEW ready \in BOOLEAN, Edge(valid, ready)
  PROVE  HostInv'
<1>1. /\ Handled(jobs) /\ image \in Nat /\ image <= Len(jobs) /\ (pc = "done" <=> image = Len(jobs))
      /\ param \in 1 .. 6 /\ (pc # "params" => param = 1)
      /\ register_map \in [Params -> Nat]
      /\ Programmed(IF pc = "params" THEN param - 1 ELSE 6)
      /\ pc # "params" => r_width_out = out_width
      /\ r_ctl_reset <=> pc = "restart"
      /\ JobFacts /\ Len(jobs) \in Nat \ {0}
  BY JobIsHandled DEF HostInv
<1>2. stall' \in Nat /\ stall' <= Job.stall /\ (Job.stall = 0 => ready)
  BY StallBounded
<1>3. jobs' = jobs /\ Handled(jobs)'
  <2>1. jobs' = jobs
    BY DEF Edge, Stream, WriteParams, Finish, WriteCtl, Restart, Idle, hostVars
  <2> QED
    BY <1>1, <2>1 DEF Handled
<1>4. CASE Stream(valid, ready) \/ Finish(ready) \/ WriteCtl(ready) \/ Idle(ready)
  <2>2. /\ image' = image /\ param' = param
        /\ pc' \in {"run", "ctl", "restart", "done"} /\ (pc' = "done" <=> pc = "done") /\ pc # "params"
        /\ pc' = "restart" <=> WriteCtl(ready)
    <3>1. CASE Stream(valid, ready)
      BY <3>1 DEF Stream, WriteCtl, hostVars
    <3>2. CASE Finish(ready)
      BY <3>2 DEF Finish, WriteCtl, tx_done
    <3>3. CASE WriteCtl(ready)
      BY <3>3 DEF WriteCtl
    <3>4. CASE Idle(ready)
      BY <3>4 DEF Idle, WriteCtl, hostVars
    <3> QED
      BY <1>4, <3>1, <3>2, <3>3, <3>4
  <2>3. Job' = Job /\ ParamWrites' = ParamWrites /\ out_width' = out_width
    BY <1>3, <2>2, SameJob DEF ParamWrites
  <2>4. Programmed(6) /\ param = 1
    BY <1>1, <2>2
  <2>5. /\ (DOMAIN r_top = {0, 1})' /\ (DOMAIN r_bottom = {0, 1})'
        /\ r_ctl_reset' <=> WriteCtl(ready)
        /\ r_width_out' = (register_map["width"] * register_map["sx"]) \div 2 ^ C_SCALE_FRAC
        /\ Programmed(6)' /\ (register_map \in [Params -> Nat])'
    <3>1. CASE WriteCtl(ready)
      <4>1. host_write = [addr |-> "ctl", data |-> 1] /\ AccClock(FALSE, NoPixel, FALSE, ready, host_write)
        BY <3>1 DEF WriteCtl, host_write
      <4>2. /\ (DOMAIN r_top = {0, 1})' /\ (DOMAIN r_bottom = {0, 1})' /\ WRITE_MM(host_write)
            /\ r_ctl_reset' <=> host_write.addr = "ctl" /\ host_write.data % 2 = 1
            /\ r_width_out' = (register_map["width"] * register_map["sx"]) \div 2 ^ C_SCALE_FRAC
        BY <4>1, RegistersMove
      <4>3. register_map' = [register_map EXCEPT !["ctl"] = 1]
        BY <4>1, <4>2 DEF WRITE_MM, Params
      <4>4. (register_map \in [Params -> Nat])'
        BY <1>1, <4>3
      <4>5. \A k \in 1 .. 6 : ParamWrites[k].addr \in Params \ {"ctl"}
        <5>1. /\ ParamWrites[1].addr = "width" /\ ParamWrites[2].addr = "height" /\ ParamWrites[3].addr = "x_inc"
              /\ ParamWrites[4].addr = "y_inc" /\ ParamWrites[5].addr = "sx" /\ ParamWrites[6].addr = "sy"
          BY DEF ParamWrites
        <5>2. \A k \in 1 .. 6 : k = 1 \/ k = 2 \/ k = 3 \/ k = 4 \/ k = 5 \/ k = 6
          OBVIOUS
        <5> HIDE DEF ParamWrites
        <5> QED
          BY <5>1, <5>2 DEF Params
      <4>6. Programmed(6)'
        <5>1. \A k \in 1 .. 6 : register_map'[ParamWrites[k].addr] = register_map[ParamWrites[k].addr]
          BY <1>1, <4>3, <4>5
        <5> QED
          BY <2>3, <2>4, <5>1 DEF Programmed
      <4> QED
        BY <3>1, <4>1, <4>2, <4>4, <4>6
    <3>2. CASE ~WriteCtl(ready)
      <4>1. PICK v, d, e : AccClock(v, d, e, ready, NoWrite)
        BY <1>4, <3>2 DEF Stream, Finish, Idle
      <4>2. /\ (DOMAIN r_top = {0, 1})' /\ (DOMAIN r_bottom = {0, 1})' /\ register_map' = register_map
            /\ r_ctl_reset' <=> NoWrite.addr = "ctl" /\ NoWrite.data % 2 = 1
            /\ r_width_out' = (register_map["width"] * register_map["sx"]) \div 2 ^ C_SCALE_FRAC
        BY <4>1, RegistersMove
      <4>3. Programmed(6)'
        BY <2>3, <2>4, <4>2 DEF Programmed
      <4>4. ~r_ctl_reset'
        BY <4>2 DEF NoWrite
      <4> QED
        BY <1>1, <3>2, <4>2, <4>3, <4>4
    <3> QED
      BY <3>1, <3>2
  <2>6. r_width_out' = out_width'
    BY <1>1, <2>3, <2>4, <2>5, Registers, Dimensions
  <2> QED
    BY <1>1, <1>2, <1>3, <2>2, <2>3, <2>4, <2>5, <2>6 DEF HostInv
<1>5. CASE WriteParams(ready)
  <2>1. /\ pc = "params" /\ AccClock(FALSE, NoPixel, FALSE, ready, host_write) /\ UNCHANGED <<jobs, image>>
        /\ IF param < 6 THEN pc' = pc /\ param' = param + 1 ELSE pc' = "run" /\ param' = 1
    BY <1>5 DEF WriteParams, ParamWrites
  <2>2. /\ (DOMAIN r_top = {0, 1})' /\ (DOMAIN r_bottom = {0, 1})' /\ WRITE_MM(host_write)
        /\ r_ctl_reset' <=> host_write.addr = "ctl" /\ host_write.data % 2 = 1
        /\ r_width_out' = (register_map["width"] * register_map["sx"]) \div 2 ^ C_SCALE_FRAC
    BY <2>1, RegistersMove
  <2>3. Job' = Job /\ out_width' = out_width
    BY <2>1, SameJob
  <2>4. (\A n \in 1 .. 6 : param = n => Programmed(n)') /\ (register_map \in [Params -> Nat])'
    BY <2>1, <2>2, ParamWritten
  <2>5. ~r_ctl_reset'
    <3>1. host_write = ParamWrites[param]
      BY <2>1 DEF host_write
    <3>2. /\ ParamWrites[1].addr = "width" /\ ParamWrites[2].addr = "height" /\ ParamWrites[3].addr = "x_inc"
          /\ ParamWrites[4].addr = "y_inc" /\ ParamWrites[5].addr = "sx" /\ ParamWrites[6].addr = "sy"
      BY DEF ParamWrites
    <3>3. param = 1 \/ param = 2 \/ param = 3 \/ param = 4 \/ param = 5 \/ param = 6
      BY <1>1
    <3> HIDE DEF ParamWrites
    <3> QED
      BY <2>2, <3>1, <3>2, <3>3
  <2>6. CASE param < 6
    <3>1. PICK n \in 1 .. 6 : n = param
      BY <1>1
    <3>2. param' = n + 1 /\ n + 1 \in 1 .. 6 /\ param' - 1 = n /\ pc' = "params"
      BY <2>1, <2>6, <3>1
    <3>3. Programmed(n)'
      BY <2>4, <3>1
    <3>4. Programmed(param - 1)'
      BY <3>2, <3>3 DEF Programmed
    <3> QED
      BY <1>1, <1>2, <1>3, <2>1, <2>2, <2>3, <2>4, <2>5, <3>2, <3>4 DEF HostInv
  <2>7. CASE ~(param < 6)
    <3>1. param = 6 /\ pc' = "run" /\ param' = 1
      BY <1>1, <2>1, <2>7
    <3>2. Programmed(6)'
      BY <2>4, <3>1
    <3>3. r_width_out' = out_width
      <4>1. register_map["width"] = Job.width /\ register_map["sx"] = Job.sx
        <5>1. \A k \in 1 .. 5 : register_map[ParamWrites[k].addr] = ParamWrites[k].data
          BY <1>1, <2>1, <3>1 DEF Programmed
        <5>2. ParamWrites[1] = [addr |-> "width", data |-> Job.width] /\ ParamWrites[5] = [addr |-> "sx", data |-> Job.sx]
          BY DEF ParamWrites
        <5> HIDE DEF ParamWrites
        <5>3. 1 \in 1 .. 5 /\ 5 \in 1 .. 5
          OBVIOUS
        <5> QED
          BY <5>1, <5>2, <5>3
      <4> QED
        BY <1>1, <2>2, <4>1, Dimensions
    <3> QED
      BY <1>1, <1>2, <1>3, <2>1, <2>2, <2>3, <2>4, <2>5, <3>1, <3>2, <3>3 DEF HostInv
  <2> QED
    BY <2>6, <2>7
<1>6. CASE Restart(ready)
  <2>1. /\ pc = "restart" /\ AccClock(FALSE, NoPixel, FALSE, ready, NoWrite)
        /\ pc' = IF image + 1 < Len(jobs) THEN "params" ELSE "done"
        /\ image' = image + 1 /\ param' = param /\ stall' = IF ready THEN 0 ELSE stall + 1
    BY <1>6 DEF Restart
  <2>2. image < Len(jobs) /\ param = 1 /\ Programmed(6)
    BY <1>1, <2>1
  <2>3. /\ (DOMAIN r_top = {0, 1})' /\ (DOMAIN r_bottom = {0, 1})' /\ register_map' = register_map
        /\ r_ctl_reset' <=> NoWrite.addr = "ctl" /\ NoWrite.data % 2 = 1
        /\ r_width_out' = (register_map["width"] * register_map["sx"]) \div 2 ^ C_SCALE_FRAC
    BY <2>1, RegistersMove
  <2>4. ~r_ctl_reset'
    BY <2>3 DEF NoWrite
  <2> DEFINE n == image + 1
  <2>5. n \in Nat /\ n <= Len(jobs) /\ image' = n
    BY <1>1, <2>1, <2>2
  <2>6. CASE n < Len(jobs)
    <3>1. pc' = "params" /\ image' # Len(jobs)
      BY <1>1, <2>1, <2>5, <2>6
    <3>2. Job.stall = 0
      BY <1>1, <2>6 DEF JobFacts
    <3>3. stall' = 0
      BY <1>2, <2>1, <3>2
    <3>4. Job'.stall \in Nat
      <4>1. n + 1 \in 1 .. Len(jobs) /\ Job' = jobs[n + 1]
        BY <1>1, <1>3, <2>5, <2>6 DEF Job
      <4> QED
        BY <1>1, <4>1, JobOfList
    <3>5. Programmed(0)'
      BY DEF Programmed
    <3>6. stall' <= Job'.stall
      BY <3>3, <3>4
    <3> HIDE DEF n
    <3> QED
      BY <1>1, <1>2, <1>3, <2>1, <2>2, <2>3, <2>4, <2>5, <3>1, <3>5, <3>6 DEF HostInv
  <2>7. CASE ~(n < Len(jobs))
    <3>1. n = Len(jobs) /\ pc' = "done"
      BY <1>1, <2>1, <2>5, <2>7
    <3>2. Job' = Job
      <4>1. Job = jobs[n] /\ Job' = jobs[n]
        BY <1>1, <1>3, <2>2, <2>5, <3>1 DEF Job
      <4> QED
        BY <4>1
    <3>3. out_width' = out_width /\ ParamWrites' = ParamWrites
      BY <3>2 DEF out_width, ParamWrites
    <3>4. r_width_out' = out_width
      BY <1>1, <2>2, <2>3, Registers, Dimensions
    <3>5. Programmed(6)'
      BY <2>2, <2>3, <3>3 DEF Programmed
    <3> HIDE DEF n
    <3> QED
      BY <1>1, <1>2, <1>3, <2>1, <2>2, <2>3, <2>4, <2>5, <3>1, <3>2, <3>3, <3>4, <3>5 DEF HostInv
  <2> QED
    BY <2>6, <2>7
<1> QED
  BY <1>4, <1>5, <1>6 DEF Edge

-----------------------------------------------------------------------------
(* Over *)

\* Positions only grow: behind a position in or below row h there is none at the start of row h.
LEMMA Behind ==
  ASSUME JobFacts, NEW h \in Nat, NEW y \in Nat, NEW x \in Nat, y >= h
  PROVE  \E y1, x1 \in Nat : /\ NextPos(<<y, x>>) = <<y1, x1>> /\ y1 >= h
                             /\ y1 > h \/ x1 > 0
<1>1. CASE x = out_width - 1
  <2>1. NextPos(<<y, x>>) = <<y + 1, 0>> /\ y + 1 \in Nat /\ y + 1 > h
    BY <1>1 DEF NextPos
  <2> QED
    BY <2>1
<1>2. CASE x # out_width - 1
  <2>1. NextPos(<<y, x>>) = <<y, x + 1>> /\ x + 1 \in Nat /\ x + 1 > 0
    BY <1>2 DEF NextPos
  <2> QED
    BY <2>1
<1> QED
  BY <1>1, <1>2

\* The sink takes the pixels in their order: when it has its last row no earlier pixel is still to
\* enter the pipeline, and when none is to enter it the pipeline is empty.
LEMMA InOrder ==
  ASSUME JobFacts, PipelineInv, NEW y1 \in Nat, NEW x1 \in Nat, At3 = <<y1, x1>>, rx_y = out_height
  PROVE  y1 >= out_height /\ (y1 = out_height /\ x1 = 0 => NothingValid)
<1> DEFINE h == out_height
           Past(p) == \E y, x \in Nat : p = <<y, x>> /\ y >= h /\ (y > h \/ x > 0)
           AtLeast(p) == \E y, x \in Nat : p = <<y, x>> /\ y >= h
<1>1. h \in Nat /\ rx_y \in Nat /\ rx_x \in Nat /\ r_valid \in [Stages -> BOOLEAN]
  BY DEF JobFacts, PipelineInv
<1>2. ASSUME NEW p, AtLeast(p) PROVE Past(NextPos(p))
  BY <1>1, <1>2, Behind
<1>3. ASSUME NEW p, Past(p) PROVE AtLeast(p)
  BY <1>3
<1>4. AtLeast(At3) => y1 >= h
  OBVIOUS
<1>5. Past(At3) => ~(y1 = h /\ x1 = 0)
  BY <1>1
<1>6. AtLeast(At0)
  BY <1>1 DEF At0
<1> HIDE DEF Past, AtLeast
<1>7. AtLeast(At1) /\ (r_valid[0] => Past(At1))
  BY <1>2, <1>3, <1>6 DEF At1
<1>8. AtLeast(At2) /\ (r_valid[0] \/ r_valid[1] => Past(At2))
  BY <1>2, <1>3, <1>7 DEF At2
<1>9. AtLeast(At3) /\ (r_valid[0] \/ r_valid[1] \/ r_valid[2] => Past(At3))
  BY <1>2, <1>3, <1>8 DEF At3
<1>10. ~r_valid[0] /\ ~r_valid[1] /\ ~r_valid[2] => NothingValid
  BY <1>1 DEF NothingValid, Stages
<1> QED
  BY <1>4, <1>5, <1>9, <1>10

\* What the circuit drives once the image is over.
LEMMA OverSignals ==
  ASSUME HostInv, Over
  PROVE  /\ r_ram_sel \in RAM_RESET_PROC
         /\ c_x_out = 0 => ~last_x /\ RAM_RESET_PROC = Rams
         /\ JobFacts /\ image \in Nat
<1>1. JobFacts /\ image \in Nat /\ r_width_out = out_width /\ out_width \in Nat /\ out_width > 1
  BY JobIsHandled DEF HostInv, Over, JobFacts
<1>2. r_floor_y = 0 /\ c_row_count >= 1 /\ c_row_count \in Nat /\ r_ram_sel \in Rams /\ r_flush
  BY <1>1, Geometry DEF Over, BufferType, r_floor_y, JobFacts
<1>3. RAM_RESET_PROC = IF w_need_new_row THEN {r_ram_sel} ELSE Rams
  BY <1>2 DEF RAM_RESET_PROC, top_RAM
<1>4. c_x_out = 0 => ~last_x
  BY <1>1 DEF last_x
<1> QED
  BY <1>1, <1>2, <1>3, <1>4 DEF w_need_new_row

\* With a sink that is always ready the position is back at its start, and the RAMs are given back,
\* before the last pixel has left the pipeline.
LEMMA RestartedKept ==
  ASSUME HostInv, Over, Restarted, NEW valid \in BOOLEAN, NEW data, NEW eop \in BOOLEAN, NEW mm,
         AccClock(valid, data, eop, TRUE, mm)
  PROVE  /\ Restarted'
         /\ NothingValid => c_x_out' = 0 /\ c_y_out' = 0 /\ ~r_reinit' /\ NoneFilled'
<1>1. /\ PIPELINE(TRUE)
      /\ r_reinit' <=> last_x /\ last_y /\ eop
      /\ c_x_out' = (IF r_reinit THEN 0 ELSE c_x_out)
      /\ c_y_out' = (IF r_reinit THEN 0 ELSE c_y_out)
  BY QuietStep DEF Over
<1>2. ASSUME r_valid[2], r_reinit
      PROVE  Restarted'
  <2>1. r_valid' = Shift(r_valid, current_state = "st_process")
    BY <1>1 DEF PIPELINE
  <2>2. r_valid'[1] = r_valid[2]
    BY <2>1 DEF Shift, Stages
  <2> QED
    BY <1>1, <1>2, <2>2 DEF Restarted
<1>3. ASSUME c_x_out = 0, c_y_out = 0
      PROVE  c_x_out' = 0 /\ c_y_out' = 0 /\ ~r_reinit' /\ NoneFilled'
  <2>1. ~last_x /\ RAM_RESET_PROC = Rams
    BY <1>3, OverSignals
  <2>2. NoneFilled'
    BY <2>1 DEF AccClock, WriterClock, RAM_FILLED_STATUSES, NoneFilled
  <2> QED
    BY <1>1, <1>3, <2>1, <2>2
<1>4. NothingValid => ~r_valid[1] /\ ~r_valid[2]
  BY DEF NothingValid, Stages
<1> QED
  BY <1>2, <1>3, <1>4 DEF Restarted

\* The pipeline of a circuit that processes nothing.
LEMMA OverPipeline ==
  ASSUME HostInv, Over, UNCHANGED <<jobs, image>>, NEW ready \in BOOLEAN, PIPELINE(ready), Sink(ready)
  PROVE  PipelineInv' /\ At3' = <<out_height', 0>>
<1>1. JobFacts /\ PipelineInv /\ At3 = <<out_height, 0>> /\ current_state # "st_process"
  BY OverSignals DEF Over, Quiet
<1>2. StageOK(ready /\ current_state = "st_process", last_x, c_x_out = 0, Entering, At3)
  BY <1>1 DEF StageOK
<1>3. PipelineInv' /\ At3' = At3
  BY <1>1, <1>2, PipelineKept
<1> QED
  BY <1>1, <1>3, SameJob

\* The rows that are left of an image are taken in and dropped.
LEMMA OverStreams ==
  ASSUME HostInv, Over, NEW valid \in BOOLEAN, NEW ready \in BOOLEAN, Edge(valid, ready), Stream(valid, ready)
  PROVE  Over'
<1> DEFINE s == r_ram_sel
           o == Other(r_ram_sel)
<1>1. /\ UNCHANGED <<jobs, image, pc>> /\ pc = "run" /\ (valid => sending) /\ Source(valid)
      /\ BufferEdge(valid, w_ram_rd, c_ram_rd_addr, RAM_RESET_PROC)
      /\ PIPELINE(ready) /\ Sink(ready)
      /\ AccClock(valid, Pixel(image, row, col), source_last, ready, NoWrite)
  BY StreamStep DEF Stream
<1>2. /\ JobFacts /\ image \in Nat /\ BufferType /\ Quiet /\ r_flush /\ r_x = 0 /\ r_y = 0
      /\ c_row_count = row /\ row >= 1 /\ row \in Nat
      /\ c_wr_addr[o] = 0 /\ (r_ram_filled[s] => col = 0)
      /\ s \in RAM_RESET_PROC /\ ~r_ctl_reset
  BY <1>1, OverSignals DEF Over, HostInv, BufferType, JobFacts
<1>3. source_last \in BOOLEAN
  BY DEF source_last
<1>4. /\ current_state' = "st_wait" /\ r_read_status' = 0 /\ r_flush' /\ r_x' = 0 /\ r_y' = 0
  BY <1>1, <1>2, <1>3, QuietStep
<1>5. BufferType'
  BY <1>1, <1>2, BufferTypeKept
<1>6. PipelineInv' /\ At3' = <<out_height', 0>>
  BY <1>1, OverPipeline
<1>7. Job'.stall = 0 => Restarted'
  <2>1. Job' = Job
    BY <1>1, SameJob
  <2>2. ASSUME Job.stall = 0
        PROVE  Restarted'
    <3>1. ready = TRUE
      BY <2>2, StallBounded
    <3> QED
      BY <1>1, <1>3, <2>2, <3>1, RestartedKept DEF Over
  <2> QED
    BY <2>1, <2>2
<1>8. /\ s \in Rams /\ o \in Rams /\ s # o /\ Rams = {s, o} /\ Other(o) = s
      /\ c_wr_addr \in [Rams -> 0 .. C_RAM_DEPTH - 1] /\ r_ram_filled \in [Rams -> BOOLEAN] /\ MemoryType
      /\ C_RAM_DEPTH \in Nat /\ Job.width \in Nat /\ Job.width >= 4 /\ col \in 0 .. Job.width - 1
      /\ (col = 0 => c_wr_addr[s] = 0)
  <2>1. s \in Rams
    BY <1>2 DEF BufferType
  <2>2. o \in Rams /\ s # o /\ Rams = {s, o} /\ Other(o) = s
    BY <2>1 DEF Rams, Other
  <2>3. /\ c_wr_addr \in [Rams -> 0 .. C_RAM_DEPTH - 1] /\ r_ram_filled \in [Rams -> BOOLEAN] /\ MemoryType
        /\ C_RAM_DEPTH \in Nat /\ Job.width \in Nat /\ Job.width >= 4 /\ col \in 0 .. Job.width - 1
    BY <1>2 DEF BufferType, JobFacts
  <2>4. col = 0 => c_wr_addr[s] = 0
    BY DEF Over
  <2> QED
    BY <2>1, <2>2, <2>3, <2>4
<1>9. /\ ~w_wr(valid) => UNCHANGED <<row, col>>
      /\ w_wr(valid) => /\ source_last <=> col = Job.width - 1
                        /\ col' = IF source_last THEN 0 ELSE col + 1
                        /\ row' = IF source_last THEN row + 1 ELSE row
  BY <1>1, <1>2, SourceMoves
<1>10. r_ram_filled'[s] = FALSE
  BY <1>1, <1>2, <1>8 DEF AccClock, WriterClock, RAM_FILLED_STATUSES
<1>11. ~Both'
  BY <1>8, <1>10 DEF Both, Rams
<1>12. c_row_count' = row' /\ row' >= 1
  <2>1. c_row_count' = IF w_wr(valid) /\ source_last THEN c_row_count + 1 ELSE c_row_count
    BY <1>1 DEF BufferEdge, WriterClock, COUNT_ROWS
  <2> DEFINE k == IF w_wr(valid) /\ source_last THEN row + 1 ELSE row
  <2>2. row' = k /\ c_row_count' = k
    BY <1>2, <1>9, <2>1
  <2>3. k >= 1
    BY <1>2
  <2> HIDE DEF k
  <2> QED
    BY <2>2, <2>3
<1>13. /\ c_wr_addr'[Other(r_ram_sel')] = 0 /\ (col' = 0 => c_wr_addr'[r_ram_sel'] = 0)
       /\ r_ram_filled'[r_ram_sel'] => col' = 0
  <2>1. CASE w_wr(valid) /\ ~r_ram_filled[s]
    <3>1. /\ c_wr_addr' = [c_wr_addr EXCEPT ![s] = NextAddress(s, source_last)]
          /\ r_ram_sel' = IF source_last THEN o ELSE s
      <4>1. WriterClock(valid, Pixel(image, row, col), source_last, w_ram_rd, c_ram_rd_addr, RAM_RESET_PROC, FALSE)
        BY <1>1 DEF BufferEdge
      <4> QED
        <5>1. /\ c_wr_addr \in [Rams -> 0 .. C_RAM_DEPTH - 1] /\ r_ram_sel \in Rams /\ MemoryType /\ C_RAM_DEPTH \in Nat
              /\ w_wr(valid) /\ ~r_ram_filled[r_ram_sel]
          BY <1>8, <2>1
        <5>2. /\ c_wr_addr' = [c_wr_addr EXCEPT ![r_ram_sel] = NextAddress(r_ram_sel, source_last)]
              /\ r_ram_sel' = IF source_last THEN Other(r_ram_sel) ELSE r_ram_sel
          BY ONLY <1>3, <4>1, <5>1, PixelMoves, ZenonT(180)
        <5> QED
          BY <5>2
    <3>2. CASE source_last
      <4>1. r_ram_sel' = o /\ c_wr_addr'[s] = 0 /\ c_wr_addr'[o] = 0 /\ col' = 0
        BY <1>2, <1>8, <1>9, <2>1, <3>1, <3>2 DEF NextAddress
      <4> QED
        BY <1>8, <4>1
    <3>3. CASE ~source_last
      <4>1. r_ram_sel' = s /\ c_wr_addr'[o] = 0
        BY <1>2, <1>8, <3>1, <3>3
      <4>2. col' # 0
        BY <1>8, <1>9, <2>1, <3>3
      <4> QED
        BY <1>10, <4>1, <4>2
    <3> QED
      BY <3>2, <3>3
  <2>2. CASE ~(w_wr(valid) /\ ~r_ram_filled[s])
    <3>1. \A i \in Rams : w_wr_array(valid)[i] = FALSE
      BY <2>2 DEF w_wr_array
    <3>2. c_wr_addr' = c_wr_addr /\ r_ram_sel' = s
      <4>1. c_wr_addr' = c_wr_addr
        BY <1>1, <1>8, <3>1 DEF AccClock, WriterClock, WRITE_POSITION
      <4>2. r_ram_sel' = s
        BY <1>1, <1>8, <3>1 DEF AccClock, WriterClock, RAM_SELECT
      <4> QED
        BY <4>1, <4>2
    <3>3. col' = 0 => col = 0
      <4>1. CASE ~w_wr(valid)
        BY <1>9, <4>1
      <4>2. CASE w_wr(valid)
        <5>1. col = 0 /\ ~source_last
          BY <1>2, <1>8, <1>9, <2>2, <4>2
        <5> QED
          BY <5>1
      <4> QED
        BY <4>1, <4>2
    <3> QED
      BY <1>2, <1>8, <1>10, <3>2, <3>3
  <2> QED
    BY <2>1, <2>2
<1>14. Quiet'
  BY <1>4, <1>11 DEF Quiet
<1> QED
  BY <1>1, <1>4, <1>5, <1>6, <1>7, <1>12, <1>13, <1>14 DEF Over

\* The host sees that source and sink are done, and writes the restart bit.
LEMMA OverRests ==
  ASSUME HostInv, Over, NEW ready \in BOOLEAN, Edge(FALSE, ready), Finish(ready) \/ WriteCtl(ready)
  PROVE  Over'
<1>1. PICK mm : AccClock(FALSE, NoPixel, FALSE, ready, mm)
  BY DEF Finish, WriteCtl
<1>2. /\ UNCHANGED <<jobs, image, row, col>> /\ Sink(ready) /\ pc' \in {"ctl", "restart"} /\ pc # "restart"
      /\ row = Job.height
  BY DEF Finish, WriteCtl, tx_done, sourceVars, Over
<1>3. /\ JobFacts /\ BufferType /\ Quiet /\ r_flush /\ r_x = 0 /\ r_y = 0
      /\ c_wr_addr \in [Rams -> 0 .. C_RAM_DEPTH - 1] /\ r_ram_sel \in Rams /\ MemoryType
      /\ r_ram_filled \in [Rams -> BOOLEAN] /\ ~r_ctl_reset /\ PipelineInv /\ At3 = <<out_height, 0>>
  BY <1>2, OverSignals DEF Over, HostInv, BufferType
<1>4. /\ UNCHANGED <<c_wr_addr, r_ram_sel, memory>>
      /\ r_ram_filled' = [i \in Rams |-> r_ram_filled[i] /\ i \notin RAM_RESET_PROC]
      /\ c_row_count' = c_row_count
  BY <1>1, <1>3, NoPixelMoves
<1>5. /\ current_state' = "st_wait" /\ r_read_status' = 0 /\ r_flush' /\ r_x' = 0 /\ r_y' = 0
      /\ PIPELINE(ready) /\ (NothingValid => NothingValid') /\ (Both' => Both)
  BY <1>1, <1>3, QuietStep
<1>6. NothingValid
  <2>1. CASE Finish(ready)
    <3>1. out_height \in Nat /\ 0 \in Nat /\ rx_y = out_height
      BY <1>3, <2>1 DEF Finish, rx_done, JobFacts
    <3> QED
      BY <1>3, <3>1, InOrder
  <2>2. CASE WriteCtl(ready)
    BY <2>2 DEF WriteCtl, Over
  <2> QED
    BY <2>1, <2>2
<1>7. Job' = Job
  BY <1>2, SameJob
<1>8. Quiet' /\ NothingValid'
  BY <1>3, <1>5, <1>6 DEF Quiet
<1>9. BufferType'
  <2>1. r_ram_filled' \in [Rams -> BOOLEAN]
    BY <1>3, <1>4
  <2> QED
    BY <1>2, <1>3, <1>4, <1>7, <2>1 DEF BufferType, MemoryType
<1>10. PipelineInv' /\ At3' = <<out_height', 0>>
  BY <1>2, <1>5, OverPipeline
<1>11. Job'.stall = 0 => Restarted'
  <2>1. ASSUME Job.stall = 0
        PROVE  Restarted'
    <3>1. ready = TRUE
      BY <2>1, StallBounded
    <3> QED
      BY <1>1, <2>1, <3>1, RestartedKept DEF Over
  <2> QED
    BY <1>7, <2>1
<1>12. /\ c_row_count' = row' /\ row' >= 1
       /\ c_wr_addr'[Other(r_ram_sel')] = 0 /\ (col' = 0 => c_wr_addr'[r_ram_sel'] = 0)
  BY <1>2, <1>4 DEF Over
<1>13. r_ram_filled'[r_ram_sel'] => col' = 0
  BY <1>2, <1>3, <1>4 DEF Over
<1>14. row' = Job'.height
  BY <1>2, <1>7
<1> QED
  BY <1>2, <1>5, <1>8, <1>9, <1>10, <1>11, <1>12, <1>13, <1>14 DEF Over

\* The restart: the accelerator is where it was before the first job.
LEMMA OverRestarts ==
  ASSUME HostInv, Over, NEW ready \in BOOLEAN, Edge(FALSE, ready), Restart(ready)
  PROVE  Programming' \/ Done'
<1>1. /\ AccClock(FALSE, NoPixel, FALSE, ready, NoWrite) /\ pc = "restart"
      /\ pc' = IF image + 1 < Len(jobs) THEN "params" ELSE "done"
      /\ row' = 0 /\ col' = 0 /\ rx_y' = 0 /\ rx_x' = 0
  BY DEF Restart
<1>2. /\ JobFacts /\ BufferType /\ Quiet /\ r_x = 0 /\ r_y = 0 /\ NothingValid /\ row = Job.height
      /\ c_wr_addr \in [Rams -> 0 .. C_RAM_DEPTH - 1] /\ r_ram_sel \in Rams /\ MemoryType /\ r_ctl_reset
      /\ col = 0 /\ c_wr_addr[r_ram_sel] = 0 /\ c_wr_addr[Other(r_ram_sel)] = 0
  BY <1>1, OverSignals DEF Over, HostInv, BufferType
<1>3. /\ UNCHANGED <<c_wr_addr, r_ram_sel, memory>> /\ c_row_count' = 0
  BY <1>1, <1>2, NoPixelMoves
<1>4. /\ current_state' = "st_wait" /\ r_read_status' = 0 /\ r_x' = 0 /\ r_y' = 0
      /\ NothingValid' /\ (Both' => Both)
  BY <1>1, <1>2, QuietStep
<1>5. Quiet'
  BY <1>2, <1>4 DEF Quiet
<1>6. CASE image + 1 < Len(jobs)
  <2>1. Job.stall = 0
    BY <1>2, <1>6 DEF JobFacts
  <2>2. ready = TRUE /\ Restarted
    BY <2>1, StallBounded DEF Over
  <2>3. c_x_out' = 0 /\ c_y_out' = 0 /\ ~r_reinit' /\ NoneFilled'
    BY <1>1, <1>2, <2>2, RestartedKept
  <2>4. c_wr_addr' = [i \in Rams |-> 0]
    <3>1. Rams = {r_ram_sel, Other(r_ram_sel)}
      BY <1>2 DEF Rams, Other
    <3> QED
      BY <1>2, <1>3, <3>1
  <2> QED
    BY <1>1, <1>2, <1>3, <1>4, <1>5, <1>6, <2>3, <2>4 DEF Programming, AtOrigin, MemoryType
<1>7. CASE ~(image + 1 < Len(jobs))
  BY <1>1, <1>4, <1>5, <1>7 DEF Done
<1> QED
  BY <1>6, <1>7

-----------------------------------------------------------------------------
(* Programming, Lost and Done *)

\* After the last job nothing moves any more.
LEMMA DoneStep ==
  ASSUME Done, NEW ready \in BOOLEAN, Idle(ready)
  PROVE  Done'
<1>1. AccClock(FALSE, NoPixel, FALSE, ready, NoWrite) /\ pc' = pc
  BY DEF Idle, hostVars
<1> QED
  BY <1>1, QuietStep DEF Done, Quiet

\* The host programs the accelerator: it stays at its origin, unless the sizes pass through those
\* of an image of a single pixel, whose end it then is.
LEMMA ProgrammingStep ==
  ASSUME HostInv, Programming, NEW ready \in BOOLEAN, WriteParams(ready)
  PROVE  Programming' \/ Lost' \/ Running'
<1>1. /\ AccClock(FALSE, NoPixel, FALSE, ready, host_write) /\ Sink(ready)
      /\ pc' = IF param < 6 THEN "params" ELSE "run"
      /\ UNCHANGED <<jobs, image, row, col>>
  BY DEF WriteParams, ParamWrites, sourceVars
<1>2. /\ Quiet /\ AtOrigin /\ ~r_reinit /\ NoneFilled /\ NothingValid
      /\ c_wr_addr = [i \in Rams |-> 0] /\ r_ram_sel \in Rams /\ MemoryType
      /\ c_row_count = 0 /\ row = 0 /\ col = 0 /\ rx_y = 0 /\ rx_x = 0
      /\ ~r_ctl_reset /\ JobFacts /\ image \in Nat
  BY JobIsHandled DEF Programming, HostInv
<1>3. c_wr_addr \in [Rams -> 0 .. C_RAM_DEPTH - 1]
  BY <1>2, DepthAssumption
<1>4. /\ UNCHANGED <<c_wr_addr, r_ram_sel, memory>> /\ c_row_count' = 0 /\ NoneFilled'
  <2>1. /\ UNCHANGED <<c_wr_addr, r_ram_sel, memory>> /\ c_row_count' = c_row_count
        /\ r_ram_filled' = [i \in Rams |-> r_ram_filled[i] /\ i \notin RAM_RESET_PROC]
    BY <1>1, <1>2, <1>3, NoPixelMoves
  <2>2. NoneFilled'
    BY <1>2, <2>1 DEF NoneFilled
  <2> QED
    BY <1>2, <2>1, <2>2
<1>5. /\ current_state' = "st_wait" /\ r_read_status' = 0 /\ NothingValid'
      /\ ~r_reinit' /\ r_x' = 0 /\ r_y' = 0 /\ c_x_out' = 0 /\ c_y_out' = 0
  BY <1>1, <1>2, QuietStep DEF AtOrigin
<1>6. rx_y' = 0 /\ rx_x' = 0
  BY <1>1, <1>2 DEF Sink, aso_valid, NothingValid, Stages
<1>7. Quiet' /\ AtOrigin'
  BY <1>4, <1>5 DEF Quiet, AtOrigin, NoneFilled, Both, Rams
<1>8. CASE param < 6
  BY <1>1, <1>2, <1>4, <1>5, <1>6, <1>7, <1>8 DEF Programming, MemoryType
<1>9. CASE ~(param < 6)
  <2>1. /\ Job' = Job /\ out_width' = out_width /\ out_height' = out_height
        /\ x_inc' = x_inc /\ y_inc' = y_inc /\ \A v : Row(v)' = Row(v)
    BY <1>1, SameJob
  <2>2. pc' = "run" /\ row' = 0 /\ col' = 0
    BY <1>1, <1>2, <1>9
  <2>3. BufferType'
    <3>1. r_ram_filled' \in [Rams -> BOOLEAN]
      BY <1>4 DEF NoneFilled
    <3>2. 0 \in 0 .. Job.height /\ 0 \in 0 .. Job.width - 1
      BY <1>2 DEF JobFacts
    <3> QED
      BY <1>2, <1>3, <1>4, <2>1, <2>2, <3>1, <3>2 DEF BufferType, MemoryType
  <2>4. CASE r_flush'
    BY <1>5, <1>6, <1>7, <2>2, <2>3, <2>4 DEF Lost
  <2>5. CASE ~r_flush'
    <3>1. r_ram_sel \in Rams /\ Other(r_ram_sel) \in Rams
      BY <1>2 DEF Rams, Other
    <3>2. ~r_ram_filled'[r_ram_sel'] /\ ~r_ram_filled'[Other(r_ram_sel')]
      BY <1>4, <3>1 DEF NoneFilled
    <3>3. Window'
      <4>1. c_wr_addr'[r_ram_sel'] = 0 /\ c_wr_addr'[Other(r_ram_sel')] = 0
        BY <1>2, <1>4, <3>1
      <4>2. \A c \in 0 .. Job.width - 1 : ~(c < 0)
        BY <1>2 DEF JobFacts
      <4> QED
        BY <1>4, <2>1, <2>2, <3>2, <4>1, <4>2 DEF Window
    <3>4. PositionInv'
      <4>1. /\ 0 = 0 * x_inc /\ 0 = 0 * y_inc
            /\ 0 \in 0 .. out_width - 1 /\ 0 \in 0 .. out_height - 1
        BY <1>2 DEF JobFacts
      <4> QED
        BY <1>5, <2>1, <4>1 DEF PositionInv
    <3>5. PipelineInv'
      <4>1. 0 \in 0 .. out_width - 1 /\ 0 \in Nat
        BY <1>2 DEF JobFacts
      <4>2. r_valid' \in [Stages -> BOOLEAN] /\ ~r_valid'[0] /\ ~r_valid'[1] /\ ~r_valid'[2]
        BY <1>5 DEF NothingValid, Stages
      <4> QED
        BY <1>6, <2>1, <4>1, <4>2 DEF PipelineInv, StageOK
    <3>6. At3' = <<c_y_out', c_x_out'>>
      <4>1. ~r_valid'[0] /\ ~r_valid'[1] /\ ~r_valid'[2]
        BY <1>5 DEF NothingValid, Stages
      <4> QED
        BY <1>5, <1>6, <4>1 DEF At0, At1, At2, At3
    <3>7. Row(c_y_out)' = 0
      <4>1. Row(0) = 0
        BY <1>2, Geometry
      <4>2. Row(c_y_out)' = Row(0)
        BY <1>5, <2>1 DEF Row
      <4> QED
        BY <4>1, <4>2
    <3>8. Waiting'
      BY <1>5, <2>2, <2>5, <3>2, <3>7 DEF Waiting
    <3> QED
      BY <1>5, <2>2, <2>3, <3>3, <3>4, <3>5, <3>6, <3>8 DEF Running, Streaming
  <2> QED
    BY <2>4, <2>5
<1> QED
  BY <1>8, <1>9

\* With the end of the image taken for reached before it began, the rows are taken in and dropped,
\* and nothing is ever put out.
LEMMA LostStep ==
  ASSUME HostInv, Lost, NEW valid \in BOOLEAN, NEW ready \in BOOLEAN, Stream(valid, ready)
  PROVE  Lost'
<1>1. /\ UNCHANGED <<jobs, image, pc>> /\ pc = "run" /\ r_width_out = out_width
      /\ BufferEdge(valid, w_ram_rd, c_ram_rd_addr, RAM_RESET_PROC) /\ Sink(ready)
      /\ AccClock(valid, Pixel(image, row, col), source_last, ready, NoWrite)
  BY StreamStep DEF Stream
<1>2. /\ JobFacts /\ image \in Nat /\ BufferType /\ Quiet /\ r_flush /\ ~r_reinit /\ NothingValid
      /\ r_x = 0 /\ r_y = 0 /\ c_x_out = 0 /\ c_y_out = 0 /\ ~r_ctl_reset /\ rx_y = 0
  BY <1>1, JobIsHandled DEF Lost, HostInv, AtOrigin
<1>3. source_last \in BOOLEAN
  BY DEF source_last
<1>4. ~last_x
  BY <1>1, <1>2 DEF last_x, JobFacts
<1>5. /\ current_state' = "st_wait" /\ r_read_status' = 0 /\ r_flush' /\ ~r_reinit' /\ NothingValid'
      /\ r_x' = 0 /\ r_y' = 0 /\ c_x_out' = 0 /\ c_y_out' = 0
  BY <1>1, <1>2, <1>3, <1>4, QuietStep
<1>6. BufferType'
  BY <1>1, <1>2, BufferTypeKept
<1>7. ~Both'
  <2>1. r_floor_y = 0 /\ c_row_count \in Nat /\ r_ram_sel \in Rams
    BY <1>2, Geometry DEF r_floor_y, BufferType
  <2>2. RAM_RESET_PROC = IF c_row_count = 0 THEN {Other(r_ram_sel)} ELSE Rams
    BY <1>2, <1>4, <2>1 DEF RAM_RESET_PROC, w_need_new_row, bottom_RAM
  <2>3. PICK i \in Rams : i \in RAM_RESET_PROC
    BY <2>1, <2>2 DEF Rams, Other
  <2>4. ~r_ram_filled'[i]
    BY <1>1, <2>3 DEF AccClock, WriterClock, RAM_FILLED_STATUSES
  <2> QED
    BY <2>4 DEF Both, Rams
<1>8. rx_y' = 0
  BY <1>1, <1>2 DEF Sink, aso_valid, NothingValid, Stages
<1> QED
  BY <1>1, <1>5, <1>6, <1>7, <1>8 DEF Lost, Quiet, AtOrigin

\* The read counter, in all phases.
LEMMA ReadStatus ==
  TBInv => r_read_status \in 0 .. 2
  BY DEF TBInv, Programming, Lost, Running, Over, Done, Quiet, Waiting, Working, Reading, Processing

\* While the image is computed the sink is not done.
LEMMA NotYetDone ==
  ASSUME HostInv, Lost \/ Running
  PROVE  ~rx_done
<1>1. JobFacts
  BY JobIsHandled
<1>2. CASE Lost
  BY <1>1, <1>2 DEF Lost, rx_done, JobFacts
<1>3. CASE Running
  <2>1. PipelineInv /\ At3 = <<c_y_out, c_x_out>> /\ PositionInv
    BY <1>3 DEF Running, Streaming
  <2>2. c_y_out \in Nat /\ c_x_out \in Nat /\ c_y_out < out_height /\ out_height \in Nat
    BY <1>1, <2>1 DEF PositionInv, JobFacts
  <2> QED
    BY <1>1, <2>1, <2>2, InOrder DEF rx_done
<1> QED
  BY <1>2, <1>3

-----------------------------------------------------------------------------
(* Invariance *)

\* The invariant is one at the start ...
LEMMA InvInit ==
  ASSUME \A jl \in JobLists : Handled(jl), TBInit
  PROVE  TBInv
<1>1. /\ AccInit /\ jobs \in JobLists /\ Handled(jobs) /\ pc = "params" /\ param = 1 /\ image = 0
      /\ row = 0 /\ col = 0 /\ rx_y = 0 /\ rx_x = 0 /\ stall = 0
  BY DEF TBInit
<1>2. Len(jobs) \in Nat /\ Len(jobs) > 0
  BY <1>1 DEF Handled
<1>3. HostInv
  <2>1. Job.stall \in Nat
    <3>1. 1 \in 1 .. Len(jobs) /\ Job = jobs[1]
      BY <1>1, <1>2 DEF Job
    <3> QED
      BY <1>1, <3>1, JobOfList
  <2>2. Programmed(0)
    BY DEF Programmed
  <2>3. register_map \in [Params -> Nat] /\ ~r_ctl_reset /\ DOMAIN r_top = {0, 1} /\ DOMAIN r_bottom = {0, 1}
    BY <1>1 DEF AccInit
  <2>4. Programmed(param - 1)
    BY <1>1, <2>2
  <2> QED
    BY <1>1, <1>2, <2>1, <2>3, <2>4 DEF HostInv
<1>4. Programming
  <2>1. NoneFilled /\ c_wr_addr = [i \in Rams |-> 0] /\ r_ram_sel \in Rams /\ c_row_count = 0 /\ MemoryType
    BY <1>1 DEF AccInit, WriterInit, NoneFilled, MemoryType, Rams, PixelSet
  <2>2. Quiet
    BY <1>1, <2>1 DEF AccInit, Quiet, NoneFilled, Both, Rams
  <2>3. AtOrigin /\ ~r_reinit /\ NothingValid
    BY <1>1 DEF AccInit, AtOrigin, NothingValid
  <2> QED
    BY <1>1, <2>1, <2>2, <2>3 DEF Programming
<1> QED
  BY <1>3, <1>4 DEF TBInv

\* ... after every edge ...
LEMMA InvNext ==
  ASSUME TBInv, NEW valid \in BOOLEAN, NEW ready \in BOOLEAN, Edge(valid, ready)
  PROVE  TBInv'
<1>1. HostInv /\ HostInv'
  BY ReadStatus, HostKept DEF TBInv
<1>2. \/ Stream(valid, ready)
      \/ valid = FALSE /\ (WriteParams(ready) \/ Finish(ready) \/ WriteCtl(ready) \/ Restart(ready) \/ Idle(ready))
  BY DEF Edge
<1>3. CASE Programming
  <2>1. WriteParams(ready)
    BY <1>2, <1>3 DEF Programming, Stream, Finish, WriteCtl, Restart, Idle, tx_done
  <2> QED
    BY <1>1, <1>3, <2>1, ProgrammingStep DEF TBInv
<1>4. CASE Lost
  <2>1. Stream(valid, ready)
    BY <1>1, <1>2, <1>4, NotYetDone DEF Lost, WriteParams, Finish, WriteCtl, Restart, Idle
  <2> QED
    BY <1>1, <1>4, <2>1, LostStep DEF TBInv
<1>5. CASE Running
  <2>1. Stream(valid, ready)
    BY <1>1, <1>2, <1>5, NotYetDone DEF Running, Streaming, WriteParams, Finish, WriteCtl, Restart, Idle
  <2> QED
    BY <1>1, <1>5, <2>1, WaitingStep, ReadingStep, ProcessingStep DEF TBInv, Running, Working
<1>6. CASE Over
  <2>1. Stream(valid, ready) \/ (valid = FALSE /\ (Finish(ready) \/ WriteCtl(ready) \/ Restart(ready)))
    BY <1>2, <1>6 DEF Over, WriteParams, Idle
  <2>2. CASE Stream(valid, ready)
    BY <1>1, <1>6, <2>2, OverStreams DEF TBInv
  <2>3. CASE valid = FALSE /\ (Finish(ready) \/ WriteCtl(ready))
    BY <1>1, <1>6, <2>3, OverRests DEF TBInv
  <2>4. CASE valid = FALSE /\ Restart(ready)
    BY <1>1, <1>6, <2>4, OverRestarts DEF TBInv
  <2> QED
    BY <2>1, <2>2, <2>3, <2>4
<1>7. CASE Done
  <2>1. Idle(ready)
    BY <1>2, <1>7 DEF Done, Stream, WriteParams, Finish, WriteCtl, Restart, tx_done
  <2> QED
    BY <1>1, <1>7, <2>1, DoneStep DEF TBInv
<1> QED
  BY <1>3, <1>4, <1>5, <1>6, <1>7 DEF TBInv

\* When nothing happens, the accelerator stays where it is with its job.
LEMMA SamePhase ==
  ASSUME UNCHANGED tbVars
  PROVE  /\ HostInv' = HostInv /\ Programming' = Programming /\ Lost' = Lost
         /\ Running' = Running /\ Over' = Over /\ Done' = Done
<1>1. /\ UNCHANGED <<writerVars, accVars, hostVars, sourceVars, sinkVars>>
  BY DEF tbVars
<1>2. /\ UNCHANGED <<c_wr_addr, r_ram_filled, r_ram_sel, c_row_count, memory, data_out>>
      /\ UNCHANGED <<current_state, r_read_status, register_map, r_width_out, r_height_out>>
      /\ UNCHANGED <<c_x_out, c_y_out, r_x, r_y, r_top, r_bottom, r_subp, r_alpha_y_d1, r_subp_top_bot, r_prod>>
      /\ UNCHANGED <<r_valid, r_last, r_sop, r_flush, r_reinit, r_ctl_reset>>
      /\ UNCHANGED <<jobs, pc, param, image, row, col, rx_y, rx_x, stall>>
  BY <1>1 DEF writerVars, accVars, hostVars, sourceVars, sinkVars
<1>3. /\ Job' = Job /\ out_width' = out_width /\ out_height' = out_height /\ x_inc' = x_inc /\ y_inc' = y_inc
  BY <1>2, SameJob
<1>4. /\ TopRow(c_y_out)' = TopRow(c_y_out) /\ Column(c_x_out)' = Column(c_x_out)
      /\ NextColumn(c_x_out)' = NextColumn(c_x_out) /\ Row(c_y_out)' = Row(c_y_out)
      /\ (LastPixel' <=> LastPixel) /\ (Leaving' <=> Leaving)
  BY <1>2, SamePosition
<1>5. HostInv' = HostInv
  <2>1. ParamWrites' = ParamWrites
    BY <1>3 DEF ParamWrites
  <2>2. \A n : Programmed(n)' = Programmed(n)
    BY <1>2, <2>1 DEF Programmed
  <2> QED
    BY <1>2, <1>3, <2>2 DEF HostInv, Handled
<1>6. PipelineInv' = PipelineInv /\ At3' = At3
  <2>1. At0' = At0 /\ At1' = At1 /\ At2' = At2 /\ At3' = At3
    BY <1>2, <1>3 DEF At0, At1, At2, At3, NextPos
  <2>2. weighted_along_y' = weighted_along_y
    BY <1>2 DEF weighted_along_y
  <2> QED
    BY <1>2, <1>3, <2>1, <2>2, SameExpectations DEF PipelineInv, StageOK
<1>7. Both' = Both /\ NothingValid' = NothingValid /\ NoneFilled' = NoneFilled /\ AtOrigin' = AtOrigin
      /\ Quiet' = Quiet /\ MemoryType' = MemoryType
  BY <1>2 DEF Both, NothingValid, NoneFilled, AtOrigin, Quiet, MemoryType
<1>8. BufferType' = BufferType
  BY <1>2, <1>3, <1>7 DEF BufferType
<1>9. \A i, r : HoldsRow(i, r)' = HoldsRow(i, r)
  BY <1>2, <1>3 DEF HoldsRow, Pixel
<1>10. Window' = Window
  BY <1>2, <1>3, <1>9 DEF Window, Pixel
<1>11. Programming' = Programming
  BY <1>2, <1>7 DEF Programming
<1>12. Lost' = Lost
  BY <1>2, <1>7, <1>8 DEF Lost
<1>13. Over' = Over
  BY <1>2, <1>3, <1>6, <1>7, <1>8 DEF Over, Restarted
<1>14. Done' = Done
  BY <1>2, <1>7 DEF Done
<1>15. Streaming' = Streaming
  BY <1>2, <1>3, <1>6, <1>8, <1>10 DEF Streaming, PositionInv
<1>16. Waiting' = Waiting
  BY <1>2, <1>4, <1>7 DEF Waiting
<1>17. Reading' = Reading
  <2>1. LeftRead' = LeftRead
    BY <1>2, <1>4 DEF LeftRead, Top, Bottom, Pixel
  <2>2. OnTheWay(Column(c_x_out))' = OnTheWay(Column(c_x_out)) /\ OnTheWay(NextColumn(c_x_out))' = OnTheWay(NextColumn(c_x_out))
    BY <1>2, <1>4 DEF OnTheWay, Top, Bottom, Pixel, top_RAM, bottom_RAM
  <2>3. /\ HoldsRow(top_RAM, TopRow(c_y_out))' = HoldsRow(top_RAM, TopRow(c_y_out))
        /\ HoldsRow(bottom_RAM, TopRow(c_y_out) + 1)' = HoldsRow(bottom_RAM, TopRow(c_y_out) + 1)
    BY <1>2, <1>3, <1>4 DEF HoldsRow, Pixel, top_RAM, bottom_RAM
  <2> QED
    BY <1>2, <1>7, <2>1, <2>2, <2>3 DEF Reading
<1>18. Processing' = Processing
  BY <1>2, <1>4 DEF Processing, LeftRead, RightRead, Top, Bottom, Pixel
<1>19. Working' = Working
  BY <1>2, <1>3, <1>4, <1>7, <1>17, <1>18 DEF Working, PairKept, Elapsed
<1>20. Running' = Running
  BY <1>15, <1>16, <1>19 DEF Running
<1> QED
  BY <1>5, <1>11, <1>12, <1>13, <1>14, <1>20

\* ... and when nothing happens.
LEMMA InvStutters ==
  ASSUME TBInv, UNCHANGED tbVars
  PROVE  TBInv'
  BY SamePhase DEF TBInv

\* What the sink compares follows from the invariant.
LEMMA InvSatisfies ==
  TBInv => SinkIsSatisfied
<1> SUFFICES ASSUME TBInv, aso_valid
             PROVE  /\ ~RowEndDeviates(rx_y, rx_x) => aso_data = Expected(rx_y, rx_x)
                    /\ aso_last <=> rx_x = out_width - 1
                    /\ aso_sop <=> rx_x = 0
  BY DEF SinkIsSatisfied, OutputMatchesModelButRowEnd, PacketsAreRows
<1>1. PipelineInv
  BY DEF TBInv, Programming, Lost, Running, Streaming, Over, Done, NothingValid, aso_valid, Stages
<1>2. /\ RowEndDeviates(rx_y, rx_x) \/ r_prod = Expected(rx_y, rx_x)
      /\ r_last[0] <=> rx_x = out_width - 1
      /\ r_sop[0] <=> rx_x = 0
  BY <1>1 DEF PipelineInv, StageOK, At0, aso_valid
<1> QED
  BY <1>2 DEF aso_data, aso_last, aso_sop

\* The inductive invariant holds in every state, for every list of jobs that is Handled.
THEOREM Invariance ==
  (\A jl \in JobLists : Handled(jl)) => (TBSpec => []TBInv)
<1> SUFFICES ASSUME \A jl \in JobLists : Handled(jl)
             PROVE  TBSpec => []TBInv
  OBVIOUS
<1>1. TBInit => TBInv
  BY InvInit
<1>2. TBInv /\ [TBNext]_tbVars => TBInv'
  BY InvNext, InvStutters DEF TBNext
<1> QED
  BY <1>1, <1>2, PTL DEF TBSpec

\* What the sink compares: every pixel that is put out equals the output of the software model,
\* apart from the known deviation of the last column, and the packets are the output rows.
THEOREM SinkSatisfied ==
  (\A jl \in JobLists : Handled(jl)) => (TBSpec => []SinkIsSatisfied)
  BY Invariance, InvSatisfies, PTL

-----------------------------------------------------------------------------
(* The protocol of the buffer *)

\* Behind the last job the RAM to be written to is free.
RestInv == pc = "done" => r_ram_sel \in Rams /\ ~r_ram_filled[r_ram_sel]

\* The running accelerator gives back only what the buffer may lose.
LEMMA RunningLegal ==
  ASSUME HostInv, Running, NEW valid \in BOOLEAN, NEW ready \in BOOLEAN, Stream(valid, ready)
  PROVE  Legal(valid, RAM_RESET_PROC)
<1> DEFINE s == r_ram_sel
           o == Other(r_ram_sel)
           t == Row(c_y_out)
<1>1. /\ pc = "run" /\ Programmed(6) /\ r_width_out = out_width
      /\ BufferEdge(valid, w_ram_rd, c_ram_rd_addr, RAM_RESET_PROC)
  BY StreamStep
<1>2. JobFacts /\ BufferType /\ Window /\ PositionInv /\ Streaming
  BY JobIsHandled DEF HostInv, Streaming, Running
<1>3. /\ s \in Rams /\ o \in Rams /\ s # o /\ Rams = {s, o} /\ r_ram_filled \in [Rams -> BOOLEAN]
      /\ (Both <=> r_ram_filled[s] /\ r_ram_filled[o])
      /\ row \in Nat /\ t \in Nat /\ Job.height \in Nat /\ t <= Job.height - 1
  <2>1. t \in 0 .. Job.height - 1
    BY <1>2, Geometry DEF PositionInv
  <2> QED
    <3>1. s \in Rams /\ r_ram_filled \in [Rams -> BOOLEAN] /\ row \in Nat /\ Job.height \in Nat
      BY <1>2 DEF BufferType, JobFacts
    <3>2. o \in Rams /\ s # o /\ Rams = {s, o} /\ (Both <=> r_ram_filled[s] /\ r_ram_filled[o])
      BY <3>1, TwoRams DEF Both
    <3> QED
      BY <2>1, <3>1, <3>2
<1> HIDE DEF s, o, t
<1>4. CASE Waiting
  <2>1. ~last_x /\ r_floor_y = t /\ ~w_need_new_row
    BY <1>1, <1>2, <1>4, Signals DEF JobFacts, Waiting, t
  <2>2. c_row_count = row /\ RAM_RESET_PROC = IF t > row THEN Rams ELSE IF t = row THEN {o} ELSE {}
    BY <1>2, <1>4, <2>1 DEF RAM_RESET_PROC, Window, bottom_RAM, Waiting, o
  <2>3. CASE Both
    <3>1. ~w_wr(valid)
      BY <2>3 DEF w_wr, w_asi_input_data_ready, Both
    <3>2. row = TopRow(c_y_out) + 2
      BY <1>3, <1>4, <2>3 DEF Waiting, s, Both, Rams
    <3>3. RAM_RESET_PROC = {}
      BY <1>3, <2>2, <3>2 DEF TopRow, t
    <3> QED
      BY <3>3 DEF Legal
  <2>4. CASE ~Both
    <3>1. ~r_ram_filled[s] /\ (t >= row \/ (r_ram_filled[o] /\ t = row - 1))
      BY <1>4, <2>4 DEF Waiting, s, o, t
    <3> QED
      BY <1>3, <2>2, <3>1 DEF Legal, s, o
  <2> QED
    BY <2>3, <2>4
<1>5. CASE Working
  <2>1. RAM_RESET_PROC = IF Needed THEN {s} ELSE IF LastPixel THEN Rams ELSE {}
    BY <1>2, <1>5, WorkingReset DEF s
  <2>2. Leaving => ~source_last
    BY <1>1, <1>2, <1>5, WorkingBuffer
  <2> QED
    BY <1>3, <2>1, <2>2 DEF Legal, Leaving, s, o
<1> QED
  BY <1>4, <1>5 DEF Running

\* The read addresses are columns of the input.
LEMMA AddressInRow ==
  ASSUME JobFacts, Programmed(6), r_width_out = out_width, PositionInv
  PROVE  c_ram_rd_addr \in 0 .. Job.width - 1
<1>1. r_floor_x = Column(c_x_out) /\ register_map["width"] = Job.width
  BY Signals, Registers
<1>2. Column(c_x_out) \in 0 .. Job.width - 1 /\ Job.width \in Nat
  BY Geometry DEF PositionInv, JobFacts
<1> QED
  BY <1>1, <1>2 DEF c_ram_rd_addr

\* Without a pixel, an edge is the same for any data and any end of packet.
LEMMA AnyPixel ==
  ASSUME r_ram_sel \in Rams, NEW data, NEW eop, NEW rd, NEW rd_addr, NEW ram_reset,
         WriterClock(FALSE, NoPixel, FALSE, rd, rd_addr, ram_reset, FALSE)
  PROVE  WriterClock(FALSE, data, eop, rd, rd_addr, ram_reset, FALSE)
<1>1. ~w_wr(FALSE) /\ \A i \in Rams : ~w_wr_array(FALSE)[i]
  BY DEF w_wr_array, w_wr
<1>2. WRITE_POSITION(FALSE, eop) /\ WRITE_PROCESS(FALSE, data)
  BY <1>1 DEF WriterClock, WRITE_POSITION, WRITE_PROCESS
<1>3. RAM_FILLED_STATUSES(FALSE, eop, ram_reset)
  BY <1>1 DEF WriterClock, RAM_FILLED_STATUSES
<1>4. RAM_SELECT(FALSE, eop) /\ COUNT_ROWS(FALSE, eop, FALSE)
  BY <1>1 DEF WriterClock, RAM_SELECT, COUNT_ROWS
<1> QED
  BY <1>2, <1>3, <1>4 DEF WriterClock

\* Up to the end of its image, every edge is one of a reader that keeps to the protocol.
LEMMA EdgeIsLegal ==
  ASSUME TBInv, RestInv, ~r_flush, NEW valid \in BOOLEAN, NEW ready \in BOOLEAN, Edge(valid, ready)
  PROVE  /\ JobFacts /\ image' = image /\ (valid => sending) /\ r_ram_sel \in Rams
         /\ Legal(valid, RAM_RESET_PROC)
         /\ w_ram_rd => c_ram_rd_addr \in 0 .. Job.width - 1
         /\ WriterClock(valid, Pixel(image, row, col), source_last, w_ram_rd, c_ram_rd_addr, RAM_RESET_PROC, FALSE)
         /\ pc # "run" => UNCHANGED <<row, col>> /\ ~valid
         /\ pc = "run" => Source(valid)
<1>1. JobFacts
  BY JobIsHandled DEF TBInv
<1>2. \/ Stream(valid, ready)
      \/ valid = FALSE /\ (WriteParams(ready) \/ Finish(ready) \/ WriteCtl(ready) \/ Restart(ready) \/ Idle(ready))
  BY DEF Edge
<1>3. CASE Programming \/ Done
  <2>1. valid = FALSE /\ pc # "run" /\ (WriteParams(ready) \/ Idle(ready))
    BY <1>2, <1>3 DEF Programming, Done, Stream, Finish, WriteCtl, Restart, Idle, WriteParams, tx_done
  <2>2. UNCHANGED <<image, row, col>> /\ \E mm : AccClock(FALSE, NoPixel, FALSE, ready, mm)
    BY <2>1 DEF WriteParams, Idle, hostVars, sourceVars
  <2>3. r_ctl_reset = FALSE
    BY <1>3 DEF TBInv, HostInv, Programming, Done
  <2>4. WriterClock(FALSE, NoPixel, FALSE, w_ram_rd, c_ram_rd_addr, RAM_RESET_PROC, FALSE)
    BY <2>2, <2>3 DEF AccClock
  <2>5. r_ram_sel \in Rams /\ ~r_ram_filled[r_ram_sel]
    BY <1>3 DEF RestInv, Programming, NoneFilled, Done
  <2>6. ~w_ram_rd
    BY <1>3 DEF w_ram_rd, Programming, Done, Quiet
  <2>7. WriterClock(FALSE, Pixel(image, row, col), source_last, w_ram_rd, c_ram_rd_addr, RAM_RESET_PROC, FALSE)
    BY <2>4, <2>5, AnyPixel
  <2>8. Legal(FALSE, RAM_RESET_PROC)
    BY <2>5 DEF Legal, w_wr
  <2> QED
    BY <1>1, <2>1, <2>2, <2>5, <2>6, <2>7, <2>8
<1>4. CASE Running
  <2>1. Stream(valid, ready)
    BY <1>2, <1>4, NotYetDone DEF TBInv, Running, Streaming, WriteParams, Finish, WriteCtl, Restart, Idle
  <2>2. /\ UNCHANGED image /\ pc = "run" /\ Programmed(6) /\ r_width_out = out_width
        /\ BufferEdge(valid, w_ram_rd, c_ram_rd_addr, RAM_RESET_PROC)
    BY <2>1, StreamStep DEF TBInv
  <2>3. Legal(valid, RAM_RESET_PROC)
    BY <1>4, <2>1, RunningLegal DEF TBInv
  <2>4. c_ram_rd_addr \in 0 .. Job.width - 1
    BY <1>1, <1>4, <2>2, AddressInRow DEF Running, Streaming
  <2>5. r_ram_sel \in Rams
    BY <1>4 DEF Running, Streaming, BufferType
  <2> QED
    BY <1>1, <2>2, <2>3, <2>4, <2>5 DEF BufferEdge
<1>5. ~Lost /\ ~Over
  BY DEF Lost, Over
<1> QED
  BY <1>3, <1>4, <1>5 DEF TBInv

\* An edge by the protocol is a step of RAM_writer_stream.
LEMMA EdgeStreams ==
  ASSUME TBInv, RestInv, ~r_flush, NEW valid \in BOOLEAN, NEW ready \in BOOLEAN, Edge(valid, ready),
         NEW CONSTANT w, NEW CONSTANT h, w = Job.width, h = Job.height
  PROVE  Buffer(w, h)!StreamNext
<1> DEFINE addr == IF w_ram_rd THEN c_ram_rd_addr ELSE 0
<1>1. /\ JobFacts /\ image' = image /\ (valid => sending) /\ r_ram_sel \in Rams
      /\ Legal(valid, RAM_RESET_PROC)
      /\ w_ram_rd => c_ram_rd_addr \in 0 .. w - 1
      /\ WriterClock(valid, Pixel(image, row, col), source_last, w_ram_rd, c_ram_rd_addr, RAM_RESET_PROC, FALSE)
      /\ pc # "run" => UNCHANGED <<row, col>> /\ ~valid
      /\ pc = "run" => Source(valid)
  BY EdgeIsLegal
<1>2. addr \in 0 .. w - 1 /\ w_ram_rd \in BOOLEAN
  BY <1>1 DEF JobFacts, w_ram_rd
<1>3. RAM_RESET_PROC \in SUBSET Rams
  BY <1>1 DEF RAM_RESET_PROC, top_RAM, bottom_RAM, Rams, Other
<1>4. WriterClock(valid, Pixel(image, row, col), source_last, w_ram_rd, addr, RAM_RESET_PROC, FALSE)
  BY <1>1 DEF WriterClock, READ_PROCESS
<1> HIDE DEF addr
<1>5. Buffer(w, h)!eop <=> (row < h /\ col = w - 1)
  BY DEF Buffer!eop
<1>6. w_wr(valid) => (source_last <=> Buffer(w, h)!eop) /\ row < h /\ pc = "run"
  BY <1>1, <1>5 DEF w_wr, sending, source_last
<1>7. Buffer(w, h)!Legal(valid, Buffer(w, h)!eop, RAM_RESET_PROC)
  BY <1>1, <1>6 DEF Legal, w_wr, w_asi_input_data_ready, Other, Rams,
     Buffer!Legal, Buffer!w_wr, Buffer!w_asi_input_data_ready, Buffer!Other
<1>8. WriterClock(valid, Pixel(image, row, col), Buffer(w, h)!eop, w_ram_rd, addr, RAM_RESET_PROC, FALSE)
  <2>1. CASE w_wr(valid)
    <3>1. source_last = Buffer(w, h)!eop
      BY <1>6, <2>1 DEF source_last, Buffer!eop
    <3> QED
      BY <1>4, <3>1
  <2>2. CASE ~w_wr(valid)
    <3>1. ~w_wr(valid) /\ \A i \in Rams : ~w_wr_array(valid)[i]
      BY <2>2 DEF w_wr_array
    <3> QED
      BY <1>1, <1>4, <3>1 DEF WriterClock, WRITE_POSITION, RAM_FILLED_STATUSES, RAM_SELECT, COUNT_ROWS,
         WRITE_PROCESS
  <2> QED
    BY <2>1, <2>2
<1>9. Buffer(w, h)!WriterClock(valid, Buffer(w, h)!Pixel(image, row, col), Buffer(w, h)!eop, w_ram_rd, addr,
                               RAM_RESET_PROC, FALSE)
  BY <1>8 DEF WriterClock, WRITE_POSITION, RAM_FILLED_STATUSES, RAM_SELECT, COUNT_ROWS, WRITE_PROCESS,
     READ_PROCESS, w_wr_array, w_wr, w_asi_input_data_ready, NextAddress, Other, Rams, Pixel,
     Buffer!WriterClock, Buffer!WRITE_POSITION, Buffer!RAM_FILLED_STATUSES, Buffer!RAM_SELECT,
     Buffer!COUNT_ROWS, Buffer!WRITE_PROCESS, Buffer!READ_PROCESS, Buffer!w_wr_array, Buffer!w_wr,
     Buffer!w_asi_input_data_ready, Buffer!NextAddress, Buffer!Other, Buffer!Rams, Buffer!Pixel
<1>10. Buffer(w, h)!AdvanceSource(valid)
  <2>1. CASE w_wr(valid)
    BY <1>1, <1>6, <2>1 DEF Source, Buffer!AdvanceSource, Buffer!w_wr, w_wr, w_asi_input_data_ready,
       Buffer!w_asi_input_data_ready
  <2>2. CASE ~w_wr(valid)
    <3>1. UNCHANGED <<image, row, col>>
      BY <1>1, <2>2 DEF Source, sourceVars
    <3> QED
      BY <2>2, <3>1 DEF Buffer!AdvanceSource, Buffer!w_wr, w_wr, w_asi_input_data_ready,
         Buffer!w_asi_input_data_ready, Buffer!sourceVars
  <2> QED
    BY <2>1, <2>2
<1>11. valid => row < h
  BY <1>1 DEF sending
<1>12. Buffer(w, h)!Edge(valid, w_ram_rd, addr, RAM_RESET_PROC)
  BY <1>7, <1>9, <1>10, <1>11 DEF Buffer!Edge
<1> QED
  BY <1>2, <1>3, <1>12 DEF Buffer!StreamNext, Buffer!Rams, Rams

\* The restart gives back at least the RAM to be written to.
LEMMA RestKept ==
  ASSUME TBInv, RestInv, NEW valid \in BOOLEAN, NEW ready \in BOOLEAN, Edge(valid, ready)
  PROVE  RestInv'
<1> SUFFICES ASSUME pc' = "done"
             PROVE  r_ram_sel' \in Rams /\ ~r_ram_filled'[r_ram_sel']
  BY DEF RestInv
<1>1. (pc = "restart" /\ Restart(ready)) \/ (pc = "done" /\ Idle(ready))
  BY DEF Edge, Stream, WriteParams, Finish, WriteCtl, Restart, Idle, hostVars, TBInv, HostInv
<1>2. WriterClock(FALSE, NoPixel, FALSE, w_ram_rd, c_ram_rd_addr, RAM_RESET_PROC, r_ctl_reset)
  BY <1>1 DEF Restart, Idle, AccClock
<1>3. CASE pc = "restart"
  <2>1. Over
    BY <1>3 DEF TBInv, Programming, Lost, Running, Streaming, Done
  <2>2. r_ram_sel \in Rams /\ c_row_count \in Nat /\ c_row_count >= 1 /\ r_flush /\ r_y = 0
    BY <2>1 DEF Over, BufferType
  <2>3. r_floor_y = 0
    BY <2>2, JobIsHandled, Geometry DEF r_floor_y, TBInv
  <2>4. r_ram_sel \in RAM_RESET_PROC
    BY <2>2, <2>3 DEF RAM_RESET_PROC, top_RAM
  <2>5. r_ram_sel' = r_ram_sel /\ ~r_ram_filled'[r_ram_sel]
    BY <1>2, <2>2, <2>4 DEF WriterClock, RAM_SELECT, RAM_FILLED_STATUSES, w_wr_array, w_wr
  <2> QED
    BY <2>2, <2>5
<1>4. CASE pc = "done"
  <2>1. r_ram_sel \in Rams /\ ~r_ram_filled[r_ram_sel]
    BY <1>4 DEF RestInv
  <2>2. r_ram_sel' = r_ram_sel /\ ~r_ram_filled'[r_ram_sel]
    BY <1>2, <2>1 DEF WriterClock, RAM_SELECT, RAM_FILLED_STATUSES, w_wr_array, w_wr
  <2> QED
    BY <2>1, <2>2
<1> QED
  BY <1>1, <1>3, <1>4

\* The processing logic keeps to the protocol of the buffer up to the last pixel of an image, so
\* that what is proved of the buffer holds in the accelerator.
THEOREM KeepsToProtocol ==
  (\A jl \in JobLists : Handled(jl)) => (TBSpec => KeepsWindow)
<1> SUFFICES ASSUME \A jl \in JobLists : Handled(jl)
             PROVE  TBSpec => KeepsWindow
  OBVIOUS
<1> DEFINE Kept == \A s \in Sizes :
             s = <<Job.width, Job.height>> /\ ~r_flush => Buffer(s[1], s[2])!StreamNext
<1>1. TBInit => RestInv
  BY DEF TBInit, RestInv
<1>2. TBInv /\ RestInv /\ [TBNext]_tbVars => RestInv'
  <2>1. ASSUME RestInv, UNCHANGED tbVars PROVE RestInv'
    BY <2>1 DEF RestInv, tbVars, hostVars, writerVars
  <2> QED
    BY <2>1, RestKept DEF TBNext
<1>3. TBInv /\ RestInv /\ [TBNext]_tbVars => [Kept]_<<writerVars, image, row, col>>
  <2>1. ASSUME TBInv, RestInv, TBNext
        PROVE  Kept
    <3>1. PICK valid \in BOOLEAN, ready \in BOOLEAN : Edge(valid, ready)
      BY <2>1 DEF TBNext
    <3>2. SUFFICES ASSUME NEW CONSTANT s \in Sizes, s = <<Job.width, Job.height>>, ~r_flush
                   PROVE  Buffer(s[1], s[2])!StreamNext
      OBVIOUS
    <3>3. s[1] = Job.width /\ s[2] = Job.height
      BY <3>2
    <3> QED
      BY <2>1, <3>1, <3>2, <3>3, EdgeStreams
  <2>2. ASSUME UNCHANGED tbVars
        PROVE  UNCHANGED <<writerVars, image, row, col>>
    BY <2>2 DEF tbVars, hostVars, sourceVars, writerVars
  <2> QED
    BY <2>1, <2>2
<1>4. TBSpec => []TBInv
  BY Invariance
<1> QED
  BY <1>1, <1>2, <1>3, <1>4, PTL DEF TBSpec, KeepsWindow

-----------------------------------------------------------------------------
(* The restart *)

\* The parameters of the job before, none at the start.
OldJob == IF image = 0 THEN [width |-> 0, height |-> 0, sx |-> 0, sy |-> 0] ELSE jobs[image]

\* While a job is programmed, a register that has not been written holds the old parameter, and
\* the output that results is not of one pixel.
OldParams ==
  /\ register_map["sy"] = OldJob.sy
  /\ param < 6 => register_map["sx"] = OldJob.sx
  /\ register_map["width"] = IF param < 2 THEN OldJob.width ELSE Job.width
  /\ register_map["height"] = IF param < 3 THEN OldJob.height ELSE Job.height

CleanInv ==
  /\ NeverLost(jobs)
  /\ ~Lost
  /\ pc = "params" => /\ OldParams /\ ~r_flush
                      /\ r_width_out \in Nat /\ r_height_out \in Nat
                      /\ ~(r_width_out = 1 /\ r_height_out = 1)

\* The registers never hold the sizes and factors of an output of one pixel.
LEMMA NoSinglePixel ==
  ASSUME HostInv, NeverLost(jobs), pc = "params", OldParams, param < 6
  PROVE  ~ /\ (register_map["width"] * register_map["sx"]) \div 2 ^ C_SCALE_FRAC = 1
           /\ (register_map["height"] * register_map["sy"]) \div 2 ^ C_SCALE_FRAC = 1
<1> DEFINE w == register_map["width"]
           h == register_map["height"]
<1>1. /\ Handled(jobs) /\ image \in Nat /\ image < Len(jobs) /\ JobFacts /\ Len(jobs) \in Nat
      /\ register_map \in [Params -> Nat]
  BY JobIsHandled DEF HostInv
<1>2. /\ register_map["sx"] = OldJob.sx /\ register_map["sy"] = OldJob.sy
      /\ w \in {OldJob.width, Job.width} /\ h \in {OldJob.height, Job.height}
  BY DEF OldParams
<1>3. w \in Nat /\ h \in Nat /\ register_map["sx"] \in Nat /\ register_map["sy"] \in Nat
  BY <1>1 DEF Params
<1> HIDE DEF w, h
<1>4. CASE image = 0
  <2>1. OldJob.sx = 0
    BY <1>4 DEF OldJob
  <2>2. w * 0 = 0 /\ 0 \div ScaleOne = 0
    <3>1. ScaleOne \in Nat \ {0}
      BY FixedPoint
    <3>2. 0 \div ScaleOne \in Nat /\ 0 \div ScaleOne < 1
      BY <3>1, Division, QuotientBelow
    <3> QED
      BY <1>3, <3>2
  <2> QED
    BY <1>2, <2>1, <2>2 DEF w, ScaleOne
<1>5. CASE image # 0
  <2>1. /\ OldJob = jobs[image] /\ Job = jobs[image + 1]
        /\ image \in 1 .. Len(jobs) - 1 /\ image \in 1 .. Len(jobs)
    BY <1>1, <1>5 DEF OldJob, Job
  <2>2. /\ Model!output_size(OldJob.width, OldJob.sx) > 1
        /\ \A k \in {OldJob.height, Job.height} :
             ~(Model!output_size(Job.width, OldJob.sx) = 1 /\ Model!output_size(k, OldJob.sy) = 1)
    BY <1>1, <2>1 DEF Handled, NeverLost
  <2>3. /\ (w * register_map["sx"]) \div 2 ^ C_SCALE_FRAC = Model!output_size(w, OldJob.sx)
        /\ (h * register_map["sy"]) \div 2 ^ C_SCALE_FRAC = Model!output_size(h, OldJob.sy)
    BY <1>2, <1>3, FixedPoint DEF ScaleOne
  <2>4. CASE w = OldJob.width
    BY <2>2, <2>3, <2>4 DEF w, h
  <2>5. CASE w = Job.width
    BY <1>2, <2>2, <2>3, <2>5 DEF w, h
  <2> QED
    BY <1>2, <2>4, <2>5
<1> QED
  BY <1>4, <1>5

\* What the host writes next.
LEMMA OldParamsKept ==
  ASSUME HostInv, pc = "params", OldParams, WRITE_MM(host_write), UNCHANGED <<jobs, image>>,
         param < 6, param' = param + 1
  PROVE  OldParams'
<1>1. param \in 1 .. 6 /\ register_map \in [Params -> Nat] /\ host_write = ParamWrites[param]
  BY DEF HostInv, host_write
<1>2. /\ ParamWrites[1] = [addr |-> "width", data |-> Job.width]
      /\ ParamWrites[2] = [addr |-> "height", data |-> Job.height]
      /\ ParamWrites[3] = [addr |-> "x_inc", data |-> x_inc]
      /\ ParamWrites[4] = [addr |-> "y_inc", data |-> y_inc]
      /\ ParamWrites[5] = [addr |-> "sx", data |-> Job.sx]
  BY DEF ParamWrites, x_inc, y_inc
<1>3. Job' = Job /\ OldJob' = OldJob
  BY SameJob DEF OldJob
<1>4. param = 1 \/ param = 2 \/ param = 3 \/ param = 4 \/ param = 5
  BY <1>1
<1>5. /\ "width" \in Params /\ "height" \in Params /\ "x_inc" \in Params /\ "y_inc" \in Params
      /\ "sx" \in Params /\ "sy" \in Params
  BY DEF Params
<1> HIDE DEF ParamWrites
<1>6. CASE param = 1
  <2>1. host_write = [addr |-> "width", data |-> Job.width]
    BY <1>1, <1>2, <1>6
  <2>2. register_map' = [register_map EXCEPT !["width"] = Job.width]
    BY <1>5, <2>1 DEF WRITE_MM
  <2> QED
    BY <1>1, <1>3, <1>5, <1>6, <2>2 DEF OldParams
<1>7. CASE param = 2
  <2>1. host_write = [addr |-> "height", data |-> Job.height]
    BY <1>1, <1>2, <1>7
  <2>2. register_map' = [register_map EXCEPT !["height"] = Job.height]
    BY <1>5, <2>1 DEF WRITE_MM
  <2> QED
    BY <1>1, <1>3, <1>5, <1>7, <2>2 DEF OldParams
<1>8. CASE param = 3
  <2>1. host_write = [addr |-> "x_inc", data |-> x_inc]
    BY <1>1, <1>2, <1>8
  <2>2. register_map' = [register_map EXCEPT !["x_inc"] = x_inc]
    BY <1>5, <2>1 DEF WRITE_MM
  <2> QED
    BY <1>1, <1>3, <1>5, <1>8, <2>2 DEF OldParams
<1>9. CASE param = 4
  <2>1. host_write = [addr |-> "y_inc", data |-> y_inc]
    BY <1>1, <1>2, <1>9
  <2>2. register_map' = [register_map EXCEPT !["y_inc"] = y_inc]
    BY <1>5, <2>1 DEF WRITE_MM
  <2> QED
    BY <1>1, <1>3, <1>5, <1>9, <2>2 DEF OldParams
<1>10. CASE param = 5
  <2>1. host_write = [addr |-> "sx", data |-> Job.sx]
    BY <1>1, <1>2, <1>10
  <2>2. register_map' = [register_map EXCEPT !["sx"] = Job.sx]
    BY <1>5, <2>1 DEF WRITE_MM
  <2> QED
    BY <1>1, <1>3, <1>5, <1>10, <2>2 DEF OldParams
<1> QED
  BY <1>4, <1>6, <1>7, <1>8, <1>9, <1>10

\* The image is not over before it has begun.
LEMMA RunningNotLost ==
  HostInv /\ (Running \/ Over) => ~Lost
<1> SUFFICES ASSUME HostInv, Running \/ Over PROVE ~Lost
  OBVIOUS
<1>1. JobFacts
  BY JobIsHandled
<1>2. CASE Running
  BY <1>2 DEF Running, Waiting, Working, Reading, Processing, Lost, Quiet
<1>3. CASE Over
  <2>1. SUFFICES ASSUME Lost
                 PROVE  FALSE
    OBVIOUS
  <2>2. ~r_valid[0] /\ ~r_valid[1] /\ ~r_valid[2] /\ rx_y = 0
    BY <2>1 DEF Lost, NothingValid, Stages
  <2>3. At3 = <<0, rx_x>>
    BY <2>2 DEF At0, At1, At2, At3
  <2>4. At3 = <<out_height, 0>>
    BY <1>3 DEF Over
  <2> QED
    BY <1>1, <2>3, <2>4 DEF JobFacts
<1> QED
  BY <1>2, <1>3

\* The host programs the accelerator, and it does not take the end for reached.
LEMMA CleanProgrammed ==
  ASSUME HostInv, CleanInv, Programming, NEW ready \in BOOLEAN, WriteParams(ready)
  PROVE  CleanInv'
<1>1. /\ AccClock(FALSE, NoPixel, FALSE, ready, host_write)
      /\ IF param < 6 THEN pc' = pc /\ param' = param + 1 ELSE pc' = "run"
      /\ UNCHANGED <<jobs, image>> /\ pc = "params" /\ Quiet /\ AtOrigin /\ param \in 1 .. 6
  BY DEF WriteParams, ParamWrites, Programming, HostInv
<1>2. WRITE_MM(host_write) /\ OUTPUT_DIMS_CALC
  BY <1>1 DEF AccClock
<1>3. ~r_flush'
  <2>1. r_flush' <=> ~r_ctl_reset /\ (r_flush \/ (last_x /\ last_y))
    BY <1>1, QuietStep
  <2>2. ~(last_x /\ last_y)
    <3>1. ~(r_width_out = 1 /\ r_height_out = 1) /\ c_x_out = 0 /\ c_y_out = 0
      BY <1>1 DEF CleanInv, AtOrigin
    <3>2. r_width_out \in Nat /\ r_height_out \in Nat
      BY <1>1 DEF CleanInv
    <3> QED
      BY <3>1, <3>2 DEF last_x, last_y
  <2> QED
    BY <1>1, <2>1, <2>2 DEF CleanInv
<1>4. CASE param < 6
  <2>1. OldParams'
    BY <1>1, <1>2, <1>4, OldParamsKept DEF CleanInv
  <2>2. ~(r_width_out' = 1 /\ r_height_out' = 1)
    BY <1>1, <1>2, <1>4, NoSinglePixel DEF CleanInv, OUTPUT_DIMS_CALC
  <2>3. r_width_out' \in Nat /\ r_height_out' \in Nat
    <3>1. \A p, q \in {"width", "height", "sx", "sy"} : register_map[p] * register_map[q] \in Nat
      <4>1. register_map \in [Params -> Nat]
        BY DEF HostInv
      <4>2. \A p \in {"width", "height", "sx", "sy"} : register_map[p] \in Nat
        BY <4>1 DEF Params
      <4> QED
        BY <4>2, Products
    <3>2. ScaleOne \in Nat \ {0}
      BY FixedPoint
    <3> QED
      BY <1>2, <3>1, <3>2, Division DEF OUTPUT_DIMS_CALC, ScaleOne
  <2> QED
    BY <1>1, <1>3, <1>4, <2>1, <2>2, <2>3 DEF CleanInv, Lost
<1>5. CASE ~(param < 6)
  BY <1>1, <1>3, <1>5 DEF CleanInv, Lost
<1> QED
  BY <1>4, <1>5

\* The restart leaves the old parameters, and nothing to flush.
LEMMA CleanRestart ==
  ASSUME HostInv, CleanInv, Over, NEW ready \in BOOLEAN, Restart(ready)
  PROVE  CleanInv'
<1>1. /\ AccClock(FALSE, NoPixel, FALSE, ready, NoWrite) /\ pc = "restart"
      /\ pc' = IF image + 1 < Len(jobs) THEN "params" ELSE "done"
      /\ image' = image + 1 /\ UNCHANGED <<jobs, param>>
  BY DEF Restart
<1>2. /\ Programmed(6) /\ r_ctl_reset /\ param = 1 /\ image \in Nat /\ image < Len(jobs)
      /\ Len(jobs) \in Nat /\ JobFacts /\ Quiet
  BY <1>1, JobIsHandled DEF HostInv, Over
<1>3. ~r_flush'
  BY <1>1, <1>2, QuietStep
<1>4. register_map' = register_map /\ OUTPUT_DIMS_CALC
  BY <1>1 DEF AccClock, WRITE_MM, NoWrite, Params
<1>5. r_width_out' = out_width /\ r_height_out' = out_height
  BY <1>2, <1>4, Registers, Dimensions DEF OUTPUT_DIMS_CALC
<1>6. OldJob' = Job
  <2>1. Job = jobs[image + 1]
    BY <1>2 DEF Job
  <2> QED
    BY <1>1, <1>2, <2>1 DEF OldJob
<1>7. OldParams'
  BY <1>1, <1>2, <1>4, <1>6, Registers DEF OldParams
<1> QED
  BY <1>1, <1>2, <1>3, <1>5, <1>7 DEF CleanInv, Lost, JobFacts

\* The image is not lost at an edge.
LEMMA CleanKept ==
  ASSUME TBInv, CleanInv, NEW valid \in BOOLEAN, NEW ready \in BOOLEAN, Edge(valid, ready)
  PROVE  CleanInv'
<1>1. HostInv /\ HostInv' /\ jobs' = jobs /\ ~Lost
  BY ReadStatus, HostKept DEF TBInv, CleanInv, Edge, Stream, WriteParams, Finish, WriteCtl, Restart, Idle, hostVars
<1>2. \/ Stream(valid, ready)
      \/ valid = FALSE /\ (WriteParams(ready) \/ Finish(ready) \/ WriteCtl(ready) \/ Restart(ready) \/ Idle(ready))
  BY DEF Edge
<1>3. NeverLost(jobs)' /\ (Running' \/ Over' => ~Lost')
  <2>1. NeverLost(jobs)'
    BY <1>1 DEF CleanInv, NeverLost
  <2>2. HostInv' /\ (Running' \/ Over') => ~Lost'
    BY RunningNotLost, PTL
  <2> QED
    BY <1>1, <2>1, <2>2
<1>4. CASE Programming
  BY <1>1, <1>2, <1>4, CleanProgrammed DEF Programming, Stream, Finish, WriteCtl, Restart, Idle, tx_done
<1>5. CASE Running
  <2>1. Stream(valid, ready)
    BY <1>1, <1>2, <1>5, NotYetDone DEF Running, Streaming, WriteParams, Finish, WriteCtl, Restart, Idle
  <2>2. Running' \/ Over'
    BY <1>1, <1>5, <2>1, WaitingStep, ReadingStep, ProcessingStep DEF Running, Working
  <2>3. pc' = pc /\ pc = "run"
    BY <2>1 DEF Stream, hostVars
  <2> QED
    BY <1>3, <2>2, <2>3 DEF CleanInv
<1>6. CASE Over
  <2>1. CASE valid = FALSE /\ Restart(ready)
    BY <1>1, <1>6, <2>1, CleanRestart
  <2>2. CASE Stream(valid, ready) \/ (valid = FALSE /\ (Finish(ready) \/ WriteCtl(ready)))
    <3>1. Over'
      BY <1>1, <1>6, <2>2, OverStreams, OverRests
    <3>2. pc' # "params"
      BY <3>1 DEF Over
    <3> QED
      BY <1>3, <3>1, <3>2 DEF CleanInv
  <2> QED
    BY <1>2, <1>6, <2>1, <2>2 DEF Over, WriteParams, Idle
<1>7. CASE Done
  <2>1. pc' = "done"
    BY <1>2, <1>7 DEF Done, Stream, WriteParams, Finish, WriteCtl, Restart, Idle, tx_done, hostVars
  <2> QED
    BY <1>1, <2>1 DEF CleanInv, Lost
<1> QED
  BY <1>1, <1>4, <1>5, <1>6, <1>7 DEF TBInv

\* The initial state is clean.
LEMMA CleanInit ==
  ASSUME TBInit, NeverLost(jobs)
  PROVE  CleanInv
<1>1. /\ AccInit /\ pc = "params" /\ param = 1 /\ image = 0
  BY DEF TBInit
<1>2. /\ register_map = [p \in Params |-> 0] /\ ~r_flush /\ r_width_out = 0 /\ r_height_out = 0
  BY <1>1 DEF AccInit
<1>3. OldJob = [width |-> 0, height |-> 0, sx |-> 0, sy |-> 0]
  BY <1>1 DEF OldJob
<1>4. OldParams
  BY <1>1, <1>2, <1>3 DEF OldParams, Params
<1> QED
  BY <1>1, <1>2, <1>4 DEF CleanInv, Lost

\* Nothing happens.
LEMMA CleanStutters ==
  ASSUME CleanInv, UNCHANGED tbVars
  PROVE  CleanInv'
<1>1. UNCHANGED <<register_map, r_width_out, r_height_out, r_flush, jobs, pc, param, image>>
  BY DEF tbVars, hostVars, accVars
<1>2. Job' = Job /\ OldJob' = OldJob
  BY <1>1, SameJob DEF OldJob
<1>3. OldParams' = OldParams
  BY <1>1, <1>2 DEF OldParams
<1>4. NeverLost(jobs)' = NeverLost(jobs)
  BY <1>1 DEF NeverLost
<1> QED
  BY <1>1, <1>3, <1>4, SamePhase DEF CleanInv

\* No job is taken for ended before it began: the flush flag is down when an image comes, if the
\* parameters of the job before and its own give no output of one pixel in between.
THEOREM NothingIsLost ==
  (\A jl \in JobLists : Handled(jl) /\ NeverLost(jl)) => (TBSpec => [](TBInv /\ CleanInv))
<1> SUFFICES ASSUME \A jl \in JobLists : Handled(jl) /\ NeverLost(jl)
             PROVE  TBSpec => [](TBInv /\ CleanInv)
  OBVIOUS
<1>1. TBInit => CleanInv
  BY CleanInit DEF TBInit
<1>2. TBInv /\ CleanInv /\ [TBNext]_tbVars => CleanInv'
  BY CleanKept, CleanStutters DEF TBNext
<1>3. TBSpec => []TBInv
  BY Invariance
<1> QED
  BY <1>1, <1>2, <1>3, PTL DEF TBSpec

\* When the next job is programmed, the accelerator is back in its first position with empty RAMs
\* and nothing to flush.
THEOREM RestartsAreClean ==
  (\A jl \in JobLists : Handled(jl) /\ NeverLost(jl)) => (TBSpec => []RestartIsClean)
<1> SUFFICES ASSUME \A jl \in JobLists : Handled(jl) /\ NeverLost(jl)
             PROVE  TBSpec => []RestartIsClean
  OBVIOUS
<1>1. TBInv /\ CleanInv => RestartIsClean
  BY DEF TBInv, CleanInv, RestartIsClean, Programming, Lost, Running, Streaming, Over, Done, Quiet,
     AtOrigin, NoneFilled
<1> QED
  BY <1>1, NothingIsLost, PTL

-----------------------------------------------------------------------------
(* The row pipeline *)

\* The first pixel of a row enters the pipeline a bubble behind the last one of the row before.
RowsApart == \A i \in {1, 2} : r_valid[i] /\ r_sop[i] => ~r_valid[i - 1]

\* The clocks since that last pixel has entered it.
Since == CASE current_state = "st_wait" -> 0
           [] current_state = "st_read" -> 1 + r_read_status
           [] OTHER -> 4

\* The rows that the pixels in front of position p are computed from have been taken.
TakenFor(p) == \A v \in 0 .. out_height - 1 : v < p[1] => row >= TopRow(v) + 2

RowsInv ==
  /\ jobs \in JobLists /\ RowByRow(jobs)
  /\ Running \/ Over => TakenFor(At3) /\ (out_width > 2 \/ RowsApart)
  /\ Running /\ c_x_out = 0 /\ r_valid[2] => out_width > 2 \/ stall >= Since

\* The pipeline moves with the ready of the sink.
LEMMA PipelineShifts ==
  ASSUME NEW ready \in BOOLEAN, PIPELINE(ready), r_valid \in [Stages -> BOOLEAN]
  PROVE  /\ ~ready => UNCHANGED <<r_valid, r_sop>>
         /\ ready => /\ r_valid'[0] = r_valid[1] /\ r_valid'[1] = r_valid[2]
                     /\ r_valid'[2] <=> current_state = "st_process"
                     /\ r_sop'[1] = r_sop[2] /\ r_sop'[0] = r_sop[1]
                     /\ r_sop'[2] <=> current_state = "st_process" /\ c_x_out = 0
<1>1. CASE ~ready
  BY <1>1 DEF PIPELINE
<1>2. CASE ready
  <2>1. /\ r_valid' = [i \in Stages |-> IF i = 2 THEN current_state = "st_process" ELSE r_valid[i + 1]]
        /\ r_sop' = [i \in Stages |-> IF i = 2 THEN current_state = "st_process" /\ c_x_out = 0 ELSE r_sop[i + 1]]
    BY <1>2 DEF PIPELINE, Shift
  <2>2. r_valid'[0] = r_valid[1] /\ r_valid'[1] = r_valid[2] /\ r_valid'[2] = (current_state = "st_process")
    BY <2>1 DEF Stages
  <2>3. r_sop'[0] = r_sop[1] /\ r_sop'[1] = r_sop[2] /\ r_sop'[2] = (current_state = "st_process" /\ c_x_out = 0)
    BY <2>1 DEF Stages
  <2> QED
    BY <1>2, <2>2, <2>3
<1> QED
  BY <1>1, <1>2

\* Rows stay apart when the pixel that enters the pipeline does.
LEMMA ApartKept ==
  ASSUME NEW ready \in BOOLEAN, PIPELINE(ready), r_valid \in [Stages -> BOOLEAN], RowsApart,
         ready /\ current_state = "st_process" /\ c_x_out = 0 => ~r_valid[2]
  PROVE  RowsApart'
<1>1. RowsApart' <=> /\ r_valid'[1] /\ r_sop'[1] => ~r_valid'[0]
                     /\ r_valid'[2] /\ r_sop'[2] => ~r_valid'[1]
  BY DEF RowsApart
<1>2. /\ r_valid[1] /\ r_sop[1] => ~r_valid[0]
      /\ r_valid[2] /\ r_sop[2] => ~r_valid[1]
  BY DEF RowsApart
<1> QED
  BY <1>1, <1>2, PipelineShifts

\* Whose pixels the pipeline holds: at the beginning of a row, those of the row before it and of
\* no other that is not complete.
LEMMA OneRowBehind ==
  ASSUME JobFacts, PipelineInv, out_width > 2 \/ RowsApart, NEW y, NEW x, At3 = <<y, x>>
  PROVE  /\ y \in Nat /\ rx_y <= y /\ (x = 0 => y <= rx_y + 1)
         /\ r_valid[0] => rx_y < y \/ (rx_y = y /\ rx_x < x)
         /\ NothingValid => rx_y = y /\ rx_x = x
<1>1. /\ rx_y \in Nat /\ rx_x \in 0 .. out_width - 1 /\ out_width \in Nat /\ out_width > 1
      /\ r_valid[1] => (r_sop[1] <=> At1[2] = 0)
  BY DEF PipelineInv, StageOK, JobFacts
<1> DEFINE w == out_width
           Y(p) == p[1]
           X(p) == p[2]
           N(p) == IF p[2] = w - 1 THEN <<p[1] + 1, 0>> ELSE <<p[1], p[2] + 1>>
<1>2. PICK y1 \in Nat, x1 \in 0 .. w - 1 :
        /\ At1 = <<y1, x1>>
        /\ IF r_valid[0] THEN IF rx_x = w - 1 THEN y1 = rx_y + 1 /\ x1 = 0 ELSE y1 = rx_y /\ x1 = rx_x + 1
                         ELSE y1 = rx_y /\ x1 = rx_x
  <2>1. CASE r_valid[0] /\ rx_x = w - 1
    <3>1. At1 = <<rx_y + 1, 0>> /\ rx_y + 1 \in Nat /\ 0 \in 0 .. w - 1
      BY <1>1, <2>1 DEF At1, At0, NextPos
    <3> QED
      BY <2>1, <3>1
  <2>2. CASE r_valid[0] /\ rx_x # w - 1
    <3>1. At1 = <<rx_y, rx_x + 1>> /\ rx_x + 1 \in 0 .. w - 1
      BY <1>1, <2>2 DEF At1, At0, NextPos
    <3> QED
      BY <1>1, <2>2, <3>1
  <2>3. CASE ~r_valid[0]
    BY <1>1, <2>3 DEF At1, At0
  <2> QED
    BY <2>1, <2>2, <2>3
<1>3. PICK y2 \in Nat, x2 \in 0 .. w - 1 :
        /\ At2 = <<y2, x2>>
        /\ IF r_valid[1] THEN IF x1 = w - 1 THEN y2 = y1 + 1 /\ x2 = 0 ELSE y2 = y1 /\ x2 = x1 + 1
                         ELSE y2 = y1 /\ x2 = x1
  <2>1. CASE r_valid[1] /\ x1 = w - 1
    <3>1. At2 = <<y1 + 1, 0>> /\ y1 + 1 \in Nat /\ 0 \in 0 .. w - 1
      BY <1>1, <1>2, <2>1 DEF At2, NextPos
    <3> QED
      BY <2>1, <3>1
  <2>2. CASE r_valid[1] /\ x1 # w - 1
    <3>1. At2 = <<y1, x1 + 1>> /\ x1 + 1 \in 0 .. w - 1
      BY <1>1, <1>2, <2>2 DEF At2, NextPos
    <3> QED
      BY <1>2, <2>2, <3>1
  <2>3. CASE ~r_valid[1]
    BY <1>2, <2>3 DEF At2
  <2> QED
    BY <2>1, <2>2, <2>3
<1>4. /\ IF r_valid[2] THEN IF x2 = w - 1 THEN y = y2 + 1 /\ x = 0 ELSE y = y2 /\ x = x2 + 1
                       ELSE y = y2 /\ x = x2
  BY <1>1, <1>3 DEF At3, NextPos
<1>5. r_valid[1] /\ x1 = 0 => w > 2 \/ ~r_valid[0]
  BY <1>1, <1>2 DEF RowsApart
<1>6. NothingValid => ~r_valid[0] /\ ~r_valid[1] /\ ~r_valid[2]
  BY DEF NothingValid, Stages
<1> DEFINE v0 == r_valid[0]
           v1 == r_valid[1]
           v2 == r_valid[2]
<1>7. /\ rx_y \in Nat /\ rx_x \in 0 .. w - 1 /\ w \in Nat /\ w > 1
      /\ y1 \in Nat /\ x1 \in 0 .. w - 1 /\ y2 \in Nat /\ x2 \in 0 .. w - 1
  BY <1>1, <1>2, <1>3
<1> HIDE DEF w
<1>8. y \in Nat /\ rx_y <= y
  BY <1>2, <1>3, <1>4, <1>7
<1>9. x = 0 => y <= rx_y + 1
  BY <1>2, <1>3, <1>4, <1>5, <1>7
<1>10. r_valid[0] => rx_y < y \/ (rx_y = y /\ rx_x < x)
  BY <1>2, <1>3, <1>4, <1>7
<1>11. NothingValid => rx_y = y /\ rx_x = x
  BY <1>2, <1>3, <1>4, <1>6, <1>7
<1> QED
  BY <1>8, <1>9, <1>10, <1>11

\* The clocks since the last pixel of a row do not outrun the stall of the sink.
LEMMA SinceKept ==
  ASSUME HostInv, Running, c_x_out = 0 /\ r_valid[2] => out_width > 2 \/ stall >= Since,
         NEW valid \in BOOLEAN, NEW ready \in BOOLEAN, Stream(valid, ready)
  PROVE  c_x_out' = 0 /\ r_valid'[2] => out_width > 2 \/ stall' >= Since'
<1>1. /\ POSITION(ready) /\ PIPELINE(ready) /\ Sink(ready)
      /\ current_state' = NEXT_STATE_PROCESS(ready) /\ READ_DATA_BUFFERS
  BY StreamStep
<1>2. ~r_reinit /\ r_valid \in [Stages -> BOOLEAN] /\ stall \in Nat
  BY DEF Running, Streaming, PipelineInv, HostInv
<1>3. /\ current_state \in {"st_wait", "st_read", "st_process"} /\ r_read_status \in 0 .. 2
      /\ current_state # "st_read" => r_read_status = 0
  BY DEF Running, Waiting, Working, Reading, Processing
<1>4. SUFFICES ASSUME ~(out_width > 2), c_x_out' = 0, r_valid'[2]
               PROVE  stall' >= Since'
  OBVIOUS
<1>5. CASE ready = TRUE
  <2>1. current_state = "st_process"
    BY <1>1, <1>2, <1>4, <1>5, PipelineShifts
  <2>2. Streaming /\ Working /\ Processing
    BY <2>1 DEF Running, Waiting, Working, Reading
  <2>3. /\ c_x_out # out_width - 1 => c_x_out' = c_x_out + 1
        /\ c_x_out = out_width - 1 => current_state' = "st_wait"
    BY <1>5, <2>2, ProcessedStep
  <2>4. c_x_out \in Nat
    BY <2>2, JobIsHandled DEF Streaming, PositionInv, JobFacts
  <2>5. current_state' = "st_wait"
    BY <1>4, <2>3, <2>4
  <2>6. stall' = 0
    BY <1>1, <1>5 DEF Sink
  <2> QED
    BY <2>5, <2>6 DEF Since
<1>6. CASE ready = FALSE
  <2>1. UNCHANGED <<r_valid, c_x_out>> /\ stall' = stall + 1
    BY <1>1, <1>2, <1>6, PipelineShifts DEF POSITION, Moved, Sink
  <2>2. stall >= Since
    BY <1>4, <2>1
  <2>3. CASE current_state = "st_wait"
    <3>1. current_state' \in {"st_wait", "st_read"} /\ r_read_status' = 0
      BY <1>1, <1>3, <2>3 DEF NEXT_STATE_PROCESS, READ_DATA_BUFFERS
    <3> QED
      BY <1>2, <2>1, <3>1 DEF Since
  <2>4. CASE current_state = "st_read"
    <3>1. /\ r_read_status' = (r_read_status + 1) % 3
          /\ current_state' = IF r_read_status = 2 THEN "st_process" ELSE "st_read"
      BY <1>1, <2>4 DEF NEXT_STATE_PROCESS, READ_DATA_BUFFERS, read_done
    <3>2. Since = 1 + r_read_status
      BY <2>4 DEF Since
    <3>3. CASE r_read_status = 2
      BY <1>2, <2>1, <2>2, <3>1, <3>2, <3>3 DEF Since
    <3>4. CASE r_read_status # 2
      <4>1. r_read_status' = r_read_status + 1
        BY <1>3, <3>1, <3>4
      <4> QED
        BY <1>2, <1>3, <2>1, <2>2, <3>1, <3>2, <3>4, <4>1 DEF Since
    <3> QED
      BY <3>3, <3>4
  <2>5. CASE current_state = "st_process"
    <3>1. current_state' = "st_process"
      BY <1>1, <1>6, <2>5 DEF NEXT_STATE_PROCESS, w_proc_flag
    <3> QED
      BY <1>2, <2>1, <2>2, <2>5, <3>1 DEF Since
  <2> QED
    BY <1>3, <2>3, <2>4, <2>5
<1> QED
  BY <1>5, <1>6

\* Where the pixels that have entered the pipeline end.
LEMMA EnteredUpTo ==
  ASSUME HostInv, Running, NEW valid \in BOOLEAN, NEW ready \in BOOLEAN, Stream(valid, ready)
  PROVE  \/ At3' = At3 /\ ~(ready /\ current_state = "st_process")
         \/ At3' = NextPos(At3) /\ Working
<1>1. /\ UNCHANGED <<jobs, image>> /\ POSITION(ready) /\ PIPELINE(ready) /\ Sink(ready)
  BY StreamStep
<1>2. JobFacts /\ PipelineInv /\ At3 = <<c_y_out, c_x_out>> /\ ~r_reinit
  BY JobIsHandled DEF Running, Streaming
<1>3. CASE ready = TRUE /\ current_state = "st_process"
  <2>1. Streaming /\ Working /\ Processing
    BY <1>3 DEF Running, Waiting, Working, Reading
  <2> QED
    BY <1>2, <1>3, <2>1, ProcessedStep
<1>4. CASE ~(ready /\ current_state = "st_process")
  <2>1. StageOK(ready /\ current_state = "st_process", last_x, c_x_out = 0, Entering, At3)
    BY <1>4 DEF StageOK
  <2> QED
    BY <1>1, <1>2, <1>4, <2>1, PipelineKept
<1> QED
  BY <1>3, <1>4

\* The rows of a job are where they were while the job is.
LEMMA SameTopRow ==
  ASSUME UNCHANGED <<jobs, image>>
  PROVE  out_height' = out_height /\ \A v : TopRow(v)' = TopRow(v)
<1>1. Job' = Job /\ out_height' = out_height /\ \A v : Row(v)' = Row(v)
  BY SameJob
<1> QED
  BY <1>1 DEF TopRow

\* Rows are taken one by one.
LEMMA RowMoves ==
  ASSUME HostInv, BufferType, NEW valid \in BOOLEAN, NEW ready \in BOOLEAN, Stream(valid, ready)
  PROVE  /\ row \in Nat /\ row <= Job.height /\ row' \in {row, row + 1}
         /\ row' # row => w_wr(valid) /\ source_last /\ row < Job.height /\ row' = row + 1
<1>1. /\ UNCHANGED <<jobs, image>> /\ BufferEdge(valid, w_ram_rd, c_ram_rd_addr, RAM_RESET_PROC)
  BY StreamStep
<1>2. JobFacts /\ row \in 0 .. Job.height /\ Job.height \in Nat
  BY JobIsHandled DEF BufferType, JobFacts
<1>3. /\ ~w_wr(valid) => UNCHANGED <<row, col>>
      /\ w_wr(valid) => row < Job.height /\ row' = IF source_last THEN row + 1 ELSE row
  BY <1>1, <1>2, SourceMoves DEF BufferEdge
<1> QED
  BY <1>2, <1>3

\* A pixel that enters the pipeline is computed from rows that have been taken.
LEMMA TakenForKept ==
  ASSUME HostInv, Running, TakenFor(At3), NEW valid \in BOOLEAN, NEW ready \in BOOLEAN, Stream(valid, ready)
  PROVE  TakenFor(At3)'
<1>1. UNCHANGED <<jobs, image>>
  BY StreamStep
<1>2. /\ JobFacts /\ PositionInv /\ At3 = <<c_y_out, c_x_out>> /\ BufferType
      /\ c_y_out \in Nat /\ out_height \in Nat
  BY JobIsHandled DEF Running, Streaming, PositionInv, JobFacts
<1>3. row \in Nat /\ row' \in {row, row + 1}
  BY <1>2, RowMoves
<1>4. out_height' = out_height /\ \A v : TopRow(v)' = TopRow(v)
  BY <1>1, SameTopRow
<1>5. \A v \in 0 .. out_height - 1 : TopRow(v) \in Int
  <2>1. \A v \in 0 .. out_height - 1 : Row(v) \in 0 .. Job.height - 1
    BY <1>2, Geometry
  <2>2. Job.height \in Nat
    BY <1>2 DEF JobFacts
  <2> QED
    BY <2>1, <2>2 DEF TopRow
<1>6. \A v \in 0 .. out_height - 1 : v < c_y_out => row' >= TopRow(v) + 2
  <2> SUFFICES ASSUME NEW v \in 0 .. out_height - 1, v < c_y_out
               PROVE  row' >= TopRow(v) + 2
    OBVIOUS
  <2>1. row >= TopRow(v) + 2 /\ TopRow(v) \in Int
    BY <1>2, <1>5 DEF TakenFor
  <2> QED
    BY <1>3, <2>1
<1>7. CASE At3' = At3
  BY <1>2, <1>4, <1>6, <1>7 DEF TakenFor
<1>8. CASE At3' = NextPos(At3) /\ Working
  <2>1. At3'[1] <= c_y_out + 1 /\ At3'[1] \in Nat
    BY <1>2, <1>8 DEF NextPos
  <2>2. row' >= TopRow(c_y_out) + 2
    <3>1. row = TopRow(c_y_out) + 2
      BY <1>8 DEF Working
    <3> QED
      BY <1>3, <3>1
  <2>3. ASSUME NEW v \in 0 .. out_height - 1, v < At3'[1]
        PROVE  row' >= TopRow(v) + 2
    <3>1. v = c_y_out \/ v < c_y_out
      BY <1>2, <2>1, <2>3
    <3> QED
      BY <1>6, <2>2, <3>1
  <2> QED
    BY <1>4, <2>3 DEF TakenFor
<1> QED
  BY <1>7, <1>8, EnteredUpTo

\* A row of at least three output pixels, or a sink that stalls for less than four clocks.
LEMMA LongRowOrShortStall ==
  ASSUME HostInv, RowByRow(jobs)
  PROVE  out_width > 2 \/ stall < 4
<1>1. /\ image \in Nat /\ image <= Len(jobs) /\ Len(jobs) \in Nat \ {0} /\ Job.stall \in Nat
      /\ stall \in Nat /\ stall <= Job.stall
  BY JobIsHandled DEF HostInv, JobFacts
<1>2. \E i \in 1 .. Len(jobs) : Job = jobs[i]
  <2>1. CASE image < Len(jobs)
    <3>1. image + 1 \in 1 .. Len(jobs)
      BY <1>1, <2>1
    <3> QED
      BY <2>1, <3>1 DEF Job
  <2>2. CASE ~(image < Len(jobs))
    <3>1. image \in 1 .. Len(jobs)
      BY <1>1, <2>2
    <3> QED
      BY <2>2, <3>1 DEF Job
  <2> QED
    BY <2>1, <2>2
<1>3. out_width > 2 \/ Job.stall < 4
  BY <1>2 DEF RowByRow, out_width
<1> QED
  BY <1>1, <1>3

\* While the image is computed the rows of the pipeline follow each other.
LEMMA RowsRun ==
  ASSUME HostInv, RowsInv, Running, NEW valid \in BOOLEAN, NEW ready \in BOOLEAN, Stream(valid, ready)
  PROVE  /\ TakenFor(At3)' /\ (out_width > 2 \/ RowsApart)'
         /\ c_x_out' = 0 /\ r_valid'[2] => out_width' > 2 \/ stall' >= Since'
<1>1. UNCHANGED <<jobs, image>> /\ PIPELINE(ready)
  BY StreamStep
<1>2. out_width' = out_width
  BY <1>1, SameJob
<1>3. TakenFor(At3)'
  BY TakenForKept DEF RowsInv
<1>4. c_x_out' = 0 /\ r_valid'[2] => out_width > 2 \/ stall' >= Since'
  BY SinceKept DEF RowsInv
<1>5. ASSUME ~(out_width > 2)
      PROVE  RowsApart'
  <2>1. ready /\ current_state = "st_process" /\ c_x_out = 0 => ~r_valid[2]
    <3>1. stall < 4 /\ stall \in Nat
      BY <1>5, LongRowOrShortStall DEF RowsInv, HostInv
    <3>2. current_state = "st_process" => Since = 4
      BY DEF Since
    <3> QED
      BY <1>5, <3>1, <3>2 DEF RowsInv
  <2>2. r_valid \in [Stages -> BOOLEAN] /\ RowsApart
    BY <1>5 DEF Running, Streaming, PipelineInv, RowsInv
  <2> QED
    BY <1>1, <2>1, <2>2, ApartKept
<1> QED
  BY <1>2, <1>3, <1>4, <1>5

\* Behind the image the pipeline drains, and the rest of the input is taken.
LEMMA RowsDrain ==
  ASSUME HostInv, RowsInv, Over, Over', NEW ready \in BOOLEAN, PIPELINE(ready),
         UNCHANGED <<jobs, image>>, row' \in {row, row + 1}
  PROVE  TakenFor(At3)' /\ (out_width > 2 \/ RowsApart)'
<1>1. /\ JobFacts /\ At3 = <<out_height, 0>> /\ (At3 = <<out_height, 0>>)' /\ current_state # "st_process"
      /\ r_valid \in [Stages -> BOOLEAN] /\ row \in Nat
  BY JobIsHandled DEF Over, Quiet, PipelineInv, BufferType, JobFacts
<1>2. out_height' = out_height /\ out_width' = out_width /\ \A v : TopRow(v)' = TopRow(v)
  BY SameJob, SameTopRow
<1>3. TakenFor(At3)'
  <2>1. \A v \in 0 .. out_height - 1 : TopRow(v) \in Int
    <3>1. \A v \in 0 .. out_height - 1 : Row(v) \in 0 .. Job.height - 1
      BY <1>1, Geometry
    <3>2. Job.height \in Nat
      BY <1>1 DEF JobFacts
    <3> QED
      BY <3>1, <3>2 DEF TopRow
  <2>2. \A v \in 0 .. out_height - 1 : v < out_height => row >= TopRow(v) + 2
    BY <1>1 DEF TakenFor, RowsInv
  <2>3. \A v \in 0 .. out_height - 1 : v < out_height => row' >= TopRow(v) + 2
    <3> SUFFICES ASSUME NEW v \in 0 .. out_height - 1, v < out_height
                 PROVE  row' >= TopRow(v) + 2
      OBVIOUS
    <3>1. row >= TopRow(v) + 2 /\ TopRow(v) \in Int
      BY <2>1, <2>2
    <3> QED
      BY <1>1, <3>1
  <2> QED
    BY <1>1, <1>2, <2>3 DEF TakenFor
<1>4. ~(out_width > 2) => RowsApart'
  BY <1>1, ApartKept DEF RowsInv
<1> QED
  BY <1>2, <1>3, <1>4

\* Between two images the pipeline is empty.
LEMMA RowsStart ==
  ASSUME HostInv, Programming, NEW ready \in BOOLEAN, WriteParams(ready), Running'
  PROVE  /\ TakenFor(At3)' /\ RowsApart' /\ ~r_valid'[2]
<1>1. /\ AccClock(FALSE, NoPixel, FALSE, ready, host_write) /\ UNCHANGED <<jobs, image>>
      /\ Quiet /\ AtOrigin /\ NothingValid /\ ~r_reinit
  BY DEF WriteParams, Programming
<1>2. NothingValid' /\ c_y_out' = 0
  BY <1>1, QuietStep DEF AtOrigin
<1>3. ~r_valid'[0] /\ ~r_valid'[1] /\ ~r_valid'[2]
  BY <1>2 DEF NothingValid, Stages
<1>4. At3' = <<0, c_x_out'>>
  BY <1>2 DEF Running, Streaming
<1> QED
  BY <1>3, <1>4 DEF TakenFor, RowsApart

\* The rows keep their order at every edge.
LEMMA RowsInvKept ==
  ASSUME TBInv, CleanInv, RowsInv, NEW valid \in BOOLEAN, NEW ready \in BOOLEAN, Edge(valid, ready)
  PROVE  RowsInv'
<1>1. HostInv /\ jobs' = jobs /\ ~Lost
  BY DEF TBInv, CleanInv, Edge, Stream, WriteParams, Finish, WriteCtl, Restart, Idle, hostVars
<1>2. \/ Stream(valid, ready)
      \/ valid = FALSE /\ (WriteParams(ready) \/ Finish(ready) \/ WriteCtl(ready) \/ Restart(ready) \/ Idle(ready))
  BY DEF Edge
<1>3. jobs' \in JobLists /\ RowByRow(jobs)'
  BY <1>1 DEF RowsInv, RowByRow
<1>4. CASE Programming
  <2>1. WriteParams(ready)
    BY <1>2, <1>4 DEF Programming, Stream, Finish, WriteCtl, Restart, Idle, tx_done
  <2>2. pc' \in {"params", "run"}
    BY <1>4, <2>1 DEF WriteParams, Programming
  <2>3. Running' => TakenFor(At3)' /\ RowsApart' /\ ~r_valid'[2]
    BY <1>1, <1>4, <2>1, RowsStart
  <2>4. ~Over'
    <3>1. row' = 0
      BY <1>4, <2>1 DEF WriteParams, Programming, sourceVars
    <3> QED
      BY <3>1 DEF Over
  <2> QED
    BY <1>3, <2>3, <2>4 DEF RowsInv
<1>5. CASE Running
  <2>1. Stream(valid, ready)
    BY <1>1, <1>2, <1>5, NotYetDone DEF Running, Streaming, WriteParams, Finish, WriteCtl, Restart, Idle
  <2> QED
    BY <1>1, <1>3, <1>5, <2>1, RowsRun DEF RowsInv
<1>6. CASE Over
  <2>1. CASE valid = FALSE /\ Restart(ready)
    <3>1. pc' \in {"params", "done"}
      BY <2>1 DEF Restart
    <3> QED
      BY <1>3, <3>1 DEF RowsInv, Running, Streaming, Over
  <2>2. CASE Stream(valid, ready) \/ (valid = FALSE /\ (Finish(ready) \/ WriteCtl(ready)))
    <3>1. Over'
      BY <1>1, <1>6, <2>2, OverStreams, OverRests
    <3>2. UNCHANGED <<jobs, image>> /\ PIPELINE(ready)
      BY <2>2 DEF Stream, Finish, WriteCtl, hostVars, AccClock, PROCESSING
    <3>3. row' \in {row, row + 1}
      <4>1. CASE Stream(valid, ready)
        BY <1>1, <1>6, <4>1, RowMoves DEF Over
      <4>2. CASE Finish(ready) \/ WriteCtl(ready)
        BY <4>2 DEF Finish, WriteCtl, sourceVars
      <4> QED
        BY <2>2, <4>1, <4>2
    <3>4. TakenFor(At3)' /\ (out_width > 2 \/ RowsApart)'
      BY <1>1, <1>6, <3>1, <3>2, <3>3, RowsDrain
    <3>5. ~Running'
      BY <3>1 DEF Over, Quiet, Running, Waiting, Working, Reading, Processing
    <3> QED
      BY <1>3, <3>4, <3>5 DEF RowsInv
  <2> QED
    BY <1>2, <1>6, <2>1, <2>2 DEF Over, WriteParams, Idle
<1>7. CASE Done
  <2>1. pc' = "done"
    BY <1>2, <1>7 DEF Done, Stream, WriteParams, Finish, WriteCtl, Restart, Idle, tx_done, hostVars
  <2> QED
    BY <1>3, <2>1 DEF RowsInv, Running, Streaming, Over
<1> QED
  BY <1>1, <1>4, <1>5, <1>6, <1>7 DEF TBInv

\* The rows of the abstract specification are those of the software model.
LEMMA RowsTerms ==
  /\ Rows!out_height = out_height
  /\ \A v : Rows!top(v) = Row(v) /\ Rows!bottom(v) = NextRow(v)
<1>1. Rows!out_height = out_height
  BY DEF Rows!out_height, Rows!output_size, Rows!SCALE_ONE, out_height, Model!output_size, Model!SCALE_ONE
<1>2. Rows!increment(Job.sy) = y_inc
  BY DEF Rows!increment, Rows!to_fixed_point, Rows!SCALE_ONE, y_inc, Model!increment, Model!to_fixed_point,
     Model!SCALE_ONE
<1>3. ASSUME NEW v
      PROVE  Rows!top(v) = Row(v)
  BY <1>2 DEF Rows!top, Rows!GET_INT, Rows!ONE_NFRAC, Row, Model!GET_INT, Model!ONE_NFRAC
<1>4. ASSUME NEW v
      PROVE  Rows!bottom(v) = NextRow(v)
  BY <1>3 DEF Rows!bottom, Rows!saturated_next, NextRow, Model!saturated_next
<1> QED
  BY <1>1, <1>3, <1>4

\* Every job is one of the abstract specification.
IsListed == Job \in UNION {{jl[i] : i \in 1 .. Len(jl)} : jl \in JobLists}

LEMMA JobOfRows ==
  HostInv /\ jobs \in JobLists => IsListed
<1> SUFFICES ASSUME HostInv, jobs \in JobLists
             PROVE  Job \in UNION {{jl[i] : i \in 1 .. Len(jl)} : jl \in JobLists}
  BY DEF IsListed
<1>1. image \in Nat /\ image <= Len(jobs) /\ Len(jobs) \in Nat \ {0}
  BY JobIsHandled DEF HostInv
<1>2. PICK i \in 1 .. Len(jobs) : Job = jobs[i]
  <2>1. CASE image < Len(jobs)
    <3>1. image + 1 \in 1 .. Len(jobs)
      BY <1>1, <2>1
    <3> QED
      BY <2>1, <3>1 DEF Job
  <2>2. CASE ~(image < Len(jobs))
    <3>1. image \in 1 .. Len(jobs)
      BY <1>1, <2>2
    <3> QED
      BY <2>2, <3>1 DEF Job
  <2> QED
    BY <2>1, <2>2
<1> QED
  BY <1>2

\* No row is taken beyond the two that the next output row is computed from.
LEMMA TakesInTime ==
  ASSUME HostInv, Running \/ Over, out_width > 2 \/ RowsApart,
         NEW valid \in BOOLEAN, NEW ready \in BOOLEAN, Stream(valid, ready), row' # row
  PROVE  Rows!CanTake /\ row' = row + 1
<1>1. /\ JobFacts /\ BufferType /\ PipelineInv /\ out_height \in Nat
      /\ BufferEdge(valid, w_ram_rd, c_ram_rd_addr, RAM_RESET_PROC)
  BY JobIsHandled, StreamStep DEF Running, Streaming, Over, JobFacts
<1>2. row \in Nat /\ row < Job.height /\ row' = row + 1 /\ w_wr(valid) /\ source_last
  BY <1>1, RowMoves
<1>3. rx_y \in Nat
  BY <1>1 DEF PipelineInv
<1>4. SUFFICES ASSUME rx_y < out_height - 1
               PROVE  row <= Row(rx_y + 1) + 1
  BY <1>2, RowsTerms DEF Rows!CanTake
<1>5. CASE Running
  <2>1. Waiting
    <3>1. ~Working
      <4> SUFFICES ASSUME Working PROVE FALSE
        OBVIOUS
      <4>1. row' = row
        BY <1>1, <1>5, WorkingBuffer DEF Running
      <4> QED
        BY <1>2, <4>1
    <3> QED
      BY <1>5, <3>1 DEF Running
  <2>2. row <= Row(c_y_out) + 1
    <3>1. ~Both
      BY <1>2 DEF w_wr, w_asi_input_data_ready, Both
    <3>2. Row(c_y_out) >= row \/ Row(c_y_out) = row - 1
      BY <2>1, <3>1 DEF Waiting
    <3>3. Row(c_y_out) \in Nat
      BY <1>1, <1>5, Geometry DEF Running, Streaming, PositionInv
    <3> QED
      BY <1>2, <3>2, <3>3
  <2>3. c_y_out \in Nat /\ rx_y <= c_y_out /\ c_y_out <= rx_y + 1
    BY <1>1, <1>5, <2>1, OneRowBehind DEF Running, Streaming, Waiting
  <2>4. Row(c_y_out) <= Row(rx_y + 1) /\ Row(c_y_out) \in Nat /\ Row(rx_y + 1) \in Nat
    <3>1. c_y_out = rx_y \/ c_y_out = rx_y + 1
      BY <1>3, <2>3
    <3>2. Row(rx_y) <= Row(rx_y + 1) /\ Row(rx_y) \in Nat /\ Row(rx_y + 1) \in Nat
      <4>1. JobFacts /\ rx_y \in Nat /\ rx_y + 1 \in Nat
        BY <1>1, <1>3
      <4>2. \A v \in Nat : Row(v) \in Nat
        BY <4>1, Geometry
      <4>3. \A v \in Nat : Row(v) <= Row(v + 1)
        BY <4>1, Growing
      <4> QED
        BY <4>1, <4>2, <4>3
    <3> QED
      BY <3>1, <3>2
  <2> QED
    BY <1>2, <2>2, <2>4
<1>6. CASE Over
  BY <1>1, <1>3, <1>4, <1>6, OneRowBehind DEF Over
<1> QED
  BY <1>5, <1>6

\* No row is delivered before the rows it is computed from have been taken.
LEMMA DeliversInTime ==
  ASSUME HostInv, Running \/ Over, out_width > 2 \/ RowsApart, TakenFor(At3),
         NEW ready \in BOOLEAN, Sink(ready), rx_y' # rx_y
  PROVE  Rows!CanDeliver /\ rx_y' = rx_y + 1
<1>1. /\ JobFacts /\ BufferType /\ PipelineInv /\ out_height \in Nat /\ row \in Nat
  <2>1. JobFacts
    BY JobIsHandled
  <2>2. CASE Running
    BY <2>1, <2>2 DEF Running, Streaming, JobFacts, BufferType
  <2>3. CASE Over
    BY <2>1, <2>3 DEF Over, JobFacts, BufferType
  <2> QED
    BY <2>2, <2>3
<1>2. rx_y' = rx_y + 1 /\ r_valid[0] /\ rx_x = out_width - 1 /\ rx_y \in Nat
  BY <1>1 DEF Sink, aso_valid, PipelineInv
<1>3. PICK y, x \in Nat : At3 = <<y, x>> /\ x <= out_width - 1 /\ y <= out_height
  BY <1>1 DEF Running, Streaming, PositionInv, Over, JobFacts
<1>4. rx_y < y
  BY <1>1, <1>2, <1>3, OneRowBehind DEF JobFacts
<1>5. rx_y \in 0 .. out_height - 1 /\ rx_y < At3[1]
  BY <1>1, <1>2, <1>3, <1>4
<1>6. row >= TopRow(rx_y) + 2
  BY <1>5 DEF TakenFor
<1>7. row > NextRow(rx_y)
  <2>1. Row(rx_y) \in 0 .. Job.height - 1 /\ Job.height \in Nat
    BY <1>1, <1>5, Geometry DEF JobFacts
  <2> QED
    BY <1>1, <1>6, <2>1 DEF TopRow, NextRow, Model!saturated_next
<1> QED
  BY <1>2, <1>3, <1>4, <1>7, RowsTerms DEF Rows!CanDeliver, Rows!OutputComplete

\* An edge while source and sink run is a row taken, one delivered, both, or neither.
LEMMA StreamIsRows ==
  ASSUME HostInv, Running \/ Over, out_width > 2 \/ RowsApart, TakenFor(At3),
         NEW valid \in BOOLEAN, NEW ready \in BOOLEAN, Stream(valid, ready)
  PROVE  Rows!RowsNext \/ UNCHANGED Rows!rowVars
<1>1. UNCHANGED <<jobs, image>> /\ Sink(ready)
  BY StreamStep
<1>2. Job' = Job
  BY <1>1, SameJob
<1>3. row' # row => Rows!CanTake /\ row' = row + 1
  BY TakesInTime
<1>4. rx_y' # rx_y => Rows!CanDeliver /\ rx_y' = rx_y + 1
  BY <1>1, DeliversInTime
<1> QED
  BY <1>2, <1>3, <1>4 DEF Rows!RowsNext, Rows!Take, Rows!Deliver, Rows!TakeAndDeliver, Rows!rowVars

\* Every edge is a step of the row pipeline, or none.
LEMMA EdgeIsRows ==
  ASSUME TBInv, TBInv', CleanInv, RowsInv, RowsInv',
         NEW valid \in BOOLEAN, NEW ready \in BOOLEAN, Edge(valid, ready)
  PROVE  Rows!RowsNext \/ UNCHANGED Rows!rowVars
<1>1. HostInv /\ HostInv' /\ ~Lost /\ JobFacts
  BY JobIsHandled DEF TBInv, CleanInv
<1>2. \/ Stream(valid, ready)
      \/ valid = FALSE /\ (WriteParams(ready) \/ Finish(ready) \/ WriteCtl(ready) \/ Restart(ready) \/ Idle(ready))
  BY DEF Edge
<1>3. CASE Stream(valid, ready)
  <2>1. Running \/ Over
    BY <1>1, <1>3 DEF TBInv, Programming, Done, Stream
  <2> QED
    BY <1>1, <1>3, <2>1, StreamIsRows DEF RowsInv
<1>4. CASE WriteParams(ready) \/ Finish(ready) \/ WriteCtl(ready) \/ Idle(ready)
  <2>1. UNCHANGED <<jobs, image, row, col>> /\ (Sink(ready) \/ UNCHANGED rx_y)
    BY <1>4 DEF WriteParams, Finish, WriteCtl, Idle, hostVars, sourceVars
  <2>2. ~r_valid[0] \/ UNCHANGED rx_y
    <3>1. CASE WriteParams(ready)
      BY <1>1, <3>1 DEF TBInv, Programming, Running, Streaming, Over, Done, WriteParams, NothingValid, Stages
    <3>2. CASE Finish(ready)
      <4>1. Over /\ rx_y = out_height
        BY <1>1, <3>2, NotYetDone DEF TBInv, Programming, Done, Finish, tx_done, rx_done
      <4>2. NothingValid
        <5>1. 0 \in Nat /\ out_height \in Nat
          BY <1>1 DEF JobFacts
        <5> QED
          BY <1>1, <4>1, <5>1, InOrder DEF Over
      <4> QED
        BY <4>2 DEF NothingValid, Stages
    <3>3. CASE WriteCtl(ready)
      BY <1>1, <3>3 DEF TBInv, Programming, Running, Streaming, Over, Done, WriteCtl, NothingValid, Stages
    <3>4. CASE Idle(ready)
      BY <3>4 DEF Idle
    <3> QED
      BY <1>4, <3>1, <3>2, <3>3, <3>4
  <2>3. UNCHANGED <<Job, row, rx_y>>
    BY <2>1, <2>2, SameJob DEF Sink, aso_valid
  <2> QED
    BY <2>3 DEF Rows!rowVars
<1>5. CASE Restart(ready)
  <2>1. Over /\ pc = "restart"
    BY <1>1, <1>5 DEF TBInv, Programming, Running, Streaming, Done, Restart
  <2>2. row = Job.height /\ rx_y = out_height
    <3>1. PipelineInv /\ NothingValid /\ row = Job.height /\ At3 = <<out_height, 0>> /\ (out_width > 2 \/ RowsApart)
      BY <2>1 DEF Over, RowsInv
    <3> QED
      BY <1>1, <3>1, OneRowBehind
  <2>3. row' = 0 /\ rx_y' = 0
    BY <1>5 DEF Restart
  <2>4. IsListed'
    <3>1. (HostInv /\ jobs \in JobLists => IsListed)'
      BY JobOfRows, PTL
    <3> QED
      BY <1>1, <3>1 DEF RowsInv
  <2> QED
    BY <2>2, <2>3, <2>4, RowsTerms DEF IsListed, Rows!RowsNext, Rows!RestartRows, Rows!OutputComplete
<1> QED
  BY <1>2, <1>3, <1>4, <1>5

\* The rows are in order at the start ...
LEMMA RowsInvInit ==
  ASSUME TBInit, RowByRow(jobs)
  PROVE  RowsInv
  BY DEF TBInit, RowsInv, Running, Streaming, Over

\* ... and when nothing happens.
LEMMA RowsInvStutters ==
  ASSUME RowsInv, UNCHANGED tbVars
  PROVE  RowsInv'
<1>1. /\ UNCHANGED <<jobs, image, row, stall, c_x_out, r_valid, r_sop, current_state, r_read_status, rx_y, rx_x>>
  BY DEF tbVars, hostVars, sourceVars, accVars, sinkVars
<1>2. out_width' = out_width /\ out_height' = out_height /\ \A v : TopRow(v)' = TopRow(v)
  BY <1>1, SameJob, SameTopRow
<1>3. At3' = At3
  BY <1>1, <1>2 DEF At0, At1, At2, At3, NextPos
<1>4. TakenFor(At3)' = TakenFor(At3)
  BY <1>1, <1>2, <1>3 DEF TakenFor
<1>5. RowsApart' = RowsApart /\ Since' = Since /\ RowByRow(jobs)' = RowByRow(jobs)
  BY <1>1 DEF RowsApart, Since, RowByRow
<1> QED
  BY <1>1, <1>2, <1>4, <1>5, SamePhase DEF RowsInv

\* The accelerator implements the row pipeline: it takes the rows of the input, never beyond the
\* two that the next output row is computed from, it delivers an output row behind the rows it is
\* computed from, and is ready for the next image after a restart.
THEOREM RowsAreImplemented ==
  (\A jl \in JobLists : Handled(jl) /\ NeverLost(jl) /\ RowByRow(jl)) => (TBSpec => ImplementsRows)
<1> SUFFICES ASSUME \A jl \in JobLists : Handled(jl) /\ NeverLost(jl) /\ RowByRow(jl)
             PROVE  TBSpec => ImplementsRows
  OBVIOUS
<1>1. TBInit => RowsInv /\ Rows!RowsInit
  <2> SUFFICES ASSUME TBInit PROVE RowsInv /\ Rows!RowsInit
    OBVIOUS
  <2>1. jobs \in JobLists /\ row = 0 /\ rx_y = 0 /\ HostInv /\ RowsInv
    BY InvInit, RowsInvInit DEF TBInit, TBInv
  <2> QED
    BY <2>1, JobOfRows DEF IsListed, Rows!RowsInit
<1>2. TBInv /\ CleanInv /\ RowsInv /\ [TBNext]_tbVars => RowsInv'
  BY RowsInvKept, RowsInvStutters DEF TBNext
<1>3. TBInv /\ TBInv' /\ CleanInv /\ RowsInv /\ RowsInv' /\ [TBNext]_tbVars => [Rows!RowsNext]_(Rows!rowVars)
  <2>1. ASSUME UNCHANGED tbVars
        PROVE  UNCHANGED Rows!rowVars
    <3>1. UNCHANGED <<jobs, image, row, rx_y>>
      BY <2>1 DEF tbVars, hostVars, sourceVars, sinkVars
    <3> QED
      BY <3>1, SameJob DEF Rows!rowVars
  <2> QED
    BY <2>1, EdgeIsRows DEF TBNext
<1>4. TBSpec => [](TBInv /\ CleanInv)
  BY NothingIsLost
<1> QED
  BY <1>1, <1>2, <1>3, <1>4, PTL DEF TBSpec, ImplementsRows, Rows!RowsSpec

-----------------------------------------------------------------------------
(* Progress *)

\* Positions and pixels by their number in the order of the streams.
Position == Nat \X (0 .. out_width - 1)
Number(p) == p[1] * out_width + p[2]
Taken == row * Job.width + col

\* Where the accelerator is with a pixel: it takes a clock to see the pair of rows, three to read
\* the group, and one to process it.
Stage == CASE current_state = "st_wait" -> 0
           [] current_state = "st_read" -> 1 + r_read_status
           [] OTHER -> 4

\* What has been done of the image: the pixels taken, the pixels put into the pipeline, five clocks
\* each, and the stages they have moved on in it, one each.
Pixels == Number(At0) + Number(At1) + Number(At2)
Spent == Taken + Pixels + 5 * Number(At3) + Stage
Limit == Job.height * Job.width + 8 * (out_height * out_width)

\* Where the host is with a job.
Phase == CASE pc = "params" -> param [] pc = "run" -> 7 [] pc = "ctl" -> 8 [] pc = "restart" -> 9 [] OTHER -> 10

SamePlace == image' = image /\ Phase' = Phase

\* The next job, the next phase of the job, or more of the image.
MovesOn ==
  \/ image' = image + 1
  \/ image' = image /\ Phase' = Phase + 1
  \/ SamePlace /\ pc = "run" /\ Spent' > Spent

FallsBack == ~MovesOn /\ ~(SamePlace /\ (pc = "run" => Spent' >= Spent))

\* The accelerator only waits for a pair of rows if it has not been given the last row.
PairComes == /\ HasPair(jobs)
             /\ Running /\ current_state = "st_wait" /\ ~Both => Row(c_y_out) < Job.height - 1

\* The next position has the next number.
LEMMA NextNumber ==
  ASSUME JobFacts, NEW p \in Position
  PROVE  /\ NextPos(p) \in Position /\ Number(NextPos(p)) = Number(p) + 1 /\ Number(p) \in Nat
<1> DEFINE w == out_width
<1>1. w \in Nat /\ w > 1
  BY DEF JobFacts
<1>2. PICK y \in Nat, x \in 0 .. w - 1 : p = <<y, x>>
  BY DEF Position
<1>3. y * w \in Nat /\ (y + 1) * w = y * w + w
  BY <1>1
<1> DEFINE yw == y * w
           y1w == (y + 1) * w
<1>4. Number(p) = yw + x
  BY <1>2 DEF Number
<1>5. CASE x = w - 1
  <2>1. NextPos(p) = <<y + 1, 0>>
    BY <1>2, <1>5 DEF NextPos
  <2>2. Number(NextPos(p)) = y1w + 0
    BY <2>1 DEF Number
  <2>3. NextPos(p) \in Position
    BY <1>1, <2>1 DEF Position
  <2> HIDE DEF yw, y1w, w
  <2> QED
    BY <1>1, <1>3, <1>4, <1>5, <2>2, <2>3 DEF yw, y1w
<1>6. CASE x # w - 1
  <2>1. NextPos(p) = <<y, x + 1>>
    BY <1>2, <1>6 DEF NextPos
  <2>2. Number(NextPos(p)) = yw + (x + 1)
    BY <2>1 DEF Number
  <2>3. NextPos(p) \in Position
    BY <1>1, <1>6, <2>1 DEF Position
  <2> HIDE DEF yw, w
  <2> QED
    BY <1>1, <1>3, <1>4, <2>2, <2>3 DEF yw
<1> QED
  BY <1>5, <1>6

\* The pixels in the pipeline are consecutive.
LEMMA Numbers ==
  ASSUME JobFacts, PipelineInv
  PROVE  /\ At0 \in Position /\ At1 \in Position /\ At2 \in Position /\ At3 \in Position
         /\ Number(At0) \in Nat /\ Number(At1) \in Nat /\ Number(At2) \in Nat /\ Number(At3) \in Nat
         /\ Number(At1) = Number(At0) + (IF r_valid[0] THEN 1 ELSE 0)
         /\ Number(At2) = Number(At1) + (IF r_valid[1] THEN 1 ELSE 0)
         /\ Number(At3) = Number(At2) + (IF r_valid[2] THEN 1 ELSE 0)
<1>1. At0 \in Position
  BY DEF At0, PipelineInv, Position
<1>2. At1 \in Position /\ Number(At1) = Number(At0) + (IF r_valid[0] THEN 1 ELSE 0) /\ Number(At0) \in Nat
  BY <1>1, NextNumber DEF At1
<1>3. At2 \in Position /\ Number(At2) = Number(At1) + (IF r_valid[1] THEN 1 ELSE 0) /\ Number(At1) \in Nat
  BY <1>2, NextNumber DEF At2
<1>4. At3 \in Position /\ Number(At3) = Number(At2) + (IF r_valid[2] THEN 1 ELSE 0) /\ Number(At2) \in Nat
  BY <1>3, NextNumber DEF At3
<1>5. Number(At3) \in Nat
  BY <1>4, NextNumber
<1> QED
  BY <1>1, <1>2, <1>3, <1>4, <1>5

\* With the ready of the sink each stage is handed the position of the one before it.
LEMMA PositionsShift ==
  ASSUME JobFacts, PipelineInv, UNCHANGED <<jobs, image>>, NEW ready \in BOOLEAN, PIPELINE(ready), Sink(ready)
  PROVE  /\ ready => At0' = At1 /\ At1' = At2 /\ At2' = At3
         /\ ~ready => At0' = At0 /\ At1' = At1 /\ At2' = At2 /\ At3' = At3
<1>1. out_width' = out_width /\ out_width \in Nat /\ out_width > 1
  BY SameJob DEF JobFacts
<1>2. \A p : NextPos(p)' = NextPos(p)
  BY <1>1 DEF NextPos
<1>3. rx_y \in Nat /\ rx_x \in 0 .. out_width - 1 /\ r_valid \in [Stages -> BOOLEAN]
  BY DEF PipelineInv
<1>4. CASE ~ready
  <2>1. UNCHANGED <<r_valid, rx_y, rx_x>>
    BY <1>4 DEF PIPELINE, Sink
  <2>2. At0' = At0
    BY <2>1 DEF At0
  <2>3. At1' = At1
    BY <1>2, <2>1, <2>2 DEF At1
  <2>4. At2' = At2
    BY <1>2, <2>1, <2>3 DEF At2
  <2>5. At3' = At3
    BY <1>2, <2>1, <2>4 DEF At3
  <2> QED
    BY <1>1, <1>4, <2>2, <2>3, <2>4, <2>5 
<1>5. CASE ready
  <2>1. r_valid'[0] = r_valid[1] /\ r_valid'[1] = r_valid[2]
    BY <1>3, <1>5, PipelineShifts
  <2>2. At0' = At1
    BY <1>3, <1>5 DEF At0, At1, NextPos, Sink, aso_valid
  <2>3. At1' = At2
    BY <1>2, <2>1, <2>2 DEF At1, At2
  <2>4. At2' = At3
    BY <1>2, <2>1, <2>3 DEF At2, At3
  <2> QED
    BY <1>1, <1>5, <2>2, <2>3, <2>4 DEF Number
<1> QED
  BY <1>4, <1>5

\* Pixels are taken one by one, never given back.
LEMMA TakenGrows ==
  ASSUME JobFacts, BufferType, pc = "run", NEW valid \in BOOLEAN, valid => sending, Source(valid),
         UNCHANGED <<jobs, image>>
  PROVE  /\ Taken \in Nat
         /\ Taken' = Taken + (IF w_wr(valid) THEN 1 ELSE 0)
<1> DEFINE w == Job.width
<1>1. row \in Nat /\ col \in Nat /\ w \in Nat /\ Job' = Job
  BY SameJob DEF BufferType, JobFacts
<1> HIDE DEF w
<1>2. row * w \in Nat /\ (row + 1) * w = row * w + w
  BY <1>1
<1>3. CASE w_wr(valid) /\ col = w - 1
  <2>1. row' = row + 1 /\ col' = 0
    BY <1>3, SourceMoves DEF w
  <2> QED
    BY <1>1, <1>2, <1>3, <2>1 DEF Taken, w
<1>4. CASE w_wr(valid) /\ col # w - 1
  <2>1. row' = row /\ col' = col + 1
    BY <1>4, SourceMoves DEF w
  <2> QED
    BY <1>1, <1>2, <1>4, <2>1 DEF Taken, w
<1>5. CASE ~w_wr(valid)
  <2>1. row' = row /\ col' = col
    BY <1>5, SourceMoves
  <2> QED
    BY <1>1, <1>2, <1>5, <2>1 DEF Taken, w
<1> QED
  BY <1>3, <1>4, <1>5

-----------------------------------------------------------------------------
\* The job in hand has a pair of rows.
LEMMA JobHasPair ==
  HostInv /\ HasPair(jobs) => Job.height > 1
<1> SUFFICES ASSUME HostInv, HasPair(jobs) PROVE Job.height > 1
  OBVIOUS
<1>1. image \in Nat /\ image <= Len(jobs) /\ Len(jobs) \in Nat \ {0}
  BY JobIsHandled DEF HostInv
<1>2. (IF image < Len(jobs) THEN image + 1 ELSE image) \in 1 .. Len(jobs)
  BY <1>1
<1> QED
  BY <1>2 DEF Job, HasPair

\* The running accelerator does not wait for a row behind the last one.
LEMMA PairComesRunning ==
  ASSUME HostInv, Running, PairComes, NEW valid \in BOOLEAN, NEW ready \in BOOLEAN, Stream(valid, ready)
  PROVE  PairComes'
<1>1. /\ UNCHANGED <<jobs, image>> /\ current_state' = NEXT_STATE_PROCESS(ready)
      /\ BufferEdge(valid, w_ram_rd, c_ram_rd_addr, RAM_RESET_PROC)
  BY StreamStep
<1>2. HasPair(jobs')
  BY <1>1 DEF PairComes
<1>3. Job' = Job /\ \A v : Row(v)' = Row(v)
  BY <1>1, SameJob
<1>4. Streaming /\ (Waiting \/ Working)
  BY DEF Running
<1>5. CASE Waiting
  <2>1. current_state = "st_wait" /\ UNCHANGED <<c_x_out, c_y_out>>
    BY <1>4, <1>5, RestingStep DEF Waiting
  <2>2. current_state' = "st_wait" => ~Both
    BY <1>1, <2>1 DEF NEXT_STATE_PROCESS, Both
  <2>3. Row(c_y_out)' = Row(c_y_out)
    BY <1>1, <2>1, SamePosition
  <2> QED
    BY <1>2, <1>3, <2>1, <2>2, <2>3 DEF PairComes
<1>6. CASE Working /\ ~(Processing /\ ready)
  <2>1. current_state' # "st_wait"
    BY <1>1, <1>6 DEF NEXT_STATE_PROCESS, Working, Reading, Processing, w_proc_flag
  <2> QED
    BY <1>2, <2>1 DEF PairComes
<1>7. CASE Working /\ Processing /\ ready
  <2>1. /\ c_x_out # out_width - 1 => current_state' # "st_wait"
        /\ c_x_out = out_width - 1 /\ c_y_out # out_height - 1 => c_y_out' = c_y_out + 1
        /\ LastPixel => r_reinit'
    BY <1>4, <1>7, ProcessedStep
  <2>2. ~Leaving => Both'
    BY <1>1, <1>4, <1>7, WorkingBuffer
  <2>3. CASE LastPixel
    BY <1>2, <2>1, <2>3 DEF PairComes, Running, Streaming
  <2>4. CASE ~LastPixel /\ Needed
    <3>1. c_y_out' = c_y_out + 1 /\ Row(c_y_out + 1) < Job.height - 1
      BY <2>1, <2>4 DEF LastPixel, Needed
    <3>2. Row(c_y_out)' = Row(c_y_out + 1)
      BY <1>1, <3>1, SameJob DEF Row, y_inc
    <3> QED
      BY <1>2, <1>3, <3>1, <3>2 DEF PairComes
  <2>5. CASE ~LastPixel /\ ~Needed
    BY <1>2, <2>2, <2>5 DEF PairComes, Leaving
  <2> QED
    BY <2>3, <2>4, <2>5
<1> QED
  BY <1>4, <1>5, <1>6, <1>7

\* Nor does it for the first output row of a job.
LEMMA PairComesProgrammed ==
  ASSUME HostInv, Programming, PairComes, NEW ready \in BOOLEAN, WriteParams(ready)
  PROVE  PairComes'
<1>1. Quiet /\ c_y_out = 0 /\ ~r_reinit /\ UNCHANGED <<jobs, image>>
  BY DEF Programming, AtOrigin, WriteParams
<1>2. c_y_out' = 0
  BY <1>1, QuietStep DEF WriteParams
<1>3. JobFacts /\ Job.height > 1 /\ Job.height \in Nat
  BY JobIsHandled, JobHasPair DEF PairComes, JobFacts
<1>4. Row(c_y_out)' = 0 /\ Job' = Job
  <2>1. Row(0)' = 0 /\ y_inc' = y_inc /\ Job' = Job
    BY <1>1, <1>3, Geometry, SameJob
  <2> QED
    BY <1>2, <2>1 DEF Row, y_inc
<1> QED
  BY <1>1, <1>3, <1>4 DEF PairComes

\* Behind its image the accelerator is not running.
LEMMA OverNotRunning ==
  HostInv /\ Over => ~Running
<1> SUFFICES ASSUME HostInv, Over, Running PROVE FALSE
  OBVIOUS
<1>1. out_height = c_y_out /\ c_y_out \in 0 .. out_height - 1 /\ out_height \in Nat
  BY JobIsHandled DEF Over, Running, Streaming, PositionInv, JobFacts
<1> QED
  BY <1>1

\* A pair of rows comes on every edge.
LEMMA PairComesKept ==
  ASSUME TBInv, CleanInv, PairComes, NEW valid \in BOOLEAN, NEW ready \in BOOLEAN, Edge(valid, ready)
  PROVE  PairComes'
<1>1. HostInv /\ (Programming \/ Running \/ Over \/ Done)
  BY DEF TBInv, CleanInv
<1>2. HostInv'
  BY ReadStatus, HostKept, <1>1
<1>3. HasPair(jobs')
  <2>1. jobs' = jobs
    BY DEF Edge, Stream, WriteParams, Finish, WriteCtl, Restart, Idle, hostVars
  <2> QED
    BY <2>1 DEF PairComes
<1>4. CASE Programming
  <2>1. WriteParams(ready)
    BY <1>4 DEF Programming, Edge, Stream, Finish, WriteCtl, Restart, Idle, tx_done
  <2> QED
    BY <1>1, <1>4, <2>1, PairComesProgrammed
<1>5. CASE Running
  <2>1. Stream(valid, ready)
    <3>1. ~rx_done /\ pc = "run"
      BY <1>1, <1>5, NotYetDone DEF Running, Streaming
    <3> QED
      BY <3>1 DEF Edge, WriteParams, Finish, WriteCtl, Restart, Idle
  <2> QED
    BY <1>1, <1>5, <2>1, PairComesRunning
<1>6. CASE Over
  <2>1. Over' \/ Programming' \/ Done'
    BY <1>1, <1>6, OverStreams, OverRests, OverRestarts DEF Edge, WriteParams, Idle, Over
  <2>2. HostInv' /\ Over' => ~Running'
    BY OverNotRunning, PTL
  <2>3. ~Running'
    BY <1>2, <2>1, <2>2 DEF Programming, Done, Running, Streaming
  <2> QED
    BY <1>3, <2>3 DEF PairComes
<1>7. CASE Done
  <2>1. pc' = "done"
    BY <1>7 DEF Done, Edge, Stream, WriteParams, Finish, WriteCtl, Restart, Idle, tx_done, hostVars
  <2> QED
    BY <1>3, <2>1 DEF PairComes, Running, Streaming
<1> QED
  BY <1>1, <1>4, <1>5, <1>6, <1>7

-----------------------------------------------------------------------------
\* The pixels in the pipeline move on with the ready of the sink.
LEMMA PixelsMove ==
  ASSUME JobFacts, PipelineInv, UNCHANGED <<jobs, image>>, NEW ready \in BOOLEAN, PIPELINE(ready), Sink(ready)
  PROVE  /\ Pixels \in Nat /\ Number(At3) \in Nat /\ Number(At0) \in Nat /\ Number(At0) <= Number(At3)
         /\ (NothingValid \/ Number(At0) < Number(At3))
         /\ Pixels' = IF ready THEN Pixels + (Number(At3) - Number(At0)) ELSE Pixels
<1>1. /\ ready => At0' = At1 /\ At1' = At2 /\ At2' = At3
      /\ ~ready => At0' = At0 /\ At1' = At1 /\ At2' = At2 /\ At3' = At3
  BY PositionsShift
<1>2. out_width' = out_width
  BY SameJob
<1>3. /\ ready => Number(At0)' = Number(At1) /\ Number(At1)' = Number(At2) /\ Number(At2)' = Number(At3)
      /\ ~ready => Number(At0)' = Number(At0) /\ Number(At1)' = Number(At1) /\ Number(At2)' = Number(At2)
  BY <1>1, <1>2 DEF Number
<1>4. /\ Number(At0) \in Nat /\ Number(At1) \in Nat /\ Number(At2) \in Nat /\ Number(At3) \in Nat
      /\ Number(At1) = Number(At0) + (IF r_valid[0] THEN 1 ELSE 0)
      /\ Number(At2) = Number(At1) + (IF r_valid[1] THEN 1 ELSE 0)
      /\ Number(At3) = Number(At2) + (IF r_valid[2] THEN 1 ELSE 0)
  BY Numbers
<1>5. NothingValid \/ r_valid[0] \/ r_valid[1] \/ r_valid[2]
  BY DEF NothingValid, PipelineInv, Stages
<1> QED
  BY <1>3, <1>4, <1>5 DEF Pixels

\* While the image is computed, no edge undoes anything, and one on which the source presents its
\* pixel and the sink takes one does something.
LEMMA RunningMoves ==
  ASSUME HostInv, Running, PairComes, NEW valid \in BOOLEAN, NEW ready \in BOOLEAN, Stream(valid, ready)
  PROVE  /\ Spent' >= Spent
         /\ valid = sending /\ ready => Spent' > Spent
<1>1. /\ UNCHANGED <<jobs, image>> /\ current_state' = NEXT_STATE_PROCESS(ready) /\ pc = "run"
      /\ PIPELINE(ready) /\ Sink(ready) /\ READ_DATA_BUFFERS
  BY StreamStep
<1>2. JobFacts /\ BufferType /\ PipelineInv /\ Streaming /\ (Waiting \/ Working)
  BY JobIsHandled DEF Running, Streaming
<1> DEFINE q == Number(At3)
           q0 == Number(At0)
<1>3. /\ Pixels \in Nat /\ q \in Nat /\ q0 \in Nat /\ q0 <= q
      /\ Pixels' = IF ready THEN Pixels + (q - q0) ELSE Pixels
  BY <1>1, <1>2, PixelsMove
<1>4. Taken \in Nat /\ Taken' = Taken + (IF w_wr(valid) THEN 1 ELSE 0)
  BY <1>1, <1>2, TakenGrows DEF Stream
<1>5. Spent = Taken + Pixels + 5 * q + Stage /\ Spent' = Taken' + Pixels' + 5 * q' + Stage'
  BY DEF Spent
<1>6. Stage = IF current_state = "st_wait" THEN 0 ELSE IF current_state = "st_read" THEN 1 + r_read_status ELSE 4
  BY DEF Stage
<1>7. Stage' = IF current_state' = "st_wait" THEN 0 ELSE IF current_state' = "st_read" THEN 1 + r_read_status' ELSE 4
  BY DEF Stage
<1>8. ~(ready /\ current_state = "st_process") => q' = q
  <2>1. ASSUME ~(ready /\ current_state = "st_process")
        PROVE  q' = q
    <3>1. UNCHANGED <<c_x_out, c_y_out>> /\ At3' = <<c_y_out', c_x_out'>> /\ At3 = <<c_y_out, c_x_out>>
      BY <1>2, <2>1, RestingStep DEF Streaming
    <3>2. out_width' = out_width
      BY <1>1, SameJob
    <3> QED
      BY <3>1, <3>2 DEF Number
  <2> QED
    BY <2>1
<1> HIDE DEF q, q0
<1>9. CASE Waiting
  <2>1. current_state = "st_wait" /\ Stage = 0
    BY <1>6, <1>9 DEF Waiting
  <2>2. Stage' = IF Both THEN 1 ELSE 0
    <3>1. r_read_status' = 0
      BY <1>1, <1>9, <2>1 DEF READ_DATA_BUFFERS, Waiting
    <3> QED
      BY <1>1, <1>7, <2>1, <3>1 DEF NEXT_STATE_PROCESS, Both
  <2>3. ~Both /\ valid = sending => w_wr(valid)
    <3>1. ASSUME ~Both PROVE row < Job.height
      <4>3. Row(c_y_out) \in Nat /\ row \in Nat
        BY <1>2, Geometry DEF Streaming, PositionInv, BufferType, JobFacts
      <4>1. row <= Row(c_y_out) + 1
        BY <1>9, <3>1, <4>3 DEF Waiting
      <4>2. Row(c_y_out) < Job.height - 1
        BY <2>1, <3>1 DEF PairComes
      <4> QED
        BY <1>2, <4>3, <4>1, <4>2 DEF BufferType, JobFacts
    <3> QED
      BY <1>1, <3>1 DEF w_wr, w_asi_input_data_ready, Both, sending
  <2> QED
    BY <1>3, <1>4, <1>5, <1>8, <2>1, <2>2, <2>3
<1>10. CASE Working /\ Reading
  <2>1. current_state = "st_read" /\ r_read_status \in 0 .. 2
    BY <1>10 DEF Reading
  <2>2. Stage = 1 + r_read_status /\ Stage' = Stage + 1
    BY <1>1, <1>6, <1>7, <2>1 DEF NEXT_STATE_PROCESS, read_done, READ_DATA_BUFFERS
  <2> QED
    BY <1>3, <1>4, <1>5, <1>8, <2>1, <2>2
<1>11. CASE Working /\ Processing
  <2>1. current_state = "st_process" /\ r_read_status = 0 /\ Stage = 4
    BY <1>6, <1>11 DEF Processing
  <2>2. r_read_status' = 0
    BY <1>1, <2>1 DEF READ_DATA_BUFFERS
  <2>3. Stage' \in 0 .. 4 /\ (~ready => Stage' = 4)
    BY <1>1, <1>7, <2>1, <2>2 DEF NEXT_STATE_PROCESS, w_proc_flag
  <2>4. ready => q' = q + 1
    <3>1. ASSUME ready PROVE q' = q + 1
      <4>1. At3' = NextPos(At3)
        BY <1>2, <1>11, <3>1, ProcessedStep DEF Streaming
      <4>2. Number(NextPos(At3)) = q + 1
        BY <1>2, Numbers, NextNumber DEF q
      <4>3. out_width' = out_width
        BY <1>1, SameJob
      <4> QED
        BY <4>1, <4>2, <4>3 DEF Number, q
    <3> QED
      BY <3>1
  <2> QED
    BY <1>3, <1>4, <1>5, <1>8, <2>1, <2>3, <2>4
<1> QED
  BY <1>2, <1>9, <1>10, <1>11 DEF Working

\* Behind the image the pipeline runs empty and the last rows are taken.
LEMMA OverMoves ==
  ASSUME HostInv, Over, NEW valid \in BOOLEAN, NEW ready \in BOOLEAN, Edge(valid, ready), Stream(valid, ready)
  PROVE  /\ Spent' >= Spent
         /\ valid = sending /\ ready => Spent' > Spent
<1>1. /\ UNCHANGED <<jobs, image>> /\ pc = "run" /\ PIPELINE(ready) /\ Sink(ready)
  BY StreamStep
<1>2. /\ JobFacts /\ BufferType /\ PipelineInv /\ At3 = <<out_height, 0>> /\ At3' = <<out_height', 0>>
      /\ ~Both /\ current_state = "st_wait" /\ current_state' = "st_wait"
  BY JobIsHandled, OverStreams DEF Over, Quiet
<1> DEFINE q == Number(At3)
           q0 == Number(At0)
<1>3. /\ Pixels \in Nat /\ q \in Nat /\ q0 \in Nat /\ q0 <= q /\ (NothingValid \/ q0 < q)
      /\ Pixels' = IF ready THEN Pixels + (q - q0) ELSE Pixels
  BY <1>1, <1>2, PixelsMove
<1>4. Taken \in Nat /\ Taken' = Taken + (IF w_wr(valid) THEN 1 ELSE 0)
  BY <1>1, <1>2, TakenGrows DEF Stream
<1>5. Spent = Taken + Pixels + 5 * q + Stage /\ Spent' = Taken' + Pixels' + 5 * q' + Stage'
  BY DEF Spent
<1>6. Stage = 0 /\ Stage' = 0
  BY <1>2 DEF Stage
<1>7. q' = q
  BY <1>1, <1>2, SameJob DEF Number
<1>8. NothingValid => rx_done
  <2>1. ASSUME NothingValid PROVE rx_done
    <3>1. At3 = At0
      BY <2>1 DEF NothingValid, Stages, At0, At1, At2, At3
    <3> QED
      BY <1>1, <1>2, <3>1 DEF At0, rx_done
  <2> QED
    BY <2>1
<1>9. rx_done /\ valid = sending => w_wr(valid)
  <2>1. rx_done => row < Job.height
    BY <1>1, <1>2 DEF Stream, tx_done, BufferType, JobFacts
  <2> QED
    BY <1>1, <1>2, <2>1 DEF w_wr, w_asi_input_data_ready, Both, sending
<1> HIDE DEF q, q0
<1> QED
  BY <1>3, <1>4, <1>5, <1>6, <1>7, <1>8, <1>9

\* Every edge.
LEMMA EdgeMoves ==
  ASSUME TBInv, CleanInv, PairComes, NEW valid \in BOOLEAN, NEW ready \in BOOLEAN, Edge(valid, ready)
  PROVE  /\ ~FallsBack
         /\ valid = sending /\ ready /\ pc # "done" => MovesOn
<1>1. HostInv /\ (Programming \/ Running \/ Over \/ Done)
  BY DEF TBInv, CleanInv
<1>2. CASE Stream(valid, ready)
  <2>1. UNCHANGED <<jobs, image, pc, param>> /\ pc = "run"
    BY <1>2 DEF Stream, hostVars
  <2>2. SamePlace
    BY <2>1 DEF SamePlace, Phase
  <2>3. Running \/ Over
    BY <1>1, <2>1 DEF Programming, Done
  <2>4. Spent' >= Spent /\ (valid = sending /\ ready => Spent' > Spent)
    BY <1>1, <1>2, <2>3, RunningMoves, OverMoves
  <2> QED
    BY <2>1, <2>2, <2>4 DEF FallsBack, MovesOn
<1>3. CASE WriteParams(ready)
  <2>1. image' = image /\ param \in 1 .. 6 /\ pc = "params" /\ Len(ParamWrites) = 6
    BY <1>1, <1>3 DEF WriteParams, HostInv, ParamWrites
  <2>2. Phase' = Phase + 1
    BY <1>3, <2>1 DEF WriteParams, Phase
  <2> QED
    BY <2>1, <2>2 DEF FallsBack, MovesOn
<1>4. CASE Finish(ready) \/ WriteCtl(ready)
  <2>1. image' = image /\ Phase' = Phase + 1
    <3>1. (pc = "run" /\ pc' = "ctl") \/ (pc = "ctl" /\ pc' = "restart")
      BY <1>4 DEF Finish, WriteCtl, tx_done
    <3>2. image' = image
      BY <1>4 DEF Finish, WriteCtl
    <3> QED
      BY <3>1, <3>2 DEF Phase
  <2> QED
    BY <2>1 DEF FallsBack, MovesOn
<1>5. CASE Restart(ready)
  BY <1>5 DEF Restart, FallsBack, MovesOn
<1>6. CASE Idle(ready)
  <2>1. SamePlace /\ pc = "done"
    BY <1>6 DEF Idle, hostVars, SamePlace, Phase
  <2> QED
    BY <2>1 DEF FallsBack
<1> QED
  BY <1>2, <1>3, <1>4, <1>5, <1>6 DEF Edge

\* The bound on what there is to do for an image.
LEMMA SpentBounded ==
  ASSUME HostInv, Running \/ Over, pc = "run"
  PROVE  Spent \in 0 .. Limit
<1>1. JobFacts /\ BufferType /\ PipelineInv
  BY JobIsHandled DEF Running, Streaming, Over
<1> DEFINE H == Job.height
           W == Job.width
           w == out_width
           h == out_height
           q == Number(At3)
<1>2. H \in Nat \ {0} /\ W \in Nat /\ w \in Nat /\ h \in Nat \ {0} /\ row \in 0 .. H /\ col \in 0 .. W - 1 /\ (row = H => col = 0)
  BY <1>1 DEF JobFacts, BufferType
<1>3. Pixels \in 0 .. 3 * q /\ q \in Nat
  BY <1>1, Numbers DEF Pixels
<1>4. Taken \in 0 .. H * W
  <2> HIDE DEF H, W
  <2>1. CASE row = H
    <3>1. Taken = H * W + 0
      BY <1>2, <2>1 DEF Taken, W
    <3> QED
      BY <1>2, <3>1, Products
  <2>2. CASE row # H
    <3>1. row \in Nat /\ row + 1 \in Nat /\ row + 1 <= H
      BY <1>2, <2>2
    <3>2. (row + 1) * W <= H * W
      BY <1>2, <3>1, Monotone
    <3>3. (row + 1) * W = row * W + W /\ row * W \in Nat /\ H * W \in Nat
      BY <1>2, <3>1
    <3>4. Taken = row * W + col
      BY DEF Taken, W
    <3> QED
      BY <1>2, <3>2, <3>3, <3>4
  <2> QED
    BY <2>1, <2>2
<1>5. Limit = H * W + 8 * (h * w) /\ h * w \in Nat /\ H * W \in Nat
  BY <1>2, Products DEF Limit
<1>6. Spent = Taken + Pixels + 5 * q + Stage
  BY DEF Spent
<1>7. CASE Over
  <2>1. q = h * w + 0 /\ Stage = 0
    BY <1>7 DEF Over, Quiet, Stage, Number
  <2> HIDE DEF q, h, w, H, W
  <2> QED
    BY <1>3, <1>4, <1>5, <1>6, <2>1
<1>8. CASE Running
  <2>1. /\ At3 = <<c_y_out, c_x_out>> /\ c_x_out \in 0 .. w - 1 /\ c_y_out \in 0 .. h - 1
        /\ Stage \in 0 .. 4
    BY <1>8 DEF Running, Streaming, PositionInv, Waiting, Working, Reading, Processing, Stage
  <2>2. q = c_y_out * w + c_x_out
    BY <2>1 DEF Number
  <2> HIDE DEF q, h, w, H, W
  <2>3. c_y_out \in Nat /\ c_y_out + 1 \in Nat /\ c_y_out + 1 <= h
    BY <1>2, <2>1
  <2>4. (c_y_out + 1) * w <= h * w
    BY <1>2, <2>3, Monotone
  <2>5. (c_y_out + 1) * w = c_y_out * w + w /\ c_y_out * w \in Nat
    BY <1>2, <2>3
  <2>6. q + 1 <= h * w
    BY <1>2, <2>1, <2>2, <2>4, <2>5
  <2> QED
    BY <1>3, <1>4, <1>5, <1>6, <2>1, <2>6
<1> QED
  BY <1>7, <1>8

LEMMA PairComesInit ==
  ASSUME TBInit, HasPair(jobs)
  PROVE  PairComes
BY DEF PairComes, TBInit, Running, Streaming

LEMMA PairComesStutters ==
  ASSUME PairComes, UNCHANGED tbVars
  PROVE  PairComes'
<1>1. /\ Running' = Running /\ UNCHANGED <<jobs, image, c_x_out, c_y_out, current_state, r_ram_filled>>
  BY SamePhase DEF tbVars, accVars, hostVars, writerVars
<1>2. Row(c_y_out)' = Row(c_y_out) /\ Job' = Job
  BY <1>1, SamePosition
<1> QED
  BY <1>1, <1>2 DEF PairComes, Both

ProgressInv == TBInv /\ CleanInv /\ PairComes

THEOREM ProgressInvariance ==
  (\A jl \in JobLists : Handled(jl) /\ NeverLost(jl) /\ HasPair(jl)) => (TBSpec => []ProgressInv)
<1> SUFFICES ASSUME \A jl \in JobLists : Handled(jl) /\ NeverLost(jl) /\ HasPair(jl)
             PROVE  TBSpec => []ProgressInv
  OBVIOUS
<1>1. TBInit => PairComes
  <2> SUFFICES ASSUME TBInit PROVE PairComes
    OBVIOUS
  <2> QED
    BY PairComesInit DEF TBInit
<1>2. TBInv /\ CleanInv /\ PairComes /\ [TBNext]_tbVars => PairComes'
  BY PairComesKept, PairComesStutters DEF TBNext
<1>3. TBSpec => [](TBInv /\ CleanInv)
  BY NothingIsLost
<1> QED
  BY <1>1, <1>2, <1>3, PTL DEF TBSpec, ProgressInv

\* No edge undoes anything that was done for a job, and one on which the source presents its pixel
\* and the sink takes one does something: with TBSpec's fairness the accelerator never stops for good.
THEOREM NeverStuck ==
  (\A jl \in JobLists : Handled(jl) /\ NeverLost(jl) /\ HasPair(jl)) =>
    (TBSpec => [][~FallsBack /\ (Edge(sending, TRUE) /\ pc # "done" => MovesOn)]_tbVars)
<1> SUFFICES ASSUME \A jl \in JobLists : Handled(jl) /\ NeverLost(jl) /\ HasPair(jl)
             PROVE  TBSpec => [][~FallsBack /\ (Edge(sending, TRUE) /\ pc # "done" => MovesOn)]_tbVars
  OBVIOUS
<1>1. ProgressInv /\ TBNext => ~FallsBack /\ (Edge(sending, TRUE) /\ pc # "done" => MovesOn)
  <2> SUFFICES ASSUME ProgressInv, TBNext PROVE ~FallsBack /\ (Edge(sending, TRUE) /\ pc # "done" => MovesOn)
    OBVIOUS
  <2>1. TBInv /\ CleanInv /\ PairComes
    BY DEF ProgressInv
  <2>2. ~FallsBack
    BY <2>1, EdgeMoves DEF TBNext
  <2>3. sending \in BOOLEAN
    BY DEF sending
  <2> DEFINE s == sending
  <2>4. Edge(s, TRUE) /\ pc # "done" => MovesOn
    <3>1. s \in BOOLEAN /\ s = sending
      BY <2>3
    <3> HIDE DEF s
    <3> QED
      BY <2>1, <3>1, EdgeMoves
  <2> QED
    BY <2>2, <2>4
<1> QED
  BY <1>1, ProgressInvariance, PTL DEF TBSpec

\* What there is to do for an image is bounded by its pixels.
THEOREM ProgressBounded ==
  (\A jl \in JobLists : Handled(jl) /\ NeverLost(jl) /\ HasPair(jl)) =>
    (TBSpec => [](pc = "run" => Spent \in 0 .. Limit))
<1>1. ProgressInv => (pc = "run" => Spent \in 0 .. Limit)
  <2> SUFFICES ASSUME ProgressInv, pc = "run" PROVE Spent \in 0 .. Limit
    OBVIOUS
  <2>1. HostInv /\ (Running \/ Over)
    BY DEF ProgressInv, TBInv, CleanInv, Programming, Done
  <2> QED
    BY <2>1, SpentBounded
<1> SUFFICES ASSUME \A jl \in JobLists : Handled(jl) /\ NeverLost(jl) /\ HasPair(jl)
             PROVE  TBSpec => [](pc = "run" => Spent \in 0 .. Limit)
  OBVIOUS
<1> QED
  BY <1>1, ProgressInvariance, PTL
=============================================================================
