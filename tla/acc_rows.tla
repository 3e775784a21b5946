------------------------------- MODULE acc_rows -------------------------------
(***************************************************************************)
(* What the accelerator promises to the two DMA controllers, in whole      *)
(* rows: it takes the rows of the input image, never beyond the two that   *)
(* the next output row is computed from; it delivers a row of the output   *)
(* image once the rows it is computed from have arrived; it takes what is  *)
(* left of the input behind the last output row; and it is ready for the   *)
(* next image after a restart.                                             *)
(*                                                                         *)
(* acc_bilinear_scaling_TB implements this specification; the driver model *)
(* bilinear_scaling_hw builds on it.                                       *)
(***************************************************************************)
EXTENDS Integers, bilinear_scaling

CONSTANT Jobs     \* The jobs: records with at least [height, sy]

VARIABLES job,      \* The image being scaled
          in_rows,  \* Rows of the input taken
          out_rows  \* Rows of the output delivered

rowVars == <<job, in_rows, out_rows>>

out_height == output_size(job.height, job.sy)

\* Output row v is computed from input rows top(v) and bottom(v).
top(v) == GET_INT(v * increment(job.sy))
bottom(v) == saturated_next(top(v), job.height)

OutputComplete == out_rows = out_height

RowsInit == job \in Jobs /\ in_rows = 0 /\ out_rows = 0

\* Input goes on while the output row computed last is still on its way out: the window of
\* rows belongs to the next one, and the rest of the image is flushed behind the last one.
CanTake ==
  /\ in_rows < job.height
  /\ out_rows < out_height - 1 => in_rows <= top(out_rows + 1) + 1
CanDeliver == ~OutputComplete /\ in_rows > bottom(out_rows)

\* The last pixel of an input row, of an output row, or of both, at one clock edge.
Take == CanTake /\ in_rows' = in_rows + 1 /\ UNCHANGED <<job, out_rows>>
Deliver == CanDeliver /\ out_rows' = out_rows + 1 /\ UNCHANGED <<job, in_rows>>
TakeAndDeliver == /\ CanTake /\ CanDeliver
                  /\ in_rows' = in_rows + 1 /\ out_rows' = out_rows + 1
                  /\ UNCHANGED job

\* The restart bit: the next image, once this one is through.
RestartRows ==
  /\ in_rows = job.height /\ OutputComplete
  /\ job' \in Jobs /\ in_rows' = 0 /\ out_rows' = 0

\* New parameters before the first row.
Program == in_rows = 0 /\ out_rows = 0 /\ job' \in Jobs /\ UNCHANGED <<in_rows, out_rows>>

RowsNext == Take \/ Deliver \/ TakeAndDeliver \/ RestartRows \/ Program

RowsSpec == RowsInit /\ [][RowsNext]_rowVars
=============================================================================
