------------------------- MODULE bilinear_scaling_sw -------------------------
(***************************************************************************)
(* bilinear_scaling_sw() of software_model/bilinear_scaling.c as the two   *)
(* nested loops it is: one step per iteration of the inner loop.  The      *)
(* source coordinates are ACCUMULATED (x += increment_x), never computed   *)
(* from u and v, and they index input.data without a bounds check.         *)
(*                                                                         *)
(* Coordinates are 32 bits wide in the code; AccessInBounds bounds x by    *)
(* width * ONE_NFRAC, far below 2^32 for the 16-bit image sizes in use, so *)
(* the wrap-around is not modelled.                                        *)
(***************************************************************************)
EXTENDS bilinear_scaling, Sequences

CONSTANTS Inputs,       \* the input images: [width, height, data]
          Factors       \* the pairs <<sx, sy>> of fixed-point scaling factors

PixelValue == 0 .. 255

\* Images have at least one pixel and factors are positive (main.c asserts both).
ASSUME InputAssumption ==
  /\ \A image \in Inputs :
       /\ image.width \in Nat \ {0} /\ image.height \in Nat \ {0}
       /\ image.data \in [0 .. image.height - 1 -> [0 .. image.width - 1 -> PixelValue]]
  /\ Factors \subseteq (Nat \ {0}) \X (Nat \ {0})

VARIABLES input, sx, sy,  \* the arguments
          v, u,           \* loop counters: row and column of the output
          y, x,           \* input coordinates, fixed point
          output          \* output.data as far as it is written

swVars == <<input, sx, sy, v, u, y, x, output>>

output_height == output_size(input.height, sy)
output_width == output_size(input.width, sx)
increment_x == increment(sx)
increment_y == increment(sy)

floor_x == GET_INT(x)
floor_y == GET_INT(y)
floor_x1 == saturated_next(floor_x, input.width)
floor_y1 == saturated_next(floor_y, input.height)

\* Mutant: the weight of the left neighbour forgotten.
OutputPixel_unweighted ==
  (ONE_NFRAC * input.data[floor_y][floor_x] + GET_FRAC(x) * input.data[floor_y][floor_x1])
    \div ONE_NFRAC

OutputPixel == interpolate(input.data[floor_y][floor_x], input.data[floor_y][floor_x1],
                           input.data[floor_y1][floor_x], input.data[floor_y1][floor_x1],
                           GET_FRAC(x), GET_FRAC(y))

InputValues ==
  {input.data[r][c] : r \in 0 .. input.height - 1, c \in 0 .. input.width - 1}

SwInit ==
  /\ input \in Inputs
  /\ \E factors \in Factors : sx = factors[1] /\ sy = factors[2]
  /\ v = 0 /\ u = 0 /\ y = 0 /\ x = 0
  /\ output = <<>>

\* One iteration of the inner loop.
InnerLoop ==
  /\ v < output_height /\ u < output_width
  /\ output' = Append(output, OutputPixel)
  /\ u' = u + 1 /\ x' = x + increment_x
  /\ UNCHANGED <<input, sx, sy, v, y>>

\* Mutant: x declared outside the loops and never reset.
OuterLoop_keepx ==
  /\ v < output_height /\ u >= output_width
  /\ v' = v + 1 /\ y' = y + increment_y
  /\ u' = 0 /\ x' = x
  /\ UNCHANGED <<input, sx, sy, output>>

\* The rest of the outer loop's body: the next row starts at column 0.
OuterLoop ==
  /\ v < output_height /\ u >= output_width
  /\ v' = v + 1 /\ y' = y + increment_y
  /\ u' = 0 /\ x' = 0
  /\ UNCHANGED <<input, sx, sy, output>>

SwNext == InnerLoop \/ OuterLoop

SwSpec == SwInit /\ [][SwNext]_swVars

------------------------------------------------------------------------------
\* Loop counters stay in their ranges and every value written fits its uint8_t.
TypeOK ==
  /\ input \in Inputs /\ <<sx, sy>> \in Factors
  /\ v \in 0 .. output_height /\ u \in 0 .. output_width
  /\ y \in Nat /\ x \in Nat
  /\ output \in Seq(PixelValue)

InLoopBody == v < output_height /\ u < output_width

\* No read outside the image: every one of the four pixels the loop body reads exists, although
\* nothing checks the accumulated coordinates against the size (bilinear_scaling.c:62-65).
AccessInBounds ==
  InLoopBody => /\ {floor_y, floor_y1} \subseteq 0 .. input.height - 1
                /\ {floor_x, floor_x1} \subseteq 0 .. input.width - 1

\* Accumulating does not drift: at every output pixel the coordinates are those of the closed
\* form that the accelerator's test bench compares with, pixel and weights alike.
AccumulatesClosedForm ==
  InLoopBody =>
    group(input.width, input.height, sx, sy, v, u) =
      [topleft |-> <<floor_y, floor_x>>,   topright |-> <<floor_y, floor_x1>>,
       botleft |-> <<floor_y1, floor_x>>,  botright |-> <<floor_y1, floor_x1>>,
       alpha_x |-> GET_FRAC(x), alpha_y |-> GET_FRAC(y)]

\* Both together, of every read the loop body makes: no pixel outside the image, and none but those
\* the accelerator is compared with.
ReadsRightPixels == AccessInBounds /\ AccumulatesClosedForm

\* The weighted mean stays between the darkest and the brightest pixel of the image: the two
\* truncating shifts of bilinear_scaling.c:67-71 never push a value out of its uint8_t.
OutputWithinInput ==
  \A i \in DOMAIN output :
    \E low, high \in InputValues : low <= output[i] /\ output[i] <= high

=============================================================================
