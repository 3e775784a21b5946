--------------------------- MODULE bilinear_scaling ---------------------------
(***************************************************************************)
(* The software model (software_model/bilinear_scaling.c) as pure          *)
(* operators.  It is the reference for the accelerator: the test bench     *)
(* compares every pixel with its output, and the application runs both.    *)
(*                                                                         *)
(* A scaling factor is its fixed-point code s, standing for                *)
(* s / 2^BILINEAR_SCALING_SF_NFRAC.  The floats of the C code are the      *)
(* rationals they represent: every value they take here is exact or at     *)
(* least as far from the next integer as from its rounding, so truncation  *)
(* gives the same integer.                                                 *)
(***************************************************************************)
EXTENDS Naturals

CONSTANTS BILINEAR_SCALING_SF_NINT, BILINEAR_SCALING_SF_NFRAC,
          BILINEAR_SCALING_NINT, BILINEAR_SCALING_NFRAC

ONE_NFRAC == 2 ^ BILINEAR_SCALING_NFRAC
SCALE_ONE == 2 ^ BILINEAR_SCALING_SF_NFRAC

ASSUME FixedPointAssumption ==
  /\ BILINEAR_SCALING_SF_NINT \in Nat /\ BILINEAR_SCALING_SF_NFRAC \in Nat
  /\ BILINEAR_SCALING_NINT \in Nat /\ BILINEAR_SCALING_NFRAC \in Nat

\* Powers of two are positive: a fact of arithmetic the provers do not have.
ASSUME PowersAssumption ==
  /\ ONE_NFRAC \in Nat \ {0} /\ SCALE_ONE \in Nat \ {0}
  /\ 2 ^ (BILINEAR_SCALING_NINT + BILINEAR_SCALING_NFRAC) \in Nat \ {0}

\* The rational num / den in fixed point; the integer bits that do not fit are cut off.
to_fixed_point(num, den, nint, nfrac) == ((num * 2 ^ nfrac) \div den) % 2 ^ (nint + nfrac)

GET_INT(x) == x \div ONE_NFRAC
GET_FRAC(x) == x % ONE_NFRAC

\* The step between two output pixels, in input pixels: 1 / s_fx.
increment(s) == to_fixed_point(SCALE_ONE, s, BILINEAR_SCALING_NINT, BILINEAR_SCALING_NFRAC)

\* Size of the output along one axis, as image_alloc(input.height*sy_fx, ...) truncates it.
output_size(n, s) == (n * s) \div SCALE_ONE

\* The neighbour to the right or below; saturated at the end of the axis.
saturated_next(floor, n) == IF floor >= n - 1 THEN floor ELSE floor + 1

\* Output pixel (v, u): which input pixels it is computed from, and the weights.
group(width, height, sx, sy, v, u) ==
  LET x == u * increment(sx)
      y == v * increment(sy)
      floor_x == GET_INT(x)   floor_x1 == saturated_next(floor_x, width)
      floor_y == GET_INT(y)   floor_y1 == saturated_next(floor_y, height)
  IN  [topleft |-> <<floor_y, floor_x>>,   topright |-> <<floor_y, floor_x1>>,
       botleft |-> <<floor_y1, floor_x>>,  botright |-> <<floor_y1, floor_x1>>,
       alpha_x |-> GET_FRAC(x), alpha_y |-> GET_FRAC(y)]

\* The value of a pixel from the values of its group.
interpolate(topleft, topright, botleft, botright, alpha_x, alpha_y) ==
  LET subp_top == (ONE_NFRAC - alpha_y) *
                    (((ONE_NFRAC - alpha_x) * topleft + alpha_x * topright) \div ONE_NFRAC)
      subp_bot == alpha_y *
                    (((ONE_NFRAC - alpha_x) * botleft + alpha_x * botright) \div ONE_NFRAC)
  IN  (subp_top + subp_bot) \div ONE_NFRAC
=============================================================================
