--------------------------------- MODULE MC_TB ---------------------------------
(***************************************************************************)
(* Jobs and bounds for the model checking of acc_bilinear_scaling_TB.      *)
(* Scaling factors have C_SCALE_FRAC = 5 fractional bits: 32 is 1, 64 is   *)
(* 2, 16 is 1/2.  The fixed-point widths are those of the code.            *)
(***************************************************************************)
EXTENDS acc_bilinear_scaling_TB

J(w, h, sx, sy, longest) ==
  [width |-> w, height |-> h, sx |-> sx, sy |-> sy, stall |-> longest]

\* Enlarging, copying and reducing, exact factors and factors whose inverse is
\* truncated; at least two columns and one row of output; the longest stalls
\* that no row is lost under.
Scales ==
  {<<J(w, h, sx, sy, w - 4)>> : w \in {4, 6}, h \in {2, 3, 5}, sx \in {16, 32, 48},
                                sy \in {16, 24, 31, 32, 33, 64}}
  \cup {<<J(5, 8, 20, sy, 1)>> : sy \in {4, 8, 12, 80}}

\* Jobs one after the other: rows left to flush, none left, other sizes.
Sequels ==
  LET S == {J(4, 3, 32, 32, 0), J(4, 4, 16, 16, 0), J(5, 5, 48, 24, 0), J(6, 2, 24, 48, 0)}
  IN  {<<a, b>> : a, b \in S} \cup {<<J(4, 3, 32, 32, 0), J(4, 5, 32, 16, 0), J(4, 2, 32, 32, 0)>>}

ScalesAndSequels == Scales \cup Sequels

\* They are the jobs that acc_bilinear_scaling_TB_proofs is about.
ASSUME ScalesAssumption ==
  \A jl \in ScalesAndSequels : Handled(jl) /\ NeverLost(jl) /\ RowByRow(jl) /\ HasPair(jl)

\* A copy of an image, where the last column goes wrong.
Copy == {<<J(4, 3, 32, 32, 0)>>}
\* Two copies, with a sink that once is not ready.
TwoCopies == {<<J(4, 3, 32, 32, 1), J(4, 3, 32, 32, 1)>>}
\* Half the rows and columns, with a row left over, and a stall of a whole row.
Half == {<<J(4, 5, 16, 16, 4)>>}
=============================================================================
