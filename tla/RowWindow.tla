------------------------------ MODULE RowWindow ------------------------------
(***************************************************************************)
(* What the double line buffer promises to the processing logic: a window  *)
(* of at most two consecutive complete rows that only ever slides forward  *)
(* over the rows of an image.  Bilinear interpolation needs a row and its  *)
(* successor, so a window that skips a row inside itself, goes back, or    *)
(* holds rows of two images makes the accelerator compute with the wrong   *)
(* pixels.                                                                 *)
(***************************************************************************)
EXTENDS Naturals

CONSTANTS Height,   \* Rows of an image
          Capacity  \* Rows the window can hold

VARIABLES image,  \* Images restarted so far
          first,  \* Index of the oldest row held
          next    \* Rows accepted so far; the window is first .. next - 1

windowVars == <<image, first, next>>

WindowInit == image = 0 /\ first = 0 /\ next = 0

\* A row is accepted while there is room for it; the reader may give rows back
\* in the same step, the new one included (a row nobody needs is skipped).
Accept ==
  /\ next < Height
  /\ next - first < Capacity
  /\ next' = next + 1
  /\ first' \in first .. next + 1
  /\ image' = image

Release ==
  /\ first' \in first + 1 .. next
  /\ UNCHANGED <<image, next>>

\* The next image starts after all rows of this one have come and gone.
Restart ==
  /\ next = Height
  /\ first' = 0 /\ next' = 0
  /\ image' = image + 1

WindowNext == Accept \/ Release \/ Restart

WindowSpec == WindowInit /\ [][WindowNext]_windowVars
=============================================================================
