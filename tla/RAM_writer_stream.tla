-------------------------- MODULE RAM_writer_stream --------------------------
(***************************************************************************)
(* RAM_writer between a source that streams images row by row and a reader *)
(* that gives RAMs back.  The source may leave gaps between beats, and the *)
(* reader may read any word and give back any RAM at any edge, as long as  *)
(* it keeps to Legal, the protocol under which the buffer is a sliding     *)
(* window of rows.  That the processing logic keeps to it is checked and   *)
(* proved where the two are composed (acc_bilinear_scaling_TB).            *)
(***************************************************************************)
EXTENDS RAM_writer

CONSTANTS Width, Height,  \* Size of an image
          Images          \* Bound: images streamed before the source stops

ASSUME StreamAssumption ==
  /\ Width \in 1 .. C_RAM_DEPTH
  /\ Height \in Nat \ {0}
  /\ Images \in Nat \ {0}

VARIABLES image,     \* Image being streamed
          row, col   \* Position in it of the pixel the source presents

sourceVars == <<image, row, col>>
streamVars == <<writerVars, sourceVars>>

Pixel(i, r, c) == <<i, r, c>>

-----------------------------------------------------------------------------
(* The protocol of the reader *)

\* Giving RAMs back may not leave the selected RAM, which the next row is
\* written to, filled while the other one is empty: rows would be accepted and
\* lost, and the two RAMs would no longer hold a row and its successor.
Legal(valid, eop, ram_reset) ==
  LET completes == w_wr(valid) /\ eop IN
  /\ Other(r_ram_sel) \in ram_reset /\ r_ram_filled[r_ram_sel] => r_ram_sel \in ram_reset
  /\ completes /\ r_ram_sel \in ram_reset /\ r_ram_filled[Other(r_ram_sel)]
       => Other(r_ram_sel) \in ram_reset

-----------------------------------------------------------------------------
(* The source *)

eop == row < Height /\ col = Width - 1

AdvanceSource(valid) ==
  IF w_wr(valid)
  THEN /\ col' = IF eop THEN 0 ELSE col + 1
       /\ row' = IF eop THEN row + 1 ELSE row
       /\ image' = image
  ELSE UNCHANGED sourceVars

-----------------------------------------------------------------------------
StreamInit == WriterInit /\ image = 0 /\ row = 0 /\ col = 0

\* An edge within an image.
Edge(valid, rd, rd_addr, ram_reset) ==
  /\ valid => row < Height
  /\ Legal(valid, eop, ram_reset)
  /\ WriterClock(valid, Pixel(image, row, col), eop, rd, rd_addr, ram_reset, FALSE)
  /\ AdvanceSource(valid)

\* The edge of the restart between two images: all rows have been accepted and
\* both RAMs are given back.
NewImage ==
  /\ row = Height
  /\ image < Images
  /\ WriterClock(FALSE, NoPixel, FALSE, FALSE, 0, Rams, TRUE)
  /\ image' = image + 1 /\ row' = 0 /\ col' = 0

StreamNext ==
  \/ \E valid, rd \in BOOLEAN, rd_addr \in 0 .. Width - 1, ram_reset \in SUBSET Rams :
       Edge(valid, rd, rd_addr, ram_reset)
  \/ NewImage

StreamSpec == StreamInit /\ [][StreamNext]_streamVars

-----------------------------------------------------------------------------
(* Properties *)

\* Every register stays in the range its VHDL declaration gives it.
StreamTypeOK ==
  /\ c_wr_addr \in [Rams -> 0 .. C_RAM_DEPTH - 1]
  /\ r_ram_filled \in [Rams -> BOOLEAN]
  /\ r_ram_sel \in Rams
  /\ c_row_count \in Nat
  /\ memory \in [Rams -> [0 .. C_RAM_DEPTH - 1 -> (Nat \X Nat \X Nat) \cup {NoPixel}]]
  /\ data_out \in [Rams -> (Nat \X Nat \X Nat) \cup {NoPixel}]
  /\ image \in Nat /\ row \in 0 .. Height /\ col \in 0 .. Width - 1

\* RAM i holds all of row r of the current image.
HoldsRow(i, r) == \A c \in 0 .. Width - 1 : memory[i][c] = Pixel(image, r, c)

\* The row count and the write addresses follow the source: the row being
\* accepted is row c_row_count, at the address the selected RAM is at, and the
\* other RAM waits at address 0 for its next row.
PositionFollowsSource ==
  /\ c_row_count = row
  /\ c_wr_addr[r_ram_sel] = col
  /\ c_wr_addr[Other(r_ram_sel)] = 0
  /\ row = Height => col = 0

\* What is written so far of the row being accepted is intact.
PartialRowIntact ==
  ~r_ram_filled[r_ram_sel] =>
     \A c \in 0 .. Width - 1 : c < col => memory[r_ram_sel][c] = Pixel(image, row, c)

\* A filled RAM holds a complete row of the current image: the RAM written
\* last holds the newest row, and the selected one, if still filled, the row
\* before it.  With both filled, the selected RAM is the top row of the pair
\* and the other one the bottom row, as acc_bilinear_scaling reads them.
WindowIsConsecutive ==
  /\ r_ram_filled[Other(r_ram_sel)] => row >= 1 /\ HoldsRow(Other(r_ram_sel), row - 1)
  /\ r_ram_filled[r_ram_sel] => row >= 2 /\ HoldsRow(r_ram_sel, row - 2)
  /\ r_ram_filled[r_ram_sel] => r_ram_filled[Other(r_ram_sel)] /\ col = 0

\* Whatever the buffer accepts it stores: ready is never given for a pixel
\* that w_wr_array then drops (RAM_writer.vhd:95-101).
AcceptedIsStored == w_wr(TRUE) => w_wr_array(TRUE)[r_ram_sel]

\* No row is lost on its way: all pixels that are accepted are stored, and the rows they make up
\* are the consecutive ones a reader relies on.
BufferHoldsRows == AcceptedIsStored /\ WindowIsConsecutive

\* The buffer implements the window of consecutive rows.
RowsHeld == (IF r_ram_filled[0] THEN 1 ELSE 0) + (IF r_ram_filled[1] THEN 1 ELSE 0)

Window == INSTANCE RowWindow WITH Capacity <- 2, first <- row - RowsHeld, next <- row
ImplementsWindow == Window!WindowSpec
=============================================================================
