--------------------------------- MODULE main ---------------------------------
(***************************************************************************)
(* The endless loop of main.c and the images it allocates and frees, with  *)
(* the image functions of utils.c.  An image is an array of pointers to    *)
(* rows, each a block of its own; the segment that is scaled is a shallow  *)
(* copy, whose rows are those of the image it is cut from.                 *)
(*                                                                         *)
(* The pixels are the business of bilinear_scaling_sw, the descriptors     *)
(* that of bilinear_scaling_hw.                                            *)
(***************************************************************************)
EXTENDS Integers

CONSTANTS Sizes,     \* Of the images in files: [height, width]
          Requests,  \* What the user types: [filename, ul_x, ul_y, dr_x, dr_y]
          MaxJobs    \* Bound on the number of jobs

SAME_AS_BEFORE == "@"

ASSUME MainAssumption ==
  /\ \A size \in Sizes : size.height \in Nat /\ size.width \in Nat
  /\ \A r \in Requests : {r.ul_x, r.ul_y, r.dr_x, r.dr_y} \subseteq Nat

VARIABLES stage,
          request,   \* The last input
          image_in,  \* [data, height, width]; data is the number of the load, or as below
          segment,   \* [data, height, width, start]: data[i] is a row, from column start on
          num,       \* Jobs done
          loads,     \* Images loaded so far
          allocated  \* Blocks

vars == <<stage, request, image_in, segment, num, loads, allocated>>

\* What image_in.data may say before the first image: a local variable without a value.
NULL == 0
Garbage == -1

uint16(n) == n % 65536

\* Blocks of an image: the rows, and the array of pointers to them.
Row(data, i) == <<data, i>>
Array(data) == Row(data, -1)
matrix(data, height) == {Row(data, i) : i \in -1 .. height - 1}

\* The blocks of one job; the rows of the outputs come and go with their array.
segment_array == Array(-2)
output_sw == Array(-3)
output_hw == Array(-4)

Init ==
  /\ stage = "get_input"
  /\ image_in \in [data : {NULL, Garbage}, height : {0, 1}, width : {0}]
  /\ segment = [data |-> <<>>, height |-> 0, width |-> 0, start |-> 0]
  /\ request \in Requests
  /\ num = 0 /\ loads = 0 /\ allocated = {}

\* get_input; its first assertion stops the program.
get_input ==
  /\ stage = "get_input" /\ num < MaxJobs
  /\ request' \in Requests
  /\ stage' = IF request'.dr_x > request'.ul_x /\ request'.dr_y > request'.ul_y THEN "load" ELSE "stopped"
  /\ UNCHANGED <<image_in, segment, num, loads, allocated>>

NeedsImage == request.filename # SAME_AS_BEFORE \/ num = 0

\* bin2image
bin2image ==
  \E size \in Sizes :
    /\ image_in' = [data |-> loads + 1, height |-> size.height, width |-> size.width]
    /\ loads' = loads + 1
    /\ allocated' = allocated \cup matrix(loads + 1, size.height)

\* A new image unless the old one is asked for.  What was there is freed only if the pointer to
\* it is NULL; with garbage for a height that is undefined.
Load ==
  /\ stage = "load"
  /\ IF ~NeedsImage THEN stage' = "extract" /\ UNCHANGED <<image_in, loads, allocated>>
     ELSE IF image_in.data = NULL /\ image_in.height # 0
          THEN stage' = "stopped" /\ UNCHANGED <<image_in, loads, allocated>>
          ELSE stage' = "extract" /\ bin2image
  /\ UNCHANGED <<request, segment, num>>

seg_width == request.dr_x - request.ul_x + 1
seg_height == request.dr_y - request.ul_y + 1

\* The pointers of extract_segment: start_x counts rows.
segment_rows(start_x) == [i \in 0 .. uint16(seg_height) - 1 |-> Row(image_in.data, i + start_x)]

extract_segment ==
  /\ stage = "extract" /\ stage' = "scale"
  /\ segment' = [data |-> segment_rows(request.ul_x), height |-> uint16(seg_height),
                 width |-> uint16(seg_width), start |-> request.ul_y]
  /\ allocated' = allocated \cup {segment_array}
  /\ UNCHANGED <<request, image_in, num, loads>>

\* Both scalings read the segment and allocate their output; then they are saved.
Scale ==
  /\ stage = "scale" /\ stage' = "deallocate"
  /\ allocated' = allocated \cup {output_sw, output_hw}
  /\ UNCHANGED <<request, image_in, segment, num, loads>>

\* Mutant: the rows of the segment are freed like those of an image.
freed_SegmentRows == {output_sw, output_hw, segment_array} \cup {segment.data[i] : i \in DOMAIN segment.data}

\* What the end of the loop frees.
freed == {output_sw, output_hw, segment_array}

Deallocate ==
  /\ stage = "deallocate" /\ stage' = "get_input"
  /\ num' = num + 1
  /\ allocated' = allocated \ freed
  /\ UNCHANGED <<request, image_in, segment, loads>>

Next == get_input \/ Load \/ extract_segment \/ Scale \/ Deallocate

Spec == Init /\ [][Next]_vars

-----------------------------------------------------------------------------
(* Properties *)

MainTypeOK ==
  /\ stage \in {"get_input", "load", "extract", "scale", "deallocate", "stopped"}
  /\ request \in Requests
  /\ image_in.data \in {NULL, Garbage} \cup 1 .. loads
  /\ image_in.height \in Nat /\ image_in.width \in Nat
  /\ num \in Nat /\ loads \in Nat /\ loads <= num + 1

\* The rows extract_segment points at are rows of the image.
Fits == request.ul_x + seg_height <= image_in.height

\* The segment is cut from an image that was loaded, and its rows, which it does not own, are
\* still allocated when they are scaled: no job before has freed them.
ReadsLive ==
  stage = "scale" => /\ image_in.data >= 1
                     /\ segment_array \in allocated
                     /\ Fits => \A i \in DOMAIN segment.data : segment.data[i] \in allocated

\* Only allocated blocks are freed.
FreesAllocated == stage = "deallocate" => freed \subseteq allocated

\* A job leaves nothing behind but the images that were loaded.
OnlyImagesStay == stage = "get_input" => \A block \in allocated : block[1] \in 1 .. loads

\* The segment is the rectangle between the endpoints, when that lies in the image: its
\* rows are counted along y, as its height is, and its columns along x.
SegmentIsRequest ==
  stage = "scale" /\ request.dr_x < image_in.width /\ request.dr_y < image_in.height =>
    /\ segment.start = request.ul_x
    /\ \A i \in 0 .. seg_height - 1 : segment.data[i] = Row(image_in.data, request.ul_y + i)

\* The blocks of all jobs together: what is read or freed is allocated, and what a job allocates is
\* freed by its end, although the rows of a segment belong to an image other jobs use.
BlocksKept == ReadsLive /\ FreesAllocated /\ OnlyImagesStay
===============================================================================
