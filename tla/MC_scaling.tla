------------------------------ MODULE MC_scaling ------------------------------
(* The parts of the application whose instances are small: main's loop with *)
(* its measurements, the scaling in software, the driver of the scaling in  *)
(* hardware, and the line buffer of the accelerator.  One of them runs in a *)
(* behaviour.                                                               *)
EXTENDS main_perf, bilinear_scaling_sw, bilinear_scaling_hw, RAM_writer_stream

VARIABLE part

\* For main: a wide and a high image, and every segment of them.
SomeSizes == {[height |-> 2, width |-> 3], [height |-> 3, width |-> 2]}
SomeRequests ==
  {[filename |-> f, ul_x |-> a, ul_y |-> b, dr_x |-> c, dr_y |-> d] :
     f \in {"image.bin", SAME_AS_BEFORE}, a \in {0, 1}, b \in {0, 1}, c \in {1, 2}, d \in {1, 2}}

\* For the software: every size up to 5 by 3, with high contrast between neighbours and without
\* repetition along a row.
Picture(h, w) ==
  [height |-> h, width |-> w,
   data |-> [r \in 0 .. h - 1 |-> [c \in 0 .. w - 1 |-> IF (r + c) % 2 = 0 THEN 255 - c ELSE 10 * r + c]]]
SmallImages == {Picture(h, w) : h \in 1 .. 3, w \in 1 .. 5}

\* The smallest factor whose increment fits, halves, thirds, one, just above one, the largest.
SmallFactors == {3, 11, 16, 32, 33, 47, 255} \X {16, 32, 45}

\* For the driver: copies, reductions that leave rows over, enlargements.
SmallJobs == {[height |-> h, sy |-> f] : h \in 2 .. 5, f \in {16, 24, 32, 56}}
PowerOn == [height |-> 0, sy |-> 1]

mainVars == <<vars, perfVars>>

MCInit ==
  /\ part \in {"main", "software", "hardware", "buffer"}
  /\ PerfInit /\ HwInit /\ StreamInit
  /\ IF part = "software" THEN SwInit
     ELSE input = Picture(1, 1) /\ sx = 32 /\ sy = 32 /\ v = 0 /\ u = 0 /\ y = 0 /\ x = 0 /\ output = <<>>
  /\ part # "main" => request = CHOOSE r \in Requests : TRUE

MCNext ==
  /\ UNCHANGED part
  /\ \/ part = "main" /\ PerfNext /\ UNCHANGED <<swVars, hwVars, streamVars>>
     \/ part = "software" /\ SwNext /\ UNCHANGED <<mainVars, hwVars, streamVars>>
     \/ part = "hardware" /\ HwNext /\ UNCHANGED <<mainVars, swVars, streamVars>>
     \/ part = "buffer" /\ StreamNext /\ UNCHANGED <<mainVars, swVars, hwVars>>

\* The fairness of bilinear_scaling_hw, in the behaviours in which it runs.
MCFairness ==
  /\ WF_hwVars(part = "hardware" /\ Program)
  /\ \A d \in Device :
       /\ WF_hwVars(part = "hardware" /\ EnterIsr(d))
       /\ WF_hwVars(part = "hardware" /\ Callback(d))
       /\ WF_hwVars(part = "hardware" /\ Begin(d))
       /\ WF_hwVars(part = "hardware" /\ Transfer(d))

MCSpec == MCInit /\ [][MCNext]_<<part, mainVars, swVars, hwVars, streamVars>> /\ MCFairness
===============================================================================
