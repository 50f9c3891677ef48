------------------------------ MODULE Heading -------------------------------
(***************************************************************************)
(* What the yaw sensor link promises: between two reports the angle the    *)
(* firmware holds changes by exactly what the robot has turned, however    *)
(* often the byte on the wire has wrapped.                                 *)
(***************************************************************************)
EXTENDS Integers

VARIABLES reported,  \* the robot's heading at the last report
          angle      \* the angle the firmware holds

vars == <<reported, angle>>

Init == reported \in Int /\ angle = reported

(* A report: the angle moves as far as the robot has turned.               *)
Report ==
  /\ reported' \in Int /\ angle' \in Int
  /\ angle' - angle = reported' - reported

Spec == Init /\ [][Report]_vars

=============================================================================
