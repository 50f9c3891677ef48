----------------------------- MODULE MCApproach -----------------------------
(* The instance of TableApproach for TLC.                                  *)
EXTENDS TableApproach

(* The approach of a visit to point 0, and its second stop.                *)
TwoLegs ==
  { [stopDist |-> 340, targetSpd |-> 50, breakDist |-> 300, ramp |-> TRUE],
    [stopDist |-> 150, targetSpd |-> 40, breakDist |-> 500, ramp |-> FALSE] }

=============================================================================
