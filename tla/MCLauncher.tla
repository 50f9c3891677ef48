----------------------------- MODULE MCLauncher -----------------------------
(* Instances of Launcher for TLC.                                          *)
EXTENDS Launcher

(* The buttons of ManualThread: CIRCLE, CROSS and SQUARE.                  *)
Buttons == {2, 3, -1}

(* The panel used alone.                                                   *)
NoButtons == {}

=============================================================================
