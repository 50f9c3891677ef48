---------------------------- MODULE ValveScripts ----------------------------
(***************************************************************************)
(* The solenoid valves of the launcher and the fixed sequences in which    *)
(* the firmware opens and closes them.                                     *)
(*                                                                         *)
(* The byte SV (Utility.h) holds one bit per valve.  It is modelled as the *)
(* set of the bits that are 1.  Bits 0..3 select a launch point, bit 4 is  *)
(* the trigger, bits 5, 6 and 7 drive the loader.                          *)
(*                                                                         *)
(* A script is a sequence of valve writes, each followed by the wait() the *)
(* code does after it, in milliseconds.                                    *)
(***************************************************************************)
EXTENDS Integers, Sequences

Bits     == 0..7
Trigger  == 4
Loader   == 5..7

(* The operand of a write whose bit is read from doReloadPt at that moment *)
(* rather than being a literal: no literal is 8.                           *)
FromMailbox == 8

-----------------------------------------------------------------------------
(* Mutation variant of bitWrite: the shift is not cut off at the byte.     *)
bitWrite_NoMask(value, bit, bitvalue) ==
  IF bitvalue THEN value \cup {bit} ELSE value \ {bit}

(* bitWrite on the eight-bit SV.  A bit outside the byte leaves it alone:  *)
(* 1UL << 255 (the -1 of doReloadPt in a shift register) is 0 on the       *)
(* Cortex-M target, and masks above bit 7 are cut off by the char.         *)
bitWrite(value, bit, bitvalue) ==
  IF bitvalue THEN value \cup ({bit} \cap Bits) ELSE value \ {bit}

Write(bit, on, ms) == [bit |-> bit, on |-> on, ms |-> ms]

(* Mutation variants of ReloadScript: the retraction of valve 7 forgotten, *)
(* and the retraction done before valve 5 has been closed.                 *)
ReloadScript_NoRetract ==
  << Write(7, TRUE, 800),  Write(5, TRUE, 1500), Write(5, FALSE, 500),
     Write(7, TRUE, 500),  Write(6, TRUE, 1000), Write(6, FALSE, 1000) >>

ReloadScript_Swapped ==
  << Write(7, TRUE, 800),  Write(5, TRUE, 1500), Write(7, FALSE, 500),
     Write(5, FALSE, 500), Write(6, TRUE, 1000), Write(6, FALSE, 1000) >>

ReloadScript_Slow ==
  << Write(7, TRUE, 800),  Write(5, TRUE, 1500), Write(5, FALSE, 500),
     Write(7, FALSE, 500), Write(6, TRUE, 2000), Write(6, FALSE, 2000) >>

(* Reload(): the loader cycle.                                             *)
ReloadScript ==
  << Write(7, TRUE, 800),  Write(5, TRUE, 1500), Write(5, FALSE, 500),
     Write(7, FALSE, 500), Write(6, TRUE, 1000), Write(6, FALSE, 1000) >>

(* Mutation variants of LaunchScript: the trigger or the launch point left *)
(* open, the trigger pulled before the launch point is opened.             *)
LaunchScript_TriggerLeft ==
  << Write(FromMailbox, TRUE, 3000), Write(Trigger, TRUE, 1000),
     Write(FromMailbox, FALSE, 500) >>

LaunchScript_PointLeft ==
  << Write(FromMailbox, TRUE, 3000), Write(Trigger, TRUE, 1000),
     Write(Trigger, FALSE, 500) >>

LaunchScript_TriggerFirst ==
  << Write(Trigger, TRUE, 1000), Write(FromMailbox, TRUE, 3000),
     Write(FromMailbox, FALSE, 500), Write(Trigger, FALSE, 500) >>

(* The launch branch of ReloadThread, up to its call of Reload(): every    *)
(* write to the launch point reads doReloadPt again.  The 3000 ms are the  *)
(* 2000 ms busy wait on the Timer and the one-second buzzer.               *)
LaunchScript ==
  << Write(FromMailbox, TRUE, 3000), Write(Trigger, TRUE, 1000),
     Write(FromMailbox, FALSE, 500), Write(Trigger, FALSE, 500) >>

=============================================================================
