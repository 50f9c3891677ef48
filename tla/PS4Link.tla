------------------------------ MODULE PS4Link -------------------------------
(***************************************************************************)
(* The serial link from the controller.  A frame is a header byte, the     *)
(* data bytes and a checksum; the receive interrupt of PS4Serial collects  *)
(* the data in Receive and copies it to ControllerData when the checksum   *)
(* fits.  Bytes may be lost on the way, and nothing tells the receiver.    *)
(***************************************************************************)
EXTENDS Integers

CONSTANTS
  Values,    \* the data bytes that the controller sends
  Length     \* data bytes of a frame: 8 in the code

Header == 255

(* A stick at its limit must not be sent as the header byte.               *)
ASSUME LinkAssumption ==
  /\ Length \in Nat \ {0}
  /\ Values \subseteq 0..254

VARIABLES
  frame,      \* the frame being sent
  pos,        \* its next byte: 0 the header, 1..Length data, then the checksum
  sum,        \* of the data bytes sent
  lostNow,    \* a byte of this frame was lost
  lostBefore, \* a byte of the frame before was lost
  sparse,     \* history: never two bytes of two frames in a row lost so far
  rp, check, Receive, ControllerData

sender == <<frame, pos, sum, lostNow, lostBefore, sparse>>
receiver == <<rp, check, Receive, ControllerData>>
vars == <<sender, receiver>>

Frames == [1..Length -> Values]

(* 127 is a stick at rest; the indices of the code start at 0.             *)
Neutral == [i \in 1..Length |-> IF i - 1 \in 2..5 THEN 127 ELSE 0]

Init ==
  /\ frame \in Frames /\ pos = 0 /\ sum = 0
  /\ lostNow = FALSE /\ lostBefore = FALSE /\ sparse = TRUE
  /\ rp = 0 /\ check = 0
  /\ Receive = [i \in 1..Length |-> 0]
  /\ ControllerData = Neutral

-----------------------------------------------------------------------------
(* Mutation variant: one data byte more is taken for data.                 *)
WirelessRecive_OneMore(data) ==
  IF data = Header THEN
    /\ rp' = 0 /\ check' = 0
    /\ UNCHANGED <<Receive, ControllerData>>
  ELSE IF rp > Length THEN
    /\ ControllerData' = IF check % 128 = data THEN Receive ELSE ControllerData
    /\ UNCHANGED <<rp, check, Receive>>
  ELSE
    /\ Receive' = [Receive EXCEPT ![rp + 1] = data]
    /\ rp' = rp + 1 /\ check' = check + data
    /\ UNCHANGED ControllerData

(* Mutation variant: the last data byte is taken for the checksum.         *)
WirelessRecive_OneLess(data) ==
  IF data = Header THEN
    /\ rp' = 0 /\ check' = 0
    /\ UNCHANGED <<Receive, ControllerData>>
  ELSE IF rp >= Length - 1 THEN
    /\ ControllerData' = IF check % 128 = data THEN Receive ELSE ControllerData
    /\ UNCHANGED <<rp, check, Receive>>
  ELSE
    /\ Receive' = [Receive EXCEPT ![rp + 1] = data]
    /\ rp' = rp + 1 /\ check' = check + data
    /\ UNCHANGED ControllerData

(* Mutation variant: the header does not clear the checksum.               *)
WirelessRecive_SumKept(data) ==
  IF data = Header THEN
    /\ rp' = 0
    /\ UNCHANGED <<check, Receive, ControllerData>>
  ELSE IF rp >= Length THEN
    /\ ControllerData' = IF check % 128 = data THEN Receive ELSE ControllerData
    /\ UNCHANGED <<rp, check, Receive>>
  ELSE
    /\ Receive' = [Receive EXCEPT ![rp + 1] = data]
    /\ rp' = rp + 1 /\ check' = (check + data) % 256
    /\ UNCHANGED ControllerData

(* The receive interrupt.  After the checksum rp stays at Length, so until *)
(* the next header every byte is compared with the checksum again.         *)
WirelessRecive(data) ==
  IF data = Header THEN
    /\ rp' = 0 /\ check' = 0
    /\ UNCHANGED <<Receive, ControllerData>>
  ELSE IF rp >= Length THEN
    /\ ControllerData' = IF check % 128 = data THEN Receive ELSE ControllerData
    /\ UNCHANGED <<rp, check, Receive>>
  ELSE
    /\ Receive' = [Receive EXCEPT ![rp + 1] = data]
    /\ rp' = rp + 1 /\ check' = check + data
    /\ UNCHANGED ControllerData

-----------------------------------------------------------------------------
(* The controller and the line.                                            *)

Byte ==
  IF pos = 0 THEN Header
  ELSE IF pos <= Length THEN frame[pos] ELSE sum % 128

(* The controller goes on to its next byte, or to a new frame; lost says   *)
(* whether this byte was.                                                  *)
Advance(lost) ==
  IF pos = Length + 1 THEN
    /\ frame' \in Frames /\ pos' = 0 /\ sum' = 0
    /\ lostBefore' = (lostNow \/ lost) /\ lostNow' = FALSE
  ELSE
    /\ pos' = pos + 1
    /\ sum' = IF pos = 0 THEN 0 ELSE sum + frame[pos]
    /\ lostNow' = (lostNow \/ lost)
    /\ UNCHANGED <<frame, lostBefore>>

Deliver ==
  /\ WirelessRecive(Byte)
  /\ Advance(FALSE)
  /\ UNCHANGED sparse

Lose ==
  /\ sparse' = (sparse /\ ~lostNow /\ ~lostBefore)
  /\ Advance(TRUE)
  /\ UNCHANGED receiver

Next == Deliver \/ Lose

Spec == Init /\ [][Next]_vars

-----------------------------------------------------------------------------
(* Properties.                                                             *)

TypeOK ==
  /\ frame \in Frames /\ pos \in 0..(Length + 1) /\ sum \in Nat
  /\ lostNow \in BOOLEAN /\ lostBefore \in BOOLEAN /\ sparse \in BOOLEAN
  /\ rp \in 0..Length /\ check \in Nat
  /\ Receive \in [1..Length -> 0..254]
  /\ ControllerData \in [1..Length -> 0..254]

(* A frame that arrives whole is taken over with its last byte, whatever   *)
(* was lost before it: the header alone brings the receiver back in step.  *)
IntactFrameAccepted ==
  [][pos # 0 /\ pos' = 0 /\ ~lostBefore' => ControllerData' = frame]_vars

(* While at most one byte of two frames is lost, ControllerData only ever  *)
(* changes to the frame being sent, never to a mixture of two or to a      *)
(* shifted one that the checksum lets pass.                                *)
NoMixedFrame ==
  [][sparse' /\ ControllerData' # ControllerData => ControllerData' = frame]_vars

=============================================================================
