----------------------------- MODULE Serial6050 -----------------------------
(***************************************************************************)
(* The yaw sensor link.  The sensor board sends the robot's heading as one *)
(* byte, which wraps; the receive interrupt unwraps it into Deg, adding or *)
(* taking 255 when the byte jumps by more than 127.  init() attaches the   *)
(* interrupt, waits a tenth of a second and takes the zero of read().      *)
(*                                                                         *)
(* A lost byte is no event of its own: the next one that arrives stands    *)
(* for a larger turn.  Headings are in the unit of the byte, a tenth of a  *)
(* degree.  Each access to Deg and resetValue is a single one, so every    *)
(* operation is one step.                                                  *)
(***************************************************************************)
EXTENDS Integers

CONSTANTS
  Modulus,     \* what the sensor wraps its byte at
  Turns,       \* how far the robot may turn, either way, between two bytes
  MaxHeading   \* bound: how far it turns from where it started

(* The link is right only for these: the sensor wraps at the 255 that      *)
(* intReceive assumes, and less than half a turn of the byte is lost.      *)
ASSUME YawAssumption ==
  /\ Modulus = 255
  /\ Turns \subseteq 0..127
  /\ MaxHeading \in Nat

VARIABLES
  phase,                  \* of init()
  heard,                  \* the heading the last byte stood for
  old,                    \* the last byte; None before the first
  Bias, Deg, resetValue,
  origin, synced          \* history: heard at reset(), and whether a byte had come

vars == <<phase, heard, old, Bias, Deg, resetValue, origin, synced>>

None == -1   \* no byte

Byte(h) == h % Modulus

(* Mutation variant: the threshold one too low.                            *)
Correction_Early(data, last) ==
  IF data - last > 126 THEN -255 ELSE IF last - data > 127 THEN 255 ELSE 0

(* What intReceive adds to Bias.                                           *)
Correction(data, last) ==
  IF data - last > 127 THEN -255 ELSE IF last - data > 127 THEN 255 ELSE 0

Init ==
  /\ phase = "boot"
  /\ heard \in 0..(Modulus - 1)
  /\ old = None
  /\ Bias = 0 /\ Deg = 0 /\ resetValue = 0
  /\ origin = heard /\ synced = FALSE

-----------------------------------------------------------------------------
(* init() until the board has answered and the interrupt is attached.      *)
Attach ==
  /\ phase = "boot"
  /\ phase' = "listening"
  /\ UNCHANGED <<heard, old, Bias, Deg, resetValue, origin, synced>>

(* The first byte stands for the heading the robot starts from; later ones *)
(* come after a turn.                                                      *)
Turned ==
  IF old = None THEN {heard}
  ELSE {h \in {heard + d : d \in Turns} \cup {heard - d : d \in Turns} :
          h \in -MaxHeading..MaxHeading}

(* Mutation variant: Deg computed with the Bias of the byte before.        *)
intReceive_StaleBias ==
  /\ phase # "boot"
  /\ \E h \in Turned :
       LET data == Byte(h)
           last == IF old = None THEN data ELSE old
       IN /\ Bias' = Bias + Correction(data, last)
          /\ Deg' = data + Bias
          /\ old' = data
          /\ heard' = h
  /\ UNCHANGED <<phase, resetValue, origin, synced>>

(* The receive interrupt; its static old starts as the first byte.         *)
intReceive ==
  /\ phase # "boot"
  /\ \E h \in Turned :
       LET data == Byte(h)
           last == IF old = None THEN data ELSE old
       IN /\ Bias' = Bias + Correction(data, last)
          /\ Deg' = data + Bias'
          /\ old' = data
          /\ heard' = h
  /\ UNCHANGED <<phase, resetValue, origin, synced>>

(* Mutation variant: reset() takes the byte for the angle.                 *)
reset_Byte ==
  /\ phase = "listening"
  /\ phase' = "running"
  /\ resetValue' = old /\ origin' = heard /\ synced' = (old # None)
  /\ UNCHANGED <<heard, old, Bias, Deg>>

(* reset(), a tenth of a second after Attach, whether a byte has come or   *)
(* not.                                                                    *)
reset ==
  /\ phase = "listening"
  /\ phase' = "running"
  /\ resetValue' = Deg /\ origin' = heard /\ synced' = (old # None)
  /\ UNCHANGED <<heard, old, Bias, Deg>>

Next == Attach \/ intReceive \/ reset

Spec == Init /\ [][Next]_vars

(* What read() returns, before its division by 10.                         *)
read == Deg - resetValue

-----------------------------------------------------------------------------
(* Properties.                                                             *)

(* The byte is in the sensor's range, and Deg is that byte plus a whole    *)
(* number of its turns: intReceive never leaves a fraction of one behind.  *)
TypeOK ==
  /\ phase \in {"boot", "listening", "running"}
  /\ heard \in Int /\ origin \in Int /\ synced \in BOOLEAN
  /\ old \in {None} \cup 0..(Modulus - 1)
  /\ Bias \in Int /\ Bias % 255 = 0
  /\ Deg \in Int
  /\ old # None => Deg = old + Bias
  /\ resetValue \in Int

(* The heading corrections of MoveForwardTable use read() as the angle     *)
(* turned since init(): it is, over any number of wraps of the byte, once  *)
(* a byte had come when reset() took its zero.                             *)
ReadSinceReset == synced => read = heard - origin

(* The link implements the abstract one: from report to report Deg moves   *)
(* with the robot.  Before the first byte Deg stands for nothing.          *)
Abstract == INSTANCE Heading WITH
  reported <- heard, angle <- IF old = None THEN heard ELSE Deg

HeadingSpec == Abstract!Spec

=============================================================================
