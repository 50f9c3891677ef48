---------------------------- MODULE TableApproach ----------------------------
(***************************************************************************)
(* How the robot drives up to a table.  main() copies what the distance    *)
(* sensor says into Distance, filtered; MoveForwardTable, in another       *)
(* thread, reads Distance again and again and sets the speed; the robot    *)
(* moves, and Distance lags behind.                                        *)
(*                                                                         *)
(* Lengths are millimetres.  A command turns a motor only from 2 upwards:  *)
(* Move truncates 1 * cos to 0 at every angle the steering uses.  Sideways *)
(* motion, steering and the correction of the heading are left out.  The   *)
(* robot is seen at the places Marks, and one command takes it no further  *)
(* than to the next, except that of the back-off, which lasts a second.    *)
(***************************************************************************)
EXTENDS StartUp, FiniteSetsExt

CONSTANTS
  Legs,        \* the approaches: where to stop, speed, braking distance, ramp
  Marks,       \* the distances from the table at which the robot is seen
  MaxGarbled   \* bound: readings that the bus may spoil

(* No stop is out of the range of Distance; to brake takes more than the   *)
(* 10 mm at which the last loop ends.                                      *)
ASSUME ApproachAssumption ==
  /\ Legs \subseteq [stopDist : 0..990, targetSpd : Nat,
                     breakDist : Nat \ 0..9, ramp : BOOLEAN]
  /\ Marks \subseteq Nat \ {0}
  /\ MaxGarbled \in Nat

(* A command backwards, which stands for one turn of the last loop, takes  *)
(* the robot from before the stop to one of these marks at most.           *)
ASSUME MarksAssumption ==
  \A l \in Legs : Marks \cap (l.stopDist .. l.stopDist + 9) # {}

Nothing == -1    \* main() holds no reading

(* What a value of Distance rests on: a reading made before the robot      *)
(* stood ready for the approach, one made since, or a spoilt one.          *)
Sources == {"before", "sensor", "bus"}

VARIABLES
  distance,   \* the robot's distance from the table
  Distance,   \* the code's
  buf,        \* what main() has read and not yet stored
  leg,        \* the approach MoveForwardTable makes
  at,         \* where it is in that
  spd,        \* the speed last commanded
  moved,      \* the robot has moved on the last command
  garbled,    \* how many readings the bus has spoilt
  source,     \* history: where buf comes from, if it is a reading
  trust,      \* history: where the Distances of this approach come from
  informed    \* history: it set off with a reading made since it stood

world  == <<distance, moved>>
driver == <<leg, at, spd>>
main_  == <<Distance, buf, garbled, source, trust, informed>>
vars   == <<bootVars, world, driver, main_>>

Init ==
  /\ BootInit
  /\ distance \in Marks /\ moved = TRUE
  /\ Distance = 0 /\ buf = Nothing /\ garbled = 0
  /\ leg \in Legs /\ at = "away" /\ spd = 0
  /\ source = "before" /\ trust = "before" /\ informed = FALSE

-----------------------------------------------------------------------------
(* The loop of main().  A sensor whose set-up failed is not followed.      *)

ReadDistance ==
  /\ main = "loop" /\ ~failed
  /\ buf = Nothing
  /\ \/ buf' = distance /\ source' = "sensor" /\ UNCHANGED garbled
     \/ buf' = 0 /\ UNCHANGED <<source, garbled>>     \* no target
     \/ /\ garbled < MaxGarbled                      \* the read failed
        /\ buf' \in Marks
        /\ source' = "bus"
        /\ garbled' = garbled + 1
  /\ UNCHANGED <<bootVars, world, driver, Distance, trust, informed>>

Stored ==
  /\ trust' = IF buf = 0 \/ trust = "bus" THEN trust ELSE source
  /\ buf' = Nothing /\ source' = "before"
  /\ UNCHANGED <<bootVars, world, driver, garbled, informed>>

(* Mutation variant: no cap.                                               *)
StoreDistance_NoCap ==
  /\ buf # Nothing
  /\ Distance' = IF buf # 0 THEN buf ELSE Distance
  /\ Stored

StoreDistance ==
  /\ buf # Nothing
  /\ Distance' = IF buf > 1000 THEN 1000 ELSE IF buf # 0 THEN buf ELSE Distance
  /\ Stored

-----------------------------------------------------------------------------
(* MoveForwardTable.                                                       *)

Gap == Distance - leg.stopDist

(* Conversion of a quotient to int.  The code's is a float, short by one   *)
(* at eight distances beyond the braking distance.                         *)
Trunc(a, b) == IF a >= 0 THEN a \div b ELSE -((-a) \div b)

Command(s) == spd' = s /\ moved' = FALSE

(* The robot has come to the table's row from wherever it was.  An approach*)
(* that ramps up begins with a second of driving back; the second stop,    *)
(* with a move sideways.                                                   *)
Come ==
  /\ main = "loop" /\ ~failed
  /\ at = "away"
  /\ leg' \in Legs
  /\ IF leg'.ramp
     THEN at' = "back" /\ Command(-5)
     ELSE at' = "wait" /\ Command(0)
  /\ distance' \in Marks
  /\ source' = "before" /\ trust' = "before"
  /\ UNCHANGED <<bootVars, Distance, buf, garbled, informed>>

(* The end of that second: what was read until now is out of date.         *)
Halt ==
  /\ at = "back"
  /\ at' = "wait" /\ Command(0)
  /\ source' = "before" /\ trust' = "before"
  /\ UNCHANGED <<bootVars, distance, leg, Distance, buf, garbled, informed>>

(* The wait while the robot stands, half a second or, at the second stop,  *)
(* a whole one.                                                            *)
Go ==
  /\ at = "wait"
  /\ at' = IF leg.ramp THEN "ramp" ELSE "brake"
  /\ informed' = (trust = "sensor")
  /\ UNCHANGED <<bootVars, world, leg, spd, Distance, buf, garbled, source,
                 trust>>

(* A turn of the for loop: spd is what the one before commanded.           *)
Ramp ==
  /\ at = "ramp"
  /\ LET s == spd + 1
     IN IF s <= leg.targetSpd /\ leg.targetSpd * Gap >= s * leg.breakDist
        THEN Command(s) /\ UNCHANGED at
        ELSE at' = "cruise" /\ UNCHANGED <<spd, moved>>
  /\ UNCHANGED <<bootVars, distance, leg, main_>>

(* Mutation variant: the loop runs inside the braking distance.            *)
Cruise_Inside ==
  /\ at = "cruise"
  /\ IF Gap < leg.breakDist
     THEN Command(leg.targetSpd) /\ UNCHANGED at
     ELSE at' = "brake" /\ UNCHANGED <<spd, moved>>
  /\ UNCHANGED <<bootVars, distance, leg, main_>>

Cruise ==
  /\ at = "cruise"
  /\ IF Gap >= leg.breakDist
     THEN Command(leg.targetSpd) /\ UNCHANGED at
     ELSE at' = "brake" /\ UNCHANGED <<spd, moved>>
  /\ UNCHANGED <<bootVars, distance, leg, main_>>

(* Mutation variant: the loop runs until the speed moves nothing.          *)
Brake_UntilStill ==
  /\ at = "brake"
  /\ IF leg.targetSpd * Gap >= 2 * leg.breakDist
     THEN at' = "turn" /\ UNCHANGED <<spd, moved>>
     ELSE at' = "stopped" /\ Command(0)
  /\ UNCHANGED <<bootVars, distance, leg, main_>>

(* The last loop reads Distance for its condition and for the speed.       *)
Brake ==
  /\ at = "brake"
  /\ IF Gap >= 10
     THEN at' = "turn" /\ UNCHANGED <<spd, moved>>
     ELSE at' = "stopped" /\ Command(0)
  /\ UNCHANGED <<bootVars, distance, leg, main_>>

(* Mutation variant: the quotient is one of integers.                      *)
Turn_IntegerQuotient ==
  /\ at = "turn"
  /\ Command(leg.targetSpd * Trunc(Gap, leg.breakDist))
  /\ at' = "brake"
  /\ UNCHANGED <<bootVars, distance, leg, main_>>

Turn ==
  /\ at = "turn"
  /\ Command(Trunc(leg.targetSpd * Gap, leg.breakDist))
  /\ at' = "brake"
  /\ UNCHANGED <<bootVars, distance, leg, main_>>

(* The shots, and on to the next table.                                    *)
Depart ==
  /\ at = "stopped"
  /\ at' = "away"
  /\ UNCHANGED <<bootVars, world, leg, spd, main_>>

-----------------------------------------------------------------------------
Moves(s) == s \notin -1..1

Ahead  == {m \in Marks : m < distance}
Behind == {m \in Marks : m > distance}

(* The robot moves as commanded; negative speeds take it back, for any     *)
(* number of marks during the second of the back-off.                      *)
Roll ==
  /\ Moves(spd) /\ ~moved
  /\ \/ spd > 0 /\ Ahead # {} /\ distance' = Max(Ahead)
     \/ spd < 0 /\ Behind # {} /\ distance' = Min(Behind)
  /\ moved' = (at # "back")
  /\ UNCHANGED <<bootVars, driver, main_>>

StartingUp == Boot /\ UNCHANGED <<world, driver, main_>>

Thread == Come \/ Halt \/ Go \/ Ramp \/ Cruise \/ Brake \/ Turn \/ Depart

Next == StartingUp \/ ReadDistance \/ StoreDistance \/ Thread \/ Roll

Spec == Init /\ [][Next]_vars

(* main() and MoveForwardTable are threads that run; a sensor that is      *)
(* asked for ever answers rightly sometimes; a robot that is commanded for *)
(* ever moves sometimes.  The yaw board need not answer.                   *)
Fairness ==
  /\ WF_vars(StartingUp /\ main # "yaw")
  /\ WF_vars(Thread)
  /\ WF_vars(StoreDistance) /\ SF_vars(ReadDistance /\ buf' = distance)
  /\ SF_vars(Roll)

FairSpec == Spec /\ Fairness

-----------------------------------------------------------------------------
(* Properties.                                                             *)

TypeOK ==
  /\ BootTypeOK
  /\ {distance} \subseteq Marks
  /\ Distance \in 0..1000
  /\ buf \in Marks \cup {0, Nothing}
  /\ leg \in Legs
  /\ at \in {"away", "back", "wait", "ramp", "cruise", "brake", "turn",
             "stopped"}
  /\ spd \in Int
  /\ garbled \in 0..MaxGarbled
  /\ {source, trust} \subseteq Sources
  /\ {moved, informed} \subseteq BOOLEAN

(* However far Distance lags behind and whatever it does between the two   *)
(* reads of the last loop: if it was measured from before the robot set    *)
(* off until now, and never while it still backed away, the robot stops    *)
(* with the table within reach of the shot.                                *)
StopsNear ==
  [][(at = "brake" /\ at' = "stopped" /\ informed /\ trust = "sensor")
       => distance - leg.stopDist < 10]_vars

(* An approach that ramps up stays within its speed as long as the sensor  *)
(* tells the truth and main() stored a reading since the end of the        *)
(* back-off: the last loop, which has no limit of its own, is entered      *)
(* inside the braking distance and not left.                               *)
NoSurge ==
  (leg.ramp /\ informed /\ trust = "sensor"
     /\ at \in {"ramp", "cruise", "brake", "turn"})
    => spd <= leg.targetSpd

(* Where the last loop commands a speed that moves nothing.                *)
Stalled ==
  /\ at \in {"brake", "turn"}
  /\ ~Moves(spd)
  /\ Gap >= 10 /\ leg.targetSpd * Gap < 2 * leg.breakDist

(* An approach, its back-off included, ends, or the robot stands before    *)
(* the table for good, less than two steps of speed away, at a command too *)
(* small to move it.                                                       *)
ApproachSettles ==
  (at \notin {"away", "stopped"}) ~> (at = "stopped" \/ []Stalled)

=============================================================================
