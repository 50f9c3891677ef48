------------------------------ MODULE ManualMode ------------------------------
(***************************************************************************)
(* Driving by hand: ManualThread turns the controller's data into motor    *)
(* commands and launch requests, main()'s loop toggles the emergency stop  *)
(* and sends the commands to the motor driver.  The receive interrupt      *)
(* changes the data between any two of their steps; frames are whole here  *)
(* (PS4Link models how they are put together).                             *)
(***************************************************************************)
EXTENDS Integers, Sequences, FiniteSets

CONSTANTS
  Motors,    \* 4 in the code
  Speeds,    \* the commands that Move() computes, 0 aside
  Fingers    \* the launch buttons that the operator uses

ASSUME ManualAssumption ==
  /\ Motors \in Nat \ {0}
  /\ Speeds \subseteq Int
  /\ Fingers \subseteq {"CIRCLE", "CROSS", "SQUARE"}

Clicks == <<"CIRCLE", "CROSS", "SQUARE">>       \* in the order they are looked at
Point == [CIRCLE |-> 2, CROSS |-> 3, SQUARE |-> -1]
Buttons == DOMAIN Point

VARIABLES
  held,           \* ControllerData: the buttons down, with "R3"
  stick,          \* ControllerData: whether a stick or a trigger is off its rest
  old,            \* ControllerData_OLD: the launch buttons down
  link,           \* "unheard", "bytes" received, or whole frames, "framed"
  silent,         \* t has run for 500 ms
  at,             \* of ManualThread
  Motor, doReloadPt, doAutomode,
  chan,           \* of main(): the channel it is about to write, -1: the first
                  \* look at R3, -2: the second
  R3Flag, ProgEmerStop,
  out,            \* the command that the driver of each channel last received
  missed,         \* history: channels whose last write failed
  served,         \* history: buttons that have asked since they were last up
  spent,          \* history: R3 has toggled since it was last up
  early           \* history: automatic mode has started, with no frame come yet

data == <<held, stick, link, silent>>
manual == <<old, at, Motor, doAutomode>>
mainLoop == <<chan, R3Flag, ProgEmerStop, out, missed>>
vars == <<data, manual, doReloadPt, mainLoop, served, spent, early>>

Channels == 0..Motors

(* Mutation variant: the constructor leaves the sticks at 0.               *)
Init_StickZero ==
  /\ held = {} /\ stick = TRUE /\ old = {}
  /\ link = "unheard" /\ silent = FALSE
  /\ at = "loop"
  /\ Motor = [i \in 0..(Motors - 1) |-> 0] /\ doReloadPt = 0 /\ doAutomode = FALSE
  /\ chan = -1 /\ R3Flag = TRUE /\ ProgEmerStop = TRUE
  /\ out = [c \in Channels |-> 0] /\ missed = {}
  /\ served = {} /\ spent = FALSE /\ early = FALSE

Init ==
  /\ held = {} /\ stick = FALSE /\ old = {}
  /\ link = "unheard" /\ silent = FALSE
  /\ at = "loop"
  /\ Motor = [i \in 0..(Motors - 1) |-> 0] /\ doReloadPt = 0 /\ doAutomode = FALSE
  /\ chan = -1 /\ R3Flag = TRUE /\ ProgEmerStop = TRUE
  /\ out = [c \in Channels |-> 0] /\ missed = {}
  /\ served = {} /\ spent = FALSE /\ early = FALSE

-----------------------------------------------------------------------------
(* The controller.  Any byte restarts the timer, a whole frame changes the *)
(* data; two frames that differ in more are two of these in a row.         *)
Frame ==
  /\ \/ \E b \in Fingers \cup {"R3"} :
          /\ held' = IF b \in held THEN held \ {b} ELSE held \cup {b}
          /\ UNCHANGED stick
     \/ stick' = ~stick /\ UNCHANGED held
     \/ UNCHANGED <<held, stick>>
  /\ link' = "framed" /\ silent' = FALSE
  /\ served' = served \cap held'
  /\ spent' = (spent /\ "R3" \in held')
  /\ early' = FALSE
  /\ UNCHANGED <<manual, doReloadPt, mainLoop>>

Byte ==
  /\ link' = IF link = "unheard" THEN "bytes" ELSE link
  /\ silent' = FALSE
  /\ UNCHANGED <<held, stick, manual, doReloadPt, mainLoop, served, spent, early>>

(* The timer does not run before the first byte.                           *)
Silence ==
  /\ link # "unheard"
  /\ silent' = TRUE
  /\ UNCHANGED <<held, stick, link, manual, doReloadPt, mainLoop, served, spent, early>>

connected == ~silent

getButtonPress(b) == b \in held
getButtonClick(b) == b \in held /\ b \notin old

-----------------------------------------------------------------------------
(* ManualThread.                                                           *)

(* Mutation variant: ControllerData_OLD is not updated.                    *)
update_Left ==
  /\ at = "loop" /\ connected /\ ~doAutomode
  /\ at' = "wait"
  /\ UNCHANGED <<old, Motor, doAutomode, data, doReloadPt, mainLoop, served, spent, early>>

(* The millisecond that update() waits follows.                            *)
update ==
  /\ at = "loop" /\ connected /\ ~doAutomode
  /\ old' = held \cap Buttons
  /\ at' = "wait"
  /\ UNCHANGED <<Motor, doAutomode, data, doReloadPt, mainLoop, served, spent, early>>

(* Mutation variant: the dead zone of the stick is lost.                   *)
Move_NoDeadZone ==
  /\ at = "wait"
  /\ Motor' \in [DOMAIN Motor -> Speeds \cup {0}]
  /\ at' = "CIRCLE"
  /\ UNCHANGED <<old, doAutomode, data, doReloadPt, mainLoop, served, spent, early>>

(* Below 30 of 255 the distance of the stick is taken for 0.               *)
Move ==
  /\ at = "wait"
  /\ IF stick THEN Motor' \in [DOMAIN Motor -> Speeds \cup {0}]
     ELSE Motor' = [i \in DOMAIN Motor |-> 0]
  /\ at' = "CIRCLE"
  /\ UNCHANGED <<old, doAutomode, data, doReloadPt, mainLoop, served, spent, early>>

AfterClick == [CIRCLE |-> "CROSS", CROSS |-> "SQUARE", SQUARE |-> "automode"]

Click ==
  /\ at \in Buttons
  /\ IF getButtonClick(at) THEN
       doReloadPt' = Point[at] /\ at' = "automode" /\ served' = served \cup {at}
     ELSE at' = AfterClick[at] /\ UNCHANGED <<doReloadPt, served>>
  /\ UNCHANGED <<old, Motor, doAutomode, data, mainLoop, spent, early>>

(* The four buttons of the chord and the panel switch are left open.       *)
Automode ==
  /\ at = "automode"
  /\ doAutomode' \in {doAutomode, TRUE}
  /\ at' = "loop"
  /\ UNCHANGED <<old, Motor, data, doReloadPt, mainLoop, served, spent, early>>

(* Automatic mode runs inside this thread: any stores to Motor, and loader *)
(* cycles asked for.  It may go on for ever, and ends with Move(0, 0).     *)
MotorThread ==
  /\ at = "loop" /\ connected /\ doAutomode
  /\ at' = "auto" /\ early' = (link # "framed")
  /\ Motor' = [i \in DOMAIN Motor |-> 0]
  /\ UNCHANGED <<old, doAutomode, data, doReloadPt, mainLoop, served, spent>>

autoDrive ==
  /\ at = "auto"
  /\ \E i \in DOMAIN Motor, v \in Speeds \cup {0} : Motor' = [Motor EXCEPT ![i] = v]
  /\ doReloadPt' \in {doReloadPt, -1}
  /\ UNCHANGED <<old, at, doAutomode, data, mainLoop, served, spent, early>>

autoReturn ==
  /\ at = "auto"
  /\ at' = "loop" /\ doAutomode' = FALSE
  /\ Motor' = [i \in DOMAIN Motor |-> 0]
  /\ UNCHANGED <<old, data, doReloadPt, mainLoop, served, spent, early>>

(* ReloadThread has retired the request.                                   *)
Retire ==
  /\ doReloadPt' = 0
  /\ UNCHANGED <<data, manual, mainLoop, served, spent, early>>

-----------------------------------------------------------------------------
(* main()'s loop.                                                          *)

(* Mutation variant: a toggle leaves R3Flag alone.                         *)
pollR3_FlagKept ==
  /\ chan = -1
  /\ IF getButtonPress("R3") /\ R3Flag THEN
       ProgEmerStop' = ~ProgEmerStop /\ chan' = 0 /\ spent' = TRUE
     ELSE chan' = -2 /\ UNCHANGED <<ProgEmerStop, spent>>
  /\ UNCHANGED <<R3Flag, out, missed, data, manual, doReloadPt, served, early>>

pollR3 ==
  /\ chan = -1
  /\ IF getButtonPress("R3") /\ R3Flag THEN
       /\ R3Flag' = FALSE /\ ProgEmerStop' = ~ProgEmerStop
       /\ chan' = 0 /\ spent' = TRUE
     ELSE chan' = -2 /\ UNCHANGED <<R3Flag, ProgEmerStop, spent>>
  /\ UNCHANGED <<out, missed, data, manual, doReloadPt, served, early>>

(* R3 is read again, and may have changed since.                           *)
pollR3Again ==
  /\ chan = -2
  /\ R3Flag' = (R3Flag \/ ~getButtonPress("R3"))
  /\ chan' = 0
  /\ UNCHANGED <<ProgEmerStop, out, missed, data, manual, doReloadPt, served, spent, early>>

(* Mutation variant: the magnitude is not cut to a byte.                   *)
Driver_Wide(verocity) ==
  LET v == IF verocity < 0 THEN -verocity ELSE verocity
      duty == ((v * 227) \div 255 + 13) \div 2
  IN IF v = 0 THEN 0 ELSE IF verocity < 0 THEN -duty ELSE duty

(* PERICA::motor: the magnitude goes through a char; 0 lets the motor run  *)
(* free, anything else is scaled to 13..240 and halved.                    *)
Driver(verocity) ==
  LET v == (IF verocity < 0 THEN -verocity ELSE verocity) % 256
      duty == ((v * 227) \div 255 + 13) \div 2
  IN IF v = 0 THEN 0 ELSE IF verocity < 0 THEN -duty ELSE duty

(* Channels 0 and 1 are driven by the same motor command.                  *)
Source(c) == IF c = 0 THEN 0 ELSE c - 1

(* Mutation variant: channel 0 is not gated by the emergency stop.         *)
motor_Ungated(delivered) ==
  /\ chan \in Channels
  /\ IF delivered THEN
       /\ out' = [out EXCEPT ![chan] =
            IF ProgEmerStop \/ chan = 0 THEN Driver(Motor[Source(chan)]) ELSE 0]
       /\ missed' = missed \ {chan}
     ELSE missed' = missed \cup {chan} /\ UNCHANGED out
  /\ chan' = IF chan = Motors THEN -1 ELSE chan + 1
  /\ UNCHANGED <<R3Flag, ProgEmerStop, data, manual, doReloadPt, served, spent, early>>

(* The result of the write is not looked at: one that fails leaves the     *)
(* driver with its last command.                                           *)
motor(delivered) ==
  /\ chan \in Channels
  /\ IF delivered THEN
       /\ out' = [out EXCEPT ![chan] =
            IF ProgEmerStop THEN Driver(Motor[Source(chan)]) ELSE Driver(0)]
       /\ missed' = missed \ {chan}
     ELSE missed' = missed \cup {chan} /\ UNCHANGED out
  /\ chan' = IF chan = Motors THEN -1 ELSE chan + 1
  /\ UNCHANGED <<R3Flag, ProgEmerStop, data, manual, doReloadPt, served, spent, early>>

-----------------------------------------------------------------------------
ManualStep == update \/ Move \/ Click \/ Automode \/ MotorThread \/ autoDrive \/ autoReturn
MainStep == pollR3 \/ pollR3Again \/ motor(TRUE) \/ motor(FALSE)

Next == Frame \/ Byte \/ Silence \/ Retire \/ ManualStep \/ MainStep

(* Both threads run at the same priority under round-robin scheduling, and *)
(* a bus write fails now and then but not for ever.                        *)
Fairness ==
  /\ WF_vars(ManualStep) /\ WF_vars(MainStep)
  /\ \A c \in Channels : SF_vars(chan = c /\ motor(TRUE))

Spec == Init /\ [][Next]_vars /\ Fairness

-----------------------------------------------------------------------------
(* Properties.                                                             *)

TypeOK ==
  /\ held \subseteq Buttons \cup {"R3"} /\ stick \in BOOLEAN /\ old \subseteq Buttons
  /\ link \in {"unheard", "bytes", "framed"} /\ silent \in BOOLEAN
  /\ at \in {"loop", "wait", "automode", "auto"} \cup Buttons
  /\ Motor \in [0..(Motors - 1) -> Speeds \cup {0}]
  /\ doReloadPt \in {0, -1, 2, 3} /\ doAutomode \in BOOLEAN
  /\ chan \in -2..Motors /\ R3Flag \in BOOLEAN /\ ProgEmerStop \in BOOLEAN
  /\ out \in [Channels -> -120..120] /\ missed \subseteq Channels
  /\ served \subseteq Buttons /\ spent \in BOOLEAN /\ early \in BOOLEAN

(* The emergency stop reaches every motor in the pass that sees the press: *)
(* a channel that main() has written since, and whose write got through,   *)
(* is off, and stays off whatever either mode stores in Motor.             *)
EmergencyStopReaches ==
  ~ProgEmerStop =>
    \A c \in Channels \ missed : chan < 0 \/ c < chan => out[c] = 0

(* A press of R3 toggles the stop once, however often main() looks at it   *)
(* and whenever the data change between its two looks.                     *)
OneTogglePerPress ==
  [][ProgEmerStop' # ProgEmerStop => ~spent]_vars

(* A press of a launch button asks for a launch once, however many passes  *)
(* it lasts and whether or not the link drops out meanwhile.               *)
OneRequestPerPress ==
  [][\A b \in served : at = b => doReloadPt' \in {doReloadPt, 0}]_vars

(* connected() holds before anything was received: nothing moves and       *)
(* nothing is launched until the first frame has come or the panel has     *)
(* started automatic mode.                                                 *)
NothingBeforeFirstFrame ==
  link # "framed" /\ ~early =>
    /\ \A i \in DOMAIN Motor : Motor[i] = 0
    /\ \A c \in Channels : out[c] = 0
    /\ doReloadPt = 0

(* While the controller is heard, letting go of the sticks stops the robot *)
(* for good.                                                               *)
ReleasedStickStops ==
  <>[](~stick /\ ~silent /\ ~doAutomode) => <>[](\A c \in Channels : out[c] = 0)

=============================================================================
