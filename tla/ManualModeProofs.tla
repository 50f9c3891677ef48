--------------------------- MODULE ManualModeProofs ---------------------------
(***************************************************************************)
(* Driving by hand, for every number of motors, every set of commands and  *)
(* every choice of buttons.  Each property is an invariant of its own, or  *)
(* follows from one; they share the type invariant only.                   *)
(***************************************************************************)
EXTENDS ManualMode, TLAPS

(* The driver's command stays within its seven bits and keeps off off.     *)
LEMMA DriverRange ==
  ASSUME NEW s \in Int
  PROVE  Driver(s) \in -120..120
<1> DEFINE v == (IF s < 0 THEN -s ELSE s) % 256
           duty == ((v * 227) \div 255 + 13) \div 2
<1>1. v \in 0..255
  OBVIOUS
<1> HIDE DEF v
<1>2. (v * 227) \div 255 \in 0..227
  BY <1>1
<1>3. duty \in 0..120
  BY <1>2
<1>4. Driver(s) \in {0, duty, -duty}
  BY DEF Driver, v, duty
<1> HIDE DEF duty
<1> QED
  BY <1>3, <1>4

LEMMA DriverOff == Driver(0) = 0
  BY DEF Driver

LEMMA ButtonNames == Buttons = {"CIRCLE", "CROSS", "SQUARE"}
  BY DEF Buttons, Point

-----------------------------------------------------------------------------
(* Types: the controller's side, the commands, and the flags.              *)
DataType ==
  /\ held \subseteq Buttons \cup {"R3"} /\ old \subseteq Buttons /\ served \subseteq Buttons
  /\ link \in {"unheard", "bytes", "framed"}
  /\ at \in {"loop", "wait", "automode", "auto"} \cup Buttons
  /\ doReloadPt \in {0, -1, 2, 3}

OutputType ==
  /\ Motor \in [0..(Motors - 1) -> Speeds \cup {0}]
  /\ chan \in -2..Motors
  /\ out \in [Channels -> -120..120] /\ missed \subseteq Channels

FlagType ==
  /\ stick \in BOOLEAN /\ silent \in BOOLEAN /\ doAutomode \in BOOLEAN
  /\ R3Flag \in BOOLEAN /\ ProgEmerStop \in BOOLEAN /\ spent \in BOOLEAN
  /\ early \in BOOLEAN

LEMMA TypeParts == TypeOK <=> DataType /\ OutputType /\ FlagType
  BY Zenon DEF TypeOK, DataType, OutputType, FlagType

LEMMA TypeInit == Init => TypeOK
<1> SUFFICES ASSUME Init PROVE DataType /\ OutputType /\ FlagType
  BY TypeParts
<1>1. DataType
  BY DEF Init, DataType
<1>2. OutputType
  BY ManualAssumption DEF Init, OutputType, Channels
<1>3. FlagType
  BY DEF Init, FlagType
<1> QED
  BY <1>1, <1>2, <1>3

LEMMA DataStep == DataType /\ [Next]_vars => DataType'
<1> SUFFICES ASSUME DataType, [Next]_vars PROVE DataType'
  OBVIOUS
<1> USE ButtonNames DEF DataType
<1>1. CASE UNCHANGED <<data, manual, doReloadPt, served>>
  BY <1>1 DEF data, manual
<1>2. CASE Frame
  BY <1>2, ManualAssumption DEF Frame, manual
<1>3. CASE Byte \/ Silence \/ Retire
  BY <1>3 DEF Byte, Silence, Retire, data, manual
<1>4. CASE update \/ Move \/ Automode \/ MotorThread \/ autoDrive \/ autoReturn
  BY <1>4 DEF update, Move, Automode, MotorThread, autoDrive, autoReturn, data
<1>5. CASE Click
  <2>1. doReloadPt' \in {doReloadPt, -1, 2, 3}
    BY <1>5 DEF Click, Point
  <2>2. at' \in {"automode"} \cup Buttons
    BY <1>5 DEF Click, AfterClick
  <2>3. served' \subseteq Buttons /\ UNCHANGED <<held, old, link>>
    BY <1>5 DEF Click, data
  <2> QED
    BY <2>1, <2>2, <2>3
<1> QED
  BY <1>1, <1>2, <1>3, <1>4, <1>5
     DEF Next, ManualStep, MainStep, pollR3, pollR3Again, motor, vars

LEMMA OutputStep == OutputType /\ [Next]_vars => OutputType'
<1> SUFFICES ASSUME OutputType, [Next]_vars PROVE OutputType'
  OBVIOUS
<1> USE ManualAssumption DEF OutputType
<1>1. CASE UNCHANGED <<Motor, mainLoop>>
  BY <1>1 DEF mainLoop
<1>2. CASE pollR3 \/ pollR3Again
  <2>1. UNCHANGED <<Motor, out, missed>> /\ chan' \in {-2, 0}
    BY <1>2 DEF pollR3, pollR3Again, manual
  <2> QED
    BY <2>1
<1>3. CASE Move \/ MotorThread \/ autoDrive \/ autoReturn
  BY <1>3 DEF Move, MotorThread, autoDrive, autoReturn, mainLoop
<1>4. ASSUME NEW d \in BOOLEAN, motor(d) PROVE OutputType'
  <2>1. chan \in 0..Motors /\ Source(chan) \in 0..(Motors - 1)
    BY <1>4 DEF motor, Channels, Source
  <2>2. Motor[Source(chan)] \in Speeds \cup {0}
    BY <2>1
  <2>3. Motor[Source(chan)] \in Int
    <3>1. Speeds \cup {0} \subseteq Int
      BY ManualAssumption
    <3> QED
      BY <2>2, <3>1, Zenon
  <2>4. Driver(Motor[Source(chan)]) \in -120..120
    BY <2>3, DriverRange
  <2>5. Driver(0) \in -120..120
    BY DriverOff
  <2>6. out' \in [Channels -> -120..120]
    BY <1>4, <2>4, <2>5 DEF motor
  <2>7. missed' \subseteq Channels
    BY <1>4 DEF motor
  <2>8. chan' \in -2..Motors /\ Motor' = Motor
    BY <1>4, <2>1 DEF motor, manual
  <2> QED
    BY <2>6, <2>7, <2>8
<1> QED
  BY <1>1, <1>2, <1>3, <1>4 DEF Next, ManualStep, MainStep, Frame, Byte, Silence,
     Retire, update, Click, Automode, vars, manual

LEMMA FlagStep == FlagType /\ [Next]_vars => FlagType'
<1> SUFFICES ASSUME FlagType, [Next]_vars PROVE FlagType'
  OBVIOUS
<1> USE DEF FlagType, data, manual, mainLoop
<1>1. CASE UNCHANGED vars
  BY <1>1, Zenon DEF vars
<1>2. CASE Frame
  BY <1>2, Zenon DEF Frame
<1>3. CASE Byte \/ Silence \/ Retire
  BY <1>3, Zenon DEF Byte, Silence, Retire
<1>4. CASE update \/ Move \/ Click
  BY <1>4, Zenon DEF update, Move, Click
<1>5. CASE Automode \/ MotorThread \/ autoDrive \/ autoReturn
  BY <1>5, Zenon DEF Automode, MotorThread, autoDrive, autoReturn
<1>6. CASE pollR3
  BY <1>6, Zenon DEF pollR3
<1>7. CASE pollR3Again
  BY <1>7, Zenon DEF pollR3Again
<1>8. CASE motor(TRUE) \/ motor(FALSE)
  BY <1>8, Zenon DEF motor
<1> QED
  BY <1>1, <1>2, <1>3, <1>4, <1>5, <1>6, <1>7, <1>8, Zenon DEF Next, ManualStep, MainStep

(* Every variable keeps its type; in particular the command of a driver    *)
(* stays within seven bits whatever is computed for the motor.             *)
THEOREM ManualTypeCorrect == Spec => []TypeOK
<1>1. TypeOK /\ [Next]_vars => TypeOK'
  <2> SUFFICES ASSUME TypeOK, [Next]_vars PROVE TypeOK'
    OBVIOUS
  <2>1. DataType /\ OutputType /\ FlagType
    BY TypeParts
  <2>2. (DataType /\ OutputType /\ FlagType)'
    BY <2>1, DataStep, OutputStep, FlagStep
  <2> QED
    BY <2>2, TypeParts, PTL
<1> QED
  BY <1>1, TypeInit, PTL DEF Spec

-----------------------------------------------------------------------------
(* An emergency stop that main() has carried as far as channel chan.       *)
StopHolds ==
  /\ EmergencyStopReaches
  /\ chan \in -2..Motors /\ DOMAIN out = Channels

LEMMA StopInit == Init => StopHolds
  BY ManualAssumption DEF Init, StopHolds, EmergencyStopReaches, Channels

LEMMA StopStep == StopHolds /\ [Next]_vars => StopHolds'
<1> SUFFICES ASSUME StopHolds, [Next]_vars PROVE StopHolds'
  OBVIOUS
<1> USE ManualAssumption DEF StopHolds, EmergencyStopReaches, Channels
<1>1. CASE UNCHANGED mainLoop
  BY <1>1 DEF mainLoop
<1>2. CASE pollR3
  BY <1>2 DEF pollR3
<1>3. CASE pollR3Again
  BY <1>3 DEF pollR3Again
<1>4. ASSUME NEW d \in BOOLEAN, motor(d) PROVE StopHolds'
  BY <1>4, DriverOff DEF motor
<1> QED
  BY <1>1, <1>2, <1>3, <1>4 DEF Next, ManualStep, MainStep, Frame, Byte, Silence,
     Retire, update, Move, Click, Automode, MotorThread, autoDrive, autoReturn, vars

(* The emergency stop reaches every motor, whatever is stored in Motor.    *)
THEOREM StopReachesAll == Spec => []EmergencyStopReaches
<1>1. StopHolds => EmergencyStopReaches
  BY DEF StopHolds
<1> QED
  BY <1>1, StopInit, StopStep, PTL DEF Spec

-----------------------------------------------------------------------------
(* R3 has toggled the stop and is down still; R3Flag waits for its release.*)
ToggleArmed == spent => "R3" \in held /\ ~R3Flag

LEMMA ToggleInit == Init => ToggleArmed
  BY DEF Init, ToggleArmed

LEMMA ToggleStep == ToggleArmed /\ [Next]_vars => ToggleArmed'
<1> SUFFICES ASSUME ToggleArmed, [Next]_vars PROVE ToggleArmed'
  OBVIOUS
<1> USE DEF ToggleArmed
<1>1. CASE UNCHANGED <<held, R3Flag, spent>>
  BY <1>1
<1>2. CASE Frame
  BY <1>2 DEF Frame, mainLoop
<1>3. CASE pollR3
  BY <1>3 DEF pollR3, getButtonPress, data
<1>4. CASE pollR3Again
  BY <1>4 DEF pollR3Again, getButtonPress, data
<1> QED
  BY <1>1, <1>2, <1>3, <1>4 DEF Next, ManualStep, MainStep, Byte, Silence, motor,
     Retire, update, Move, Click, Automode, MotorThread, autoDrive, autoReturn, vars, data, mainLoop

(* A press of R3 toggles the emergency stop once.                          *)
THEOREM OnePressOneToggle == Spec => OneTogglePerPress
<1>1. ToggleArmed /\ [Next]_vars => [ProgEmerStop' # ProgEmerStop => ~spent]_vars
  <2> SUFFICES ASSUME ToggleArmed, Next, ProgEmerStop' # ProgEmerStop
               PROVE  ~spent
    BY DEF vars, mainLoop
  <2>1. pollR3
    BY DEF Next, ManualStep, MainStep, Frame, Byte, Silence, Retire, update, Move, Click,
       Automode, MotorThread, autoDrive, autoReturn, pollR3Again, motor, mainLoop
  <2> QED
    BY <2>1 DEF pollR3, ToggleArmed
<1> QED
  BY <1>1, ToggleInit, ToggleStep, PTL DEF Spec, OneTogglePerPress

-----------------------------------------------------------------------------
(* A button that has asked is down still, and from the copy that update()  *)
(* takes of the data on ControllerData_OLD shows it.                       *)
ClickArmed ==
  \A b \in served :
    /\ b \in held /\ b \in Buttons
    /\ at \in {"wait"} \cup Buttons => b \in old

LEMMA ClickInit == Init => ClickArmed
  BY DEF Init, ClickArmed

LEMMA ClickStep == ClickArmed /\ [Next]_vars => ClickArmed'
<1> SUFFICES ASSUME ClickArmed, [Next]_vars PROVE ClickArmed'
  OBVIOUS
<1> USE DEF ClickArmed
<1>0. Buttons = {"CIRCLE", "CROSS", "SQUARE"}
  BY DEF Buttons, Point
<1>1. CASE UNCHANGED <<held, served, old, at>>
  BY <1>1
<1>2. CASE Frame
  BY <1>2 DEF Frame, manual
<1>3. CASE update
  BY <1>3 DEF update, data
<1>4. CASE Move
  BY <1>4, <1>0 DEF Move, data
<1>5. CASE Click
  BY <1>5, <1>0 DEF Click, data, getButtonClick, AfterClick
<1>6. CASE Automode \/ MotorThread \/ autoReturn
  BY <1>6, <1>0 DEF Automode, MotorThread, autoReturn, data
<1> QED
  BY <1>1, <1>2, <1>3, <1>4, <1>5, <1>6 DEF Next, ManualStep, MainStep, Byte, Silence,
     motor, pollR3, pollR3Again, Retire, autoDrive, vars, data, manual

(* A press of a launch button asks for one launch.                         *)
THEOREM OnePressOneRequest == Spec => OneRequestPerPress
<1>1. ClickArmed /\ [Next]_vars =>
        [\A b \in served : at = b => doReloadPt' \in {doReloadPt, 0}]_vars
  <2> SUFFICES ASSUME ClickArmed, [Next]_vars, NEW b \in served, at = b
               PROVE  doReloadPt' \in {doReloadPt, 0}
    BY DEF vars
  <2>1. b \in old
    BY DEF ClickArmed
  <2>2. CASE Click
    BY <2>1, <2>2 DEF Click, getButtonClick
  <2>3. CASE Retire
    BY <2>3 DEF Retire
  <2>4. CASE autoDrive
    BY <2>4, ButtonNames DEF autoDrive, ClickArmed
  <2> QED
    BY <2>2, <2>3, <2>4 DEF Next, ManualStep, MainStep, Frame, Byte, Silence, update, Move,
       Automode, MotorThread, autoDrive, autoReturn, pollR3, pollR3Again, motor, vars
<1> QED
  BY <1>1, ClickInit, ClickStep, PTL DEF Spec, OneRequestPerPress

-----------------------------------------------------------------------------
(* Until the first frame the data are the constructor's, and so is all     *)
(* that is computed from them.                                             *)
BeforeFirstFrame ==
  link # "framed" /\ ~early =>
    /\ held = {} /\ ~stick /\ doReloadPt = 0
    /\ at # "auto"
    /\ Motor = [i \in 0..(Motors - 1) |-> 0]
    /\ out = [c \in Channels |-> 0]

LEMMA FrameInit == Init => BeforeFirstFrame
  BY DEF Init, BeforeFirstFrame

LEMMA FrameStep == BeforeFirstFrame /\ chan \in -2..Motors /\ [Next]_vars => BeforeFirstFrame'
<1> SUFFICES ASSUME BeforeFirstFrame, chan \in -2..Motors, [Next]_vars,
                    link' # "framed", ~early'
             PROVE  BeforeFirstFrame'
  BY DEF BeforeFirstFrame
<1> USE DEF BeforeFirstFrame
<1>0. ~Frame /\ (MotorThread => link = "framed" \/ early')
  BY DEF Frame, MotorThread
<1>1. CASE UNCHANGED <<link, early, held, stick, doReloadPt, at, Motor, out>>
  BY <1>1
<1>2. CASE Retire
  BY <1>2 DEF Retire, data, manual, mainLoop
<1>3. CASE update \/ Automode
  BY <1>3 DEF update, Automode, data, mainLoop
<1>4. CASE Move
  BY <1>4 DEF Move, data, mainLoop
<1>5. CASE Click
  BY <1>5 DEF Click, data, mainLoop, getButtonClick, AfterClick, Buttons, Point
<1>6. CASE MotorThread
  BY <1>6, <1>0 DEF MotorThread, data
<1>7. CASE autoDrive \/ autoReturn
  BY <1>7 DEF autoDrive, autoReturn, data, mainLoop
<1>8. ASSUME NEW d \in BOOLEAN, motor(d) PROVE BeforeFirstFrame'
  BY <1>8, DriverOff, ManualAssumption DEF motor, data, manual, Channels, Source
<1>9. CASE Byte
  BY <1>9 DEF Byte, manual, mainLoop
<1> QED
  BY <1>0, <1>1, <1>2, <1>3, <1>4, <1>5, <1>6, <1>7, <1>8, <1>9 DEF Next, ManualStep,
     MainStep, Silence, pollR3, pollR3Again, vars, data, manual, mainLoop

(* Nothing moves and nothing is launched before the first frame.           *)
THEOREM QuietBeforeFirstFrame == Spec => []NothingBeforeFirstFrame
<1>1. BeforeFirstFrame => NothingBeforeFirstFrame
  BY DEF BeforeFirstFrame, NothingBeforeFirstFrame
<1>2. StopHolds => chan \in -2..Motors
  BY DEF StopHolds
<1> QED
  BY <1>1, <1>2, StopInit, StopStep, FrameInit, FrameStep, PTL DEF Spec

=============================================================================
