---------------------------- MODULE ApproachProofs --------------------------
(***************************************************************************)
(* Proofs about StartUp and TableApproach, for every size of the block and *)
(* of the chunks, all approaches and places.                               *)
(*                                                                         *)
(* Start-up: the chunks of startMeasurement cover the block, each register *)
(* once and none with a wrong byte.                                        *)
(*                                                                         *)
(* Approach: as long as the robot is driven ahead, Distance and the        *)
(* reading that main() holds are places it has passed, in their order.     *)
(* Only the last loop's second read of Distance drives it back, from       *)
(* beyond the stop, and the next turn ends that loop.                      *)
(***************************************************************************)
EXTENDS TableApproach, WellFoundedInduction, TLAPS

Early == {"identify", "poll", "trim"}
Late  == {"send", "yaw", "loop"}

Blank == [a \in Block |-> "default"]
Stale == [a \in Block |-> "stale"]

(* The chunks sent so far and the bytes to send make up the block.         *)
Progress ==
  /\ address \in 1..(BlockSize + 1)
  /\ leftToSend \in 0..BlockSize
  /\ address + leftToSend = BlockSize + 1
  /\ main \in {"yaw", "loop"} => leftToSend = 0

BeforeSending ==
  main \in Early =>
    /\ address = 1
    /\ configBlock = Blank
    /\ registers \in {AfterReset, Stale}
    /\ main # "identify" /\ ~failed => registers = AfterReset

(* What has been sent is as it should be, and so is what will be.          *)
WhileSending ==
  main \in Late /\ ~failed =>
    /\ configBlock = Intended
    /\ \A a \in Block : a < address => registers[a] = Intended[a]

BootInv == BootTypeOK /\ Progress /\ BeforeSending /\ WhileSending

-----------------------------------------------------------------------------
LEMMA BlockFits == BlockSize \in Nat /\ BlockSize \in 1..254 /\ Trimmed \in Nat
BY StartUpAssumption

(* A chunk is not empty, fits what is left, and its end fits a byte.       *)
LEMMA ChunkFits ==
  ASSUME Progress, leftToSend > 0
  PROVE  /\ ToSend \in 1..leftToSend
         /\ (address + ToSend) % 256 = address + ToSend
<1>1. ToSend \in 1..leftToSend
  BY StartUpAssumption DEF ToSend, Progress
<1>2. address + ToSend \in 0..255
  BY <1>1, BlockFits DEF Progress
<1>3. \A n \in 0..255 : n % 256 = n
  OBVIOUS
<1> QED
  BY <1>1, <1>2, <1>3

LEMMA BootInitEstablishes == BootInit => BootInv
<1> SUFFICES ASSUME BootInit PROVE BootInv
  OBVIOUS
<1>1. BootTypeOK
  <2>1. failed \in BOOLEAN
    BY DEF BootInit
  <2> QED
    BY <2>1, StartUpAssumption DEF BootInit, BootTypeOK, AfterReset, Block
<1>2. Progress
  BY BlockFits DEF BootInit, Progress
<1>3. BeforeSending
  BY DEF BootInit, BeforeSending, Blank, Stale, Early
<1>4. WhileSending
  BY DEF BootInit, WhileSending, Late
<1> QED
  BY <1>1, <1>2, <1>3, <1>4 DEF BootInv

LEMMA IdentifyPreserves == ASSUME BootInv, Identify PROVE BootInv'
<1>1. UNCHANGED <<counter, configBlock, address, leftToSend>>
  BY DEF Identify
<1>2. /\ main = "identify" /\ main' \in {"poll", "offline"}
      /\ registers' \in {AfterReset, registers}
      /\ main' = "poll" /\ ~failed' => registers' = AfterReset
  BY DEF Identify
<1>3. failed' \in BOOLEAN
  BY DEF Identify, BootInv, BootTypeOK
<1>4. AfterReset \in [Block -> {"reset", "default", "trim", "junk", "stale"}]
  BY DEF AfterReset
<1>5. BootTypeOK'
  BY <1>1, <1>2, <1>3, <1>4 DEF BootInv, BootTypeOK, Block
<1>6. Progress'
  BY <1>1, <1>2 DEF BootInv, Progress
<1>7. BeforeSending' /\ WhileSending'
  BY <1>1, <1>2 DEF BootInv, BeforeSending, WhileSending, Early, Late,
                    AfterReset, Block, Blank, Stale
<1> QED
  BY <1>5, <1>6, <1>7 DEF BootInv

LEMMA PollPreserves == ASSUME BootInv, Poll PROVE BootInv'
<1>1. UNCHANGED <<configBlock, registers, address, leftToSend, failed>>
  BY DEF Poll
<1>2. main = "poll" /\ main' \in {"poll", "trim", "offline"}
  BY DEF Poll
<1>3. counter' \in 0..MaxPolls
  BY StartUpAssumption DEF Poll, BootInv, BootTypeOK
<1>4. BootTypeOK'
  BY <1>1, <1>2, <1>3 DEF BootInv, BootTypeOK, Block
<1>5. Progress'
  BY <1>1, <1>2 DEF BootInv, Progress
<1>6. BeforeSending' /\ WhileSending'
  BY <1>1, <1>2 DEF BootInv, BeforeSending, WhileSending, Early, Late,
                    AfterReset, Block, Blank, Stale
<1> QED
  BY <1>4, <1>5, <1>6 DEF BootInv

(* The sensor's own trim goes into the block, unless a read is broken.     *)
LEMMA TrimPreserves == ASSUME BootInv, Trim PROVE BootInv'
<1>1. UNCHANGED <<counter, registers, address, leftToSend>>
  BY DEF Trim
<1>2. main = "trim" /\ main' = "send"
  BY DEF Trim
<1>3. PICK broken \in SUBSET (1..Trimmed) :
        /\ configBlock' = [a \in Block |->
             IF a > Trimmed THEN configBlock[a]
             ELSE IF a \in broken THEN "junk" ELSE registers[a]]
        /\ failed' = (failed \/ broken # {})
  BY DEF Trim
<1>4. /\ configBlock = Blank /\ registers \in {AfterReset, Stale}
      /\ ~failed => registers = AfterReset
      /\ address = 1
  BY <1>2 DEF BootInv, BeforeSending, Early
<1>5. \A a \in Block : configBlock'[a] \in {"default", "trim", "junk", "stale"}
  BY <1>3, <1>4, StartUpAssumption DEF Blank, AfterReset, Stale, Block
<1>6. configBlock' \in [Block -> {"default", "trim", "junk", "stale"}]
  BY <1>3, <1>5
<1>7. failed' \in BOOLEAN
  BY <1>3
<1>8. BootTypeOK'
  BY <1>1, <1>2, <1>6, <1>7 DEF BootInv, BootTypeOK, Block
<1>9. Progress'
  BY <1>1, <1>2 DEF BootInv, Progress
<1>10. ~failed' => configBlock' = Intended
  <2> SUFFICES ASSUME ~failed' PROVE configBlock' = Intended
    OBVIOUS
  <2>1. broken = {} /\ registers = AfterReset
    BY <1>3, <1>4
  <2>2. configBlock' = [a \in Block |->
          IF a > Trimmed THEN "default" ELSE AfterReset[a]]
    BY <2>1, <1>3, <1>4 DEF Blank
  <2> QED
    BY <2>2, StartUpAssumption DEF AfterReset, Intended, Block
<1>11. BeforeSending' /\ WhileSending'
  BY <1>1, <1>2, <1>4, <1>10 DEF BeforeSending, WhileSending, Early, Block
<1> QED
  BY <1>8, <1>9, <1>11 DEF BootInv

LEMMA SendPreserves == ASSUME BootInv, Send PROVE BootInv'
<1> DEFINE written == [a \in Block |->
             IF a \in address..(address + ToSend - 1) THEN configBlock[a]
             ELSE registers[a]]
<1>1. /\ main = "send" /\ leftToSend > 0
      /\ UNCHANGED <<main, counter, configBlock>>
  BY DEF Send
<1>2. /\ ToSend \in 1..leftToSend
      /\ address' = address + ToSend
      /\ leftToSend' = leftToSend - ToSend
  BY <1>1, ChunkFits DEF BootInv, Send
<1>3. \/ registers' = written /\ failed' = failed
      \/ registers' = registers /\ failed' = TRUE
  BY DEF Send
<1>4. Progress'
  BY <1>1, <1>2, BlockFits DEF BootInv, Progress
<1>5. written \in [Block -> {"reset", "default", "trim", "junk", "stale"}]
  BY DEF BootInv, BootTypeOK
<1>6. failed' \in BOOLEAN
  BY <1>3 DEF BootInv, BootTypeOK
<1> HIDE DEF written
<1>7. BootTypeOK'
  BY <1>1, <1>3, <1>4, <1>5, <1>6 DEF BootInv, BootTypeOK, Progress, Block
<1>8. BeforeSending'
  BY <1>1 DEF BeforeSending, Early
<1>9. WhileSending'
  <2> SUFFICES ASSUME ~failed'
               PROVE  /\ configBlock' = Intended
                      /\ \A a \in Block : a < address' =>
                           registers'[a] = Intended[a]
    BY DEF WhileSending, Intended, Block
  <2>1. ~failed /\ registers' = written
    BY <1>3
  <2>2. /\ configBlock = Intended
        /\ \A a \in Block : a < address => registers[a] = Intended[a]
    BY <1>1, <2>1 DEF BootInv, WhileSending, Late
  <2>3. ASSUME NEW a \in Block, a < address + ToSend
        PROVE  written[a] = Intended[a]
    <3>1. CASE a < address
      BY <3>1, <2>2, <1>2 DEF written, BootInv, Progress, Block
    <3>2. CASE a >= address
      BY <3>2, <2>2, <2>3, <1>2 DEF written, BootInv, Progress, Block
    <3> QED
      BY <3>1, <3>2 DEF BootInv, Progress, Block
  <2> QED
    BY <1>1, <1>2, <2>1, <2>2, <2>3
<1> QED
  BY <1>4, <1>7, <1>8, <1>9 DEF BootInv

LEMMA AfterSendingPreserves ==
  ASSUME BootInv, Sent \/ StartThreads
  PROVE  BootInv'
<1>1. UNCHANGED <<counter, configBlock, registers, address, leftToSend, failed>>
  BY DEF Sent, StartThreads
<1>2. /\ main \in {"send", "yaw"} /\ main' \in {"yaw", "loop"}
      /\ leftToSend = 0
  BY DEF Sent, StartThreads, BootInv, Progress
<1>3. BootTypeOK' /\ Progress'
  BY <1>1, <1>2 DEF BootInv, BootTypeOK, Progress, Block
<1>4. BeforeSending' /\ WhileSending'
  BY <1>1, <1>2 DEF BootInv, BeforeSending, WhileSending, Early, Late,
                    Intended, Block
<1> QED
  BY <1>3, <1>4 DEF BootInv

LEMMA BootPreserves == ASSUME BootInv, [Boot]_bootVars PROVE BootInv'
<1>1. CASE UNCHANGED bootVars
  BY <1>1 DEF bootVars, BootInv, BootTypeOK, Progress, BeforeSending,
              WhileSending, Block, Blank, Stale, AfterReset, Intended
<1> QED
  BY <1>1, IdentifyPreserves, PollPreserves, TrimPreserves, SendPreserves,
     AfterSendingPreserves DEF Boot

LEMMA BootInvariance == BootSpec => []BootInv
BY BootInitEstablishes, BootPreserves, PTL DEF BootSpec

-----------------------------------------------------------------------------
(* Every variable of the start-up keeps its type; the address of a chunk   *)
(* does not overflow its byte.                                             *)
THEOREM BootTypeCorrect == BootSpec => []BootTypeOK
<1>1. BootInv => BootTypeOK
  BY DEF BootInv
<1> QED
  BY <1>1, BootInvariance, PTL

(* VL53L1X::begin leaves in every register of the sensor what it is meant  *)
(* to leave there, as long as no transfer fails, whatever the sensor held. *)
THEOREM SensorIsConfigured == BootSpec => []Configured
<1>1. BootInv => Configured
  <2> SUFFICES ASSUME BootInv, main \in {"yaw", "loop"}, ~failed
               PROVE  registers = Intended
    BY DEF Configured
  <2>1. address = BlockSize + 1
    BY BlockFits DEF BootInv, Progress
  <2>2. \A a \in Block : registers[a] = Intended[a]
    BY <2>1, BlockFits DEF BootInv, WhileSending, Late, Block
  <2>3. registers \in [Block -> {"reset", "default", "trim", "junk", "stale"}]
    BY DEF BootInv, BootTypeOK
  <2> QED
    BY <2>2, <2>3 DEF Intended
<1> QED
  BY <1>1, BootInvariance, PTL

-----------------------------------------------------------------------------
(* The approach to a table.                                                *)

Resting == {"away", "wait", "stopped"}
Running == {"ramp", "cruise", "brake", "turn"}

Capped(d) == IF d > 1000 THEN 1000 ELSE d

(* All readings of this approach, the one it began with included, are the  *)
(* sensor's.                                                               *)
Trusted == informed /\ trust = "sensor" /\ at \in Running

Commanded ==
  /\ at \in Resting => spd = 0
  /\ at \in {"ramp", "cruise"} => spd \in 0..leg.targetSpd

Sourced ==
  /\ buf \in {0, Nothing} => source = "before"
  /\ buf \notin {0, Nothing} /\ source = "before" => trust = "before"
  /\ informed /\ at \in Running => trust # "before"

(* While the robot waits in front of the table readings are of one place.  *)
Waits ==
  at = "wait" =>
    /\ source = "sensor" => buf = distance
    /\ trust = "sensor" => Distance = Capped(distance)

(* While the robot is driven ahead, Distance is that of a place it has     *)
(* passed, and a reading not yet stored that of a later one.               *)
Lags ==
  Trusted /\ spd >= 0 =>
    /\ Capped(distance) <= Distance
    /\ source = "sensor" => distance <= buf /\ Capped(buf) <= Distance

(* It is driven back from beyond the stop only, and by the last command.   *)
Backs ==
  Trusted /\ spd < 0 =>
    /\ at = "brake"
    /\ Distance < leg.stopDist + 10
    /\ distance < leg.stopDist + 10
    /\ source = "sensor" => buf < leg.stopDist + 10
    /\ ~moved => distance < leg.stopDist

(* The last loop of an approach that ramps up is entered and kept inside   *)
(* the braking distance.                                                   *)
Inside ==
  Trusted /\ leg.ramp /\ at \in {"brake", "turn"} => Gap < leg.breakDist

IInv ==
  /\ BootInv
  /\ TypeOK
  /\ Commanded
  /\ Sourced
  /\ Waits
  /\ Lags
  /\ Backs
  /\ Inside
  /\ NoSurge

-----------------------------------------------------------------------------
(* Facts about the model's operators.                                      *)

LEMMA NatMin ==
  ASSUME NEW S \in SUBSET Nat, S # {}
  PROVE  \E m \in S : \A n \in S : m <= n
<1> DEFINE less == {p \in Nat \X Nat : p[1] < p[2]}
<1>1. IsWellFoundedOn(less, Nat)
  BY NatLessThanWellFounded DEF OpToRel
<1> HIDE DEF less
<1>2. PICK m \in S : \A n \in S : ~ (<<n, m>> \in less)
  BY <1>1, WFMin, Zenon
<1>3. \A n \in S : ~ (n < m)
  BY <1>2 DEF less
<1> QED
  BY <1>3

LEMMA NatMax ==
  ASSUME NEW S \in SUBSET Nat, S # {}, NEW top \in Nat, \A n \in S : n < top
  PROVE  \E m \in S : \A n \in S : m >= n
<1> DEFINE gaps == {top - n : n \in S}
<1>1. gaps \in SUBSET Nat /\ gaps # {}
  <2>1. \A n \in S : top - n \in Nat
    OBVIOUS
  <2> QED
    BY <2>1
<1>2. PICK g \in gaps : \A h \in gaps : g <= h
  BY <1>1, NatMin
<1>3. PICK m \in S : g = top - m
  OBVIOUS
<1>4. ASSUME NEW n \in S PROVE m >= n
  <2>1. top - m <= top - n
    BY <1>2, <1>3
  <2> QED
    BY <2>1
<1> QED
  BY <1>4

(* What the robot's motion does with the places it is seen at.             *)
LEMMA NextAhead ==
  ASSUME distance \in Marks, Ahead # {}
  PROVE  Max(Ahead) \in Marks /\ Max(Ahead) < distance
<1>1. Ahead \in SUBSET Nat /\ distance \in Nat /\ \A n \in Ahead : n < distance
  <2>1. Marks \in SUBSET Nat
    BY ApproachAssumption
  <2> QED
    BY <2>1 DEF Ahead
<1>2. \E m \in Ahead : \A n \in Ahead : m >= n
  BY <1>1, NatMax
<1>3. Max(Ahead) \in Ahead
  BY <1>2 DEF Max
<1> QED
  BY <1>3 DEF Ahead

LEMMA NextBehind ==
  ASSUME distance \in Marks, Behind # {}
  PROVE  /\ Min(Behind) \in Marks /\ Min(Behind) > distance
         /\ \A m \in Marks : m > distance => Min(Behind) <= m
<1>1. Behind \in SUBSET Nat
  BY ApproachAssumption DEF Behind
<1>2. \E m \in Behind : \A n \in Behind : m <= n
  BY <1>1, NatMin
<1>3. Min(Behind) \in Behind /\ \A n \in Behind : Min(Behind) <= n
  BY <1>2 DEF Min
<1> QED
  BY <1>3 DEF Behind

LEMMA Quotient ==
  ASSUME NEW a \in Nat, NEW b \in Nat \ {0}
  PROVE  a \div b \in Nat /\ b * (a \div b) <= a
OBVIOUS

(* The speed of the last loop inside and beyond the braking distance.      *)
LEMMA TurnSpeed ==
  ASSUME NEW g \in Int, NEW t \in Nat, NEW b \in Nat \ {0}
  PROVE  /\ Trunc(t * g, b) \in Int
         /\ Trunc(t * g, b) < 0 => g < 0
         /\ g < b => Trunc(t * g, b) <= t
<1>1. t * g \in Int
  OBVIOUS
<1>2. CASE g >= 0
  <2>1. t * g \in Nat
    BY <1>2
  <2> DEFINE q == (t * g) \div b
  <2>2. q \in Nat /\ b * q <= t * g
    BY <2>1, Quotient
  <2>3. Trunc(t * g, b) = q
    BY <2>1 DEF Trunc
  <2> HIDE DEF q
  <2>4. ASSUME g < b PROVE q <= t
    <3> SUFFICES ASSUME q >= t + 1 PROVE FALSE
      BY <2>2
    <3>1. b * q >= b * (t + 1)
      BY <2>2
    <3>2. t * g <= t * b
      BY <2>4
    <3>3. b * (t + 1) = t * b + b
      OBVIOUS
    <3> QED
      BY <3>1, <3>2, <3>3, <2>2
  <2> QED
    BY <2>2, <2>3, <2>4, <1>2
<1>3. CASE g < 0
  <2>1. -(t * g) \in Nat
    BY <1>3
  <2>2. (-(t * g)) \div b \in Nat
    BY <2>1, Quotient
  <2>3. Trunc(t * g, b) <= 0 /\ Trunc(t * g, b) \in Int
    <3>1. CASE t * g >= 0
      <4>1. t * g = 0
        BY <3>1, <2>1
      <4>2. (t * g) \div b \in Nat /\ b * ((t * g) \div b) <= 0
        BY <4>1, Quotient
      <4>3. (t * g) \div b = 0
        BY <4>2
      <4> QED
        BY <4>3, <3>1 DEF Trunc
    <3>2. CASE t * g < 0
      BY <2>2, <3>2 DEF Trunc
    <3> QED
      BY <3>1, <3>2, <1>1
  <2> QED
    BY <2>3, <1>3
<1> QED
  BY <1>2, <1>3

-----------------------------------------------------------------------------
(* Every action preserves the invariant.                                   *)

LEMMA Lengths ==
  ASSUME TypeOK
  PROVE  /\ leg.stopDist \in 0..990 /\ leg.targetSpd \in Nat
         /\ leg.breakDist \in Nat /\ leg.breakDist >= 10
         /\ distance \in Nat /\ distance > 0
         /\ Distance \in 0..1000
         /\ buf \in Int /\ (buf \notin {0, Nothing} => buf > 0)
         /\ Gap \in Int
<1>1. leg \in [stopDist : 0..990, targetSpd : Nat, breakDist : Nat \ 0..9,
               ramp : BOOLEAN]
  BY ApproachAssumption DEF TypeOK
<1>2. /\ leg.stopDist \in 0..990 /\ leg.targetSpd \in Nat
      /\ leg.breakDist \in Nat \ 0..9
  BY <1>1
<1>3. distance \in Marks /\ buf \in Marks \cup {0, Nothing}
  BY DEF TypeOK
<1>4. \A m \in Marks : m \in Nat /\ m > 0
  BY ApproachAssumption
<1>5. Distance \in 0..1000
  BY DEF TypeOK
<1>6. leg.breakDist \in Nat /\ leg.breakDist >= 10
  BY <1>2
<1>7. buf \in Int /\ (buf \notin {0, Nothing} => buf > 0)
  BY <1>3, <1>4 DEF Nothing
<1>8. Gap \in Int
  <2>1. Distance \in Int /\ leg.stopDist \in Int
    BY <1>2, <1>5
  <2> QED
    BY <2>1 DEF Gap
<1> QED
  BY <1>2, <1>3, <1>4, <1>5, <1>6, <1>7, <1>8

LEMMA StaysBooted ==
  ASSUME IInv, UNCHANGED bootVars
  PROVE  BootInv' /\ BootTypeOK'
<1>1. BootInv'
  BY BootPreserves DEF IInv
<1> QED
  BY <1>1 DEF BootInv

LEMMA InitEstablishes == Init => IInv
<1> SUFFICES ASSUME Init PROVE IInv
  OBVIOUS
<1>1. BootInv /\ BootTypeOK
  BY BootInitEstablishes DEF Init, BootInv
<1>2. TypeOK
  <2>1. /\ distance \in Marks /\ leg \in Legs /\ Distance = 0 /\ buf = Nothing
        /\ at = "away" /\ spd = 0 /\ garbled = 0 /\ MaxGarbled \in Nat
        /\ moved = TRUE /\ informed = FALSE
        /\ source = "before" /\ trust = "before"
    BY ApproachAssumption DEF Init
  <2>2. {moved, informed} \subseteq BOOLEAN
    BY <2>1
  <2>3. BootTypeOK
    BY <1>1
  <2> QED
    BY <2>1, <2>2, <2>3 DEF TypeOK, Sources
<1>3. /\ ~Trusted /\ at = "away" /\ spd = 0
      /\ source = "before" /\ trust = "before"
  BY DEF Init, Trusted
<1> QED
  BY <1>1, <1>2, <1>3
     DEF IInv, Commanded, Sourced, Waits, Lags, Backs, Inside, NoSurge,
         Resting, Running

LEMMA StartingUpPreserves == ASSUME IInv, StartingUp PROVE IInv'
<1>1. UNCHANGED <<world, driver, main_>>
  BY DEF StartingUp
<1>2. BootInv'
  BY BootPreserves DEF StartingUp, IInv
<1>3. BootTypeOK'
  BY <1>2 DEF BootInv
<1>4. TypeOK'
  BY <1>1, <1>3 DEF IInv, TypeOK, world, driver, main_
<1> QED
  BY <1>1, <1>2, <1>4
     DEF IInv, Commanded, Sourced, Waits, Lags, Backs, Inside, NoSurge,
         Trusted, Gap, world, driver, main_

LEMMA ReadDistancePreserves == ASSUME IInv, ReadDistance PROVE IInv'
<1>1. UNCHANGED <<bootVars, world, driver, Distance, trust, informed>>
  BY DEF ReadDistance
<1>2. /\ buf = Nothing
      /\ \/ buf' = distance /\ source' = "sensor" /\ garbled' = garbled
         \/ buf' = 0 /\ source' = source /\ garbled' = garbled
         \/ /\ buf' \in Marks /\ source' = "bus"
            /\ garbled < MaxGarbled /\ garbled' = garbled + 1
  BY DEF ReadDistance
<1>3. BootInv' /\ BootTypeOK'
  BY <1>1, StaysBooted
<1>4. TypeOK'
  BY <1>1, <1>2, <1>3, ApproachAssumption
     DEF IInv, TypeOK, Sources, world, driver
<1>5. source = "before"
  BY <1>2 DEF IInv, Sourced
<1>6. buf' \notin {0, Nothing} <=> source' # "before"
  BY <1>2, <1>5, ApproachAssumption DEF IInv, TypeOK, Nothing
<1>7. Sourced'
  BY <1>1, <1>6 DEF IInv, Sourced, driver
<1>8. source' = "sensor" => buf' = distance
  BY <1>2, <1>5
<1>9. Waits'
  BY <1>1, <1>8 DEF IInv, Waits, world, driver
<1>10. Lags'
  BY <1>1, <1>8, Lengths DEF IInv, Lags, Trusted, world, driver
<1>11. Backs'
  BY <1>1, <1>8 DEF IInv, Backs, Trusted, world, driver
<1>12. Commanded' /\ Inside' /\ NoSurge'
  BY <1>1 DEF IInv, Commanded, Inside, NoSurge, Trusted, Gap, world, driver
<1> QED
  BY <1>3, <1>4, <1>7, <1>9, <1>10, <1>11, <1>12 DEF IInv

LEMMA StoreDistancePreserves == ASSUME IInv, StoreDistance PROVE IInv'
<1>1. UNCHANGED <<bootVars, world, driver, garbled, informed>>
  BY DEF StoreDistance, Stored
<1>2. /\ buf # Nothing /\ buf' = Nothing /\ source' = "before"
      /\ Distance' = IF buf > 1000 THEN 1000
                     ELSE IF buf # 0 THEN buf ELSE Distance
      /\ trust' = IF buf = 0 \/ trust = "bus" THEN trust ELSE source
  BY DEF StoreDistance, Stored
<1>3. BootInv' /\ BootTypeOK'
  BY <1>1, StaysBooted
<1>4. TypeOK
  BY DEF IInv
<1>5. TypeOK'
  <2>1. Distance' \in 0..1000
    BY <1>2, <1>4, Lengths
  <2>2. trust' \in Sources /\ source' \in Sources
    BY <1>2, <1>4 DEF TypeOK, Sources
  <2> QED
    BY <1>1, <1>2, <1>3, <1>4, <2>1, <2>2 DEF TypeOK, world, driver
<1>6. Sourced'
  BY <1>1, <1>2 DEF IInv, Sourced, driver
(* A reading that is stored and trusted is the sensor's.                   *)
<1>7. ASSUME trust' = "sensor"
      PROVE  \/ Distance' = Distance /\ trust = "sensor"
             \/ Distance' = Capped(buf) /\ source = "sensor"
  BY <1>2, <1>4, <1>7, Lengths DEF IInv, Sourced, Capped
<1>8. Waits'
  BY <1>1, <1>2, <1>7 DEF IInv, Waits, world, driver
(* What is trusted now was trusted before.                                 *)
<1>9. ASSUME Trusted' PROVE Trusted /\ trust' = "sensor"
  <2>1. informed /\ trust' = "sensor" /\ at \in Running
    BY <1>1, <1>9 DEF Trusted, driver
  <2>2. trust # "before"
    BY <2>1 DEF IInv, Sourced
  <2>3. trust = "sensor"
    BY <2>1, <2>2, <1>2, <1>4 DEF TypeOK, Sources
  <2> QED
    BY <2>1, <2>3 DEF Trusted
<1>10. Lags'
  <2> SUFFICES ASSUME Trusted', spd' >= 0
               PROVE  Capped(distance') <= Distance' /\ source' # "sensor"
    BY DEF Lags, Capped
  <2>1. Trusted /\ spd >= 0 /\ distance' = distance
    BY <1>1, <1>9 DEF world, driver
  <2>2. /\ Capped(distance) <= Distance
        /\ source = "sensor" => distance <= buf
    BY <2>1 DEF IInv, Lags
  <2>3. source = "sensor" => Capped(distance) <= Capped(buf)
    <3>1. distance \in Int /\ buf \in Int
      BY <1>4, Lengths
    <3> QED
      BY <2>2, <3>1 DEF Capped
  <2>4. Capped(distance) <= Distance'
    BY <2>2, <2>3, <1>7, <1>9
  <2> QED
    BY <2>1, <2>4, <1>2
<1>11. Backs'
  <2> SUFFICES ASSUME Trusted', spd' < 0
               PROVE  /\ at' = "brake"
                      /\ Distance' < leg'.stopDist + 10
                      /\ distance' < leg'.stopDist + 10
                      /\ source' # "sensor"
                      /\ ~moved' => distance' < leg'.stopDist
    BY DEF Backs
  <2>1. Trusted /\ spd < 0
    BY <1>1, <1>9 DEF driver
  <2>2. /\ at = "brake"
        /\ Distance < leg.stopDist + 10
        /\ distance < leg.stopDist + 10
        /\ source = "sensor" => buf < leg.stopDist + 10
        /\ ~moved => distance < leg.stopDist
    BY <2>1 DEF IInv, Backs
  <2>3. Distance' < leg.stopDist + 10
    BY <2>2, <1>4, <1>7, <1>9, Lengths DEF Capped
  <2> QED
    BY <2>2, <2>3, <1>1, <1>2 DEF world, driver
<1>12. Inside'
  <2> SUFFICES ASSUME Trusted', leg'.ramp, at' \in {"brake", "turn"}
               PROVE  Gap' < leg'.breakDist
    BY DEF Inside
  <2>1. Trusted /\ leg.ramp /\ at \in {"brake", "turn"} /\ leg' = leg
    BY <1>1, <1>9 DEF driver
  <2>2. Gap < leg.breakDist
    BY <2>1 DEF IInv, Inside
  <2>3. Distance' <= Distance \/ Distance' < leg.stopDist + 10
    <3>1. CASE spd >= 0
      BY <3>1, <2>1, <1>4, <1>7, <1>9, Lengths DEF IInv, Lags
    <3>2. CASE spd < 0
      BY <3>2, <2>1, <1>4, <1>7, <1>9, Lengths DEF IInv, Backs, Capped
    <3> QED
      BY <3>1, <3>2, <1>4 DEF TypeOK
  <2>4. /\ Distance' \in Int /\ Distance \in Int /\ leg.stopDist \in Int
        /\ leg.breakDist \in Int /\ leg.breakDist >= 10
    <3>1. Distance' \in 0..1000
      BY <1>5 DEF TypeOK
    <3>2. /\ Distance \in 0..1000 /\ leg.stopDist \in 0..990
          /\ leg.breakDist \in Nat /\ leg.breakDist >= 10
      BY <1>4, Lengths
    <3>3. Distance' \in Int /\ Distance \in Int
      BY <3>1, <3>2
    <3>4. leg.stopDist \in Int /\ leg.breakDist \in Int
      BY <3>2
    <3> QED
      BY <3>2, <3>3, <3>4
  <2> QED
    BY <2>1, <2>2, <2>3, <2>4 DEF Gap
<1>13. NoSurge'
  BY <1>1, <1>9 DEF IInv, NoSurge, Trusted, Running, driver
<1>14. Commanded'
  BY <1>1 DEF IInv, Commanded, driver
<1> QED
  BY <1>3, <1>5, <1>6, <1>8, <1>10, <1>11, <1>12, <1>13, <1>14 DEF IInv

LEMMA Flags == ASSUME TypeOK PROVE moved \in BOOLEAN /\ informed \in BOOLEAN
BY DEF TypeOK

LEMMA ComePreserves == ASSUME IInv, Come PROVE IInv'
<1>1. /\ UNCHANGED <<bootVars, Distance, buf, garbled, informed>>
      /\ (at' = "back" /\ spd' = -5) \/ (at' = "wait" /\ spd' = 0)
      /\ moved' = FALSE /\ leg' \in Legs /\ distance' \in Marks
      /\ source' = "before" /\ trust' = "before"
  <2>1. IF leg'.ramp THEN at' = "back" /\ spd' = -5 /\ moved' = FALSE
                     ELSE at' = "wait" /\ spd' = 0 /\ moved' = FALSE
    BY DEF Come, Command
  <2>2. /\ UNCHANGED <<bootVars, Distance, buf, garbled, informed>>
        /\ leg' \in Legs /\ distance' \in Marks
        /\ source' = "before" /\ trust' = "before"
    BY DEF Come
  <2> QED
    BY <2>1, <2>2
<1>2. BootInv' /\ BootTypeOK'
  BY <1>1, StaysBooted
<1>3. TypeOK'
  <2>1. {moved', informed'} \subseteq BOOLEAN
    <3>1. TypeOK
      BY DEF IInv
    <3>2. moved' \in BOOLEAN /\ informed' \in BOOLEAN
      BY <1>1, <3>1, Flags, Zenon
    <3> QED
      BY <3>2
  <2>2. spd' \in Int /\ at' \in {"back", "wait"}
    BY <1>1
  <2> QED
    BY <1>1, <1>2, <2>1, <2>2 DEF IInv, TypeOK, Sources
<1>4. Commanded'
  BY <1>1 DEF Commanded, Resting
<1>5. Sourced' /\ Waits'
  BY <1>1 DEF Sourced, Waits, Running
<1>6. ~Trusted'
  BY <1>1 DEF Trusted
<1>7. Lags' /\ Backs' /\ Inside' /\ NoSurge'
  BY <1>1, <1>6 DEF Lags, Backs, Inside, NoSurge
<1> QED
  BY <1>2, <1>3, <1>4, <1>5, <1>7 DEF IInv

(* Nothing that was read on the way back counts any more.                  *)
LEMMA HaltPreserves == ASSUME IInv, Halt PROVE IInv'
<1>1. /\ UNCHANGED <<bootVars, distance, leg, Distance, buf, garbled, informed>>
      /\ at' = "wait" /\ spd' = 0 /\ moved' = FALSE
      /\ source' = "before" /\ trust' = "before"
  BY DEF Halt, Command
<1>2. BootInv' /\ BootTypeOK'
  BY <1>1, StaysBooted
<1>3. TypeOK'
  <2>1. {moved', informed'} \subseteq BOOLEAN
    <3>1. TypeOK
      BY DEF IInv
    <3>2. moved' \in BOOLEAN /\ informed' \in BOOLEAN
      BY <1>1, <3>1, Flags, Zenon
    <3> QED
      BY <3>2
  <2> QED
    BY <1>1, <1>2, <2>1 DEF IInv, TypeOK, Sources
<1>4. Commanded' /\ Sourced' /\ Waits'
  BY <1>1 DEF Commanded, Sourced, Waits, Running
<1>5. ~Trusted'
  BY <1>1 DEF Trusted
<1>6. Lags' /\ Backs' /\ Inside' /\ NoSurge'
  BY <1>1, <1>5 DEF Lags, Backs, Inside, NoSurge
<1> QED
  BY <1>2, <1>3, <1>4, <1>6 DEF IInv

LEMMA GoPreserves == ASSUME IInv, Go PROVE IInv'
<1>1. /\ UNCHANGED <<bootVars, world, leg, spd, Distance, buf, garbled, source,
                     trust>>
      /\ at = "wait" /\ at' = IF leg.ramp THEN "ramp" ELSE "brake"
      /\ informed' = (trust = "sensor")
  BY DEF Go
<1>2. BootInv' /\ BootTypeOK'
  BY <1>1, StaysBooted
<1>3. spd = 0 /\ TypeOK
  BY <1>1 DEF IInv, Commanded, Resting
<1>4. TypeOK'
  <2>1. {moved', informed'} \subseteq BOOLEAN
    BY <1>1, <1>3 DEF TypeOK, world
  <2>2. at' \in {"ramp", "brake"}
    BY <1>1
  <2> QED
    BY <1>1, <1>2, <1>3, <2>1, <2>2 DEF TypeOK, world
<1>5. Commanded'
  BY <1>1, <1>3, Lengths DEF Commanded, Resting
<1>6. Sourced'
  BY <1>1 DEF IInv, Sourced
<1>7. Waits' /\ Backs'
  BY <1>1, <1>3 DEF Waits, Backs
<1>8. ASSUME Trusted'
      PROVE  /\ Distance = Capped(distance)
             /\ source = "sensor" => buf = distance
  BY <1>1, <1>8 DEF Trusted, IInv, Waits
<1>9. Lags'
  <2> SUFFICES ASSUME Trusted'
               PROVE  /\ Capped(distance') <= Distance'
                      /\ source' = "sensor" =>
                           distance' <= buf' /\ Capped(buf') <= Distance'
    BY DEF Lags
  <2>1. distance \in Nat
    BY <1>3, Lengths
  <2> QED
    BY <1>1, <1>8, <2>1 DEF Capped, world
<1>10. Inside'
  BY <1>1 DEF Inside
<1>11. NoSurge'
  BY <1>1, <1>3, Lengths DEF NoSurge
<1> QED
  BY <1>2, <1>4, <1>5, <1>6, <1>7, <1>9, <1>10, <1>11 DEF IInv

(* What all steps of MoveForwardTable that command a speed have in common. *)
LEMMA Driven ==
  ASSUME IInv, UNCHANGED <<bootVars, distance, leg, main_>>,
         at \in Running, at' \in Running \cup {"stopped"},
         spd' \in Int, moved' \in BOOLEAN,
         Trusted /\ spd' >= 0 => spd >= 0
  PROVE  /\ BootInv' /\ TypeOK' /\ Sourced' /\ Waits' /\ Lags'
         /\ Trusted' => Trusted
<1>1. BootInv' /\ BootTypeOK'
  BY StaysBooted
<1>2. TypeOK'
  <2>1. {moved', informed'} \subseteq BOOLEAN
    BY DEF IInv, TypeOK, main_
  <2> QED
    BY <1>1, <2>1 DEF IInv, TypeOK, Running, main_
<1>3. Sourced' /\ Waits'
  BY DEF IInv, Sourced, Waits, Running, main_
<1>4. Trusted' => Trusted
  BY DEF Trusted, main_
<1>5. Lags'
  <2> SUFFICES ASSUME Trusted', spd' >= 0
               PROVE  /\ Capped(distance') <= Distance'
                      /\ source' = "sensor" =>
                           distance' <= buf' /\ Capped(buf') <= Distance'
    BY DEF Lags
  <2> QED
    BY <1>4 DEF IInv, Lags, Capped, main_
<1> QED
  BY <1>1, <1>2, <1>3, <1>4, <1>5

LEMMA RampPreserves == ASSUME IInv, Ramp PROVE IInv'
<1>1. at = "ramp" /\ UNCHANGED <<bootVars, distance, leg, main_>>
  BY DEF Ramp
<1>2. spd \in 0..leg.targetSpd /\ TypeOK
  BY <1>1 DEF IInv, Commanded
<1>3. \/ /\ spd' = spd + 1 /\ spd + 1 <= leg.targetSpd
         /\ moved' = FALSE /\ at' = "ramp"
      \/ spd' = spd /\ moved' = moved /\ at' = "cruise"
  BY <1>1 DEF Ramp, Command
<1>4. spd' \in 0..leg'.targetSpd /\ at' \in {"ramp", "cruise"}
  BY <1>1, <1>2, <1>3, Lengths
<1>5. moved' \in BOOLEAN
  BY <1>2, <1>3, Flags, Zenon
<1>6. spd' >= 0 /\ spd >= 0 /\ spd' \in Int
  BY <1>2, <1>4
<1>7. BootInv' /\ TypeOK' /\ Sourced' /\ Waits' /\ Lags'
  BY <1>1, <1>4, <1>5, <1>6, Driven DEF Running
<1>8. Commanded' /\ Backs' /\ Inside' /\ NoSurge'
  BY <1>4, <1>6 DEF Commanded, Backs, Inside, NoSurge, Resting
<1> QED
  BY <1>7, <1>8 DEF IInv

LEMMA CruisePreserves == ASSUME IInv, Cruise PROVE IInv'
<1>1. at = "cruise" /\ UNCHANGED <<bootVars, distance, leg, main_>>
  BY DEF Cruise
<1>2. spd \in 0..leg.targetSpd /\ TypeOK
  BY <1>1 DEF IInv, Commanded
<1>3. \/ spd' = leg.targetSpd /\ moved' = FALSE /\ at' = "cruise"
      \/ /\ spd' = spd /\ moved' = moved /\ at' = "brake"
         /\ ~ (Gap >= leg.breakDist)
  BY <1>1 DEF Cruise, Command
<1>4. spd' \in 0..leg'.targetSpd /\ at' \in {"cruise", "brake"}
  BY <1>1, <1>2, <1>3, Lengths
<1>5. moved' \in BOOLEAN
  BY <1>2, <1>3, Flags, Zenon
<1>6. spd' >= 0 /\ spd >= 0 /\ spd' \in Int
  BY <1>2, <1>4
<1>7. BootInv' /\ TypeOK' /\ Sourced' /\ Waits' /\ Lags'
  BY <1>1, <1>4, <1>5, <1>6, Driven DEF Running
<1>8. Commanded' /\ Backs' /\ NoSurge'
  BY <1>4, <1>6 DEF Commanded, Backs, NoSurge, Resting
<1>9. Inside'
  <2>1. at' = "brake" => Gap < leg.breakDist
    BY <1>2, <1>3, Lengths
  <2>2. Gap' = Gap
    BY <1>1 DEF Gap, main_
  <2> QED
    BY <2>1, <2>2, <1>1, <1>4 DEF Inside
<1> QED
  BY <1>7, <1>8, <1>9 DEF IInv

LEMMA BrakePreserves == ASSUME IInv, Brake PROVE IInv'
<1>1. at = "brake" /\ UNCHANGED <<bootVars, distance, leg, main_>> /\ TypeOK
  BY DEF Brake, IInv
<1>2. \/ Gap >= 10 /\ at' = "turn" /\ spd' = spd /\ moved' = moved
      \/ at' = "stopped" /\ spd' = 0 /\ moved' = FALSE
  BY <1>1 DEF Brake, Command
<1>3. /\ spd' \in Int /\ moved' \in BOOLEAN
      /\ at \in Running /\ at' \in Running \cup {"stopped"}
  <2>1. moved' \in BOOLEAN
    BY <1>1, <1>2, Flags, Zenon
  <2>2. spd' \in Int /\ at' \in {"turn", "stopped"}
    BY <1>1, <1>2 DEF TypeOK
  <2> QED
    BY <1>1, <2>1, <2>2 DEF Running
<1>4. CASE at' = "stopped"
  <2>1. spd' = 0
    BY <1>2, <1>4
  <2>2. ~Trusted' /\ BootInv' /\ TypeOK' /\ Sourced' /\ Waits'
    <3>1. ~Trusted'
      BY <1>4 DEF Trusted, Running
    <3>2. BootInv' /\ BootTypeOK'
      BY <1>1, StaysBooted
    <3>3. {moved', informed'} \subseteq BOOLEAN
      BY <1>1, <1>3 DEF TypeOK, main_
    <3>4. TypeOK'
      BY <1>1, <1>3, <1>4, <3>2, <3>3 DEF TypeOK, main_
    <3>5. Sourced' /\ Waits'
      BY <1>1, <1>4 DEF IInv, Sourced, Waits, Running, main_
    <3> QED
      BY <3>1, <3>2, <3>4, <3>5
  <2>3. Commanded' /\ Lags' /\ Backs' /\ Inside' /\ NoSurge'
    BY <1>4, <2>1, <2>2 DEF Commanded, Lags, Backs, Inside, NoSurge
  <2> QED
    BY <2>2, <2>3 DEF IInv
<1>5. CASE at' = "turn"
  <2>1. Gap >= 10 /\ spd' = spd
    BY <1>2, <1>5
  <2>2. /\ BootInv' /\ TypeOK' /\ Sourced' /\ Waits' /\ Lags'
        /\ Trusted' => Trusted
    BY <1>1, <1>3, <2>1, Driven
  <2>3. Trusted => spd >= 0
    <3>1. Trusted /\ spd < 0 => Distance < leg.stopDist + 10
      BY DEF IInv, Backs
    <3>2. Distance \in Int /\ leg.stopDist \in Int /\ spd \in Int
      BY <1>1, Lengths DEF TypeOK
    <3> QED
      BY <2>1, <3>1, <3>2 DEF Gap
  <2>4. Backs'
    <3>1. spd \in Int
      BY <1>1 DEF TypeOK
    <3> QED
      BY <2>1, <2>2, <2>3, <3>1 DEF Backs
  <2>5. Gap' = Gap /\ leg' = leg
    BY <1>1 DEF Gap, main_
  <2>6. Inside'
    BY <1>1, <2>2, <2>5 DEF IInv, Inside
  <2>7. Commanded'
    BY <1>5 DEF Commanded, Resting
  <2>8. NoSurge'
    BY <1>1, <1>5, <2>1, <2>2 DEF IInv, NoSurge, main_
  <2> QED
    BY <2>2, <2>4, <2>6, <2>7, <2>8 DEF IInv
<1> QED
  BY <1>2, <1>4, <1>5

LEMMA TurnPreserves == ASSUME IInv, Turn PROVE IInv'
<1> DEFINE speed == Trunc(leg.targetSpd * Gap, leg.breakDist)
<1>1. /\ at = "turn" /\ at' = "brake" /\ TypeOK
      /\ UNCHANGED <<bootVars, distance, leg, main_>>
      /\ spd' = speed /\ moved' = FALSE
  BY DEF Turn, Command, IInv
<1>2. /\ speed \in Int
      /\ speed < 0 => Gap < 0
      /\ Gap < leg.breakDist => speed <= leg.targetSpd
  <2>1. Gap \in Int /\ leg.targetSpd \in Nat /\ leg.breakDist \in Nat \ {0}
    BY <1>1, Lengths
  <2> QED
    BY <2>1, TurnSpeed
<1> HIDE DEF speed
<1>3. Trusted => spd >= 0
  <2>1. spd \in Int
    BY <1>1 DEF TypeOK
  <2> QED
    BY <1>1, <2>1 DEF IInv, Backs
<1>4. /\ BootInv' /\ TypeOK' /\ Sourced' /\ Waits' /\ Lags'
      /\ Trusted' => Trusted
  BY <1>1, <1>2, <1>3, Driven DEF Running
(* The robot is beyond the stop if Distance is, and so is every place that *)
(* a later reading gives.                                                  *)
<1>5. Backs'
  <2> SUFFICES ASSUME Trusted', spd' < 0
               PROVE  /\ at' = "brake"
                      /\ Distance' < leg'.stopDist + 10
                      /\ distance' < leg'.stopDist + 10
                      /\ source' = "sensor" => buf' < leg'.stopDist + 10
                      /\ ~moved' => distance' < leg'.stopDist
    BY DEF Backs
  <2>1. Trusted /\ spd >= 0 /\ Gap < 0
    BY <1>1, <1>2, <1>3, <1>4
  <2>2. /\ Capped(distance) <= Distance
        /\ source = "sensor" => Capped(buf) <= Distance
    BY <2>1 DEF IInv, Lags
  <2>3. /\ distance \in Int /\ Distance \in Int /\ buf \in Int
        /\ leg.stopDist \in Int /\ leg.stopDist <= 990
    <3>1. leg.stopDist \in 0..990 /\ Distance \in 0..1000
      BY <1>1, Lengths
    <3>2. distance \in Int /\ buf \in Int
      BY <1>1, Lengths
    <3>3. leg.stopDist \in Int /\ leg.stopDist <= 990
      BY <3>1
    <3>4. Distance \in Int
      BY <3>1
    <3> QED
      BY <3>2, <3>3, <3>4
  <2>4. Distance < leg.stopDist
    BY <2>1, <2>3 DEF Gap
  <2>5. distance < leg.stopDist /\ (source = "sensor" => buf < leg.stopDist)
    BY <2>2, <2>3, <2>4 DEF Capped
  <2> QED
    BY <1>1, <2>3, <2>4, <2>5 DEF main_
<1>6. Gap' = Gap /\ leg' = leg
  BY <1>1 DEF Gap, main_
<1>7. Inside'
  BY <1>1, <1>4, <1>6 DEF IInv, Inside
<1>8. NoSurge'
  <2> SUFFICES ASSUME leg'.ramp, informed', trust' = "sensor"
               PROVE  spd' <= leg'.targetSpd
    BY DEF NoSurge
  <2>1. Trusted
    BY <1>1, <1>4 DEF Trusted, Running
  <2> QED
    BY <1>1, <1>2, <1>6, <2>1 DEF IInv, Inside
<1>9. Commanded'
  BY <1>1 DEF Commanded, Resting
<1> QED
  BY <1>4, <1>5, <1>7, <1>8, <1>9 DEF IInv

LEMMA DepartPreserves == ASSUME IInv, Depart PROVE IInv'
<1>1. /\ at = "stopped" /\ at' = "away"
      /\ UNCHANGED <<bootVars, world, leg, spd, main_>>
  BY DEF Depart
<1>2. BootInv' /\ BootTypeOK'
  BY <1>1, StaysBooted
<1>3. TypeOK'
  BY <1>1, <1>2 DEF IInv, TypeOK, world, main_
<1>4. Commanded' /\ Sourced' /\ Waits'
  BY <1>1 DEF IInv, Commanded, Sourced, Waits, Resting, Running, main_
<1>5. ~Trusted'
  BY <1>1 DEF Trusted, Running
<1>6. Lags' /\ Backs' /\ Inside' /\ NoSurge'
  BY <1>1, <1>5 DEF Lags, Backs, Inside, NoSurge
<1> QED
  BY <1>2, <1>3, <1>4, <1>6 DEF IInv

LEMMA RollPreserves == ASSUME IInv, Roll PROVE IInv'
<1>1. /\ UNCHANGED <<bootVars, driver, main_>> /\ TypeOK
      /\ spd # 0 /\ ~moved /\ moved' = (at # "back")
      /\ \/ spd > 0 /\ Ahead # {} /\ distance' = Max(Ahead)
         \/ spd < 0 /\ Behind # {} /\ distance' = Min(Behind)
  BY DEF Roll, IInv, Moves
<1>2. distance \in Marks
  BY <1>1 DEF TypeOK
<1>3. /\ distance' \in Marks
      /\ spd > 0 => distance' < distance
      /\ spd < 0 => \A m \in Marks : m > distance => distance' <= m
  <2>1. ~(spd > 0 /\ spd < 0)
    BY <1>1 DEF TypeOK
  <2> QED
    BY <1>1, <1>2, <2>1, NextAhead, NextBehind
<1>4. /\ BootInv' /\ BootTypeOK'
      /\ UNCHANGED <<leg, at, spd>>
      /\ UNCHANGED <<Distance, buf, garbled, source, trust, informed>>
  BY <1>1, StaysBooted DEF driver, main_
<1>5. TypeOK'
  <2>1. {moved', informed'} \subseteq BOOLEAN
    BY <1>1, <1>4, Flags
  <2> QED
    BY <1>1, <1>3, <1>4, <2>1 DEF TypeOK
<1>6. spd \in Int /\ at \notin Resting
  BY <1>1 DEF IInv, Commanded, TypeOK
<1>7. Commanded' /\ Sourced' /\ NoSurge' /\ (Trusted' <=> Trusted)
  BY <1>4 DEF IInv, Commanded, Sourced, NoSurge, Trusted
<1>8. Waits'
  BY <1>4, <1>6 DEF Waits, Resting
<1>9. Inside'
  BY <1>4, <1>7 DEF IInv, Inside, Gap
<1>10. distance \in Int /\ distance' \in Int /\ Distance \in Int /\ buf \in Int
  BY <1>1, <1>3, Lengths, ApproachAssumption
<1>11. Lags'
  <2> SUFFICES ASSUME Trusted', spd' >= 0
               PROVE  /\ Capped(distance') <= Distance'
                      /\ source' = "sensor" =>
                           distance' <= buf' /\ Capped(buf') <= Distance'
    BY DEF Lags
  <2>1. Trusted /\ spd > 0 /\ spd >= 0
    BY <1>1, <1>4, <1>6, <1>7
  <2>2. /\ Capped(distance) <= Distance
        /\ source = "sensor" => distance <= buf /\ Capped(buf) <= Distance
    BY <2>1 DEF IInv, Lags
  <2>3. distance' < distance
    BY <1>3, <2>1
  <2>4. Capped(distance') <= Distance
    BY <2>2, <2>3, <1>10 DEF Capped
  <2> QED
    BY <2>2, <2>3, <2>4, <1>4, <1>10
(* The mark that MarksAssumption names is behind the robot.                *)
<1>12. Backs'
  <2> SUFFICES ASSUME Trusted', spd' < 0
               PROVE  /\ at' = "brake"
                      /\ Distance' < leg'.stopDist + 10
                      /\ distance' < leg'.stopDist + 10
                      /\ source' = "sensor" => buf' < leg'.stopDist + 10
    <3>1. Trusted' => moved'
      BY <1>1, <1>4 DEF Trusted, Running
    <3> QED
      BY <3>1 DEF Backs
  <2>1. Trusted /\ spd < 0
    BY <1>4, <1>7
  <2>2. /\ at = "brake" /\ Distance < leg.stopDist + 10
        /\ source = "sensor" => buf < leg.stopDist + 10
        /\ distance < leg.stopDist
    BY <1>1, <2>1 DEF IInv, Backs
  <2>3. leg \in Legs /\ leg.stopDist \in Int
    BY <1>1, Lengths DEF TypeOK
  <2>4. PICK m \in Marks : m \in leg.stopDist .. leg.stopDist + 9
    BY <2>3, MarksAssumption
  <2>5. distance' <= m
    BY <1>3, <1>10, <2>1, <2>2, <2>3, <2>4
  <2>6. distance' < leg.stopDist + 10
    BY <1>10, <2>3, <2>4, <2>5
  <2> QED
    BY <1>4, <2>2, <2>6
<1> QED
  BY <1>4, <1>5, <1>7, <1>8, <1>9, <1>11, <1>12 DEF IInv

LEMMA Invariance == Spec => []IInv
<1>1. ASSUME IInv, [Next]_vars PROVE IInv'
  <2>1. CASE UNCHANGED vars
    <3>1. UNCHANGED <<bootVars, world, driver, main_>>
      BY <2>1 DEF vars
    <3>2. BootInv' /\ BootTypeOK'
      BY <1>1, <3>1, StaysBooted
    <3>3. TypeOK'
      BY <1>1, <3>1, <3>2 DEF IInv, TypeOK, world, driver, main_
    <3> QED
      BY <1>1, <3>1, <3>2, <3>3
         DEF IInv, Commanded, Sourced, Waits, Lags, Backs, Inside, NoSurge,
             Trusted, Gap, world, driver, main_
  <2> QED
    BY <1>1, <2>1, StartingUpPreserves, ReadDistancePreserves,
       StoreDistancePreserves, ComePreserves, HaltPreserves,
       GoPreserves, RampPreserves,
       CruisePreserves, BrakePreserves, TurnPreserves, DepartPreserves,
       RollPreserves
       DEF Next, Thread
<1> QED
  BY <1>1, InitEstablishes, PTL DEF Spec

-----------------------------------------------------------------------------
(* Every variable of an approach keeps its type, for all approaches,       *)
(* places and numbers of spoilt readings; Distance stays in its range.     *)
THEOREM TypeCorrect == Spec => []TypeOK
<1>1. IInv => TypeOK
  BY DEF IInv
<1> QED
  BY <1>1, Invariance, PTL

(* The approaches leave the start-up alone: it runs as StartUp says.       *)
THEOREM RunsStartUp == Spec => BootSpec
<1>1. Init => BootInit
  BY DEF Init
<1>2. [Next]_vars => [Boot]_bootVars
  <2>1. ASSUME Next PROVE Boot \/ UNCHANGED bootVars
    BY <2>1 DEF Next, StartingUp, ReadDistance, StoreDistance, Stored, Thread,
                Come, Halt, Go, Ramp, Cruise, Brake, Turn, Depart, Roll
  <2>2. ASSUME UNCHANGED vars PROVE UNCHANGED bootVars
    BY <2>2 DEF vars
  <2> QED
    BY <2>1, <2>2
<1> QED
  BY <1>1, <1>2, PTL DEF Spec, BootSpec

(* So the sensor is still configured when the robot drives by it.          *)
THEOREM SensorStaysConfigured == Spec => []Configured
BY RunsStartUp, SensorIsConfigured, PTL

(* An approach that ramps up never exceeds its speed while the readings of *)
(* Distance are the sensor's, the first of them made after the back-off.   *)
THEOREM SpeedIsKept == Spec => []NoSurge
<1>1. IInv => NoSurge
  BY DEF IInv
<1> QED
  BY <1>1, Invariance, PTL

(* The last loop of MoveForwardTable leaves the robot within reach of the  *)
(* table, whatever Distance does between its two reads, if the readings    *)
(* are the sensor's, the first of them made while the robot stood.         *)
THEOREM StopsInReach == Spec => StopsNear
<1>1. ASSUME IInv, [Next]_vars
      PROVE  [(at = "brake" /\ at' = "stopped" /\ informed /\ trust = "sensor")
                => distance - leg.stopDist < 10]_vars
  <2> SUFFICES ASSUME Next, at = "brake", at' = "stopped", informed,
                      trust = "sensor"
               PROVE  distance - leg.stopDist < 10
    BY <1>1
  <2>1. ~(Gap >= 10)
    <3>1. Brake
      BY DEF Next, StartingUp, ReadDistance, StoreDistance, Stored, Thread,
             Come, Halt, Go, Ramp, Cruise, Turn, Depart, Roll, driver
    <3> QED
      BY <3>1 DEF Brake
  <2>2. /\ TypeOK /\ Trusted /\ spd \in Int
        /\ distance \in Int /\ Distance \in Int /\ leg.stopDist \in Int
        /\ leg.stopDist <= 990
    BY <1>1, Lengths DEF IInv, TypeOK, Trusted, Running
  <2>3. Distance < leg.stopDist + 10
    BY <2>1, <2>2 DEF Gap
  <2>4. distance < leg.stopDist + 10
    <3>1. CASE spd >= 0
      <4>1. Capped(distance) <= Distance
        BY <3>1, <2>2, <1>1 DEF IInv, Lags
      <4> QED
        BY <4>1, <2>2, <2>3 DEF Capped
    <3>2. CASE spd < 0
      BY <3>2, <2>2, <1>1 DEF IInv, Backs
    <3> QED
      BY <3>1, <3>2, <2>2
  <2> QED
    BY <2>2, <2>4
<1> QED
  BY <1>1, Invariance, PTL DEF Spec, StopsNear

=============================================================================
