------------------------------ MODULE StartUp -------------------------------
(***************************************************************************)
(* main() up to its loop: the distance sensor is brought up by             *)
(* VL53L1X::begin, the yaw board is waited for, and the threads are        *)
(* started.  The controller may have been reset alone: the sensor then     *)
(* still holds what an earlier run wrote.                                  *)
(*                                                                         *)
(* The driver ignores what the I2C transfers return: a write may be lost,  *)
(* and a failed read yields what was on the stack.                         *)
(***************************************************************************)
EXTENDS Integers

CONSTANTS
  BlockSize,   \* bytes of configBlock: 135
  Trimmed,     \* how many of them begin() takes over from the chip: 36
  Chunk,       \* bytes sent in a transfer: 30
  MaxPolls     \* polls of the sensor's firmware: 100

ASSUME StartUpAssumption ==
  /\ BlockSize \in 1..254
  /\ Trimmed \in 0..BlockSize
  /\ Chunk \in Nat \ {0}
  /\ MaxPolls \in Nat

VARIABLES
  main,         \* where main() is
  counter,      \* begin(): polls made
  configBlock,  \* per byte: the driver's default, the chip's trim, or junk
  registers,    \* per register of the chip: what it holds
  address,      \* startMeasurement(): the register of the next chunk
  leftToSend,   \* and the bytes still to send
  failed        \* history: a transfer of begin() has failed

bootVars == <<main, counter, configBlock, registers, address, leftToSend,
              failed>>

Block == 1..BlockSize

(* A register the sensor trims itself, and any other after a reset.        *)
AfterReset == [a \in Block |-> IF a <= Trimmed THEN "trim" ELSE "reset"]

(* What begin() is to leave in the chip.                                   *)
Intended == [a \in Block |-> IF a <= Trimmed THEN "trim" ELSE "default"]

BootInit ==
  /\ main = "identify"
  /\ counter = 0
  /\ configBlock = [a \in Block |-> "default"]
  /\ registers \in {AfterReset, [a \in Block |-> "stale"]}
  /\ address = 1
  /\ leftToSend = BlockSize
  /\ failed = FALSE

-----------------------------------------------------------------------------
(* VL53L1X::begin.                                                         *)

(* Mutation variant: the sensor is not reset.                              *)
Identify_NoReset ==
  /\ main = "identify"
  /\ main' \in {"poll", "offline"}
  /\ UNCHANGED <<counter, configBlock, registers, address, leftToSend, failed>>

(* The model ID is read.  If it is the right one the sensor is reset,      *)
(* otherwise begin() returns false and so does main().                     *)
Identify ==
  /\ main = "identify"
  /\ \/ main' = "poll" /\ registers' = AfterReset /\ UNCHANGED failed
     \/ main' = "poll" /\ failed' = TRUE /\ UNCHANGED registers
     \/ main' = "offline" /\ UNCHANGED <<registers, failed>>
  /\ UNCHANGED <<counter, configBlock, address, leftToSend>>

(* Mutation variant: the counter wraps before it reaches the limit.        *)
Poll_Wraps ==
  /\ main = "poll"
  /\ \/ main' = "trim" /\ counter' = 0
     \/ main' = "poll" /\ counter' = (counter + 1) % MaxPolls
  /\ UNCHANGED <<configBlock, registers, address, leftToSend, failed>>

(* The firmware is ready, or is asked again after a tenth of a second      *)
(* until begin() gives up.                                                 *)
Poll ==
  /\ main = "poll"
  /\ \/ main' = "trim" /\ counter' = 0
     \/ main' = "poll" /\ counter < MaxPolls /\ counter' = counter + 1
     \/ main' = "offline" /\ counter = MaxPolls /\ counter' = 0
  /\ UNCHANGED <<configBlock, registers, address, leftToSend, failed>>

(* The trim values are read one by one; those of broken reads are junk.    *)
Trim ==
  /\ main = "trim"
  /\ \E broken \in SUBSET (1..Trimmed) :
       /\ configBlock' = [a \in Block |->
            IF a > Trimmed THEN configBlock[a]
            ELSE IF a \in broken THEN "junk" ELSE registers[a]]
       /\ failed' = (failed \/ broken # {})
  /\ main' = "send"
  /\ UNCHANGED <<counter, registers, address, leftToSend>>

ToSend == IF Chunk > leftToSend THEN leftToSend ELSE Chunk

(* Mutation variant: the address bytes are counted as data.                *)
Send_Short ==
  /\ main = "send" /\ leftToSend > 0
  /\ registers' = [a \in Block |->
       IF a \in address..(address + ToSend - 2) THEN configBlock[a]
       ELSE registers[a]]
  /\ address' = (address + ToSend) % 256
  /\ leftToSend' = leftToSend - ToSend
  /\ UNCHANGED <<main, counter, configBlock, failed>>

(* One turn of the loop in startMeasurement(); address is a byte.          *)
Send ==
  /\ main = "send" /\ leftToSend > 0
  /\ \/ /\ registers' = [a \in Block |->
             IF a \in address..(address + ToSend - 1) THEN configBlock[a]
             ELSE registers[a]]
        /\ UNCHANGED failed
     \/ failed' = TRUE /\ UNCHANGED registers
  /\ address' = (address + ToSend) % 256
  /\ leftToSend' = leftToSend - ToSend
  /\ UNCHANGED <<main, counter, configBlock>>

Sent ==
  /\ main = "send" /\ leftToSend = 0
  /\ main' = "yaw"
  /\ UNCHANGED <<counter, configBlock, registers, address, leftToSend, failed>>

-----------------------------------------------------------------------------
(* mpu.init() returns when the yaw board has answered; then the threads    *)
(* are started.                                                            *)
StartThreads ==
  /\ main = "yaw"
  /\ main' = "loop"
  /\ UNCHANGED <<counter, configBlock, registers, address, leftToSend, failed>>

Boot == Identify \/ Poll \/ Trim \/ Send \/ Sent \/ StartThreads

BootSpec == BootInit /\ [][Boot]_bootVars

-----------------------------------------------------------------------------
(* Properties.                                                             *)

BootTypeOK ==
  /\ main \in {"identify", "poll", "trim", "send", "yaw", "loop", "offline"}
  /\ counter \in 0..MaxPolls
  /\ configBlock \in [Block -> {"default", "trim", "junk", "stale"}]
  /\ registers \in [Block -> {"reset", "default", "trim", "junk", "stale"}]
  /\ address \in 1..(BlockSize + 1)
  /\ leftToSend \in 0..BlockSize
  /\ failed \in BOOLEAN

(* When startMeasurement has sent its last chunk every register holds what *)
(* configBlock says, and the sensor keeps its own trim: unless a transfer  *)
(* failed, which begin() does not notice.                                  *)
Configured ==
  (main \in {"yaw", "loop"} /\ ~failed) => registers = Intended

(* main() does not hang on the distance sensor, however it answers.        *)
SensorSettles == (main = "identify") ~> (main \in {"offline", "yaw", "loop"})

=============================================================================
