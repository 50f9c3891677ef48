---------------------------- MODULE PS4LinkProofs ---------------------------
(***************************************************************************)
(* Proofs about the controller link for frames of every length and data.   *)
(* The inductive invariant says where the receiver stands with respect to  *)
(* the sender: in step with it, or, after a loss, one byte behind or still *)
(* at the end of the frame before.                                         *)
(***************************************************************************)
EXTENDS PS4Link, TLAPS

(* The receiver holds the data sent so far of this frame, and their sum.   *)
InStep ==
  /\ rp = pos - 1 /\ check = sum
  /\ \A i \in 1..rp : Receive[i] = frame[i]

Synced == pos # 0 /\ ~lostNow => InStep

(* The last frame has been taken over; nothing has come yet; a data byte   *)
(* of this frame is missing.                                               *)
Complete == rp = Length /\ ControllerData = Receive
Fresh == rp = 0 /\ check = 0
Behind == rp = pos - 2

Sums == (pos = 0 => sum = 0) /\ (pos = 1 => sum = 0)
Flags ==
  /\ lostNow \in BOOLEAN /\ lostBefore \in BOOLEAN /\ sparse \in BOOLEAN
  /\ pos = 0 => ~lostNow

Located ==
  /\ lostNow => ~lostBefore
  /\ pos = 0 /\ ~lostBefore => Complete \/ Fresh
  /\ pos # 0 /\ lostNow => Complete \/ InStep \/ Behind

(* The numbers of TypeOK, without its flags.                               *)
Data ==
  /\ frame \in Frames /\ pos \in 0..(Length + 1) /\ sum \in Nat
  /\ rp \in 0..Length /\ check \in Nat
  /\ Receive \in [1..Length -> 0..254]
  /\ ControllerData \in [1..Length -> 0..254]

Base == Data /\ Sums /\ Flags /\ Synced

-----------------------------------------------------------------------------
LEMMA Parameters == Length \in Nat /\ Length > 0 /\ Values \subseteq 0..254
BY LinkAssumption

LEMMA ByteRange ==
  ASSUME Data
  PROVE  /\ Byte \in 0..255
         /\ (pos = 0 => Byte = Header)
         /\ (pos # 0 => Byte \in 0..254)
<1> USE Parameters
<1>1. CASE pos = 0
  BY <1>1 DEF Byte, Header
<1>2. CASE pos \in 1..Length
  <2>1. frame[pos] \in 0..254
    BY <1>2 DEF Data, Frames
  <2> QED
    BY <1>2, <2>1 DEF Byte, Header, Data
<1>3. CASE pos = Length + 1
  <2>1. sum % 128 \in 0..127
    BY DEF Data
  <2> QED
    BY <1>3, <2>1 DEF Byte, Header
<1> QED
  BY <1>1, <1>2, <1>3 DEF Data

(* The three cases of the receive interrupt.                               *)
LEMMA OnHeader ==
  ASSUME NEW data, data = Header, WirelessRecive(data)
  PROVE  rp' = 0 /\ check' = 0 /\ Receive' = Receive /\ ControllerData' = ControllerData
BY DEF WirelessRecive

LEMMA OnChecksum ==
  ASSUME NEW data, data # Header, rp >= Length, WirelessRecive(data)
  PROVE  /\ rp' = rp /\ check' = check /\ Receive' = Receive
         /\ ControllerData' \in {Receive, ControllerData}
         /\ check % 128 = data => ControllerData' = Receive
<1>1. /\ UNCHANGED <<rp, check, Receive>>
      /\ ControllerData' = IF check % 128 = data THEN Receive ELSE ControllerData
  BY Zenon DEF WirelessRecive
<1>2. CASE check % 128 = data
  BY <1>1, <1>2, Zenon
<1>3. CASE ~(check % 128 = data)
  BY <1>1, <1>3, Zenon
<1> QED
  BY <1>2, <1>3, Zenon

LEMMA OnData ==
  ASSUME NEW data, data # Header, ~(rp >= Length), WirelessRecive(data)
  PROVE  /\ Receive' = [Receive EXCEPT ![rp + 1] = data]
         /\ rp' = rp + 1 /\ check' = check + data
         /\ ControllerData' = ControllerData
BY Zenon DEF WirelessRecive

(* The receiver keeps its types whatever byte comes.                       *)
LEMMA ReceiverTypes ==
  ASSUME Data, NEW data \in 0..255, WirelessRecive(data)
  PROVE  /\ rp' \in 0..Length /\ check' \in Nat
         /\ Receive' \in [1..Length -> 0..254]
         /\ ControllerData' \in [1..Length -> 0..254]
<1>1. /\ rp \in 0..Length /\ check \in Nat /\ Length \in Nat
      /\ Receive \in [1..Length -> 0..254]
      /\ ControllerData \in [1..Length -> 0..254]
  BY Parameters, Zenon DEF Data
<1>2. CASE data = Header
  <2>1. rp' = 0 /\ check' = 0 /\ Receive' = Receive /\ ControllerData' = ControllerData
    BY <1>2, OnHeader, Zenon
  <2>2. rp' \in 0..Length /\ check' \in Nat
    BY <1>1, <2>1
  <2> QED
    BY <1>1, <2>1, <2>2, Zenon
<1>3. CASE data # Header /\ rp >= Length
  <2>1. /\ rp' = rp /\ check' = check /\ Receive' = Receive
        /\ ControllerData' \in {Receive, ControllerData}
    BY <1>3, OnChecksum, Zenon
  <2> QED
    BY <1>1, <2>1, Zenon
<1>4. CASE data # Header /\ ~(rp >= Length)
  <2>1. /\ Receive' = [Receive EXCEPT ![rp + 1] = data]
        /\ rp' = rp + 1 /\ check' = check + data
        /\ ControllerData' = ControllerData
    BY <1>4, OnData, Zenon
  <2>2. data \in 0..254 /\ rp + 1 \in 1..Length
    BY <1>1, <1>4 DEF Header
  <2>3. rp' \in 0..Length /\ check' \in Nat
    BY <1>1, <2>1, <2>2
  <2>4. Receive' \in [1..Length -> 0..254]
    BY <1>1, <2>1, <2>2
  <2> QED
    BY <1>1, <2>1, <2>3, <2>4, Zenon
<1> QED
  BY <1>2, <1>3, <1>4, Zenon

(* The sender's numbers, and its flags, from one byte to the next.         *)
LEMMA AdvanceNumbers ==
  ASSUME NEW lost, Advance(lost)
  PROVE  IF pos = Length + 1
         THEN frame' \in Frames /\ pos' = 0 /\ sum' = 0
         ELSE /\ pos' = pos + 1 /\ frame' = frame
              /\ sum' = IF pos = 0 THEN 0 ELSE sum + frame[pos]
BY Zenon DEF Advance

LEMMA FlagsKept ==
  ASSUME Data, Flags, NEW lost \in BOOLEAN, Advance(lost), sparse' \in BOOLEAN
  PROVE  Flags'
<1>1. CASE pos = Length + 1
  BY <1>1, Zenon DEF Advance, Flags
<1>2. CASE pos # Length + 1
  <2>1. pos' # 0
    BY <1>2, AdvanceNumbers, Parameters DEF Data
  <2>2. lostNow' \in BOOLEAN /\ lostBefore' \in BOOLEAN
    BY <1>2, Zenon DEF Advance, Flags
  <2> QED
    BY <2>1, <2>2, Zenon DEF Flags
<1> QED
  BY <1>1, <1>2, Zenon

(* A frame ends with its checksum.                                         *)
LEMMA EndOfFrame ==
  ASSUME Data, NEW lost, Advance(lost), pos' = 0
  PROVE  pos = Length + 1
<1> SUFFICES ASSUME pos # Length + 1 PROVE FALSE
  OBVIOUS
<1>1. pos' = pos + 1
  BY Zenon DEF Advance
<1> QED
  BY <1>1, Parameters DEF Data

LEMMA DataByte ==
  ASSUME Data, pos \in 1..Length
  PROVE  frame[pos] \in 0..254 /\ Byte = frame[pos]
<1>1. frame[pos] \in Values
  BY Zenon DEF Data, Frames
<1>2. frame[pos] \in 0..254
  BY <1>1, Parameters, Zenon
<1>3. pos # 0 /\ pos <= Length
  BY Parameters
<1>4. Byte = frame[pos]
  BY <1>3, Zenon DEF Byte
<1> QED
  BY <1>2, <1>4

(* The sender keeps its types and its sum starts from 0.                   *)
LEMMA SenderTypes ==
  ASSUME Data, Sums, NEW lost, Advance(lost)
  PROVE  /\ frame' \in Frames /\ pos' \in 0..(Length + 1) /\ sum' \in Nat
         /\ Sums'
<1>1. /\ frame \in Frames /\ pos \in 0..(Length + 1) /\ sum \in Nat
      /\ Length \in Nat /\ Length > 0
  BY Parameters, Zenon DEF Data
<1>2. CASE pos = Length + 1
  <2>1. frame' \in Frames /\ pos' = 0 /\ sum' = 0
    BY <1>2, Zenon DEF Advance
  <2> QED
    BY <1>1, <2>1 DEF Sums
<1>3. CASE pos # Length + 1
  <2>1. pos' = pos + 1 /\ frame' = frame
    BY <1>3, Zenon DEF Advance
  <2>2. CASE pos = 0
    <3>1. sum' = 0
      BY <1>3, <2>2, Zenon DEF Advance
    <3> QED
      BY <1>1, <2>1, <2>2, <3>1 DEF Sums
  <2>3. CASE pos # 0
    <3>1. sum' = sum + frame[pos]
      BY <1>3, <2>3, Zenon DEF Advance
    <3>2. frame[pos] \in 0..254
      BY <1>1, <1>3, <2>3, DataByte
    <3>3. pos' # 0 /\ pos' # 1 /\ pos' \in 0..(Length + 1) /\ sum' \in Nat
      BY <1>1, <1>3, <2>1, <2>3, <3>1, <3>2
    <3> QED
      BY <1>1, <2>1, <3>3, Zenon DEF Sums
  <2> QED
    BY <2>2, <2>3, Zenon
<1> QED
  BY <1>2, <1>3, Zenon

(* A data byte that comes to a receiver in step leaves it in step.         *)
LEMMA StaysInStep ==
  ASSUME Data, Sums, pos # 0 => InStep, pos # Length + 1,
         WirelessRecive(Byte), Advance(FALSE)
  PROVE  InStep' /\ ControllerData' = ControllerData
<1> USE Parameters
<1>1. /\ pos' = pos + 1 /\ frame' = frame
      /\ sum' = IF pos = 0 THEN 0 ELSE sum + frame[pos]
  BY AdvanceNumbers, Zenon
<1>2. CASE pos = 0
  <2>1. Byte = Header
    BY <1>2, ByteRange
  <2>2. rp' = 0 /\ check' = 0 /\ ControllerData' = ControllerData
    BY <2>1, OnHeader, Zenon
  <2> QED
    BY <1>1, <1>2, <2>2 DEF InStep, Sums
<1>3. CASE pos # 0
  <2>1. pos \in 1..Length /\ rp = pos - 1 /\ check = sum
    BY <1>3 DEF Data, InStep
  <2>2. Byte = frame[pos] /\ Byte # Header /\ ~(rp >= Length)
    BY <2>1, ByteRange, DataByte DEF Header
  <2>3. /\ Receive' = [Receive EXCEPT ![rp + 1] = Byte]
        /\ rp' = rp + 1 /\ check' = check + Byte
        /\ ControllerData' = ControllerData
    BY <2>2, OnData, Zenon
  <2>4. \A i \in 1..pos : Receive'[i] = frame[i]
    BY <1>3, <2>1, <2>2, <2>3 DEF InStep, Data
  <2> QED
    BY <1>1, <1>3, <2>1, <2>2, <2>3, <2>4 DEF InStep
<1> QED
  BY <1>2, <1>3

(* The checksum that comes to a receiver in step completes the frame.      *)
LEMMA Completes ==
  ASSUME Data, InStep, pos = Length + 1, WirelessRecive(Byte)
  PROVE  /\ ControllerData' = frame
         /\ rp' = Length /\ Receive' = frame
<1> USE Parameters
<1>1. rp = Length /\ Byte = check % 128
  BY DEF InStep, Byte, Data
<1>2. Byte # Header
  BY ByteRange DEF Header
<1>3. Receive = frame
  BY <1>1 DEF InStep, Data, Frames
<1>4. rp >= Length
  BY <1>1
<1>5. rp' = rp /\ Receive' = Receive /\ ControllerData' = Receive
  BY <1>1, <1>2, <1>4, OnChecksum, Zenon
<1> QED
  BY <1>1, <1>3, <1>5

-----------------------------------------------------------------------------
LEMMA BaseInit == Init => Base
<1> SUFFICES ASSUME Init PROVE Base
  OBVIOUS
<1>1. Data
  BY Parameters DEF Init, Data, Neutral
<1>2. Flags /\ Synced
  BY Zenon DEF Init, Flags, Synced
<1>3. Sums
  BY DEF Init, Sums
<1> QED
  BY <1>1, <1>2, <1>3 DEF Base

LEMMA BaseNext == Base /\ [Next]_vars => Base'
<1> SUFFICES ASSUME Base, [Next]_vars PROVE Base'
  OBVIOUS
<1>0. Data /\ Sums /\ Flags /\ Synced
  BY Zenon DEF Base
<1>1. CASE Deliver
  <2>1. WirelessRecive(Byte) /\ Advance(FALSE)
    BY <1>1, Zenon DEF Deliver
  <2>2. Data' /\ Sums'
    BY <1>0, <2>1, ByteRange, ReceiverTypes, SenderTypes, Zenon DEF Data
  <2>3. Flags'
    <3>1. sparse' \in BOOLEAN
      BY <1>0, <1>1, Zenon DEF Deliver, Flags
    <3> QED
      BY <1>0, <2>1, <3>1, FlagsKept, Zenon
  <2>4. Synced'
    <3>1. CASE pos = Length + 1
      BY <2>1, <3>1, Zenon DEF Advance, Synced
    <3>2. CASE pos # Length + 1
      <4> SUFFICES ASSUME ~lostNow' PROVE InStep'
        BY Zenon DEF Synced
      <4>1. ~lostNow
        BY <2>1, <3>2, Zenon DEF Advance
      <4>2. pos # 0 => InStep
        BY <1>0, <4>1, Zenon DEF Synced
      <4> QED
        BY <1>0, <2>1, <3>2, <4>2, StaysInStep, Zenon
    <3> QED
      BY <3>1, <3>2
  <2> QED
    BY <2>2, <2>3, <2>4 DEF Base
<1>2. CASE Lose
  <2>1. Advance(TRUE) /\ UNCHANGED <<rp, check, Receive, ControllerData>>
    BY <1>2, Zenon DEF Lose, receiver
  <2>2. Data' /\ Sums'
    BY <1>0, <2>1, SenderTypes, Zenon DEF Data
  <2>3. Flags'
    <3>1. sparse' \in BOOLEAN
      BY <1>2, Zenon DEF Lose
    <3> QED
      BY <1>0, <2>1, <3>1, FlagsKept, Zenon
  <2>4. Synced'
    BY <2>1, Zenon DEF Advance, Synced
  <2> QED
    BY <2>2, <2>3, <2>4 DEF Base
<1>3. CASE UNCHANGED vars
  BY <1>0, <1>3, Zenon DEF Base, vars, sender, receiver, Data, Sums, Flags, Synced, InStep
<1> QED
  BY <1>1, <1>2, <1>3 DEF Next

LEMMA BaseAlways == Spec => []Base
BY BaseInit, BaseNext, PTL DEF Spec

(* The types are right, the checksum byte stored as data included.         *)
THEOREM LinkTypeCorrect == Spec => []TypeOK
<1>1. Base => TypeOK
  BY Zenon DEF Base, Data, Flags, TypeOK
<1> QED
  BY <1>1, BaseAlways, PTL

(* Every frame that arrives whole is taken over, for every length, data    *)
(* and history of losses before it.                                        *)
THEOREM WholeFramesAccepted == Spec => IntactFrameAccepted
<1>1. Base /\ [Next]_vars
        => [pos # 0 /\ pos' = 0 /\ ~lostBefore' => ControllerData' = frame]_vars
  <2> SUFFICES ASSUME Base, Next, pos # 0, pos' = 0, ~lostBefore'
               PROVE  ControllerData' = frame
    BY Zenon
  <2>0. Data /\ Sums /\ Flags /\ Synced
    BY Zenon DEF Base
  <2>1. CASE Deliver
    <3>1. WirelessRecive(Byte) /\ Advance(FALSE)
      BY <2>1, Zenon DEF Deliver
    <3>2. pos = Length + 1
      BY <2>0, <3>1, EndOfFrame, Zenon
    <3>3. ~lostNow
      BY <3>1, <3>2, Zenon DEF Advance
    <3>4. InStep
      BY <2>0, <3>3, Zenon DEF Synced
    <3> QED
      BY <2>0, <3>1, <3>2, <3>4, Completes, Zenon
  <2>2. CASE Lose
    <3>1. Advance(TRUE)
      BY <2>2, Zenon DEF Lose
    <3>2. pos = Length + 1
      BY <2>0, <3>1, EndOfFrame, Zenon
    <3> QED
      BY <3>1, <3>2, Zenon DEF Advance
  <2> QED
    BY <2>1, <2>2, Zenon DEF Next
<1> QED
  BY <1>1, BaseAlways, PTL DEF Spec, IntactFrameAccepted

-----------------------------------------------------------------------------
(* One byte to a receiver that has completed a frame, and to one that is a *)
(* byte behind: neither changes ControllerData.                            *)
LEMMA StaysComplete ==
  ASSUME Data, Complete, pos # 0, WirelessRecive(Byte)
  PROVE  Complete' /\ ControllerData' = ControllerData
<1>0. Byte \in 0..254 /\ rp = Length
  BY ByteRange, Zenon DEF Complete
<1>1. Byte # Header /\ rp >= Length
  BY <1>0, Parameters DEF Header
<1>2. rp' = rp /\ Receive' = Receive /\ ControllerData' \in {Receive, ControllerData}
  BY <1>1, OnChecksum, Zenon
<1> QED
  BY <1>2, Zenon DEF Complete

LEMMA StaysBehind ==
  ASSUME Data, Behind, pos # 0, WirelessRecive(Byte)
  PROVE  rp' = pos - 1 /\ ControllerData' = ControllerData
<1>0. Byte \in 0..254 /\ pos \in 0..(Length + 1) /\ rp = pos - 2
  BY ByteRange, Zenon DEF Behind, Data
<1>1. Byte # Header /\ ~(rp >= Length)
  BY <1>0, Parameters DEF Header
<1>2. rp' = rp + 1 /\ ControllerData' = ControllerData
  BY <1>1, OnData, Zenon
<1> QED
  BY <1>2 DEF Behind, Data

LEMMA LocatedDeliver ==
  ASSUME Base, Located, Deliver
  PROVE  Located' /\ (ControllerData' = ControllerData \/ ControllerData' = frame)
<1>1. WirelessRecive(Byte) /\ Advance(FALSE)
  BY Zenon DEF Deliver
<1>2. Data /\ Sums /\ Flags /\ Synced
  BY Zenon DEF Base
<1>3. CASE pos = Length + 1 /\ lostNow
  <2>1. pos' = 0 /\ lostBefore' /\ ~lostNow'
    BY <1>1, <1>3, Zenon DEF Advance
  <2>2. Located'
    BY <2>1, Zenon DEF Located
  <2>3. pos # 0
    BY <1>3, Parameters
  <2>4. Complete \/ InStep \/ Behind
    BY <1>3, <2>3, Zenon DEF Located
  <2>5. ControllerData' = ControllerData \/ ControllerData' = frame
    BY <1>1, <1>2, <1>3, <2>3, <2>4, StaysComplete, StaysBehind, Completes, Zenon
  <2> QED
    BY <2>2, <2>5, Zenon
<1>4. CASE pos = Length + 1 /\ ~lostNow
  <2>1. pos' = 0 /\ ~lostBefore' /\ ~lostNow'
    BY <1>1, <1>4, Zenon DEF Advance
  <2>2. pos # 0
    BY <1>4, Parameters
  <2>3. InStep
    BY <1>2, <1>4, <2>2, Zenon DEF Synced
  <2>4. ControllerData' = frame /\ rp' = Length /\ Receive' = frame
    BY <1>1, <1>2, <1>4, <2>3, Completes, Zenon
  <2>5. Complete'
    BY <2>4, Zenon DEF Complete
  <2> QED
    BY <2>1, <2>4, <2>5, Zenon DEF Located
<1>5. CASE pos # Length + 1 /\ ~lostNow
  <2>1. pos # 0 => InStep
    BY <1>2, <1>5, Zenon DEF Synced
  <2>2. ControllerData' = ControllerData
    BY <1>1, <1>2, <1>5, <2>1, StaysInStep, Zenon
  <2>3. ~lostNow' /\ pos' = pos + 1
    BY <1>1, <1>5, Zenon DEF Advance
  <2>4. pos' # 0
    BY <1>2, <2>3 DEF Data
  <2> QED
    BY <2>2, <2>3, <2>4, Zenon DEF Located
<1>6. CASE pos # Length + 1 /\ lostNow
  <2>1. pos # 0 /\ ~lostBefore
    BY <1>2, <1>6, Zenon DEF Flags, Located
  <2>2. lostNow' /\ ~lostBefore' /\ pos' = pos + 1
    BY <1>1, <1>6, <2>1, Zenon DEF Advance
  <2>3. pos' # 0
    BY <1>2, <2>2 DEF Data
  <2>4. CASE Complete
    BY <1>1, <1>2, <2>1, <2>2, <2>3, <2>4, StaysComplete, Zenon DEF Located
  <2>5. CASE InStep
    BY <1>1, <1>2, <1>6, <2>1, <2>2, <2>3, <2>5, StaysInStep, Zenon DEF Located
  <2>6. CASE Behind
    <3>1. rp' = pos - 1 /\ ControllerData' = ControllerData
      BY <1>1, <1>2, <2>1, <2>6, StaysBehind, Zenon
    <3>2. Behind'
      BY <1>2, <2>2, <3>1 DEF Behind, Data
    <3> QED
      BY <2>2, <2>3, <3>1, <3>2, Zenon DEF Located
  <2> QED
    BY <1>6, <2>1, <2>4, <2>5, <2>6, Zenon DEF Located
<1> QED
  BY <1>3, <1>4, <1>5, <1>6, Zenon

LEMMA LocatedLose ==
  ASSUME Base, Located, Lose, sparse'
  PROVE  Located' /\ ControllerData' = ControllerData
<1>1. /\ Advance(TRUE) /\ ~lostNow /\ ~lostBefore
      /\ UNCHANGED <<rp, check, Receive, ControllerData>>
  BY Zenon DEF Lose, receiver
<1>2. Data /\ Sums /\ Flags /\ Synced
  BY Zenon DEF Base
<1>3. CASE pos = Length + 1
  <2>1. pos' = 0 /\ lostBefore' /\ ~lostNow'
    BY <1>1, <1>3, Zenon DEF Advance
  <2> QED
    BY <1>1, <2>1, Zenon DEF Located
<1>4. CASE pos = 0
  <2>1. lostNow' /\ ~lostBefore' /\ pos' = pos + 1 /\ sum' = 0
    <3>1. pos # Length + 1
      BY <1>4, Parameters
    <3> QED
      BY <1>1, <1>4, <3>1, Zenon DEF Advance
  <2>2. CASE Complete
    BY <1>1, <2>1, <2>2, Zenon DEF Complete, Located
  <2>3. CASE Fresh
    <3>1. rp' = 0 /\ check' = 0 /\ sum' = 0 /\ pos' = 1
      BY <1>1, <1>4, <2>1, <2>3 DEF Fresh
    <3>2. \A i \in 1..rp' : Receive'[i] = frame'[i]
      BY <3>1
    <3>3. InStep'
      BY <3>1, <3>2 DEF InStep
    <3>4. pos' # 0
      BY <3>1
    <3> QED
      BY <1>1, <2>1, <3>3, <3>4, Zenon DEF Located
  <2> QED
    BY <1>1, <1>4, <2>2, <2>3, Zenon DEF Located
<1>5. CASE pos # 0 /\ pos # Length + 1
  <2>1. lostNow' /\ ~lostBefore' /\ pos' = pos + 1
    BY <1>1, <1>5, Zenon DEF Advance
  <2>2. InStep
    BY <1>1, <1>2, <1>5, Zenon DEF Synced
  <2>3. Behind'
    BY <1>1, <1>2, <2>1, <2>2 DEF Behind, InStep, Data
  <2>4. pos' # 0
    BY <1>2, <2>1 DEF Data
  <2> QED
    BY <1>1, <2>1, <2>3, <2>4, Zenon DEF Located
<1> QED
  BY <1>3, <1>4, <1>5, Zenon

(* While at most one byte of two frames in a row has been lost, no mixture *)
(* of two frames and no shifted frame reaches ControllerData.              *)
THEOREM SparseLossNeverMixes == Spec => NoMixedFrame
<1>1. Init => (sparse => Located)
  BY Zenon DEF Init, Located, Fresh
<1>2. Base /\ (sparse => Located) /\ [Next]_vars => (sparse' => Located')
  <2> SUFFICES ASSUME Base, sparse => Located, [Next]_vars, sparse' PROVE Located'
    BY Zenon
  <2>1. CASE UNCHANGED vars
    BY <2>1, Zenon DEF vars, sender, receiver, Located, Complete, Fresh, Behind, InStep
  <2>2. CASE Deliver
    BY <2>2, LocatedDeliver, Zenon DEF Deliver
  <2>3. CASE Lose
    BY <2>3, LocatedLose, Zenon DEF Lose
  <2> QED
    BY <2>1, <2>2, <2>3, Zenon DEF Next
<1>3. Base /\ (sparse => Located) /\ [Next]_vars
        => [sparse' /\ ControllerData' # ControllerData => ControllerData' = frame]_vars
  <2> SUFFICES ASSUME Base, sparse => Located, Next, sparse',
                      ControllerData' # ControllerData
               PROVE  ControllerData' = frame
    BY Zenon
  <2>1. CASE Deliver
    BY <2>1, LocatedDeliver, Zenon DEF Deliver
  <2>2. CASE Lose
    BY <2>2, LocatedLose, Zenon DEF Lose
  <2> QED
    BY <2>1, <2>2, Zenon DEF Next
<1> QED
  BY <1>1, <1>2, <1>3, BaseAlways, PTL DEF Spec, NoMixedFrame

=============================================================================
