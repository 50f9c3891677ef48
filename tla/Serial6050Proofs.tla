-------------------------- MODULE Serial6050Proofs --------------------------
(***************************************************************************)
(* Proofs about the yaw link, for every set of turns shorter than half a   *)
(* turn of the byte and every bound on the heading.  After the first byte  *)
(* Deg is the heading itself: that is the inductive invariant.             *)
(***************************************************************************)
EXTENDS Serial6050, TLAPS

(* Deg stands for the heading, the byte for its remainder.                 *)
Unwrapped ==
  IF old = None THEN heard \in 0..254 /\ Bias = 0
  ELSE Deg = heard /\ old = heard % 255

Zeroed == synced => old # None /\ resetValue = origin

IInv == TypeOK /\ Unwrapped /\ Zeroed

(* Division by 255 leaves a remainder, and equal remainders of close       *)
(* headings mean equal headings: what the correction by 255 restores.      *)
LEMMA Remainder ==
  ASSUME NEW h \in Int
  PROVE  /\ h % 255 \in 0..254
         /\ \E q \in Int : h = 255 * q + (h % 255)
<1> DEFINE q == h \div 255
<1>1. h % 255 \in 0..254
  OBVIOUS
<1>2. q \in Int /\ h = 255 * q + (h % 255)
  OBVIOUS
<1> QED
  BY <1>1, <1>2

LEMMA MultipleOf255 ==
  ASSUME NEW q \in Int
  PROVE  (255 * q) % 255 = 0
OBVIOUS

(* The heart of intReceive: over a turn of at most 127 the corrected bytes *)
(* differ by exactly the turn.                                             *)
LEMMA CorrectionUnwraps ==
  ASSUME NEW h \in Int, NEW k \in Int, k - h \in -127..127
  PROVE  /\ Correction(k % 255, h % 255) \in {-255, 0, 255}
         /\ (k % 255) + Correction(k % 255, h % 255) - (h % 255) = k - h
<1>1. PICK p \in Int : h = 255 * p + (h % 255)
  BY Remainder
<1>2. PICK q \in Int : k = 255 * q + (k % 255)
  BY Remainder
<1> DEFINE a == h % 255
           b == k % 255
<1>3. a \in 0..254 /\ b \in 0..254
  BY Remainder
<1>4. h = 255 * p + a /\ k = 255 * q + b
  BY <1>1, <1>2
<1> HIDE DEF a, b
<1>5. q - p \in {-1, 0, 1}
  BY <1>3, <1>4
<1>6. Correction(b, a) \in {-255, 0, 255} /\ b + Correction(b, a) - a = k - h
  <2>1. CASE q - p = 0
    BY <1>3, <1>4, <2>1 DEF Correction
  <2>2. CASE q - p = 1
    BY <1>3, <1>4, <2>2 DEF Correction
  <2>3. CASE q - p = -1
    BY <1>3, <1>4, <2>3 DEF Correction
  <2> QED
    BY <1>5, <2>1, <2>2, <2>3
<1> QED
  BY <1>6 DEF a, b

(* What one byte does, from the inductive invariant.                       *)
LEMMA ReceiveStep ==
  ASSUME IInv, intReceive
  PROVE  /\ IInv'
         /\ old # None => Deg' - Deg = heard' - heard
         /\ old = None => Deg' = heard' /\ heard' = heard
<1> USE YawAssumption DEF None
<1>1. PICK k \in Turned :
        /\ Bias' = Bias + Correction(Byte(k), IF old = None THEN Byte(k) ELSE old)
        /\ Deg' = Byte(k) + Bias'
        /\ old' = Byte(k)
        /\ heard' = k
  BY DEF intReceive
<1>2. /\ UNCHANGED <<phase, resetValue, origin, synced>>
      /\ phase # "boot"
  BY DEF intReceive
<1>3. heard \in Int /\ k \in Int /\ Byte(k) = k % 255
  BY DEF IInv, TypeOK, Turned, Byte
<1>4. Byte(k) \in 0..254
  BY <1>3, Remainder
<1>5. old' # None
  BY <1>1, <1>4
<1>6. CASE old = None
  <2>1. k = heard /\ k \in 0..254 /\ Bias = 0
    BY <1>6 DEF IInv, Unwrapped, Turned
  <2>2. k % 255 = k
    BY <2>1
  <2>3. Correction(Byte(k), Byte(k)) = 0
    BY <1>4 DEF Correction
  <2>4. Bias' = 0 /\ Deg' = k /\ old' = k /\ heard' = k
    BY <1>1, <1>3, <1>6, <2>1, <2>2, <2>3
  <2>5. TypeOK'
    BY <1>2, <1>5, <2>1, <2>4 DEF IInv, TypeOK
  <2>6. Unwrapped'
    BY <1>5, <2>1, <2>2, <2>4 DEF Unwrapped
  <2>7. Zeroed'
    BY <1>2, <1>6 DEF IInv, Zeroed
  <2> QED
    BY <1>6, <2>1, <2>4, <2>5, <2>6, <2>7 DEF IInv
<1>7. CASE old # None
  <2>1. Deg = heard /\ old = heard % 255 /\ Deg = old + Bias /\ Bias % 255 = 0
    BY <1>7 DEF IInv, Unwrapped, TypeOK
  <2>2. k - heard \in -127..127
    BY <1>3, <1>7 DEF Turned
  <2>3. PICK c \in {-255, 0, 255} :
          /\ c = Correction(k % 255, heard % 255)
          /\ (k % 255) + c - (heard % 255) = k - heard
    BY <1>3, <2>2, CorrectionUnwraps
  <2>4. Bias \in Int /\ Bias' = Bias + c
    BY <1>1, <1>3, <1>7, <2>1, <2>3 DEF IInv, TypeOK
  <2>5. Deg' = k
    BY <1>1, <1>3, <1>4, <2>1, <2>3, <2>4
  <2>6. Bias' \in Int /\ Bias' % 255 = 0
    BY <2>1, <2>3, <2>4
  <2>7. TypeOK'
    BY <1>1, <1>2, <1>3, <1>4, <2>5, <2>6 DEF IInv, TypeOK
  <2>8. Unwrapped'
    BY <1>1, <1>3, <1>5, <2>5 DEF Unwrapped
  <2>9. Zeroed'
    BY <1>2, <1>5 DEF IInv, Zeroed
  <2> QED
    BY <1>1, <1>3, <1>7, <2>1, <2>5, <2>7, <2>8, <2>9 DEF IInv
<1> QED
  BY <1>6, <1>7

LEMMA Initial == Init => IInv
<1>1. Init => Unwrapped /\ Zeroed
  BY YawAssumption DEF Init, Unwrapped, Zeroed
<1>2. 0 % 255 = 0
  OBVIOUS
<1>3. Init => TypeOK
  <2> SUFFICES ASSUME Init PROVE TypeOK
    OBVIOUS
  <2>1. synced \in BOOLEAN /\ phase \in {"boot", "listening", "running"}
    BY DEF Init
  <2>2. Bias % 255 = 0 /\ Bias \in Int /\ Deg \in Int /\ resetValue \in Int
    BY <1>2 DEF Init
  <2>3. heard \in Int /\ origin \in Int /\ old = None
    BY YawAssumption DEF Init
  <2> QED
    BY <2>1, <2>2, <2>3 DEF TypeOK
<1> QED
  BY <1>1, <1>3 DEF IInv

LEMMA Inductive == IInv /\ [Next]_vars => IInv'
<1> SUFFICES ASSUME IInv, [Next]_vars
             PROVE  IInv'
  OBVIOUS
<1> USE DEF IInv, TypeOK, Unwrapped, Zeroed
<1>1. CASE Attach
  BY <1>1 DEF Attach
<1>2. CASE intReceive
  BY <1>2, ReceiveStep
<1>3. CASE reset
  BY <1>3 DEF reset, None
<1>4. CASE UNCHANGED vars
  BY <1>4 DEF vars
<1> QED
  BY <1>1, <1>2, <1>3, <1>4 DEF Next

LEMMA Always == Spec => []IInv
BY Initial, Inductive, PTL DEF Spec

(* The byte is always in range and Deg is the byte plus whole turns of it. *)
THEOREM YawTypeCorrect == Spec => []TypeOK
<1>1. IInv => TypeOK
  BY DEF IInv
<1> QED
  BY <1>1, Always, PTL

(* read() is the angle turned since init(), for every history of turns.    *)
THEOREM ReadIsTurnSinceReset == Spec => []ReadSinceReset
<1>1. IInv => ReadSinceReset
  BY DEF IInv, TypeOK, Unwrapped, Zeroed, ReadSinceReset, read
<1> QED
  BY <1>1, Always, PTL

(* Every byte moves Deg by what the robot turned since the one before.     *)
THEOREM LinkFollowsHeading == Spec => HeadingSpec
<1>1. Init => Abstract!Init
  BY YawAssumption DEF Init, Abstract!Init
<1>2. IInv /\ [Next]_vars => [Abstract!Report]_(Abstract!vars)
  <2> SUFFICES ASSUME IInv, [Next]_vars
               PROVE  [Abstract!Report]_(Abstract!vars)
    OBVIOUS
  <2> USE DEF Abstract!vars
  <2>1. CASE Attach
    BY <2>1 DEF Attach
  <2>2. CASE reset
    BY <2>2 DEF reset
  <2>3. CASE UNCHANGED vars
    BY <2>3 DEF vars
  <2>4. CASE intReceive
    <3>1. IInv'
      BY <2>4, ReceiveStep
    <3>2. old' # None /\ heard' \in Int /\ Deg' \in Int /\ heard \in Int /\ Deg \in Int
      <4>1. old' # None
        <5>1. PICK k \in Turned : old' = Byte(k)
          BY <2>4 DEF intReceive
        <5>2. k \in Int /\ Byte(k) = k % 255
          BY <5>1, YawAssumption DEF IInv, TypeOK, Turned, Byte
        <5>3. old' \in 0..254
          BY <5>1, <5>2, Remainder
        <5> QED
          BY <5>3 DEF None
      <4>2. heard' = Deg' /\ heard' \in Int /\ heard \in Int
        BY <3>1, <4>1 DEF IInv, TypeOK, Unwrapped
      <4>3. Deg \in Int
        BY DEF IInv, TypeOK
      <4> QED
        BY <4>1, <4>2, <4>3
    <3>3. CASE old = None
      BY <2>4, <3>2, <3>3, ReceiveStep
    <3>4. CASE old # None
      BY <2>4, <3>2, <3>4, ReceiveStep DEF Abstract!Report
    <3> QED
      BY <3>3, <3>4
  <2> QED
    BY <2>1, <2>2, <2>3, <2>4 DEF Next
<1> QED
  BY <1>1, <1>2, Always, PTL DEF Spec, HeadingSpec, Abstract!Spec

=============================================================================
