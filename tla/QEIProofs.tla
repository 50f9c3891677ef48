----------------------------- MODULE QEIProofs ------------------------------
(***************************************************************************)
(* Proofs about QEI: however the handlers are delayed, the wheel turns     *)
(* back, the index overtakes an edge and reset() is called at rest or on   *)
(* the move, for every disc, the count stays with the wheel, and an index  *)
(* puts it right.  The exception is a reset() that an index comes in the   *)
(* middle of.                                                              *)
(***************************************************************************)
EXTENDS QEI, TLAPS

(* The counts that late handlers lose between two indices stay below half  *)
(* a revolution.                                                           *)
FewLate == 2 + 2 * MaxLate < pulsesPerRev \div 2

Bit == 0..1

-----------------------------------------------------------------------------
(* A turn by a quarter step.                                               *)

X2Count(p) == (p + 2) \div 4 + p \div 4

(* The edges between two neighbouring positions.                           *)
LEMMA Neighbours ==
  ASSUME NEW p \in Int
  PROVE  \/ /\ channels(p) = <<0, 0>> /\ channels(p + 1) = <<0, 1>>
            /\ X2Count(p + 1) = X2Count(p)
         \/ /\ channels(p) = <<0, 1>> /\ channels(p + 1) = <<1, 1>>
            /\ X2Count(p + 1) = X2Count(p) + 1
         \/ /\ channels(p) = <<1, 1>> /\ channels(p + 1) = <<1, 0>>
            /\ X2Count(p + 1) = X2Count(p)
         \/ /\ channels(p) = <<1, 0>> /\ channels(p + 1) = <<0, 0>>
            /\ X2Count(p + 1) = X2Count(p) + 1
<1>1. PICK n \in Int : n = p \div 4
  OBVIOUS
<1>2. CASE p = 4 * n
  BY <1>2 DEF channels, A, B, X2Count
<1>3. CASE p = 4 * n + 1
  BY <1>3 DEF channels, A, B, X2Count
<1>4. CASE p = 4 * n + 2
  BY <1>4 DEF channels, A, B, X2Count
<1>5. CASE p = 4 * n + 3
  BY <1>5 DEF channels, A, B, X2Count
<1> QED
  BY <1>1, <1>2, <1>3, <1>4, <1>5

LEMMA ChannelBits ==
  ASSUME NEW p \in Int
  PROVE  /\ channels(p) \in Bit \X Bit
         /\ channels(p)[1] = A(p) /\ channels(p)[2] = B(p)
         /\ X2Count(p) \in Int
<1>1. X2Count(p) \in Int
  BY DEF X2Count
<1>2. channels(p) \in Bit \X Bit
  BY Neighbours DEF Bit
<1> QED
  BY <1>1, <1>2 DEF channels

(* In X4 a handler in time counts every edge, and one that is late loses   *)
(* two of them at most.                                                    *)
LEMMA X4Forward ==
  ASSUME NEW p \in Int
  PROVE  /\ X4Change(channels(p), channels(p + 1)) = 1
         /\ X4Change(channels(p + 1), channels(p)) = -1
         /\ \A s \in Bit \X Bit :
              X4Change(s, channels(p + 1)) - X4Change(s, channels(p)) \in -1..3
<1>1. \A s \in Bit \X Bit : \E a \in Bit, b \in Bit : s = <<a, b>>
  OBVIOUS
<1>2. CASE channels(p) = <<0, 0>> /\ channels(p + 1) = <<0, 1>>
  BY <1>1, <1>2 DEF X4Change, Bit
<1>3. CASE channels(p) = <<0, 1>> /\ channels(p + 1) = <<1, 1>>
  BY <1>1, <1>3 DEF X4Change, Bit
<1>4. CASE channels(p) = <<1, 1>> /\ channels(p + 1) = <<1, 0>>
  BY <1>1, <1>4 DEF X4Change, Bit
<1>5. CASE channels(p) = <<1, 0>> /\ channels(p + 1) = <<0, 0>>
  BY <1>1, <1>5 DEF X4Change, Bit
<1> QED
  BY <1>2, <1>3, <1>4, <1>5, Neighbours

(* In X2 the handler counts an edge of A if B has changed since the last:  *)
(* after a change of direction one edge goes uncounted.  Turned says       *)
(* whether the last was passed backwards.                                  *)
Turned(s) == IF s[1] = s[2] THEN 0 ELSE -1

X2Due(s, p) == X2Change(s, channels(p)) + Turned(channels(p))

LEMMA X2Forward ==
  ASSUME NEW p \in Int, NEW s \in Bit \X Bit
  PROVE  /\ A(p + 1) = A(p) => X2Count(p + 1) = X2Count(p)
         /\ A(p + 1) # A(p) =>
              /\ X2Count(p + 1) = X2Count(p) + 1
              /\ s[1] = A(p) => X2Due(s, p + 1) - Turned(s) = 1
              /\ s[1] = A(p + 1) => X2Due(s, p) - Turned(s) = -1
<1>1. PICK a \in {0, 1}, b \in {0, 1} : s = <<a, b>>
  BY DEF Bit
<1>2. /\ A(p) = channels(p)[1] /\ A(p + 1) = channels(p + 1)[1]
      /\ X2Count(p) \in Int
  BY ChannelBits
<1>3. CASE /\ channels(p) = <<0, 0>> /\ channels(p + 1) = <<0, 1>>
           /\ X2Count(p + 1) = X2Count(p)
  BY <1>2, <1>3
<1>4. CASE /\ channels(p) = <<0, 1>> /\ channels(p + 1) = <<1, 1>>
           /\ X2Count(p + 1) = X2Count(p) + 1
  BY <1>1, <1>2, <1>4 DEF X2Due, X2Change, Turned
<1>5. CASE /\ channels(p) = <<1, 1>> /\ channels(p + 1) = <<1, 0>>
           /\ X2Count(p + 1) = X2Count(p)
  BY <1>2, <1>5
<1>6. CASE /\ channels(p) = <<1, 0>> /\ channels(p + 1) = <<0, 0>>
           /\ X2Count(p + 1) = X2Count(p) + 1
  BY <1>1, <1>2, <1>6 DEF X2Due, X2Change, Turned
<1> QED
  BY <1>3, <1>4, <1>5, <1>6, Neighbours

LEMMA X2Late ==
  ASSUME NEW p \in Int, NEW s \in Bit \X Bit
  PROVE  (X2Due(s, p + 1) - X2Due(s, p)) - (X2Count(p + 1) - X2Count(p)) \in -2..2
<1>1. PICK a \in {0, 1}, b \in {0, 1} : s = <<a, b>>
  BY DEF Bit
<1>2. X2Count(p) \in Int
  BY ChannelBits
<1>3. CASE /\ channels(p) = <<0, 0>> /\ channels(p + 1) = <<0, 1>>
           /\ X2Count(p + 1) = X2Count(p)
  BY <1>1, <1>2, <1>3 DEF X2Due, X2Change, Turned
<1>4. CASE /\ channels(p) = <<0, 1>> /\ channels(p + 1) = <<1, 1>>
           /\ X2Count(p + 1) = X2Count(p) + 1
  BY <1>1, <1>2, <1>4 DEF X2Due, X2Change, Turned
<1>5. CASE /\ channels(p) = <<1, 1>> /\ channels(p + 1) = <<1, 0>>
           /\ X2Count(p + 1) = X2Count(p)
  BY <1>1, <1>2, <1>5 DEF X2Due, X2Change, Turned
<1>6. CASE /\ channels(p) = <<1, 0>> /\ channels(p + 1) = <<0, 0>>
           /\ X2Count(p + 1) = X2Count(p) + 1
  BY <1>1, <1>2, <1>6 DEF X2Due, X2Change, Turned
<1> QED
  BY <1>3, <1>4, <1>5, <1>6, Neighbours

-----------------------------------------------------------------------------
(* Rounding to whole revolutions.                                          *)

LEMMA ProductGrows ==
  ASSUME NEW b \in Nat \ {0}, NEW k \in Int, k >= 1
  PROVE  b * k >= b
OBVIOUS

LEMMA DivisionIsUnique ==
  ASSUME NEW b \in Nat \ {0}, NEW k \in Int, NEW r \in 0..(b - 1),
         NEW n \in Nat, n = b * k + r
  PROVE  n \div b = k
<1>1. PICK l \in Int : l = n \div b
  OBVIOUS
<1>2. n - b * l \in 0..(b - 1)
  BY <1>1
<1>3. b * (k - l) = (n - b * l) - r
  OBVIOUS
<1>4. ~(k - l >= 1)
  BY <1>2, <1>3, ProductGrows
<1>5. b * (l - k) = r - (n - b * l)
  OBVIOUS
<1>6. ~(l - k >= 1)
  BY <1>2, <1>5, ProductGrows
<1> QED
  BY <1>1, <1>4, <1>6

LEMMA NearestExact ==
  ASSUME NEW k \in Int, NEW d \in Int, pulsesPerRev_ \in Nat \ {0},
         d < pulsesPerRev_ \div 2, -d < pulsesPerRev_ \div 2
  PROVE  Nearest(pulsesPerRev_ * k + d) = k
<1>1. PICK b \in Nat \ {0} : b = pulsesPerRev_
  OBVIOUS
<1>2. PICK half \in Nat : half = b \div 2
  OBVIOUS
<1>3. 2 * half <= b /\ d < half /\ -d < half /\ half < b
  BY <1>1, <1>2
<1>4. PICK pls \in Int : pls = b * k + d
  OBVIOUS
<1> DEFINE y == Quotient(pls, b)
           x == pls - b * y
<1>5. Nearest(pls) = (CASE pls > 0 /\ x > half -> y + 1
                        [] pls <= 0 /\ x < -half -> y - 1
                        [] OTHER -> y)
  BY <1>1, <1>2 DEF Nearest, Remainder
<1>6. CASE k >= 1
  <2>1. b * k >= b /\ pls > 0
    BY <1>3, <1>4, <1>6, ProductGrows
  <2>2. CASE d >= 0
    <3>1. y = k
      <4>1. d \in 0..(b - 1) /\ pls \in Nat
        BY <1>3, <2>1, <2>2
      <4>2. pls \div b = k
        BY ONLY <1>1, <1>4, <4>1, DivisionIsUnique
      <4> QED
        BY <2>1, <4>2 DEF Quotient
    <3>2. x = d
      BY <1>4, <3>1
    <3> QED
      BY <1>1, <1>3, <1>4, <1>5, <2>1, <3>1, <3>2
  <2>3. CASE d < 0
    <3>1. pls = b * (k - 1) + (b + d) /\ b + d \in 0..(b - 1)
      BY <1>3, <1>4, <2>3
    <3>2. y = k - 1
      <4>1. PICK l \in Int, e \in 0..(b - 1) : l = k - 1 /\ e = b + d
        BY <3>1
      <4>2. pls = b * l + e /\ pls \in Nat
        BY <2>1, <3>1, <4>1
      <4>3. pls \div b = l
        BY ONLY <1>1, <4>2, DivisionIsUnique
      <4> QED
        BY <2>1, <4>1, <4>3 DEF Quotient
    <3>3. x = b + d
      BY <3>1, <3>2
    <3> QED
      BY <1>1, <1>3, <1>4, <1>5, <2>1, <3>2, <3>3
  <2> QED
    BY <2>2, <2>3
<1>7. CASE k = 0
  <2>1. pls = d
    BY <1>4, <1>7
  <2>2. y = 0
    <3>1. CASE d >= 0
      BY <1>3, <2>1, <3>1, DivisionIsUnique DEF Quotient
    <3>2. CASE d < 0
      <4>1. -d = b * 0 + (-d) /\ -d \in 0..(b - 1)
        BY <1>3, <3>2
      <4>2. (-d) \div b = 0
        BY <4>1, DivisionIsUnique
      <4> QED
        BY <2>1, <3>2, <4>2 DEF Quotient
    <3> QED
      BY <3>1, <3>2
  <2>3. x = d
    BY <2>1, <2>2
  <2> QED
    BY <1>1, <1>3, <1>4, <1>5, <1>7, <2>1, <2>2, <2>3
<1>8. CASE k <= -1
  <2>1. b * (-k) >= b /\ -pls = b * (-k) + (-d) /\ pls < 0
    <3>1. b * (-k) >= b
      BY <1>8, ProductGrows
    <3>2. -pls = b * (-k) + (-d)
      BY <1>4
    <3> QED
      BY <1>3, <3>1, <3>2
  <2>2. CASE d <= 0
    <3>1. (-pls) \div b = -k
      <4>1. PICK e \in 0..(b - 1) : e = -d
        BY <1>3, <2>2
      <4>2. PICK l \in Int, n \in Nat : l = -k /\ n = -pls
        BY <2>1
      <4>3. n = b * l + e
        BY <2>1, <4>1, <4>2
      <4>4. n \div b = l
        BY ONLY <1>1, <4>3, DivisionIsUnique
      <4> QED
        BY <4>2, <4>4
    <3>2. y = k
      BY <2>1, <3>1 DEF Quotient
    <3>3. x = d
      BY <1>4, <3>2
    <3> QED
      BY <1>1, <1>3, <1>4, <1>5, <2>1, <3>2, <3>3
  <2>3. CASE d > 0
    <3>1. -pls = b * (-k - 1) + (b - d) /\ b - d \in 0..(b - 1)
      BY <1>3, <2>1, <2>3
    <3>2. (-pls) \div b = -k - 1
      <4>1. PICK l \in Int, n \in Nat, e \in 0..(b - 1) :
              l = -k - 1 /\ n = -pls /\ e = b - d
        BY <2>1, <3>1
      <4>2. n = b * l + e
        BY <3>1, <4>1
      <4>3. n \div b = l
        BY ONLY <1>1, <4>2, DivisionIsUnique
      <4> QED
        BY <4>1, <4>3
    <3>3. y = k + 1
      BY <2>1, <3>2 DEF Quotient
    <3>4. x = d - b
      BY <1>4, <3>3
    <3> QED
      BY <1>1, <1>3, <1>4, <1>5, <2>1, <3>3, <3>4
  <2> QED
    BY <2>2, <2>3
<1> QED
  BY <1>6, <1>7, <1>8

-----------------------------------------------------------------------------
(* The inductive invariant.                                                *)

(* What the pending handler of A or B would add, and the edge that a       *)
(* change of direction leaves uncounted: Drift and Credit together change  *)
(* only when a handler is late or an index comes.                          *)
Credit ==
  IF encoding_ = "X4" THEN X4Change(prevState, channels(q))
  ELSE IF "A" \in pending THEN X2Due(prevState, q) ELSE Turned(prevState)

(* With no handler pending the state last read is up to date.              *)
Settled ==
  IF encoding_ = "X4" THEN pending \cap {"A", "B"} = {} => prevState = channels(q)
  ELSE /\ pending \subseteq {"A", "Z"}
       /\ "A" \notin pending => prevState[1] = A(q)

(* reset() may come while a handler is pending, an index leaves the edge   *)
(* due that it overtook.                                                   *)
Below == IF firstZ \/ at # "idle" THEN Slack ELSE 1

Reckoned ==
  ~torn => Drift + Credit \in -(Below + 2 * late)..(1 + 2 * late)

(* After a torn reset() the first index is still to come.                  *)
Mended == torn /\ at = "idle" => firstZ

(* The edges in a revolution; zero is a whole number of them.              *)
Revolution == IF encoding_ = "X4" THEN 4 * Lines ELSE 2 * Lines

Referenced ==
  ~firstZ /\ at = "idle" => \E m \in Int : zero = Revolution * m

QInv == /\ TypeOK /\ Settled /\ Reckoned /\ Mended /\ Referenced
        /\ "Z" \in pending => revolutions < MaxIndex

-----------------------------------------------------------------------------
LEMMA Constants ==
  /\ Encodings \subseteq {"X2", "X4"}
  /\ Lines \in Nat \ {0} /\ pulsesPerRev \in Nat \ {0}
  /\ Starts \subseteq 0..Reach
  /\ Reach \in Nat /\ MaxIndex \in Nat /\ MaxLate \in Nat
BY QEIAssumption

LEMMA Types ==
  ASSUME TypeOK
  PROVE  /\ encoding_ \in {"X2", "X4"} /\ q \in Int /\ late \in Nat
         /\ pulses \in Int /\ Zshift \in Int /\ zero \in Int
         /\ prevState \in Bit \X Bit
BY Constants DEF TypeOK, Bit

LEMMA CountIs ==
  ASSUME NEW p \in Int
  PROVE  /\ Count(p) = IF encoding_ = "X4" THEN p ELSE X2Count(p)
         /\ Count(p) \in Int
BY ChannelBits DEF Count, X2Count

LEMMA ChangeInt ==
  ASSUME NEW s \in Bit \X Bit, NEW p \in Int
  PROVE  /\ X4Change(s, channels(p)) \in -1..1
         /\ X2Change(s, channels(p)) \in -1..1
         /\ Turned(s) \in -1..0
         /\ X2Due(s, p) \in -2..1
         /\ X4Change(channels(p), channels(p)) = 0
<1>1. X4Change(s, channels(p)) \in -1..1
  BY DEF X4Change
<1>2. X2Change(s, channels(p)) \in -1..1
  BY DEF X2Change
<1>3. \A r \in Bit \X Bit : Turned(r) \in -1..0
  BY DEF Turned
<1>4. Turned(channels(p)) \in -1..0
  BY <1>3, ChannelBits
<1>5. X2Due(s, p) \in -2..1
  BY <1>2, <1>4 DEF X2Due
<1>6. X4Change(channels(p), channels(p)) = 0
  BY DEF X4Change
<1> QED
  BY <1>1, <1>2, <1>3, <1>5, <1>6

LEMMA ReckonTypes ==
  ASSUME TypeOK
  PROVE  Drift \in Int /\ Credit \in -2..1
<1>1. Drift \in Int
  BY Types, CountIs DEF Drift
<1>2. Credit \in -2..1
  BY Types, ChangeInt DEF Credit
<1> QED
  BY <1>1, <1>2

(* At the index the channels are both 0.                                   *)
LEMMA AtIndex ==
  ASSUME NEW p \in Int, Z(p)
  PROVE  /\ channels(p) = <<0, 0>>
         /\ \E m \in Int : Count(p) = Revolution * m
<1>1. PICK m \in Int : p = (4 * Lines) * m
  <2>1. 4 * Lines \in Nat \ {0}
    BY Constants
  <2>2. \A b \in Nat \ {0} : p % b = 0 => p = b * (p \div b) /\ p \div b \in Int
    OBVIOUS
  <2> QED
    BY <2>1, <2>2 DEF Z
<1>2. PICK n \in Int : n = Lines * m
  BY Constants
<1>3. p = 4 * n
  BY <1>1, <1>2, Constants
<1>4. channels(p) = <<0, 0>> /\ X2Count(p) = 2 * n
  BY <1>3 DEF channels, A, B, X2Count
<1>5. (2 * Lines) * m = 2 * n
  BY <1>2, Constants
<1>6. Count(p) = Revolution * m
  BY <1>1, <1>4, <1>5, CountIs DEF Revolution
<1> QED
  BY <1>4, <1>6

LEMMA RevolutionIsWhole ==
  ASSUME encoding_ \in {"X2", "X4"}
  PROVE  /\ pulsesPerRev_ \in Nat \ {0}
         /\ \E j \in Int : Revolution = pulsesPerRev_ * j
<1>1. PICK j \in Int : 2 * Lines = pulsesPerRev * j
  <2>1. \A a \in Nat, b \in Nat \ {0} : a % b = 0 => a = b * (a \div b) /\ a \div b \in Int
    OBVIOUS
  <2>2. 2 * Lines \in Nat /\ (2 * Lines) % pulsesPerRev = 0
    BY QEIAssumption
  <2> QED
    BY <2>1, <2>2, Constants
<1>2. pulsesPerRev_ \in Nat \ {0}
  BY Constants DEF pulsesPerRev_
<1>3. 4 * Lines = (2 * pulsesPerRev) * j
  BY <1>1, Constants
<1>4. Revolution = pulsesPerRev_ * j
  BY <1>1, <1>3 DEF Revolution, pulsesPerRev_
<1> QED
  BY <1>2, <1>4

-----------------------------------------------------------------------------
(* The steps.                                                              *)

LEMMA InitReckoned == FewLate /\ Init => QInv
<1> SUFFICES ASSUME FewLate, Init PROVE QInv
  OBVIOUS
<1> USE Constants
<1>1. encoding_ \in {"X2", "X4"} /\ q \in Int /\ q \in 0..Reach
  BY DEF Init, FewLate
<1>2. prevState = channels(q) /\ prevState \in Bit \X Bit
  BY <1>1, ChannelBits DEF Init
<1>3. TypeOK
  <2>1. firstZ \in BOOLEAN /\ at \in {"idle", "revolutions", "firstZ"}
    BY DEF Init
  <2>2. zero \in Int /\ torn \in BOOLEAN
    BY <1>1, CountIs DEF Init
  <2> QED
    BY <1>1, <1>2, <2>1, <2>2 DEF TypeOK, Init, Bit
<1>4. Settled
  BY <1>1, <1>2, ChannelBits DEF Settled, Init
<1>5. Reckoned
  <2>1. Drift = 0
    BY <1>1, CountIs DEF Drift, Init
  <2>2. Credit \in -1..1
    BY <1>1, <1>2, ChangeInt DEF Credit, Init
  <2> QED
    BY <2>1, <2>2 DEF Reckoned, Below, Slack, Init
<1>6. Mended /\ Referenced /\ "Z" \notin pending
  BY DEF Mended, Referenced, Init
<1> QED
  BY <1>3, <1>4, <1>5, <1>6 DEF QInv

(* A quarter step in time leaves the count and what is due to it together  *)
(* with the wheel, a late one is out by two at most.                       *)
LEMMA TurnCredit ==
  ASSUME TypeOK, Settled, Turn
  PROVE  /\ Settled' /\ Credit' \in Int
         /\ (Credit' - Credit) - (Count(q)' - Count(q)) \in -2..2
         /\ pending = {} => Credit' - Credit = Count(q)' - Count(q)
<1>1. PICK to \in {q - 1, q + 1} : q' = to /\ pending' = pending \cup Edges(q, to)
  BY DEF Turn
<1>2. UNCHANGED <<encoding_, prevState>>
  BY DEF Turn
<1>3. q \in Int /\ to \in Int /\ prevState \in Bit \X Bit /\ encoding_ \in {"X2", "X4"}
  BY Types, <1>1
<1>4. CASE encoding_ = "X4"
  <2>1. Count(q) = q /\ Count(q)' = to
    BY <1>1, <1>2, <1>4 DEF Count
  <2>2. /\ Credit = X4Change(prevState, channels(q))
        /\ Credit' = X4Change(prevState, channels(to))
    BY <1>1, <1>2, <1>4 DEF Credit, channels, A, B
  <2>3. channels(to) # channels(q)
    <3>1. CASE to = q + 1
      BY <1>3, <3>1, Neighbours
    <3>2. CASE to = q - 1
      <4>1. to + 1 = q
        BY <1>3, <3>2
      <4> QED
        BY <1>3, <4>1, Neighbours
    <3> QED
      BY <3>1, <3>2
  <2>4. pending' \cap {"A", "B"} # {}
    BY <1>1, <1>4, <2>3 DEF Edges, channels
  <2>5. Settled'
    BY <1>2, <1>4, <2>4 DEF Settled
  <2>6. pending = {} => prevState = channels(q)
    BY <1>4 DEF Settled
  <2>7. /\ X4Change(prevState, channels(q)) \in -1..1
        /\ X4Change(prevState, channels(to)) \in -1..1
        /\ X4Change(channels(q), channels(q)) = 0
    BY <1>3, ChangeInt
  <2>8. CASE to = q + 1
    BY <1>3, <2>1, <2>2, <2>5, <2>6, <2>7, <2>8, X4Forward
  <2>9. CASE to = q - 1
    <3>1. to + 1 = q
      BY <1>3, <2>9
    <3>2. /\ X4Change(channels(q), channels(to)) = -1
          /\ X4Change(prevState, channels(q)) - X4Change(prevState, channels(to)) \in -1..3
      BY <1>3, <3>1, X4Forward
    <3> QED
      BY <1>3, <2>1, <2>2, <2>5, <2>6, <2>7, <2>9, <3>2
  <2> QED
    BY <2>8, <2>9
<1>5. CASE encoding_ = "X2"
  <2>1. Count(q) = X2Count(q) /\ Count(q)' = X2Count(to)
    BY <1>1, <1>2, <1>5 DEF Count, X2Count
  <2>2. X2Count(q) \in Int /\ X2Count(to) \in Int
    BY <1>3, ChannelBits
  <2>3. pending \subseteq {"A", "Z"} /\ ("A" \notin pending => prevState[1] = A(q))
    BY <1>5 DEF Settled
  <2>4. pending' \subseteq {"A", "Z"}
    BY <1>1, <1>5, <2>3 DEF Edges
  <2>5. "A" \in pending' <=> "A" \in pending \/ A(q) # A(to)
    BY <1>1 DEF Edges
  <2>6. Settled'
    BY <1>1, <1>2, <1>5, <2>3, <2>4, <2>5 DEF Settled, A
  <2>7. Credit = IF "A" \in pending THEN X2Due(prevState, q) ELSE Turned(prevState)
    BY <1>5 DEF Credit
  <2>8. Credit' = IF "A" \in pending' THEN X2Due(prevState, to) ELSE Turned(prevState)
    BY <1>1, <1>2, <1>5 DEF Credit, X2Due, Turned, X2Change, channels, A, B
  <2>9. /\ X2Due(prevState, q) \in Int /\ X2Due(prevState, to) \in Int
        /\ Turned(prevState) \in Int
    BY <1>3, ChangeInt
  <2>10. CASE "A" \in pending
    <3>1. CASE to = q + 1
      BY <1>3, <2>1, <2>2, <2>5, <2>6, <2>7, <2>8, <2>9, <2>10, <3>1, X2Late
    <3>2. CASE to = q - 1
      <4>1. to + 1 = q
        BY <1>3, <3>2
      <4>2. (X2Due(prevState, q) - X2Due(prevState, to)) - (X2Count(q) - X2Count(to)) \in -2..2
        BY <1>3, <4>1, X2Late
      <4> QED
        BY <2>1, <2>2, <2>5, <2>6, <2>7, <2>8, <2>9, <2>10, <4>2
    <3> QED
      BY <3>1, <3>2
  <2>11. CASE "A" \notin pending
    <3>1. prevState[1] = A(q)
      BY <2>3, <2>11
    <3>2. SUFFICES Credit' - Credit = Count(q)' - Count(q)
      BY <2>1, <2>2, <2>6, <2>8, <2>9
    <3>3. CASE to = q + 1
      <4>1. A(to) = A(q) => X2Count(to) = X2Count(q)
        BY <1>3, <3>3, X2Forward
      <4>2. A(to) # A(q) => /\ X2Count(to) = X2Count(q) + 1
                            /\ X2Due(prevState, to) - Turned(prevState) = 1
        BY <1>3, <3>1, <3>3, X2Forward
      <4> QED
        BY <2>1, <2>2, <2>5, <2>7, <2>8, <2>9, <2>11, <4>1, <4>2
    <3>4. CASE to = q - 1
      <4>1. to + 1 = q
        BY <1>3, <3>4
      <4>2. A(to) = A(q) => X2Count(to) = X2Count(q)
        BY <1>3, <4>1, X2Forward
      <4>3. A(to) # A(q) => /\ X2Count(q) = X2Count(to) + 1
                            /\ X2Due(prevState, to) - Turned(prevState) = -1
        BY <1>3, <3>1, <4>1, X2Forward
      <4> QED
        BY <2>1, <2>2, <2>5, <2>7, <2>8, <2>9, <2>11, <4>2, <4>3
    <3> QED
      BY <3>3, <3>4
  <2> QED
    BY <2>10, <2>11
<1> QED
  BY <1>3, <1>4, <1>5

LEMMA DriftIs ==
  ASSUME TypeOK
  PROVE  /\ Drift \in Int /\ Credit \in -2..1 /\ late \in Nat
         /\ firstZ \/ at # "idle" => Drift = pulses - (Count(q) - zero)
         /\ ~firstZ /\ at = "idle" => Drift = (pulses - Zshift) - (Count(q) - zero)
         /\ Below \in 1..2
<1>1. Below \in 1..2
  BY DEF Below, Slack
<1> QED
  BY <1>1, ReckonTypes, Types DEF Drift

LEMMA TurnKeeps ==
  ASSUME QInv, Turn
  PROVE  QInv'
<1> USE Constants
<1>1. TypeOK /\ Settled
  BY DEF QInv
<1>2. PICK to \in {q - 1, q + 1} :
        /\ to \in 0..Reach
        /\ "Z" \in Edges(q, to) => revolutions < MaxIndex
        /\ q' = to /\ pending' = pending \cup Edges(q, to)
  BY DEF Turn
<1>3. /\ pending # {} => late < MaxLate
      /\ late' = late + (IF pending = {} THEN 0 ELSE 1)
      /\ UNCHANGED <<encoding_, prevState, pulses, revolutions, firstZ, Zshift, at, zero, torn>>
  BY DEF Turn
<1>4. late \in 0..MaxLate /\ late' \in 0..MaxLate
  BY <1>1, <1>3 DEF TypeOK
<1>5. TypeOK'
  <2>1. pending' \subseteq {"A", "B", "Z"}
    BY <1>1, <1>2 DEF TypeOK, Edges
  <2>2. firstZ' \in BOOLEAN /\ torn' \in BOOLEAN
    BY <1>1, <1>3 DEF TypeOK
  <2> QED
    BY <1>1, <1>2, <1>3, <1>4, <2>1, <2>2 DEF TypeOK
<1>6. Reckoned'
  <2> SUFFICES ASSUME ~torn'
               PROVE  Drift' + Credit' \in -(Below' + 2 * late')..(1 + 2 * late')
    BY DEF Reckoned
  <2> DEFINE moved == Count(q)' - Count(q)
             sum == Drift + Credit
  <2>1. Drift \in Int /\ Credit \in Int /\ Credit' \in Int
    BY <1>1, ReckonTypes, TurnCredit
  <2>2. moved \in Int /\ Count(q) \in Int /\ Count(q)' = Count(q) + moved
    BY <1>1, <1>2, <1>3, Types, CountIs DEF Count, X2Count
  <2>3. Drift' = Drift - moved
    <3> HIDE DEF moved
    <3>1. PICK p \in Int : p = IF firstZ \/ at # "idle" THEN pulses ELSE pulses - Zshift
      BY <1>1, Types
    <3>2. Drift = p - (Count(q) - zero)
      BY <3>1 DEF Drift
    <3>3. Drift' = p - (Count(q)' - zero)
      BY <1>3, <3>1 DEF Drift
    <3> QED
      BY <1>1, <2>2, <3>2, <3>3, Types
  <2>4. PICK below \in Int : below = Below /\ below = Below'
    BY <1>1, <1>3, DriftIs DEF Below, Slack
  <2>5. sum \in Int /\ -(below + 2 * late) <= sum /\ sum <= 1 + 2 * late
    <3>1. ~torn
      BY <1>3
    <3>2. sum \in -(Below + 2 * late)..(1 + 2 * late)
      BY <3>1 DEF QInv, Reckoned
    <3>3. PICK n \in Int : n = 2 * late
      BY <1>4
    <3>4. sum \in Int
      BY <2>1
    <3> HIDE DEF sum
    <3>5. sum \in -(below + n)..(1 + n)
      BY <2>4, <3>2, <3>3
    <3>6. -(below + n) <= sum /\ sum <= 1 + n
      BY ONLY <3>4, <3>5, below \in Int, n \in Int
    <3> QED
      BY <3>3, <3>4, <3>6
  <2>6. PICK d \in -2..2 : d = (Credit' - Credit) - moved
    BY <1>1, TurnCredit
  <2>7. sum' = sum + d
    BY <2>1, <2>2, <2>3, <2>6
  <2>8. CASE pending = {}
    <3>1. late' = late
      BY <1>3, <1>4, <2>8
    <3>2. d = 0
      <4>1. Credit' - Credit = moved
        BY <1>1, <2>8, TurnCredit
      <4> QED
        BY <2>2, <2>6, <4>1
    <3>3. sum' = sum
      BY <2>5, <2>7, <3>2
    <3> QED
      BY <1>4, <2>4, <2>5, <3>1, <3>3
  <2>9. CASE pending # {}
    <3>1. late' = late + 1
      BY <1>3, <1>4, <2>9
    <3>2. sum' \in -(below + 2 * (late + 1))..(1 + 2 * (late + 1))
      <4>1. PICK n \in Int : n = 2 * late /\ 2 * (late + 1) = n + 2
        BY <1>4
      <4> HIDE DEF sum
      <4>2. sum \in Int /\ -(below + n) <= sum /\ sum <= 1 + n
        BY <2>5, <4>1
      <4>3. sum + d \in -(below + (n + 2))..(1 + (n + 2))
        BY ONLY <4>2, below \in Int, n \in Int, d \in -2..2
      <4> QED
        BY <2>7, <4>1, <4>3
    <3> QED
      BY <2>4, <3>1, <3>2
  <2> QED
    BY <2>8, <2>9
<1>7. Referenced' /\ Mended'
  BY <1>3 DEF QInv, Referenced, Mended, Revolution
<1>8. "Z" \in pending' => revolutions' < MaxIndex
  BY <1>2, <1>3 DEF QInv
<1> QED
  BY <1>1, <1>5, <1>6, <1>7, <1>8, TurnCredit DEF QInv

LEMMA EncodeKeeps ==
  ASSUME QInv, NEW c \in {"A", "B"}, encode(c)
  PROVE  QInv'
<1> USE Constants
<1>1. TypeOK /\ Settled
  BY DEF QInv
<1>2. /\ c \in pending /\ pending' = pending \ {c} /\ prevState' = channels(q)
      /\ pulses' = pulses + Change(prevState, channels(q))
      /\ UNCHANGED <<encoding_, q, revolutions, firstZ, Zshift, at, zero, late, torn>>
  BY DEF encode
<1>3. channels(q) \in Bit \X Bit /\ channels(q)[1] = A(q)
  BY <1>1, Types, ChannelBits
<1>4. Change(prevState, channels(q)) \in Int
  BY <1>1, Types, ChangeInt DEF Change
<1>5. TypeOK'
  <2>1. firstZ' \in BOOLEAN /\ torn' \in BOOLEAN
    BY <1>1, <1>2 DEF TypeOK
  <2> QED
    BY <1>1, <1>2, <1>3, <1>4, <2>1 DEF TypeOK, Bit
<1>6. Settled'
  BY <1>1, <1>2, <1>3 DEF Settled, channels, A, B
<1>7. Reckoned'
  <2>1. Drift \in Int /\ Credit \in Int
    BY <1>1, ReckonTypes
  <2>2. Count(q)' = Count(q) /\ Count(q) \in Int
    BY <1>1, <1>2, Types, CountIs DEF Count
  <2>3. Drift' = Drift + Change(prevState, channels(q))
    BY <1>1, <1>2, <1>4, <2>2, Types DEF Drift
  <2>4. Credit' = Credit - Change(prevState, channels(q))
    <3>1. CASE encoding_ = "X4"
      <4>1. Credit' = X4Change(channels(q), channels(q))
        BY <1>2, <3>1 DEF Credit, channels, A, B
      <4>2. Credit = X4Change(prevState, channels(q))
        BY <3>1 DEF Credit
      <4> QED
        BY <1>1, <1>4, <3>1, <4>1, <4>2, Types, ChangeInt DEF Change
    <3>2. CASE encoding_ # "X4"
      <4>1. c = "A" /\ "A" \notin pending'
        BY <1>1, <1>2, <3>2 DEF Settled
      <4>2. Credit' = Turned(channels(q))
        BY <1>2, <3>2, <4>1 DEF Credit, Turned
      <4>3. Credit = X2Change(prevState, channels(q)) + Turned(channels(q))
        BY <1>2, <3>2, <4>1 DEF Credit, X2Due
      <4>4. Turned(channels(q)) \in Int
        BY <1>3, <1>1, Types, ChangeInt
      <4> QED
        BY <1>4, <3>2, <4>2, <4>3, <4>4 DEF Change
    <3> QED
      BY <3>1, <3>2
  <2>5. Drift' + Credit' = Drift + Credit
    BY <1>4, <2>1, <2>3, <2>4
  <2>6. Below' = Below
    BY <1>2 DEF Below, Slack
  <2> QED
    BY <1>2, <2>5, <2>6 DEF QInv, Reckoned
<1>8. Referenced' /\ Mended'
  BY <1>2 DEF QInv, Referenced, Mended, Revolution
<1>9. "Z" \in pending' => revolutions' < MaxIndex
  BY <1>2 DEF QInv
<1> QED
  BY <1>1, <1>5, <1>6, <1>7, <1>8, <1>9 DEF QInv

(* An index outside reset() finds the count off by less than half a        *)
(* revolution and puts it right.                                           *)
LEMMA IndexExact ==
  ASSUME FewLate, QInv, index, at = "idle"
  PROVE  Drift' = 0 /\ ~firstZ' /\ \E m \in Int : zero' = Revolution * m
<1> USE Constants
<1>1. TypeOK /\ Z(q) /\ "Z" \in pending /\ revolutions < MaxIndex
  BY DEF QInv, index
<1>2. /\ revolutions' = revolutions + 1 /\ late' = 0 /\ pending' = pending \ {"Z"}
      /\ UNCHANGED <<encoding_, q, prevState, at>>
  BY DEF index
<1>3. /\ firstZ => Zshift' = pulses /\ firstZ' = FALSE /\ zero' = Count(q)
      /\ ~firstZ => UNCHANGED <<Zshift, firstZ, zero>>
      /\ pulses' = pulsesPerRev_ * Nearest(pulses - Zshift') + Zshift'
  BY DEF index
<1>4. firstZ' = FALSE
  <2>1. firstZ \in BOOLEAN
    BY <1>1 DEF TypeOK
  <2>2. CASE firstZ
    BY <1>3, <2>2
  <2>3. CASE ~firstZ
    <3>1. firstZ' = firstZ
      BY <1>3, <2>3
    <3> QED
      BY <2>1, <2>3, <3>1
  <2> QED
    BY <2>2, <2>3
<1>5. PICK m \in Int : Count(q) = Revolution * m
  BY <1>1, Types, AtIndex
<1>6. Count(q) \in Int /\ Count(q)' = Count(q)
  BY <1>1, <1>2, Types, CountIs DEF Count
<1>7. PICK P \in Nat \ {0}, j \in Int : P = pulsesPerRev_ /\ Revolution = P * j
  BY <1>1, Types, RevolutionIsWhole
<1>8. \E k \in Int : /\ pulses' - Zshift' = P * k
                     /\ Count(q) - zero' = P * k
                     /\ Zshift' \in Int /\ zero' \in Int
                     /\ \E n \in Int : zero' = Revolution * n
  <2>1. PICK half \in Nat : half = P \div 2 /\ 2 + 2 * MaxLate < half
    <3>1. P = pulsesPerRev \/ P = 2 * pulsesPerRev
      BY <1>7 DEF pulsesPerRev_
    <3> QED
      BY <3>1 DEF FewLate
  <2>2. CASE firstZ
    <3>1. Nearest(P * 0 + 0) = 0
      <4>1. 0 \in Int /\ 0 < half /\ -0 < half
        BY <2>1
      <4> QED
        BY ONLY <1>7, <2>1, <4>1, NearestExact
    <3>2. pulses - Zshift' = P * 0 + 0 /\ Zshift' \in Int
      BY <1>1, <1>3, <1>7, <2>2, Types
    <3>3. pulses' - Zshift' = P * 0
      BY <1>3, <1>7, <3>1, <3>2
    <3>4. Count(q) - zero' = P * 0
      BY <1>3, <1>6, <2>2
    <3>5. zero' = Revolution * m
      BY <1>3, <1>5, <2>2
    <3>6. zero' \in Int
      BY <1>3, <1>6, <2>2
    <3>7. 0 \in Int
      OBVIOUS
    <3> QED
      BY ONLY <1>5, <3>2, <3>3, <3>4, <3>5, <3>6, <3>7
  <2>3. CASE ~firstZ
    <3>1. PICK n \in Int : zero = Revolution * n
      BY <2>3 DEF QInv, Referenced
    <3>2. PICK k \in Int : k = j * (m - n)
      OBVIOUS
    <3>3. Count(q) - zero = P * k
      BY <1>5, <1>7, <3>1, <3>2
    <3>4. PICK d \in Int : d = Drift
      BY <1>1, ReckonTypes
    <3>5. d < half /\ -d < half
      <4>1. Credit \in -1..1
        <5>1. channels(q) = <<0, 0>>
          BY <1>1, Types, AtIndex
        <5>2. prevState \in Bit \X Bit
          BY <1>1, Types
        <5>3. X2Due(prevState, q) \in -1..1
          <6>1. Turned(channels(q)) = 0
            BY <5>1 DEF Turned
          <6> QED
            BY <1>1, <5>2, <6>1, Types, ChangeInt DEF X2Due
        <5> QED
          BY <1>1, <5>2, <5>3, Types, ChangeInt DEF Credit
      <4>2. d + Credit \in -(1 + 2 * late)..(1 + 2 * late)
        BY <2>3, <3>4 DEF QInv, Reckoned, Mended, Below
      <4>3. late \in 0..MaxLate
        BY <1>1 DEF TypeOK
      <4>4. PICK e \in -1..1 : e = Credit
        BY <4>1
      <4> QED
        BY <2>1, <4>2, <4>3, <4>4
    <3>6. pulses - Zshift = P * k + d
      <4>1. d = (pulses - Zshift) - (Count(q) - zero)
        BY <2>3, <3>4 DEF Drift
      <4> QED
        BY <1>1, <1>6, <3>3, <4>1, Types
    <3>7. Nearest(P * k + d) = k
      BY <1>7, <2>1, <3>5, NearestExact
    <3>8. pulses' = P * k + Zshift
      BY <1>3, <1>7, <2>3, <3>6, <3>7
    <3>9. pulses' - Zshift' = P * k
      BY <1>1, <1>3, <2>3, <3>8, Types
    <3> QED
      BY <1>1, <1>3, <2>3, <3>1, <3>3, <3>9, Types
  <2> QED
    BY <2>2, <2>3
<1>9. Drift' = 0
  <2>1. Drift' = (pulses' - Zshift') - (Count(q) - zero')
    BY <1>2, <1>4, <1>6 DEF Drift
  <2> QED
    BY <1>8, <2>1
<1> QED
  BY <1>4, <1>8, <1>9

LEMMA NearestIsInt ==
  ASSUME NEW n \in Int, pulsesPerRev_ \in Nat \ {0}
  PROVE  Nearest(n) \in Int
<1>1. PICK b \in Nat \ {0} : b = pulsesPerRev_
  OBVIOUS
<1>2. PICK y \in Int : y = Quotient(n, b)
  BY DEF Quotient
<1>3. Nearest(n) \in {y - 1, y, y + 1}
  BY <1>1, <1>2 DEF Nearest
<1> QED
  BY <1>2, <1>3

LEMMA IndexKeeps ==
  ASSUME FewLate, QInv, index
  PROVE  QInv'
<1> USE Constants
<1>1. TypeOK /\ Settled /\ Z(q) /\ "Z" \in pending /\ revolutions < MaxIndex
  BY DEF QInv, index
<1>2. /\ revolutions' = revolutions + 1 /\ late' = 0 /\ pending' = pending \ {"Z"}
      /\ torn' = (at # "idle")
      /\ UNCHANGED <<encoding_, q, prevState, at>>
  BY DEF index
<1>3. Settled'
  BY <1>1, <1>2 DEF Settled, channels, A, B
<1>4. TypeOK'
  <2>1. firstZ' \in BOOLEAN /\ torn' \in BOOLEAN
    <3>1. firstZ \in BOOLEAN
      BY <1>1 DEF TypeOK
    <3>2. firstZ' = FALSE \/ firstZ' = firstZ
      BY DEF index
    <3> QED
      BY <1>2, <3>1, <3>2, Zenon
  <2>2. Count(q) \in Int /\ pulses \in Int /\ Zshift \in Int /\ zero \in Int
    BY <1>1, Types, CountIs
  <2>3. Zshift' \in Int /\ zero' \in Int
    BY <2>2 DEF index
  <2>4. pulses' \in Int
    <3>1. PICK P \in Nat \ {0} : P = pulsesPerRev_
      BY <1>1, Types, RevolutionIsWhole
    <3>2. pulses' = P * Nearest(pulses - Zshift') + Zshift'
      BY <3>1 DEF index
    <3>3. Nearest(pulses - Zshift') \in Int
      BY <2>2, <2>3, <3>1, NearestIsInt
    <3> QED
      BY <2>3, <3>2, <3>3
  <2>5. revolutions' \in 0..MaxIndex /\ late' \in 0..MaxLate
    BY <1>1, <1>2 DEF TypeOK
  <2>6. pending' \subseteq {"A", "B", "Z"}
    BY <1>1, <1>2 DEF TypeOK
  <2>7. /\ encoding_' \in Encodings /\ q' \in 0..Reach
        /\ prevState' \in (0..1) \X (0..1)
        /\ at' \in {"idle", "revolutions", "firstZ"}
    BY <1>1, <1>2 DEF TypeOK
  <2> QED
    BY <2>1, <2>3, <2>4, <2>5, <2>6, <2>7 DEF TypeOK
<1>5. "Z" \in pending' => revolutions' < MaxIndex
  BY <1>2
<1>6. CASE at # "idle"
  BY <1>2, <1>3, <1>4, <1>5, <1>6 DEF QInv, Reckoned, Mended, Referenced
<1>7. CASE at = "idle"
  <2>1. Credit' \in -1..1
    <3>1. channels(q) = <<0, 0>> /\ prevState \in Bit \X Bit
      BY <1>1, Types, AtIndex
    <3>2. X2Due(prevState, q) \in -1..1
      <4>1. Turned(channels(q)) = 0
        BY <3>1 DEF Turned
      <4> QED
        BY <1>1, <3>1, <4>1, Types, ChangeInt DEF X2Due
    <3>3. Credit \in -1..1
      BY <1>1, <3>1, <3>2, Types, ChangeInt DEF Credit
    <3>4. Credit' = Credit
      BY <1>2 DEF Credit, X2Due, X2Change, Turned, channels, A, B
    <3> QED
      BY <3>3, <3>4
  <2>2. Drift' = 0 /\ ~firstZ'
    BY <1>7, IndexExact
  <2>3. Reckoned'
    <3>1. PICK c \in -1..1 : Credit' = c
      BY <2>1
    <3>2. Drift' = 0 /\ late' = 0 /\ Below' = 1
      BY <1>2, <1>7, <2>2 DEF Below
    <3>3. 0 + c \in -(1 + 2 * 0)..(1 + 2 * 0)
      BY <3>1
    <3>4. Drift' + Credit' \in -(Below' + 2 * late')..(1 + 2 * late')
      BY ONLY <3>1, <3>2, <3>3
    <3> QED
      BY ONLY <3>4 DEF Reckoned
  <2>4. Referenced'
    BY <1>2, <1>7, IndexExact DEF Referenced, Revolution
  <2>5. Mended'
    BY <1>2, <1>7 DEF Mended
  <2> QED
    BY <1>3, <1>4, <1>5, <2>3, <2>4, <2>5 DEF QInv
<1> QED
  BY <1>6, <1>7

LEMMA MissedKeeps ==
  ASSUME QInv, indexMissed
  PROVE  QInv'
<1>1. TypeOK
  BY DEF QInv
<1>2. /\ pending' = pending \ {"Z"}
      /\ UNCHANGED <<encoding_, q, prevState, pulses, revolutions, firstZ, Zshift, at, zero, late, torn>>
  BY DEF indexMissed
<1>3. TypeOK'
  <2>1. firstZ' \in BOOLEAN /\ torn' \in BOOLEAN
    BY <1>1, <1>2 DEF TypeOK
  <2> QED
    BY <1>1, <1>2, <2>1 DEF TypeOK
<1>4. Settled'
  BY <1>2 DEF QInv, Settled, channels, A, B
<1>5. Reckoned'
  <2>1. Credit' = Credit
    BY <1>2 DEF Credit, X2Due, X2Change, Turned, channels, A, B
  <2>2. Drift' = Drift /\ Below' = Below
    BY <1>2 DEF Drift, Count, Below, Slack
  <2> QED
    BY <1>2, <2>1, <2>2 DEF QInv, Reckoned
<1>6. Referenced' /\ Mended'
  BY <1>2 DEF QInv, Referenced, Mended, Revolution
<1> QED
  BY <1>2, <1>3, <1>4, <1>5, <1>6 DEF QInv

(* reset() begins a new count; what a pending handler has still to add is  *)
(* within its slack.                                                       *)
LEMMA ResetKeeps ==
  ASSUME QInv, reset
  PROVE  QInv'
<1> USE Constants
<1>1. TypeOK /\ Settled
  BY DEF QInv
<1>2. UNCHANGED <<encoding_, q, pending, prevState, Zshift>>
  BY DEF reset, resetPulses, resetRevolutions, resetFirstZ
<1>3. Settled'
  BY <1>1, <1>2 DEF Settled, channels, A, B
<1>4. /\ Count(q)' = Count(q) /\ Count(q) \in Int
      /\ Credit' = Credit /\ Slack' = Slack
  BY <1>1, <1>2, Types, CountIs
     DEF Count, Credit, X2Due, X2Change, Turned, channels, A, B, Slack
<1>5. firstZ \in BOOLEAN /\ torn \in BOOLEAN
  BY <1>1 DEF TypeOK
<1>6. CASE resetPulses
  <2>1. /\ pulses' = 0 /\ zero' = Count(q) /\ late' = 0 /\ torn' = FALSE
        /\ at' = "revolutions"
        /\ UNCHANGED <<revolutions, firstZ>>
    BY <1>6 DEF resetPulses
  <2>2. firstZ' \in BOOLEAN /\ torn' \in BOOLEAN
    BY <1>5, <2>1, Zenon
  <2>3. TypeOK'
    BY <1>1, <1>2, <1>4, <2>1, <2>2 DEF TypeOK
  <2>4. Drift' = 0
    BY <1>4, <2>1 DEF Drift
  <2>5. PICK c \in -2..1 : Credit' = c /\ -Slack <= c
    <3>1. CASE encoding_ = "X4"
      BY <1>1, <1>4, <3>1, Types, ChangeInt DEF Credit, Slack
    <3>2. CASE encoding_ # "X4"
      BY <1>1, <1>4, <3>2, DriftIs DEF Slack
    <3> QED
      BY <3>1, <3>2
  <2>6. PICK below \in 1..2 : Below' = below /\ -below <= c
    <3>1. Below' = Slack
      BY <1>4, <2>1 DEF Below
    <3>2. Slack \in 1..2
      BY DEF Slack
    <3> QED
      BY <2>5, <3>1, <3>2
  <2>7. Reckoned'
    <3>1. 0 + c \in -(below + 2 * 0)..(1 + 2 * 0)
      BY <2>5, <2>6
    <3>2. Drift' + Credit' \in -(Below' + 2 * late')..(1 + 2 * late')
      BY ONLY <2>1, <2>4, <2>5, <2>6, <3>1
    <3> QED
      BY ONLY <3>2 DEF Reckoned
  <2> QED
    BY <1>2, <1>3, <2>1, <2>3, <2>7 DEF QInv, Mended, Referenced
<1>7. CASE resetRevolutions
  <2>1. /\ revolutions' = 0 /\ at = "revolutions" /\ at' = "firstZ"
        /\ UNCHANGED <<pulses, firstZ, zero, late, torn>>
    BY <1>7 DEF resetRevolutions
  <2>2. firstZ' \in BOOLEAN /\ torn' \in BOOLEAN
    BY <1>5, <2>1, Zenon
  <2>3. TypeOK'
    BY <1>1, <1>2, <2>1, <2>2 DEF TypeOK
  <2>4. Drift' = Drift /\ Below' = Below
    BY <1>4, <2>1 DEF Drift, Below
  <2>5. Reckoned'
    BY <1>4, <2>1, <2>4 DEF QInv, Reckoned
  <2>6. "Z" \in pending' => revolutions' < MaxIndex
    BY <1>1, <1>2, <2>1 DEF QInv, TypeOK
  <2> QED
    BY <1>3, <2>1, <2>3, <2>5, <2>6 DEF QInv, Mended, Referenced
<1>8. CASE resetFirstZ
  <2>1. /\ firstZ' = TRUE /\ at = "firstZ" /\ at' = "idle"
        /\ UNCHANGED <<pulses, revolutions, zero, late, torn>>
    BY <1>8 DEF resetFirstZ
  <2>2. torn' \in BOOLEAN
    BY <1>5, <2>1, Zenon
  <2>3. TypeOK'
    BY <1>1, <1>2, <2>1, <2>2 DEF TypeOK
  <2>4. Drift' = Drift /\ Below' = Below
    BY <1>4, <2>1 DEF Drift, Below
  <2>5. Reckoned'
    BY <1>4, <2>1, <2>4 DEF QInv, Reckoned
  <2> QED
    BY <1>2, <1>3, <2>1, <2>3, <2>5 DEF QInv, Mended, Referenced
<1> QED
  BY <1>6, <1>7, <1>8 DEF reset

LEMMA StepReckoned == FewLate /\ QInv /\ [Next]_vars => QInv'
<1> SUFFICES ASSUME FewLate, QInv, [Next]_vars PROVE QInv'
  OBVIOUS
<1>1. CASE Turn
  BY <1>1, TurnKeeps
<1>2. ASSUME NEW c \in {"A", "B"}, encode(c) PROVE QInv'
  BY <1>2, EncodeKeeps
<1>3. CASE index
  BY <1>3, IndexKeeps
<1>4. CASE indexMissed
  BY <1>4, MissedKeeps
<1>5. CASE reset
  BY <1>5, ResetKeeps
<1>6. CASE UNCHANGED vars
  BY <1>6 DEF vars, QInv, TypeOK, Settled, Reckoned, Below, Slack, Mended, Referenced, Revolution,
     Drift, Credit, Count, X2Due, X2Change, Turned, channels, A, B
<1> QED
  BY <1>1, <1>2, <1>3, <1>4, <1>5, <1>6 DEF Next

(* Every reachable state has the declared types: the index interrupt is    *)
(* never counted twice, and reset() is left with the count it found at 0.  *)
THEOREM EncoderTypeCorrect ==
  ASSUME FewLate
  PROVE  Spec => []TypeOK
<1>1. Init => QInv
  BY InitReckoned
<1>2. QInv /\ [Next]_vars => QInv'
  BY StepReckoned
<1>3. QInv => TypeOK
  BY DEF QInv
<1> QED
  BY <1>1, <1>2, <1>3, PTL DEF Spec

(* With no handler pending the count is what has turned, but for the edge  *)
(* an index overtook, the one a change of direction leaves in X2, and two  *)
(* for each late quarter step since the last index: on every disc, over    *)
(* any number of revolutions.                                              *)
THEOREM CountFollowsWheel ==
  ASSUME FewLate
  PROVE  Spec => []DriftBounded
<1>1. Init => QInv
  BY InitReckoned
<1>2. QInv /\ [Next]_vars => QInv'
  BY StepReckoned
<1>3. QInv => DriftBounded
  <2> SUFFICES ASSUME QInv, pending = {}, ~torn
               PROVE  Abs(Drift) <= Slack + 2 * late
    BY DEF DriftBounded
  <2>1. TypeOK /\ Settled /\ Drift + Credit \in -(Below + 2 * late)..(1 + 2 * late)
    BY DEF QInv, Reckoned
  <2>2. Drift \in Int /\ late \in Nat
    BY <2>1, Types, ReckonTypes
  <2>3. Drift + Credit \in -(Slack + 2 * late)..(1 + 2 * late)
    <3>1. Slack \in 1..2 /\ Below \in 1..2 /\ Below <= Slack /\ Credit \in Int
      BY <2>1, DriftIs DEF Below, Slack
    <3> QED
      BY <2>1, <2>2, <3>1
  <2>4. CASE encoding_ = "X4"
    <3>1. Credit = 0
      BY <2>1, <2>4, Types, ChangeInt DEF Settled, Credit
    <3> QED
      BY <2>2, <2>3, <2>4, <3>1 DEF Abs, Slack
  <2>5. CASE encoding_ # "X4"
    <3>1. Credit \in -1..0
      BY <2>1, <2>5, Types, ChangeInt DEF Credit
    <3> QED
      BY <2>2, <2>3, <2>5, <3>1 DEF Abs, Slack
  <2> QED
    BY <2>4, <2>5
<1> QED
  BY <1>1, <1>2, <1>3, PTL DEF Spec

(* An index pulse outside reset() takes out every count lost since the one before and      *)
(* never moves the count by a revolution, on every disc.                   *)
THEOREM IndexPutsRight ==
  ASSUME FewLate
  PROVE  Spec => IndexCorrects
<1>1. Init => QInv
  BY InitReckoned
<1>2. QInv /\ [Next]_vars => QInv'
  BY StepReckoned
<1>3. QInv /\ [Next]_vars => [revolutions' > revolutions /\ at = "idle" => Drift' = 0]_vars
  <2> SUFFICES ASSUME QInv, Next, revolutions' > revolutions, at = "idle"
               PROVE  Drift' = 0
    OBVIOUS
  <2>1. revolutions \in Nat
    BY DEF QInv, TypeOK
  <2>2. CASE index
    BY <2>2, IndexExact
  <2>3. CASE Turn \/ (\E c \in {"A", "B"} : encode(c)) \/ indexMissed
    <3>1. revolutions' = revolutions
      BY <2>3 DEF Turn, encode, indexMissed
    <3> QED
      BY <2>1, <3>1
  <2>4. CASE reset
    <3>1. revolutions' = revolutions \/ revolutions' = 0
      BY <2>4 DEF reset, resetPulses, resetRevolutions, resetFirstZ
    <3> QED
      BY <2>1, <3>1
  <2> QED
    BY <2>2, <2>3, <2>4 DEF Next
<1> QED
  BY <1>1, <1>2, <1>3, PTL DEF Spec, IndexCorrects

=============================================================================
