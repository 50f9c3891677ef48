-------------------------- MODULE LineSensorProofs --------------------------
(***************************************************************************)
(* Proofs about LineSensor: however the readings, the calls and the moves  *)
(* of the line interleave, the bits a call collects are the picture of a   *)
(* line at one place, and old is the side of the picture before.           *)
(***************************************************************************)
EXTENDS LineSensor, FiniteSetTheorems, TLAPS

Near(a, b, d) == a - b <= d /\ b - a <= d

-----------------------------------------------------------------------------
(* What LineEval makes of the picture of a line.                           *)

LEMMA SensorCount == N \in Nat /\ N >= 4
BY LineAssumption

LEMMA MinOfInterval ==
  ASSUME NEW a \in Int, NEW b \in Int, a <= b
  PROVE  Min(a..b) = a
<1>1. a \in a..b /\ \A y \in a..b : a =< y
  OBVIOUS
<1>2. \A x \in a..b : (\A y \in a..b : x =< y) => x = a
  BY <1>1
<1> QED
  BY <1>1, <1>2 DEF Min

LEMMA PictureRight ==
  ASSUME NEW z \in 1..(N - 1)
  PROVE  /\ 0 \notin Under(z)
         /\ Under(z) # {} /\ Under(z) # Sensors
         /\ Min(Under(z)) = z
         /\ Under(z) = Sensors \ {0} <=> z = 1
<1>1. Under(z) = z..(N - 1)
  BY SensorCount DEF Under
<1>2. z \in Under(z) /\ 0 \notin Under(z) /\ 0 \in Sensors
  BY <1>1, SensorCount DEF Sensors
<1>3. Min(Under(z)) = z
  BY <1>1, MinOfInterval, SensorCount
<1>4. z # 1 => 1 \notin Under(z) /\ 1 \in Sensors \ {0}
  BY <1>1, SensorCount DEF Sensors
<1>5. z = 1 => Under(z) = Sensors \ {0}
  BY <1>1, SensorCount DEF Sensors
<1> QED
  BY <1>2, <1>3, <1>4, <1>5

LEMMA PictureLeft ==
  ASSUME NEW z \in (1 - N)..(-1)
  PROVE  /\ 0 \in Under(z)
         /\ Under(z) # Sensors
         /\ Cardinality(Under(z)) = N + z
<1>1. Under(z) = 0..(N - 1 + z)
  BY SensorCount DEF Under
<1>2. 0 \in Under(z) /\ N - 1 \notin Under(z) /\ N - 1 \in Sensors
  BY <1>1, SensorCount DEF Sensors
<1>3. Cardinality(Under(z)) = N + z
  <2> DEFINE last == N - 1 + z
  <2>1. last \in Int /\ ~(0 > last) /\ last - 0 + 1 = N + z
    BY SensorCount
  <2>2. Under(z) = 0..last
    BY <1>1
  <2> HIDE DEF last
  <2>3. Cardinality(0..last) = last - 0 + 1
    BY <2>1, FS_Interval
  <2> QED
    BY <2>1, <2>2, <2>3
<1> QED
  BY <1>2, <1>3

LEMMA PictureEdges ==
  /\ Under(0) = Sensors
  /\ Under(N) = {}
  /\ Under(-N) = {}
  /\ 0 \in Sensors /\ Sensors # {} /\ Sensors \ {0} # {}
<1>1. 0 \in Sensors /\ 1 \in Sensors
  BY SensorCount DEF Sensors
<1> QED
  BY <1>1, SensorCount DEF Under, Sensors

(* The side a picture shows, if it shows one.                              *)
SideOf(z, side) ==
  IF z \in (1 - N)..(-1) THEN -1 ELSE IF z \in 2..(N - 1) THEN 1 ELSE side

(* The answer for a picture is exact, as long as old is the right side     *)
(* when no sensor sees the line.                                           *)
LEMMA EvaluatePicture ==
  ASSUME NEW z \in -N..N, NEW side \in {-1, 0, 1},
         z = N => side = 1, z = -N => side = -1
  PROVE  Evaluate(Under(z), side)[1] = Exact(z)
<1>1. CASE z \in 2..(N - 1)
  <2>1. Evaluate(Under(z), side) = <<Min(Under(z)) - 1, 1>>
    BY <1>1, PictureRight, SensorCount DEF Evaluate
  <2> QED
    BY <1>1, <2>1, PictureRight, SensorCount DEF Exact
<1>2. CASE z = 1
  <2>1. Evaluate(Under(z), side) = <<0, side>>
    BY <1>2, PictureRight, PictureEdges, SensorCount DEF Evaluate
  <2> QED
    BY <1>2, <2>1, SensorCount DEF Exact
<1>3. CASE z = 0
  <2>1. Evaluate(Under(z), side) = <<0, side>>
    BY <1>3, PictureEdges DEF Evaluate
  <2> QED
    BY <1>3, <2>1 DEF Exact
<1>4. CASE z \in (1 - N)..(-1)
  <2>1. Under(z) # {} /\ Under(z) # Sensors \ {0}
    BY <1>4, PictureLeft
  <2>2. Evaluate(Under(z), side) = <<Cardinality(Under(z)) - N, -1>>
    BY <1>4, <2>1, PictureLeft DEF Evaluate
  <2> QED
    BY <1>4, <2>2, PictureLeft, SensorCount DEF Exact
<1>5. CASE z \in {-N, N}
  <2>1. Under(z) = {}
    BY <1>5, PictureEdges
  <2>2. Evaluate(Under(z), side) = <<N * side, side>>
    BY <2>1, PictureEdges DEF Evaluate
  <2>3. N * 1 = N /\ N * (-1) = -N
    BY SensorCount
  <2> QED
    BY <1>5, <2>2, <2>3, SensorCount DEF Exact
<1> QED
  BY <1>1, <1>2, <1>3, <1>4, <1>5, SensorCount

LEMMA EvaluateSide ==
  ASSUME NEW z \in -N..N, NEW side \in {-1, 0, 1}
  PROVE  Evaluate(Under(z), side)[2] = SideOf(z, side)
<1>1. CASE z \in 2..(N - 1)
  <2>1. Evaluate(Under(z), side) = <<Min(Under(z)) - 1, 1>>
    BY <1>1, PictureRight, SensorCount DEF Evaluate
  <2> QED
    BY <1>1, <2>1, SensorCount DEF SideOf
<1>2. CASE z = 1
  <2>1. Evaluate(Under(z), side) = <<0, side>>
    BY <1>2, PictureRight, PictureEdges, SensorCount DEF Evaluate
  <2> QED
    BY <1>2, <2>1, SensorCount DEF SideOf
<1>3. CASE z = 0
  <2>1. Evaluate(Under(z), side) = <<0, side>>
    BY <1>3, PictureEdges DEF Evaluate
  <2> QED
    BY <1>3, <2>1, SensorCount DEF SideOf
<1>4. CASE z \in (1 - N)..(-1)
  <2>1. Under(z) # {} /\ Under(z) # Sensors \ {0}
    BY <1>4, PictureLeft
  <2>2. Evaluate(Under(z), side) = <<Cardinality(Under(z)) - N, -1>>
    BY <1>4, <2>1, PictureLeft DEF Evaluate
  <2> QED
    BY <1>4, <2>2 DEF SideOf
<1>5. CASE z \in {-N, N}
  <2>1. Under(z) = {}
    BY <1>5, PictureEdges
  <2>2. Evaluate(Under(z), side) = <<N * side, side>>
    BY <2>1, PictureEdges DEF Evaluate
  <2> QED
    BY <1>5, <2>2, SensorCount DEF SideOf
<1> QED
  BY <1>1, <1>2, <1>3, <1>4, <1>5, SensorCount

(* Neighbouring pictures differ in one sensor, so bits taken partly from   *)
(* the one and partly from the other make up one of them.                  *)
LEMMA NoMixture ==
  ASSUME NEW x \in -N..N, NEW y \in -N..N, Near(x, y, 1),
         NEW on \in SUBSET Sensors,
         \A i \in Sensors : (i \in on <=> i \in Under(x))
                              \/ (i \in on <=> i \in Under(y))
  PROVE  on = Under(x) \/ on = Under(y)
<1>1. \A z \in -N..N : Under(z) \in SUBSET Sensors
  BY SensorCount DEF Under, Sensors
<1>2. PICK d \in Int : \A i \in Sensors : i # d => (i \in Under(x) <=> i \in Under(y))
  <2>1. CASE x = y
    BY <2>1
  <2>2. CASE y = x + 1
    <3>1. CASE x >= 0
      <4> WITNESS x \in Int
      <4> QED
        BY <2>2, <3>1, SensorCount DEF Under, Sensors
    <3>2. CASE x < 0
      <4>1. N + x \in Int
        BY SensorCount
      <4> WITNESS N + x \in Int
      <4> QED
        BY <2>2, <3>2, SensorCount DEF Under, Sensors
    <3> QED
      BY <3>1, <3>2
  <2>3. CASE x = y + 1
    <3>1. CASE y >= 0
      <4> WITNESS y \in Int
      <4> QED
        BY <2>3, <3>1, SensorCount DEF Under, Sensors
    <3>2. CASE y < 0
      <4>1. N + y \in Int
        BY SensorCount
      <4> WITNESS N + y \in Int
      <4> QED
        BY <2>3, <3>2, SensorCount DEF Under, Sensors
    <3> QED
      BY <3>1, <3>2
  <2> QED
    BY <2>1, <2>2, <2>3, SensorCount DEF Near
<1>3. \A i \in Sensors : i # d => (i \in on <=> i \in Under(x)) /\ (i \in on <=> i \in Under(y))
  BY <1>2
<1>4. CASE d \notin Sensors
  BY <1>1, <1>3, <1>4
<1>5. CASE d \in Sensors /\ (d \in on <=> d \in Under(x))
  BY <1>1, <1>3, <1>5
<1>6. CASE d \in Sensors /\ (d \in on <=> d \in Under(y))
  BY <1>1, <1>3, <1>6
<1> QED
  BY <1>4, <1>5, <1>6

-----------------------------------------------------------------------------
(* Types.                                                                  *)

LEMMA PinAfter ==
  ASSUME NEW i \in Sensors
  PROVE  (i + 1) % N = IF i = N - 1 THEN 0 ELSE i + 1
<1>1. CASE i = N - 1
  <2>1. i + 1 = N
    BY <1>1, SensorCount
  <2>2. N % N = 0
    BY SensorCount
  <2> QED
    BY <1>1, <2>1, <2>2
<1>2. CASE i # N - 1
  <2>1. i + 1 \in 0..(N - 1)
    BY <1>2, SensorCount DEF Sensors
  <2>2. \A k \in 0..(N - 1) : k % N = k
    BY SensorCount
  <2> QED
    BY <1>2, <2>1, <2>2
<1> QED
  BY <1>1, <1>2

LEMMA SideType ==
  ASSUME NEW on \in SUBSET Sensors, NEW side \in {-1, 0, 1}
  PROVE  Evaluate(on, side)[2] \in {-1, 0, 1}
<1>1. CASE on \in {Sensors, Sensors \ {0}}
  BY <1>1, PictureEdges DEF Evaluate
<1>2. CASE on = {}
  BY <1>2, PictureEdges DEF Evaluate
<1>3. CASE 0 \in on /\ on # Sensors
  BY <1>3 DEF Evaluate
<1>4. CASE on # {} /\ 0 \notin on /\ on # Sensors \ {0}
  BY <1>4, PictureEdges DEF Evaluate
<1> QED
  BY <1>1, <1>2, <1>3, <1>4

LEMMA TypeInit == Init => TypeOK
<1> SUFFICES ASSUME Init PROVE TypeOK
  OBVIOUS
<1>1. rushed \in BOOLEAN /\ called \in BOOLEAN /\ misled \in BOOLEAN
  BY DEF Init
<1>2. split \in [Callers -> BOOLEAN] /\ doubt \in [Callers -> BOOLEAN]
  BY DEF Init
<1>3. next \in [Callers -> 0..N] /\ val \in [Callers -> SUBSET Sensors]
  BY SensorCount DEF Init
<1>4. Line \subseteq Sensors /\ pin \in Sensors /\ old \in {-1, 0, 1}
  BY SensorCount DEF Init, Sensors
<1>5. offset \in -N..N /\ still \in 0..N /\ inTime \in 0..N
  BY SensorCount DEF Init
<1> QED
  BY <1>1, <1>2, <1>3, <1>4, <1>5 DEF TypeOK

LEMMA ScanKeepsType ==
  ASSUME TypeOK, NextPin
  PROVE  /\ pin' \in Sensors /\ still' \in 0..N /\ called' \in BOOLEAN
         /\ split' \in [Callers -> BOOLEAN]
         /\ UNCHANGED <<old, next, val, offset, doubt, misled>>
<1>1. pin' \in Sensors
  BY PinAfter, SensorCount DEF TypeOK, NextPin, Sensors
<1>2. still' \in 0..N
  BY SensorCount DEF TypeOK, NextPin, Upto
<1>3. split' \in [Callers -> BOOLEAN]
  BY DEF NextPin
<1>4. called' \in BOOLEAN
  BY DEF NextPin
<1> QED
  BY <1>1, <1>2, <1>3, <1>4 DEF NextPin

LEMMA TypeStep == TypeOK /\ [Next]_vars => TypeOK'
<1> SUFFICES ASSUME TypeOK, [Next]_vars PROVE TypeOK'
  OBVIOUS
<1>1. CASE Timed
  <2>1. Line' \in SUBSET Sensors
    BY <1>1 DEF Timed, Saw, TypeOK
  <2>2. inTime' \in 0..N
    BY <1>1, SensorCount DEF Timed, Upto, TypeOK
  <2>3. rushed' \in BOOLEAN
    BY <1>1 DEF Timed
  <2> QED
    BY <1>1, <2>1, <2>2, <2>3, ScanKeepsType DEF Timed, TypeOK
<1>2. CASE Interrupted
  <2>1. Line' \in SUBSET Sensors
    BY <1>2 DEF Interrupted, Saw, TypeOK
  <2>2. inTime' \in 0..N
    BY <1>2, SensorCount DEF Interrupted
  <2>3. rushed' \in BOOLEAN
    BY <1>2 DEF Interrupted
  <2> QED
    BY <1>2, <2>1, <2>2, <2>3, ScanKeepsType DEF Interrupted, TypeOK
<1>3. CASE TimedOut
  <2>1. inTime' \in 0..N
    BY <1>3, SensorCount DEF TimedOut
  <2>2. rushed' \in BOOLEAN
    BY <1>3 DEF TimedOut
  <2> QED
    BY <1>3, <2>1, <2>2, ScanKeepsType DEF TimedOut, TypeOK
<1>4. ASSUME NEW c \in Callers, Begin(c) PROVE TypeOK'
  <2>1. PICK k \in 1..N : /\ next' = [next EXCEPT ![c] = k]
                          /\ val' = [val EXCEPT ![c] = Line \cap 0..(k - 1)]
    BY <1>4 DEF Begin
  <2>2. next' \in [Callers -> 0..N] /\ val' \in [Callers -> SUBSET Sensors]
    BY <2>1, SensorCount DEF TypeOK
  <2>3. doubt' \in [Callers -> BOOLEAN]
    BY <1>4 DEF Begin, TypeOK
  <2> QED
    BY <1>4, <2>2, <2>3 DEF Begin, TypeOK, scan
<1>5. ASSUME NEW c \in Callers, Finish(c) PROVE TypeOK'
  <2>1. Bitmap(c) \in SUBSET Sensors
    BY DEF TypeOK, Bitmap
  <2>2. old' \in {-1, 0, 1}
    BY <1>5, <2>1, SideType DEF Finish, TypeOK
  <2>3. next' \in [Callers -> 0..N] /\ val' \in [Callers -> SUBSET Sensors]
    BY <1>5, SensorCount DEF Finish, TypeOK
  <2>4. split' \in [Callers -> BOOLEAN] /\ doubt' \in [Callers -> BOOLEAN]
    BY <1>5 DEF Finish, TypeOK
  <2>5. misled' \in BOOLEAN
    BY <1>5 DEF Finish, TypeOK
  <2> QED
    BY <1>5, <2>2, <2>3, <2>4, <2>5 DEF Finish, TypeOK, scan
<1>6. CASE Drift
  BY <1>6, SensorCount DEF Drift, TypeOK, scan, calls
<1>7. CASE UNCHANGED vars
  BY <1>7 DEF TypeOK, vars, scan, calls
<1> QED
  BY <1>1, <1>2, <1>3, <1>4, <1>5, <1>6, <1>7 DEF Next, ReadLineMainThread

(* Every reachable state has the declared types; in particular old is a    *)
(* side, whatever bits LineEval is given.                                  *)
THEOREM LineTypeCorrect == Spec => []TypeOK
<1>1. Init => TypeOK
  BY TypeInit
<1>2. TypeOK /\ [Next]_vars => TypeOK'
  BY TypeStep
<1> QED
  BY <1>1, <1>2, PTL DEF Spec

-----------------------------------------------------------------------------
(* The inductive invariant.  p is the place of the line before it moved    *)
(* last: the readings made since are of offset, the earlier ones of p.     *)

(* The reading of sensor i is one of the last n.                           *)
Recent(i, n) == IF i < pin THEN pin - i <= n ELSE pin + N - i <= n

ScanFollows(p) ==
  \A i \in Sensors : Recent(i, inTime) =>
    (i \in Line <=> i \in Under(IF Recent(i, still) THEN offset ELSE p))

(* The bits call c has so far are of a line at x.  It is where the line is *)
(* or was before, but for a call during which a reading was made before    *)
(* the line moved.                                                         *)
Pictured(c, x, p) ==
  /\ val[c] = Under(x) \cap 0..(next[c] - 1)
  /\ \/ x \in {offset, p} /\ (still = N /\ ~split[c] => x = offset)
     \/ Near(x, p, 1) /\ still = 0 /\ split[c]

CallFollows(p) ==
  \A c \in Callers :
    next[c] # 0 /\ ~doubt[c] => \E x \in -N..N : Pictured(c, x, p)

(* old is the side of a picture at z, if it shows one.                     *)
Side(z) == (z >= 2 => old = 1) /\ (z <= -1 => old = -1)

(* A bound on the readings since LineEval last returned.                   *)
SinceCall == IF called THEN pin ELSE N + pin

(* z, the place the last call saw, is behind by the moves made since; each *)
(* of them takes N readings.                                               *)
Remembers(z, p) ==
  /\ Side(z)
  /\ \/ Near(z, offset, 1)
     \/ Near(z, offset, 2) /\ Near(z, p, 1) /\ still <= SinceCall
     \/ Near(z, offset, 3) /\ Near(z, p, 2) /\ N + still <= SinceCall

Trace(p) ==
  /\ Near(p, offset, 1)
  /\ ScanFollows(p)
  /\ CallFollows(p)
  /\ ~misled => \E z \in -N..N : Remembers(z, p)

LineInv == TypeOK /\ \E p \in -N..N : Trace(p)

-----------------------------------------------------------------------------
(* What the invariant says of Line and of the bits of a call.              *)

LEMMA LineIsPicture ==
  ASSUME TypeOK, inTime = N, NEW p \in -N..N, Near(p, offset, 1), ScanFollows(p)
  PROVE  /\ Line = Under(offset) \/ Line = Under(p)
         /\ still = N => Line = Under(offset)
         /\ still = 0 => Line = Under(p)
<1>1. \A i \in Sensors : Recent(i, N) /\ ~Recent(i, 0)
  BY SensorCount DEF TypeOK, Sensors, Recent
<1>2. \A i \in Sensors : (i \in Line <=> i \in Under(offset))
                           \/ (i \in Line <=> i \in Under(p))
  BY <1>1 DEF ScanFollows
<1>3. offset \in -N..N /\ Line \in SUBSET Sensors /\ Near(offset, p, 1)
  BY DEF TypeOK, Near
<1>4. Line = Under(offset) \/ Line = Under(p)
  BY <1>2, <1>3, NoMixture
<1>5. \A z \in -N..N : Under(z) \in SUBSET Sensors
  BY SensorCount DEF Under, Sensors
<1>6. still = N => Line = Under(offset)
  BY <1>1, <1>3, <1>5 DEF ScanFollows
<1>7. still = 0 => Line = Under(p)
  BY <1>1, <1>3, <1>5 DEF ScanFollows
<1> QED
  BY <1>4, <1>6, <1>7

(* The bits a call has read make up a picture, however it was preempted.   *)
LEMMA BitmapIsPicture ==
  ASSUME TypeOK, inTime = N, NEW p \in -N..N, Near(p, offset, 1),
         ScanFollows(p), CallFollows(p),
         NEW c \in Callers, next[c] # 0, ~doubt[c]
  PROVE  \E z \in -N..N : /\ Bitmap(c) = Under(z)
                          /\ z \in {offset, p} \/ (Near(z, p, 1) /\ still = 0)
<1>1. PICK x \in -N..N : Pictured(c, x, p)
  BY DEF CallFollows
<1>2. offset \in -N..N /\ next[c] \in 1..N /\ Line \in SUBSET Sensors
  BY SensorCount DEF TypeOK
<1>3. \A z \in -N..N : Under(z) \in SUBSET Sensors
  BY SensorCount DEF Under, Sensors
<1>4. Bitmap(c) \in SUBSET Sensors
  BY DEF TypeOK, Bitmap
<1>5. ASSUME NEW y \in -N..N, Line = Under(y), Near(x, y, 1)
      PROVE  Bitmap(c) = Under(x) \/ Bitmap(c) = Under(y)
  <2>1. \A i \in Sensors : i < next[c] => (i \in Bitmap(c) <=> i \in Under(x))
    BY <1>1, <1>2, SensorCount DEF Pictured, Bitmap, Sensors
  <2>2. \A i \in Sensors : ~(i < next[c]) => (i \in Bitmap(c) <=> i \in Under(y))
    BY <1>1, <1>2, <1>5, SensorCount DEF Pictured, Bitmap, Sensors
  <2> QED
    BY <1>4, <1>5, <2>1, <2>2, NoMixture
<1>6. CASE x \in {offset, p}
  <2>1. PICK y \in {offset, p} : Line = Under(y)
    BY LineIsPicture
  <2>2. y \in -N..N /\ Near(x, y, 1)
    BY <1>2, <1>6, SensorCount DEF Near
  <2> QED
    BY <1>2, <1>5, <1>6, <2>1, <2>2
<1>7. CASE Near(x, p, 1) /\ still = 0
  BY <1>5, <1>7, LineIsPicture
<1> QED
  BY <1>1, <1>6, <1>7 DEF Pictured

(* When the row is empty old is the right side: since the call before, the *)
(* line has moved at most three sensors, and a row of five shows the side  *)
(* for so long.                                                            *)
LEMMA CallSees ==
  ASSUME N >= 5, TypeOK, NEW p \in -N..N, Trace(p),
         NEW c \in Callers, Finish(c), ~misled'
  PROVE  \E z \in -N..N : /\ Bitmap(c) = Under(z)
                          /\ z \in {offset, p} \/ (Near(z, p, 1) /\ still = 0)
                          /\ z = N => old = 1
                          /\ z = -N => old = -1
<1>1. next[c] # 0 /\ ~doubt[c] /\ inTime = N /\ (misled => Bitmap(c) # {})
  <2>1. misled' = (doubt[c] \/ inTime < N \/ (misled /\ Bitmap(c) = {}))
    BY DEF Finish
  <2>2. ~doubt[c] /\ ~(inTime < N) /\ (misled => Bitmap(c) # {})
    BY <2>1
  <2>3. inTime \in 0..N /\ next[c] # 0
    BY DEF TypeOK, Finish
  <2> QED
    BY <2>2, <2>3, SensorCount
<1>2. PICK z \in -N..N :
        /\ Bitmap(c) = Under(z)
        /\ z \in {offset, p} \/ (Near(z, p, 1) /\ still = 0)
  BY <1>1, BitmapIsPicture DEF Trace
<1>3. ASSUME z \in {-N, N} PROVE (z = N => old = 1) /\ (z = -N => old = -1)
  <2>1. ~misled
    BY <1>1, <1>2, <1>3, PictureEdges
  <2>2. PICK y \in -N..N : Remembers(y, p)
    BY <2>1 DEF Trace
  <2>3. offset \in -N..N /\ Near(p, offset, 1)
    BY DEF TypeOK, Trace
  <2>4. Near(y, z, 3)
    BY <1>2, <2>2, <2>3, SensorCount DEF Remembers, Near
  <2>5. (z = N => y >= 2) /\ (z = -N => y <= -1)
    BY <2>4, SensorCount DEF Near
  <2> QED
    BY <2>2, <2>5 DEF Remembers, Side
<1> QED
  BY <1>2, <1>3

-----------------------------------------------------------------------------
(* The steps.                                                              *)

LEMMA TraceInit == Init => \E p \in -N..N : Trace(p)
<1> SUFFICES ASSUME Init PROVE \E p \in -N..N : Trace(p)
  OBVIOUS
<1>1. PICK p \in -N..N : p = offset
  BY DEF Init
<1>2. Near(p, offset, 1)
  BY <1>1, SensorCount DEF Near
<1>3. ScanFollows(p)
  BY SensorCount DEF Init, ScanFollows, Recent, Sensors
<1>4. CallFollows(p) /\ misled
  BY DEF Init, CallFollows
<1> QED
  BY <1>2, <1>3, <1>4 DEF Trace

(* A reading: of the line where it is, or one that leaves no reading in    *)
(* time.                                                                   *)
LEMMA ReadingKeepsTrace ==
  ASSUME TypeOK, NEW p \in -N..N, Trace(p), NextPin,
         \/ Saw(pin \in Under(offset)) /\ inTime' = Upto(N, inTime + 1)
         \/ inTime' = 0
  PROVE  Trace(p)'
<1> USE SensorCount
<1>1. UNCHANGED <<old, next, val, offset, doubt, misled>>
  BY DEF NextPin
<1>2. pin \in Sensors /\ pin' = (IF pin = N - 1 THEN 0 ELSE pin + 1)
  BY PinAfter DEF NextPin, TypeOK
<1>3. still \in 0..N /\ still' = (IF still = N THEN N ELSE still + 1)
  BY DEF NextPin, Upto, TypeOK
<1>4. ScanFollows(p)'
  <2>1. SUFFICES ASSUME NEW i \in Sensors, Recent(i, inTime)'
                 PROVE  i \in Line' <=>
                          i \in Under(IF Recent(i, still)' THEN offset ELSE p)
    BY <1>1 DEF ScanFollows, Under, Sensors
  <2>2. inTime \in 0..N
    BY DEF TypeOK
  <2>3. inTime' # 0
    BY <1>2, <2>1 DEF Recent, Sensors
  <2>4. Saw(pin \in Under(offset)) /\ inTime' = Upto(N, inTime + 1)
    BY <2>3
  <2>5. CASE i = pin
    <3>1. Recent(i, still)'
      BY <1>2, <1>3, <2>5 DEF Recent, Sensors
    <3> QED
      BY <2>4, <2>5, <3>1 DEF Saw
  <2>6. CASE i # pin
    <3>1. Recent(i, inTime)
      BY <1>2, <2>1, <2>2, <2>4, <2>6 DEF Recent, Upto, Sensors
    <3>2. Recent(i, still)' <=> Recent(i, still)
      BY <1>2, <1>3, <2>6 DEF Recent, Sensors
    <3>3. i \in Line' <=> i \in Line
      BY <2>4, <2>6 DEF Saw
    <3> QED
      BY <3>1, <3>2, <3>3 DEF Trace, ScanFollows
  <2> QED
    BY <2>5, <2>6
<1>5. CallFollows(p)'
  <2> SUFFICES ASSUME NEW c \in Callers, next[c] # 0, ~doubt[c]
               PROVE  \E x \in -N..N : Pictured(c, x, p)'
    BY <1>1 DEF CallFollows
  <2>1. PICK x \in -N..N : Pictured(c, x, p)
    BY DEF Trace, CallFollows
  <2>2. ~split[c] /\ split'[c]
    BY DEF NextPin
  <2> QED
    BY <1>1, <2>1, <2>2 DEF Pictured
<1>6. ASSUME ~misled' PROVE \E z \in -N..N : Remembers(z, p)'
  <2>1. PICK z \in -N..N : Remembers(z, p)
    BY <1>1, <1>6 DEF Trace
  <2>2. SinceCall \in Nat /\ SinceCall' = SinceCall + 1
    <3>1. CASE pin = N - 1
      <4>1. called /\ ~called'
        BY <3>1 DEF NextPin
      <4> QED
        BY <1>2, <3>1, <4>1 DEF SinceCall
    <3>2. CASE pin # N - 1
      <4>1. called' <=> called
        BY <3>2 DEF NextPin
      <4> QED
        BY <1>2, <3>2, <4>1 DEF SinceCall, Sensors
    <3> QED
      BY <3>1, <3>2
  <2>3. Side(z)'
    BY <1>1, <2>1 DEF Remembers, Side
  <2> QED
    BY <1>1, <1>3, <2>1, <2>2, <2>3 DEF Remembers, Near
<1> QED
  BY <1>1, <1>4, <1>5, <1>6 DEF Trace, Near

LEMMA BeginKeepsTrace ==
  ASSUME TypeOK, NEW p \in -N..N, Trace(p), NEW c \in Callers, Begin(c)
  PROVE  Trace(p)'
<1> USE SensorCount
<1>1. UNCHANGED <<Line, pin, old, split, called, offset, still, inTime, misled>>
  BY DEF Begin, scan
<1>2. ScanFollows(p)'
  BY <1>1 DEF Trace, ScanFollows, Recent, Under, Sensors
<1>3. ASSUME NEW d \in Callers, next'[d] # 0, ~doubt'[d]
      PROVE  \E x \in -N..N : Pictured(d, x, p)'
  <2>1. CASE d = c
    <3>1. PICK k \in 1..N : /\ next' = [next EXCEPT ![c] = k]
                            /\ val' = [val EXCEPT ![c] = Line \cap 0..(k - 1)]
      BY DEF Begin
    <3>2. inTime = N
      <4>1. doubt'[c] = (inTime < N)
        BY DEF Begin, TypeOK
      <4>2. ~(inTime < N)
        BY <1>3, <2>1, <4>1
      <4> QED
        BY <4>2 DEF TypeOK
    <3>3. PICK x \in {offset, p} : Line = Under(x) /\ (still = N => x = offset)
      BY <3>2, LineIsPicture DEF Trace
    <3>4. x \in -N..N /\ val'[c] = Under(x) \cap 0..(next'[c] - 1)
      BY <3>1, <3>3 DEF TypeOK
    <3> QED
      BY <1>1, <2>1, <3>3, <3>4 DEF Pictured
  <2>2. CASE d # c
    <3>1. next'[d] = next[d] /\ val'[d] = val[d] /\ doubt'[d] = doubt[d]
      BY <2>2 DEF Begin, TypeOK
    <3>2. PICK x \in -N..N : Pictured(d, x, p)
      BY <1>3, <3>1 DEF Trace, CallFollows
    <3> QED
      BY <1>1, <3>1, <3>2 DEF Pictured
  <2> QED
    BY <2>1, <2>2
<1>4. CallFollows(p)'
  BY <1>3 DEF CallFollows
<1>5. ~misled' => \E z \in -N..N : Remembers(z, p)'
  BY <1>1 DEF Trace, Remembers, Side, SinceCall
<1> QED
  BY <1>1, <1>2, <1>4, <1>5 DEF Trace, Near

LEMMA FinishKeepsTrace ==
  ASSUME N >= 5, TypeOK, NEW p \in -N..N, Trace(p), NEW c \in Callers, Finish(c)
  PROVE  Trace(p)'
<1> USE SensorCount
<1>1. UNCHANGED <<Line, pin, offset, still, inTime>> /\ called'
  BY DEF Finish, scan
<1>2. ScanFollows(p)'
  BY <1>1 DEF Trace, ScanFollows, Recent, Under, Sensors
<1>3. ASSUME NEW d \in Callers, next'[d] # 0, ~doubt'[d]
      PROVE  \E x \in -N..N : Pictured(d, x, p)'
  <2>1. d # c
    BY <1>3 DEF Finish, TypeOK
  <2>2. next'[d] = next[d] /\ val'[d] = val[d] /\ doubt'[d] = doubt[d]
        /\ split'[d] = split[d]
    BY <2>1 DEF Finish, TypeOK
  <2>3. PICK x \in -N..N : Pictured(d, x, p)
    BY <1>3, <2>2 DEF Trace, CallFollows
  <2> QED
    BY <1>1, <2>2, <2>3 DEF Pictured
<1>4. CallFollows(p)'
  BY <1>3 DEF CallFollows
<1>5. ASSUME ~misled' PROVE \E z \in -N..N : Remembers(z, p)'
  <2>1. PICK z \in -N..N :
          /\ Bitmap(c) = Under(z)
          /\ z \in {offset, p} \/ (Near(z, p, 1) /\ still = 0)
          /\ z = N => old = 1
          /\ z = -N => old = -1
    BY <1>5, CallSees
  <2>2. old' = SideOf(z, old)
    BY <2>1, EvaluateSide DEF Finish, TypeOK
  <2>3. Side(z)'
    BY <2>1, <2>2 DEF Side, SideOf
  <2>4. offset \in -N..N /\ Near(p, offset, 1) /\ pin \in 0..(N - 1)
    BY DEF Trace, TypeOK, Sensors
  <2>5. \/ Near(z, offset', 1)
        \/ Near(z, offset', 2) /\ Near(z, p, 1) /\ still' <= SinceCall'
    BY <1>1, <2>1, <2>4 DEF Near, SinceCall
  <2> QED
    BY <2>3, <2>5 DEF Remembers
<1> QED
  BY <1>1, <1>2, <1>4, <1>5 DEF Trace, Near

(* The line moves: its place until now is the one before.                  *)
LEMMA DriftKeepsTrace ==
  ASSUME TypeOK, NEW p \in -N..N, Trace(p), Drift
  PROVE  \E q \in -N..N : Trace(q)'
<1> USE SensorCount
<1>1. PICK q \in -N..N : q = offset
  BY DEF TypeOK
<1>2. /\ UNCHANGED <<Line, pin, old, next, val, split, called, inTime, doubt, misled>>
      /\ still = N /\ still' = 0
  BY DEF Drift, scan, calls
<1>3. Near(q, offset', 1) /\ offset' \in -N..N
  BY <1>1 DEF Drift, Near
<1>4. ScanFollows(q)'
  <2>1. \A i \in Sensors : Recent(i, still) /\ ~Recent(i, still)'
    BY <1>2 DEF TypeOK, Sensors, Recent
  <2>2. \A i \in Sensors : Recent(i, inTime)' <=> Recent(i, inTime)
    BY <1>2 DEF Recent
  <2>3. \A i \in Sensors : Recent(i, inTime) => (i \in Line <=> i \in Under(q))
    BY <1>1, <2>1 DEF Trace, ScanFollows
  <2> QED
    BY <1>2, <2>1, <2>2, <2>3 DEF ScanFollows, Under, Sensors
<1>5. ASSUME NEW c \in Callers, next[c] # 0, ~doubt[c]
      PROVE  \E x \in -N..N : Pictured(c, x, q)'
  <2>1. PICK x \in -N..N : Pictured(c, x, p)
    BY <1>5 DEF Trace, CallFollows
  <2>2. x \in {q, p} /\ (~split[c] => x = q)
    BY <1>1, <1>2, <2>1 DEF Pictured
  <2>3. Near(x, q, 1)
    BY <1>1, <2>2 DEF Trace, Near
  <2>4. still' # N
    BY <1>2
  <2>5. val'[c] = Under(x) \cap 0..(next'[c] - 1)
    BY <1>2, <2>1 DEF Pictured
  <2> QED
    BY <1>2, <2>2, <2>3, <2>4, <2>5 DEF Pictured
<1>6. CallFollows(q)'
  BY <1>2, <1>5 DEF CallFollows
<1>7. ASSUME ~misled' PROVE \E z \in -N..N : Remembers(z, q)'
  <2>1. PICK z \in -N..N : Remembers(z, p)
    BY <1>2, <1>7 DEF Trace
  <2>2. SinceCall' = SinceCall /\ SinceCall \in 0..(2 * N - 1)
    BY <1>2 DEF SinceCall, TypeOK, Sensors
  <2>3. Side(z)'
    BY <1>2, <2>1 DEF Remembers, Side
  <2>4. \/ Near(z, offset, 1)
        \/ Near(z, offset, 2) /\ N <= SinceCall
    BY <1>2, <2>1, <2>2 DEF Remembers
  <2>5. \/ Near(z, offset', 2) /\ Near(z, q, 1) /\ still' <= SinceCall'
        \/ Near(z, offset', 3) /\ Near(z, q, 2) /\ N + still' <= SinceCall'
    <3>1. still' = 0 /\ SinceCall' = SinceCall
      BY <1>2, <2>2
    <3>2. PICK o \in Int : o = offset'
      BY <1>3
    <3>3. q \in Int /\ z \in Int /\ Near(q, o, 1)
      BY <1>3, <3>2
    <3>4. CASE Near(z, offset, 1)
      <4>1. Near(z, q, 1)
        BY <1>1, <3>4
      <4>2. Near(z, o, 2)
        BY <3>3, <4>1 DEF Near
      <4>3. still' <= SinceCall'
        BY <2>2, <3>1
      <4> QED
        BY <3>2, <4>1, <4>2, <4>3
    <3>5. CASE Near(z, offset, 2) /\ N <= SinceCall
      <4>1. Near(z, q, 2)
        BY <1>1, <3>5
      <4>2. Near(z, o, 3)
        BY <3>3, <4>1 DEF Near
      <4>3. N + still' <= SinceCall'
        BY <3>1, <3>5
      <4> QED
        BY <3>2, <4>1, <4>2, <4>3
    <3> QED
      BY <2>4, <3>4, <3>5
  <2> QED
    BY <2>3, <2>5 DEF Remembers
<1> QED
  BY <1>2, <1>3, <1>4, <1>6, <1>7 DEF Trace, Near

LEMMA StepKeepsTrace ==
  ASSUME N >= 5
  PROVE  LineInv /\ [Next]_vars => LineInv'
<1> SUFFICES ASSUME LineInv, [Next]_vars PROVE LineInv'
  OBVIOUS
<1>1. TypeOK /\ TypeOK'
  BY TypeStep DEF LineInv
<1>2. PICK p \in -N..N : Trace(p)
  BY DEF LineInv
<1>3. CASE Timed
  BY <1>1, <1>2, <1>3, ReadingKeepsTrace DEF LineInv, Timed
<1>4. CASE Interrupted
  BY <1>1, <1>2, <1>4, ReadingKeepsTrace DEF LineInv, Interrupted
<1>5. CASE TimedOut
  BY <1>1, <1>2, <1>5, ReadingKeepsTrace DEF LineInv, TimedOut
<1>6. ASSUME NEW c \in Callers, Begin(c) PROVE LineInv'
  BY <1>1, <1>2, <1>6, BeginKeepsTrace DEF LineInv
<1>7. ASSUME NEW c \in Callers, Finish(c) PROVE LineInv'
  BY <1>1, <1>2, <1>7, FinishKeepsTrace DEF LineInv
<1>8. CASE Drift
  BY <1>1, <1>2, <1>8, DriftKeepsTrace DEF LineInv
<1>9. CASE UNCHANGED vars
  <2>1. Trace(p)'
    BY <1>2, <1>9 DEF vars, scan, calls, Trace, Near, ScanFollows, Recent,
       CallFollows, Pictured, Remembers, Side, SinceCall, Under, Sensors
  <2> QED
    BY <1>1, <2>1 DEF LineInv
<1> QED
  BY <1>3, <1>4, <1>5, <1>6, <1>7, <1>8, <1>9 DEF Next, ReadLineMainThread

(* For every row of at least five sensors and any number of callers: an    *)
(* answer of LineEval that rests on readings made in time is the exact one *)
(* for a line at most two sensors from where it is by then.                *)
THEOREM LineAnswers == ASSUME N >= 5 PROVE Spec => AnswerFollowsLine
<1>1. Init => LineInv
  BY TypeInit, TraceInit DEF LineInv
<1>2. LineInv /\ [Next]_vars => LineInv'
  BY StepKeepsTrace
<1>3. LineInv /\ [Next]_vars =>
        [\A c \in Callers : (next[c] # 0 /\ next'[c] = 0 /\ ~misled') =>
           \E o \in -N..N : /\ o - offset \in -2..2
                            /\ Evaluate(Bitmap(c), old)[1] = Exact(o)]_vars
  <2> SUFFICES ASSUME LineInv, Next, NEW c \in Callers,
                      next[c] # 0, next'[c] = 0, ~misled'
               PROVE  \E o \in -N..N : /\ o - offset \in -2..2
                                       /\ Evaluate(Bitmap(c), old)[1] = Exact(o)
    OBVIOUS
  <2>1. PICK p \in -N..N : Trace(p)
    BY DEF LineInv
  <2>2. Finish(c)
    <3>1. TypeOK
      BY DEF LineInv
    <3>2. ~ReadLineMainThread /\ ~Drift
      BY DEF ReadLineMainThread, Timed, Interrupted, TimedOut, NextPin, Drift, calls
    <3>3. PICK d \in Callers : Begin(d) \/ Finish(d)
      BY <3>2 DEF Next
    <3>4. ~Begin(d)
      BY <3>1, SensorCount DEF Begin, TypeOK
    <3>5. d = c
      BY <3>1, <3>3, <3>4 DEF Finish, TypeOK
    <3> QED
      BY <3>3, <3>4, <3>5
  <2>3. PICK z \in -N..N :
          /\ Bitmap(c) = Under(z)
          /\ z \in {offset, p} \/ (Near(z, p, 1) /\ still = 0)
          /\ z = N => old = 1
          /\ z = -N => old = -1
    BY <2>1, <2>2, CallSees DEF LineInv
  <2>4. z - offset \in -2..2
    BY <2>1, <2>3, SensorCount DEF LineInv, TypeOK, Trace, Near
  <2>5. Evaluate(Bitmap(c), old)[1] = Exact(z)
    BY <2>3, EvaluatePicture DEF LineInv, TypeOK
  <2> QED
    BY <2>4, <2>5
<1> QED
  BY <1>1, <1>2, <1>3, PTL DEF Spec, AnswerFollowsLine

=============================================================================
