------------------------ MODULE LaunchScheduleProofs ------------------------
(***************************************************************************)
(* Proofs about LaunchSchedule: for every lateness below 87.5 ms the waits *)
(* of MoveForwardTable keep it clear of the loader cycles it asks for.     *)
(*                                                                         *)
(* Every program is put together from a few parts, whose steps are         *)
(* numbered through: a place is such a number.  For each place there is a  *)
(* bound, in milliseconds, on how soon the next request, the next shot and *)
(* the next valve write can come.  ReloadThread's remaining work has a     *)
(* bound from above, and always fits.                                      *)
(***************************************************************************)
EXTENDS LaunchSchedule, SequenceTheorems, TLAPS

(* All waits are multiples of 50 ms.  The tightest of the intervals is the *)
(* one from the request of Again to that of Return: 6000 ms, in which the  *)
(* 5300 ms of a loader cycle are late eight times.                         *)
Timely ==
  /\ 50 % Unit = 0
  /\ 8 * Late * Unit < 700

-----------------------------------------------------------------------------
(* Places: 1..11 are the steps of Approach, 21..27 of Again, 31..39 of     *)
(* Second, 41 and 42 the pauses before that, 51..53 Return, and 54 is the  *)
(* way to the next table.                                                  *)

Size(v) == IF v.pt # 0 THEN IF v.loop = 1 THEN 14 ELSE 21
           ELSE IF v.side THEN 39 ELSE 24

Place(v, n) ==
  IF n \in 1..11 THEN n
  ELSE IF n = 0 \/ n = Size(v) + 1 THEN 54
  ELSE IF n > Size(v) - 3 THEN 53 - (Size(v) - n)
  ELSE IF v.pt # 0 THEN n + 9
  ELSE IF ~v.side THEN IF n = 12 THEN 42 ELSE n + 18
  ELSE IF n <= 13 THEN n + 29
  ELSE IF n <= 22 THEN n + 17
  ELSE IF n <= 29 THEN n - 2
  ELSE n - 9

Places == (1..11) \cup (21..27) \cup (31..39) \cup (41..42) \cup (51..54)

(* Where a part may follow.                                                *)
Seams == {21, 41, 42, 51}

(* The Timer runs for the wait that follows the drive.                     *)
Timed(p) == p \in 5..7 \/ p \in 33..35

AwaitMs(p) == IF p < 20 THEN 2000 ELSE 3000

(* What is left of it when the Timer shows so many units.                  *)
Wait(p, time) == IF Timed(p) /\ time < Units(AwaitMs(p))
                 THEN Units(AwaitMs(p)) - time ELSE 0

(* At the least, the time from a place to the next request, to the next    *)
(* shot and to the next valve write; without that which the Timer measures.*)
ToPost(p) ==
  IF p \in {54, 1} THEN 7050 ELSE IF p = 2 THEN 7000
  ELSE IF p = 3 THEN 6000 ELSE IF p = 4 THEN 5500
  ELSE IF p = 21 THEN 1200 ELSE IF p = 22 THEN 500
  ELSE IF p \in {23, 31, 53} THEN 0
  ELSE IF p = 32 THEN 6500
  ELSE IF p \in {9, 25, 37} THEN 2500
  ELSE IF p \in {10, 26, 38} THEN 1500
  ELSE IF p \in {11, 27, 39, 41, 42, 51, 52} THEN 1000
  ELSE 3500

ToShot(p) ==
  IF p \in {54, 1} THEN 4550 ELSE IF p = 2 THEN 4500
  ELSE IF p = 3 THEN 3500 ELSE IF p = 4 THEN 3000
  ELSE IF p = 23 THEN 3500 ELSE IF p = 32 THEN 4000
  ELSE IF p \in (5..8) \cup {24} \cup (33..36) THEN 1000
  ELSE 0

ToWrite(p) ==
  IF p \in {54, 1} THEN 1550 ELSE IF p = 2 THEN 1500
  ELSE IF p = 3 THEN 500 ELSE IF p \in {4, 5} THEN 0
  ELSE ToShot(p)

(* From a request to the next shot; with a launch point open for that.     *)
Asked(p) == p \in (1..9) \cup (24..25) \cup (32..37) \cup {54}
Primed(p) == p \in (6..9) \cup (23..25) \cup (34..37)

(* The launch point of a place, and the valves MoveForwardTable holds open.*)
Point(v, p) == IF p < 20 \/ v.pt # 0 THEN v.pt ELSE 3

Held(v, p) ==
  {b \in {Point(v, p)} : Primed(p) \/ p \in {10, 26, 38}}
    \cup {b \in {Trigger} : p \in {10, 11, 26, 27, 38, 39}}

-----------------------------------------------------------------------------
(* The state.                                                              *)

here == Place(visit, pc["table"])

Pending == Wait(here, timer)

Until(ms) == left["table"] + Pending + Units(ms)

(* ReloadThread: what is left of its cycle, and of the feeding half.       *)
CycleRest(s) ==
  IF s <= 1 THEN Units(5300) + 6 * Late
  ELSE IF s = 2 THEN Units(4500) + 5 * Late
  ELSE IF s = 3 THEN Units(3000) + 4 * Late
  ELSE IF s = 4 THEN Units(2500) + 3 * Late
  ELSE IF s = 5 THEN Units(2000) + 2 * Late
  ELSE IF s = 6 THEN Units(1000) + Late
  ELSE 0

FeedRest(s) ==
  IF s <= 1 THEN Units(2800) + 3 * Late
  ELSE IF s = 2 THEN Units(2000) + 2 * Late
  ELSE IF s = 3 THEN Units(500) + Late
  ELSE 0

Busy == doReloadPt = Reload
Feeding == Busy /\ pc["rel"] \in 0..4
Starting == Busy /\ pc["rel"] \in 0..1

StartLate == IF pc["rel"] = 0 THEN 2 * Late
             ELSE IF pc["rel"] = 1 /\ register["rel"] = Empty THEN Late ELSE 0

AtMost(rest) == left["rel"] + StartLate + rest

RelHolds(s) == {b \in {7} : s \in 2..4} \cup {b \in {5} : s = 3}
                 \cup {b \in {6} : s = 6}

-----------------------------------------------------------------------------
(* The invariant.                                                          *)

Location ==
  /\ pc["rel"] # 0 => Busy
  /\ pc["rel"] = 0 => left["rel"] = 0
  /\ Timed(here) => left["table"] = 0
  /\ here \in {32, 33} => cpu = "table" /\ pc["rel"] = 0
  /\ here \in {5, 33} => timer = 0

Turns ==
  /\ register["table"] # Empty =>
       /\ cpu = "table" /\ register["rel"] = Empty
       /\ AtStep("table", "write")
       /\ register["table"] = bitWrite(SV, Current("table").bit, Current("table").on)
  /\ register["rel"] # Empty =>
       /\ pc["rel"] \in 1..6
       /\ pc["rel"] # 1 => cpu = "rel"
       /\ register["rel"] = bitWrite(SV, ReloadScript[pc["rel"]].bit, ReloadScript[pc["rel"]].on)

ValvesFollow == SV = Held(visit, here) \cup RelHolds(pc["rel"])

LoadedFollows == Asked(here) /\ ~Feeding => loaded

CycleFits == Busy => AtMost(CycleRest(pc["rel"])) < Until(ToPost(here))

FeedFits == Feeding => /\ Asked(here)
                       /\ AtMost(FeedRest(pc["rel"])) < Until(ToShot(here))

StartFits == Starting => \/ here \in {32, 33}
                         \/ here # 5 /\ AtMost(0) < Until(ToWrite(here))

PressureRises ==
  Primed(here) => opened + Until(ToShot(here)) >= Units(3000)

SInv == /\ TypeOK /\ Location /\ Turns /\ ValvesFollow /\ LoadedFollows
        /\ CycleFits /\ FeedFits /\ StartFits /\ PressureRises

-----------------------------------------------------------------------------
(* The steps, place by place.                                              *)

Moves  == {1, 2, 3, 8, 21, 24, 36, 41, 42, 52}
Writes == {5, 9, 10, 11, 22, 25, 26, 27, 33, 37, 38, 39}
Posts  == {23, 31, 53}
Timers == {4, 32}
Drives == {6, 34, 51}
Awaits == {7, 35}

OpOf(p) ==
  IF p \in Moves THEN "pause" ELSE IF p \in Writes THEN "write"
  ELSE IF p \in Posts THEN "post" ELSE IF p \in Timers THEN "timer"
  ELSE IF p \in Drives THEN "drive" ELSE IF p \in Awaits THEN "await"
  ELSE "end"

MsOf(p) ==
  IF p = 1 THEN {50} ELSE IF p \in {3, 10, 22, 26} THEN {500}
  ELSE IF p \in {2, 8, 9, 24, 25, 36, 37, 52} THEN {1000}
  ELSE IF p = 7 THEN {2000} ELSE IF p = 23 THEN {2500}
  ELSE IF p = 35 THEN {3000} ELSE IF p = 41 THEN {800}
  ELSE IF p = 38 THEN {500, 700} ELSE IF p = 21 THEN {700, 800}
  ELSE IF p = 42 THEN {1000, 1500}
  ELSE {0}

BitOf(v, p) == IF p \in {5, 10, 22, 26, 33, 38} THEN Point(v, p) ELSE Trigger
OnOf(p) == p \in {5, 9, 22, 25, 33, 37}

After(p) == IF p \in {11, 27, 39} THEN Seams
            ELSE IF p = 42 THEN {31} ELSE {p + 1}

(* The time the step at p, followed by q, is sure to take.                 *)
Spent(p, q, ms) == IF p \in Timers THEN AwaitMs(q)
                   ELSE IF p \in Drives \cup Awaits THEN 0 ELSE ms

-----------------------------------------------------------------------------

Steps == [op : {"pause", "write", "post", "timer", "drive", "await"},
          bit : Nat, on : BOOLEAN, ms : Nat]

(* A step is the one of its place.                                         *)
Fits(step, v, p) ==
  /\ step \in Steps
  /\ step.op = OpOf(p)
  /\ step.ms \in MsOf(p)
  /\ p \in Writes => step.bit = BitOf(v, p) /\ step.on = OnOf(p)

(* A part of a program takes the places from p on.                         *)
Part(s, v, p, length) ==
  /\ s \in Seq(Steps)
  /\ Len(s) = length
  /\ \A i \in 1..length : Fits(s[i], v, p + i - 1)

LEMMA Joined ==
  ASSUME NEW s \in Seq(Steps), NEW t \in Seq(Steps)
  PROVE  /\ s \o t \in Seq(Steps)
         /\ Len(s \o t) = Len(s) + Len(t)
         /\ \A i \in 1..Len(s) : (s \o t)[i] = s[i]
         /\ \A i \in 1..Len(t) : (s \o t)[Len(s) + i] = t[i]
<1>1. /\ Len(s) \in Nat /\ Len(t) \in Nat
  OBVIOUS
<1>2. /\ s \o t \in Seq(Steps)
      /\ Len(s \o t) = Len(s) + Len(t)
      /\ \A i \in 1..(Len(s) + Len(t)) :
           (s \o t)[i] = IF i <= Len(s) THEN s[i] ELSE t[i - Len(s)]
  BY ConcatProperties, Zenon
<1>3. \A i \in 1..Len(s) : (s \o t)[i] = s[i]
  BY <1>1, <1>2
<1>4. \A i \in 1..Len(t) : (s \o t)[Len(s) + i] = t[i]
  BY <1>1, <1>2
<1> QED
  BY <1>2, <1>3, <1>4

LEMMA StepKinds ==
  /\ \A ms \in Nat : /\ Pause(ms) \in Steps
                     /\ Pause(ms).op = "pause" /\ Pause(ms).ms = ms
  /\ \A ms \in Nat : /\ Post(ms) \in Steps
                     /\ Post(ms).op = "post" /\ Post(ms).ms = ms
  /\ \A ms \in Nat : /\ Await(ms) \in Steps
                     /\ Await(ms).op = "await" /\ Await(ms).ms = ms
  /\ StartTimer \in Steps /\ StartTimer.op = "timer" /\ StartTimer.ms = 0
  /\ Drive \in Steps /\ Drive.op = "drive" /\ Drive.ms = 0
BY DEF Steps, Pause, Post, Await, StartTimer, Drive, Step

LEMMA FirePart ==
  ASSUME NEW v \in Visits, NEW p \in {9, 25, 37}, NEW hold \in MsOf(p + 1)
  PROVE  Part(Fire(Point(v, p), hold), v, p, 3)
<1> DEFINE pt == Point(v, p)
           a == Valve(Trigger, TRUE, 1000)
           b == Valve(pt, FALSE, hold)
           c == Valve(Trigger, FALSE, 0)
<1>0. hold \in Nat /\ pt \in Nat /\ 4 \in Nat
  BY DEF MsOf, Point, Visits
<1>1. Fits(a, v, p)
  <2>1. a \in Steps /\ a.op = "write" /\ a.bit = Trigger /\ a.ms = 1000
    BY DEF Valve, Steps, Trigger
  <2>2. a.on = TRUE
    BY DEF Valve
  <2>3. OpOf(p) = "write" /\ BitOf(v, p) = Trigger /\ 1000 \in MsOf(p)
    BY DEF OpOf, MsOf, BitOf, Writes, Moves
  <2>4. OnOf(p) = TRUE
    BY DEF OnOf
  <2> HIDE DEF a
  <2> QED BY <2>1, <2>2, <2>3, <2>4, Zenon DEF Fits
<1>2. Fits(b, v, p + 1)
  <2>1. b \in Steps /\ b.op = "write" /\ b.bit = pt /\ b.ms = hold
    BY <1>0 DEF Valve, Steps
  <2>2. b.on = FALSE
    BY DEF Valve
  <2>3. OpOf(p + 1) = "write" /\ BitOf(v, p + 1) = pt
    BY DEF OpOf, BitOf, Point, Writes, Moves
  <2>4. OnOf(p + 1) = FALSE
    BY DEF OnOf
  <2> HIDE DEF b, pt
  <2> QED BY <2>1, <2>2, <2>3, <2>4, Zenon DEF Fits
<1>3. Fits(c, v, p + 2)
  <2>1. c \in Steps /\ c.op = "write" /\ c.bit = Trigger /\ c.ms = 0
    BY DEF Valve, Steps, Trigger
  <2>2. c.on = FALSE
    BY DEF Valve
  <2>3. OpOf(p + 2) = "write" /\ BitOf(v, p + 2) = Trigger /\ 0 \in MsOf(p + 2)
    BY DEF OpOf, MsOf, BitOf, Writes, Moves
  <2>4. OnOf(p + 2) = FALSE
    BY DEF OnOf
  <2> HIDE DEF c
  <2> QED BY <2>1, <2>2, <2>3, <2>4, Zenon DEF Fits
<1>4. a \in Steps /\ b \in Steps /\ c \in Steps
  <2> HIDE DEF a, b, c, pt
  <2> QED BY <1>1, <1>2, <1>3, Zenon DEF Fits
<1>5. Fire(pt, hold) = <<a, b, c>>
  BY DEF Fire
<1> HIDE DEF pt, a, b, c
<1>6. <<a, b, c>> \in Seq(Steps) /\ Len(<<a, b, c>>) = 3
  BY <1>4
<1>7. \A i \in 1..3 : Fits(<<a, b, c>>[i], v, p + i - 1)
  <2> TAKE i \in 1..3
  <2>1. CASE i = 1
    <3>1. p + i - 1 = p
      BY <2>1
    <3> QED BY <1>1, <2>1, <3>1
  <2>2. CASE i = 2
    <3>1. p + i - 1 = p + 1
      BY <2>2
    <3> QED BY <1>2, <2>2, <3>1
  <2>3. CASE i = 3
    <3>1. p + i - 1 = p + 2
      BY <2>3
    <3> QED BY <1>3, <2>3, <3>1
  <2> QED BY <2>1, <2>2, <2>3
<1>8. Part(Fire(pt, hold), v, p, 3)
  BY <1>5, <1>6, <1>7 DEF Part
<1> QED
  BY <1>8 DEF pt

LEMMA FitsStep ==
  ASSUME NEW s, NEW v, NEW p, Fits(s, v, p)
  PROVE  s \in Steps
BY DEF Fits

LEMMA StepFits ==
  ASSUME NEW v \in Visits, NEW p \in Places, NEW ms \in MsOf(p)
  PROVE  /\ p \in Moves => Fits(Pause(ms), v, p)
         /\ p \in Posts => Fits(Post(ms), v, p)
         /\ p \in Awaits => Fits(Await(ms), v, p)
         /\ p \in Timers => Fits(StartTimer, v, p)
         /\ p \in Drives => Fits(Drive, v, p)
<1>1. ms \in Nat
  BY DEF MsOf
<1>2. ASSUME p \in Moves PROVE Fits(Pause(ms), v, p)
  <2>1. OpOf(p) = "pause" /\ p \notin Writes
    BY <1>2 DEF OpOf, Moves, Writes
  <2> QED BY <1>1, <2>1, StepKinds DEF Fits
<1>3. ASSUME p \in Posts PROVE Fits(Post(ms), v, p)
  <2>1. OpOf(p) = "post" /\ p \notin Writes
    BY <1>3 DEF OpOf, Moves, Writes, Posts
  <2> QED BY <1>1, <2>1, StepKinds DEF Fits
<1>4. ASSUME p \in Awaits PROVE Fits(Await(ms), v, p)
  <2>1. OpOf(p) = "await" /\ p \notin Writes
    BY <1>4 DEF OpOf, Moves, Writes, Posts, Timers, Drives, Awaits
  <2> QED BY <1>1, <2>1, StepKinds DEF Fits
<1>5. ASSUME p \in Timers PROVE Fits(StartTimer, v, p)
  <2>1. OpOf(p) = "timer" /\ p \notin Writes /\ MsOf(p) = {0}
    BY <1>5 DEF OpOf, Moves, Writes, Posts, Timers, MsOf
  <2> QED BY <1>1, <2>1, StepKinds DEF Fits
<1>6. ASSUME p \in Drives PROVE Fits(Drive, v, p)
  <2>1. OpOf(p) = "drive" /\ p \notin Writes /\ MsOf(p) = {0}
    BY <1>6 DEF OpOf, Moves, Writes, Posts, Timers, Drives, MsOf
  <2> QED BY <1>1, <2>1, StepKinds DEF Fits
<1> QED
  BY <1>2, <1>3, <1>4, <1>5, <1>6

(* Parts one after the other.                                              *)
LEMMA PartJoined ==
  ASSUME NEW v \in Visits, NEW p \in Nat, NEW m \in Nat, NEW k \in Nat,
         NEW s, NEW t, Part(s, v, p, m), Part(t, v, p + m, k)
  PROVE  Part(s \o t, v, p, m + k)
<1>1. s \in Seq(Steps) /\ t \in Seq(Steps) /\ Len(s) = m /\ Len(t) = k
  BY DEF Part
<1>2. s \o t \in Seq(Steps) /\ Len(s \o t) = m + k
  BY <1>1, Joined
<1>3. ASSUME NEW i \in 1..(m + k)
      PROVE  Fits((s \o t)[i], v, p + i - 1)
  <2>1. CASE i \in 1..m
    <3>1. (s \o t)[i] = s[i]
      BY <1>1, <2>1, Joined
    <3> QED
      BY <2>1, <3>1 DEF Part
  <2>2. CASE i \notin 1..m
    <3> DEFINE j == i - m
    <3>1. j \in 1..k /\ i = m + j /\ p + i - 1 = p + m + j - 1
      BY <2>2
    <3> HIDE DEF j
    <3>2. (s \o t)[i] = t[j]
      BY <1>1, <3>1, Joined
    <3>3. Fits(t[j], v, p + m + j - 1)
      BY <3>1 DEF Part
    <3> QED
      BY <3>1, <3>2, <3>3
  <2> QED
    BY <2>1, <2>2
<1> QED
  BY <1>2, <1>3 DEF Part

LEMMA ApproachPart ==
  ASSUME NEW v \in Visits
  PROVE  Part(Approach(v.pt), v, 1, 11)
<1> DEFINE a == Pause(50)
           b == Pause(1000)
           c == Pause(500)
           d == StartTimer
           e == Valve(v.pt, TRUE, 0)
           f == Drive
           g == Await(2000)
           h == <<a, b, c, d, e, f, g, b>>
<1>1. Fits(a, v, 1) /\ Fits(b, v, 2) /\ Fits(c, v, 3) /\ Fits(d, v, 4)
  BY StepFits DEF Places, Moves, Timers, MsOf
<1>2. Fits(e, v, 5)
  <2>1. e \in Steps /\ e.op = "write" /\ e.bit = v.pt /\ e.ms = 0
    BY DEF Valve, Steps, Visits, Point
  <2>2. e.on = TRUE
    BY DEF Valve
  <2>3. OpOf(5) = "write" /\ BitOf(v, 5) = v.pt /\ 0 \in MsOf(5)
    BY DEF OpOf, BitOf, Point, MsOf, Writes, Moves
  <2>4. OnOf(5) = TRUE
    BY DEF OnOf
  <2> HIDE DEF e
  <2> QED
    BY <2>1, <2>2, <2>3, <2>4, Zenon DEF Fits
<1>3. Fits(f, v, 6) /\ Fits(g, v, 7) /\ Fits(b, v, 8)
  BY StepFits DEF Places, Moves, Drives, Awaits, MsOf
<1>5. Approach(v.pt) = h \o Fire(v.pt, 500)
  BY DEF Approach
<1> HIDE DEF a, b, c, d, e, f, g
<1>4. a \in Steps /\ b \in Steps /\ c \in Steps /\ d \in Steps
      /\ e \in Steps /\ f \in Steps /\ g \in Steps
  BY <1>1, <1>2, <1>3, FitsStep
<1>6. h \in Seq(Steps) /\ Len(h) = 8
  BY <1>4
<1>7. \A i \in 1..8 : Fits(h[i], v, 1 + i - 1)
  BY <1>1, <1>2, <1>3
<1>8. Part(h, v, 1, 8)
  BY <1>6, <1>7 DEF Part
<1>9. Part(Fire(v.pt, 500), v, 9, 3)
  <2>1. v.pt = Point(v, 9) /\ 500 \in MsOf(9 + 1)
    BY DEF Point, MsOf
  <2> QED
    BY <2>1, FirePart
<1> HIDE DEF h
<1> QED
  BY <1>5, <1>8, <1>9, PartJoined

LEMMA AgainPart ==
  ASSUME NEW v \in Visits, NEW move \in {700, 800}
  PROVE  Part(Again(Point(v, 21), move), v, 21, 7)
<1> DEFINE a == Pause(move)
           b == Valve(Point(v, 21), TRUE, 500)
           c == Post(2500)
           d == Pause(1000)
           h == <<a, b, c, d>>
<1>0. Point(v, 21) = Point(v, 22) /\ Point(v, 21) = Point(v, 25)
  BY DEF Point
<1>1. Fits(a, v, 21) /\ Fits(c, v, 23) /\ Fits(d, v, 24)
  BY StepFits DEF Places, Moves, Posts, MsOf
<1>2. Fits(b, v, 22)
  <2>1. b \in Steps /\ b.op = "write" /\ b.bit = Point(v, 21) /\ b.ms = 500
    BY DEF Valve, Steps, Visits, Point
  <2>2. b.on = TRUE
    BY DEF Valve
  <2>3. OpOf(22) = "write" /\ BitOf(v, 22) = Point(v, 21) /\ 500 \in MsOf(22)
    BY DEF OpOf, BitOf, Point, MsOf, Writes, Moves
  <2>4. OnOf(22) = TRUE
    BY DEF OnOf
  <2> HIDE DEF b
  <2> QED
    BY <2>1, <2>2, <2>3, <2>4, Zenon DEF Fits
<1>5. Again(Point(v, 21), move) = h \o Fire(Point(v, 21), 500)
  BY DEF Again
<1> HIDE DEF a, b, c, d
<1>4. a \in Steps /\ b \in Steps /\ c \in Steps /\ d \in Steps
  BY <1>1, <1>2, FitsStep
<1>6. h \in Seq(Steps) /\ Len(h) = 4
  BY <1>4
<1>7. \A i \in 1..4 : Fits(h[i], v, 21 + i - 1)
  BY <1>1, <1>2
<1>8. Part(h, v, 21, 4)
  BY <1>6, <1>7 DEF Part
<1>9. Part(Fire(Point(v, 21), 500), v, 21 + 4, 3)
  <2>1. 500 \in MsOf(25 + 1)
    BY DEF MsOf
  <2> QED
    BY <1>0, <2>1, FirePart
<1> HIDE DEF h
<1>10. Part(h \o Fire(Point(v, 21), 500), v, 21, 4 + 3)
  BY <1>8, <1>9, PartJoined
<1> QED
  BY <1>5, <1>10, 4 + 3 = 7, Zenon

LEMMA SecondPart ==
  ASSUME NEW v \in Visits, v.pt = 0, NEW hold \in {500, 700}
  PROVE  Part(Second(hold), v, 31, 9)
<1> DEFINE a == Post(0)
           b == StartTimer
           c == Valve(3, TRUE, 0)
           d == Drive
           e == Await(3000)
           f == Pause(1000)
           h == <<a, b, c, d, e, f>>
<1>0. Point(v, 33) = 3 /\ Point(v, 37) = 3
  BY DEF Point
<1>1. Fits(a, v, 31) /\ Fits(b, v, 32) /\ Fits(d, v, 34)
  BY StepFits DEF Places, Timers, Posts, Drives, MsOf
<1>2. Fits(c, v, 33)
  <2>1. c \in Steps /\ c.op = "write" /\ c.bit = 3 /\ c.ms = 0
    BY DEF Valve, Steps, Visits, Point
  <2>2. c.on = TRUE
    BY DEF Valve
  <2>3. OpOf(33) = "write" /\ BitOf(v, 33) = 3 /\ 0 \in MsOf(33)
    BY DEF OpOf, BitOf, Point, MsOf, Writes, Moves
  <2>4. OnOf(33) = TRUE
    BY DEF OnOf
  <2> HIDE DEF c
  <2> QED
    BY <2>1, <2>2, <2>3, <2>4, Zenon DEF Fits
<1>3. Fits(e, v, 35) /\ Fits(f, v, 36)
  BY StepFits DEF Places, Awaits, Moves, MsOf
<1>5. Second(hold) = h \o Fire(3, hold)
  BY DEF Second
<1> HIDE DEF a, b, c, d, e, f
<1>4. a \in Steps /\ b \in Steps /\ c \in Steps /\ d \in Steps
      /\ e \in Steps /\ f \in Steps
  BY <1>1, <1>2, <1>3, FitsStep
<1>6. h \in Seq(Steps) /\ Len(h) = 6
  BY <1>4
<1>7. \A i \in 1..6 : Fits(h[i], v, 31 + i - 1)
  BY <1>1, <1>2, <1>3
<1>8. Part(h, v, 31, 6)
  BY <1>6, <1>7 DEF Part
<1>9. Part(Fire(3, hold), v, 37, 3)
  <2>1. hold \in MsOf(37 + 1)
    BY DEF MsOf
  <2> QED
    BY <1>0, <2>1, FirePart
<1> HIDE DEF h
<1> QED
  BY <1>5, <1>8, <1>9, PartJoined

(* The places of the m steps that follow the first n.                      *)
Runs(s, v, n, m) ==
  /\ s \in Seq(Steps)
  /\ Len(s) = m
  /\ \A i \in 1..m : Fits(s[i], v, Place(v, n + i))

(* These places are the k ones from p on.                                  *)
Lie(v, n, p, k) == \A i \in 1..k : Place(v, n + i) = p + i - 1

LEMMA PartRuns ==
  ASSUME NEW v \in Visits, NEW p \in Nat, NEW n \in Nat, NEW k \in Nat,
         NEW s, Part(s, v, p, k), Lie(v, n, p, k)
  PROVE  Runs(s, v, n, k)
<1>1. ASSUME NEW i \in 1..k
      PROVE  Fits(s[i], v, Place(v, n + i))
  <2>1. Place(v, n + i) = p + i - 1
    BY <1>1 DEF Lie
  <2>2. Fits(s[i], v, p + i - 1)
    BY <1>1 DEF Part
  <2> QED
    BY <2>1, <2>2
<1> QED
  BY <1>1 DEF Part, Runs

LEMMA RunsJoined ==
  ASSUME NEW v \in Visits, NEW n \in Nat, NEW m \in Nat, NEW k \in Nat,
         NEW s, NEW t, Runs(s, v, n, m), Runs(t, v, n + m, k)
  PROVE  Runs(s \o t, v, n, m + k)
<1>1. s \in Seq(Steps) /\ t \in Seq(Steps) /\ Len(s) = m /\ Len(t) = k
  BY DEF Runs
<1>2. s \o t \in Seq(Steps) /\ Len(s \o t) = m + k
  BY <1>1, Joined
<1>3. ASSUME NEW i \in 1..(m + k)
      PROVE  Fits((s \o t)[i], v, Place(v, n + i))
  <2>1. CASE i \in 1..m
    <3>1. (s \o t)[i] = s[i]
      BY <1>1, <2>1, Joined
    <3> QED
      BY <2>1, <3>1 DEF Runs
  <2>2. CASE i \notin 1..m
    <3> DEFINE j == i - m
    <3>1. j \in 1..k /\ i = m + j /\ n + i = (n + m) + j
      BY <2>2
    <3> HIDE DEF j
    <3>2. (s \o t)[i] = t[j]
      BY <1>1, <3>1, Joined
    <3>3. Fits(t[j], v, Place(v, (n + m) + j))
      BY <3>1 DEF Runs
    <3> QED
      BY <3>1, <3>2, <3>3
  <2> QED
    BY <2>1, <2>2
<1> QED
  BY <1>2, <1>3 DEF Runs

LEMMA ReturnRuns ==
  ASSUME NEW v \in Visits
  PROVE  Runs(Return, v, Size(v) - 3, 3)
<1> DEFINE a == Drive
           b == Pause(1000)
           c == Post(0)
<1>1. Fits(a, v, 51) /\ Fits(b, v, 52) /\ Fits(c, v, 53)
  BY StepFits DEF Places, Moves, Drives, Posts, MsOf
<1>2. Return = <<a, b, c>>
  BY DEF Return
<1> HIDE DEF a, b, c
<1>3. a \in Steps /\ b \in Steps /\ c \in Steps
  BY <1>1, FitsStep
<1>4. <<a, b, c>> \in Seq(Steps) /\ Len(<<a, b, c>>) = 3
  BY <1>3
<1>5. \A i \in 1..3 : Fits(<<a, b, c>>[i], v, 51 + i - 1)
  BY <1>1
<1>6. Part(Return, v, 51, 3)
  BY <1>2, <1>4, <1>5 DEF Part
<1>7. Size(v) - 3 \in Nat /\ Lie(v, Size(v) - 3, 51, 3)
  BY DEF Size, Place, Visits, Lie
<1> QED
  BY <1>6, <1>7, PartRuns

LEMMA ApproachRuns ==
  ASSUME NEW v \in Visits
  PROVE  Runs(Approach(v.pt), v, 0, 11)
<1>1. Lie(v, 0, 1, 11)
  BY DEF Place, Lie
<1> QED
  BY <1>1, ApproachPart, PartRuns

LEMMA AgainRuns ==
  ASSUME NEW v \in Visits, v.pt # 0, v.loop = 2
  PROVE  Runs(Again(v.pt, 700), v, 11, 7)
<1>1. Point(v, 21) = v.pt
  BY DEF Point
<1>2. Part(Again(v.pt, 700), v, 21, 7)
  BY <1>1, AgainPart
<1>3. Lie(v, 11, 21, 7)
  BY DEF Place, Size, Visits, Lie
<1> QED
  BY <1>2, <1>3, PartRuns

LEMMA PointZeroRuns ==
  ASSUME NEW v \in Visits, v.pt = 0
  PROVE  Runs(AtPointZero(v.side), v, 11, IF v.side THEN 25 ELSE 10)
<1>0. Point(v, 21) = 3 /\ v.side \in BOOLEAN
  BY DEF Point, Visits
<1>1. CASE v.side
  <2> DEFINE a == Pause(800)
             b == Pause(1000)
             h == <<a, b>>
             all == ((h \o Second(700)) \o Again(3, 800)) \o Again(3, 800)
  <2>1. Fits(a, v, 41) /\ Fits(b, v, 42)
    BY StepFits DEF Places, Moves, MsOf
  <2>2. AtPointZero(v.side) = all
    BY <1>1 DEF AtPointZero
  <2> HIDE DEF a, b
  <2>3. a \in Steps /\ b \in Steps
    BY <2>1, FitsStep
  <2>4. h \in Seq(Steps) /\ Len(h) = 2
    BY <2>3
  <2>5. Place(v, 11 + 1) = 41 /\ Place(v, 11 + 2) = 42
    BY <1>1 DEF Place, Size
  <2>6. \A i \in 1..2 : Fits(h[i], v, Place(v, 11 + i))
    BY <2>1, <2>5
  <2>7. Runs(h, v, 11, 2)
    BY <2>4, <2>6 DEF Runs
  <2> HIDE DEF h
  <2>8. Runs(Second(700), v, 13, 9)
    <3>1. Lie(v, 13, 31, 9)
      BY <1>1 DEF Place, Size, Lie
    <3> QED
      BY <3>1, SecondPart, PartRuns
  <2>9. Part(Again(3, 800), v, 21, 7)
    BY <1>0, AgainPart
  <2>10. Runs(Again(3, 800), v, 22, 7)
    <3>1. Lie(v, 22, 21, 7)
      BY <1>1 DEF Place, Size, Lie
    <3> QED
      BY <2>9, <3>1, PartRuns
  <2>11. Runs(Again(3, 800), v, 29, 7)
    <3>1. Lie(v, 29, 21, 7)
      BY <1>1 DEF Place, Size, Lie
    <3> QED
      BY <2>9, <3>1, PartRuns
  <2>12. Runs(h \o Second(700), v, 11, 2 + 9)
    BY <2>7, <2>8, RunsJoined
  <2>13. Runs((h \o Second(700)) \o Again(3, 800), v, 11, 11 + 7)
    BY <2>12, <2>10, RunsJoined
  <2>14. Runs(all, v, 11, 18 + 7)
    BY <2>13, <2>11, RunsJoined
  <2> HIDE DEF all
  <2>15. 18 + 7 = 25
    OBVIOUS
  <2>16. (IF v.side THEN 25 ELSE 10) = 25
    BY <1>1
  <2>17. Runs(all, v, 11, 25)
    BY <2>14, <2>15
  <2> QED
    BY <2>2, <2>16, <2>17, Zenon
<1>2. CASE ~v.side
  <2> DEFINE a == Pause(1500)
             h == <<a>>
  <2>1. Fits(a, v, 42)
    BY StepFits DEF Places, Moves, MsOf
  <2>2. AtPointZero(v.side) = h \o Second(500)
    BY <1>2 DEF AtPointZero
  <2> HIDE DEF a
  <2>3. a \in Steps
    BY <2>1, FitsStep
  <2>4. h \in Seq(Steps) /\ Len(h) = 1
    BY <2>3
  <2>5. Place(v, 11 + 1) = 42
    BY <1>2 DEF Place, Size
  <2>6. \A i \in 1..1 : Fits(h[i], v, Place(v, 11 + i))
    BY <2>1, <2>5
  <2>7. Runs(h, v, 11, 1)
    BY <2>4, <2>6 DEF Runs
  <2> HIDE DEF h
  <2>8. Runs(Second(500), v, 12, 9)
    <3>1. Lie(v, 12, 31, 9)
      BY <1>2 DEF Place, Size, Lie
    <3> QED
      BY <3>1, SecondPart, PartRuns
  <2>9. Runs(h \o Second(500), v, 11, 1 + 9)
    BY <2>7, <2>8, RunsJoined
  <2>10. 1 + 9 = 10 /\ (IF v.side THEN 25 ELSE 10) = 10
    BY <1>2
  <2> QED
    BY <2>2, <2>9, <2>10, Zenon
<1> QED
  BY <1>0, <1>1, <1>2

LEMMA NoSteps == \A v \in Visits, n \in Nat : Runs(<< >>, v, n, 0)
BY DEF Runs

(* Every program is as long as it should be, and every step in its place.  *)
LEMMA ProgramRuns ==
  ASSUME NEW v \in Visits
  PROVE  Runs(Program[v], v, 0, Size(v))
<1> DEFINE again == IF v.loop = 2 THEN Again(v.pt, 700) ELSE << >>
           zero  == IF v.pt = 0 THEN AtPointZero(v.side) ELSE << >>
           k == IF v.loop = 2 THEN 7 ELSE 0
           m == IF v.pt # 0 THEN 0 ELSE IF v.side THEN 25 ELSE 10
<1>1. Program[v] = ((Approach(v.pt) \o again) \o zero) \o Return
  BY DEF Program
<1>2. v.pt = 0 => v.loop = 1
  BY DEF Visits
<1>3. Runs(again, v, 11, k)
  <2>1. CASE v.loop = 2
    BY <1>2, <2>1, AgainRuns
  <2>2. CASE v.loop # 2
    BY <2>2, NoSteps
  <2> QED
    BY <2>1, <2>2
<1>4. Runs(zero, v, 11 + k, m)
  <2>1. CASE v.pt = 0
    <3>1. v.loop # 2 /\ 11 + 0 = 11
      BY <1>2, <2>1
    <3>2. Runs(AtPointZero(v.side), v, 11, IF v.side THEN 25 ELSE 10)
      BY <2>1, PointZeroRuns
    <3> QED
      BY <2>1, <3>1, <3>2, Zenon
  <2>2. CASE v.pt # 0
    <3>1. 11 + k \in Nat
      OBVIOUS
    <3> QED
      BY <2>2, <3>1, NoSteps, Zenon
  <2> QED
    BY <2>1, <2>2
<1>5. k \in Nat /\ m \in Nat /\ 11 + k \in Nat /\ 0 + 11 = 11 /\ 0 + (11 + k) = 11 + k
      /\ 11 + k + m = Size(v) - 3 /\ 11 + k + m \in Nat
  BY DEF Size, Visits
<1> HIDE DEF again, zero, k, m
<1>6. Runs(Approach(v.pt) \o again, v, 0, 11 + k)
  BY <1>3, <1>5, ApproachRuns, RunsJoined
<1>7. Runs((Approach(v.pt) \o again) \o zero, v, 0, 11 + k + m)
  BY <1>4, <1>5, <1>6, RunsJoined
<1>8. Runs(((Approach(v.pt) \o again) \o zero) \o Return, v, 0, Size(v) - 3 + 3)
  <2>1. Runs(Return, v, 0 + (Size(v) - 3), 3) /\ Size(v) - 3 \in Nat
    BY <1>5, ReturnRuns
  <2> QED
    BY <1>5, <1>7, <2>1, RunsJoined
<1>9. Size(v) - 3 + 3 = Size(v)
  BY DEF Size
<1> QED
  BY <1>1, <1>8, <1>9, Zenon

(* Lengths of time in the program.                                         *)
Waits == {ms \in Nat : 50 * (ms \div 50) = ms}

LEMMA WaitsAdd ==
  ASSUME NEW a \in Waits, NEW b \in Waits
  PROVE  a + b \in Waits
<1> DEFINE i == a \div 50
           j == b \div 50
           c == a + b
<1>1. a \in Nat /\ b \in Nat /\ 50 * i = a /\ 50 * j = b
  BY Zenon DEF Waits
<1>2. i \in Int /\ j \in Int
  BY <1>1
<1>3. c \in Nat
  BY <1>1
<1> HIDE DEF i, j
<1>4. c = 50 * (i + j) /\ i + j \in Int
  BY <1>1, <1>2
<1>5. \A n \in Int : (50 * n) \div 50 = n
  OBVIOUS
<1>6. 50 * (c \div 50) = c
  BY <1>4, <1>5
<1> HIDE DEF c
<1>7. c \in Waits
  BY <1>3, <1>6, Zenon DEF Waits
<1> QED
  BY <1>7 DEF c

LEMMA Multiples ==
  ASSUME NEW u \in {1, 2, 5, 10, 25, 50},
         \A a \in Waits : Units(a) = u * (a \div 50)
  PROVE  /\ \A a \in Waits : Units(a) \in Nat
         /\ \A a, b \in Waits : a <= b => Units(a) <= Units(b)
         /\ \A a, b \in Waits : a + b \in Waits => Units(a + b) = Units(a) + Units(b)
         /\ Units(0) = 0
<1>1. \A a \in Waits : a \div 50 \in Nat /\ a = 50 * (a \div 50)
  BY DEF Waits
<1>2. \A a \in Waits : Units(a) \in Nat
  BY <1>1
<1>3. ASSUME NEW a \in Waits, NEW b \in Waits, a <= b
      PROVE  Units(a) <= Units(b)
  <2> DEFINE i == a \div 50
             j == b \div 50
  <2>1. i \in Nat /\ j \in Nat /\ a = 50 * i /\ b = 50 * j
    BY <1>1
  <2>2. Units(a) = u * i /\ Units(b) = u * j
    OBVIOUS
  <2> HIDE DEF i, j
  <2>3. i <= j
    BY <1>3, <2>1
  <2> QED
    BY <2>1, <2>2, <2>3
<1>4. ASSUME NEW a \in Waits, NEW b \in Waits, a + b \in Waits
      PROVE  Units(a + b) = Units(a) + Units(b)
  <2> DEFINE i == a \div 50
             j == b \div 50
             k == (a + b) \div 50
  <2>1. i \in Nat /\ j \in Nat /\ k \in Nat /\ a = 50 * i /\ b = 50 * j /\ a + b = 50 * k
    BY <1>1, <1>4
  <2>2. Units(a) = u * i /\ Units(b) = u * j /\ Units(a + b) = u * k
    BY <1>4
  <2> HIDE DEF i, j, k
  <2>3. k = i + j
    BY <2>1
  <2> QED
    BY <2>1, <2>2, <2>3
<1>5. Units(0) = 0
  <2>1. 0 \in Waits /\ 0 \div 50 = 0
    BY DEF Waits
  <2> QED
    BY <2>1
<1> QED
  BY <1>2, <1>3, <1>4, <1>5

LEMMA Rules ==
  ASSUME Timely
  PROVE  /\ Unit \in Nat \ {0} /\ Late \in Nat
         /\ \A a \in Waits : Units(a) \in Nat
         /\ \A a, b \in Waits : a <= b => Units(a) <= Units(b)
         /\ \A a, b \in Waits : a + b \in Waits => Units(a + b) = Units(a) + Units(b)
         /\ Units(0) = 0 /\ Units(500) > 5 * Late
         /\ Units(5300) + 8 * Late < Units(6000)
         /\ Units(2800) + 5 * Late < Units(3500)
<1>1. Unit \in Nat \ {0} /\ Late \in Nat
  BY ScheduleAssumption
<1>2. Unit \in {1, 2, 5, 10, 25, 50}
  <2>1. Unit <= 50
    BY <1>1 DEF Timely
  <2> QED
    BY <1>1, <2>1 DEF Timely
<1>3. CASE Unit = 1
  <2>1. \A a \in Waits : Units(a) = 50 * (a \div 50)
    BY <1>3 DEF Units, Waits
  <2>2. Units(500) > 5 * Late /\ Units(5300) + 8 * Late < Units(6000)
        /\ Units(2800) + 5 * Late < Units(3500)
    BY <1>1, <1>3 DEF Units, Timely
  <2> QED
    BY <1>1, <2>1, <2>2, Multiples
<1>4. CASE Unit = 2
  <2>1. \A a \in Waits : Units(a) = 25 * (a \div 50)
    BY <1>4 DEF Units, Waits
  <2>2. Units(500) > 5 * Late /\ Units(5300) + 8 * Late < Units(6000)
        /\ Units(2800) + 5 * Late < Units(3500)
    BY <1>1, <1>4 DEF Units, Timely
  <2> QED
    BY <1>1, <2>1, <2>2, Multiples
<1>5. CASE Unit = 5
  <2>1. \A a \in Waits : Units(a) = 10 * (a \div 50)
    BY <1>5 DEF Units, Waits
  <2>2. Units(500) > 5 * Late /\ Units(5300) + 8 * Late < Units(6000)
        /\ Units(2800) + 5 * Late < Units(3500)
    BY <1>1, <1>5 DEF Units, Timely
  <2> QED
    BY <1>1, <2>1, <2>2, Multiples
<1>6. CASE Unit = 10
  <2>1. \A a \in Waits : Units(a) = 5 * (a \div 50)
    BY <1>6 DEF Units, Waits
  <2>2. Units(500) > 5 * Late /\ Units(5300) + 8 * Late < Units(6000)
        /\ Units(2800) + 5 * Late < Units(3500)
    BY <1>1, <1>6 DEF Units, Timely
  <2> QED
    BY <1>1, <2>1, <2>2, Multiples
<1>7. CASE Unit = 25
  <2>1. \A a \in Waits : Units(a) = 2 * (a \div 50)
    BY <1>7 DEF Units, Waits
  <2>2. Units(500) > 5 * Late /\ Units(5300) + 8 * Late < Units(6000)
        /\ Units(2800) + 5 * Late < Units(3500)
    BY <1>1, <1>7 DEF Units, Timely
  <2> QED
    BY <1>1, <2>1, <2>2, Multiples
<1>8. CASE Unit = 50
  <2>1. \A a \in Waits : Units(a) = 1 * (a \div 50)
    BY <1>8 DEF Units, Waits
  <2>2. Units(500) > 5 * Late /\ Units(5300) + 8 * Late < Units(6000)
        /\ Units(2800) + 5 * Late < Units(3500)
    BY <1>1, <1>8 DEF Units, Timely
  <2> QED
    BY <1>1, <2>1, <2>2, Multiples
<1> QED
  BY <1>2, <1>3, <1>4, <1>5, <1>6, <1>7, <1>8

LEMMA PlaceNext ==
  ASSUME NEW v \in Visits, NEW n \in 1..Size(v)
  PROVE  /\ Place(v, n) \in Places \ {54}
         /\ Place(v, n + 1) \in After(Place(v, n))
         /\ Place(v, n + 1) \in Places
         /\ n <= 4 => Place(v, n) = n
<1>1. Size(v) \in {14, 21, 24, 39}
  BY DEF Size
<1>2. CASE v.pt # 0
  <2>1. Size(v) = 14 \/ Size(v) = 21
    BY <1>2 DEF Size
  <2> QED
    BY <1>2, <2>1 DEF Place, Places, After, Seams
<1>3. CASE v.pt = 0 /\ ~v.side
  <2>1. Size(v) = 24
    BY <1>3 DEF Size
  <2> QED
    BY <1>3, <2>1 DEF Place, Places, After, Seams
<1>4. CASE v.pt = 0 /\ v.side
  <2>1. Size(v) = 39
    BY <1>4 DEF Size
  <2> QED
    BY <1>4, <2>1 DEF Place, Places, After, Seams
<1> QED
  BY <1>2, <1>3, <1>4

LEMMA PlaceEnds ==
  ASSUME NEW v \in Visits
  PROVE  Size(v) \in Nat /\ Size(v) >= 14 /\ Place(v, 0) = 54 /\ Place(v, Size(v) + 1) = 54
         /\ Place(v, 1) = 1
BY DEF Size, Place

LEMMA Lengths ==
  ASSUME NEW p \in Places
  PROVE  /\ ToPost(p) \in Waits /\ ToShot(p) \in Waits /\ ToWrite(p) \in Waits
         /\ ToPost(p) <= 7050 /\ ToShot(p) <= 7050 /\ ToWrite(p) <= 7050
         /\ AwaitMs(p) \in Waits /\ AwaitMs(p) <= 3000
         /\ \A ms \in MsOf(p) : ms \in Waits /\ ms <= 3000
<1>1. ToPost(p) \in Waits /\ ToPost(p) <= 7050
  BY DEF Places, ToPost, Waits
<1>2. /\ ToShot(p) \in Waits /\ ToWrite(p) \in Waits
      /\ ToShot(p) <= 7050 /\ ToWrite(p) <= 7050
  BY DEF Places, ToShot, ToWrite, Waits
<1>3. \A ms \in MsOf(p) : ms \in Waits /\ ms <= 3000
  BY DEF Places, MsOf, Waits
<1>4. AwaitMs(p) \in Waits /\ AwaitMs(p) <= 3000
  BY DEF AwaitMs, Waits
<1> QED
  BY <1>1, <1>2, <1>3, <1>4

(* What the bounds of a place owe to those of the next.                    *)
LEMMA Ahead ==
  ASSUME NEW p \in Places \ {54}, NEW q \in After(p), NEW ms \in MsOf(p)
  PROVE  /\ Spent(p, q, ms) \in Waits /\ Spent(p, q, ms) <= 3000
         /\ p \notin Posts => ToPost(p) <= Spent(p, q, ms) + ToPost(q)
         /\ (Asked(p) \/ p = 23) => ToShot(p) <= Spent(p, q, ms) + ToShot(q)
         /\ p \notin {5, 32, 33} => ToWrite(p) <= Spent(p, q, ms) + ToWrite(q)
<1>1. Spent(p, q, ms) \in Waits /\ Spent(p, q, ms) <= 3000
  BY DEF Places, Spent, MsOf, Waits, AwaitMs, Timers, Drives, Awaits
<1>2. p \notin Posts => ToPost(p) <= Spent(p, q, ms) + ToPost(q)
  BY DEF Places, After, Seams, MsOf, Spent, AwaitMs, Timers, Drives, Awaits, Posts, ToPost
<1>3. (Asked(p) \/ p = 23) => ToShot(p) <= Spent(p, q, ms) + ToShot(q)
  BY DEF Places, After, Seams, MsOf, Spent, AwaitMs, Timers, Drives, Awaits, Asked, ToShot
<1>4. p \notin {5, 32, 33} => ToWrite(p) <= Spent(p, q, ms) + ToWrite(q)
  BY DEF Places, After, Seams, MsOf, Spent, AwaitMs, Timers, Drives, Awaits, ToShot, ToWrite
<1> QED
  BY <1>1, <1>2, <1>3, <1>4

(* What holds of a step after a request.                                   *)
LEMMA AfterPost ==
  ASSUME NEW p \in Posts, NEW q \in After(p), NEW ms \in MsOf(p)
  PROVE  /\ ToPost(p) = 0 /\ ~Timed(p) /\ ~Timed(q) /\ ~Asked(p) /\ Asked(q)
         /\ 6000 <= ms + ToPost(q) /\ 3500 <= ms + ToShot(q)
         /\ q = 32 \/ 500 <= ms + ToWrite(q)
         /\ q \notin {5, 33}
         /\ \A v : Held(v, q) = Held(v, p)
BY DEF Posts, After, MsOf, ToPost, ToShot, ToWrite, Timed, Asked, Held, Primed, Point

(* The Timer, the requests and the launch points from a place to the next. *)
LEMMA Along ==
  ASSUME NEW p \in Places \ {54}, NEW q \in After(p)
  PROVE  /\ p \in Moves \cup Writes \cup Drives =>
              (Timed(p) <=> Timed(q)) /\ (Timed(p) => AwaitMs(p) = AwaitMs(q))
         /\ p \in Timers => ~Timed(p) /\ Timed(q)
         /\ p \in Awaits => Timed(p) /\ ~Timed(q)
         /\ p \notin Posts /\ Asked(q) => Asked(p)
         /\ p \notin Posts \cup {9, 25, 37} /\ Asked(p) => Asked(q)
         /\ p \in {9, 25, 37} => ~Asked(q) /\ ToShot(p) = 0 /\ ~Timed(p)
         /\ Primed(q) /\ ~Primed(p) => p \in {5, 22, 33}
         /\ q \in {5, 33} => p \in Timers
         /\ q = 32 => p \in Posts
         /\ q = 33 => p = 32
         /\ q = 5 => p = 4 /\ ToWrite(p) = 0
<1> USE DEF Places, After, Seams
<1>1. p \in Moves \cup Writes \cup Drives =>
        (Timed(p) <=> Timed(q)) /\ (Timed(p) => AwaitMs(p) = AwaitMs(q))
  BY DEF Moves, Writes, Drives, Timed, AwaitMs
<1>2. /\ p \in Timers => ~Timed(p) /\ Timed(q)
      /\ p \in Awaits => Timed(p) /\ ~Timed(q)
  BY DEF Timers, Awaits, Timed
<1>3. p \notin Posts /\ Asked(q) => Asked(p)
  BY DEF Posts, Asked
<1>4. p \notin Posts \cup {9, 25, 37} /\ Asked(p) => Asked(q)
  BY DEF Posts, Asked
<1>5. p \in {9, 25, 37} => ~Asked(q) /\ ToShot(p) = 0 /\ ~Timed(p)
  BY DEF Asked, ToShot, Timed
<1>6. Primed(q) /\ ~Primed(p) => p \in {5, 22, 33}
  BY DEF Primed
<1>7. /\ q \in {5, 33} => p \in Timers
      /\ q = 32 => p \in Posts
      /\ q = 33 => p = 32
      /\ q = 5 => p = 4 /\ ToWrite(p) = 0
  BY DEF Timers, Posts, ToWrite
<1> QED
  BY <1>1, <1>2, <1>3, <1>4, <1>5, <1>6, <1>7

LEMMA Owed ==
  ASSUME Timely, NEW p \in Places \ {54}, NEW q \in After(p), q \in Places,
         NEW ms \in MsOf(p), NEW w \in Nat, NEW rest \in Nat,
         rest >= Units(Spent(p, q, ms)) + w
  PROVE  /\ p \notin Posts => w + Units(ToPost(p)) <= rest + Units(ToPost(q))
         /\ (Asked(p) \/ p = 23) => w + Units(ToShot(p)) <= rest + Units(ToShot(q))
         /\ p \notin {5, 32, 33} => w + Units(ToWrite(p)) <= rest + Units(ToWrite(q))
<1> DEFINE d == Spent(p, q, ms)
<1>1. ASSUME NEW a \in Waits, NEW b \in Waits, b <= 7050, a <= d + b
      PROVE  w + Units(a) <= rest + Units(b)
  <2>1. d \in Waits /\ d <= 3000 /\ rest >= Units(d) + w
    BY Ahead
  <2> HIDE DEF d
  <2>2. d + b \in Waits
    BY <2>1, WaitsAdd
  <2>3. Units(a) <= Units(d + b) /\ Units(d + b) = Units(d) + Units(b)
    BY <1>1, <2>1, <2>2, Rules
  <2>4. Units(a) \in Nat /\ Units(b) \in Nat /\ Units(d) \in Nat
    BY <1>1, <2>1, Rules
  <2> QED
    BY <2>1, <2>3, <2>4
<1>2. /\ ToPost(p) \in Waits /\ ToShot(p) \in Waits /\ ToWrite(p) \in Waits
      /\ ToPost(q) \in Waits /\ ToShot(q) \in Waits /\ ToWrite(q) \in Waits
      /\ ToPost(q) <= 7050 /\ ToShot(q) <= 7050 /\ ToWrite(q) <= 7050
  BY Lengths
<1>3. /\ p \notin Posts => ToPost(p) <= d + ToPost(q)
      /\ (Asked(p) \/ p = 23) => ToShot(p) <= d + ToShot(q)
      /\ p \notin {5, 32, 33} => ToWrite(p) <= d + ToWrite(q)
  BY Ahead
<1> HIDE DEF d
<1> QED
  BY <1>1, <1>2, <1>3

-----------------------------------------------------------------------------
(* Where the threads are.                                                  *)

LEMMA Here ==
  ASSUME TypeOK
  PROVE  /\ visit \in Visits /\ Script("table") = Program[visit]
         /\ Len(Program[visit]) = Size(visit) /\ DOMAIN Program[visit] = 1..Size(visit)
         /\ pc["table"] \in 0..(Size(visit) + 1) /\ here \in Places
         /\ pc["table"] \in {0, Size(visit) + 1} => here = 54
         /\ pc["table"] \in 1..Size(visit) =>
              /\ here \in Places \ {54}
              /\ Place(visit, pc["table"] + 1) \in After(here)
              /\ Place(visit, pc["table"] + 1) \in Places
              /\ Fits(Current("table"), visit, here)
         /\ pc["table"] \in 0..4 => here \in 1..4 \cup {54}
<1>1. visit \in Visits /\ Script("table") = Program[visit]
  BY DEF TypeOK, Script
<1>2. Runs(Program[visit], visit, 0, Size(visit))
  BY <1>1, ProgramRuns
<1>3. Len(Program[visit]) = Size(visit) /\ DOMAIN Program[visit] = 1..Size(visit)
  BY <1>2 DEF Runs
<1>4. pc["table"] \in 0..(Size(visit) + 1)
  BY <1>3 DEF TypeOK
<1>5. pc["table"] \in {0, Size(visit) + 1} => here = 54
  BY <1>1, PlaceEnds DEF here
<1>6. ASSUME pc["table"] \in 1..Size(visit)
      PROVE  /\ here \in Places \ {54}
             /\ Place(visit, pc["table"] + 1) \in After(here)
             /\ Place(visit, pc["table"] + 1) \in Places
             /\ Fits(Current("table"), visit, here)
             /\ pc["table"] <= 4 => here = pc["table"]
  <2>1. Fits(Program[visit][pc["table"]], visit, Place(visit, 0 + pc["table"]))
    BY <1>2, <1>6 DEF Runs
  <2>2. 0 + pc["table"] = pc["table"]
    BY <1>6, <1>1, PlaceEnds
  <2>3. Fits(Current("table"), visit, here)
    BY <1>1, <2>1, <2>2 DEF Current, here
  <2> QED
    BY <1>1, <1>6, <2>3, PlaceNext DEF here
<1>7. here \in Places
  <2>1. 54 \in Places
    BY DEF Places
  <2>2. pc["table"] \in 1..Size(visit) \/ pc["table"] \in {0, Size(visit) + 1}
    BY <1>1, <1>4, PlaceEnds
  <2> QED
    BY <1>5, <1>6, <2>1, <2>2
<1>8. pc["table"] \in 0..4 => here \in 1..4 \cup {54}
  <2>1. CASE pc["table"] = 0
    BY <1>5, <2>1
  <2>2. CASE pc["table"] \in 1..4
    BY <1>1, <1>6, <2>2, PlaceEnds
  <2> QED
    BY <2>1, <2>2
<1> QED
  BY <1>1, <1>3, <1>4, <1>5, <1>6, <1>7, <1>8

LEMMA OpsAt ==
  ASSUME TypeOK, NEW n \in 1..Size(visit)
  PROVE  OpAt("table", n) = OpOf(Place(visit, n))
<1>1. Fits(Program[visit][n], visit, Place(visit, 0 + n))
  BY Here, ProgramRuns DEF Runs
<1>2. 0 + n = n
  BY Here, PlaceEnds
<1> QED
  BY <1>1, <1>2, Here DEF OpAt, Fits

LEMMA Ops ==
  ASSUME TypeOK
  PROVE  /\ pc["table"] \in 1..Size(visit) =>
              /\ OpAt("table", pc["table"]) = OpOf(here)
              /\ OpAt("table", pc["table"] + 1) = OpOf(Place(visit, pc["table"] + 1))
         /\ pc["table"] \notin 1..Size(visit) => OpAt("table", pc["table"]) = "end"
<1>1. \A n \in 1..Size(visit) : OpAt("table", n) = OpOf(Place(visit, n))
  BY OpsAt
<1>2. OpAt("table", Size(visit) + 1) = OpOf(Place(visit, Size(visit) + 1))
  <2>1. OpOf(54) = "end"
    BY DEF OpOf, Moves, Writes, Posts, Timers, Drives, Awaits
  <2>2. OpAt("table", Size(visit) + 1) = "end"
    BY Here, PlaceEnds DEF OpAt
  <2> QED
    BY <2>1, <2>2, Here, PlaceEnds
<1>3. pc["table"] \in 1..Size(visit) =>
        pc["table"] + 1 \in 1..Size(visit) \/ pc["table"] + 1 = Size(visit) + 1
  BY Here, PlaceEnds
<1>4. pc["table"] \notin 1..Size(visit) => OpAt("table", pc["table"]) = "end"
  BY Here DEF OpAt
<1> QED
  BY <1>1, <1>2, <1>3, <1>4 DEF here

(* MoveForwardTable goes on to the next step, and no sooner than it should.*)
Onward(ms) ==
  /\ pc["table"] \in 1..Size(visit) /\ left["table"] = 0 /\ cpu \in {"table", Shared}
  /\ visit' = visit /\ doReloadPt' = doReloadPt
  /\ pc' = [pc EXCEPT !["table"] = @ + 1]
  /\ left' \in [Threads -> 0..(Units(3000) + Late)]
  /\ left'["rel"] = left["rel"]
  /\ ms \in MsOf(here)
  /\ timer' \in 0..TimerMax
  /\ left'["table"] + Wait(here', timer')
       >= Units(Spent(here, here', ms)) + Wait(here, timer)
  /\ Timed(here') => left'["table"] = 0
  /\ here' \in {5, 33} => timer' = 0
  /\ here' = 33 => cpu' = "table"
  /\ cpu' \in {"table", Shared}

LEMMA AtTable ==
  ASSUME TypeOK, NEW op, AtStep("table", op)
  PROVE  /\ pc["table"] \in 1..Size(visit) /\ left["table"] = 0
         /\ cpu \in {"table", Shared} /\ OpOf(here) = op
         /\ here \in Places \ {54}
         /\ Place(visit, pc["table"] + 1) \in After(here)
         /\ Place(visit, pc["table"] + 1) \in Places
         /\ Fits(Current("table"), visit, here)
BY Here, Ops DEF AtStep, Running

LEMMA OpPlaces ==
  ASSUME NEW p \in Places
  PROVE  /\ OpOf(p) = "pause" => p \in Moves
         /\ OpOf(p) = "write" => p \in Writes
         /\ OpOf(p) = "post" => p \in Posts
         /\ OpOf(p) = "timer" => p \in Timers
         /\ OpOf(p) = "drive" => p \in Drives
         /\ OpOf(p) = "await" => p \in Awaits
         /\ OpOf(p) \in {"drive", "await", "end"} => p \in Drives \cup Awaits \cup {54}
         /\ p \in Writes => OpOf(p) = "write"
BY DEF OpOf, Places, Moves, Writes, Posts, Timers, Drives, Awaits

LEMMA Goes ==
  ASSUME Timely, TypeOK, pc["table"] \in 1..Size(visit), left["table"] = 0,
         NEW units \in 0..Units(3000), NextStep("table", units)
  PROVE  /\ pc' = [pc EXCEPT !["table"] = @ + 1]
         /\ pc'["table"] = pc["table"] + 1
         /\ left' \in [Threads -> 0..(Units(3000) + Late)]
         /\ left'["rel"] = left["rel"]
         /\ left'["table"] >= units
         /\ units = 0 => left'["table"] = 0
         /\ cpu' \in {"table", Shared}
         /\ units = 0 /\ OpAt("table", pc["table"] + 1) \notin {"drive", "await", "end"}
              => cpu' = "table"
<1>0. Late \in Nat /\ Units(3000) \in Nat
  <2>1. 3000 \in Waits
    BY DEF Waits
  <2> QED
    BY <2>1, Rules
<1>1. pc \in [Threads -> Nat] /\ left \in [Threads -> 0..(Units(3000) + Late)]
      /\ "table" \in Threads
  BY DEF TypeOK, Threads
<1>2. pc' = [pc EXCEPT !["table"] = @ + 1] /\ pc'["table"] = pc["table"] + 1
  BY <1>1 DEF NextStep
<1>3. cpu' \in {"table", Shared}
      /\ (units = 0 /\ OpAt("table", pc["table"] + 1) \notin {"drive", "await", "end"}
              => cpu' = "table")
  BY DEF NextStep
<1>4. CASE units = 0
  <2>1. left' = left
    BY <1>4 DEF NextStep
  <2> QED
    BY <1>0, <1>1, <1>2, <1>3, <1>4, <2>1
<1>5. CASE units # 0
  <2>1. PICK late \in 0..Late : left' = [left EXCEPT !["table"] = units + late]
    BY <1>5 DEF NextStep
  <2>2. left'["table"] = units + late /\ left'["rel"] = left["rel"]
    BY <1>1, <2>1 DEF Threads
  <2>3. units + late \in 0..(Units(3000) + Late) /\ units + late >= units
    BY <1>0, <2>1
  <2>4. left' \in [Threads -> 0..(Units(3000) + Late)]
    BY <1>1, <2>1, <2>3
  <2> QED
    BY <1>2, <1>3, <1>5, <2>2, <2>3, <2>4
<1> QED
  BY <1>4, <1>5

LEMMA GoesOn ==
  ASSUME Timely, TypeOK, NEW op, AtStep("table", op),
         NEW units \in 0..Units(3000), NextStep("table", units), visit' = visit
  PROVE  /\ pc["table"] \in 1..Size(visit) /\ left["table"] = 0
         /\ cpu \in {"table", Shared}
         /\ here \in Places \ {54} /\ OpOf(here) = op
         /\ Fits(Current("table"), visit, here)
         /\ here' \in After(here) /\ here' \in Places
         /\ pc' = [pc EXCEPT !["table"] = @ + 1]
         /\ left' \in [Threads -> 0..(Units(3000) + Late)]
         /\ left'["table"] \in Nat /\ left'["rel"] = left["rel"]
         /\ left'["table"] >= units
         /\ units = 0 => left'["table"] = 0
         /\ cpu' \in {"table", Shared}
         /\ units = 0 /\ OpOf(here') \notin {"drive", "await", "end"} => cpu' = "table"
<1>1. /\ pc["table"] \in 1..Size(visit) /\ left["table"] = 0
      /\ cpu \in {"table", Shared}
      /\ here \in Places \ {54} /\ OpOf(here) = op
      /\ Fits(Current("table"), visit, here)
      /\ Place(visit, pc["table"] + 1) \in After(here)
      /\ Place(visit, pc["table"] + 1) \in Places
  BY AtTable
<1>2. /\ pc' = [pc EXCEPT !["table"] = @ + 1]
      /\ pc'["table"] = pc["table"] + 1
      /\ left' \in [Threads -> 0..(Units(3000) + Late)]
      /\ left'["rel"] = left["rel"]
      /\ left'["table"] >= units
      /\ units = 0 => left'["table"] = 0
      /\ cpu' \in {"table", Shared}
      /\ units = 0 /\ OpAt("table", pc["table"] + 1) \notin {"drive", "await", "end"}
              => cpu' = "table"
  BY <1>1, Goes
<1>3. here' = Place(visit, pc["table"] + 1)
  BY <1>2 DEF here
<1>4. OpAt("table", pc["table"] + 1) = OpOf(here')
  BY <1>1, <1>3, Ops
<1>5. left'["table"] \in Nat
  BY <1>2 DEF Threads
<1> QED
  BY <1>1, <1>2, <1>3, <1>4, <1>5

LEMMA WaitNat ==
  ASSUME Timely, NEW p \in Places, NEW time \in 0..TimerMax
  PROVE  /\ Wait(p, time) \in 0..Units(3000) /\ Units(AwaitMs(p)) \in 0..Units(3000)
         /\ ~Timed(p) => Wait(p, time) = 0
         /\ Timed(p) => Wait(p, 0) = Units(AwaitMs(p))
         /\ 0 \in 0..TimerMax
<1>1. Units(AwaitMs(p)) \in Nat /\ Units(AwaitMs(p)) <= Units(3000) /\ Units(3000) \in Nat
  <2>1. AwaitMs(p) \in Waits /\ AwaitMs(p) <= 3000
    BY Lengths
  <2>2. 3000 \in Waits
    BY DEF Waits
  <2> QED
    BY <2>1, <2>2, Rules
<1>2. time \in Nat
  BY <1>1 DEF TimerMax
<1> QED
  BY <1>1, <1>2 DEF Wait, TimerMax

(* The wait of a step is no longer than three seconds.                     *)
LEMMA StepMs ==
  ASSUME Timely, TypeOK, NEW op, AtStep("table", op)
  PROVE  /\ here \in Places \ {54} /\ OpOf(here) = op
         /\ Current("table").ms \in MsOf(here)
         /\ Current("table").ms \in Waits /\ Current("table").ms <= 3000
         /\ Units(Current("table").ms) \in 0..Units(3000)
         /\ 0 \in 0..Units(3000) /\ Units(0) = 0
<1>1. here \in Places \ {54} /\ OpOf(here) = op /\ Current("table").ms \in MsOf(here)
  BY AtTable DEF Fits
<1>2. Current("table").ms \in Waits /\ Current("table").ms <= 3000
  BY <1>1, Lengths
<1>3. 3000 \in Waits
  BY DEF Waits
<1> QED
  BY <1>1, <1>2, <1>3, Rules

(* Pauses, and writes once they are stored.                                *)
LEMMA WaitGoes ==
  ASSUME Timely, SInv, NEW op \in {"pause", "write"}, AtStep("table", op),
         NextStep("table", Units(Current("table").ms)),
         visit' = visit, doReloadPt' = doReloadPt, timer' = timer
  PROVE  here \in Moves \cup Writes /\ \E ms \in MsOf(here) : Onward(ms)
<1>0. TypeOK
  BY DEF SInv
<1> DEFINE p == here
           q == here'
           ms == Current("table").ms
<1>1. /\ Units(ms) \in 0..Units(3000) /\ ms \in MsOf(p) /\ ms \in Waits
      /\ p \in Places \ {54} /\ OpOf(p) = op
  BY <1>0, StepMs
<1>2. /\ pc["table"] \in 1..Size(visit) /\ left["table"] = 0
      /\ cpu \in {"table", Shared}
      /\ q \in After(p) /\ q \in Places
      /\ pc' = [pc EXCEPT !["table"] = @ + 1]
      /\ left' \in [Threads -> 0..(Units(3000) + Late)]
      /\ left'["table"] \in Nat /\ left'["rel"] = left["rel"]
      /\ left'["table"] >= Units(ms)
      /\ Units(ms) = 0 => left'["table"] = 0
      /\ cpu' \in {"table", Shared}
  BY <1>0, <1>1, GoesOn
<1>3. p \in Moves \cup Writes
  BY <1>1, OpPlaces
<1>5. /\ Timed(p) <=> Timed(q)
      /\ Timed(p) => AwaitMs(p) = AwaitMs(q)
      /\ q \notin {5, 33}
  BY <1>1, <1>2, <1>3, Along DEF Moves, Writes, Timers
<1>6. Timed(p) => Units(ms) = 0
  <2>1. Timed(p) => p \in {5, 33}
    BY <1>3 DEF Timed, Moves, Writes
  <2>2. p \in {5, 33} => ms = 0
    BY <1>1 DEF MsOf
  <2> QED
    BY <2>1, <2>2, Rules
<1>7. Spent(p, q, ms) = ms
  BY <1>3 DEF Spent, Moves, Writes, Timers, Drives, Awaits
<1>8. Wait(q, timer') = Wait(p, timer) /\ Wait(p, timer) \in Nat
  <2>1. Wait(q, timer) = Wait(p, timer)
    BY <1>5 DEF Wait
  <2>2. timer \in 0..TimerMax
    BY <1>0 DEF TypeOK
  <2>3. Wait(p, timer) \in 0..Units(3000)
    BY <1>1, <2>2, WaitNat
  <2> QED
    BY <2>1, <2>3
<1> HIDE DEF p, q, ms
<1>9. left'["table"] + Wait(q, timer') >= Units(Spent(p, q, ms)) + Wait(p, timer)
  BY <1>1, <1>2, <1>7, <1>8, Rules
<1>10. timer' \in 0..TimerMax
  BY <1>0 DEF TypeOK
<1>11. Onward(ms)
  BY <1>1, <1>2, <1>5, <1>6, <1>9, <1>10 DEF Onward, p, q
<1> QED
  BY <1>1, <1>3, <1>11 DEF p

LEMMA TimerGoes ==
  ASSUME Timely, SInv, DoStartTimer
  PROVE  here \in Timers /\ \E ms \in MsOf(here) : Onward(ms)
<1>0. TypeOK /\ Location
  BY DEF SInv
<1> DEFINE p == here
           q == here'
           ms == Current("table").ms
<1>1. AtStep("table", "timer") /\ NextStep("table", 0)
      /\ visit' = visit /\ doReloadPt' = doReloadPt /\ timer' = 0
  BY DEF DoStartTimer
<1>2. /\ ms \in MsOf(p) /\ ms \in Waits /\ p \in Places \ {54} /\ OpOf(p) = "timer"
      /\ 0 \in 0..Units(3000)
  BY <1>0, <1>1, StepMs
<1>3. /\ pc["table"] \in 1..Size(visit) /\ left["table"] = 0
      /\ cpu \in {"table", Shared}
      /\ q \in After(p) /\ q \in Places
      /\ pc' = [pc EXCEPT !["table"] = @ + 1]
      /\ left' \in [Threads -> 0..(Units(3000) + Late)]
      /\ left'["table"] = 0 /\ left'["rel"] = left["rel"]
      /\ cpu' \in {"table", Shared}
      /\ OpOf(q) \notin {"drive", "await", "end"} => cpu' = "table"
  BY <1>0, <1>1, <1>2, GoesOn
<1>4. p \in Timers
  BY <1>2, OpPlaces
<1>5. q \in {5, 33} /\ ~Timed(p) /\ Timed(q)
  BY <1>3, <1>4 DEF After, Timers, Timed
<1>6. cpu' = "table"
  <2>1. OpOf(q) = "write"
    BY <1>5 DEF OpOf, Moves, Writes
  <2> QED
    BY <1>3, <2>1
<1>7. Spent(p, q, ms) = AwaitMs(q)
  BY <1>4 DEF Spent
<1>8. timer \in 0..TimerMax
  BY <1>0 DEF TypeOK
<1>9. Wait(p, timer) = 0 /\ Wait(q, timer') = Units(AwaitMs(q)) /\ 0 \in 0..TimerMax
      /\ Units(AwaitMs(q)) \in Nat
  BY <1>1, <1>2, <1>3, <1>5, <1>8, WaitNat
<1> HIDE DEF p, q, ms
<1>10. left'["table"] + Wait(q, timer') >= Units(Spent(p, q, ms)) + Wait(p, timer)
  BY <1>3, <1>7, <1>9
<1>11. Onward(ms)
  BY <1>1, <1>2, <1>3, <1>5, <1>6, <1>9, <1>10 DEF Onward, p, q
<1> QED
  BY <1>2, <1>4, <1>11 DEF p

LEMMA DriveGoes ==
  ASSUME Timely, SInv, EndDrive
  PROVE  here \in Drives /\ \E ms \in MsOf(here) : Onward(ms)
<1>0. TypeOK /\ Location
  BY DEF SInv
<1> DEFINE p == here
           q == here'
           ms == Current("table").ms
<1>1. AtStep("table", "drive") /\ NextStep("table", 0)
      /\ visit' = visit /\ doReloadPt' = doReloadPt /\ timer' = timer
  BY DEF EndDrive
<1>2. /\ ms \in MsOf(p) /\ ms \in Waits /\ p \in Places \ {54} /\ OpOf(p) = "drive"
      /\ 0 \in 0..Units(3000) /\ Units(0) = 0
  BY <1>0, <1>1, StepMs
<1>3. /\ pc["table"] \in 1..Size(visit) /\ left["table"] = 0
      /\ cpu \in {"table", Shared}
      /\ q \in After(p) /\ q \in Places
      /\ pc' = [pc EXCEPT !["table"] = @ + 1]
      /\ left' \in [Threads -> 0..(Units(3000) + Late)]
      /\ left'["table"] = 0 /\ left'["rel"] = left["rel"]
      /\ cpu' \in {"table", Shared}
  BY <1>0, <1>1, <1>2, GoesOn
<1>4. p \in Drives
  BY <1>2, OpPlaces
<1>5. /\ Timed(p) <=> Timed(q)
      /\ Timed(p) => AwaitMs(p) = AwaitMs(q)
      /\ q \notin {5, 33}
  BY <1>2, <1>3, <1>4, Along DEF Drives, Timers
<1>6. Spent(p, q, ms) = 0
  BY <1>4 DEF Spent, Drives, Timers
<1>7. timer \in 0..TimerMax
  BY <1>0 DEF TypeOK
<1>8. Wait(q, timer) = Wait(p, timer)
  BY <1>5 DEF Wait
<1>9. Wait(p, timer) \in 0..Units(3000)
  BY <1>2, <1>7, WaitNat
<1> HIDE DEF p, q, ms
<1>10. left'["table"] + Wait(q, timer') >= Units(Spent(p, q, ms)) + Wait(p, timer)
  BY <1>1, <1>2, <1>3, <1>6, <1>8, <1>9
<1>11. Onward(ms)
  BY <1>1, <1>2, <1>3, <1>5, <1>7, <1>10 DEF Onward, p, q
<1> QED
  BY <1>2, <1>4, <1>11 DEF p

LEMMA AwaitGoes ==
  ASSUME Timely, SInv, DoAwait
  PROVE  here \in Awaits /\ \E ms \in MsOf(here) : Onward(ms)
<1>0. TypeOK /\ Location
  BY DEF SInv
<1> DEFINE p == here
           q == here'
           ms == Current("table").ms
           rest == Units(ms) - timer
           units == IF rest > 0 THEN rest ELSE 0
<1>1. AtStep("table", "await") /\ NextStep("table", units)
      /\ visit' = visit /\ doReloadPt' = doReloadPt /\ timer' = timer
  BY DEF DoAwait
<1>2. /\ ms \in MsOf(p) /\ ms \in Waits /\ p \in Places \ {54} /\ OpOf(p) = "await"
      /\ Units(ms) \in 0..Units(3000) /\ Units(0) = 0
  BY <1>0, <1>1, StepMs
<1>3. timer \in 0..TimerMax /\ timer \in Nat /\ Units(3000) \in Nat
  <2>1. 3000 \in Waits
    BY DEF Waits
  <2>2. Units(3000) \in Nat
    BY <2>1, Rules
  <2> QED
    BY <1>0, <2>2 DEF TypeOK, TimerMax
<1>4. units \in 0..Units(3000)
  BY <1>2, <1>3
<1> HIDE DEF units
<1>5. /\ pc["table"] \in 1..Size(visit) /\ left["table"] = 0
      /\ cpu \in {"table", Shared}
      /\ q \in After(p) /\ q \in Places
      /\ pc' = [pc EXCEPT !["table"] = @ + 1]
      /\ left' \in [Threads -> 0..(Units(3000) + Late)]
      /\ left'["table"] \in Nat /\ left'["table"] >= units /\ left'["rel"] = left["rel"]
      /\ cpu' \in {"table", Shared}
  BY <1>0, <1>1, <1>4, GoesOn
<1>6. p \in Awaits
  BY <1>2, OpPlaces
<1>7. Timed(p) /\ ~Timed(q) /\ q \notin {5, 33}
  BY <1>5, <1>6 DEF Awaits, After, Timed
<1>8. Spent(p, q, ms) = 0
  BY <1>6 DEF Spent, Awaits, Drives, Timers
<1>9. ms = AwaitMs(p)
  BY <1>2, <1>6 DEF Awaits, AwaitMs, MsOf
<1>10. Wait(p, timer) = units
  <2>1. Wait(p, timer) = IF timer < Units(ms) THEN Units(ms) - timer ELSE 0
    BY <1>7, <1>9 DEF Wait
  <2> HIDE DEF ms
  <2> QED
    BY <1>2, <1>3, <2>1 DEF units
<1>11. Wait(q, timer') = 0
  BY <1>1, <1>3, <1>5, <1>7, WaitNat
<1> HIDE DEF p, q, ms
<1>12. left'["table"] + Wait(q, timer') >= Units(Spent(p, q, ms)) + Wait(p, timer)
  BY <1>2, <1>4, <1>5, <1>8, <1>10, <1>11
<1>13. Onward(ms)
  BY <1>1, <1>2, <1>3, <1>5, <1>7, <1>12 DEF Onward, p, q
<1> QED
  BY <1>2, <1>6, <1>13 DEF p

LEMMA ReloadSteps ==
  /\ Len(ReloadScript) = 6 /\ DOMAIN ReloadScript = 1..6
  /\ ReloadScript[1] = Write(7, TRUE, 800) /\ ReloadScript[2] = Write(5, TRUE, 1500)
  /\ ReloadScript[3] = Write(5, FALSE, 500) /\ ReloadScript[4] = Write(7, FALSE, 500)
  /\ ReloadScript[5] = Write(6, TRUE, 1000) /\ ReloadScript[6] = Write(6, FALSE, 1000)
BY DEF ReloadScript

LEMMA Numbers ==
  ASSUME Timely, TypeOK
  PROVE  /\ left["table"] \in Nat /\ left["rel"] \in Nat /\ Late \in Nat
         /\ timer \in 0..TimerMax /\ opened \in 0..OpenedMax
         /\ StartLate \in 0..(2 * Late)
         /\ CycleRest(pc["rel"]) \in Nat /\ FeedRest(pc["rel"]) \in Nat
         /\ pc["rel"] \in 0..7
         /\ Wait(here, timer) \in Nat
         /\ Units(3000) \in Nat /\ OpenedMax = Units(3000) /\ TimerMax = Units(3000)
<1>1. Late \in Nat /\ \A a \in Waits : Units(a) \in Nat
  BY Rules
<1>2. pc["rel"] \in 0..7
  BY ReloadSteps DEF TypeOK
<1>3. StartLate \in 0..(2 * Late)
  BY <1>1 DEF StartLate
<1>4. /\ Units(5300) \in Nat /\ Units(4500) \in Nat /\ Units(3000) \in Nat
      /\ Units(2500) \in Nat /\ Units(2000) \in Nat /\ Units(1000) \in Nat
      /\ Units(2800) \in Nat /\ Units(500) \in Nat
  <2>1. /\ 5300 \in Waits /\ 4500 \in Waits /\ 3000 \in Waits /\ 2500 \in Waits
        /\ 2000 \in Waits /\ 1000 \in Waits /\ 2800 \in Waits /\ 500 \in Waits
    BY DEF Waits
  <2> QED
    BY <1>1, <2>1
<1>5. CycleRest(pc["rel"]) \in Nat /\ FeedRest(pc["rel"]) \in Nat
  BY <1>1, <1>2, <1>4 DEF CycleRest, FeedRest
<1>6. left["table"] \in Nat /\ left["rel"] \in Nat
  <2>1. left \in [Threads -> Nat]
    BY <1>1, <1>4 DEF TypeOK
  <2> QED
    BY <2>1 DEF Threads
<1>7. timer \in 0..TimerMax /\ opened \in 0..OpenedMax
      /\ OpenedMax = Units(3000) /\ TimerMax = Units(3000)
  BY DEF TypeOK, OpenedMax, TimerMax
<1>8. Wait(here, timer) \in 0..Units(3000)
  BY <1>7, Here, WaitNat
<1>9. Wait(here, timer) \in Nat
  BY <1>4, <1>8
<1> QED
  BY <1>1, <1>2, <1>3, <1>4, <1>5, <1>6, <1>7, <1>9

(* The bounds, written out.                                                *)
LEMMA Shapes ==
  /\ CycleFits <=>
       (Busy => left["rel"] + StartLate + CycleRest(pc["rel"])
                  < left["table"] + Wait(here, timer) + Units(ToPost(here)))
  /\ FeedFits <=>
       (Feeding => /\ Asked(here)
                   /\ left["rel"] + StartLate + FeedRest(pc["rel"])
                        < left["table"] + Wait(here, timer) + Units(ToShot(here)))
  /\ StartFits <=>
       (Starting => \/ here \in {32, 33}
                    \/ /\ here # 5
                       /\ left["rel"] + StartLate + 0
                            < left["table"] + Wait(here, timer) + Units(ToWrite(here)))
  /\ PressureRises <=>
       (Primed(here) =>
          opened + (left["table"] + Wait(here, timer) + Units(ToShot(here))) >= Units(3000))
BY DEF CycleFits, FeedFits, StartFits, PressureRises, AtMost, Until, Pending

LEMMA ShapesNext ==
  /\ CycleFits' <=>
       (Busy' => left'["rel"] + StartLate' + CycleRest(pc'["rel"])
                  < left'["table"] + Wait(here', timer') + Units(ToPost(here')))
  /\ FeedFits' <=>
       (Feeding' => /\ Asked(here')
                    /\ left'["rel"] + StartLate' + FeedRest(pc'["rel"])
                         < left'["table"] + Wait(here', timer') + Units(ToShot(here')))
  /\ StartFits' <=>
       (Starting' => \/ here' \in {32, 33}
                     \/ /\ here' # 5
                        /\ left'["rel"] + StartLate' + 0
                             < left'["table"] + Wait(here', timer') + Units(ToWrite(here')))
  /\ PressureRises' <=>
       (Primed(here') =>
          opened' + (left'["table"] + Wait(here', timer') + Units(ToShot(here'))) >= Units(3000))
BY DEF CycleFits, FeedFits, StartFits, PressureRises, AtMost, Until, Pending

(* A step of the table leaves the reloading as it was.                     *)
LEMMA SameReload ==
  ASSUME doReloadPt' = doReloadPt, pc'["rel"] = pc["rel"],
         register'["rel"] = register["rel"]
  PROVE  /\ Busy' <=> Busy
         /\ Feeding' <=> Feeding
         /\ Starting' <=> Starting
         /\ StartLate' = StartLate
BY DEF Busy, Feeding, Starting, StartLate

LEMMA TableKeeps ==
  ASSUME Timely, SInv, NEW ms, Onward(ms), here \notin Posts,
         register'["rel"] = register["rel"]
  PROVE  /\ here \in Places \ {54} /\ here' \in After(here) /\ here' \in Places
         /\ pc'["rel"] = pc["rel"] /\ Location' /\ CycleFits' /\ FeedFits' /\ StartFits'
<1> DEFINE p == here
           q == here'
           w == Wait(p, timer)
           x == Wait(q, timer')
           lt == left'["table"]
           a == left["rel"] + StartLate
<1>0. TypeOK /\ Location /\ CycleFits /\ FeedFits /\ StartFits
  BY DEF SInv
<1>1. /\ pc["table"] \in 1..Size(visit) /\ left["table"] = 0
      /\ visit' = visit /\ doReloadPt' = doReloadPt
      /\ pc' = [pc EXCEPT !["table"] = @ + 1] /\ left'["rel"] = left["rel"]
      /\ ms \in MsOf(p) /\ lt + x >= Units(Spent(p, q, ms)) + w
  BY DEF Onward
<1>2. pc'["rel"] = pc["rel"] /\ pc'["table"] = pc["table"] + 1
  BY <1>0, <1>1 DEF TypeOK, Threads
<1>3. p \in Places \ {54} /\ q \in After(p) /\ q \in Places
  <2>1. q = Place(visit, pc["table"] + 1)
    BY <1>1, <1>2 DEF here
  <2> QED
    BY <1>0, <1>1, <2>1, Here
<1>4. lt \in Nat /\ timer' \in 0..TimerMax
  <2>1. left' \in [Threads -> 0..(Units(3000) + Late)] /\ timer' \in 0..TimerMax
    BY DEF Onward
  <2> QED
    BY <2>1 DEF Threads
<1>5. w \in Nat /\ x \in Nat
  <2>1. x \in 0..Units(3000)
    BY <1>3, <1>4, WaitNat
  <2> QED
    BY <1>0, <2>1, Numbers
<1>6. /\ Busy' <=> Busy
      /\ Feeding' <=> Feeding
      /\ Starting' <=> Starting
      /\ StartLate' = StartLate
  BY <1>1, <1>2, SameReload
<1>7. /\ left["rel"] \in Nat /\ StartLate \in 0..(2 * Late) /\ Late \in Nat /\ a \in Nat
      /\ CycleRest(pc["rel"]) \in Nat /\ FeedRest(pc["rel"]) \in Nat
  BY <1>0, Numbers
<1>8. /\ Units(ToPost(p)) \in Nat /\ Units(ToShot(p)) \in Nat /\ Units(ToWrite(p)) \in Nat
      /\ Units(ToPost(q)) \in Nat /\ Units(ToShot(q)) \in Nat /\ Units(ToWrite(q)) \in Nat
      /\ Units(0) = 0
  BY <1>3, Lengths, Rules
<1>9. /\ w + Units(ToPost(p)) <= (lt + x) + Units(ToPost(q))
      /\ Asked(p) => w + Units(ToShot(p)) <= (lt + x) + Units(ToShot(q))
      /\ p \notin {5, 32, 33} => w + Units(ToWrite(p)) <= (lt + x) + Units(ToWrite(q))
  <2>1. lt + x \in Nat
    BY <1>4, <1>5
  <2> HIDE DEF w, x, lt
  <2> QED
    BY <1>1, <1>3, <1>5, <2>1, Owed
<1> HIDE DEF p, q, w, x, lt, a
<1>10. CycleFits'
  <2>1. Busy => a + CycleRest(pc["rel"]) < 0 + w + Units(ToPost(p))
    BY <1>0, <1>1, Shapes DEF a, w, p
  <2>2. Busy => a + CycleRest(pc["rel"]) < lt + x + Units(ToPost(q))
    BY <1>4, <1>5, <1>7, <1>8, <1>9, <2>1
  <2>3. Busy' => left'["rel"] + StartLate' + CycleRest(pc'["rel"])
                  < left'["table"] + Wait(here', timer') + Units(ToPost(here'))
    BY <1>1, <1>2, <1>6, <2>2 DEF a, lt, x, q
  <2> QED
    BY <2>3, ShapesNext
<1>11. FeedFits'
  <2>1. Feeding => Asked(p) /\ a + FeedRest(pc["rel"]) < 0 + w + Units(ToShot(p))
    BY <1>0, <1>1, Shapes DEF a, w, p
  <2>2. Feeding => p \notin {9, 25, 37}
    <3>1. p \in {9, 25, 37} => ToShot(p) = 0 /\ ~Timed(p)
      BY <1>3, Along
    <3>2. p \in {9, 25, 37} => w = 0
      BY <1>0, <1>3, <3>1, Numbers, WaitNat DEF w
    <3> QED
      BY <1>7, <1>8, <2>1, <3>1, <3>2
  <2>3. Feeding => Asked(q)
    BY <1>3, <2>1, <2>2, Along DEF p
  <2>4. Feeding => a + FeedRest(pc["rel"]) < lt + x + Units(ToShot(q))
    BY <1>4, <1>5, <1>7, <1>8, <1>9, <2>1
  <2>5. Feeding' => /\ Asked(here')
                    /\ left'["rel"] + StartLate' + FeedRest(pc'["rel"])
                         < left'["table"] + Wait(here', timer') + Units(ToShot(here'))
    BY <1>1, <1>2, <1>6, <2>3, <2>4 DEF a, lt, x, q
  <2> QED
    BY <2>5, ShapesNext
<1>12. StartFits'
  <2>1. Starting => \/ p \in {32, 33}
                    \/ p # 5 /\ a + 0 < 0 + w + Units(ToWrite(p))
    BY <1>0, <1>1, Shapes DEF a, w, p
  <2>2. CASE p = 32
    <3>1. q = 33
      BY <1>3, <2>2 DEF After
    <3> QED
      BY <3>1, ShapesNext DEF q
  <2>3. CASE p = 33
    <3>1. pc["rel"] = 0 /\ timer = 0 /\ left["rel"] = 0
      BY <1>0, <2>3 DEF Location, p
    <3>2. Units(3000) > 2 * Late /\ Units(1000) \in Nat
      <4>1. 3000 \in Waits /\ 500 \in Waits /\ 1000 \in Waits
        BY DEF Waits
      <4>2. Units(500) <= Units(3000) /\ Units(1000) \in Nat /\ Units(3000) \in Nat /\ Units(500) \in Nat
        BY <4>1, Rules
      <4> QED
        BY <1>7, <4>2, Rules
    <3>3. w = Units(3000)
      BY <1>0, <1>3, <2>3, <3>1, WaitNat, Numbers DEF w, Timed, AwaitMs
    <3>4. q = 34 /\ Units(ToWrite(q)) = Units(1000) /\ Units(Spent(p, q, ms)) = 0
      <4>1. q = 34
        BY <1>3, <2>3 DEF After
      <4>2. ToWrite(34) = 1000
        BY DEF ToWrite, ToShot
      <4>3. Spent(p, q, ms) = 0
        BY <1>1, <2>3 DEF Spent, MsOf, Timers, Drives, Awaits
      <4> QED
        BY <4>1, <4>2, <4>3, <1>8
    <3>5. a + 0 < lt + x + Units(ToWrite(q))
      <4>1. a <= 2 * Late
        BY <1>7, <3>1 DEF a
      <4>2. lt + x >= 0 + w
        BY <1>1, <3>4
      <4> QED
        BY <1>4, <1>5, <1>7, <3>2, <3>3, <3>4, <4>1, <4>2
    <3> QED
      BY <1>1, <1>6, <3>4, <3>5, ShapesNext DEF a, lt, x, q
  <2>4. CASE p \notin {32, 33}
    <3>1. Starting => p # 5 /\ a + 0 < lt + x + Units(ToWrite(q))
      BY <1>4, <1>5, <1>7, <1>8, <1>9, <2>1, <2>4
    <3>2. Starting => q # 5
      <4>1. q = 5 => p = 4 /\ ToWrite(p) = 0
        BY <1>3, Along
      <4>2. p = 4 => w = 0
        BY <1>0, <1>3, Numbers, WaitNat DEF w, Timed
      <4> QED
        BY <1>7, <1>8, <2>1, <2>4, <4>1, <4>2
    <3> QED
      BY <1>1, <1>6, <3>1, <3>2, ShapesNext DEF a, lt, x, q
  <2> QED
    BY <2>2, <2>3, <2>4
<1>13. Location'
  <2>1. /\ pc["rel"] # 0 => Busy
        /\ pc["rel"] = 0 => left["rel"] = 0
        /\ p \in {32, 33} => cpu = "table" /\ pc["rel"] = 0
    BY <1>0 DEF Location, p
  <2>2. /\ Timed(q) => left'["table"] = 0
        /\ q \in {5, 33} => timer' = 0
        /\ q = 33 => cpu' = "table"
    BY DEF Onward, q
  <2>3. q # 32 /\ (q = 33 => p = 32)
    BY <1>3, Along DEF p
  <2> QED
    BY <1>1, <1>2, <1>6, <2>1, <2>2, <2>3 DEF Location, q
<1> QED
  BY <1>2, <1>3, <1>10, <1>11, <1>12, <1>13 DEF p, q

(* The pressure, as long as no launch point is opened.                     *)
LEMMA PressureKeeps ==
  ASSUME Timely, SInv, NEW ms, Onward(ms), here \notin Posts \cup {5, 22, 33},
         opened' = opened
  PROVE  PressureRises'
<1> DEFINE p == here
           q == here'
           w == Wait(p, timer)
           x == Wait(q, timer')
           lt == left'["table"]
<1>0. TypeOK /\ PressureRises
  BY DEF SInv
<1>1. /\ pc["table"] \in 1..Size(visit) /\ left["table"] = 0 /\ visit' = visit
      /\ pc' = [pc EXCEPT !["table"] = @ + 1]
      /\ ms \in MsOf(p) /\ lt + x >= Units(Spent(p, q, ms)) + w
  BY DEF Onward
<1>2. p \in Places \ {54} /\ q \in After(p) /\ q \in Places
  <2>1. pc'["table"] = pc["table"] + 1
    BY <1>0, <1>1 DEF TypeOK, Threads
  <2>2. q = Place(visit, pc["table"] + 1)
    BY <1>1, <2>1 DEF here
  <2> QED
    BY <1>0, <1>1, <2>2, Here
<1>3. lt \in Nat /\ timer' \in 0..TimerMax
  <2>1. left' \in [Threads -> 0..(Units(3000) + Late)] /\ timer' \in 0..TimerMax
    BY DEF Onward
  <2> QED
    BY <2>1 DEF Threads
<1>4. w \in Nat /\ x \in Nat /\ lt + x \in Nat
  <2>1. x \in 0..Units(3000)
    BY <1>2, <1>3, WaitNat
  <2>2. w \in Nat
    BY <1>0, Numbers
  <2> HIDE DEF w, x, lt
  <2> QED
    BY <1>3, <2>1, <2>2
<1>5. Units(ToShot(p)) \in Nat /\ Units(ToShot(q)) \in Nat /\ Units(3000) \in Nat
      /\ opened \in Nat
  <2>1. /\ Units(3000) \in Nat /\ opened \in 0..OpenedMax /\ OpenedMax = Units(3000)
    BY <1>0, Numbers
  <2> QED
    BY <1>2, <2>1, Lengths, Rules
<1>6. Primed(q) => Primed(p)
  BY <1>2, Along
<1>7. Primed(p) => Asked(p)
  BY DEF Primed, Asked, Posts
<1>8. Asked(p) => w + Units(ToShot(p)) <= (lt + x) + Units(ToShot(q))
  <2> HIDE DEF w, x, lt
  <2> QED
    BY <1>1, <1>2, <1>4, Owed
<1> HIDE DEF w, x, lt, p, q
<1>9. Primed(p) => opened + (0 + w + Units(ToShot(p))) >= Units(3000)
  BY <1>0, <1>1, Shapes DEF w, p
<1>10. Primed(q) => opened + (lt + x + Units(ToShot(q))) >= Units(3000)
  BY <1>3, <1>4, <1>5, <1>6, <1>7, <1>8, <1>9
<1> QED
  BY <1>10, ShapesNext DEF lt, x, q

LEMMA TableType ==
  ASSUME SInv, NEW ms, Onward(ms), SV' \in SUBSET Bits,
         register' \in [Threads -> (SUBSET Bits) \cup {Empty}],
         opened' \in 0..OpenedMax, loaded' \in BOOLEAN
  PROVE  TypeOK'
<1>1. TypeOK
  BY DEF SInv
<1>2. /\ pc["table"] \in 1..Size(visit)
      /\ visit' = visit /\ doReloadPt' = doReloadPt
      /\ pc' = [pc EXCEPT !["table"] = @ + 1]
      /\ left' \in [Threads -> 0..(Units(3000) + Late)]
      /\ timer' \in 0..TimerMax
      /\ cpu' \in {"table", Shared}
  BY DEF Onward
<1>3. pc' \in [Threads -> Nat] /\ pc'["table"] = pc["table"] + 1 /\ pc'["rel"] = pc["rel"]
  BY <1>1, <1>2 DEF TypeOK, Threads
<1>4. pc'["table"] \in 0..(Len(Program[visit]) + 1)
  BY <1>1, <1>2, <1>3, Here, PlaceEnds
<1>5. doReloadPt' \in {None, Reload} /\ visit' \in Visits
      /\ pc'["rel"] \in 0..(Len(ReloadScript) + 1)
  BY <1>1, <1>2, <1>3 DEF TypeOK
<1>6. cpu' \in Threads \cup {Shared}
  BY <1>2 DEF Threads
<1> QED
  BY <1>2, <1>3, <1>4, <1>5, <1>6 DEF TypeOK

(* What is open where no write happens.                                    *)
LEMMA HeldSame ==
  ASSUME NEW v, NEW p \in Places \ {54}, NEW q \in After(p), p \notin Writes
  PROVE  Held(v, q) = Held(v, p)
<1>1. Primed(q) \/ q \in {10, 26, 38} <=> Primed(p) \/ p \in {10, 26, 38}
  BY DEF Places, After, Seams, Writes, Primed
<1>2. q \in {10, 11, 26, 27, 38, 39} <=> p \in {10, 11, 26, 27, 38, 39}
  BY DEF Places, After, Seams, Writes
<1>3. Primed(p) \/ p \in {10, 26, 38} => Point(v, q) = Point(v, p)
  BY DEF Places, After, Seams, Writes, Primed, Point
<1> QED
  BY <1>1, <1>2, <1>3 DEF Held

(* Steps that leave the valves alone and ask for nothing.                  *)
LEMMA QuietKeeps ==
  ASSUME Timely, SInv, NEW ms, Onward(ms),
         here \in Moves \cup Drives \cup Awaits \cup Timers,
         UNCHANGED <<SV, register, opened, loaded>>
  PROVE  SInv'
<1>1. here \notin Posts /\ here \notin Writes /\ here \notin {5, 22, 33}
  BY DEF Moves, Drives, Awaits, Timers, Posts, Writes
<1>2. /\ SV' = SV /\ register' = register /\ opened' = opened /\ loaded' = loaded
  OBVIOUS
<1>3. /\ here \in Places \ {54} /\ here' \in After(here) /\ here' \in Places
      /\ pc'["rel"] = pc["rel"] /\ Location' /\ CycleFits' /\ FeedFits' /\ StartFits'
  BY <1>1, <1>2, TableKeeps
<1>4. /\ TypeOK /\ Turns /\ ValvesFollow /\ LoadedFollows /\ PressureRises
  BY DEF SInv
<1>5. /\ visit' = visit /\ doReloadPt' = doReloadPt /\ left["table"] = 0
      /\ cpu \in {"table", Shared}
  BY DEF Onward
<1>6. TypeOK'
  <2>1. /\ SV \in SUBSET Bits /\ register \in [Threads -> (SUBSET Bits) \cup {Empty}]
        /\ opened \in 0..OpenedMax /\ loaded \in BOOLEAN
    BY <1>4 DEF TypeOK
  <2> QED
    BY <1>2, <2>1, TableType
<1>7. Turns'
  <2>1. register["table"] = Empty
    <3>1. register["table"] # Empty => AtStep("table", "write")
      BY <1>4 DEF Turns
    <3>2. AtStep("table", "write") => OpOf(here) = "write"
      BY <1>4, AtTable
    <3> QED
      BY <1>1, <1>3, <3>1, <3>2, OpPlaces
  <2>2. register["rel"] # Empty => pc["rel"] = 1
    BY <1>4, <1>5 DEF Turns, Shared
  <2> QED
    BY <1>2, <1>3, <1>4, <2>1, <2>2 DEF Turns
<1>8. ValvesFollow'
  <2>1. Held(visit, here') = Held(visit, here)
    BY <1>1, <1>3, HeldSame
  <2> QED
    BY <1>2, <1>3, <1>4, <1>5, <2>1 DEF ValvesFollow
<1>9. LoadedFollows'
  <2>1. Asked(here') => Asked(here)
    BY <1>1, <1>3, Along
  <2>2. Feeding' <=> Feeding
    BY <1>2, <1>3, <1>5, SameReload
  <2> QED
    BY <1>2, <1>4, <2>1, <2>2 DEF LoadedFollows
<1>10. PressureRises'
  BY <1>1, <1>2, <1>3, <1>4, PressureKeeps
<1> QED
  BY <1>3, <1>6, <1>7, <1>8, <1>9, <1>10 DEF SInv

(* The writes, on what is held open.                                       *)
LEMMA HeldAt ==
  ASSUME NEW v \in Visits
  PROVE  /\ \A p \in {5, 22, 33} : Held(v, p) = {} /\ Held(v, p + 1) = {Point(v, p)}
         /\ \A p \in {9, 25, 37} :
              /\ Held(v, p) = {Point(v, p)} /\ Held(v, p + 1) = {Point(v, p), Trigger}
         /\ \A p \in {10, 26, 38} :
              /\ Held(v, p) = {Point(v, p), Trigger} /\ Held(v, p + 1) = {Trigger}
         /\ \A p \in {11, 27, 39} : Held(v, p) = {Trigger}
         /\ \A q \in Seams : Held(v, q) = {}
BY DEF Held, Primed, Point, Seams

LEMMA PointRange ==
  ASSUME NEW v \in Visits, NEW p
  PROVE  Point(v, p) \in 0..3
BY DEF Point, Visits

LEMMA HeldWrite ==
  ASSUME NEW v \in Visits, NEW p \in Writes, NEW q \in After(p), NEW s
  PROVE  /\ bitWrite(Held(v, p) \cup RelHolds(s), BitOf(v, p), OnOf(p))
              = Held(v, q) \cup RelHolds(s)
         /\ p \in {5, 22, 33} => Point(v, p) \notin Held(v, p) \cup RelHolds(s)
<1>0. Point(v, p) \in 0..3 /\ RelHolds(s) \subseteq {5, 6, 7}
  BY PointRange DEF RelHolds
<1>1. CASE p \in {5, 22, 33}
  <2>1. q = p + 1
    BY <1>1 DEF After
  <2>2. BitOf(v, p) = Point(v, p) /\ OnOf(p)
    BY <1>1 DEF BitOf, OnOf
  <2>3. Held(v, p) = {} /\ Held(v, q) = {Point(v, p)}
    BY <1>1, <2>1, HeldAt
  <2>4. {Point(v, p)} \cap Bits = {Point(v, p)} /\ Point(v, p) \notin RelHolds(s)
    <3>1. Point(v, p) \in Bits /\ Point(v, p) \notin {5, 6, 7}
      BY <1>0 DEF Bits
    <3> QED
      BY <1>0, <3>1, Zenon
  <2>5. bitWrite(RelHolds(s), Point(v, p), TRUE) = {Point(v, p)} \cup RelHolds(s)
    BY <2>4 DEF bitWrite
  <2>6. {} \cup RelHolds(s) = RelHolds(s)
    OBVIOUS
  <2>7. bitWrite({} \cup RelHolds(s), Point(v, p), OnOf(p)) = {Point(v, p)} \cup RelHolds(s)
    BY <2>2, <2>5, <2>6 DEF bitWrite
  <2> QED
    BY <2>2, <2>3, <2>4, <2>6, <2>7
<1>2. CASE p \in {9, 25, 37}
  <2>1. q = p + 1
    BY <1>2 DEF After
  <2>2. BitOf(v, p) = Trigger /\ OnOf(p)
    BY <1>2 DEF BitOf, OnOf
  <2>3. Held(v, p) = {Point(v, p)} /\ Held(v, q) = {Point(v, p), Trigger}
    BY <1>2, <2>1, HeldAt
  <2> QED
    BY <1>0, <1>2, <2>2, <2>3 DEF bitWrite, Bits, Trigger
<1>3. CASE p \in {10, 26, 38}
  <2>1. q = p + 1
    BY <1>3 DEF After
  <2>2. BitOf(v, p) = Point(v, p) /\ ~OnOf(p)
    BY <1>3 DEF BitOf, OnOf
  <2>3. Held(v, p) = {Point(v, p), Trigger} /\ Held(v, q) = {Trigger}
    BY <1>3, <2>1, HeldAt
  <2> QED
    BY <1>0, <1>3, <2>2, <2>3 DEF bitWrite, Bits, Trigger
<1>4. CASE p \in {11, 27, 39}
  <2>1. q \in Seams
    BY <1>4 DEF After
  <2>2. BitOf(v, p) = Trigger /\ ~OnOf(p)
    BY <1>4 DEF BitOf, OnOf
  <2>3. Held(v, p) = {Trigger} /\ Held(v, q) = {}
    BY <1>4, <2>1, HeldAt
  <2> QED
    BY <1>0, <1>4, <2>2, <2>3 DEF bitWrite, Bits, Trigger
<1> QED
  BY <1>1, <1>2, <1>3, <1>4 DEF Writes

(* Nothing moves.                                                          *)
LEMMA Unmoved ==
  ASSUME visit' = visit, pc' = pc, left' = left, timer' = timer,
         doReloadPt' = doReloadPt, opened' = opened, loaded' = loaded, SV' = SV
  PROVE  /\ here' = here
         /\ Busy' <=> Busy
         /\ Feeding' <=> Feeding
         /\ Starting' <=> Starting
         /\ ValvesFollow' <=> ValvesFollow
         /\ LoadedFollows' <=> LoadedFollows
         /\ PressureRises' <=> PressureRises
<1>1. here' = here
  BY DEF here
<1>2. /\ Busy' <=> Busy
      /\ Feeding' <=> Feeding
      /\ Starting' <=> Starting
  BY DEF Busy, Feeding, Starting
<1>3. /\ ValvesFollow' <=> ValvesFollow
      /\ LoadedFollows' <=> LoadedFollows
  BY <1>1, <1>2 DEF ValvesFollow, LoadedFollows
<1>4. PressureRises' <=> PressureRises
  BY <1>1, Shapes, ShapesNext
<1> QED
  BY <1>1, <1>2, <1>3, <1>4

(* While a write of the table is due, ReloadThread is not about to write.  *)
LEMMA WriteAlone ==
  ASSUME Timely, SInv, AtStep("table", "write")
  PROVE  /\ register["rel"] = Empty /\ here \in Writes
         /\ Current("table").bit = BitOf(visit, here)
         /\ Current("table").on = OnOf(here)
<1>0. TypeOK /\ Location /\ Turns /\ StartFits
  BY DEF SInv
<1>1. /\ left["table"] = 0 /\ cpu \in {"table", Shared} /\ here \in Places \ {54}
      /\ OpOf(here) = "write" /\ Fits(Current("table"), visit, here)
  BY <1>0, AtTable
<1>2. here \in Writes
  BY <1>1, OpPlaces
<1>3. ASSUME register["rel"] # Empty PROVE FALSE
  <2>1. pc["rel"] = 1 /\ Busy
    BY <1>0, <1>1, <1>3 DEF Turns, Shared, Location
  <2>2. Starting
    BY <2>1 DEF Starting
  <2>3. here # 5 /\ left["rel"] + StartLate + 0
                     < left["table"] + Wait(here, timer) + Units(ToWrite(here))
    BY <1>0, <2>1, <2>2, Shapes DEF Location
  <2>4. here # 33
    BY <1>0, <2>1 DEF Location
  <2>5. ToWrite(here) = 0 /\ ~Timed(here)
    BY <1>2, <2>3, <2>4 DEF Writes, ToWrite, ToShot, Timed
  <2>6. Wait(here, timer) = 0
    BY <1>0, <1>1, <2>5, Numbers, WaitNat
  <2>7. left["rel"] \in Nat /\ StartLate \in Nat
    BY <1>0, Numbers
  <2>8. Units(0) = 0
    BY Rules
  <2> QED
    BY <1>1, <2>3, <2>5, <2>6, <2>7, <2>8
<1> QED
  BY <1>1, <1>2, <1>3 DEF Fits

LEMMA FetchTable ==
  ASSUME Timely, SInv, Fetch("table")
  PROVE  SInv'
<1>0. /\ TypeOK /\ Location /\ Turns /\ ValvesFollow /\ LoadedFollows
      /\ CycleFits /\ FeedFits /\ StartFits /\ PressureRises
  BY DEF SInv
<1>1. /\ AtStep("table", "write") /\ visit' = visit /\ pc' = pc /\ timer' = timer
      /\ doReloadPt' = doReloadPt /\ opened' = opened /\ loaded' = loaded /\ SV' = SV
      /\ register' = [register EXCEPT !["table"] =
                        bitWrite(SV, Current("table").bit, Current("table").on)]
  BY DEF Fetch
<1>2. /\ pc["table"] \in 1..Size(visit) /\ left["table"] = 0 /\ here \in Writes
      /\ register["rel"] = Empty
      /\ Current("table").bit = BitOf(visit, here)
  BY <1>0, <1>1, WriteAlone, AtTable
<1>3. ~Preemptible("table")
  <2>1. CASE pc["table"] = 1
    <3>1. 0 \notin 1..Size(visit)
      OBVIOUS
    <3>2. OpAt("table", 0) = "end"
      BY <1>0, <3>1, Here DEF OpAt
    <3> QED
      BY <2>1, <3>2 DEF Preemptible
  <2>2. CASE pc["table"] # 1
    <3> DEFINE n == pc["table"] - 1
    <3>1. n \in 1..Size(visit) /\ n + 1 = pc["table"]
      BY <1>0, <1>2, <2>2, Here, PlaceEnds
    <3> HIDE DEF n
    <3>2. Place(visit, n) \in Places \ {54} /\ here \in After(Place(visit, n))
      BY <1>0, <3>1, Here, PlaceNext DEF here
    <3>3. Place(visit, n) \notin Drives \cup Awaits \cup {54}
      BY <1>2, <3>2 DEF After, Drives, Awaits, Writes
    <3>4. OpOf(Place(visit, n)) \notin {"drive", "await", "end"}
      BY <3>2, <3>3, OpPlaces
    <3>5. OpAt("table", n) = OpOf(Place(visit, n))
      BY <1>0, <3>1, OpsAt
    <3> QED
      BY <3>4, <3>5 DEF Preemptible, n
  <2> QED
    BY <2>1, <2>2
<1>4. cpu' = "table" /\ left' = left
  BY <1>3 DEF Fetch
<1>5. /\ here' = here
      /\ Busy' <=> Busy
      /\ Feeding' <=> Feeding
      /\ Starting' <=> Starting
      /\ ValvesFollow' /\ LoadedFollows' /\ PressureRises'
  BY <1>0, <1>1, <1>4, Unmoved
<1>6. /\ register'["rel"] = Empty
      /\ register'["table"] = bitWrite(SV, Current("table").bit, Current("table").on)
      /\ register' \in [Threads -> (SUBSET Bits) \cup {Empty}]
  <2>1. register \in [Threads -> (SUBSET Bits) \cup {Empty}] /\ SV \in SUBSET Bits
    BY <1>0 DEF TypeOK
  <2>2. bitWrite(SV, Current("table").bit, Current("table").on) \in SUBSET Bits
    BY <2>1 DEF bitWrite
  <2> HIDE DEF Empty
  <2> QED
    BY <1>1, <1>2, <2>1, <2>2 DEF Threads
<1>7. TypeOK'
  <2>1. cpu' \in Threads \cup {Shared}
    BY <1>4 DEF Threads
  <2> QED
    BY <1>0, <1>1, <1>4, <1>6, <2>1 DEF TypeOK
<1>8. Location'
  BY <1>0, <1>1, <1>4, <1>5 DEF Location
<1>9. Turns'
  <2>1. AtStep("table", "write")'
    BY <1>1, <1>4 DEF AtStep, Running, OpAt, Script
  <2>2. Current("table")' = Current("table")
    BY <1>1 DEF Current, Script
  <2> QED
    BY <1>1, <1>4, <1>6, <2>1, <2>2 DEF Turns
<1>10. StartLate' = StartLate
  BY <1>1, <1>2, <1>6 DEF StartLate
<1>11. CycleFits' /\ FeedFits' /\ StartFits'
  BY <1>0, <1>1, <1>4, <1>5, <1>10, Shapes, ShapesNext
<1> QED
  BY <1>5, <1>7, <1>8, <1>9, <1>11 DEF SInv

LEMMA HeldBits ==
  ASSUME NEW v \in Visits, NEW p, NEW s
  PROVE  /\ Held(v, p) \subseteq 0..4 /\ RelHolds(s) \subseteq {5, 6, 7}
         /\ Trigger \in Held(v, p) \cup RelHolds(s) <=> p \in {10, 11, 26, 27, 38, 39}
         /\ 7 \in Held(v, p) \cup RelHolds(s) <=> s \in 2..4
         /\ 5 \in Held(v, p) \cup RelHolds(s) <=> s = 3
         /\ Held(v, p) \cup RelHolds(s) \in SUBSET Bits
<1>1. Point(v, p) \in 0..3
  BY PointRange
<1>2. Held(v, p) \subseteq 0..4
  BY <1>1 DEF Held, Trigger
<1>3. RelHolds(s) \subseteq {5, 6, 7}
  BY DEF RelHolds
<1>4. Trigger \in Held(v, p) <=> p \in {10, 11, 26, 27, 38, 39}
  BY <1>1 DEF Held, Trigger
<1>5. (7 \in RelHolds(s) <=> s \in 2..4) /\ (5 \in RelHolds(s) <=> s = 3)
  BY DEF RelHolds
<1>6. 7 \notin Held(v, p) /\ 5 \notin Held(v, p) /\ Trigger \notin RelHolds(s)
  BY <1>2, <1>3 DEF Trigger
<1>7. Held(v, p) \cup RelHolds(s) \in SUBSET Bits
  BY <1>2, <1>3 DEF Bits
<1> QED
  BY <1>2, <1>3, <1>4, <1>5, <1>6, <1>7

(* What a write of MoveForwardTable does.                                  *)
LEMMA TableStores ==
  ASSUME Timely, SInv, Store("table")
  PROVE  /\ here \in Writes /\ here' \in After(here) /\ visit' = visit /\ visit \in Visits
         /\ pc'["rel"] = pc["rel"] /\ doReloadPt' = doReloadPt /\ timer' = timer
         /\ \E ms \in MsOf(here) : Onward(ms)
         /\ SV = Held(visit, here) \cup RelHolds(pc["rel"])
         /\ SV' = Held(visit, here') \cup RelHolds(pc["rel"])
         /\ register["rel"] = Empty
         /\ register' = [register EXCEPT !["table"] = Empty]
         /\ here \in {5, 22, 33} => opened' = 0
         /\ here \notin {5, 22, 33} => opened' = opened
         /\ here \in {9, 25, 37} <=> Trigger \in SV' \ SV
         /\ here \in {9, 25, 37} => loaded' = FALSE
         /\ here \notin {9, 25, 37} => loaded' = loaded
<1>0. TypeOK /\ Turns /\ ValvesFollow
  BY DEF SInv
<1>1. /\ AtStep("table", "write") /\ register["table"] # Empty
      /\ SV' = register["table"] /\ register' = [register EXCEPT !["table"] = Empty]
      /\ NextStep("table", Units(Current("table").ms))
      /\ doReloadPt' = doReloadPt /\ visit' = visit /\ timer' = timer
      /\ opened' = IF (SV' \ SV) \cap 0..3 # {} THEN 0 ELSE opened
      /\ loaded' = IF Trigger \in SV' \ SV THEN FALSE
                   ELSE IF 7 \in SV \ SV' THEN TRUE ELSE loaded
  BY DEF Store
<1>2. /\ register["rel"] = Empty /\ here \in Writes
      /\ Current("table").bit = BitOf(visit, here)
      /\ Current("table").on = OnOf(here)
  BY <1>1, WriteAlone
<1>3. \E ms \in MsOf(here) : Onward(ms)
  BY <1>1, WaitGoes
<1>4. here \notin Posts
  BY <1>2 DEF Writes, Posts
<1>5. register'["rel"] = register["rel"]
  BY <1>0, <1>1 DEF TypeOK, Threads
<1>6. here' \in After(here) /\ pc'["rel"] = pc["rel"]
  BY <1>3, <1>4, <1>5, TableKeeps
<1>7. visit \in Visits
  BY <1>0 DEF TypeOK
<1>8. SV = Held(visit, here) \cup RelHolds(pc["rel"])
  BY <1>0 DEF ValvesFollow
<1>9. SV' = bitWrite(SV, BitOf(visit, here), OnOf(here))
  BY <1>0, <1>1, <1>2 DEF Turns
<1>10. SV' = Held(visit, here') \cup RelHolds(pc["rel"])
  BY <1>2, <1>6, <1>7, <1>8, <1>9, HeldWrite
<1>11. here \in {5, 22, 33} => opened' = 0
  <2> SUFFICES ASSUME here \in {5, 22, 33} PROVE opened' = 0
    OBVIOUS
  <2>1. here' = here + 1
    BY <1>6 DEF After
  <2>2. Point(visit, here) \in SV' /\ Point(visit, here) \notin SV
    <3>1. Held(visit, here') = {Point(visit, here)}
      BY <1>7, <2>1, HeldAt
    <3>2. Point(visit, here) \notin Held(visit, here) \cup RelHolds(pc["rel"])
      BY <1>2, <1>6, <1>7, HeldWrite
    <3> QED
      BY <1>8, <1>10, <3>1, <3>2
  <2>3. Point(visit, here) \in 0..3
    BY <1>7, PointRange
  <2> QED
    BY <1>1, <2>2, <2>3
<1>12. here \notin {5, 22, 33} => opened' = opened
  <2> SUFFICES ASSUME here \notin {5, 22, 33} PROVE opened' = opened
    OBVIOUS
  <2>1. CASE here \in {9, 25, 37}
    <3>1. here' = here + 1
      BY <1>6, <2>1 DEF After
    <3>2. Held(visit, here) = {Point(visit, here)}
          /\ Held(visit, here') = {Point(visit, here), Trigger}
      BY <1>7, <2>1, <3>1, HeldAt
    <3>3. (SV' \ SV) \cap 0..3 = {}
      BY <1>8, <1>10, <3>2 DEF Trigger
    <3> QED
      BY <1>1, <3>3
  <2>2. CASE here \in {10, 26, 38}
    <3>1. here' = here + 1
      BY <1>6, <2>2 DEF After
    <3>2. Held(visit, here) = {Point(visit, here), Trigger}
          /\ Held(visit, here') = {Trigger}
      BY <1>7, <2>2, <3>1, HeldAt
    <3>3. (SV' \ SV) \cap 0..3 = {}
      BY <1>8, <1>10, <3>2
    <3> QED
      BY <1>1, <3>3
  <2>3. CASE here \in {11, 27, 39}
    <3>1. here' \in Seams
      BY <1>6, <2>3 DEF After
    <3>2. Held(visit, here') = {}
      BY <1>7, <3>1, HeldAt
    <3>3. (SV' \ SV) \cap 0..3 = {}
      BY <1>8, <1>10, <3>2
    <3> QED
      BY <1>1, <3>3
  <2> QED
    BY <1>2, <2>1, <2>2, <2>3 DEF Writes
<1>13. here \in {9, 25, 37} <=> Trigger \in SV' \ SV
  <2>1. Trigger \in SV <=> here \in {10, 11, 26, 27, 38, 39}
    BY <1>7, <1>8, HeldBits
  <2>2. Trigger \in SV' <=> here' \in {10, 11, 26, 27, 38, 39}
    BY <1>7, <1>10, HeldBits
  <2> QED
    BY <1>2, <1>6, <2>1, <2>2 DEF Writes, After, Seams
<1>14. 7 \notin SV \ SV'
  BY <1>7, <1>8, <1>10, HeldBits
<1>15. /\ here \in {9, 25, 37} => loaded' = FALSE
       /\ here \notin {9, 25, 37} => loaded' = loaded
  BY <1>1, <1>13, <1>14
<1> QED
  BY <1>1, <1>2, <1>3, <1>6, <1>7, <1>8, <1>10, <1>11, <1>12, <1>13, <1>15

(* Three seconds lie between the opening of a launch point and the shot.   *)
LEMMA OpenedInTime ==
  ASSUME Timely, SInv, NEW ms, Onward(ms), here \in {5, 22, 33}, opened' = 0
  PROVE  PressureRises'
<1> DEFINE p == here
           q == here'
           w == Wait(p, timer)
           x == Wait(q, timer')
           lt == left'["table"]
<1>0. TypeOK /\ Location
  BY DEF SInv
<1>1. /\ pc["table"] \in 1..Size(visit) /\ left["table"] = 0 /\ visit' = visit
      /\ pc' = [pc EXCEPT !["table"] = @ + 1]
      /\ ms \in MsOf(p) /\ lt + x >= Units(Spent(p, q, ms)) + w
  BY DEF Onward
<1>2. p \in Places \ {54} /\ q \in After(p) /\ q \in Places
  <2>1. pc'["table"] = pc["table"] + 1
    BY <1>0, <1>1 DEF TypeOK, Threads
  <2>2. q = Place(visit, pc["table"] + 1)
    BY <1>1, <2>1 DEF here
  <2> QED
    BY <1>0, <1>1, <2>2, Here
<1>3. lt \in Nat /\ timer' \in 0..TimerMax
  <2>1. left' \in [Threads -> 0..(Units(3000) + Late)] /\ timer' \in 0..TimerMax
    BY DEF Onward
  <2> QED
    BY <2>1 DEF Threads
<1>4. w \in Nat /\ x \in Nat
  <2>1. x \in 0..Units(3000)
    BY <1>2, <1>3, WaitNat
  <2>2. w \in Nat
    BY <1>0, Numbers
  <2> HIDE DEF w, x, lt
  <2> QED
    BY <1>3, <2>1, <2>2
<1>5. q = p + 1
  BY <1>2 DEF After
<1>6. /\ Units(0) = 0 /\ Units(500) \in Nat /\ Units(1000) \in Nat /\ Units(2000) \in Nat
      /\ Units(3000) = Units(2000) + Units(1000) /\ Units(3500) >= Units(3000)
      /\ Units(3500) \in Nat
  <2>1. /\ 500 \in Waits /\ 1000 \in Waits /\ 2000 \in Waits /\ 3000 \in Waits
        /\ 3500 \in Waits
    BY DEF Waits
  <2>2. /\ Units(500) \in Nat /\ Units(1000) \in Nat /\ Units(2000) \in Nat
        /\ Units(3000) <= Units(3500) /\ Units(3500) \in Nat /\ Units(0) = 0
        /\ Units(3000) \in Nat
    BY <2>1, Rules
  <2>3. 2000 + 1000 \in Waits /\ 2000 + 1000 = 3000
    BY <2>1
  <2>4. Units(2000 + 1000) = Units(2000) + Units(1000)
    BY <2>1, <2>3, Rules
  <2> QED
    BY <2>2, <2>3, <2>4
<1>7. lt + x + Units(ToShot(q)) >= Units(3000)
  <2>1. CASE p = 22
    <3>1. ToShot(q) = 3500 /\ Spent(p, q, ms) = 500
      BY <1>1, <1>5, <2>1 DEF ToShot, Spent, Timers, Drives, Awaits, MsOf
    <3> HIDE DEF w, x, lt, p, q
    <3> QED
      BY <1>1, <1>3, <1>4, <1>6, <3>1
  <2>2. CASE p = 5
    <3>1. ToShot(q) = 1000 /\ Spent(p, q, ms) = 0
      BY <1>1, <1>5, <2>2 DEF ToShot, Spent, Timers, Drives, Awaits, MsOf
    <3>2. w = Units(2000)
      <4>1. timer = 0
        BY <1>0, <2>2 DEF Location
      <4>2. Timed(p) /\ AwaitMs(p) = 2000
        BY <2>2 DEF Timed, AwaitMs
      <4>3. timer \in 0..TimerMax
        BY <1>0 DEF TypeOK
      <4> QED
        BY <1>2, <4>1, <4>2, <4>3, WaitNat
    <3> HIDE DEF w, x, lt, p, q
    <3> QED
      BY <1>1, <1>3, <1>4, <1>6, <3>1, <3>2
  <2>3. CASE p = 33
    <3>1. ToShot(q) = 1000 /\ Spent(p, q, ms) = 0
      BY <1>1, <1>5, <2>3 DEF ToShot, Spent, Timers, Drives, Awaits, MsOf
    <3>2. w = Units(3000)
      <4>1. timer = 0
        BY <1>0, <2>3 DEF Location
      <4>2. Timed(p) /\ AwaitMs(p) = 3000
        BY <2>3 DEF Timed, AwaitMs
      <4>3. timer \in 0..TimerMax
        BY <1>0 DEF TypeOK
      <4> QED
        BY <1>2, <4>1, <4>2, <4>3, WaitNat
    <3> HIDE DEF w, x, lt, p, q
    <3> QED
      BY <1>1, <1>3, <1>4, <1>6, <3>1, <3>2
  <2> QED
    BY <2>1, <2>2, <2>3
<1>8. Units(ToShot(q)) \in Nat
  BY <1>2, Lengths, Rules
<1> HIDE DEF w, x, lt, q
<1>9. opened' + (lt + x + Units(ToShot(q))) >= Units(3000)
  BY <1>3, <1>4, <1>7, <1>8
<1> QED
  BY <1>9, ShapesNext DEF lt, x, q

LEMMA StoreTable ==
  ASSUME Timely, SInv, Store("table")
  PROVE  SInv'
<1>0. TypeOK /\ LoadedFollows
  BY DEF SInv
<1>1. /\ here \in Writes /\ here' \in After(here) /\ visit' = visit /\ visit \in Visits
      /\ pc'["rel"] = pc["rel"] /\ doReloadPt' = doReloadPt
      /\ \E ms \in MsOf(here) : Onward(ms)
      /\ SV' = Held(visit, here') \cup RelHolds(pc["rel"])
      /\ register["rel"] = Empty
      /\ register' = [register EXCEPT !["table"] = Empty]
      /\ here \in {5, 22, 33} => opened' = 0
      /\ here \notin {5, 22, 33} => opened' = opened
      /\ here \in {9, 25, 37} => loaded' = FALSE
      /\ here \notin {9, 25, 37} => loaded' = loaded
  BY TableStores
<1>2. PICK ms \in MsOf(here) : Onward(ms)
  BY <1>1
<1>3. /\ register \in [Threads -> (SUBSET Bits) \cup {Empty}]
      /\ opened \in 0..OpenedMax /\ loaded \in BOOLEAN /\ 0 \in 0..OpenedMax
  <2>1. OpenedMax = Units(3000) /\ Units(3000) \in Nat
    BY <1>0, Numbers
  <2> QED
    BY <1>0, <2>1 DEF TypeOK
<1>4. /\ register'["rel"] = Empty /\ register'["table"] = Empty
      /\ register' \in [Threads -> (SUBSET Bits) \cup {Empty}]
  <2> HIDE DEF Empty
  <2> QED
    BY <1>1, <1>3 DEF Threads
<1>5. here \notin Posts
  BY <1>1 DEF Writes, Posts
<1>6. /\ here \in Places \ {54}
      /\ Location' /\ CycleFits' /\ FeedFits' /\ StartFits'
  BY <1>1, <1>2, <1>4, <1>5, TableKeeps
<1>7. TypeOK'
  <2>1. SV' \in SUBSET Bits
    BY <1>1, HeldBits
  <2>2. opened' \in 0..OpenedMax
    BY <1>1, <1>3
  <2>3. loaded' \in BOOLEAN
    BY <1>1, <1>3
  <2> QED
    BY <1>2, <1>4, <2>1, <2>2, <2>3, TableType
<1>8. Turns'
  BY <1>4 DEF Turns
<1>9. ValvesFollow'
  BY <1>1 DEF ValvesFollow
<1>10. LoadedFollows'
  <2>1. Asked(here') => Asked(here) /\ here \notin {9, 25, 37}
    BY <1>1, <1>5, <1>6, Along
  <2>2. Feeding' <=> Feeding
    BY <1>1, <1>4, SameReload
  <2> QED
    BY <1>0, <1>1, <2>1, <2>2 DEF LoadedFollows
<1>11. PressureRises'
  <2>1. CASE here \in {5, 22, 33}
    BY <1>1, <1>2, <2>1, OpenedInTime
  <2>2. CASE here \notin {5, 22, 33}
    BY <1>1, <1>2, <1>5, <2>2, PressureKeeps
  <2> QED
    BY <2>1, <2>2
<1> QED
  BY <1>6, <1>7, <1>8, <1>9, <1>10, <1>11 DEF SInv

(* A request is posted when ReloadThread is through with the last one.     *)
LEMMA PostsAlone ==
  ASSUME Timely, SInv, AtStep("table", "post")
  PROVE  /\ here \in Posts /\ doReloadPt = None /\ pc["rel"] = 0
         /\ left["rel"] = 0 /\ register["rel"] = Empty /\ register["table"] = Empty
<1>0. TypeOK /\ Location /\ Turns /\ CycleFits
  BY DEF SInv
<1>1. /\ left["table"] = 0 /\ here \in Places \ {54} /\ OpOf(here) = "post"
  BY <1>0, AtTable
<1>2. here \in Posts
  BY <1>1, OpPlaces
<1>3. ToPost(here) = 0 /\ ~Timed(here)
  BY <1>2 DEF Posts, ToPost, Timed
<1>4. Wait(here, timer) = 0
  BY <1>0, <1>1, <1>3, Numbers, WaitNat
<1>5. ~Busy
  <2>1. left["rel"] \in Nat /\ StartLate \in Nat /\ CycleRest(pc["rel"]) \in Nat
    BY <1>0, Numbers
  <2>2. Units(0) = 0
    BY Rules
  <2>3. Busy => left["rel"] + StartLate + CycleRest(pc["rel"]) < 0 + 0 + 0
    BY <1>0, <1>1, <1>3, <1>4, <2>2, Shapes
  <2> QED
    BY <2>1, <2>3
<1>6. doReloadPt = None
  BY <1>0, <1>5 DEF TypeOK, Busy
<1>7. pc["rel"] = 0 /\ left["rel"] = 0
  BY <1>0, <1>5 DEF Location
<1>8. register["rel"] = Empty
  BY <1>0, <1>7 DEF Turns
<1>9. register["table"] = Empty
  <2>1. register["table"] # Empty => AtStep("table", "write")
    BY <1>0 DEF Turns
  <2>2. AtStep("table", "write") => OpOf(here) = "write"
    BY <1>0, AtTable
  <2> QED
    BY <1>1, <2>1, <2>2
<1> QED
  BY <1>2, <1>6, <1>7, <1>8, <1>9

LEMMA PostKeeps ==
  ASSUME Timely, SInv, DoPost
  PROVE  SInv'
<1> DEFINE p == here
           q == here'
           x == Wait(q, timer')
           lt == left'["table"]
           ms == Current("table").ms
<1>0. TypeOK /\ Location /\ ValvesFollow
  BY DEF SInv
<1>1. /\ AtStep("table", "post") /\ NextStep("table", Units(ms))
      /\ doReloadPt' = Reload /\ visit' = visit /\ timer' = timer /\ SV' = SV
      /\ register' = register /\ opened' = opened /\ loaded' = loaded
  BY DEF DoPost
<1>2. /\ p \in Posts /\ pc["rel"] = 0 /\ left["rel"] = 0
      /\ register["rel"] = Empty /\ register["table"] = Empty
  BY <1>1, PostsAlone
<1>3. /\ ms \in MsOf(p) /\ ms \in Waits /\ Units(ms) \in 0..Units(3000) /\ ms <= 3000
      /\ p \in Places \ {54}
  BY <1>0, <1>1, StepMs
<1>4. /\ q \in After(p) /\ q \in Places
      /\ pc["table"] \in 1..Size(visit)
      /\ pc' = [pc EXCEPT !["table"] = @ + 1]
      /\ left' \in [Threads -> 0..(Units(3000) + Late)]
      /\ lt \in Nat /\ left'["rel"] = 0 /\ lt >= Units(ms)
      /\ cpu' \in {"table", Shared}
      /\ Units(ms) = 0 /\ OpOf(q) \notin {"drive", "await", "end"} => cpu' = "table"
  BY <1>0, <1>1, <1>2, <1>3, GoesOn
<1>5. /\ pc'["rel"] = 0 /\ pc'["table"] = pc["table"] + 1 /\ pc' \in [Threads -> Nat]
  BY <1>0, <1>2, <1>4 DEF TypeOK, Threads
<1>6. /\ ToPost(p) = 0 /\ ~Timed(p) /\ ~Timed(q) /\ ~Asked(p) /\ Asked(q)
      /\ 6000 <= ms + ToPost(q) /\ 3500 <= ms + ToShot(q)
      /\ q = 32 \/ 500 <= ms + ToWrite(q)
      /\ q \notin {5, 33}
      /\ \A v : Held(v, q) = Held(v, p)
  BY <1>2, <1>3, <1>4, AfterPost
<1>7. x = 0 /\ timer' \in 0..TimerMax
  <2>1. timer' \in 0..TimerMax
    BY <1>0, <1>1 DEF TypeOK
  <2> QED
    BY <1>4, <1>6, <2>1, WaitNat
<1>8. q = 32 => cpu' = "table"
  <2> SUFFICES ASSUME q = 32 PROVE cpu' = "table"
    OBVIOUS
  <2>1. p = 31
    BY <1>2, <1>4 DEF Posts, After
  <2>2. ms = 0
    BY <1>3, <2>1 DEF MsOf
  <2>3. OpOf(32) = "timer"
    BY DEF OpOf, Moves, Writes, Posts, Timers
  <2> QED
    BY <1>4, <2>2, <2>3, Rules
<1>9. /\ Busy' /\ Feeding' /\ Starting'
      /\ StartLate' = 2 * Late
  BY <1>1, <1>5 DEF Busy, Feeding, Starting, StartLate
<1> HIDE DEF p, q, x, lt, ms
<1>10. TypeOK'
  <2>1. pc'["table"] \in 0..(Len(Program[visit]) + 1)
    BY <1>0, <1>4, <1>5, Here, PlaceEnds
  <2>2. cpu' \in Threads \cup {Shared}
    BY <1>4 DEF Threads
  <2>3. pc'["rel"] \in 0..(Len(ReloadScript) + 1)
    BY <1>5, ReloadSteps
  <2> QED
    BY <1>0, <1>1, <1>4, <1>5, <1>7, <2>1, <2>2, <2>3 DEF TypeOK
<1>11. Location'
  BY <1>4, <1>5, <1>6, <1>8, <1>9 DEF Location, q
<1>12. Turns'
  BY <1>1, <1>2 DEF Turns
<1>13. ValvesFollow'
  BY <1>0, <1>1, <1>2, <1>5, <1>6 DEF ValvesFollow, p, q
<1>14. LoadedFollows'
  BY <1>9 DEF LoadedFollows
<1>15. ASSUME NEW a \in Waits, a <= 6000, NEW b \in Waits, b <= 7050, a <= ms + b
       PROVE  Units(a) <= lt + x + Units(b)
  <2>1. ms + b \in Waits
    BY <1>3, WaitsAdd
  <2>2. Units(a) <= Units(ms + b) /\ Units(ms + b) = Units(ms) + Units(b)
    BY <1>3, <1>15, <2>1, Rules
  <2>3. Units(a) \in Nat /\ Units(b) \in Nat /\ Units(ms) \in Nat
    BY <1>3, <1>15, Rules
  <2> QED
    BY <1>4, <1>7, <2>2, <2>3
<1>16. /\ 6000 \in Waits /\ 3500 \in Waits /\ 500 \in Waits /\ 5300 \in Waits
       /\ 2800 \in Waits /\ 3000 \in Waits
  BY DEF Waits
<1>17. /\ ToPost(q) \in Waits /\ ToShot(q) \in Waits /\ ToWrite(q) \in Waits
       /\ ToPost(q) <= 7050 /\ ToShot(q) <= 7050 /\ ToWrite(q) <= 7050
  BY <1>4, Lengths
<1>18. /\ Late \in Nat /\ Units(6000) \in Nat /\ Units(3500) \in Nat /\ Units(500) \in Nat
       /\ Units(5300) \in Nat /\ Units(2800) \in Nat /\ Units(3000) \in Nat
       /\ Units(3000) <= Units(3500)
       /\ Units(ToPost(q)) \in Nat /\ Units(ToShot(q)) \in Nat /\ Units(ToWrite(q)) \in Nat
       /\ Units(500) > 5 * Late /\ Units(5300) + 8 * Late < Units(6000)
       /\ Units(2800) + 5 * Late < Units(3500)
  BY <1>16, <1>17, Rules
<1>19. CycleFits'
  <2>1. Units(6000) <= lt + x + Units(ToPost(q))
    BY <1>6, <1>15, <1>16, <1>17
  <2>2. CycleRest(0) = Units(5300) + 6 * Late
    BY DEF CycleRest
  <2>3. 0 + 2 * Late + CycleRest(0) < lt + x + Units(ToPost(q))
    BY <1>4, <1>7, <1>18, <2>1, <2>2
  <2> QED
    BY <1>4, <1>5, <1>9, <2>3, ShapesNext DEF lt, x, q
<1>20. Units(3500) <= lt + x + Units(ToShot(q))
  BY <1>6, <1>15, <1>16, <1>17
<1>21. FeedFits'
  <2>1. FeedRest(0) = Units(2800) + 3 * Late
    BY DEF FeedRest
  <2>2. 0 + 2 * Late + FeedRest(0) < lt + x + Units(ToShot(q))
    BY <1>4, <1>7, <1>18, <1>20, <2>1
  <2> QED
    BY <1>4, <1>5, <1>6, <1>9, <2>2, ShapesNext DEF lt, x, q
<1>22. StartFits'
  <2>1. CASE q = 32
    BY <2>1, ShapesNext DEF q
  <2>2. CASE q # 32
    <3>1. Units(500) <= lt + x + Units(ToWrite(q))
      BY <1>6, <1>15, <1>16, <1>17, <2>2
    <3>2. 0 + 2 * Late + 0 < lt + x + Units(ToWrite(q))
      BY <1>4, <1>7, <1>18, <3>1
    <3> QED
      BY <1>4, <1>6, <1>9, <3>2, ShapesNext DEF lt, x, q
  <2> QED
    BY <2>1, <2>2
<1>23. PressureRises'
  <2>1. opened' \in Nat
    <3>1. opened \in 0..OpenedMax
      BY <1>0 DEF TypeOK
    <3>2. OpenedMax \in Nat
      BY <1>18 DEF OpenedMax
    <3> QED
      BY <1>1, <3>1, <3>2
  <2>2. opened' + (lt + x + Units(ToShot(q))) >= Units(3000)
    BY <1>4, <1>7, <1>18, <1>20, <2>1
  <2> QED
    BY <2>2, ShapesNext DEF lt, x, q
<1> QED
  BY <1>10, <1>11, <1>12, <1>13, <1>14, <1>19, <1>21, <1>22, <1>23 DEF SInv

(* Between two visits.                                                     *)
LEMMA Between ==
  ASSUME Timely, SInv, pc["table"] \notin 1..Size(visit), here' \in {1, 54},
         visit' \in Visits, pc' \in [Threads -> Nat], pc'["rel"] = pc["rel"],
         pc'["table"] \in 0..(Len(Program[visit']) + 1),
         UNCHANGED <<SV, doReloadPt, register, left, cpu, timer, opened, loaded>>
  PROVE  SInv'
<1>0. /\ TypeOK /\ Location /\ Turns /\ ValvesFollow /\ LoadedFollows
      /\ CycleFits /\ FeedFits /\ StartFits /\ PressureRises
  BY DEF SInv
<1>1. /\ SV' = SV /\ doReloadPt' = doReloadPt /\ register' = register /\ left' = left
      /\ cpu' = cpu /\ timer' = timer /\ opened' = opened /\ loaded' = loaded
  OBVIOUS
<1>2. here = 54
  BY <1>0, Here, PlaceEnds
<1>3. /\ ToPost(here') = ToPost(here) /\ ToShot(here') = ToShot(here)
      /\ ToWrite(here') = ToWrite(here)
  BY <1>2 DEF ToPost, ToShot, ToWrite
<1>4. /\ ~Timed(here) /\ ~Timed(here') /\ Asked(here) /\ Asked(here')
      /\ ~Primed(here) /\ ~Primed(here') /\ here' \notin {5, 32, 33}
  BY <1>2 DEF Timed, Asked, Primed
<1>5. Wait(here', timer') = Wait(here, timer)
  BY <1>4 DEF Wait
<1>6. /\ Busy' <=> Busy
      /\ Feeding' <=> Feeding
      /\ Starting' <=> Starting
      /\ StartLate' = StartLate
  BY <1>1, SameReload
<1>7. TypeOK'
  BY <1>0, <1>1 DEF TypeOK
<1>8. Location'
  BY <1>0, <1>1, <1>4, <1>6 DEF Location
<1>9. register["table"] = Empty
  <2>1. register["table"] # Empty => AtStep("table", "write")
    BY <1>0 DEF Turns
  <2>2. AtStep("table", "write") => pc["table"] \in 1..Size(visit)
    BY <1>0, AtTable
  <2> QED
    BY <2>1, <2>2
<1>10. Turns'
  BY <1>0, <1>1, <1>9 DEF Turns
<1>11. ValvesFollow'
  <2>1. Held(visit, here) = {} /\ Held(visit', here') = {}
    BY <1>2, <1>4 DEF Held
  <2> QED
    BY <1>0, <1>1, <2>1 DEF ValvesFollow
<1>12. LoadedFollows'
  BY <1>0, <1>1, <1>4, <1>6 DEF LoadedFollows
<1>13. CycleFits' /\ FeedFits' /\ PressureRises'
  BY <1>0, <1>1, <1>3, <1>4, <1>5, <1>6, Shapes, ShapesNext
<1>14. StartFits'
  <2>1. here \notin {32, 33}
    BY <1>2
  <2>2. here' # 5
    BY <1>4
  <2> QED
    BY <1>0, <1>1, <1>3, <1>5, <1>6, <2>1, <2>2, Shapes, ShapesNext
<1> QED
  BY <1>7, <1>8, <1>10, <1>11, <1>12, <1>13, <1>14 DEF SInv

LEMMA ArriveKeeps ==
  ASSUME Timely, SInv, Arrive
  PROVE  SInv'
<1>0. TypeOK
  BY DEF SInv
<1>1. /\ pc["table"] = 0 /\ pc' = [pc EXCEPT !["table"] = 1] /\ visit' = visit
      /\ UNCHANGED <<SV, doReloadPt, register, left, cpu, timer, opened, loaded>>
  BY DEF Arrive
<1>2. pc' \in [Threads -> Nat] /\ pc'["rel"] = pc["rel"] /\ pc'["table"] = 1
  BY <1>0, <1>1 DEF TypeOK, Threads
<1>3. visit \in Visits /\ here' = 1
  BY <1>0, <1>1, <1>2, Here, PlaceEnds DEF here
<1>4. pc'["table"] \in 0..(Len(Program[visit']) + 1)
  BY <1>0, <1>1, <1>2, <1>3, Here, PlaceEnds
<1>5. pc["table"] \notin 1..Size(visit)
  BY <1>1
<1> QED
  BY <1>1, <1>2, <1>3, <1>4, <1>5, Between

LEMMA LeaveKeeps ==
  ASSUME Timely, SInv, Leave
  PROVE  SInv'
<1>0. TypeOK
  BY DEF SInv
<1>1. /\ pc["table"] = Len(Program[visit]) + 1 /\ visit' \in Visits
      /\ pc' = [pc EXCEPT !["table"] = 0]
      /\ UNCHANGED <<SV, doReloadPt, register, left, cpu, timer, opened, loaded>>
  BY DEF Leave
<1>2. pc' \in [Threads -> Nat] /\ pc'["rel"] = pc["rel"] /\ pc'["table"] = 0
  BY <1>0, <1>1 DEF TypeOK, Threads
<1>3. here' = 54
  BY <1>1, <1>2, PlaceEnds DEF here
<1>4. Len(Program[visit']) \in Nat
  BY <1>1, ProgramRuns, PlaceEnds DEF Runs
<1>5. pc'["table"] \in 0..(Len(Program[visit']) + 1)
  BY <1>2, <1>4
<1>6. pc["table"] \notin 1..Size(visit)
  BY <1>0, <1>1, Here, PlaceEnds
<1> QED
  BY <1>1, <1>2, <1>3, <1>5, <1>6, Between

LEMMA ReloadTimes ==
  ASSUME Timely
  PROVE  /\ Units(5300) = Units(800) + Units(4500) /\ Units(4500) = Units(1500) + Units(3000)
         /\ Units(3000) = Units(500) + Units(2500) /\ Units(2500) = Units(500) + Units(2000)
         /\ Units(2000) = Units(1000) + Units(1000) /\ Units(2800) = Units(800) + Units(2000)
         /\ Units(2000) = Units(1500) + Units(500)
         /\ Units(500) \in Nat \ {0} /\ Units(800) \in Nat \ {0} /\ Units(1000) \in Nat \ {0}
         /\ Units(1500) \in Nat \ {0}
         /\ Units(500) <= Units(3000) /\ Units(800) <= Units(3000)
         /\ Units(1000) <= Units(3000) /\ Units(1500) <= Units(3000)
<1>1. Unit \in Nat \ {0}
  BY ScheduleAssumption
<1>2. Unit <= 50
  BY <1>1 DEF Timely
<1>3. Unit = 1 \/ Unit = 2 \/ Unit = 5 \/ Unit = 10 \/ Unit = 25 \/ Unit = 50
  BY <1>1, <1>2 DEF Timely
<1>4. CASE Unit = 1
  BY <1>4 DEF Units
<1>5. CASE Unit = 2
  BY <1>5 DEF Units
<1>6. CASE Unit = 5
  BY <1>6 DEF Units
<1>7. CASE Unit = 10
  BY <1>7 DEF Units
<1>8. CASE Unit = 25
  BY <1>8 DEF Units
<1>9. CASE Unit = 50
  BY <1>9 DEF Units
<1> QED
  BY <1>3, <1>4, <1>5, <1>6, <1>7, <1>8, <1>9

LEMMA RestNat ==
  ASSUME Timely, NEW s \in 0..7
  PROVE  CycleRest(s) \in Nat /\ FeedRest(s) \in Nat
<1>1. Late \in Nat /\ \A a \in Waits : Units(a) \in Nat
  BY Rules
<1>2. /\ 5300 \in Waits /\ 4500 \in Waits /\ 3000 \in Waits /\ 2500 \in Waits
      /\ 2000 \in Waits /\ 1000 \in Waits /\ 2800 \in Waits /\ 500 \in Waits
  BY DEF Waits
<1>3. /\ Units(5300) \in Nat /\ Units(4500) \in Nat /\ Units(3000) \in Nat
      /\ Units(2500) \in Nat /\ Units(2000) \in Nat /\ Units(1000) \in Nat
      /\ Units(2800) \in Nat /\ Units(500) \in Nat
  BY <1>1, <1>2
<1> QED
  BY <1>1, <1>3 DEF CycleRest, FeedRest

LEMMA ReloadMs ==
  ASSUME Timely, NEW s \in 1..6
  PROVE  /\ Units(ReloadScript[s].ms) \in 0..Units(3000)
         /\ Units(ReloadScript[s].ms) # 0
         /\ Units(ReloadScript[s].ms) + Late + CycleRest(s + 1) <= CycleRest(s)
         /\ s <= 3 => Units(ReloadScript[s].ms) + Late + FeedRest(s + 1) <= FeedRest(s)
<1>1. Late \in Nat /\ Units(3000) \in Nat /\ Units(2000) \in Nat /\ Units(2500) \in Nat
      /\ Units(4500) \in Nat
  <2>1. 2000 \in Waits /\ 2500 \in Waits /\ 3000 \in Waits /\ 4500 \in Waits
    BY DEF Waits
  <2> QED
    BY <2>1, Rules
<1>2. CASE s = 1
  <2>1. ReloadScript[1].ms = 800
    BY ReloadSteps DEF Write
  <2> QED
    BY <1>1, <1>2, <2>1, ReloadTimes DEF CycleRest, FeedRest
<1>3. CASE s = 2
  <2>1. ReloadScript[2].ms = 1500
    BY ReloadSteps DEF Write
  <2> QED
    BY <1>1, <1>3, <2>1, ReloadTimes DEF CycleRest, FeedRest
<1>4. CASE s = 3
  <2>1. ReloadScript[3].ms = 500
    BY ReloadSteps DEF Write
  <2> QED
    BY <1>1, <1>4, <2>1, ReloadTimes DEF CycleRest, FeedRest
<1>5. CASE s = 4
  <2>1. ReloadScript[4].ms = 500
    BY ReloadSteps DEF Write
  <2> QED
    BY <1>1, <1>5, <2>1, ReloadTimes DEF CycleRest, FeedRest
<1>6. CASE s = 5
  <2>1. ReloadScript[5].ms = 1000
    BY ReloadSteps DEF Write
  <2> QED
    BY <1>1, <1>6, <2>1, ReloadTimes DEF CycleRest, FeedRest
<1>7. CASE s = 6
  <2>1. ReloadScript[6].ms = 1000
    BY ReloadSteps DEF Write
  <2> QED
    BY <1>1, <1>7, <2>1, ReloadTimes DEF CycleRest, FeedRest
<1> QED
  BY <1>2, <1>3, <1>4, <1>5, <1>6, <1>7

(* The writes of Reload(), on what is held open.                           *)
LEMMA RelWrites ==
  ASSUME NEW v \in Visits, NEW p, NEW s \in 1..6
  PROVE  bitWrite(Held(v, p) \cup RelHolds(s), ReloadScript[s].bit, ReloadScript[s].on)
           = Held(v, p) \cup RelHolds(s + 1)
<1>0. Held(v, p) \subseteq 0..4
  BY HeldBits
<1>1. /\ RelHolds(1) = {} /\ RelHolds(2) = {7} /\ RelHolds(3) = {5, 7} /\ RelHolds(4) = {7}
      /\ RelHolds(5) = {} /\ RelHolds(6) = {6} /\ RelHolds(7) = {}
  BY DEF RelHolds
<1>2. CASE s = 1
  <2>1. ReloadScript[1].bit = 7
    BY ReloadSteps DEF Write
  <2>2. ReloadScript[1].on = TRUE
    BY ReloadSteps DEF Write
  <2>3. bitWrite(Held(v, p) \cup {}, 7, TRUE) = Held(v, p) \cup {7}
    BY <1>0 DEF bitWrite, Bits
  <2>4. s + 1 = 2
    BY <1>2
  <2>5. bitWrite(Held(v, p) \cup RelHolds(1), ReloadScript[1].bit, ReloadScript[1].on)
          = Held(v, p) \cup RelHolds(2)
    BY <1>1, <2>1, <2>2, <2>3, Zenon
  <2> QED
    BY <1>2, <2>4, <2>5, Zenon
<1>3. CASE s = 2
  <2>1. ReloadScript[2].bit = 5
    BY ReloadSteps DEF Write
  <2>2. ReloadScript[2].on = TRUE
    BY ReloadSteps DEF Write
  <2>3. bitWrite(Held(v, p) \cup {7}, 5, TRUE) = Held(v, p) \cup {5, 7}
    BY <1>0 DEF bitWrite, Bits
  <2>4. s + 1 = 3
    BY <1>3
  <2>5. bitWrite(Held(v, p) \cup RelHolds(2), ReloadScript[2].bit, ReloadScript[2].on)
          = Held(v, p) \cup RelHolds(3)
    BY <1>1, <2>1, <2>2, <2>3, Zenon
  <2> QED
    BY <1>3, <2>4, <2>5, Zenon
<1>4. CASE s = 3
  <2>1. ReloadScript[3].bit = 5
    BY ReloadSteps DEF Write
  <2>2. ReloadScript[3].on = FALSE
    BY ReloadSteps DEF Write
  <2>3. bitWrite(Held(v, p) \cup {5, 7}, 5, FALSE) = Held(v, p) \cup {7}
    BY <1>0 DEF bitWrite, Bits
  <2>4. s + 1 = 4
    BY <1>4
  <2>5. bitWrite(Held(v, p) \cup RelHolds(3), ReloadScript[3].bit, ReloadScript[3].on)
          = Held(v, p) \cup RelHolds(4)
    BY <1>1, <2>1, <2>2, <2>3, Zenon
  <2> QED
    BY <1>4, <2>4, <2>5, Zenon
<1>5. CASE s = 4
  <2>1. ReloadScript[4].bit = 7
    BY ReloadSteps DEF Write
  <2>2. ReloadScript[4].on = FALSE
    BY ReloadSteps DEF Write
  <2>3. bitWrite(Held(v, p) \cup {7}, 7, FALSE) = Held(v, p) \cup {}
    BY <1>0 DEF bitWrite, Bits
  <2>4. s + 1 = 5
    BY <1>5
  <2>5. bitWrite(Held(v, p) \cup RelHolds(4), ReloadScript[4].bit, ReloadScript[4].on)
          = Held(v, p) \cup RelHolds(5)
    BY <1>1, <2>1, <2>2, <2>3, Zenon
  <2> QED
    BY <1>5, <2>4, <2>5, Zenon
<1>6. CASE s = 5
  <2>1. ReloadScript[5].bit = 6
    BY ReloadSteps DEF Write
  <2>2. ReloadScript[5].on = TRUE
    BY ReloadSteps DEF Write
  <2>3. bitWrite(Held(v, p) \cup {}, 6, TRUE) = Held(v, p) \cup {6}
    BY <1>0 DEF bitWrite, Bits
  <2>4. s + 1 = 6
    BY <1>6
  <2>5. bitWrite(Held(v, p) \cup RelHolds(5), ReloadScript[5].bit, ReloadScript[5].on)
          = Held(v, p) \cup RelHolds(6)
    BY <1>1, <2>1, <2>2, <2>3, Zenon
  <2> QED
    BY <1>6, <2>4, <2>5, Zenon
<1>7. CASE s = 6
  <2>1. ReloadScript[6].bit = 6
    BY ReloadSteps DEF Write
  <2>2. ReloadScript[6].on = FALSE
    BY ReloadSteps DEF Write
  <2>3. bitWrite(Held(v, p) \cup {6}, 6, FALSE) = Held(v, p) \cup {}
    BY <1>0 DEF bitWrite, Bits
  <2>4. s + 1 = 7
    BY <1>7
  <2>5. bitWrite(Held(v, p) \cup RelHolds(6), ReloadScript[6].bit, ReloadScript[6].on)
          = Held(v, p) \cup RelHolds(7)
    BY <1>1, <2>1, <2>2, <2>3, Zenon
  <2> QED
    BY <1>7, <2>4, <2>5, Zenon
<1>8. s = 1 \/ s = 2 \/ s = 3 \/ s = 4 \/ s = 5 \/ s = 6
  OBVIOUS
<1> QED
  BY <1>2, <1>3, <1>4, <1>5, <1>6, <1>7, <1>8, Zenon

-----------------------------------------------------------------------------
(* ReloadThread.                                                           *)

(* It moves on, and its bounds with it; the table stands.                  *)
LEMMA ReloadBounds ==
  ASSUME Timely, SInv, here \notin {32, 33},
         visit' = visit, pc' \in [Threads -> Nat], pc'["table"] = pc["table"],
         pc'["rel"] \in 0..7, left'["table"] = left["table"], left'["rel"] \in Nat,
         timer' = timer, opened' = opened, StartLate' \in Nat,
         Busy' => Busy,
         Busy => left'["rel"] + StartLate' + CycleRest(pc'["rel"])
                   <= left["rel"] + StartLate + CycleRest(pc["rel"]),
         Feeding' => /\ Feeding
                     /\ left'["rel"] + StartLate' + FeedRest(pc'["rel"])
                          <= left["rel"] + StartLate + FeedRest(pc["rel"]),
         Starting' => /\ Starting
                      /\ left'["rel"] + StartLate' <= left["rel"] + StartLate
  PROVE  CycleFits' /\ FeedFits' /\ StartFits' /\ PressureRises' /\ here' = here
<1> DEFINE w == Wait(here, timer)
           a == left["rel"] + StartLate
           b == left'["rel"] + StartLate'
<1>0. TypeOK /\ CycleFits /\ FeedFits /\ StartFits /\ PressureRises
  BY DEF SInv
<1>1. here' = here
  BY DEF here
<1>2. /\ w \in Nat /\ left["table"] \in Nat /\ a \in Nat /\ b \in Nat
      /\ CycleRest(pc["rel"]) \in Nat /\ FeedRest(pc["rel"]) \in Nat
  <2>1. /\ w \in Nat /\ left["table"] \in Nat /\ left["rel"] \in Nat /\ StartLate \in 0..(2 * Late)
        /\ CycleRest(pc["rel"]) \in Nat /\ FeedRest(pc["rel"]) \in Nat /\ Late \in Nat
    BY <1>0, Numbers
  <2> QED
    BY <2>1
<1>3. CycleRest(pc'["rel"]) \in Nat /\ FeedRest(pc'["rel"]) \in Nat
  BY RestNat
<1>4. /\ Units(ToPost(here)) \in Nat /\ Units(ToShot(here)) \in Nat
      /\ Units(ToWrite(here)) \in Nat
  BY <1>0, Here, Lengths, Rules
<1>5. Wait(here', timer') = w
  BY <1>1
<1> HIDE DEF w, a, b
<1>6. Busy' => b + CycleRest(pc'["rel"]) < left["table"] + w + Units(ToPost(here))
  <2>1. Busy => a + CycleRest(pc["rel"]) < left["table"] + w + Units(ToPost(here))
    BY <1>0, Shapes DEF a, w
  <2>2. Busy => b + CycleRest(pc'["rel"]) <= a + CycleRest(pc["rel"])
    BY DEF a, b
  <2> QED
    BY <1>2, <1>3, <1>4, <2>1, <2>2
<1>7. Feeding' => /\ Asked(here)
                  /\ b + FeedRest(pc'["rel"]) < left["table"] + w + Units(ToShot(here))
  <2>1. Feeding => /\ Asked(here)
                   /\ a + FeedRest(pc["rel"]) < left["table"] + w + Units(ToShot(here))
    BY <1>0, Shapes DEF a, w
  <2>2. Feeding' => Feeding /\ b + FeedRest(pc'["rel"]) <= a + FeedRest(pc["rel"])
    BY DEF a, b
  <2> QED
    BY <1>2, <1>3, <1>4, <2>1, <2>2
<1>8. Starting' => /\ here # 5
                   /\ b + 0 < left["table"] + w + Units(ToWrite(here))
  <2>1. Starting => /\ here # 5
                    /\ a + 0 < left["table"] + w + Units(ToWrite(here))
    BY <1>0, Shapes DEF a, w
  <2>2. Starting' => Starting /\ b <= a
    BY DEF a, b
  <2> QED
    BY <1>2, <1>4, <2>1, <2>2
<1>9. PressureRises'
  BY <1>0, <1>1, Shapes, ShapesNext
<1> QED
  BY <1>1, <1>5, <1>6, <1>7, <1>8, <1>9, ShapesNext DEF b

LEMMA PollKeeps ==
  ASSUME Timely, SInv, Poll
  PROVE  SInv'
<1>0. /\ TypeOK /\ Location /\ Turns /\ ValvesFollow
  BY DEF SInv
<1>1. /\ pc["rel"] = 0 /\ cpu = Shared /\ doReloadPt # None
      /\ pc' = [pc EXCEPT !["rel"] = 1]
      /\ UNCHANGED <<SV, doReloadPt, visit, register, cpu, timer, opened, loaded>>
  BY DEF Poll, Requested
<1>2. PICK late \in 0..Late : left' = [left EXCEPT !["rel"] = late]
  BY DEF Poll
<1>3. /\ pc' \in [Threads -> Nat] /\ pc'["rel"] = 1 /\ pc'["table"] = pc["table"]
  BY <1>0, <1>1 DEF TypeOK, Threads
<1>4. Late \in Nat /\ Units(3000) \in Nat
  BY <1>0, Numbers
<1>5. /\ left'["rel"] = late /\ left'["table"] = left["table"]
      /\ left' \in [Threads -> 0..(Units(3000) + Late)]
  <2>1. late \in 0..(Units(3000) + Late)
    BY <1>4
  <2>2. left \in [Threads -> 0..(Units(3000) + Late)]
    BY <1>0 DEF TypeOK
  <2> QED
    BY <1>2, <2>1, <2>2 DEF Threads
<1>6. Busy
  BY <1>0, <1>1 DEF TypeOK, Busy
<1>7. /\ Busy' /\ Feeding /\ Starting /\ Feeding' /\ Starting'
  BY <1>1, <1>3, <1>6 DEF Busy, Feeding, Starting
<1>8. register["rel"] = Empty /\ left["rel"] = 0
  BY <1>0, <1>1 DEF Turns, Location
<1>9. StartLate = 2 * Late /\ StartLate' = Late
  BY <1>1, <1>3, <1>8 DEF StartLate
<1>10. here \notin {32, 33}
  BY <1>0, <1>1 DEF Location, Shared
<1>11. /\ CycleRest(pc'["rel"]) = CycleRest(pc["rel"]) /\ FeedRest(pc'["rel"]) = FeedRest(pc["rel"])
       /\ CycleRest(pc["rel"]) \in Nat /\ FeedRest(pc["rel"]) \in Nat
  <2>1. CycleRest(1) = CycleRest(0) /\ FeedRest(1) = FeedRest(0)
    BY DEF CycleRest, FeedRest
  <2> QED
    BY <1>0, <1>1, <1>3, <2>1, Numbers
<1>12. CycleFits' /\ FeedFits' /\ StartFits' /\ PressureRises' /\ here' = here
  <2>1. late + Late <= 0 + 2 * Late /\ late \in Nat
    BY <1>4
  <2>2. /\ left'["rel"] + StartLate' + CycleRest(pc'["rel"])
             <= left["rel"] + StartLate + CycleRest(pc["rel"])
        /\ left'["rel"] + StartLate' + FeedRest(pc'["rel"])
             <= left["rel"] + StartLate + FeedRest(pc["rel"])
        /\ left'["rel"] + StartLate' <= left["rel"] + StartLate
    BY <1>4, <1>5, <1>8, <1>9, <1>11, <2>1
  <2>3. pc'["rel"] \in 0..7 /\ StartLate' \in Nat /\ left'["rel"] \in Nat
    BY <1>3, <1>4, <1>5, <1>9
  <2> QED
    BY <1>1, <1>3, <1>5, <1>6, <1>7, <1>10, <2>2, <2>3, ReloadBounds
<1>13. TypeOK'
  <2>1. pc'["rel"] \in 0..(Len(ReloadScript) + 1)
    BY <1>3, ReloadSteps
  <2> QED
    BY <1>0, <1>1, <1>3, <1>5, <2>1 DEF TypeOK
<1>14. Location'
  BY <1>0, <1>1, <1>3, <1>5, <1>7, <1>10, <1>12 DEF Location
<1>15. Turns'
  <2>1. register["table"] = Empty
    BY <1>0, <1>1 DEF Turns, Shared
  <2> QED
    BY <1>1, <1>8, <2>1 DEF Turns
<1>16. ValvesFollow'
  <2>1. RelHolds(1) = {} /\ RelHolds(0) = {}
    BY DEF RelHolds
  <2> QED
    BY <1>0, <1>1, <1>3, <1>12, <2>1 DEF ValvesFollow
<1>17. LoadedFollows'
  BY <1>7 DEF LoadedFollows
<1> QED
  BY <1>12, <1>13, <1>14, <1>15, <1>16, <1>17 DEF SInv

LEMMA AtReload ==
  ASSUME TypeOK, AtStep("rel", "write")
  PROVE  /\ pc["rel"] \in 1..6 /\ left["rel"] = 0 /\ cpu \in {"rel", Shared}
         /\ Current("rel") = ReloadScript[pc["rel"]]
BY ReloadSteps DEF AtStep, Running, Script, Current

LEMMA FetchReload ==
  ASSUME Timely, SInv, Fetch("rel")
  PROVE  SInv'
<1>0. /\ TypeOK /\ Location /\ Turns /\ ValvesFollow /\ LoadedFollows
  BY DEF SInv
<1>1. /\ AtStep("rel", "write") /\ register["rel"] = Empty
      /\ register' = [register EXCEPT !["rel"] =
                        bitWrite(SV, Current("rel").bit, Current("rel").on)]
      /\ SV' = SV /\ doReloadPt' = doReloadPt /\ visit' = visit /\ pc' = pc
      /\ timer' = timer /\ opened' = opened /\ loaded' = loaded
  BY DEF Fetch
<1>2. /\ pc["rel"] \in 1..6 /\ left["rel"] = 0 /\ cpu \in {"rel", Shared}
      /\ Current("rel") = ReloadScript[pc["rel"]]
  BY <1>0, <1>1, AtReload
<1>3. Late \in Nat /\ Units(3000) \in Nat /\ left["table"] \in Nat
  BY <1>0, Numbers
<1>4. /\ left' \in [Threads -> 0..(Units(3000) + Late)]
      /\ left'["table"] = left["table"] /\ left'["rel"] \in Nat
      /\ left'["rel"] <= Late
      /\ pc["rel"] # 1 => left'["rel"] = 0 /\ cpu' = "rel"
      /\ pc["rel"] = 1 => cpu' = cpu
  <2>0. left \in [Threads -> 0..(Units(3000) + Late)]
    BY <1>0 DEF TypeOK
  <2>1. CASE pc["rel"] = 1
    <3>1. Preemptible("rel")
      BY <2>1 DEF Preemptible
    <3>2. PICK late \in 0..Late : left' = [left EXCEPT !["rel"] = late]
      BY <3>1 DEF Fetch
    <3>3. late \in 0..(Units(3000) + Late) /\ late \in Nat /\ late <= Late
      BY <1>3
    <3>4. cpu' = cpu
      BY <3>1 DEF Fetch
    <3> QED
      BY <2>0, <2>1, <3>2, <3>3, <3>4 DEF Threads
  <2>2. CASE pc["rel"] # 1
    <3>1. ~Preemptible("rel")
      BY <2>2 DEF Preemptible
    <3>2. left' = left /\ cpu' = "rel"
      BY <3>1 DEF Fetch
    <3> QED
      BY <1>2, <1>3, <2>0, <2>2, <3>2
  <2> QED
    BY <2>1, <2>2
<1>5. here \notin {32, 33}
  BY <1>0, <1>2 DEF Location
<1>6. register["table"] = Empty
  BY <1>0, <1>2 DEF Turns, Shared
<1>7. bitWrite(SV, Current("rel").bit, Current("rel").on) # Empty
  <2>1. bitWrite(SV, Current("rel").bit, Current("rel").on) \in SUBSET Bits
    BY <1>0 DEF TypeOK, bitWrite
  <2> QED
    BY <2>1 DEF Bits, Empty
<1>8. /\ register'["table"] = Empty
      /\ register'["rel"] = bitWrite(SV, Current("rel").bit, Current("rel").on)
      /\ register' \in [Threads -> (SUBSET Bits) \cup {Empty}]
  <2>1. register \in [Threads -> (SUBSET Bits) \cup {Empty}] /\ SV \in SUBSET Bits
    BY <1>0 DEF TypeOK
  <2>2. bitWrite(SV, Current("rel").bit, Current("rel").on) \in SUBSET Bits
    BY <2>1 DEF bitWrite
  <2> HIDE DEF Empty
  <2> QED
    BY <1>1, <1>6, <2>1, <2>2 DEF Threads
<1>9. /\ Busy' <=> Busy
      /\ Feeding' <=> Feeding
      /\ Starting' <=> Starting
      /\ Busy
  BY <1>0, <1>1, <1>2 DEF Busy, Feeding, Starting, Location
<1>10. /\ pc["rel"] = 1 => StartLate = Late /\ StartLate' = 0
       /\ pc["rel"] # 1 => StartLate = 0 /\ StartLate' = 0
  BY <1>1, <1>2, <1>7, <1>8 DEF StartLate
<1>11. left'["rel"] + StartLate' <= left["rel"] + StartLate
  BY <1>2, <1>3, <1>4, <1>10
<1>12. CycleFits' /\ FeedFits' /\ StartFits' /\ PressureRises' /\ here' = here
  <2>1. /\ CycleRest(pc["rel"]) \in Nat /\ FeedRest(pc["rel"]) \in Nat
    BY <1>0, Numbers
  <2>2. StartLate' \in Nat /\ StartLate \in Nat
    BY <1>3, <1>10
  <2>3. /\ left'["rel"] + StartLate' + CycleRest(pc'["rel"])
             <= left["rel"] + StartLate + CycleRest(pc["rel"])
        /\ left'["rel"] + StartLate' + FeedRest(pc'["rel"])
             <= left["rel"] + StartLate + FeedRest(pc["rel"])
    BY <1>1, <1>2, <1>4, <1>11, <2>1, <2>2
  <2>4. pc' \in [Threads -> Nat] /\ pc'["rel"] \in 0..7 /\ pc'["table"] = pc["table"]
    BY <1>0, <1>1, <1>2 DEF TypeOK
  <2> QED
    BY <1>1, <1>4, <1>5, <1>9, <1>11, <2>2, <2>3, <2>4, ReloadBounds
<1>13. TypeOK'
  <2>1. cpu' \in Threads \cup {Shared}
    BY <1>0, <1>4 DEF TypeOK, Threads
  <2> QED
    BY <1>0, <1>1, <1>4, <1>8, <2>1 DEF TypeOK
<1>14. Location'
  BY <1>0, <1>1, <1>2, <1>4, <1>5, <1>9, <1>12 DEF Location
<1>15. Turns'
  BY <1>1, <1>2, <1>4, <1>8 DEF Turns
<1>16. ValvesFollow'
  BY <1>0, <1>1, <1>12 DEF ValvesFollow
<1>17. LoadedFollows'
  BY <1>0, <1>1, <1>9, <1>12 DEF LoadedFollows
<1> QED
  BY <1>12, <1>13, <1>14, <1>15, <1>16, <1>17 DEF SInv

(* What a write of Reload() does.                                          *)
LEMMA ReloadStores ==
  ASSUME Timely, SInv, Store("rel")
  PROVE  /\ pc["rel"] \in 1..6 /\ left["rel"] = 0 /\ StartLate = 0
         /\ visit' = visit /\ timer' = timer /\ doReloadPt' = doReloadPt /\ opened' = opened
         /\ pc' \in [Threads -> Nat] /\ pc'["rel"] = pc["rel"] + 1 /\ pc'["table"] = pc["table"]
         /\ left' \in [Threads -> 0..(Units(3000) + Late)]
         /\ left'["table"] = left["table"]
         /\ left'["rel"] \in Nat
         /\ left'["rel"] <= Units(ReloadScript[pc["rel"]].ms) + Late
         /\ cpu \in {"rel", Shared} /\ cpu' = Shared
         /\ register["table"] = Empty
         /\ register' = [register EXCEPT !["rel"] = Empty]
         /\ visit \in Visits
         /\ SV = Held(visit, here) \cup RelHolds(pc["rel"])
         /\ SV' = Held(visit, here) \cup RelHolds(pc["rel"] + 1)
         /\ Trigger \notin SV' \ SV
         /\ pc["rel"] = 4 <=> 7 \in SV \ SV'
<1>0. TypeOK /\ Location /\ Turns /\ ValvesFollow
  BY DEF SInv
<1>1. /\ AtStep("rel", "write") /\ register["rel"] # Empty
      /\ SV' = register["rel"] /\ register' = [register EXCEPT !["rel"] = Empty]
      /\ NextStep("rel", Units(Current("rel").ms))
      /\ doReloadPt' = doReloadPt /\ visit' = visit /\ timer' = timer
      /\ opened' = IF (SV' \ SV) \cap 0..3 # {} THEN 0 ELSE opened
  BY DEF Store
<1>2. /\ pc["rel"] \in 1..6 /\ left["rel"] = 0 /\ cpu \in {"rel", Shared}
      /\ Current("rel") = ReloadScript[pc["rel"]]
  BY <1>0, <1>1, AtReload
<1>3. register["table"] = Empty
  BY <1>0, <1>2 DEF Turns, Shared
<1>4. StartLate = 0
  BY <1>1, <1>2 DEF StartLate
<1>5. /\ Units(ReloadScript[pc["rel"]].ms) \in 0..Units(3000)
      /\ Units(ReloadScript[pc["rel"]].ms) # 0
  BY <1>2, ReloadMs
<1>6. Late \in Nat /\ Units(3000) \in Nat
  BY <1>0, Numbers
<1>7. /\ pc' = [pc EXCEPT !["rel"] = @ + 1] /\ cpu' = Shared
      /\ \E late \in 0..Late : left' = [left EXCEPT !["rel"] = Units(ReloadScript[pc["rel"]].ms) + late]
  BY <1>1, <1>2, <1>5 DEF NextStep
<1>8. /\ pc' \in [Threads -> Nat] /\ pc'["rel"] = pc["rel"] + 1 /\ pc'["table"] = pc["table"]
  BY <1>0, <1>7 DEF TypeOK, Threads
<1>9. /\ left' \in [Threads -> 0..(Units(3000) + Late)]
      /\ left'["table"] = left["table"]
      /\ left'["rel"] \in Nat
      /\ left'["rel"] <= Units(ReloadScript[pc["rel"]].ms) + Late
  <2> DEFINE u == Units(ReloadScript[pc["rel"]].ms)
  <2>1. PICK late \in 0..Late : left' = [left EXCEPT !["rel"] = u + late]
    BY <1>7
  <2>2. u \in 0..Units(3000)
    BY <1>5
  <2> HIDE DEF u
  <2>3. u + late \in 0..(Units(3000) + Late) /\ u + late \in Nat /\ u + late <= u + Late
    BY <1>6, <2>2
  <2>4. left \in [Threads -> 0..(Units(3000) + Late)]
    BY <1>0 DEF TypeOK
  <2>5. left'["rel"] = u + late /\ left'["table"] = left["table"]
    BY <2>1, <2>4 DEF Threads
  <2>6. left' \in [Threads -> 0..(Units(3000) + Late)]
    <3> DEFINE k == u + late
    <3>1. left' = [left EXCEPT !["rel"] = k] /\ k \in 0..(Units(3000) + Late)
      BY <2>1, <2>3
    <3> HIDE DEF k
    <3> QED
      BY <2>4, <3>1 DEF Threads
  <2> QED
    BY <2>3, <2>5, <2>6 DEF u
<1>10. visit \in Visits
  BY <1>0 DEF TypeOK
<1>11. SV = Held(visit, here) \cup RelHolds(pc["rel"])
  BY <1>0 DEF ValvesFollow
<1>12. SV' = bitWrite(SV, ReloadScript[pc["rel"]].bit, ReloadScript[pc["rel"]].on)
  BY <1>0, <1>1, <1>2 DEF Turns
<1>13. SV' = Held(visit, here) \cup RelHolds(pc["rel"] + 1)
  BY <1>2, <1>10, <1>11, <1>12, RelWrites
<1>14. Trigger \notin SV' \ SV /\ (pc["rel"] = 4 <=> 7 \in SV \ SV')
  <2>1. /\ Trigger \in SV <=> here \in {10, 11, 26, 27, 38, 39}
        /\ Trigger \in SV' <=> here \in {10, 11, 26, 27, 38, 39}
        /\ 7 \in SV <=> pc["rel"] \in 2..4
        /\ 7 \in SV' <=> pc["rel"] + 1 \in 2..4
    BY <1>10, <1>11, <1>13, HeldBits
  <2> QED
    BY <1>2, <2>1
<1>15. (SV' \ SV) \cap 0..3 = {}
  <2>1. RelHolds(pc["rel"] + 1) \subseteq {5, 6, 7}
    BY <1>10, HeldBits
  <2> QED
    BY <1>11, <1>13, <2>1
<1>16. opened' = opened
  BY <1>1, <1>15
<1> QED
  BY <1>1, <1>2, <1>3, <1>4, <1>7, <1>8, <1>9, <1>10, <1>11, <1>13, <1>14, <1>16, Zenon

(* A feed ends with the write of step 4.                                   *)
LEMMA ReloadLoads ==
  ASSUME Timely, SInv, Store("rel")
  PROVE  /\ pc["rel"] = 4 => loaded' = TRUE
         /\ pc["rel"] # 4 => loaded' = loaded
<1>1. loaded' = IF Trigger \in SV' \ SV THEN FALSE
                ELSE IF 7 \in SV \ SV' THEN TRUE ELSE loaded
  BY DEF Store
<1>2. Trigger \notin SV' \ SV /\ (pc["rel"] = 4 <=> 7 \in SV \ SV')
  BY ReloadStores
<1> QED
  BY <1>1, <1>2

LEMMA StoreReload ==
  ASSUME Timely, SInv, Store("rel")
  PROVE  SInv'
<1> DEFINE s == pc["rel"]
<1>0. /\ TypeOK /\ Location /\ Turns /\ LoadedFollows
  BY DEF SInv
<1>1. /\ pc["rel"] \in 1..6 /\ left["rel"] = 0 /\ StartLate = 0
      /\ visit' = visit /\ timer' = timer /\ doReloadPt' = doReloadPt /\ opened' = opened
      /\ pc' \in [Threads -> Nat] /\ pc'["rel"] = pc["rel"] + 1 /\ pc'["table"] = pc["table"]
      /\ left' \in [Threads -> 0..(Units(3000) + Late)]
      /\ left'["table"] = left["table"]
      /\ left'["rel"] \in Nat
      /\ left'["rel"] <= Units(ReloadScript[pc["rel"]].ms) + Late
      /\ cpu' = Shared
      /\ visit \in Visits
      /\ SV' = Held(visit, here) \cup RelHolds(pc["rel"] + 1)
  BY ReloadStores
<1>2. /\ pc["rel"] = 4 => loaded' = TRUE
      /\ pc["rel"] # 4 => loaded' = loaded
  BY ReloadLoads
<1>3. register["table"] = Empty /\ register' = [register EXCEPT !["rel"] = Empty]
  BY ReloadStores
<1>4. Busy /\ Busy'
  BY <1>0, <1>1 DEF Location, Busy
<1>5. here \notin {32, 33}
  BY <1>0, <1>1 DEF Location
<1>6. pc'["rel"] \in 2..7 /\ pc'["rel"] \in 0..7 /\ StartLate' = 0 /\ ~Starting'
  BY <1>1 DEF StartLate, Starting
<1>7. /\ Feeding' => Feeding /\ pc["rel"] <= 3
      /\ Feeding /\ pc["rel"] # 4 => Feeding'
  BY <1>1, <1>4 DEF Feeding
<1>8. /\ Late \in Nat /\ Units(ReloadScript[s].ms) \in Nat
      /\ CycleRest(s) \in Nat /\ FeedRest(s) \in Nat
      /\ CycleRest(s + 1) \in Nat /\ FeedRest(s + 1) \in Nat
      /\ Units(ReloadScript[s].ms) + Late + CycleRest(s + 1) <= CycleRest(s)
      /\ s <= 3 => Units(ReloadScript[s].ms) + Late + FeedRest(s + 1) <= FeedRest(s)
  <2>1. /\ Late \in Nat /\ Units(3000) \in Nat
        /\ CycleRest(s) \in Nat /\ FeedRest(s) \in Nat
    BY <1>0, Numbers
  <2>2. CycleRest(s + 1) \in Nat /\ FeedRest(s + 1) \in Nat
    BY <1>1, <1>6, RestNat
  <2>3. /\ Units(ReloadScript[s].ms) \in 0..Units(3000)
        /\ Units(ReloadScript[s].ms) + Late + CycleRest(s + 1) <= CycleRest(s)
        /\ s <= 3 => Units(ReloadScript[s].ms) + Late + FeedRest(s + 1) <= FeedRest(s)
    BY <1>1, ReloadMs
  <2>4. Units(ReloadScript[s].ms) \in Nat
    BY <2>1, <2>3
  <2> QED
    BY <2>1, <2>2, <2>3, <2>4
<1>9. /\ left'["rel"] + StartLate' + CycleRest(pc'["rel"])
           <= left["rel"] + StartLate + CycleRest(pc["rel"])
      /\ s <= 3 => left'["rel"] + StartLate' + FeedRest(pc'["rel"])
                     <= left["rel"] + StartLate + FeedRest(pc["rel"])
  BY <1>1, <1>6, <1>8
<1>10. CycleFits' /\ FeedFits' /\ StartFits' /\ PressureRises' /\ here' = here
  BY <1>1, <1>4, <1>5, <1>6, <1>7, <1>9, ReloadBounds
<1>11. /\ register'["rel"] = Empty /\ register'["table"] = Empty
       /\ register' \in [Threads -> (SUBSET Bits) \cup {Empty}]
  <2>1. register \in [Threads -> (SUBSET Bits) \cup {Empty}]
    BY <1>0 DEF TypeOK
  <2> HIDE DEF Empty
  <2> QED
    BY <1>3, <2>1 DEF Threads
<1>12. TypeOK'
  <2>1. SV' \subseteq Bits
    BY <1>1, HeldBits
  <2>2. loaded' \in BOOLEAN
    <3>1. loaded \in BOOLEAN
      BY <1>0 DEF TypeOK
    <3> QED
      BY <1>2, <3>1, Zenon
  <2>3. pc'["rel"] \in 0..(Len(ReloadScript) + 1) /\ cpu' \in Threads \cup {Shared}
    BY <1>1, <1>6, ReloadSteps
  <2> QED
    BY <1>0, <1>1, <1>11, <2>1, <2>2, <2>3 DEF TypeOK
<1>13. Location'
  BY <1>0, <1>1, <1>4, <1>5, <1>6, <1>10 DEF Location
<1>14. Turns'
  BY <1>11 DEF Turns
<1>15. ValvesFollow'
  BY <1>1, <1>10 DEF ValvesFollow
<1>16. LoadedFollows'
  BY <1>0, <1>2, <1>7, <1>10 DEF LoadedFollows
<1> QED
  BY <1>10, <1>12, <1>13, <1>14, <1>15, <1>16 DEF SInv

LEMMA FinishKeeps ==
  ASSUME Timely, SInv, FinishReload
  PROVE  SInv'
<1>0. /\ TypeOK /\ Location /\ Turns /\ ValvesFollow /\ LoadedFollows
  BY DEF SInv
<1>1. /\ pc["rel"] = Len(ReloadScript) + 1 /\ left["rel"] = 0 /\ cpu = Shared
      /\ doReloadPt' = None
      /\ pc' = [pc EXCEPT !["rel"] = 0]
      /\ UNCHANGED <<SV, visit, register, left, cpu, timer, opened, loaded>>
  BY DEF FinishReload
<1>2. pc["rel"] = 7
  BY <1>1, ReloadSteps
<1>3. /\ pc' \in [Threads -> Nat] /\ pc'["rel"] = 0 /\ pc'["table"] = pc["table"]
  BY <1>0, <1>1 DEF TypeOK, Threads
<1>4. /\ ~Busy' /\ ~Feeding' /\ ~Starting' /\ ~Feeding
  BY <1>1, <1>2 DEF Busy, Feeding, Starting, None, Reload
<1>5. here \notin {32, 33} /\ here' = here
  BY <1>0, <1>1, <1>2, <1>3 DEF Location, here
<1>6. register["rel"] = Empty /\ register["table"] = Empty
  BY <1>0, <1>1, <1>2 DEF Turns, Shared
<1>7. CycleFits' /\ FeedFits' /\ StartFits'
  BY <1>4 DEF CycleFits, FeedFits, StartFits
<1>8. PressureRises'
  <2>1. PressureRises
    BY DEF SInv
  <2> QED
    BY <1>1, <1>5, <2>1, Shapes, ShapesNext
<1>9. TypeOK'
  <2>1. pc'["rel"] \in 0..(Len(ReloadScript) + 1)
    BY <1>3, ReloadSteps
  <2> QED
    BY <1>0, <1>1, <1>3, <2>1 DEF TypeOK
<1>10. Location'
  BY <1>0, <1>1, <1>3, <1>5 DEF Location
<1>11. Turns'
  BY <1>1, <1>6 DEF Turns
<1>12. ValvesFollow'
  <2>1. RelHolds(7) = {} /\ RelHolds(0) = {}
    BY DEF RelHolds
  <2> QED
    BY <1>0, <1>1, <1>2, <1>3, <1>5, <2>1 DEF ValvesFollow
<1>13. LoadedFollows'
  BY <1>0, <1>1, <1>4, <1>5 DEF LoadedFollows
<1> QED
  BY <1>7, <1>8, <1>9, <1>10, <1>11, <1>12, <1>13 DEF SInv

-----------------------------------------------------------------------------
(* Time passes.                                                            *)

LEMMA TickSpan ==
  ASSUME Timely, SInv, Tick
  PROVE  \E span \in Nat \ {0} :
           /\ left' = [t \in Threads |-> IF left[t] > 0 THEN left[t] - span ELSE 0]
           /\ \A t \in Threads : left[t] > 0 => span <= left[t]
           /\ timer' = Upto(TimerMax, timer + span)
           /\ opened' = Upto(OpenedMax, opened + span)
           /\ left["table"] = 0 => span = 1
<1> DEFINE sleeping == {left[t] : t \in {u \in Threads : left[u] > 0}}
           span == IF Travelling THEN 1 ELSE Min(sleeping)
<1>0. TypeOK
  BY DEF SInv
<1>1. left["table"] \in Nat /\ left["rel"] \in Nat
  BY <1>0, Numbers
<1>2. Idle("table")
  BY DEF Tick, Threads
<1>3. /\ left' = [t \in Threads |-> IF left[t] > 0 THEN left[t] - span ELSE 0]
      /\ timer' = Upto(TimerMax, timer + span)
      /\ opened' = Upto(OpenedMax, opened + span)
  BY DEF Tick
<1>4. left["table"] = 0 => span = 1
  BY <1>2 DEF Idle
<1>5. span \in Nat \ {0} /\ \A t \in Threads : left[t] > 0 => span <= left[t]
  <2>1. CASE Travelling
    BY <1>1, <2>1 DEF Threads
  <2>2. CASE ~Travelling
    <3> DEFINE m == IF left["rel"] > 0 /\ left["rel"] < left["table"]
                    THEN left["rel"] ELSE left["table"]
    <3>1. left["table"] > 0
      BY <1>1, <1>2, <2>2 DEF Idle
    <3>2. m \in sleeping
      BY <3>1 DEF Threads
    <3>3. \A y \in sleeping : m <= y
      BY <1>1, <3>1 DEF Threads
    <3>4. span \in sleeping /\ \A y \in sleeping : span <= y
      <4> HIDE DEF m, sleeping
      <4> QED
        BY <2>2, <3>2, <3>3 DEF Min
    <3> HIDE DEF span
    <3> QED
      BY <1>1, <3>4 DEF Threads
  <2> QED
    BY <2>1, <2>2
<1> HIDE DEF span
<1> QED
  BY <1>3, <1>4, <1>5

(* While the table does not sleep, it is on its way.                       *)
LEMMA OnTheWay ==
  ASSUME Timely, SInv, Tick
  PROVE  /\ left["table"] = 0 => here \in {6, 34, 51, 54}
         /\ register["table"] = Empty
         /\ Busy => left["rel"] > 0
<1>0. TypeOK /\ Turns
  BY DEF SInv
<1>1. left["table"] \in Nat /\ left["rel"] \in Nat
  BY <1>0, Numbers
<1>2. Idle("table") /\ Idle("rel")
  BY DEF Tick, Threads
<1>3. left["table"] = 0 => pc["table"] = 0 \/ AtStep("table", "drive")
  BY <1>2 DEF Idle, Travelling
<1>4. left["table"] = 0 => here \in {6, 34, 51, 54}
  <2>1. pc["table"] = 0 => here = 54
    BY <1>0, Here
  <2>2. AtStep("table", "drive") => here \in {6, 34, 51}
    <3>1. AtStep("table", "drive") => here \in Places \ {54} /\ OpOf(here) = "drive"
      BY <1>0, AtTable
    <3> QED
      BY <3>1, OpPlaces DEF Drives
  <2> QED
    BY <1>3, <2>1, <2>2
<1>5. register["table"] = Empty
  <2>1. register["table"] # Empty => AtStep("table", "write")
    BY <1>0 DEF Turns
  <2>2. AtStep("table", "write") => left["table"] = 0 /\ here \in Places \ {54} /\ OpOf(here) = "write"
    BY <1>0, AtTable
  <2>3. here \in {6, 34, 51, 54} => here \notin Writes
    BY DEF Writes
  <2> QED
    BY <1>4, <2>1, <2>2, <2>3, OpPlaces
<1>6. Busy => left["rel"] > 0
  <2>1. Busy => Requested
    BY DEF Busy, Requested, Reload, None
  <2> QED
    BY <1>2, <2>1 DEF Idle
<1> QED
  BY <1>4, <1>5, <1>6

LEMMA TimePasses ==
  ASSUME Timely, NEW p \in Places, NEW time \in 0..TimerMax
  PROVE  /\ Upto(TimerMax, time + 1) \in 0..TimerMax
         /\ Wait(p, time) <= Wait(p, Upto(TimerMax, time + 1)) + 1
<1>1. /\ TimerMax \in Nat /\ Units(AwaitMs(p)) \in 0..TimerMax
  <2>1. 3000 \in Waits
    BY DEF Waits
  <2>2. Units(3000) \in Nat
    BY <2>1, Rules
  <2> QED
    BY <2>2, WaitNat DEF TimerMax
<1> HIDE DEF TimerMax
<1> QED
  BY <1>1 DEF Upto, Wait

LEMMA TickKeeps ==
  ASSUME Timely, SInv, Tick
  PROVE  SInv'
<1> DEFINE p == here
           w == Wait(p, timer)
           x == Wait(p, timer')
           lt == left["table"]
           lu == left'["table"]
           lr == left["rel"]
           ls == left'["rel"]
<1>0. /\ TypeOK /\ Location /\ Turns /\ ValvesFollow /\ LoadedFollows
      /\ CycleFits /\ FeedFits /\ StartFits /\ PressureRises
  BY DEF SInv
<1>1. PICK span \in Nat \ {0} :
           /\ left' = [t \in Threads |-> IF left[t] > 0 THEN left[t] - span ELSE 0]
           /\ \A t \in Threads : left[t] > 0 => span <= left[t]
           /\ timer' = Upto(TimerMax, timer + span)
           /\ opened' = Upto(OpenedMax, opened + span)
           /\ lt = 0 => span = 1
  BY TickSpan
<1>2. /\ lt = 0 => p \in {6, 34, 51, 54}
      /\ register["table"] = Empty
      /\ Busy => lr > 0
  BY OnTheWay
<1>3. /\ SV' = SV /\ doReloadPt' = doReloadPt /\ visit' = visit /\ pc' = pc
      /\ register' = register /\ cpu' = cpu /\ loaded' = loaded
  BY DEF Tick
<1>4. here' = p
  BY <1>3 DEF here
<1>5. /\ Busy' <=> Busy
      /\ Feeding' <=> Feeding
      /\ Starting' <=> Starting
      /\ StartLate' = StartLate
  BY <1>3, SameReload
<1>6. /\ lt \in Nat /\ lr \in Nat /\ StartLate \in Nat /\ Late \in Nat /\ w \in Nat
      /\ CycleRest(pc["rel"]) \in Nat /\ FeedRest(pc["rel"]) \in Nat
      /\ timer \in 0..TimerMax /\ opened \in 0..OpenedMax
      /\ OpenedMax = Units(3000) /\ TimerMax = Units(3000) /\ Units(3000) \in Nat
  BY <1>0, Numbers
<1>7. /\ p \in Places /\ Units(ToPost(p)) \in Nat /\ Units(ToShot(p)) \in Nat
      /\ Units(ToWrite(p)) \in Nat
  BY <1>0, Here, Lengths, Rules
<1>8. /\ lu = IF lt > 0 THEN lt - span ELSE 0
      /\ ls = IF lr > 0 THEN lr - span ELSE 0
      /\ lt > 0 => span <= lt
      /\ lr > 0 => span <= lr
  BY <1>1 DEF Threads
<1> HIDE DEF p, w, x, lt, lu, lr, ls
<1>9. lu \in Nat /\ ls \in Nat /\ lu <= lt /\ ls <= lr /\ (Busy => ls = lr - span)
  BY <1>2, <1>6, <1>8
<1>10. timer' \in 0..TimerMax /\ opened' \in 0..OpenedMax
  BY <1>1, <1>6 DEF Upto
<1>11. x \in Nat /\ (~Timed(p) => w = 0)
  <2>1. x \in 0..Units(3000)
    BY <1>7, <1>10, WaitNat DEF x
  <2>2. ~Timed(p) => w = 0
    BY <1>6, <1>7, WaitNat DEF w
  <2> QED
    BY <1>6, <2>1, <2>2
<1>12. lt + w <= lu + x + span
  <2>1. CASE lt > 0
    <3>1. w = 0
      BY <1>0, <1>6, <1>11, <2>1 DEF Location, p, lt
    <3> QED
      BY <1>6, <1>8, <1>11, <2>1, <3>1
  <2>2. CASE lt = 0
    <3>1. span = 1
      BY <1>1, <2>2
    <3>2. w <= x + 1
      BY <1>1, <1>6, <1>7, <3>1, TimePasses DEF w, x
    <3> QED
      BY <1>6, <1>9, <1>11, <2>2, <3>1, <3>2
  <2> QED
    BY <1>6, <2>1, <2>2
<1>13. CycleFits'
  <2>1. Busy => lr + StartLate + CycleRest(pc["rel"]) < lt + w + Units(ToPost(p))
    BY <1>0, Shapes DEF lr, lt, w, p
  <2>2. Busy => ls + StartLate + CycleRest(pc["rel"]) < lu + x + Units(ToPost(p))
    BY <1>6, <1>7, <1>9, <1>11, <1>12, <2>1
  <2> QED
    BY <1>3, <1>4, <1>5, <2>2, ShapesNext DEF ls, lu, x
<1>14. FeedFits'
  <2>1. Feeding => Asked(p) /\ lr + StartLate + FeedRest(pc["rel"]) < lt + w + Units(ToShot(p))
    BY <1>0, Shapes DEF lr, lt, w, p
  <2>2. Feeding => Busy
    BY DEF Feeding
  <2>3. Feeding => Asked(p) /\ ls + StartLate + FeedRest(pc["rel"]) < lu + x + Units(ToShot(p))
    BY <1>6, <1>7, <1>9, <1>11, <1>12, <2>1, <2>2
  <2> QED
    BY <1>3, <1>4, <1>5, <2>3, ShapesNext DEF ls, lu, x
<1>15. StartFits'
  <2>1. Starting => \/ p \in {32, 33}
                    \/ p # 5 /\ lr + StartLate + 0 < lt + w + Units(ToWrite(p))
    BY <1>0, Shapes DEF lr, lt, w, p
  <2>2. Starting => Busy
    BY DEF Starting
  <2>3. Starting => \/ p \in {32, 33}
                    \/ p # 5 /\ ls + StartLate + 0 < lu + x + Units(ToWrite(p))
    BY <1>6, <1>7, <1>9, <1>11, <1>12, <2>1, <2>2
  <2> QED
    BY <1>3, <1>4, <1>5, <2>3, ShapesNext DEF ls, lu, x
<1>16. PressureRises'
  <2>1. Primed(p) => opened + (lt + w + Units(ToShot(p))) >= Units(3000)
    BY <1>0, Shapes DEF lt, w, p
  <2>2. Primed(p) => opened' + (lu + x + Units(ToShot(p))) >= Units(3000)
    <3>1. CASE opened + span > OpenedMax
      <4>1. opened' = Units(3000)
        BY <1>1, <1>6, <3>1 DEF Upto
      <4> QED
        BY <1>6, <1>7, <1>9, <1>11, <4>1
    <3>2. CASE ~(opened + span > OpenedMax)
      <4>1. opened' = opened + span
        BY <1>1, <1>6, <3>2 DEF Upto
      <4>2. opened \in Nat
        BY <1>6
      <4> QED
        BY <1>6, <1>7, <1>9, <1>11, <1>12, <2>1, <4>1, <4>2
    <3> QED
      BY <3>1, <3>2
  <2> QED
    BY <1>4, <2>2, ShapesNext DEF lu, x
<1>17. TypeOK'
  <2>1. left' \in [Threads -> 0..(Units(3000) + Late)]
    <3>1. left \in [Threads -> 0..(Units(3000) + Late)]
      BY <1>0 DEF TypeOK
    <3>2. lt \in 0..(Units(3000) + Late) /\ lr \in 0..(Units(3000) + Late)
      BY <3>1 DEF Threads, lt, lr
    <3>3. lu \in 0..(Units(3000) + Late) /\ ls \in 0..(Units(3000) + Late)
      BY <1>6, <1>9, <3>2
    <3>4. left' = [t \in Threads |-> IF t = "table" THEN lu ELSE ls]
      BY <1>1, <1>8 DEF Threads, lt, lr
    <3> QED
      BY <3>3, <3>4
  <2> QED
    BY <1>0, <1>3, <1>10, <2>1 DEF TypeOK
<1>18. Location'
  <2>1. /\ pc["rel"] # 0 => Busy
        /\ pc["rel"] = 0 => lr = 0
        /\ Timed(p) => lt = 0
        /\ p \in {32, 33} => cpu = "table" /\ pc["rel"] = 0
    BY <1>0 DEF Location, p, lr, lt
  <2>2. /\ pc["rel"] = 0 => ls = 0
        /\ Timed(p) => lu = 0
    BY <1>6, <1>8, <2>1
  <2>3. p \notin {5, 33}
    <3>1. p \in {5, 33} => lt = 0
      BY <2>1 DEF Timed
    <3> QED
      BY <1>2, <3>1
  <2> QED
    BY <1>3, <1>4, <1>5, <2>1, <2>2, <2>3 DEF Location, ls, lu
<1>19. Turns'
  BY <1>0, <1>2, <1>3 DEF Turns
<1>20. ValvesFollow' /\ LoadedFollows'
  BY <1>0, <1>3, <1>4, <1>5 DEF ValvesFollow, LoadedFollows, p
<1> QED
  BY <1>13, <1>14, <1>15, <1>16, <1>17, <1>18, <1>19, <1>20 DEF SInv

-----------------------------------------------------------------------------

LEMMA InitEstablishes ==
  ASSUME Timely, Init
  PROVE  SInv
<1>1. /\ SV = {} /\ doReloadPt \in {None, Reload} /\ visit \in Visits
      /\ pc = [t \in Threads |-> 0] /\ register = [t \in Threads |-> Empty]
      /\ left = [t \in Threads |-> 0] /\ cpu = Shared /\ timer = 0 /\ opened = 0
      /\ loaded = TRUE
  BY DEF Init
<1>2. /\ pc["table"] = 0 /\ pc["rel"] = 0 /\ left["table"] = 0 /\ left["rel"] = 0
      /\ register["table"] = Empty /\ register["rel"] = Empty
  BY <1>1 DEF Threads
<1>3. here = 54
  BY <1>1, <1>2, PlaceEnds DEF here
<1>4. /\ Late \in Nat /\ Units(3000) \in Nat /\ Units(7050) \in Nat /\ Units(4550) \in Nat
      /\ Units(1550) \in Nat /\ Units(500) \in Nat /\ Units(5300) \in Nat /\ Units(2800) \in Nat
      /\ Units(6000) \in Nat /\ Units(3500) \in Nat
      /\ Units(6000) <= Units(7050) /\ Units(3500) <= Units(4550) /\ Units(500) <= Units(1550)
      /\ Units(500) > 5 * Late
      /\ Units(5300) + 8 * Late < Units(6000)
      /\ Units(2800) + 5 * Late < Units(3500)
  <2>1. /\ 3000 \in Waits /\ 7050 \in Waits /\ 4550 \in Waits /\ 1550 \in Waits
        /\ 500 \in Waits /\ 5300 \in Waits /\ 2800 \in Waits
        /\ 6000 \in Waits /\ 3500 \in Waits
    BY DEF Waits
  <2> QED
    BY <2>1, Rules
<1>5. /\ ToPost(54) = 7050 /\ ToShot(54) = 4550 /\ ToWrite(54) = 1550
      /\ ~Timed(54) /\ Asked(54) /\ ~Primed(54)
  BY DEF ToPost, ToShot, ToWrite, Timed, Asked, Primed
<1>6. Wait(here, timer) = 0
  BY <1>3, <1>5 DEF Wait
<1>7. /\ StartLate = 2 * Late /\ CycleRest(0) = Units(5300) + 6 * Late
      /\ FeedRest(0) = Units(2800) + 3 * Late
  BY <1>2 DEF StartLate, CycleRest, FeedRest
<1>8. TypeOK
  <2>1. SV \subseteq Bits /\ loaded \in BOOLEAN
    BY <1>1
  <2>2. /\ pc \in [Threads -> Nat] /\ left \in [Threads -> 0..(Units(3000) + Late)]
        /\ cpu \in Threads \cup {Shared} /\ timer \in 0..TimerMax /\ opened \in 0..OpenedMax
    BY <1>1, <1>4 DEF TimerMax, OpenedMax
  <2>3. register \in [Threads -> (SUBSET Bits) \cup {Empty}]
    BY <1>1
  <2>4. pc["table"] \in 0..(Len(Program[visit]) + 1)
    <3>1. Len(Program[visit]) \in Nat
      BY <1>1, ProgramRuns, PlaceEnds DEF Runs
    <3> QED
      BY <1>2, <3>1
  <2>5. pc["rel"] \in 0..(Len(ReloadScript) + 1)
    BY <1>2, ReloadSteps
  <2> QED
    BY <1>1, <2>1, <2>2, <2>3, <2>4, <2>5 DEF TypeOK
<1>9. Location
  BY <1>2, <1>3, <1>5 DEF Location
<1>10. Turns
  BY <1>2 DEF Turns
<1>11. ValvesFollow
  <2>1. Held(visit, 54) = {} /\ RelHolds(0) = {}
    BY DEF Held, RelHolds, Primed
  <2> QED
    BY <1>1, <1>2, <1>3, <2>1 DEF ValvesFollow
<1>12. LoadedFollows
  BY <1>1 DEF LoadedFollows
<1>13. CycleFits /\ FeedFits /\ StartFits /\ PressureRises
  BY <1>2, <1>3, <1>4, <1>5, <1>6, <1>7, Shapes
<1> QED
  BY <1>8, <1>9, <1>10, <1>11, <1>12, <1>13 DEF SInv

LEMMA Stands ==
  ASSUME SInv, UNCHANGED vars
  PROVE  SInv'
<1>1. /\ SV' = SV /\ doReloadPt' = doReloadPt /\ visit' = visit /\ pc' = pc
      /\ register' = register /\ left' = left /\ cpu' = cpu /\ timer' = timer
      /\ opened' = opened /\ loaded' = loaded
  BY DEF vars
<1>2. here' = here
  BY <1>1 DEF here
<1>3. /\ Busy' <=> Busy
      /\ Feeding' <=> Feeding
      /\ Starting' <=> Starting
      /\ StartLate' = StartLate
  BY <1>1, SameReload
<1>4. TypeOK'
  BY <1>1 DEF SInv, TypeOK
<1>5. Location' /\ ValvesFollow' /\ LoadedFollows'
  BY <1>1, <1>2, <1>3 DEF SInv, Location, ValvesFollow, LoadedFollows
<1>6. Turns'
  BY <1>1 DEF SInv, Turns, AtStep, Running, OpAt, Script, Current
<1>7. CycleFits' /\ FeedFits' /\ StartFits' /\ PressureRises'
  BY <1>1, <1>2, <1>3, Shapes, ShapesNext DEF SInv
<1> QED
  BY <1>4, <1>5, <1>6, <1>7 DEF SInv

(* The invariant is kept by every step.                                    *)
LEMMA StepKeeps ==
  ASSUME Timely, SInv, [Next]_vars
  PROVE  SInv'
<1>1. CASE Arrive
  BY <1>1, ArriveKeeps
<1>2. CASE DoPause
  <2>1. /\ AtStep("table", "pause") /\ NextStep("table", Units(Current("table").ms))
        /\ visit' = visit /\ doReloadPt' = doReloadPt /\ timer' = timer
        /\ UNCHANGED <<SV, register, opened, loaded>>
    BY <1>2 DEF DoPause
  <2>2. here \in Moves \cup Writes /\ \E ms \in MsOf(here) : Onward(ms)
    BY <2>1, WaitGoes
  <2>3. here \in Moves
    <3>1. OpOf(here) = "pause" /\ here \in Places
      BY <2>1, AtTable DEF SInv
    <3> QED
      BY <3>1, OpPlaces
  <2> QED
    BY <2>1, <2>2, <2>3, QuietKeeps
<1>3. CASE DoPost
  BY <1>3, PostKeeps
<1>4. CASE DoStartTimer
  <2>1. here \in Timers /\ \E ms \in MsOf(here) : Onward(ms)
    BY <1>4, TimerGoes
  <2>2. UNCHANGED <<SV, register, opened, loaded>>
    BY <1>4 DEF DoStartTimer
  <2> QED
    BY <2>1, <2>2, QuietKeeps
<1>5. CASE DoAwait
  <2>1. here \in Awaits /\ \E ms \in MsOf(here) : Onward(ms)
    BY <1>5, AwaitGoes
  <2>2. UNCHANGED <<SV, register, opened, loaded>>
    BY <1>5 DEF DoAwait
  <2> QED
    BY <2>1, <2>2, QuietKeeps
<1>6. CASE EndDrive
  <2>1. here \in Drives /\ \E ms \in MsOf(here) : Onward(ms)
    BY <1>6, DriveGoes
  <2>2. UNCHANGED <<SV, register, opened, loaded>>
    BY <1>6 DEF EndDrive
  <2> QED
    BY <2>1, <2>2, QuietKeeps
<1>7. CASE Leave
  BY <1>7, LeaveKeeps
<1>8. CASE Fetch("table")
  BY <1>8, FetchTable
<1>9. CASE Store("table")
  BY <1>9, StoreTable
<1>10. CASE Poll
  BY <1>10, PollKeeps
<1>11. CASE FinishReload
  BY <1>11, FinishKeeps
<1>12. CASE Fetch("rel")
  BY <1>12, FetchReload
<1>13. CASE Store("rel")
  BY <1>13, StoreReload
<1>14. CASE Tick
  BY <1>14, TickKeeps
<1>15. CASE UNCHANGED vars
  BY <1>15, Stands
<1> QED
  BY <1>1, <1>2, <1>3, <1>4, <1>5, <1>6, <1>7, <1>8, <1>9, <1>10, <1>11, <1>12,
     <1>13, <1>14, <1>15 DEF Next, Table, ReloadThread

LEMMA Invariance ==
  ASSUME Timely
  PROVE  Spec => []SInv
<1>1. Init => SInv
  BY InitEstablishes
<1>2. SInv /\ [Next]_vars => SInv'
  BY StepKeeps
<1> QED
  BY <1>1, <1>2, PTL DEF Spec

-----------------------------------------------------------------------------
(* The promises.                                                           *)

(* TypeOK holds of every state: the bounds of the clocks and of the waits  *)
(* among them.                                                             *)
THEOREM TypeCorrect ==
  ASSUME Timely
  PROVE  Spec => []TypeOK
<1>1. SInv => TypeOK
  BY DEF SInv
<1> QED
  BY <1>1, Invariance, PTL

(* NoLostUpdate: no bitWrite of one thread falls between the load and the  *)
(* store of the other's.                                                   *)
THEOREM NoUpdateLost ==
  ASSUME Timely
  PROVE  Spec => []NoLostUpdate
<1>1. SInv => NoLostUpdate
  BY DEF SInv, Turns, NoLostUpdate
<1> QED
  BY <1>1, Invariance, PTL

(* FeedClearOfShot: the trigger is open only with the feeding valves       *)
(* closed.                                                                 *)
THEOREM NoFeedDuringShot ==
  ASSUME Timely
  PROVE  Spec => []FeedClearOfShot
<1>1. SInv => FeedClearOfShot
  <2> SUFFICES ASSUME SInv, Trigger \in SV PROVE SV \cap {5, 7} = {}
    BY DEF FeedClearOfShot
  <2>1. visit \in Visits /\ SV = Held(visit, here) \cup RelHolds(pc["rel"])
    BY DEF SInv, TypeOK, ValvesFollow
  <2>2. here \in {10, 11, 26, 27, 38, 39}
    BY <2>1, HeldBits
  <2>3. ~Asked(here)
    BY <2>2 DEF Asked
  <2>4. ~Feeding
    BY <2>3 DEF SInv, FeedFits
  <2>5. pc["rel"] \notin 2..4
    BY <2>4 DEF SInv, Location, Feeding
  <2>6. 7 \notin SV /\ 5 \notin SV
    BY <2>1, <2>5, HeldBits
  <2> QED
    BY <2>6
<1> QED
  BY <1>1, Invariance, PTL

(* VisitStartsClosed: before a visit opens its first launch point only a   *)
(* loader cycle holds valves open.                                         *)
THEOREM ClosedAtStart ==
  ASSUME Timely
  PROVE  Spec => []VisitStartsClosed
<1>1. SInv => VisitStartsClosed
  <2> SUFFICES ASSUME SInv, pc["table"] \in 0..4 PROVE SV \subseteq Loader
    BY DEF VisitStartsClosed
  <2>1. visit \in Visits /\ SV = Held(visit, here) \cup RelHolds(pc["rel"])
    BY DEF SInv, TypeOK, ValvesFollow
  <2>2. here \in 1..4 \cup {54}
    BY Here DEF SInv
  <2>3. Held(visit, here) = {}
    BY <2>2 DEF Held, Primed
  <2>4. RelHolds(pc["rel"]) \subseteq {5, 6, 7}
    BY <2>1, HeldBits
  <2> QED
    BY <2>1, <2>3, <2>4 DEF Loader
<1> QED
  BY <1>1, Invariance, PTL

(* NoRequestLost: MoveForwardTable asks for a loader cycle only when the   *)
(* last one is done and the mailbox empty.                                 *)
THEOREM RequestsKept ==
  ASSUME Timely
  PROVE  Spec => NoRequestLost
<1>1. SInv => [(pc'["table"] = pc["table"] + 1 /\ AtStep("table", "post"))
                 => doReloadPt = None /\ pc["rel"] = 0]_vars
  BY PostsAlone
<1> QED
  BY <1>1, Invariance, PTL DEF NoRequestLost

(* The steps that write no valve.                                          *)
LEMMA NoWrite ==
  ASSUME [Next]_vars
  PROVE  \/ Store("table") \/ Store("rel")
         \/ SV' = SV /\ loaded' = loaded
BY DEF Next, Table, ReloadThread, Arrive, DoPause, DoPost, DoStartTimer, DoAwait,
       EndDrive, Leave, Fetch, Poll, FinishReload, Tick, vars

(* At the moment of a shot.                                                *)
LEMMA AtShot ==
  ASSUME Timely, SInv, Store("table"), here \in {9, 25, 37}
  PROVE  loaded /\ opened = OpenedMax /\ SV \cap 0..3 # {}
<1>0. /\ TypeOK /\ LoadedFollows /\ FeedFits /\ PressureRises
  BY DEF SInv
<1>1. /\ visit \in Visits /\ SV = Held(visit, here) \cup RelHolds(pc["rel"])
  BY TableStores
<1>2. left["table"] = 0
  <2>1. AtStep("table", "write")
    BY DEF Store
  <2> QED
    BY <1>0, <2>1, AtTable
<1>3. ToShot(here) = 0 /\ ~Timed(here) /\ Asked(here) /\ Primed(here)
  BY DEF ToShot, Timed, Asked, Primed
<1>4. Wait(here, timer) = 0
  BY <1>3 DEF Wait
<1>5. /\ left["rel"] \in Nat /\ StartLate \in Nat /\ FeedRest(pc["rel"]) \in Nat
      /\ opened \in 0..OpenedMax /\ OpenedMax = Units(3000) /\ Units(3000) \in Nat
  BY <1>0, Numbers
<1>6. Units(0) = 0
  BY Rules
<1>7. ~Feeding
  <2>1. Feeding => left["rel"] + StartLate + FeedRest(pc["rel"]) < 0 + 0 + 0
    BY <1>0, <1>2, <1>3, <1>4, <1>6, Shapes
  <2> QED
    BY <1>5, <2>1
<1>8. loaded
  BY <1>0, <1>3, <1>7 DEF LoadedFollows
<1>9. opened = OpenedMax
  <2>1. opened + (0 + 0 + 0) >= Units(3000)
    BY <1>0, <1>2, <1>3, <1>4, <1>6, Shapes
  <2> QED
    BY <1>5, <2>1
<1>10. SV \cap 0..3 # {}
  <2>1. Held(visit, here) = {Point(visit, here)}
    BY <1>1, HeldAt
  <2>2. Point(visit, here) \in 0..3
    BY <1>1, PointRange
  <2> QED
    BY <1>1, <2>1, <2>2
<1> QED
  BY <1>8, <1>9, <1>10

(* PressureBeforeShot: the launch point has been open for three seconds    *)
(* when the trigger opens.                                                 *)
THEOREM PressureAtShot ==
  ASSUME Timely
  PROVE  Spec => PressureBeforeShot
<1>1. SInv /\ [Next]_vars
        => [(Trigger \in SV' \ SV) => SV \cap 0..3 # {} /\ opened = OpenedMax]_vars
  <2> SUFFICES ASSUME SInv, [Next]_vars, Trigger \in SV' \ SV
               PROVE  SV \cap 0..3 # {} /\ opened = OpenedMax
    OBVIOUS
  <2>1. CASE Store("table")
    <3>1. here \in {9, 25, 37}
      BY <2>1, TableStores
    <3> QED
      BY <2>1, <3>1, AtShot
  <2>2. CASE Store("rel")
    BY <2>2, ReloadStores
  <2>3. CASE SV' = SV
    BY <2>3
  <2> QED
    BY <2>1, <2>2, <2>3, NoWrite
<1> QED
  BY <1>1, Invariance, PTL DEF Spec, PressureBeforeShot

(* CycleSpec: the two threads implement FiringCycle; shots and feeds       *)
(* alternate, also between visits.                                         *)
THEOREM Alternates ==
  ASSUME Timely
  PROVE  Spec => CycleSpec
<1>1. Init => Cycle!Init
  BY DEF Init, Cycle!Init
<1>2. SInv /\ [Next]_vars => [Cycle!Next]_(Cycle!vars)
  <2> SUFFICES ASSUME SInv, [Next]_vars PROVE [Cycle!Next]_(Cycle!vars)
    OBVIOUS
  <2>1. CASE Store("table")
    <3>1. /\ here \in Writes /\ here' \in After(here) /\ visit \in Visits
          /\ SV = Held(visit, here) \cup RelHolds(pc["rel"])
          /\ SV' = Held(visit, here') \cup RelHolds(pc["rel"])
      BY <2>1, TableStores
    <3>2. /\ Trigger \in SV <=> here \in {10, 11, 26, 27, 38, 39}
          /\ Trigger \in SV' <=> here' \in {10, 11, 26, 27, 38, 39}
      BY <3>1, HeldBits
    <3>3. CASE here \in {9, 25, 37}
      <4>1. Trigger \notin SV /\ Trigger \in SV'
        BY <3>1, <3>2, <3>3 DEF After
      <4>2. loaded
        BY <2>1, <3>3, AtShot
      <4>3. loaded' = FALSE
        BY <2>1, <3>3, TableStores
      <4>4. Cycle!Fire
        BY <4>1, <4>2, <4>3 DEF Cycle!Fire
      <4> QED
        BY <4>4 DEF Cycle!Next
    <3>4. CASE here \in {11, 27, 39}
      <4>1. Trigger \in SV /\ Trigger \notin SV'
        BY <3>1, <3>2, <3>4 DEF After, Seams
      <4>2. loaded' = loaded
        BY <2>1, <3>4, TableStores
      <4>3. Cycle!Release
        BY <4>1, <4>2 DEF Cycle!Release
      <4> QED
        BY <4>3 DEF Cycle!Next
    <3>5. CASE here \notin {9, 11, 25, 27, 37, 39}
      <4>1. Trigger \in SV' <=> Trigger \in SV
        BY <3>1, <3>2, <3>5 DEF Writes, After
      <4>2. loaded' = loaded
        BY <2>1, <3>5, TableStores
      <4> QED
        BY <4>1, <4>2 DEF Cycle!vars
    <3> QED
      BY <3>3, <3>4, <3>5
  <2>2. CASE Store("rel")
    <3>1. /\ visit \in Visits /\ pc["rel"] \in 1..6
          /\ SV = Held(visit, here) \cup RelHolds(pc["rel"])
          /\ SV' = Held(visit, here) \cup RelHolds(pc["rel"] + 1)
      BY <2>2, ReloadStores
    <3>2. /\ Trigger \in SV <=> here \in {10, 11, 26, 27, 38, 39}
          /\ Trigger \in SV' <=> here \in {10, 11, 26, 27, 38, 39}
      BY <3>1, HeldBits
    <3>3. CASE pc["rel"] = 4
      <4>1. Feeding
        BY <3>3 DEF SInv, Location, Feeding
      <4>2. Asked(here)
        BY <4>1 DEF SInv, FeedFits
      <4>3. Trigger \notin SV /\ Trigger \notin SV'
        BY <3>2, <4>2 DEF Asked
      <4>4. loaded' = TRUE
        BY <2>2, <3>3, ReloadLoads
      <4>5. Cycle!Feed
        BY <4>3, <4>4 DEF Cycle!Feed
      <4> QED
        BY <4>5 DEF Cycle!Next
    <3>4. CASE pc["rel"] # 4
      <4>1. loaded' = loaded
        BY <2>2, <3>4, ReloadLoads
      <4> QED
        BY <3>2, <4>1 DEF Cycle!vars
    <3> QED
      BY <3>3, <3>4
  <2>3. CASE SV' = SV /\ loaded' = loaded
    BY <2>3 DEF Cycle!vars
  <2> QED
    BY <2>1, <2>2, <2>3, NoWrite
<1> QED
  BY <1>1, <1>2, Invariance, PTL DEF Spec, CycleSpec, Cycle!Spec

=============================================================================
