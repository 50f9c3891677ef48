--------------------------- MODULE LaunchSchedule ---------------------------
(***************************************************************************)
(* Automatic operation of the launcher.  MotorThread visits the tables and *)
(* MoveForwardTable fires there; it asks ReloadThread for a loader cycle   *)
(* through the mailbox and never waits for the answer.  Both write SV.     *)
(* What keeps them apart is only the lengths of their waits, so time is    *)
(* explicit here: left[t] is the time thread t still sleeps, and Tick lets *)
(* time pass when no thread can act.  SVThread is off: main() starts it by *)
(* the switch PanelSW[1], and it would close whatever the two have opened. *)
(*                                                                         *)
(* A wait() never ends early and ends late by at most Late units: the time *)
(* the other ready threads of the same priority may hold the processor.    *)
(* A bitWrite is two steps, Fetch and Store.  A thread that wakes from a   *)
(* wait() starts a new slice of the round robin, far longer than the       *)
(* statements up to its next wait or loop, so it keeps the processor until *)
(* then: cpu says who.  A bitWrite that follows a loop, as the first one    *)
(* after ReloadThread's poll does, can be preempted for up to Late units.  *)
(* Drives end when they end.                                               *)
(***************************************************************************)
EXTENDS ValveScripts, FiniteSetsExt

CONSTANTS
  Unit,     \* milliseconds in a unit of time
  Late      \* how many units the other threads may keep one waiting

ASSUME ScheduleAssumption ==
  /\ Unit \in Nat \ {0}
  /\ Late \in Nat

Units(ms) == ms \div Unit

None   == 0
Reload == -1

-----------------------------------------------------------------------------
(* The programs of MoveForwardTable: steps, each followed by a wait.       *)

Step(op, ms) == [op |-> op, bit |-> 0, on |-> FALSE, ms |-> ms]

Pause(ms)     == Step("pause", ms)    \* nothing the valves depend on
Post(ms)      == Step("post", ms)     \* doReloadPt = -1
StartTimer    == Step("timer", 0)     \* t.reset(); t.start()
Await(ms)     == Step("await", ms)    \* while(t.read_ms() < ms)
Drive         == Step("drive", 0)     \* a loop on Distance or on an encoder

Valve(bit, on, ms) == [op |-> "write", bit |-> bit, on |-> on, ms |-> ms]

(* Mutation variant of Fire: the launch point is left open.                *)
Fire_PointLeft(pt, hold) ==
  << Valve(Trigger, TRUE, 1000), Pause(hold), Valve(Trigger, FALSE, 0) >>

Fire(pt, hold) ==
  << Valve(Trigger, TRUE, 1000), Valve(pt, FALSE, hold),
     Valve(Trigger, FALSE, 0) >>

Approach(pt) ==
  << Pause(50), Pause(1000), Pause(500), StartTimer, Valve(pt, TRUE, 0),
     Drive, Await(2000), Pause(1000) >> \o Fire(pt, 500)

(* Mutation variant of Again: its wait for the loader is too short.        *)
Again_TooSoon(pt, move) ==
  << Pause(move), Valve(pt, TRUE, 500), Post(1500), Pause(1000) >>
    \o Fire(pt, 500)

(* Mutation variant of Again: the loader is not asked for.                 *)
Again_NoPost(pt, move) ==
  << Pause(move), Valve(pt, TRUE, 500), Pause(2500), Pause(1000) >>
    \o Fire(pt, 500)

(* One more shot at the same table, after moving aside for move ms.        *)
Again(pt, move) ==
  << Pause(move), Valve(pt, TRUE, 500), Post(2500), Pause(1000) >>
    \o Fire(pt, 500)

(* Mutation variants of Second: the launch point is opened when the drive  *)
(* has ended; the Timer of the first shot is not restarted.                *)
Second_AfterDrive(hold) ==
  << Post(0), StartTimer, Drive, Valve(3, TRUE, 0), Await(3000),
     Pause(1000) >> \o Fire(3, hold)

Second_SameTimer(hold) ==
  << Post(0), Valve(3, TRUE, 0), Drive, Await(3000), Pause(1000) >>
    \o Fire(3, hold)

(* The shot from the second stop of the visit to point 0, with point 3.    *)
Second(hold) ==
  << Post(0), StartTimer, Valve(3, TRUE, 0), Drive, Await(3000),
     Pause(1000) >> \o Fire(3, hold)

AtPointZero(side) ==
  IF side
  THEN << Pause(800), Pause(1000) >> \o Second(700)
         \o Again(3, 800) \o Again(3, 800)
  ELSE << Pause(1500) >> \o Second(500)

Return == << Drive, Pause(1000), Post(0) >>

(* side is !BoardSW[0]; loop is round_(SlideVol + 1).                      *)
Visits == { v \in [pt : {0, 2, 3}, loop : {1, 2}, side : BOOLEAN] :
              /\ v.pt = 0 => v.loop = 1
              /\ v.pt # 0 => ~v.side }

Program == [v \in Visits |->
  Approach(v.pt) \o (IF v.loop = 2 THEN Again(v.pt, 700) ELSE << >>)
    \o (IF v.pt = 0 THEN AtPointZero(v.side) ELSE << >>) \o Return]

-----------------------------------------------------------------------------
VARIABLES
  SV, doReloadPt,
  visit,      \* the visit MoveForwardTable is making
  pc,         \* per thread: the next step; 0 for a thread between programs
  register,   \* per thread: the byte a fetched bitWrite is about to store
  left,       \* per thread: the time it still sleeps
  cpu,        \* the thread that cannot be preempted now, or Shared
  timer,      \* the Timer t of MoveForwardTable, up to TimerMax
  opened,     \* history: time since a launch point was last opened
  loaded      \* history: a feed has completed since the last shot

vars == <<SV, doReloadPt, visit, pc, register, left, cpu, timer, opened,
          loaded>>

Threads == {"table", "rel"}

Empty  == {-1}
Shared == "shared"

(* Bounds of the two clocks: nothing compares them with a longer time.     *)
TimerMax  == Units(3000)
OpenedMax == Units(3000)

Script(t) == IF t = "rel" THEN ReloadScript ELSE Program[visit]

(* The operator may have asked for a loader cycle just before.             *)
Init ==
  /\ SV = {}
  /\ doReloadPt \in {None, Reload}
  /\ visit \in Visits
  /\ pc = [t \in Threads |-> 0]
  /\ register = [t \in Threads |-> Empty]
  /\ left = [t \in Threads |-> 0]
  /\ cpu = Shared
  /\ timer = 0
  /\ opened = 0
  /\ loaded = TRUE

-----------------------------------------------------------------------------
Running(t) == pc[t] \in DOMAIN Script(t) /\ left[t] = 0 /\ cpu \in {t, Shared}

Current(t) == Script(t)[pc[t]]

OpAt(t, n) == IF n \notin DOMAIN Script(t) THEN "end"
              ELSE IF t = "rel" THEN "write" ELSE Script(t)[n].op

AtStep(t, op) == Running(t) /\ OpAt(t, pc[t]) = op

(* Go on to the next step, at once or after a wait of so many units.       *)
NextStep(t, units) ==
  /\ pc' = [pc EXCEPT ![t] = @ + 1]
  /\ IF units = 0 THEN UNCHANGED left
     ELSE \E late \in 0..Late : left' = [left EXCEPT ![t] = units + late]
  /\ cpu' = IF units = 0 /\ OpAt(t, pc[t] + 1) \notin {"drive", "await", "end"}
            THEN t ELSE Shared

(* A bitWrite reached from a loop rather than from a wait.                 *)
Preemptible(t) == IF t = "rel" THEN pc[t] = 1
                  ELSE OpAt(t, pc[t] - 1) \in {"drive", "await"}

Fetch(t) ==
  /\ AtStep(t, "write")
  /\ register[t] = Empty
  /\ register' = [register EXCEPT
                    ![t] = bitWrite(SV, Current(t).bit, Current(t).on)]
  /\ IF Preemptible(t)
     THEN /\ \E late \in 0..Late : left' = [left EXCEPT ![t] = late]
          /\ UNCHANGED cpu
     ELSE /\ cpu' = t
          /\ UNCHANGED left
  /\ UNCHANGED <<SV, doReloadPt, visit, pc, timer, opened, loaded>>

Store(t) ==
  /\ AtStep(t, "write")
  /\ register[t] # Empty
  /\ SV' = register[t]
  /\ register' = [register EXCEPT ![t] = Empty]
  /\ opened' = IF (SV' \ SV) \cap 0..3 # {} THEN 0 ELSE opened
  /\ loaded' = IF Trigger \in SV' \ SV THEN FALSE
               ELSE IF 7 \in SV \ SV' THEN TRUE ELSE loaded
  /\ NextStep(t, Units(Current(t).ms))
  /\ UNCHANGED <<doReloadPt, visit, timer>>

-----------------------------------------------------------------------------
(* MoveForwardTable, in ManualThread's thread.                             *)

(* MotorThread reaches the next table: point 0 any number of times while   *)
(* PanelSW[0] is high, then 2, then 3, then automatic mode anew.           *)
Follows(old, new) ==
  CASE old.pt = 0 -> new.pt \in {0, 2}
    [] old.pt = 2 -> new.pt = 3
    [] old.pt = 3 -> new.pt \in {0, 2}

Arrive ==
  /\ pc["table"] = 0
  /\ pc' = [pc EXCEPT !["table"] = 1]
  /\ UNCHANGED <<SV, doReloadPt, visit, register, left, cpu, timer, opened,
                 loaded>>

DoPause ==
  /\ AtStep("table", "pause")
  /\ NextStep("table", Units(Current("table").ms))
  /\ UNCHANGED <<SV, doReloadPt, visit, register, timer, opened, loaded>>

DoPost ==
  /\ AtStep("table", "post")
  /\ doReloadPt' = Reload
  /\ NextStep("table", Units(Current("table").ms))
  /\ UNCHANGED <<SV, visit, register, timer, opened, loaded>>

DoStartTimer ==
  /\ AtStep("table", "timer")
  /\ timer' = 0
  /\ NextStep("table", 0)
  /\ UNCHANGED <<SV, doReloadPt, visit, register, opened, loaded>>

(* Mutation variant: the time already passed is not cut off at ms.         *)
DoAwait_NoCut ==
  /\ AtStep("table", "await")
  /\ NextStep("table", Units(Current("table").ms) - timer)
  /\ UNCHANGED <<SV, doReloadPt, visit, register, timer, opened, loaded>>

DoAwait ==
  /\ AtStep("table", "await")
  /\ LET rest == Units(Current("table").ms) - timer
     IN NextStep("table", IF rest > 0 THEN rest ELSE 0)
  /\ UNCHANGED <<SV, doReloadPt, visit, register, timer, opened, loaded>>

EndDrive ==
  /\ AtStep("table", "drive")
  /\ NextStep("table", 0)
  /\ UNCHANGED <<SV, doReloadPt, visit, register, timer, opened, loaded>>

Leave ==
  /\ pc["table"] = Len(Program[visit]) + 1
  /\ left["table"] = 0
  /\ visit' \in {v \in Visits : Follows(visit, v)}
  /\ pc' = [pc EXCEPT !["table"] = 0]
  /\ UNCHANGED <<SV, doReloadPt, register, left, cpu, timer, opened,
                 loaded>>

-----------------------------------------------------------------------------
(* ReloadThread: a request seen by the poll starts Reload(), whose last    *)
(* statement empties the mailbox.                                          *)

(* Mutation variant: the test for a launch point taken for the one for a   *)
(* request.                                                                *)
Requested_Point == doReloadPt > 0

Requested == doReloadPt # None

Poll ==
  /\ pc["rel"] = 0 /\ cpu = Shared
  /\ Requested
  /\ pc' = [pc EXCEPT !["rel"] = 1]
  /\ \E late \in 0..Late : left' = [left EXCEPT !["rel"] = late]
  /\ UNCHANGED <<SV, doReloadPt, visit, register, cpu, timer, opened, loaded>>

FinishReload ==
  /\ pc["rel"] = Len(ReloadScript) + 1
  /\ left["rel"] = 0 /\ cpu = Shared
  /\ doReloadPt' = None
  /\ pc' = [pc EXCEPT !["rel"] = 0]
  /\ UNCHANGED <<SV, visit, register, left, cpu, timer, opened,
                 loaded>>

-----------------------------------------------------------------------------
(* Time passes when no thread but a driving one has anything to do: to the *)
(* next wake-up or, during a drive, by single units.                       *)
Travelling == pc["table"] = 0 \/ AtStep("table", "drive")

Idle(t) == \/ left[t] > 0
           \/ t = "table" /\ Travelling
           \/ t = "rel" /\ pc["rel"] = 0 /\ ~Requested

Upto(max, time) == IF time > max THEN max ELSE time

Tick ==
  /\ \A t \in Threads : Idle(t)
  /\ LET sleeping == {left[t] : t \in {u \in Threads : left[u] > 0}}
         span == IF Travelling THEN 1 ELSE Min(sleeping)
     IN /\ left' = [t \in Threads |-> IF left[t] > 0 THEN left[t] - span ELSE 0]
        /\ timer' = Upto(TimerMax, timer + span)
        /\ opened' = Upto(OpenedMax, opened + span)
  /\ UNCHANGED <<SV, doReloadPt, visit, pc, register, cpu, loaded>>

Table == \/ Arrive \/ DoPause \/ DoPost \/ DoStartTimer \/ DoAwait
         \/ EndDrive \/ Leave \/ Fetch("table") \/ Store("table")

ReloadThread == Poll \/ FinishReload \/ Fetch("rel") \/ Store("rel")

Next == Table \/ ReloadThread \/ Tick

Spec == Init /\ [][Next]_vars

(* Time passes and what can run does.  The clocks stop at their bounds, so *)
(* this says as well that a drive ends; one whose sensor is silent does    *)
(* not, and only the emergency stop ends that.                             *)
Fairness == WF_vars(Next)

FairSpec == Spec /\ Fairness

-----------------------------------------------------------------------------
(* Properties.                                                             *)

TypeOK ==
  /\ SV \subseteq Bits
  /\ doReloadPt \in {None, Reload}
  /\ visit \in Visits
  /\ pc \in [Threads -> Nat]
  /\ pc["table"] \in 0..(Len(Program[visit]) + 1)
  /\ pc["rel"] \in 0..(Len(ReloadScript) + 1)
  /\ register \in [Threads -> (SUBSET Bits) \cup {Empty}]
  /\ left \in [Threads -> 0..(Units(3000) + Late)]
  /\ cpu \in Threads \cup {Shared}
  /\ timer \in 0..TimerMax
  /\ opened \in 0..OpenedMax
  /\ loaded \in BOOLEAN

(* doReloadPt holds one request and Reload() empties it at its end without *)
(* looking: a request is lost unless it is posted when ReloadThread polls  *)
(* an empty mailbox.  Nothing but the waits sees to that.                  *)
NoRequestLost ==
  [][(pc'["table"] = pc["table"] + 1 /\ AtStep("table", "post"))
       => doReloadPt = None /\ pc["rel"] = 0]_vars

(* No bitWrite of one thread falls between the load and the store of the   *)
(* other's: a valve never moves back because a stale byte was written.     *)
NoLostUpdate == register["table"] = Empty \/ register["rel"] = Empty

(* The trigger is open only with the feeding valves 5 and 7 closed.        *)
FeedClearOfShot == Trigger \in SV => SV \cap {5, 7} = {}

(* A shot is fired only with a launch point that has been open for three   *)
(* seconds, however short the drive to the table was.                      *)
PressureBeforeShot ==
  [][(Trigger \in SV' \ SV) => SV \cap 0..3 # {} /\ opened = OpenedMax]_vars

(* Before a visit opens its first launch point nothing of the earlier one  *)
(* is left open but what a loader cycle holds.                             *)
VisitStartsClosed == pc["table"] \in 0..4 => SV \subseteq Loader

(* Every request for the loader is carried out.                            *)
RequestServed == (doReloadPt = Reload) ~> (doReloadPt = None)

(* Shots and feeds alternate, also between visits.                         *)
Cycle == INSTANCE FiringCycle WITH trigger <- (Trigger \in SV), loaded <- loaded

CycleSpec == Cycle!Spec

=============================================================================
