----------------------------- MODULE LineSensor -----------------------------
(***************************************************************************)
(* The row of reflection sensors under the robot.  ReadLineMainThread      *)
(* charges one pin after the other and times its discharge; LineEval turns *)
(* the six times into an offset to steer by.  MotorThread and main call    *)
(* LineEval, each at its own pace, while the scan goes on; its static      *)
(* variable old is one for both.                                           *)
(*                                                                         *)
(* A sensor over the line discharges in less than 2200 us: Line is the set *)
(* of the sensors whose last time was below that.  offset says where the   *)
(* line is: at 0 all sensors see it, at n > 0 the first n do not, at -n    *)
(* the last n do not.                                                      *)
(***************************************************************************)
EXTENDS Integers, FiniteSets, FiniteSetsExt

CONSTANTS
  N,          \* the number of sensors: 6 in the code
  Callers     \* the threads that call LineEval

(* With fewer, the line can cross the end of the row between two calls.    *)
ASSUME LineAssumption == N \in Nat /\ N >= 4

Sensors == 0..(N - 1)

VARIABLES
  Line,     \* the sensors whose last reading was below 2200
  pin,      \* the sensor ReadLineMainThread is timing
  rushed,   \* the sensor before it timed out: no wait_ms(1) came between
  old,      \* LineEval: the side on which the line was seen last
  next,     \* per caller: where its call was preempted, 0 if it makes none
  val,      \* per caller: the bits it had collected by then
  split,    \* per caller: a reading was made while it was preempted
  offset,   \* where the line is
  still,    \* the readings since the line last moved, up to N
  called,   \* LineEval has returned during this scan
  inTime,   \* history: readings since the last wrong or missing one, up to N
  doubt,    \* history, per caller: its bits include such a one
  misled    \* history: old rests on such a one

scan  == <<Line, pin, rushed>>
calls == <<old, next, val, split, called>>
vars  == <<scan, calls, offset, still, inTime, doubt, misled>>

(* The sensors that see the line when it is at o.                          *)
Under(o) == IF o >= 0 THEN o..(N - 1) ELSE 0..(N - 1 + o)

Init ==
  /\ Line = Sensors          \* Line[i] = 0
  /\ pin = 0
  /\ rushed = FALSE
  /\ old = 0
  /\ next = [c \in Callers |-> 0]
  /\ val = [c \in Callers |-> {}]
  /\ split = [c \in Callers |-> FALSE]
  /\ offset \in -N..N
  /\ still = N
  /\ called = FALSE
  /\ inTime = 0
  /\ doubt = [c \in Callers |-> FALSE]
  /\ misled = TRUE

-----------------------------------------------------------------------------
(* ReadLineMainThread.                                                     *)

Upto(max, n) == IF n > max THEN max ELSE n

(* LineEval is called far more often than the scan goes round.             *)
NextPin ==
  /\ pin = N - 1 => called
  /\ \A c \in Callers : next[c] # 0 => ~split[c]
  /\ split' = [c \in Callers |-> next[c] # 0]
  /\ pin' = (pin + 1) % N
  /\ called' = (called /\ pin # N - 1)
  /\ still' = Upto(N, still + 1)
  /\ UNCHANGED <<old, next, val, offset, doubt, misled>>

Saw(bit) == Line' = IF bit THEN Line \cup {pin} ELSE Line \ {pin}

(* The pin discharged within 10 ms.                                        *)
Timed ==
  /\ Saw(pin \in Under(offset))
  /\ rushed' = FALSE
  /\ inTime' = Upto(N, inTime + 1)
  /\ NextPin

(* After a pin that timed out the next one follows without wait_ms(1), in  *)
(* a time slice that may end in the middle of the measurement: the Timer   *)
(* runs on meanwhile.                                                      *)
Interrupted ==
  /\ rushed
  /\ pin \in Under(offset)
  /\ Saw(FALSE)
  /\ rushed' = FALSE
  /\ inTime' = 0
  /\ NextPin

(* More than 10 ms, also in such a measurement: Line keeps what it had.    *)
TimedOut ==
  /\ rushed \/ pin \notin Under(offset)
  /\ rushed' = TRUE
  /\ inTime' = 0
  /\ NextPin
  /\ UNCHANGED Line

-----------------------------------------------------------------------------
(* LineEval.                                                               *)

(* Mutation variants: old keeps the answer instead of its side; the side   *)
(* is remembered on the left only.                                         *)
Evaluate_WholeAnswer(on, side) ==
  CASE on \in {Sensors, Sensors \ {0}} -> <<0, side>>
    [] on = {} -> <<N * side, side>>
    [] 0 \in on /\ on # Sensors ->
         <<Cardinality(on) - N, Cardinality(on) - N>>
    [] on # {} /\ 0 \notin on /\ on # Sensors \ {0} -> <<Min(on) - 1, 1>>

Evaluate_LeftOnly(on, side) ==
  CASE on \in {Sensors, Sensors \ {0}} -> <<0, side>>
    [] on = {} -> <<N * side, side>>
    [] 0 \in on /\ on # Sensors -> <<Cardinality(on) - N, -1>>
    [] on # {} /\ 0 \notin on /\ on # Sensors \ {0} -> <<Min(on) - 1, side>>

(* What LineEval returns for the bits it collected, and the new old.  Its  *)
(* right-hand count stops at the first sensor that sees the line, as ! is  *)
(* applied before &; its left-hand count goes over all of them.            *)
Evaluate(on, side) ==
  CASE on \in {Sensors, Sensors \ {0}} -> <<0, side>>
    [] on = {} -> <<N * side, side>>
    [] 0 \in on /\ on # Sensors -> <<Cardinality(on) - N, -1>>
    [] on # {} /\ 0 \notin on /\ on # Sensors \ {0} -> <<Min(on) - 1, 1>>

(* A call is preempted at most once: before the sensor next[c], or, if     *)
(* that is N, before it uses old.                                          *)
Begin(c) ==
  /\ next[c] = 0
  /\ \E k \in 1..N : /\ next' = [next EXCEPT ![c] = k]
                    /\ val' = [val EXCEPT ![c] = Line \cap 0..(k - 1)]
  /\ doubt' = [doubt EXCEPT ![c] = inTime < N]
  /\ UNCHANGED <<scan, old, split, called, offset, still, inTime,
                 misled>>

(* The bits a call has when it has read the rest.                          *)
Bitmap(c) == val[c] \cup (Line \cap next[c]..(N - 1))

Finish(c) ==
  /\ next[c] # 0
  /\ old' = Evaluate(Bitmap(c), old)[2]
  /\ misled' = (doubt[c] \/ inTime < N \/ (misled /\ Bitmap(c) = {}))
  /\ doubt' = [doubt EXCEPT ![c] = FALSE]
  /\ next' = [next EXCEPT ![c] = 0]
  /\ val' = [val EXCEPT ![c] = {}]
  /\ split' = [split EXCEPT ![c] = FALSE]
  /\ called' = TRUE
  /\ UNCHANGED <<scan, offset, still, inTime>>

-----------------------------------------------------------------------------
(* The robot drifts across the line by at most one sensor in a round.      *)
Drift ==
  /\ still = N
  /\ \E step \in {-1, 1} :
       /\ offset + step \in -N..N
       /\ offset' = offset + step
  /\ still' = 0
  /\ UNCHANGED <<scan, calls, inTime, doubt, misled>>

ReadLineMainThread == Timed \/ Interrupted \/ TimedOut

Next == \/ ReadLineMainThread
        \/ \E c \in Callers : Begin(c) \/ Finish(c)
        \/ Drift

Spec == Init /\ [][Next]_vars

-----------------------------------------------------------------------------
(* Properties.                                                             *)

TypeOK ==
  /\ Line \subseteq Sensors
  /\ pin \in Sensors
  /\ rushed \in BOOLEAN
  /\ old \in {-1, 0, 1}
  /\ next \in [Callers -> 0..N]
  /\ val \in [Callers -> SUBSET Sensors]
  /\ split \in [Callers -> BOOLEAN]
  /\ offset \in -N..N
  /\ still \in 0..N
  /\ called \in BOOLEAN
  /\ inTime \in 0..N
  /\ doubt \in [Callers -> BOOLEAN]
  /\ misled \in BOOLEAN

(* The right answer when the line is at o: with five or six sensors on it  *)
(* the robot is centred, with none it is off by all six.                   *)
Exact(o) == IF o \in 1..(N - 1) THEN o - 1 ELSE o

(* However the six readings and the six reads of a call interleave, and    *)
(* whoever of the two callers saw the line last: an answer that rests on   *)
(* readings made in time is right for a line at most two sensors off.      *)
AnswerFollowsLine ==
  [][\A c \in Callers : (next[c] # 0 /\ next'[c] = 0 /\ ~misled') =>
       \E o \in -N..N : /\ o - offset \in -2..2
                        /\ Evaluate(Bitmap(c), old)[1] = Exact(o)]_vars

=============================================================================
