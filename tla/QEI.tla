-------------------------------- MODULE QEI ---------------------------------
(***************************************************************************)
(* The quadrature encoder of a measuring wheel.  Interrupts on the edges   *)
(* of channel A (and B, in X4 encoding) count pulses, an interrupt on the  *)
(* index channel rounds the count to a whole number of revolutions since   *)
(* the first index, and threads call reset().                              *)
(*                                                                         *)
(* The disc moves by quarter steps of a line.  An edge only marks its      *)
(* interrupt pending; the handler runs later, once however many edges      *)
(* came meanwhile, and reads the channels as they are by then.  reset() is *)
(* three stores that the handlers may come between and the wheel may turn  *)
(* during.  Which way counts up is a convention of q: the diagrams in      *)
(* QEI.cpp have the channels in the other order.                           *)
(***************************************************************************)
EXTENDS Integers

CONSTANTS
  Encodings,     \* the arguments of the constructor to check: "X2", "X4"
  Lines,         \* lines on the disc
  pulsesPerRev,  \* the argument of the constructor
  Reach,         \* bound: the disc turns within 0..Reach quarter steps
  Starts,        \* bound: where the disc is at power-on and when reset() is called
  MaxIndex,      \* bound: index pulses between two resets
  MaxLate        \* bound: quarter steps moved with an interrupt pending,
                 \* from one index or reset() to the next

(* A revolution is a whole number of the pulses index() rounds to.         *)
ASSUME QEIAssumption ==
  /\ Encodings \subseteq {"X2", "X4"}
  /\ Lines \in Nat \ {0} /\ pulsesPerRev \in Nat \ {0}
  /\ (2 * Lines) % pulsesPerRev = 0
  /\ {Reach, MaxIndex, MaxLate} \subseteq Nat
  /\ Starts \subseteq 0..Reach

VARIABLES
  encoding_,    \* as constructed
  q,            \* position of the disc, in quarter steps
  pending,      \* channels whose interrupt is pending
  prevState,    \* <<A, B>> as encode() last read them
  pulses, revolutions, firstZ, Zshift,
  at,           \* of the thread: "idle", or the store of reset() it is at
  zero,         \* history: the true count at reset() or, once there was one, at
                \* the first index after it
  late,         \* history: late quarter steps since the last index or reset()
  torn          \* history: an index came between the stores of the last reset(),
                \* and none has come since it returned

vars == <<encoding_, q, pending, prevState, pulses, revolutions, firstZ, Zshift, at, zero, late, torn>>

pulsesPerRev_ == IF encoding_ = "X4" THEN 2 * pulsesPerRev ELSE pulsesPerRev

-----------------------------------------------------------------------------
(* The disc.  A and B follow a Gray code, 00 01 11 10, over the four       *)
(* quarter steps of a line; the index is high for one quarter step.        *)
A(p) == (p % 4) \div 2
B(p) == ((p + 1) % 4) \div 2
Z(p) == p % (4 * Lines) = 0

channels(p) == <<A(p), B(p)>>

(* The edges of the observed channels between 0 and p.                     *)
Count(p) == IF encoding_ = "X4" THEN p ELSE (p + 2) \div 4 + p \div 4

Edges(from, to) ==
  {c \in {"A", "B", "Z"} :
     \/ c = "A" /\ A(from) # A(to)
     \/ c = "B" /\ B(from) # B(to) /\ encoding_ = "X4"
     \/ c = "Z" /\ Z(to)}

(* While no handler is late the disc waits for it.                         *)
Turn ==
  /\ pending # {} => late < MaxLate
  /\ \E to \in {q - 1, q + 1} :
       /\ to \in 0..Reach
       /\ "Z" \in Edges(q, to) => revolutions < MaxIndex
       /\ q' = to
       /\ pending' = pending \cup Edges(q, to)
       /\ late' = late + (IF pending = {} THEN 0 ELSE 1)
  /\ UNCHANGED <<encoding_, prevState, pulses, revolutions, firstZ, Zshift, at, zero, torn>>

Init ==
  /\ encoding_ \in Encodings
  /\ q \in Starts
  /\ pending = {}
  /\ prevState = channels(q)
  /\ pulses = 0 /\ revolutions = 0 /\ firstZ = TRUE
  /\ Zshift = 0
  /\ at = "idle" /\ zero = Count(q) /\ late = 0 /\ torn = FALSE

-----------------------------------------------------------------------------
(* What encode() adds to pulses.                                           *)
X2Change(prev, curr) ==
  IF prev[1] = curr[1] \/ prev[2] = curr[2] THEN 0
  ELSE IF curr[1] = curr[2] THEN 1 ELSE -1

X4Change(prev, curr) ==
  IF (prev[1] = curr[1]) <=> (prev[2] = curr[2]) THEN 0
  ELSE IF prev[2] = curr[1] THEN 1 ELSE -1

Change(prev, curr) ==
  IF encoding_ = "X4" THEN X4Change(prev, curr) ELSE X2Change(prev, curr)

encode(c) ==
  /\ c \in pending \ {"Z"}
  /\ pending' = pending \ {c}
  /\ pulses' = pulses + Change(prevState, channels(q))
  /\ prevState' = channels(q)
  /\ UNCHANGED <<encoding_, q, revolutions, firstZ, Zshift, at, zero, late, torn>>

(* Division and remainder of C, which truncate towards zero.               *)
Quotient(n, d) == IF n >= 0 THEN n \div d ELSE -((-n) \div d)
Remainder(n, d) == n - d * Quotient(n, d)

(* Mutation variant: no rounding below zero.                                *)
Nearest_UpOnly(pls) ==
  LET x == Remainder(pls, pulsesPerRev_)
      y == Quotient(pls, pulsesPerRev_)
      half == pulsesPerRev_ \div 2
  IN IF pls > 0 /\ x > half THEN y + 1 ELSE y

(* The whole number of revolutions nearest to pls, half of one rounding    *)
(* towards zero.                                                           *)
Nearest(pls) ==
  LET x == Remainder(pls, pulsesPerRev_)
      y == Quotient(pls, pulsesPerRev_)
      half == pulsesPerRev_ \div 2
  IN CASE pls > 0 /\ x > half -> y + 1
       [] pls <= 0 /\ x < -half -> y - 1
       [] OTHER -> y

(* Mutation variant: the interrupt stays raised.                           *)
index_Raised ==
  /\ "Z" \in pending /\ Z(q)
  /\ IF firstZ THEN Zshift' = pulses /\ firstZ' = FALSE
     ELSE UNCHANGED <<Zshift, firstZ>>
  /\ revolutions' = revolutions + 1
  /\ pulses' = pulsesPerRev_ * Nearest(pulses - Zshift') + Zshift'
  /\ zero' = IF at # "idle" THEN 0 ELSE IF firstZ THEN Count(q) ELSE zero
  /\ late' = 0 /\ torn' = (at # "idle")
  /\ UNCHANGED <<encoding_, q, pending, prevState, at>>

index ==
  /\ "Z" \in pending /\ Z(q)
  /\ IF firstZ THEN Zshift' = pulses /\ firstZ' = FALSE
     ELSE UNCHANGED <<Zshift, firstZ>>
  /\ revolutions' = revolutions + 1
  /\ pulses' = pulsesPerRev_ * Nearest(pulses - Zshift') + Zshift'
  /\ pending' = pending \ {"Z"}
  /\ zero' = IF at # "idle" THEN 0 ELSE IF firstZ THEN Count(q) ELSE zero
  /\ late' = 0 /\ torn' = (at # "idle")
  /\ UNCHANGED <<encoding_, q, prevState, at>>

(* The pin is low again when the handler looks: it takes the edge for a    *)
(* fall, which nothing is attached to.                                     *)
indexMissed ==
  /\ "Z" \in pending /\ ~Z(q)
  /\ pending' = pending \ {"Z"}
  /\ UNCHANGED <<encoding_, q, prevState, pulses, revolutions, firstZ, Zshift, at, zero, late, torn>>

-----------------------------------------------------------------------------
(* reset(), store by store, by a thread that does not ask whether the      *)
(* wheel turns.                                                            *)
resetPulses ==
  /\ at = "idle" /\ q \in Starts
  /\ pulses' = 0
  /\ zero' = Count(q) /\ late' = 0 /\ torn' = FALSE
  /\ at' = "revolutions"
  /\ UNCHANGED <<encoding_, q, pending, prevState, revolutions, firstZ, Zshift>>

resetRevolutions ==
  /\ at = "revolutions"
  /\ revolutions' = 0
  /\ at' = "firstZ"
  /\ UNCHANGED <<encoding_, q, pending, prevState, pulses, firstZ, Zshift, zero, late, torn>>

(* Mutation variant: reset() leaves firstZ alone.                          *)
resetFirstZ_Left ==
  /\ at = "firstZ"
  /\ at' = "idle"
  /\ UNCHANGED <<encoding_, q, pending, prevState, pulses, revolutions, firstZ, Zshift, zero, late, torn>>

resetFirstZ ==
  /\ at = "firstZ"
  /\ firstZ' = TRUE
  /\ at' = "idle"
  /\ UNCHANGED <<encoding_, q, pending, prevState, pulses, revolutions, Zshift, zero, late, torn>>

reset == resetPulses \/ resetRevolutions \/ resetFirstZ

Next == Turn \/ (\E c \in {"A", "B"} : encode(c)) \/ index \/ indexMissed \/ reset

Spec == Init /\ [][Next]_vars

-----------------------------------------------------------------------------
(* Properties.                                                             *)

TypeOK ==
  /\ encoding_ \in Encodings
  /\ q \in 0..Reach
  /\ pending \subseteq {"A", "B", "Z"}
  /\ prevState \in (0..1) \X (0..1)
  /\ pulses \in Int /\ Zshift \in Int
  /\ zero \in Int
  /\ revolutions \in 0..MaxIndex /\ firstZ \in BOOLEAN
  /\ at \in {"idle", "revolutions", "firstZ"}
  /\ late \in 0..MaxLate
  /\ torn \in BOOLEAN

(* How far the count is from the edges that went by since reset() or, once *)
(* there was one, since the first index after it.                          *)
Drift ==
  (IF firstZ \/ at # "idle" THEN pulses ELSE pulses - Zshift)
    - (Count(q) - zero)

Abs(n) == IF n < 0 THEN -n ELSE n

(* The count follows the disc, to the edge whose interrupt an index or a   *)
(* reset() overtook and, in X2, one more that a change of direction        *)
(* leaves; plus what late handlers have lost since.  Dithering about an    *)
(* edge, turning back, resetting while the wheel turns and any number of   *)
(* revolutions add nothing.  Left out: the count after a reset() that an   *)
(* index came in the middle of, until the next index.                      *)
Slack == IF encoding_ = "X4" THEN 1 ELSE 2

DriftBounded ==
  pending = {} /\ ~torn => Abs(Drift) <= Slack + 2 * late

(* An index pulse outside reset() takes out every count lost since the one *)
(* before, or left by a reset() that one came in the middle of, and never  *)
(* moves the count by a revolution.                                        *)
IndexCorrects ==
  [][revolutions' > revolutions /\ at = "idle" => Drift' = 0]_vars


=============================================================================
