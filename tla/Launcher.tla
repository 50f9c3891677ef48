------------------------------ MODULE Launcher ------------------------------
(***************************************************************************)
(* Manual operation of the launcher: the operator's clicks are posted in   *)
(* the one-slot mailbox doReloadPt by ManualThread, ReloadThread carries   *)
(* them out, and SVThread - started only if PanelSW[1] read high at boot - *)
(* lets the panel switches drive the same valve byte.                      *)
(*                                                                         *)
(* Nothing in the code synchronises these threads.  RTX runs them          *)
(* preemptively with equal priority, so each bitWrite is two steps here:   *)
(* Fetch loads SV (and doReloadPt, when that names the bit) and computes   *)
(* the new byte in a register, Store writes the register back.  wait() and *)
(* the timer loops are left out: between two writes any time may pass.     *)
(* The buzzer, which no code reads, is left out too.                       *)
(***************************************************************************)
EXTENDS ValveScripts

CONSTANTS
  SVThreadOn,     \* PanelSW[1] at boot: is SVThread running?
  Requests        \* what the buttons may post: {2, 3, -1} in the code

ASSUME LauncherAssumption ==
  /\ SVThreadOn \in BOOLEAN
  /\ Requests \subseteq {-1, 1, 2, 3}

None   == 0    \* doReloadPt: nothing asked for
Reload == -1   \* doReloadPt: a loader cycle asked for

LaunchPts == Requests \ {Reload}

VARIABLES
  SV,           \* the valve byte: the set of its 1 bits
  doReloadPt,   \* the mailbox
  at,           \* per thread: which script it is in, or where it polls
  step,         \* per thread: the next write of that script
  register,     \* per thread: the byte a fetched bitWrite is about to store
  loaded,       \* history: a feed has completed since the last shot
  meddled       \* history: a button was pressed during a launch

vars == <<SV, doReloadPt, at, step, register, loaded, meddled>>

Threads == {"rel"} \cup (IF SVThreadOn THEN {"sv"} ELSE {})

Empty == {-1}   \* a register that holds no byte: not a subset of Bits

(* Where a thread can be: "refill" is the Reload() that ends a launch, and *)
(* "rest" the wait(2.5) after it.                                          *)
Places == {"poll", "dispatch", "launch", "refill", "rest", "reload", "panel"}

TypeOK ==
  /\ SV \subseteq Bits
  /\ doReloadPt \in {None} \cup Requests
  /\ at \in [Threads -> Places]
  /\ step \in [Threads -> 1..7]
  /\ register \in [Threads -> (SUBSET Bits) \cup {Empty}]
  /\ loaded \in BOOLEAN
  /\ meddled \in BOOLEAN

Init ==
  /\ SV = {}
  /\ doReloadPt = None
  /\ at = [t \in Threads |-> "poll"]
  /\ step = [t \in Threads |-> 1]
  /\ register = [t \in Threads |-> Empty]
  /\ loaded = TRUE
  /\ meddled = FALSE

-----------------------------------------------------------------------------
(* Helpers.                                                                *)

(* A shot is the trigger valve opening; a feed ends when valve 7 closes.   *)
History(old, new) ==
  IF Trigger \in new \ old THEN FALSE
  ELSE IF 7 \in old \ new THEN TRUE
  ELSE loaded

(* Mutation variant: the loop over the switches shifted by one bit.        *)
PanelScript_Shifted == [i \in 1..5 |-> Write(i, TRUE, 0)]

(* The writes SVThread makes after SV = 0: the values are read from the    *)
(* switches, so Fetch picks them.                                          *)
PanelScript == [i \in 1..5 |-> Write(i - 1, TRUE, 0)]

Script(where) ==
  CASE where = "launch" -> LaunchScript
    [] where \in {"reload", "refill"} -> ReloadScript
    [] where = "panel"  -> PanelScript

InScript(t) == at[t] \in {"launch", "reload", "refill", "panel"}

Goto(t, where) ==
  /\ at' = [at EXCEPT ![t] = where]
  /\ step' = [step EXCEPT ![t] = 1]

-----------------------------------------------------------------------------
(* The two halves of a bitWrite by thread t.                               *)

Fetch(t) ==
  /\ InScript(t)
  /\ step[t] \in DOMAIN Script(at[t])
  /\ register[t] = Empty
  /\ LET w   == Script(at[t])[step[t]]
         bit == IF w.bit = FromMailbox THEN doReloadPt ELSE w.bit
     IN \E on \in (IF at[t] = "panel" THEN BOOLEAN ELSE {w.on}) :
          register' = [register EXCEPT ![t] = bitWrite(SV, bit, on)]
  /\ UNCHANGED <<SV, doReloadPt, at, step, loaded, meddled>>

Store(t) ==
  /\ register[t] # Empty
  /\ SV' = register[t]
  /\ loaded' = History(SV, register[t])
  /\ register' = [register EXCEPT ![t] = Empty]
  /\ step' = [step EXCEPT ![t] = @ + 1]
  /\ UNCHANGED <<doReloadPt, at, meddled>>

ScriptDone(t, places) ==
  at[t] \in places /\ step[t] \notin DOMAIN Script(at[t])

Return(t) == Goto(t, IF at[t] = "refill" THEN "rest" ELSE "poll")

(* Mutation variant: doReloadPt = 0 forgotten.                             *)
FinishReload_NoReset(t) ==
  /\ ScriptDone(t, {"reload", "refill"})
  /\ Return(t)
  /\ UNCHANGED <<SV, doReloadPt, register, loaded, meddled>>

(* The last statement of Reload(), in whichever thread called it.          *)
FinishReload(t) ==
  /\ ScriptDone(t, {"reload", "refill"})
  /\ doReloadPt' = None
  /\ Return(t)
  /\ UNCHANGED <<SV, register, loaded, meddled>>

-----------------------------------------------------------------------------
(* ReloadThread.  doReloadPt is read once to leave the polling loop and    *)
(* again to choose the branch.                                             *)

Poll ==
  /\ at["rel"] = "poll"
  /\ doReloadPt # None
  /\ Goto("rel", "dispatch")
  /\ UNCHANGED <<SV, doReloadPt, register, loaded, meddled>>

Dispatch ==
  /\ at["rel"] = "dispatch"
  /\ Goto("rel", IF doReloadPt = Reload THEN "reload" ELSE "launch")
  /\ UNCHANGED <<SV, doReloadPt, register, loaded, meddled>>

(* Mutation variant: the launch branch returns without calling Reload().   *)
FinishLaunch_NoReload ==
  /\ ScriptDone("rel", {"launch"})
  /\ doReloadPt' = None
  /\ Goto("rel", "poll")
  /\ UNCHANGED <<SV, register, loaded, meddled>>

FinishLaunch ==
  /\ ScriptDone("rel", {"launch"})
  /\ Goto("rel", "refill")
  /\ UNCHANGED <<SV, doReloadPt, register, loaded, meddled>>

Rested ==
  /\ at["rel"] = "rest"
  /\ Goto("rel", "poll")
  /\ UNCHANGED <<SV, doReloadPt, register, loaded, meddled>>

-----------------------------------------------------------------------------
(* SVThread: PanelSW[3] pressed calls Reload(), otherwise SV is cleared by *)
(* a plain store and rewritten from the switches.                          *)

SVPoll ==
  /\ SVThreadOn
  /\ at["sv"] = "poll"
  /\ \/ /\ Goto("sv", "reload")
        /\ UNCHANGED <<SV, loaded>>
     \/ /\ SV' = {}
        /\ loaded' = History(SV, {})
        /\ Goto("sv", "panel")
  /\ UNCHANGED <<doReloadPt, register, meddled>>

SVPanelDone ==
  /\ SVThreadOn
  /\ ScriptDone("sv", {"panel"})
  /\ Goto("sv", "poll")
  /\ UNCHANGED <<SV, doReloadPt, register, loaded, meddled>>

-----------------------------------------------------------------------------
(* ManualThread: CIRCLE, CROSS and SQUARE overwrite the mailbox, whatever  *)
(* it holds and whatever ReloadThread is doing.                            *)

Click(request) ==
  /\ doReloadPt' = request
  /\ meddled' = (meddled \/ at["rel"] = "launch")
  /\ UNCHANGED <<SV, at, step, register, loaded>>

-----------------------------------------------------------------------------
RelThread ==
  Poll \/ Dispatch \/ FinishLaunch \/ Rested \/ Fetch("rel") \/ Store("rel")
       \/ FinishReload("rel")

SVThread ==
  /\ SVThreadOn
  /\ SVPoll \/ SVPanelDone \/ Fetch("sv") \/ Store("sv") \/ FinishReload("sv")

Operator == \E request \in Requests : Click(request)

Next == RelThread \/ SVThread \/ Operator

Spec == Init /\ [][Next]_vars

(* RTX time-slices threads of equal priority, so a thread that can run     *)
(* does run; the operator need not click.                                  *)
Fairness == WF_vars(RelThread) /\ WF_vars(SVThread)

FairSpec == Spec /\ Fairness

-----------------------------------------------------------------------------
(* Properties.                                                             *)

(* The trigger is never open while any loader valve is: a launch and a     *)
(* loader cycle are sequential in ReloadThread, and no lost update of SV   *)
(* may bring a closed valve back.                                          *)
LoaderClearOfShot == Trigger \in SV => SV \cap Loader = {}

(* Inside the loader, valve 5 is open only while valve 7 is, and valve 6   *)
(* only when both are closed, at every instant of every cycle.             *)
LoaderSequenced ==
  /\ 5 \in SV => 7 \in SV
  /\ 6 \in SV => SV \cap {5, 7} = {}

(* Whatever the operator clicked and whenever, once ReloadThread polls     *)
(* again the trigger and the loader are closed: only launch points that    *)
(* the operator asked for can have been left open.                         *)
IdleIsSafe == at["rel"] = "poll" => SV \subseteq LaunchPts

(* "0 : None" (Utility.h:34): with nothing asked for and ReloadThread      *)
(* polling, nothing is under way, so every valve is closed.                *)
NoneMeansClosed ==
  (at["rel"] = "poll" /\ doReloadPt = None) => SV = {}

(* That does hold as long as no button is pressed during a launch: a click *)
(* in the middle of one changes the point that the launch closes.          *)
ClosedUnlessMeddled == ~meddled => NoneMeansClosed

(* With an operator who is quiet during a launch, the trigger opens with   *)
(* exactly the launch point open that was asked for.                       *)
ShotAtRequestedPoint ==
  [][(Trigger \in SV' \ SV /\ ~meddled) => SV = {doReloadPt}]_vars

(* A request never leaves the launcher stuck: ReloadThread gets back to    *)
(* polling an empty mailbox, even under repeated clicks.                   *)
RequestRetired == (doReloadPt # None) ~> (doReloadPt = None)

(* Shots and feeds alternate as the abstract firing cycle demands.         *)
Cycle == INSTANCE FiringCycle WITH trigger <- (Trigger \in SV), loaded <- loaded

CycleSpec == Cycle!Spec

(* "0 : None" (Utility.h:34): when ReloadThread chooses the launch branch, *)
(* the value it reads for that choice is not None.                         *)
NoneIsNotLaunched ==
  [][(Dispatch /\ at'["rel"] = "launch") => doReloadPt # None]_vars

(* While only the panel is used, the loader valves are open only inside    *)
(* Reload(): mirroring the switches neither opens nor leaves open any.     *)
LoaderOnlyInReload ==
  (SVThreadOn /\ at["sv"] # "reload") => SV \cap Loader = {}

=============================================================================
