---------------------------- MODULE FiringCycle -----------------------------
(***************************************************************************)
(* What the launcher promises, whoever drives its valves: a shot is fired  *)
(* only with something loaded, a feed completes only with the trigger      *)
(* closed, and so two shots are always separated by a feed.                *)
(***************************************************************************)
VARIABLES trigger,  \* TRUE while the trigger valve is open
          loaded    \* TRUE when a feed has completed since the last shot

vars == <<trigger, loaded>>

Init == trigger = FALSE /\ loaded = TRUE

Fire == /\ ~trigger
        /\ loaded
        /\ trigger' = TRUE
        /\ loaded' = FALSE

Release == /\ trigger
           /\ trigger' = FALSE
           /\ UNCHANGED loaded

Feed == /\ ~trigger
        /\ loaded' = TRUE
        /\ UNCHANGED trigger

Next == Fire \/ Release \/ Feed

Spec == Init /\ [][Next]_vars

=============================================================================
