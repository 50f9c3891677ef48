--------------------------- MODULE LauncherProofs ---------------------------
(***************************************************************************)
(* Proofs about Launcher, for every set of requests the buttons may post,  *)
(* when SVThread is not running: ReloadThread is then the only writer of   *)
(* SV, and the invariant ties the valves to its program location.  The     *)
(* last part is about the panel alone: SVThread and no request.            *)
(***************************************************************************)
EXTENDS Launcher, TLAPS

Upper == 4..7      \* the trigger and the loader

(* The upper valves that are open when the next write is number s.         *)
LoaderOpen(s) ==
  {v \in Loader : \/ v = 7 /\ s \in 2..4
                  \/ v = 5 /\ s = 3
                  \/ v = 6 /\ s = 6}

TriggerOpen(s) == {v \in {Trigger} : s \in 3..4}

Open(where, s) ==
  {v \in Upper : \/ where = "launch" /\ v \in TriggerOpen(s)
                 \/ where \in {"reload", "refill"} /\ v \in LoaderOpen(s)}

(* The launcher waits for its feed from the opening of the trigger to the  *)
(* closing of valve 7 in the Reload() that follows.                        *)
Unfed(where, s) == \/ where = "launch" /\ s \in 3..5
                   \/ where = "refill" /\ s \in 1..4

Location ==
  /\ at["rel"] \notin {"launch", "refill", "reload"} => step["rel"] = 1
  /\ at["rel"] = "launch" => step["rel"] \in 1..5
  /\ at["rel"] # "panel"
  /\ at["rel"] \in {"dispatch", "launch"} => doReloadPt # None

ValvesFollow ==
  /\ SV \cap Upper = Open(at["rel"], step["rel"])
  /\ SV \ Upper \subseteq LaunchPts

RegisterFollows ==
  register["rel"] # Empty =>
    /\ at["rel"] = "launch" => step["rel"] \in 1..4
    /\ at["rel"] \in {"reload", "refill"} => step["rel"] \in 1..6
    /\ at["rel"] \in {"launch", "reload", "refill"}
    /\ register["rel"] \in SUBSET Bits
    /\ register["rel"] \cap Upper = Open(at["rel"], step["rel"] + 1)
    /\ register["rel"] \ Upper \subseteq LaunchPts

LoadedFollows == loaded <=> ~Unfed(at["rel"], step["rel"])

IInv == TypeOK /\ Location /\ ValvesFollow /\ RegisterFollows /\ LoadedFollows

-----------------------------------------------------------------------------
(* What bitWrite does to the byte: it changes at most the bit it names.    *)
LEMMA SetBit ==
  ASSUME NEW value, NEW bit \in Bits
  PROVE  bitWrite(value, bit, TRUE) = value \cup {bit}
BY DEF bitWrite, Bits

LEMMA SetNoBit ==
  ASSUME NEW value
  PROVE  bitWrite(value, -1, TRUE) = value
BY DEF bitWrite, Bits

LEMMA ClearBit ==
  ASSUME NEW value, NEW bit
  PROVE  bitWrite(value, bit, FALSE) = value \ {bit}
BY DEF bitWrite

(* The four writes of a launch and the six of a loader cycle.              *)
LEMMA LaunchWrites ==
  /\ DOMAIN LaunchScript = 1..4
  /\ LaunchScript[1] = [bit |-> FromMailbox, on |-> TRUE, ms |-> 3000]
  /\ LaunchScript[2] = [bit |-> Trigger, on |-> TRUE, ms |-> 1000]
  /\ LaunchScript[3] = [bit |-> FromMailbox, on |-> FALSE, ms |-> 500]
  /\ LaunchScript[4] = [bit |-> Trigger, on |-> FALSE, ms |-> 500]
BY DEF LaunchScript, Write

LEMMA ReloadWrites ==
  /\ DOMAIN ReloadScript = 1..6
  /\ ReloadScript[1] = [bit |-> 7, on |-> TRUE, ms |-> 800]
  /\ ReloadScript[2] = [bit |-> 5, on |-> TRUE, ms |-> 1500]
  /\ ReloadScript[3] = [bit |-> 5, on |-> FALSE, ms |-> 500]
  /\ ReloadScript[4] = [bit |-> 7, on |-> FALSE, ms |-> 500]
  /\ ReloadScript[5] = [bit |-> 6, on |-> TRUE, ms |-> 1000]
  /\ ReloadScript[6] = [bit |-> 6, on |-> FALSE, ms |-> 1000]
BY DEF ReloadScript, Write

Point == {-1, 1, 2, 3}   \* what a non-empty mailbox can hold

(* Which write a fetch can be at, and what it makes of the byte.           *)
LEMMA LaunchStep ==
  ASSUME NEW s \in DOMAIN LaunchScript, NEW value \in SUBSET Bits,
         NEW point \in Point, NEW bit, NEW new, NEW on,
         bit = (IF LaunchScript[s].bit = FromMailbox
                THEN point ELSE LaunchScript[s].bit),
         on = LaunchScript[s].on,
         new = bitWrite(value, bit, on)
  PROVE  \/ s = 1 /\ new = value /\ point = -1
         \/ s = 1 /\ new = value \cup {point} /\ point # -1
         \/ s = 2 /\ new = value \cup {Trigger}
         \/ s = 3 /\ new = value \ {point}
         \/ s = 4 /\ new = value \ {Trigger}
<1>1. \/ s = 1 /\ bit = point /\ on = TRUE
      \/ s = 2 /\ bit = Trigger /\ on = TRUE
      \/ s = 3 /\ bit = point /\ on = FALSE
      \/ s = 4 /\ bit = Trigger /\ on = FALSE
  BY LaunchWrites DEF Trigger, FromMailbox
<1>2. CASE s = 1 /\ bit = point /\ on = TRUE /\ point = -1
  BY <1>2, SetNoBit
<1>3. CASE s = 1 /\ bit = point /\ on = TRUE /\ point # -1
  <2>1. point \in Bits
    BY <1>3 DEF Bits, Point
  <2>2. new = bitWrite(value, point, TRUE)
    BY <1>3
  <2> QED
    BY <2>1, <2>2, <1>3, SetBit
<1>4. CASE s = 2 /\ bit = Trigger /\ on = TRUE
  <2>1. Trigger \in Bits
    BY DEF Trigger, Bits
  <2>2. new = bitWrite(value, Trigger, TRUE)
    BY <1>4
  <2> QED
    BY <2>1, <2>2, <1>4, SetBit
<1>5. CASE s \in {3, 4} /\ on = FALSE
  BY <1>1, <1>5, ClearBit
<1> QED
  BY <1>1, <1>2, <1>3, <1>4, <1>5

LEMMA ReloadStep ==
  ASSUME NEW s \in DOMAIN ReloadScript, NEW value \in SUBSET Bits,
         NEW point, NEW bit, NEW new, NEW on,
         bit = (IF ReloadScript[s].bit = FromMailbox
                THEN point ELSE ReloadScript[s].bit),
         on = ReloadScript[s].on,
         new = bitWrite(value, bit, on)
  PROVE  \/ s = 1 /\ new = value \cup {7}
         \/ s = 2 /\ new = value \cup {5}
         \/ s = 3 /\ new = value \ {5}
         \/ s = 4 /\ new = value \ {7}
         \/ s = 5 /\ new = value \cup {6}
         \/ s = 6 /\ new = value \ {6}
<1>1. \/ s = 1 /\ bit = 7 /\ on = TRUE
      \/ s = 2 /\ bit = 5 /\ on = TRUE
      \/ s = 3 /\ bit = 5 /\ on = FALSE
      \/ s = 4 /\ bit = 7 /\ on = FALSE
      \/ s = 5 /\ bit = 6 /\ on = TRUE
      \/ s = 6 /\ bit = 6 /\ on = FALSE
  BY ReloadWrites DEF FromMailbox
<1>2. on = TRUE => new = value \cup {bit}
  <2>1. bit \in Bits
    BY <1>1 DEF Bits
  <2> QED
    BY <2>1, SetBit
<1>3. on = FALSE => new = value \ {bit}
  BY ClearBit
<1> QED
  BY <1>1, <1>2, <1>3

-----------------------------------------------------------------------------
(* Membership in Open, spelt out.                                          *)
LEMMA OpenMembers ==
  ASSUME NEW s
  PROVE  /\ Trigger \in Upper /\ 7 \in Upper
         /\ Trigger \in Open("launch", s) <=> s \in 3..4
         /\ 7 \notin Open("launch", s)
         /\ \A where \in {"reload", "refill"} :
              /\ 7 \in Open(where, s) <=> s \in 2..4
              /\ Trigger \notin Open(where, s)
BY DEF Open, Upper, TriggerOpen, LoaderOpen, Loader, Trigger

LEMMA InitEstablishes ==
  ASSUME ~SVThreadOn, Init
  PROVE  IInv
<1>1. Threads = {"rel"}
  BY DEF Threads
<1>2. TypeOK
  <2>1. loaded \in BOOLEAN /\ meddled \in BOOLEAN
    BY DEF Init
  <2> QED
    BY <1>1, <2>1 DEF Init, TypeOK, Places, None, Empty
<1>3. Location
  BY <1>1 DEF Init, Location
<1>4. ValvesFollow
  BY <1>1 DEF Init, ValvesFollow, Open, Upper
<1>5. RegisterFollows
  BY <1>1 DEF Init, RegisterFollows
<1>6. LoadedFollows
  BY <1>1 DEF Init, LoadedFollows, Unfed
<1> QED
  BY <1>2, <1>3, <1>4, <1>5, <1>6 DEF IInv

(* The byte that a fetch puts in the register.                             *)
Fetched ==
  LET w == Script(at["rel"])[step["rel"]]
  IN bitWrite(SV, IF w.bit = FromMailbox THEN doReloadPt ELSE w.bit, w.on)

LEMMA FetchKeeps ==
  ASSUME ~SVThreadOn, IInv, Fetch("rel")
  PROVE  /\ at["rel"] \in {"launch", "reload", "refill"}
         /\ step["rel"] \in DOMAIN Script(at["rel"])
         /\ register' = [register EXCEPT !["rel"] = Fetched]
         /\ UNCHANGED <<SV, doReloadPt, at, step, loaded, meddled>>
<1>1. /\ at["rel"] \in {"launch", "reload", "refill"}
      /\ step["rel"] \in DOMAIN Script(at["rel"])
  BY DEF IInv, TypeOK, Location, Fetch, InScript, Places, Threads
<1>2. register' = [register EXCEPT !["rel"] = Fetched]
  BY <1>1 DEF Fetch, Fetched
<1> QED
  BY <1>1, <1>2 DEF Fetch

LEMMA FetchedInLaunch ==
  ASSUME ~SVThreadOn, IInv, Fetch("rel"), at["rel"] = "launch"
  PROVE  /\ doReloadPt \in {-1} \cup LaunchPts /\ LaunchPts \subseteq {1, 2, 3}
         /\ \/ step["rel"] = 1 /\ Fetched = SV /\ doReloadPt = -1
            \/ /\ step["rel"] = 1 /\ Fetched = SV \cup {doReloadPt}
               /\ doReloadPt # -1
            \/ step["rel"] = 2 /\ Fetched = SV \cup {Trigger}
            \/ step["rel"] = 3 /\ Fetched = SV \ {doReloadPt}
            \/ step["rel"] = 4 /\ Fetched = SV \ {Trigger}
<1> DEFINE s   == step["rel"]
           w   == LaunchScript[s]
           bit == IF w.bit = FromMailbox THEN doReloadPt ELSE w.bit
           on  == w.on
<1>1. doReloadPt \in {-1} \cup LaunchPts /\ LaunchPts \subseteq {1, 2, 3}
  BY LauncherAssumption DEF IInv, TypeOK, Location, LaunchPts, None, Reload
<1>2. Script(at["rel"]) = LaunchScript
  BY DEF Script
<1>3. doReloadPt \in Point /\ s \in DOMAIN LaunchScript /\ SV \in SUBSET Bits
  BY <1>1, <1>2, FetchKeeps DEF Point, IInv, TypeOK
<1>4. Fetched = bitWrite(SV, bit, on)
  BY <1>2 DEF Fetched
<1>5. /\ bit = IF LaunchScript[s].bit = FromMailbox
                THEN doReloadPt ELSE LaunchScript[s].bit
      /\ on = LaunchScript[s].on
  OBVIOUS
<1> HIDE DEF s, w, bit, on
<1>6. \/ s = 1 /\ Fetched = SV /\ doReloadPt = -1
      \/ s = 1 /\ Fetched = SV \cup {doReloadPt} /\ doReloadPt # -1
      \/ s = 2 /\ Fetched = SV \cup {Trigger}
      \/ s = 3 /\ Fetched = SV \ {doReloadPt}
      \/ s = 4 /\ Fetched = SV \ {Trigger}
  BY <1>3, <1>4, <1>5, LaunchStep
<1> QED
  BY <1>1, <1>6 DEF s

LEMMA FetchedInReload ==
  ASSUME ~SVThreadOn, IInv, Fetch("rel"), at["rel"] \in {"reload", "refill"}
  PROVE  \/ step["rel"] = 1 /\ Fetched = SV \cup {7}
         \/ step["rel"] = 2 /\ Fetched = SV \cup {5}
         \/ step["rel"] = 3 /\ Fetched = SV \ {5}
         \/ step["rel"] = 4 /\ Fetched = SV \ {7}
         \/ step["rel"] = 5 /\ Fetched = SV \cup {6}
         \/ step["rel"] = 6 /\ Fetched = SV \ {6}
<1> DEFINE s   == step["rel"]
           w   == ReloadScript[s]
           bit == IF w.bit = FromMailbox THEN doReloadPt ELSE w.bit
           on  == w.on
<1>1. Script(at["rel"]) = ReloadScript
  BY DEF Script
<1>2. s \in DOMAIN ReloadScript /\ SV \in SUBSET Bits
  BY <1>1, FetchKeeps DEF IInv, TypeOK
<1>3. Fetched = bitWrite(SV, bit, on)
  BY <1>1 DEF Fetched
<1>4. /\ bit = IF ReloadScript[s].bit = FromMailbox
                THEN doReloadPt ELSE ReloadScript[s].bit
      /\ on = ReloadScript[s].on
  OBVIOUS
<1> HIDE DEF s, w, bit, on
<1>5. \/ s = 1 /\ Fetched = SV \cup {7}
      \/ s = 2 /\ Fetched = SV \cup {5}
      \/ s = 3 /\ Fetched = SV \ {5}
      \/ s = 4 /\ Fetched = SV \ {7}
      \/ s = 5 /\ Fetched = SV \cup {6}
      \/ s = 6 /\ Fetched = SV \ {6}
  BY <1>2, <1>3, <1>4, ReloadStep
<1> QED
  BY <1>5 DEF s

(* The load half of a bitWrite: the byte put in the register is the byte   *)
(* that the next location calls for.                                       *)
LEMMA FetchPreserves ==
  ASSUME ~SVThreadOn, IInv, Fetch("rel")
  PROVE  IInv'
<1> DEFINE where == at["rel"]
           s     == step["rel"]
<1>1. Threads = {"rel"}
  BY DEF Threads
<1>2. SV \in SUBSET Bits /\ s \in 1..7
  BY <1>1 DEF IInv, TypeOK
<1>3. where \in {"launch", "reload", "refill"}
  BY FetchKeeps
<1>4. register' = [register EXCEPT !["rel"] = Fetched]
  BY FetchKeeps
<1>5. UNCHANGED <<SV, doReloadPt, at, step, loaded, meddled>>
  BY FetchKeeps
<1>6. SV \cap Upper = Open(where, s) /\ SV \ Upper \subseteq LaunchPts
  BY DEF IInv, ValvesFollow
<1>7. /\ where = "launch" => s \in 1..4
      /\ where \in {"reload", "refill"} => s \in 1..6
      /\ Fetched \in SUBSET Bits
      /\ Fetched \cap Upper = Open(where, s + 1)
      /\ Fetched \ Upper \subseteq LaunchPts
  <2>1. CASE where = "launch"
    <3>1. doReloadPt \in {-1} \cup LaunchPts /\ LaunchPts \subseteq {1, 2, 3}
      BY <2>1, FetchedInLaunch
    <3>2. \/ s = 1 /\ Fetched = SV /\ doReloadPt = -1
          \/ s = 1 /\ Fetched = SV \cup {doReloadPt} /\ doReloadPt # -1
          \/ s = 2 /\ Fetched = SV \cup {Trigger}
          \/ s = 3 /\ Fetched = SV \ {doReloadPt}
          \/ s = 4 /\ Fetched = SV \ {Trigger}
      BY <2>1, FetchedInLaunch
    <3> HIDE DEF s
    <3>3. s \in 1..4
      BY <3>2
    <3>4. \/ Fetched \subseteq SV
          \/ Fetched = SV \cup {doReloadPt} /\ doReloadPt \in LaunchPts
          \/ Fetched = SV \cup {4}
      BY <3>1, <3>2 DEF Trigger
    <3>5. Fetched \in SUBSET Bits
      <4>1. LaunchPts \subseteq Bits /\ 4 \in Bits
        BY <3>1 DEF Bits
      <4> QED
        BY <4>1, <3>4, <1>2
    <3>6. Fetched \ Upper \subseteq LaunchPts
      <4>1. 4 \in Upper
        BY DEF Upper
      <4> QED
        BY <4>1, <3>4, <1>6
    <3>7. Fetched \cap Upper = IF s \in {2, 3} THEN {Trigger} ELSE {}
      <4>1. SV \cap Upper = IF s \in {3, 4} THEN {Trigger} ELSE {}
        BY <2>1, <3>3, <1>6 DEF Open, TriggerOpen, Upper, Trigger
      <4> QED
        BY <3>1, <3>2, <4>1 DEF Upper, Trigger
    <3> QED
      BY <2>1, <3>3, <3>5, <3>6, <3>7 DEF Open, TriggerOpen, Upper, Trigger
  <2>2. CASE where \in {"reload", "refill"}
    <3>1. \/ s = 1 /\ Fetched = SV \cup {7}
          \/ s = 2 /\ Fetched = SV \cup {5}
          \/ s = 3 /\ Fetched = SV \ {5}
          \/ s = 4 /\ Fetched = SV \ {7}
          \/ s = 5 /\ Fetched = SV \cup {6}
          \/ s = 6 /\ Fetched = SV \ {6}
      BY <2>2, FetchedInReload
    <3> HIDE DEF s
    <3>2. s \in 1..6
      BY <3>1
    <3>3. Fetched \in SUBSET Bits /\ Fetched \ Upper \subseteq LaunchPts
      <4>1. Fetched \subseteq SV \cup {5, 6, 7}
        BY <3>1
      <4> QED
        BY <4>1, <1>2, <1>6 DEF Upper, Bits
    <3>4. Fetched \cap Upper = LoaderOpen(s + 1)
      <4>1. SV \cap Upper = LoaderOpen(s)
        BY <2>2, <1>6 DEF Open, LoaderOpen, Loader, Upper
      <4> QED
        BY <3>1, <4>1 DEF LoaderOpen, Loader, Upper
    <3> QED
      BY <2>2, <3>2, <3>3, <3>4 DEF Open, LoaderOpen, Loader, Upper
  <2> QED
    BY <1>3, <2>1, <2>2
<1>8. /\ register' \in [Threads -> (SUBSET Bits) \cup {Empty}]
      /\ register'["rel"] = Fetched
  BY <1>1, <1>4, <1>7 DEF IInv, TypeOK
<1>9. TypeOK'
  BY <1>1, <1>5, <1>8 DEF IInv, TypeOK, Threads
<1>10. Location' /\ ValvesFollow' /\ LoadedFollows'
  BY <1>5 DEF IInv, Location, ValvesFollow, LoadedFollows
<1>11. RegisterFollows'
  BY <1>3, <1>5, <1>7, <1>8 DEF RegisterFollows
<1> QED
  BY <1>9, <1>10, <1>11 DEF IInv

(* The store half: the byte in the register becomes SV.                    *)
LEMMA StorePreserves ==
  ASSUME ~SVThreadOn, IInv, Store("rel")
  PROVE  IInv'
<1> DEFINE where == at["rel"]
           s     == step["rel"]
           new   == register["rel"]
<1>1. Threads = {"rel"}
  BY DEF Threads
<1>2. new # Empty
  BY DEF Store
<1>3. /\ where \in {"launch", "reload", "refill"}
      /\ where = "launch" => s \in 1..4
      /\ where \in {"reload", "refill"} => s \in 1..6
      /\ new \in SUBSET Bits
      /\ new \cap Upper = Open(where, s + 1)
      /\ new \ Upper \subseteq LaunchPts
  BY <1>2 DEF IInv, RegisterFollows
<1>4. SV' = new /\ loaded' = History(SV, new) /\ UNCHANGED <<doReloadPt, at>>
  BY DEF Store
<1>5. /\ register' = [register EXCEPT !["rel"] = Empty]
      /\ step' = [step EXCEPT !["rel"] = s + 1]
  BY DEF Store
<1>6. /\ register["rel"] \in (SUBSET Bits) \cup {Empty}
      /\ register' \in [Threads -> (SUBSET Bits) \cup {Empty}]
      /\ register'["rel"] = Empty
      /\ step' \in [Threads -> 1..7]
      /\ step'["rel"] = s + 1
  BY <1>1, <1>3, <1>5 DEF IInv, TypeOK
<1>7. TypeOK'
  <2>1. meddled' = meddled
    BY DEF Store
  <2> QED
    BY <1>1, <1>3, <1>4, <1>6, <2>1 DEF IInv, TypeOK, Threads, History
<1>8. Location'
  <2>1. doReloadPt' = doReloadPt /\ at' = at
    BY <1>4
  <2>2. where = "launch" => s + 1 \in 1..5
    BY <1>3
  <2> QED
    BY <1>3, <1>6, <2>1, <2>2 DEF IInv, Location
<1>9. ValvesFollow'
  BY <1>3, <1>4, <1>6 DEF ValvesFollow
<1>10. RegisterFollows'
  BY <1>6 DEF RegisterFollows
<1>11. LoadedFollows'
  <2>1. SV \cap Upper = Open(where, s)
    BY DEF IInv, ValvesFollow
  <2>2. /\ Trigger \in new \ SV <=> where = "launch" /\ s = 2
        /\ 7 \in SV \ new <=> where \in {"reload", "refill"} /\ s = 4
    <3>1. CASE where = "launch"
      <4>1. (Trigger \in SV <=> s \in 3..4) /\ 7 \notin SV
        BY <2>1, <3>1, OpenMembers
      <4>2. Trigger \in new <=> s + 1 \in 3..4
        BY <3>1, <1>3, OpenMembers
      <4> QED
        BY <3>1, <4>1, <4>2, <1>3
    <3>2. CASE where \in {"reload", "refill"}
      <4>1. 7 \in SV <=> s \in 2..4
        BY <2>1, <3>2, OpenMembers
      <4>2. (7 \in new <=> s + 1 \in 2..4) /\ Trigger \notin new
        BY <3>2, <1>3, OpenMembers
      <4> QED
        BY <3>2, <4>1, <4>2, <1>3
    <3> QED
      BY <1>3, <3>1, <3>2
  <2>3. /\ where = "launch" /\ s = 2 => Unfed(where, s + 1)
        /\ where \in {"reload", "refill"} /\ s = 4 => ~Unfed(where, s + 1)
        /\ ~(where = "launch" /\ s = 2)
              /\ ~(where \in {"reload", "refill"} /\ s = 4)
           => (Unfed(where, s) <=> Unfed(where, s + 1))
    BY <1>3 DEF Unfed
  <2>4. at'["rel"] = where /\ step'["rel"] = s + 1
    BY <1>4, <1>6
  <2>5. loaded <=> ~Unfed(where, s)
    BY DEF IInv, LoadedFollows
  <2>6. loaded' <=> ~Unfed(where, s + 1)
    <3>1. CASE Trigger \in new \ SV
      BY <3>1, <2>2, <2>3, <1>4 DEF History
    <3>2. CASE Trigger \notin new \ SV /\ 7 \in SV \ new
      BY <3>2, <2>2, <2>3, <1>4 DEF History
    <3>3. CASE Trigger \notin new \ SV /\ 7 \notin SV \ new
      <4>1. loaded' = loaded
        BY <3>3, <1>4 DEF History
      <4> QED
        BY <3>3, <4>1, <2>2, <2>3, <2>5
    <3> QED
      BY <3>1, <3>2, <3>3
  <2> QED
    BY <2>4, <2>6 DEF LoadedFollows
<1> QED
  BY <1>7, <1>8, <1>9, <1>10, <1>11 DEF IInv

(* The steps that move ReloadThread between its scripts.                   *)
LEMMA GotoPreserves ==
  ASSUME ~SVThreadOn, IInv, NEW place \in Places \ {"panel"},
         Goto("rel", place), UNCHANGED <<SV, register, loaded, meddled>>,
         register["rel"] = Empty, doReloadPt' \in {None} \cup Requests,
         Open(at["rel"], step["rel"]) = Open(place, 1),
         Unfed(at["rel"], step["rel"]) <=> Unfed(place, 1),
         place \in {"dispatch", "launch"} => doReloadPt' # None
  PROVE  IInv'
<1>1. Threads = {"rel"}
  BY DEF Threads
<1>2. /\ at' \in [Threads -> Places] /\ at'["rel"] = place
      /\ step' \in [Threads -> 1..7] /\ step'["rel"] = 1
  BY <1>1 DEF IInv, TypeOK, Goto
<1>3. TypeOK'
  BY <1>1, <1>2 DEF IInv, TypeOK, Threads
<1>4. Location'
  BY <1>2 DEF Location
<1>5. ValvesFollow'
  BY <1>2 DEF IInv, ValvesFollow
<1>6. RegisterFollows'
  BY DEF RegisterFollows
<1>7. LoadedFollows'
  BY <1>2 DEF IInv, LoadedFollows
<1> QED
  BY <1>3, <1>4, <1>5, <1>6, <1>7 DEF IInv

LEMMA ClickPreserves ==
  ASSUME IInv, NEW request \in Requests, Click(request)
  PROVE  IInv'
<1>1. request # None
  BY LauncherAssumption DEF None
<1>2. TypeOK'
  <2>1. meddled' \in BOOLEAN
    BY DEF Click
  <2> QED
    BY <2>1 DEF IInv, TypeOK, Click, Threads
<1>3. Location'
  BY <1>1 DEF IInv, Location, Click
<1>4. ValvesFollow' /\ RegisterFollows' /\ LoadedFollows'
  BY DEF IInv, ValvesFollow, RegisterFollows, LoadedFollows, Click
<1> QED
  BY <1>2, <1>3, <1>4 DEF IInv

LEMMA NextPreserves ==
  ASSUME ~SVThreadOn, IInv, [Next]_vars
  PROVE  IInv'
<1> DEFINE where == at["rel"]
           s     == step["rel"]
<1>1. /\ where \in Places /\ s \in 1..7
      /\ doReloadPt \in {None} \cup Requests
  BY DEF IInv, TypeOK, Threads
<1>2. where \in {"poll", "dispatch", "rest"} => s = 1 /\ register["rel"] = Empty
  BY DEF IInv, Location, RegisterFollows
<1>3. CASE Poll
  <2>1. /\ where = "poll" /\ doReloadPt # None /\ Goto("rel", "dispatch")
        /\ UNCHANGED <<SV, doReloadPt, register, loaded, meddled>>
    BY <1>3 DEF Poll
  <2>2. Open(where, s) = Open("dispatch", 1)
    BY <2>1 DEF Open
  <2>3. Unfed(where, s) <=> Unfed("dispatch", 1)
    BY <2>1 DEF Unfed
  <2> QED
    BY <1>1, <1>2, <2>1, <2>2, <2>3, GotoPreserves DEF Places
<1>4. CASE Dispatch
  <2>1. PICK place \in {"reload", "launch"} : Goto("rel", place)
    BY <1>4 DEF Dispatch
  <2>2. where = "dispatch" /\ UNCHANGED <<SV, doReloadPt, register, loaded, meddled>>
    BY <1>4 DEF Dispatch
  <2>3. doReloadPt # None
    BY <2>2 DEF IInv, Location
  <2>4. Open(where, s) = Open(place, 1)
    BY <2>2 DEF Open, LoaderOpen, TriggerOpen
  <2>5. Unfed(where, s) <=> Unfed(place, 1)
    BY <2>2 DEF Unfed
  <2> QED
    BY <1>1, <1>2, <2>1, <2>2, <2>3, <2>4, <2>5, GotoPreserves DEF Places
<1>5. CASE FinishLaunch
  <2>1. /\ where = "launch" /\ s \notin DOMAIN LaunchScript
        /\ Goto("rel", "refill")
        /\ UNCHANGED <<SV, doReloadPt, register, loaded, meddled>>
    BY <1>5 DEF FinishLaunch, ScriptDone, Script
  <2>2. s = 5
    BY <2>1, LaunchWrites DEF IInv, Location
  <2>3. register["rel"] = Empty
    BY <2>1, <2>2 DEF IInv, RegisterFollows
  <2>4. Open(where, s) = Open("refill", 1)
    BY <2>1, <2>2 DEF Open, LoaderOpen, TriggerOpen
  <2>5. Unfed(where, s) <=> Unfed("refill", 1)
    BY <2>1, <2>2 DEF Unfed
  <2> QED
    BY <1>1, <2>1, <2>3, <2>4, <2>5, GotoPreserves DEF Places
<1>6. CASE Rested
  <2>1. /\ where = "rest" /\ Goto("rel", "poll")
        /\ UNCHANGED <<SV, doReloadPt, register, loaded, meddled>>
    BY <1>6 DEF Rested
  <2>2. Open(where, s) = Open("poll", 1)
    BY <2>1 DEF Open
  <2>3. Unfed(where, s) <=> Unfed("poll", 1)
    BY <2>1 DEF Unfed
  <2> QED
    BY <1>1, <1>2, <2>1, <2>2, <2>3, GotoPreserves DEF Places
<1>7. CASE FinishReload("rel")
  <2>1. /\ where \in {"reload", "refill"} /\ s \notin DOMAIN ReloadScript
        /\ doReloadPt' = None /\ Return("rel")
        /\ UNCHANGED <<SV, register, loaded, meddled>>
    BY <1>7 DEF FinishReload, ScriptDone, Script
  <2>2. PICK place \in {"rest", "poll"} : Goto("rel", place)
    BY <2>1 DEF Return
  <2>3. s = 7
    BY <1>1, <2>1, ReloadWrites
  <2>4. register["rel"] = Empty
    BY <2>1, <2>3 DEF IInv, RegisterFollows
  <2>5. Open(where, s) = Open(place, 1)
    BY <2>1, <2>3 DEF Open, LoaderOpen
  <2>6. Unfed(where, s) <=> Unfed(place, 1)
    BY <2>1, <2>3 DEF Unfed
  <2> QED
    BY <2>1, <2>2, <2>4, <2>5, <2>6, GotoPreserves DEF Places
<1>8. CASE Fetch("rel")
  BY <1>8, FetchPreserves
<1>9. CASE Store("rel")
  BY <1>9, StorePreserves
<1>10. CASE Operator
  BY <1>10, ClickPreserves DEF Operator
<1>11. CASE UNCHANGED vars
  BY <1>11 DEF vars, IInv, TypeOK, Threads, Location, ValvesFollow,
               RegisterFollows, LoadedFollows
<1> QED
  BY <1>3, <1>4, <1>5, <1>6, <1>7, <1>8, <1>9, <1>10, <1>11
  DEF Next, RelThread, SVThread

LEMMA Invariance == ASSUME ~SVThreadOn PROVE Spec => []IInv
<1>1. Init => IInv
  BY InitEstablishes
<1>2. IInv /\ [Next]_vars => IInv'
  BY NextPreserves
<1> QED
  BY <1>1, <1>2, PTL DEF Spec

-----------------------------------------------------------------------------
(* The types of the state variables, whatever the operator clicks.         *)
THEOREM TypeCorrect == ASSUME ~SVThreadOn PROVE Spec => []TypeOK
<1>1. IInv => TypeOK
  BY DEF IInv
<1> QED
  BY <1>1, Invariance, PTL

(* ReloadThread and Reload(): the trigger is never open while a loader     *)
(* valve is, whatever the operator clicks and whenever.                    *)
THEOREM LoaderIsClearOfShot ==
  ASSUME ~SVThreadOn PROVE Spec => []LoaderClearOfShot
<1>1. IInv => LoaderClearOfShot
  <2> SUFFICES ASSUME IInv, Trigger \in SV PROVE SV \cap Loader = {}
    BY DEF LoaderClearOfShot
  <2>1. SV \cap Upper = Open(at["rel"], step["rel"])
    BY DEF IInv, ValvesFollow
  <2>2. at["rel"] = "launch"
    BY <2>1 DEF Open, LoaderOpen, Loader, Upper, Trigger
  <2> QED
    BY <2>1, <2>2 DEF Open, TriggerOpen, Loader, Upper, Trigger
<1> QED
  BY <1>1, Invariance, PTL

(* Reload(): valve 5 is open only while valve 7 is, valve 6 only when both *)
(* are closed, whatever the operator clicks and whenever.                  *)
THEOREM LoaderIsSequenced ==
  ASSUME ~SVThreadOn PROVE Spec => []LoaderSequenced
<1>1. IInv => LoaderSequenced
  <2> SUFFICES ASSUME IInv PROVE LoaderSequenced
    OBVIOUS
  <2>1. SV \cap Upper = Open(at["rel"], step["rel"])
    BY DEF IInv, ValvesFollow
  <2>2. {5, 6, 7} \subseteq Upper
    BY DEF Upper
  <2>3. \A v \in {5, 6, 7} : v \in Open(at["rel"], step["rel"]) =>
          v \in LoaderOpen(step["rel"]) /\ at["rel"] \in {"reload", "refill"}
    BY DEF Open, TriggerOpen, Trigger
  <2>4. /\ 5 \in Open(at["rel"], step["rel"]) => 7 \in Open(at["rel"], step["rel"])
        /\ 6 \in Open(at["rel"], step["rel"]) =>
             /\ 5 \notin Open(at["rel"], step["rel"])
             /\ 7 \notin Open(at["rel"], step["rel"])
    BY <2>3 DEF Open, LoaderOpen, Loader, Upper
  <2> QED
    BY <2>1, <2>2, <2>4 DEF LoaderSequenced
<1> QED
  BY <1>1, Invariance, PTL

(* Back at the poll, ReloadThread has left the trigger and the loader      *)
(* closed: only launch points may still be open.                           *)
THEOREM IdleLauncherIsSafe ==
  ASSUME ~SVThreadOn PROVE Spec => []IdleIsSafe
<1>1. IInv => IdleIsSafe
  BY DEF IInv, ValvesFollow, IdleIsSafe, Open
<1> QED
  BY <1>1, Invariance, PTL

-----------------------------------------------------------------------------
(* The refinement: only the store half of a bitWrite moves the abstract    *)
(* cycle, and the invariant says which of its actions it is.               *)
LEMMA StoreSimulates ==
  ASSUME ~SVThreadOn, IInv, Store("rel")
  PROVE  Cycle!Next \/ UNCHANGED <<Trigger \in SV, loaded>>
<1> DEFINE where == at["rel"]
           s     == step["rel"]
           new   == register["rel"]
<1>1. /\ where \in {"launch", "reload", "refill"}
      /\ where = "launch" => s \in 1..4
      /\ where \in {"reload", "refill"} => s \in 1..6
      /\ new \cap Upper = Open(where, s + 1)
  BY DEF IInv, RegisterFollows, Store
<1>2. SV \cap Upper = Open(where, s)
  BY DEF IInv, ValvesFollow
<1>3. SV' = new /\ loaded' = History(SV, new)
  BY DEF Store
<1>4. loaded \in BOOLEAN /\ (loaded <=> ~Unfed(where, s))
  BY DEF IInv, TypeOK, LoadedFollows
<1>5. CASE where = "launch"
  <2>1. (Trigger \in SV <=> s \in 3..4) /\ 7 \notin SV
    BY <1>2, <1>5, OpenMembers
  <2>2. Trigger \in new <=> s + 1 \in 3..4
    BY <1>1, <1>5, OpenMembers
  <2>3. CASE s = 2
    <3>1. Trigger \notin SV /\ Trigger \in new
      BY <2>1, <2>2, <2>3
    <3>2. loaded = TRUE
      BY <1>4, <1>5, <2>3 DEF Unfed
    <3>3. loaded' = FALSE
      BY <3>1, <1>3 DEF History
    <3>4. Cycle!Fire
      BY <3>1, <3>2, <3>3, <1>3 DEF Cycle!Fire
    <3> QED
      BY <3>4 DEF Cycle!Next
  <2>4. CASE s = 4
    <3>1. Trigger \in SV /\ Trigger \notin new
      BY <2>1, <2>2, <2>4
    <3>2. loaded' = loaded
      BY <3>1, <2>1, <1>3 DEF History
    <3>3. Cycle!Release
      BY <3>1, <3>2, <1>3 DEF Cycle!Release
    <3> QED
      BY <3>3 DEF Cycle!Next
  <2>5. CASE s \in {1, 3}
    <3>1. Trigger \in new <=> Trigger \in SV
      BY <2>1, <2>2, <2>5
    <3>2. loaded' = loaded
      BY <3>1, <2>1, <1>3 DEF History
    <3> QED
      BY <3>1, <3>2, <1>3
  <2> QED
    BY <1>1, <1>5, <2>3, <2>4, <2>5
<1>6. CASE where \in {"reload", "refill"}
  <2>1. (7 \in SV <=> s \in 2..4) /\ Trigger \notin SV
    BY <1>2, <1>6, OpenMembers
  <2>2. (7 \in new <=> s + 1 \in 2..4) /\ Trigger \notin new
    BY <1>1, <1>6, OpenMembers
  <2>3. CASE s = 4
    <3>1. 7 \in SV \ new
      BY <2>1, <2>2, <2>3
    <3>2. loaded' = TRUE
      BY <3>1, <2>2, <1>3 DEF History
    <3>3. Cycle!Feed
      BY <3>2, <2>1, <2>2, <1>3 DEF Cycle!Feed
    <3> QED
      BY <3>3 DEF Cycle!Next
  <2>4. CASE s # 4
    <3>1. 7 \notin SV \ new
      BY <2>1, <2>2, <2>4, <1>1, <1>6
    <3>2. loaded' = loaded
      BY <3>1, <2>2, <1>3 DEF History
    <3> QED
      BY <3>2, <2>1, <2>2, <1>3
  <2> QED
    BY <2>3, <2>4
<1> QED
  BY <1>1, <1>5, <1>6

(* Shots and feeds alternate: with SVThread off, ReloadThread and whatever *)
(* the operator clicks implement the abstract firing cycle.                *)
THEOREM LauncherImplementsCycle ==
  ASSUME ~SVThreadOn PROVE Spec => CycleSpec
<1>1. Init => Cycle!Init
  BY DEF Init, Cycle!Init
<1>2. IInv /\ [Next]_vars => [Cycle!Next]_(Cycle!vars)
  <2> SUFFICES ASSUME IInv, [Next]_vars PROVE [Cycle!Next]_(Cycle!vars)
    OBVIOUS
  <2>1. CASE Store("rel")
    BY <2>1, StoreSimulates DEF Cycle!vars
  <2>2. CASE UNCHANGED <<SV, loaded>>
    BY <2>2 DEF Cycle!vars
  <2>3. \/ Store("rel")
        \/ UNCHANGED <<SV, loaded>>
    BY DEF Next, RelThread, SVThread, Operator, Poll, Dispatch, FinishLaunch,
           Rested, Fetch, FinishReload, Click, vars
  <2> QED
    BY <2>1, <2>2, <2>3
<1> QED
  BY <1>1, <1>2, Invariance, PTL DEF Spec, CycleSpec, Cycle!Spec

-----------------------------------------------------------------------------
(* The launch points.  As long as no button is pressed during a launch the *)
(* mailbox still names the point that the launch has opened.               *)
PointOpen(where, s) ==
  {p \in {doReloadPt} : where = "launch" /\ s \in 2..3}

PointFollows ==
  /\ at["rel"] = "launch" => doReloadPt \in LaunchPts
  /\ SV \ Upper = PointOpen(at["rel"], step["rel"])
  /\ register["rel"] # Empty =>
       register["rel"] \ Upper = PointOpen(at["rel"], step["rel"] + 1)

LEMMA PointsAreLow == LaunchPts \subseteq {1, 2, 3} /\ LaunchPts \cap Upper = {}
BY LauncherAssumption DEF LaunchPts, Reload, Upper

LEMMA FetchKeepsPoint ==
  ASSUME ~SVThreadOn, IInv, PointFollows, Fetch("rel")
  PROVE  PointFollows'
<1> DEFINE where == at["rel"]
           s     == step["rel"]
<1>1. UNCHANGED <<SV, doReloadPt, at, step>>
  BY FetchKeeps
<1>2. register'["rel"] = Fetched
  BY FetchKeeps DEF IInv, TypeOK, Threads
<1>3. Fetched \ Upper = PointOpen(where, s + 1)
  <2>1. CASE where = "launch"
    <3>1. doReloadPt \in {1, 2, 3} /\ doReloadPt \notin Upper
      BY <2>1, PointsAreLow DEF PointFollows
    <3>2. \/ s = 1 /\ Fetched = SV \cup {doReloadPt}
          \/ s = 2 /\ Fetched = SV \cup {4}
          \/ s = 3 /\ Fetched = SV \ {doReloadPt}
          \/ s = 4 /\ Fetched = SV \ {4}
      BY <2>1, <3>1, FetchedInLaunch DEF Trigger
    <3>3. SV \ Upper = IF s \in {2, 3} THEN {doReloadPt} ELSE {}
      BY <2>1, <3>2 DEF PointFollows, PointOpen
    <3>4. 4 \in Upper
      BY DEF Upper
    <3> HIDE DEF s
    <3>5. Fetched \ Upper = IF s \in {1, 2} THEN {doReloadPt} ELSE {}
      BY <3>1, <3>2, <3>3, <3>4
    <3> QED
      BY <2>1, <3>2, <3>5 DEF PointOpen
  <2>2. CASE where \in {"reload", "refill"}
    <3>1. \/ Fetched = SV \cup {5} \/ Fetched = SV \cup {6}
          \/ Fetched = SV \cup {7} \/ Fetched = SV \ {5}
          \/ Fetched = SV \ {6} \/ Fetched = SV \ {7}
      BY <2>2, FetchedInReload
    <3>2. SV \ Upper = {}
      BY <2>2 DEF PointFollows, PointOpen
    <3>3. {5, 6, 7} \subseteq Upper
      BY DEF Upper
    <3>4. Fetched \ Upper = {}
      BY <3>1, <3>2, <3>3
    <3> QED
      BY <2>2, <3>4 DEF PointOpen
  <2> QED
    BY <2>1, <2>2, FetchKeeps
<1> QED
  BY <1>1, <1>2, <1>3 DEF PointFollows, PointOpen

LEMMA StoreKeepsPoint ==
  ASSUME ~SVThreadOn, IInv, PointFollows, Store("rel")
  PROVE  PointFollows'
<1>1. SV' = register["rel"] /\ register["rel"] # Empty
  BY DEF Store
<1>2. UNCHANGED <<doReloadPt, at>>
  BY DEF Store
<1>3. step'["rel"] = step["rel"] + 1 /\ register'["rel"] = Empty
  BY DEF Store, IInv, TypeOK, Threads
<1> QED
  BY <1>1, <1>2, <1>3 DEF PointFollows, PointOpen

(* A step between two scripts leaves no launch point open.                 *)
LEMMA GotoKeepsPoint ==
  ASSUME ~SVThreadOn, IInv, PointFollows, NEW place, Goto("rel", place),
         UNCHANGED <<SV, register>>, register["rel"] = Empty,
         PointOpen(at["rel"], step["rel"]) = {},
         place = "launch" => doReloadPt' \in LaunchPts
  PROVE  PointFollows'
<1>1. at'["rel"] = place /\ step'["rel"] = 1
  BY DEF IInv, TypeOK, Threads, Goto
<1>2. SV' \ Upper = {}
  BY DEF PointFollows
<1> QED
  BY <1>1, <1>2 DEF PointFollows, PointOpen

LEMMA NextKeepsPoint ==
  ASSUME ~SVThreadOn, IInv, ~meddled => PointFollows, [Next]_vars
  PROVE  ~meddled' => PointFollows'
<1> SUFFICES ASSUME ~meddled' PROVE PointFollows'
  OBVIOUS
<1>1. ~meddled
  BY DEF Next, RelThread, SVThread, Operator, Poll, Dispatch, FinishLaunch,
         Rested, Fetch, Store, FinishReload, Click, vars
<1>2. PointFollows
  BY <1>1
<1>3. at["rel"] \in {"poll", "dispatch", "rest"} =>
        register["rel"] = Empty /\ PointOpen(at["rel"], step["rel"]) = {}
  BY DEF IInv, RegisterFollows, PointOpen
<1>4. CASE Poll
  BY <1>2, <1>3, <1>4, GotoKeepsPoint DEF Poll
<1>5. CASE Dispatch
  <2>1. PICK place \in {"reload", "launch"} :
          /\ Goto("rel", place)
          /\ place = "launch" => doReloadPt # Reload
    BY <1>5 DEF Dispatch
  <2>2. /\ at["rel"] = "dispatch"
        /\ UNCHANGED <<SV, doReloadPt, register>>
    BY <1>5 DEF Dispatch
  <2>3. doReloadPt # None /\ doReloadPt \in {None} \cup Requests
    BY <2>2 DEF IInv, Location, TypeOK
  <2>4. place = "launch" => doReloadPt' \in LaunchPts
    BY <2>1, <2>2, <2>3 DEF LaunchPts
  <2> QED
    BY <1>2, <1>3, <2>1, <2>2, <2>4, GotoKeepsPoint
<1>6. CASE FinishLaunch
  <2>1. /\ at["rel"] = "launch" /\ step["rel"] \notin DOMAIN LaunchScript
        /\ Goto("rel", "refill")
        /\ UNCHANGED <<SV, doReloadPt, register>>
    BY <1>6 DEF FinishLaunch, ScriptDone, Script
  <2>2. step["rel"] = 5
    BY <2>1, LaunchWrites DEF IInv, Location
  <2>3. register["rel"] = Empty
    BY <2>1, <2>2 DEF IInv, RegisterFollows
  <2>4. PointOpen(at["rel"], step["rel"]) = {}
    BY <2>2 DEF PointOpen
  <2> QED
    BY <1>2, <2>1, <2>3, <2>4, GotoKeepsPoint
<1>7. CASE Rested
  BY <1>2, <1>3, <1>7, GotoKeepsPoint DEF Rested
<1>8. CASE FinishReload("rel")
  <2>1. /\ at["rel"] \in {"reload", "refill"}
        /\ step["rel"] \notin DOMAIN ReloadScript
        /\ Return("rel")
        /\ UNCHANGED <<SV, register>>
    BY <1>8 DEF FinishReload, ScriptDone, Script
  <2>2. PICK place \in {"rest", "poll"} : Goto("rel", place)
    BY <2>1 DEF Return
  <2>3. step["rel"] \in 1..7
    BY DEF IInv, TypeOK, Threads
  <2>4. register["rel"] = Empty
    BY <2>1, <2>3, ReloadWrites DEF IInv, RegisterFollows
  <2>5. PointOpen(at["rel"], step["rel"]) = {}
    BY <2>1 DEF PointOpen
  <2> QED
    BY <1>2, <2>1, <2>2, <2>4, <2>5, GotoKeepsPoint
<1>9. CASE Fetch("rel")
  BY <1>2, <1>9, FetchKeepsPoint
<1>10. CASE Store("rel")
  BY <1>2, <1>10, StoreKeepsPoint
<1>11. CASE Operator
  <2>1. UNCHANGED <<SV, at, step, register>> /\ at["rel"] # "launch"
    BY <1>11 DEF Operator, Click
  <2> QED
    BY <1>2, <2>1 DEF PointFollows, PointOpen
<1>12. CASE UNCHANGED vars
  BY <1>2, <1>12 DEF vars, PointFollows, PointOpen
<1> QED
  BY <1>4, <1>5, <1>6, <1>7, <1>8, <1>9, <1>10, <1>11, <1>12
  DEF Next, RelThread, SVThread

LEMMA PointInvariance ==
  ASSUME ~SVThreadOn PROVE Spec => [](IInv /\ (~meddled => PointFollows))
<1>1. Init => IInv /\ PointFollows
  <2>1. Init => PointFollows
    BY DEF Init, PointFollows, PointOpen, Threads, Upper
  <2> QED
    BY <2>1, InitEstablishes
<1>2. IInv /\ (~meddled => PointFollows) /\ [Next]_vars
        => IInv' /\ (~meddled' => PointFollows')
  BY NextPreserves, NextKeepsPoint
<1> QED
  BY <1>1, <1>2, PTL DEF Spec

(* ReloadThread closes the launch point it opened, unless a button is      *)
(* pressed in between: an empty mailbox then means closed valves.          *)
THEOREM ClosedWhenIdle == ASSUME ~SVThreadOn PROVE Spec => []ClosedUnlessMeddled
<1>1. IInv /\ (~meddled => PointFollows) => ClosedUnlessMeddled
  <2> SUFFICES ASSUME IInv, PointFollows, at["rel"] = "poll" PROVE SV = {}
    BY DEF ClosedUnlessMeddled, NoneMeansClosed
  <2>1. SV \cap Upper = {}
    BY DEF IInv, ValvesFollow, Open
  <2>2. SV \ Upper = {}
    BY DEF PointFollows, PointOpen
  <2> QED
    BY <2>1, <2>2
<1> QED
  BY <1>1, PointInvariance, PTL

(* The launch branch of ReloadThread opens the trigger with exactly the    *)
(* point open that was asked for, unless a button is pressed meanwhile.    *)
THEOREM ShotIsAtRequestedPoint ==
  ASSUME ~SVThreadOn PROVE Spec => ShotAtRequestedPoint
<1>1. IInv /\ (~meddled => PointFollows) /\ [Next]_vars
        => [(Trigger \in SV' \ SV /\ ~meddled) => SV = {doReloadPt}]_vars
  <2> SUFFICES ASSUME IInv, PointFollows, [Next]_vars, Trigger \in SV' \ SV
               PROVE  SV = {doReloadPt}
    OBVIOUS
  <2>1. Store("rel")
    BY DEF Next, RelThread, SVThread, Operator, Poll, Dispatch, FinishLaunch,
           Rested, Fetch, FinishReload, Click, vars
  <2>2. Trigger \in register["rel"] /\ register["rel"] # Empty
    BY <2>1 DEF Store
  <2>3. at["rel"] = "launch" /\ step["rel"] \in 2..3
    <3>1. Trigger \in Open(at["rel"], step["rel"] + 1)
      BY <2>2 DEF IInv, RegisterFollows, Upper, Trigger
    <3>2. at["rel"] = "launch"
      BY <3>1, <2>2, OpenMembers DEF IInv, RegisterFollows
    <3>3. step["rel"] + 1 \in 3..4 /\ step["rel"] \in 1..4
      BY <3>1, <3>2, <2>2, OpenMembers DEF IInv, RegisterFollows
    <3> QED
      BY <3>2, <3>3
  <2>4. SV \cap Upper = Open("launch", step["rel"]) /\ Trigger \notin SV
    BY <2>3 DEF IInv, ValvesFollow
  <2>5. step["rel"] = 2
    BY <2>3, <2>4, OpenMembers
  <2>6. SV \cap Upper = {}
    BY <2>4, <2>5 DEF Open, TriggerOpen
  <2>7. SV \ Upper = {doReloadPt}
    BY <2>3 DEF PointFollows, PointOpen
  <2> QED
    BY <2>6, <2>7
<1> QED
  BY <1>1, PointInvariance, PTL DEF Spec, ShotAtRequestedPoint

-----------------------------------------------------------------------------
(* SVThread running and no button posting a request: SVThread is then the  *)
(* only writer of SV.                                                      *)

PanelAlone == SVThreadOn /\ Requests = {}

(* The loader valves that are open when SVThread's next write is number s. *)
PanelOpen(where, s) == {v \in LoaderOpen(s) : where = "reload"}

RelIdle ==
  at["rel"] = "poll" /\ register["rel"] = Empty /\ doReloadPt = None

PanelTypes ==
  /\ SV \in SUBSET Bits
  /\ at \in [Threads -> Places]
  /\ step \in [Threads -> 1..7]
  /\ register \in [Threads -> (SUBSET Bits) \cup {Empty}]

SVLocation ==
  /\ at["sv"] \in {"poll", "panel", "reload"}
  /\ at["sv"] = "panel" => step["sv"] \in 1..6

SVFollows ==
  /\ SV \cap Loader = PanelOpen(at["sv"], step["sv"])
  /\ register["sv"] # Empty =>
       /\ at["sv"] = "panel" => step["sv"] \in 1..5
       /\ at["sv"] = "reload" => step["sv"] \in 1..6
       /\ at["sv"] \in {"panel", "reload"}
       /\ register["sv"] \in SUBSET Bits
       /\ register["sv"] \cap Loader = PanelOpen(at["sv"], step["sv"] + 1)

PInv == PanelTypes /\ RelIdle /\ SVLocation /\ SVFollows

-----------------------------------------------------------------------------
LEMMA PanelThreads == ASSUME PanelAlone PROVE Threads = {"rel", "sv"}
BY DEF PanelAlone, Threads

LEMMA PanelWrites ==
  /\ DOMAIN PanelScript = 1..5
  /\ \A s \in 1..5 : PanelScript[s].bit = s - 1
BY DEF PanelScript, Write

LEMMA PanelInit == ASSUME PanelAlone, Init PROVE PInv
<1>1. PanelTypes
  BY PanelThreads DEF Init, PanelTypes, Places, Empty
<1>2. RelIdle /\ SVLocation
  BY PanelThreads DEF Init, RelIdle, SVLocation, Empty, None
<1>3. SVFollows
  BY PanelThreads DEF Init, SVFollows, PanelOpen
<1> QED
  BY <1>1, <1>2, <1>3 DEF PInv

(* A write to a bit below the loader leaves the loader alone.              *)
LEMMA LowWrite ==
  ASSUME NEW value \in SUBSET Bits, NEW bit \in 0..4, NEW on \in BOOLEAN
  PROVE  /\ bitWrite(value, bit, on) \in SUBSET Bits
         /\ bitWrite(value, bit, on) \cap Loader = value \cap Loader
<1>1. bit \in Bits /\ bit \notin Loader
  BY DEF Bits, Loader
<1>2. CASE on
  BY <1>1, <1>2 DEF bitWrite
<1>3. CASE ~on
  BY <1>1, <1>3 DEF bitWrite
<1> QED
  BY <1>2, <1>3

LEMMA SVFetchPreserves == ASSUME PanelAlone, PInv, Fetch("sv") PROVE PInv'
<1> DEFINE where == at["sv"]
           s     == step["sv"]
<1>1. UNCHANGED <<SV, doReloadPt, at, step>>
  BY DEF Fetch
<1>2. where \in {"panel", "reload"} /\ s \in DOMAIN Script(where)
  BY DEF Fetch, InScript, PInv, SVLocation
<1>3. SV \in SUBSET Bits /\ s \in 1..7 /\ doReloadPt = None
  BY PanelThreads DEF PInv, PanelTypes, RelIdle
<1>4. SV \cap Loader = PanelOpen(where, s)
  BY DEF PInv, SVFollows
<1>5. PICK on \in (IF where = "panel" THEN BOOLEAN ELSE {Script(where)[s].on}) :
        register' = [register EXCEPT !["sv"] =
          bitWrite(SV, IF Script(where)[s].bit = FromMailbox
                       THEN doReloadPt ELSE Script(where)[s].bit, on)]
  BY DEF Fetch
<1> DEFINE bit == IF Script(where)[s].bit = FromMailbox
                  THEN doReloadPt ELSE Script(where)[s].bit
           new == bitWrite(SV, bit, on)
<1>6. /\ where = "panel" => s \in 1..5
      /\ where = "reload" => s \in 1..6
      /\ new \in SUBSET Bits
      /\ new \cap Loader = PanelOpen(where, s + 1)
  <2>1. CASE where = "panel"
    <3>1. Script(where) = PanelScript
      BY <2>1 DEF Script
    <3>2. s \in 1..5 /\ bit = s - 1
      BY <1>2, <3>1, PanelWrites DEF FromMailbox
    <3>3. on \in BOOLEAN /\ bit \in 0..4
      BY <2>1, <3>2
    <3> HIDE DEF bit
    <3>4. new \in SUBSET Bits /\ new \cap Loader = SV \cap Loader
      BY <1>3, <3>3, LowWrite
    <3> QED
      BY <2>1, <3>2, <3>4, <1>4 DEF PanelOpen
  <2>2. CASE where = "reload"
    <3>1. Script(where) = ReloadScript
      BY <2>2 DEF Script
    <3>2. s \in DOMAIN ReloadScript /\ on = ReloadScript[s].on
      BY <1>2, <2>2, <3>1
    <3>3. bit = IF ReloadScript[s].bit = FromMailbox
                THEN doReloadPt ELSE ReloadScript[s].bit
      BY <3>1
    <3>4. new = bitWrite(SV, bit, on)
      OBVIOUS
    <3> HIDE DEF s, bit, new
    <3>5. \/ s = 1 /\ new = SV \cup {7}
          \/ s = 2 /\ new = SV \cup {5}
          \/ s = 3 /\ new = SV \ {5}
          \/ s = 4 /\ new = SV \ {7}
          \/ s = 5 /\ new = SV \cup {6}
          \/ s = 6 /\ new = SV \ {6}
      BY <1>3, <3>2, <3>3, <3>4, ReloadStep
    <3>6. s \in 1..6
      BY <3>5
    <3>7. new \in SUBSET Bits
      <4>1. new \subseteq SV \cup {5, 6, 7}
        BY <3>5
      <4> QED
        BY <4>1, <1>3 DEF Bits
    <3>8. SV \cap Loader = LoaderOpen(s)
      BY <2>2, <1>4 DEF PanelOpen
    <3>9. new \cap Loader = LoaderOpen(s + 1)
      BY <3>5, <3>8 DEF LoaderOpen, Loader
    <3> QED
      BY <2>2, <3>6, <3>7, <3>9 DEF PanelOpen
  <2> QED
    BY <1>2, <2>1, <2>2
<1> HIDE DEF new
<1>7. register' = [register EXCEPT !["sv"] = new]
  BY <1>5 DEF new
<1>8. /\ register' \in [Threads -> (SUBSET Bits) \cup {Empty}]
      /\ register'["sv"] = new /\ register'["rel"] = register["rel"]
  BY <1>6, <1>7, PanelThreads DEF PInv, PanelTypes
<1>9. PanelTypes' /\ RelIdle' /\ SVLocation'
  BY <1>1, <1>8 DEF PInv, PanelTypes, RelIdle, SVLocation, Threads
<1>10. SVFollows'
  BY <1>1, <1>2, <1>4, <1>6, <1>8 DEF SVFollows
<1> QED
  BY <1>9, <1>10 DEF PInv

LEMMA SVStorePreserves == ASSUME PanelAlone, PInv, Store("sv") PROVE PInv'
<1> DEFINE where == at["sv"]
           s     == step["sv"]
           new   == register["sv"]
<1>1. new # Empty /\ SV' = new /\ UNCHANGED <<doReloadPt, at>>
  BY DEF Store
<1>2. /\ where = "panel" => s \in 1..5
      /\ where = "reload" => s \in 1..6
      /\ where \in {"panel", "reload"}
      /\ new \in SUBSET Bits
      /\ new \cap Loader = PanelOpen(where, s + 1)
  BY <1>1 DEF PInv, SVFollows
<1>3. /\ register' = [register EXCEPT !["sv"] = Empty]
      /\ step' = [step EXCEPT !["sv"] = s + 1]
  BY DEF Store
<1>4. /\ register' \in [Threads -> (SUBSET Bits) \cup {Empty}]
      /\ register'["sv"] = Empty /\ register'["rel"] = register["rel"]
      /\ step' \in [Threads -> 1..7] /\ step'["sv"] = s + 1
  BY <1>2, <1>3, PanelThreads DEF PInv, PanelTypes
<1>5. PanelTypes' /\ RelIdle'
  BY <1>1, <1>2, <1>4 DEF PInv, PanelTypes, RelIdle, Threads
<1>6. SVLocation'
  BY <1>1, <1>2, <1>4 DEF PInv, SVLocation
<1>7. SVFollows'
  BY <1>1, <1>2, <1>4 DEF SVFollows
<1> QED
  BY <1>5, <1>6, <1>7 DEF PInv

(* A step of SVThread from one place to the start of another.              *)
LEMMA SVGotoPreserves ==
  ASSUME PanelAlone, PInv, NEW place \in {"poll", "panel", "reload"},
         Goto("sv", place), SV' \in SUBSET Bits, SV' \cap Loader = {},
         register["sv"] = Empty, register' = register, doReloadPt' = None
  PROVE  PInv'
<1>1. /\ at' \in [Threads -> Places] /\ at'["sv"] = place
      /\ at'["rel"] = at["rel"]
      /\ step' \in [Threads -> 1..7] /\ step'["sv"] = 1
  BY PanelThreads DEF PInv, PanelTypes, Goto, Places
<1>2. PanelTypes' /\ RelIdle' /\ SVLocation'
  BY <1>1 DEF PInv, PanelTypes, RelIdle, SVLocation, Threads
<1>3. SVFollows'
  BY <1>1 DEF SVFollows, PanelOpen, LoaderOpen
<1> QED
  BY <1>2, <1>3 DEF PInv

LEMMA PanelNext == ASSUME PanelAlone, PInv, [Next]_vars PROVE PInv'
<1>1. at["rel"] = "poll" /\ register["rel"] = Empty /\ doReloadPt = None
  BY DEF PInv, RelIdle
<1>2. at["sv"] \in {"poll", "panel", "reload"} /\ SV \in SUBSET Bits
  BY DEF PInv, SVLocation, PanelTypes
<1>3. CASE SVPoll
  <2>1. at["sv"] = "poll" /\ UNCHANGED <<doReloadPt, register>>
    BY <1>3 DEF SVPoll
  <2>2. register["sv"] = Empty /\ SV \cap Loader = {}
    BY <2>1 DEF PInv, SVFollows, PanelOpen
  <2>3. CASE Goto("sv", "reload") /\ UNCHANGED SV
    BY <1>1, <1>2, <2>1, <2>2, <2>3, SVGotoPreserves
  <2>4. CASE Goto("sv", "panel") /\ SV' = {}
    BY <1>1, <2>1, <2>2, <2>4, SVGotoPreserves
  <2> QED
    BY <1>3, <2>3, <2>4 DEF SVPoll
<1>4. CASE SVPanelDone
  <2>1. /\ at["sv"] = "panel" /\ step["sv"] \notin 1..5
        /\ Goto("sv", "poll") /\ UNCHANGED <<SV, doReloadPt, register>>
    BY <1>4, PanelWrites DEF SVPanelDone, ScriptDone, Script
  <2>2. register["sv"] = Empty /\ SV \cap Loader = {}
    BY <2>1 DEF PInv, SVFollows, PanelOpen
  <2> QED
    BY <1>1, <1>2, <2>1, <2>2, SVGotoPreserves
<1>5. CASE FinishReload("sv")
  <2>1. /\ at["sv"] = "reload" /\ step["sv"] \notin 1..6
        /\ Goto("sv", "poll") /\ UNCHANGED <<SV, register>>
        /\ doReloadPt' = None
    BY <1>2, <1>5, ReloadWrites DEF FinishReload, ScriptDone, Script, Return
  <2>2. step["sv"] = 7
    BY <2>1, PanelThreads DEF PInv, PanelTypes
  <2>3. register["sv"] = Empty /\ SV \cap Loader = {}
    BY <2>1, <2>2 DEF PInv, SVFollows, PanelOpen, LoaderOpen
  <2> QED
    BY <1>2, <2>1, <2>3, SVGotoPreserves
<1>6. CASE Fetch("sv")
  BY <1>6, SVFetchPreserves
<1>7. CASE Store("sv")
  BY <1>7, SVStorePreserves
<1>8. CASE UNCHANGED vars
  BY <1>8 DEF vars, PInv, PanelTypes, RelIdle, SVLocation, SVFollows, Threads
<1>9. ~RelThread /\ ~Operator
  BY <1>1 DEF PanelAlone, RelThread, Operator, Poll, Dispatch, FinishLaunch,
              Rested, Fetch, Store, FinishReload, ScriptDone, InScript
<1> QED
  BY <1>3, <1>4, <1>5, <1>6, <1>7, <1>8, <1>9 DEF Next, SVThread

-----------------------------------------------------------------------------
(* Used by the panel alone, SVThread opens the loader valves only inside   *)
(* Reload(): mirroring the switches neither opens nor leaves open any.     *)
THEOREM PanelKeepsLoader ==
  ASSUME PanelAlone PROVE Spec => []LoaderOnlyInReload
<1>1. Init => PInv
  BY PanelInit
<1>2. PInv /\ [Next]_vars => PInv'
  BY PanelNext
<1>3. PInv => LoaderOnlyInReload
  BY DEF PInv, SVFollows, PanelOpen, LoaderOnlyInReload
<1> QED
  BY <1>1, <1>2, <1>3, PTL DEF Spec

=============================================================================
