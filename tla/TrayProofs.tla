------------------------------ MODULE TrayProofs ------------------------------
(***************************************************************************)
(* What the tray's UI thread answers to: the key and the menu.             *)
(*                                                                         *)
(* FnKey, for every debounce, suppression, delay and absence of the UI     *)
(* thread: one act per burst of presses, and no wake-bounce as long as the *)
(* suppression outlasts the way of a press to the handler (Prompt).        *)
(*                                                                         *)
(* MenuCache, for any modes, selections and failures: while a selection is *)
(* carried out no worker can begin, and a worker that begins later reads   *)
(* what the selection left.                                                *)
(***************************************************************************)
EXTENDS FnKey, MenuCache, TLAPS

-----------------------------------------------------------------------------
(* The key. *)


(* A press is due Delay after it was made or after the machine resumed.    *)
Timely(t, d) == d <= t + Delay \/ d <= resumed + Delay

OnTheWay == \A p \in wire : /\ p.at <= now /\ Timely(p.at, p.due)
                            /\ asleep \/ now <= p.due

(* One that waits at the event is handled no later than Lateness after.    *)
Awaited(t) == \/ now + away <= t + Lateness
              \/ now + away <= resumed + Lateness

AtTheTray == \A t \in latched : ~asleep /\ t <= now /\ Awaited(t)

Stamps == /\ resumed <= last
          /\ resumed # 0 => until = resumed + Suppress
          /\ acted <= last

Judged == (Prompt => ~bounced) /\ OneActPerBurst

IInv == TypeOK /\ OnTheWay /\ AtTheTray /\ Stamps /\ Judged

(* The typing facts one by one.                                            *)
Flags == /\ asleep \in BOOLEAN /\ screen \in BOOLEAN /\ sleep \in BOOLEAN
         /\ bounced \in BOOLEAN

Types == /\ Flags
         /\ now \in Nat /\ 1 <= now /\ now <= MaxTime
         /\ \A p \in wire : p \in Presses
         /\ \A t \in latched : t \in Nat /\ 1 <= t /\ t <= MaxTime
         /\ last \in Nat /\ until \in Nat /\ resumed \in Nat /\ acted \in Nat
         /\ closest \in Nat /\ away \in Nat /\ away <= MaxAway /\ (asleep => away = 0)
         /\ last <= now /\ until <= now + Suppress

(* Types says what TypeOK says.                                            *)
LEMMA TypesIsTypeOK == TypeOK <=> Types
  BY TimesAssumption DEF TypeOK, Types, Flags, Times

(* The assumption on the times, one by one.                                *)
LEMMA Constants == /\ Debounce \in Nat /\ Suppress \in Nat /\ Delay \in Nat
                   /\ MaxTime \in Nat /\ MaxTime >= 1
                   /\ MaxAway \in Nat
  BY TimesAssumption

(* What a press is made of, and what Resume makes of its due time.         *)
LEMMA PressFields ==
  ASSUME NEW p \in Presses
  PROVE  /\ p.at \in Nat /\ 1 <= p.at /\ p.at <= MaxTime
         /\ p.due \in Nat
         /\ \A d \in Nat : [p EXCEPT !.due = d] \in Presses /\ [p EXCEPT !.due = d].at = p.at
                          /\ [p EXCEPT !.due = d].due = d
  BY Constants DEF Presses, Times

(* The press that the key puts on its way.                                 *)
LEMMA NewPress ==
  ASSUME NEW a \in Nat, 1 <= a, a <= MaxTime, NEW d \in Nat
  PROVE  /\ [at |-> a, due |-> d] \in Presses
         /\ [at |-> a, due |-> d].at = a /\ [at |-> a, due |-> d].due = d
  BY Constants DEF Presses, Times

(* When a press is acted on, some press behind it was made after the last  *)
(* resume, if the suppression is long enough, and the latest one of them   *)
(* is far enough from the last act: the stamps dropped all others.         *)
LEMMA ActIsSound ==
  ASSUME Types, AtTheTray, Stamps, Judged, ActOn
  PROVE  Judged' /\ acted' \in latched /\ closest' \in Nat
<1> USE Constants DEF Types, Lateness
<1>1. PICK t \in latched : /\ acted' = t
                           /\ closest' = IF Apart(t) < closest THEN Apart(t) ELSE closest
  BY DEF ActOn, Act
<1>2. t \in Nat /\ 1 <= t /\ t <= now
  BY DEF AtTheTray
<1>3. \/ now <= t + Lateness
      \/ now <= resumed + Lateness
  BY <1>2 DEF AtTheTray, Awaited, ActOn, Woken
<1>4. ~(now < until) /\ ~(last # 0 /\ now - last < Debounce)
  BY DEF ActOn, Suppressed, Repeated
<1>5. Prompt => ~(t <= resumed)
  BY <1>2, <1>3, <1>4 DEF Stamps, Prompt
<1>6. Prompt => ~bounced'
  <2>1. bounced' = (bounced \/ \A u \in latched : u <= resumed)
    BY DEF ActOn, Act
  <2> QED
    BY <2>1, <1>1, <1>5 DEF Judged
<1>7. Apart(t) \in Nat /\ Apart(t) + Lateness >= Debounce
  <2>1. CASE acted = 0
    BY <2>1 DEF Apart, Judged, OneActPerBurst
  <2>2. CASE acted # 0
    BY <2>2, <1>2, <1>3, <1>4 DEF Apart, Stamps
  <2> QED
    BY <2>1, <2>2
<1> QED
  BY <1>1, <1>6, <1>7 DEF Judged, OneActPerBurst

(* The stamps dominate what is on its way: a press from before the last    *)
(* resume is handled before the suppression ends, if that is long enough,  *)
(* and no press waits at the event for longer than the UI thread is away   *)
(* (handle_fn_key).                                                        *)
THEOREM IInvHolds == Spec => []IInv
<1> DEFINE J == Types /\ OnTheWay /\ AtTheTray /\ Stamps /\ Judged
<1>1. IInv <=> J
  BY TypesIsTypeOK DEF IInv
<1>2. IInv' <=> J'
  BY <1>1, PTL
<1>3. Init => IInv
  <2> SUFFICES ASSUME Init PROVE J
    BY <1>1
  <2>0. Flags
    BY DEF Init, Flags
  <2>1. Types
    BY Constants, <2>0 DEF Init, Types
  <2>2. OnTheWay /\ AtTheTray
    BY DEF Init, OnTheWay, AtTheTray
  <2>3. Stamps
    BY DEF Init, Stamps
  <2>4. Judged
    BY Constants DEF Init, Judged, OneActPerBurst, Lateness
  <2> QED
    BY <2>1, <2>2, <2>3, <2>4
<1>4. IInv /\ [Next]_vars => IInv'
  <2> SUFFICES ASSUME J, IInv, [Next]_vars PROVE J'
    BY <1>1, <1>2
  <2> USE Constants DEF Lateness
  <2>1. CASE Tick
    <3>0. Flags'
      BY <2>1 DEF Tick, settings, history, Types, Flags
    <3>1. Types'
      BY <2>1, <3>0 DEF Tick, settings, history, Types
    <3>2. OnTheWay'
      BY <2>1, PressFields DEF Tick, settings, history, Types, OnTheWay, Timely
    <3>3. AtTheTray'
      BY <2>1 DEF Tick, settings, history, Types, AtTheTray, Awaited
    <3> QED
      BY <2>1, <3>1, <3>2, <3>3 DEF Tick, history, Stamps, Judged, OneActPerBurst
  <2>2. CASE Press
    <3> DEFINE q == [at |-> now, due |-> now + Delay]
    <3>1. q \in Presses /\ q.at = now /\ q.due = now + Delay
      BY NewPress DEF Types
    <3> HIDE DEF q
    <3>2. wire' = wire \cup {q}
      BY <2>2 DEF Press, q
    <3>0. Flags'
      BY <2>2 DEF Press, settings, history, Types, Flags
    <3>3. Types'
      BY <2>2, <3>0, <3>1, <3>2 DEF Press, settings, history, Types
    <3>4. OnTheWay'
      BY <2>2, <3>1, <3>2 DEF Press, settings, history, Types, OnTheWay, Timely
    <3> QED
      BY <2>2, <3>3, <3>4 DEF Press, history, AtTheTray, Awaited, Stamps, Judged, OneActPerBurst
  <2>3. ASSUME NEW p \in wire, Deliver(p) PROVE J'
    <3>1. p.at \in Nat /\ 1 <= p.at /\ p.at <= MaxTime /\ p.due \in Nat
      BY PressFields DEF Types
    <3>2. p.at <= now /\ Awaited(p.at)
      BY <2>3, <3>1 DEF Deliver, OnTheWay, Timely, Awaited, Types
    <3>0. Flags'
      BY <2>3 DEF Deliver, settings, history, Types, Flags
    <3>3. Types'
      BY <2>3, <3>0, <3>1 DEF Deliver, settings, history, Types
    <3>4. OnTheWay'
      BY <2>3 DEF Deliver, settings, history, OnTheWay, Timely
    <3>5. AtTheTray'
      BY <2>3, <3>2 DEF Deliver, history, AtTheTray, Awaited
    <3> QED
      BY <2>3, <3>3, <3>4, <3>5 DEF Deliver, history, Stamps, Judged, OneActPerBurst
  <2>4. CASE Drop
    BY <2>4 DEF Drop, settings, history, Types, Flags, OnTheWay, AtTheTray, Stamps,
       Judged, Timely, OneActPerBurst
  <2>5. CASE ActOn
    <3>1. Judged' /\ acted' \in latched /\ closest' \in Nat
      BY <2>5, ActIsSound
    <3>2. acted' \in Nat /\ acted' <= now
      BY <3>1 DEF Types, AtTheTray
    <3>3. Flags'
      BY <2>5 DEF ActOn, Act, settings, Types, Flags
    <3>4. away' \in 0 .. MaxAway /\ (asleep' => away' = 0)
      <4>1. asleep' = (~screen /\ sleep) /\ away' \in IF screen THEN 0 .. MaxAway ELSE {0}
        BY <2>5 DEF ActOn
      <4>2. screen => away' \in 0 .. MaxAway /\ ~asleep'
        BY <4>1
      <4>3. ~screen => away' = 0
        BY <4>1
      <4> QED
        BY <4>2, <4>3
    <3>5. now' = now /\ wire' = wire /\ latched' = {} /\ last' = now
          /\ until' = until /\ resumed' = resumed
      BY <2>5 DEF ActOn, Act
    <3>6. Types'
      BY <3>1, <3>2, <3>3, <3>4, <3>5 DEF Types
    <3>7. OnTheWay' /\ AtTheTray'
      BY <2>5 DEF ActOn, Act, Woken, OnTheWay, AtTheTray, Timely
    <3>8. Stamps'
      BY <2>5, <3>2 DEF ActOn, Act, Stamps, Types
    <3> QED
      BY <3>1, <3>6, <3>7, <3>8
  <2>6. CASE Resume
    <3>1. ASSUME NEW r \in wire'
          PROVE  \E p \in wire :
             /\ p \in Presses /\ r \in Presses /\ r.at = p.at /\ r.due = now + Delay
      <4>1. PICK p \in wire : r = [p EXCEPT !.due = now + Delay]
        BY <2>6, <3>1 DEF Resume
      <4>2. now + Delay \in Nat /\ p \in Presses
        BY DEF Types
      <4> QED
        BY <4>1, <4>2, PressFields
    <3>2. Types'
      <4>1. \A r \in wire' : r \in Presses
        BY <3>1
      <4>2. Flags'
        BY <2>6 DEF Resume, settings, Types, Flags
      <4> QED
        BY <2>6, <4>1, <4>2 DEF Resume, settings, Types
    <3>3. OnTheWay'
      BY <2>6, <3>1, PressFields DEF Resume, Types, OnTheWay, Timely
    <3>4. AtTheTray'
      BY <2>6 DEF Resume, AtTheTray
    <3> QED
      BY <2>6, <3>2, <3>3, <3>4 DEF Resume, Types, Stamps, Judged, OneActPerBurst
  <2>7. CASE Switch
    BY <2>7 DEF Switch, history, Types, Flags, OnTheWay, AtTheTray, Stamps, Judged,
       Timely, Awaited, OneActPerBurst
  <2>8. CASE UNCHANGED vars
    BY <2>8 DEF vars, settings, history, Types, Flags, OnTheWay, AtTheTray, Stamps,
       Judged, Timely, Awaited, OneActPerBurst
  <2>9. CASE Leave
    BY <2>9 DEF Leave, settings, history, Types, Flags, OnTheWay, AtTheTray, Stamps,
       Judged, Timely, OneActPerBurst
  <2> QED
    BY <2>1, <2>2, <2>3, <2>4, <2>5, <2>6, <2>7, <2>8, <2>9 DEF Next
<1> QED
  BY <1>3, <1>4, PTL DEF Spec

(* Every variable keeps its type, and the stamps stay in range of the clock. *)
THEOREM TypeCorrect == Spec => []TypeOK
  BY IInvHolds, PTL DEF IInv

(* handle_fn_key never acts on presses that were all made before a resume, *)
(* as long as a press reaches it within the suppression.                   *)
THEOREM NeverBounces == ASSUME Prompt PROVE Spec => []NoWakeBounce
<1>1. IInv => NoWakeBounce
  BY Prompt DEF IInv, Judged, NoWakeBounce
<1> QED
  BY <1>1, IInvHolds, PTL

(* handle_fn_key acts once on a burst of presses.                          *)
THEOREM Coalesces == Spec => []OneActPerBurst
  BY IInvHolds, PTL DEF IInv, Judged

-----------------------------------------------------------------------------
(* The menu cache. *)

Pairs == [thermal : Modes \cup {Unknown}, coolsense : {0, 1, Unknown}]
Handling == {"read", "setCoolsense", "setThermal", "storeThermal", "storeCoolsense", "stamp"}

MenuTypes == /\ hw \in States /\ {cache, choice, got} \subseteq Pairs
             /\ ui \in Handling \cup {"idle", "stamp?", "claim", "spawn"}
             /\ worker \in {"none", "read", "storeThermal", "storeCoolsense", "stamp", "clear"}
             /\ clean \in BOOLEAN /\ choices \in Nat
             /\ ui \in Handling \ {"read"} => choice.coolsense \in {0, 1}
             /\ ui \in {"setThermal", "storeThermal"} => choice.thermal \in Modes

Shown == /\ cache.coolsense = hw.coolsense \/ cache = NothingKnown
         /\ choice.thermal # Unknown => cache.thermal = hw.thermal \/ cache = NothingKnown

(* handle_menu, half way through a selection that met no worker.           *)
HalfWay == clean /\ ui \in Handling =>
  /\ worker = "none"
  /\ ui \in {"setThermal", "storeThermal", "storeCoolsense"} => hw.coolsense = choice.coolsense
  /\ ui \in {"storeThermal", "storeCoolsense"} /\ choice.thermal # Unknown
       => hw.thermal = choice.thermal
  /\ ui = "storeCoolsense" /\ choice.thermal # Unknown => cache.thermal = hw.thermal
  /\ ui = "stamp" => Shown

(* Until the next selection a worker can only read what this one left.     *)
Afterwards == clean /\ ui \notin Handling =>
  /\ worker \in {"none", "read", "storeThermal"} => Shown
  /\ worker \in {"storeThermal", "storeCoolsense", "stamp", "clear"} => got \in {hw, NothingKnown}
  /\ worker = "storeCoolsense" => cache.thermal = got.thermal
  /\ worker \in {"stamp", "clear"} => cache = got

MenuInv == MenuTypes /\ HalfWay /\ Afterwards

(* One half of a pair is replaced.                                         *)
LEMMA PairHalves ==
  ASSUME NEW p \in Pairs
  PROVE  /\ \A t \in Modes \cup {Unknown} :
              /\ [p EXCEPT !.thermal = t] \in Pairs
              /\ [p EXCEPT !.thermal = t].thermal = t
              /\ [p EXCEPT !.thermal = t].coolsense = p.coolsense
         /\ \A c \in {0, 1, Unknown} :
              /\ [p EXCEPT !.coolsense = c] \in Pairs
              /\ [p EXCEPT !.coolsense = c].coolsense = c
              /\ [p EXCEPT !.coolsense = c].thermal = p.thermal
         /\ p.thermal \in Modes \cup {Unknown} /\ p.coolsense \in {0, 1, Unknown}
  BY DEF Pairs

LEMMA StateHalves ==
  ASSUME NEW h \in States
  PROVE  /\ \A t \in Modes :
              /\ [h EXCEPT !.thermal = t] \in States
              /\ [h EXCEPT !.thermal = t].thermal = t
              /\ [h EXCEPT !.thermal = t].coolsense = h.coolsense
         /\ \A c \in {0, 1} :
              /\ [h EXCEPT !.coolsense = c] \in States
              /\ [h EXCEPT !.coolsense = c].coolsense = c
              /\ [h EXCEPT !.coolsense = c].thermal = h.thermal
         /\ h.thermal \in Modes /\ h.coolsense \in {0, 1} /\ h \in Pairs
  BY DEF States, Pairs

LEMMA Nothing == /\ NothingKnown \in Pairs
                 /\ NothingKnown.thermal = Unknown /\ NothingKnown.coolsense = Unknown
  BY DEF NothingKnown, Pairs

LEMMA SamePair ==
  ASSUME NEW p \in Pairs, NEW q \in Pairs, p.thermal = q.thermal, p.coolsense = q.coolsense
  PROVE  p = q
  BY DEF Pairs

(* Nothing is chosen at the start, so nothing has to be shown.             *)
LEMMA MenuInitInv == MenuInit => MenuInv
<1> SUFFICES ASSUME MenuInit PROVE MenuInv
  OBVIOUS
<1>1. ~clean /\ clean \in BOOLEAN
  BY DEF MenuInit
<1>2. MenuTypes
  BY <1>1, Nothing DEF MenuInit, MenuTypes, Handling
<1> QED
  BY <1>1, <1>2 DEF MenuInv, HalfWay, Afterwards

(* maybe_warm, up to the new worker.                                       *)
LEMMA WarmKeeps ==
  ASSUME MenuInv, Trigger \/ CheckStamp \/ Claim \/ Spawn \/ Expire PROVE MenuInv'
  BY DEF Trigger, CheckStamp, Claim, Spawn, Expire, MenuInv, MenuTypes, HalfWay, Afterwards,
         Handling, Shown, uiVars, workerVars

(* The worker stores what it read half by half.                            *)
LEMMA WorkerKeeps == ASSUME MenuInv, WorkerStep PROVE MenuInv'
<1> USE DEF MenuInv, MenuTypes, Handling, uiVars
<1>1. CASE WorkerRead
  BY <1>1, Nothing, StateHalves DEF WorkerRead, Fault, NoFault, HalfWay, Afterwards, Shown
<1>2. CASE WorkerStoreThermal
  <2>1. cache' \in Pairs /\ cache'.thermal = got.thermal
    BY <1>2, PairHalves DEF WorkerStoreThermal
  <2>2. /\ hw' = hw /\ ui' = ui /\ choice' = choice /\ clean' = clean /\ choices' = choices /\ got' = got
        /\ worker = "storeThermal" /\ worker' = "storeCoolsense"
    BY <1>2 DEF WorkerStoreThermal
  <2> QED
    BY <2>1, <2>2 DEF HalfWay, Afterwards
<1>3. CASE WorkerStoreCoolsense
  <2>1. /\ cache' \in Pairs /\ cache'.coolsense = got.coolsense /\ cache'.thermal = cache.thermal
    BY <1>3, PairHalves DEF WorkerStoreCoolsense
  <2>2. /\ hw' = hw /\ ui' = ui /\ choice' = choice /\ clean' = clean /\ choices' = choices /\ got' = got
        /\ worker = "storeCoolsense" /\ worker' = "stamp"
    BY <1>3 DEF WorkerStoreCoolsense
  <2>3. cache.thermal = got.thermal => cache' = got
    BY <2>1, SamePair
  <2> QED
    BY <2>1, <2>2, <2>3 DEF HalfWay, Afterwards
<1>4. CASE WorkerStamp
  BY <1>4 DEF WorkerStamp, HalfWay, Afterwards, Shown
<1>5. CASE WorkerClear
  BY <1>5 DEF WorkerClear, HalfWay, Afterwards, Shown
<1> QED
  BY <1>1, <1>2, <1>3, <1>4, <1>5 DEF WorkerStep

(* handle_menu: a selection begins.                                        *)
LEMMA ChoosingKeeps ==
  ASSUME MenuInv, ToggleSmartSense \/ \E m \in Modes : SelectMode(m) PROVE MenuInv'
<1>1. PICK c \in Pairs, next \in {"read", "setCoolsense"} :
        Choose(c, next) /\ (next = "setCoolsense" => c.coolsense \in {0, 1})
  <2>1. CASE ToggleSmartSense
    BY <2>1, Nothing DEF ToggleSmartSense
  <2>2. ASSUME NEW m \in Modes, SelectMode(m)
        PROVE  \E c \in Pairs, next \in {"read", "setCoolsense"} :
                 Choose(c, next) /\ (next = "setCoolsense" => c.coolsense \in {0, 1})
    <3>1. /\ [thermal |-> m, coolsense |-> 0] \in Pairs
          /\ [thermal |-> m, coolsense |-> 0].coolsense = 0
      BY DEF Pairs
    <3> QED
      BY <2>2, <3>1 DEF SelectMode
  <2> QED
    BY <2>1, <2>2
<1>2. /\ hw' = hw /\ cache' = cache /\ got' = got /\ worker' = worker
      /\ choice' = c /\ ui' = next /\ choices' = choices + 1
  BY <1>1 DEF Choose, workerVars
<1>3. clean' = (worker = "none")
  BY <1>1 DEF Choose
<1>4. clean' \in BOOLEAN /\ (clean' => worker = "none")
  BY <1>3
<1> QED
  BY <1>1, <1>2, <1>4 DEF MenuInv, MenuTypes, HalfWay, Afterwards, Handling

(* handle_menu: the calls of a selection and its store.                    *)
LEMMA HandlingKeeps ==
  ASSUME MenuInv,
         ReadCoolsense \/ SetCoolsense \/ SetThermal \/ StoreThermal \/ StoreCoolsense \/ Stamp
  PROVE  MenuInv'
<1> USE DEF MenuInv, MenuTypes, Handling, workerVars
<1>1. CASE ReadCoolsense
  <2>1. \/ choice' = [choice EXCEPT !.coolsense = 1 - hw.coolsense]
        \/ choice' = [choice EXCEPT !.coolsense = 1]
    BY <1>1 DEF ReadCoolsense
  <2>2. hw.coolsense \in {0, 1} /\ choice \in Pairs
    BY StateHalves
  <2>3. 1 - hw.coolsense \in {0, 1}
    BY <2>2
  <2>4. \E c \in {0, 1} : choice' = [choice EXCEPT !.coolsense = c]
    BY <2>1, <2>3
  <2>5. choice' \in Pairs /\ choice'.coolsense \in {0, 1}
    <3>1. PICK c \in {0, 1} : choice' = [choice EXCEPT !.coolsense = c]
      BY <2>4
    <3>2. /\ [choice EXCEPT !.coolsense = c] \in Pairs
          /\ [choice EXCEPT !.coolsense = c].coolsense = c
      BY <2>2, PairHalves
    <3> QED
      BY <3>1, <3>2
  <2>6. /\ hw' = hw /\ cache' = cache /\ choices' = choices /\ worker' = worker /\ got' = got
        /\ clean' = clean /\ ui = "read" /\ ui' = "setCoolsense"
    BY <1>1 DEF ReadCoolsense
  <2> QED
    BY <2>5, <2>6 DEF HalfWay, Afterwards
<1>2. CASE SetCoolsense
  <2>0. hw \in States /\ choice.coolsense \in {0, 1}
    BY <1>2 DEF SetCoolsense
  <2> DEFINE h == [hw EXCEPT !.coolsense = choice.coolsense]
  <2>1. h \in States /\ h.coolsense = choice.coolsense
    BY <2>0, StateHalves
  <2>4. \/ hw' = h /\ clean' = clean
        \/ hw' = hw /\ ~clean'
    BY <1>2, Zenon DEF SetCoolsense, Write
  <2>5. clean' \in BOOLEAN
    BY <1>2, Zenon DEF SetCoolsense, Write
  <2> HIDE DEF h
  <2>6. hw' \in States /\ (clean' => clean /\ hw'.coolsense = choice.coolsense)
    BY <2>0, <2>1, <2>4
  <2>2. choice.thermal # Unknown => choice.thermal \in Modes
    BY PairHalves
  <2>3. /\ cache' = cache /\ choice' = choice /\ choices' = choices /\ worker' = worker /\ got' = got
        /\ ui = "setCoolsense"
        /\ ui' = IF choice.thermal = Unknown THEN "storeCoolsense" ELSE "setThermal"
    BY <1>2 DEF SetCoolsense, Write
  <2> QED
    BY <2>2, <2>3, <2>5, <2>6 DEF HalfWay, Afterwards
<1>3. CASE SetThermal
  <2>0. hw \in States /\ choice.thermal \in Modes
    BY <1>3 DEF SetThermal
  <2> DEFINE h == [hw EXCEPT !.thermal = choice.thermal]
  <2>1. h \in States /\ h.thermal = choice.thermal /\ h.coolsense = hw.coolsense
    BY <2>0, StateHalves
  <2>4. \/ hw' = h /\ clean' = clean
        \/ hw' = hw /\ ~clean'
    BY <1>3, Zenon DEF SetThermal, Write
  <2>5. clean' \in BOOLEAN
    BY <1>3, Zenon DEF SetThermal, Write
  <2> HIDE DEF h
  <2>6. /\ hw' \in States
        /\ clean' => clean /\ hw'.thermal = choice.thermal /\ hw'.coolsense = hw.coolsense
    BY <2>0, <2>1, <2>4
  <2>3. /\ cache' = cache /\ choice' = choice /\ choices' = choices /\ worker' = worker /\ got' = got
        /\ ui = "setThermal" /\ ui' = "storeThermal"
    BY <1>3 DEF SetThermal, Write
  <2> QED
    BY <2>3, <2>5, <2>6 DEF HalfWay, Afterwards
<1>4. CASE StoreThermal
  <2>1. cache' \in Pairs /\ cache'.thermal = choice.thermal
    BY <1>4, PairHalves DEF StoreThermal
  <2>2. /\ hw' = hw /\ choice' = choice /\ choices' = choices /\ worker' = worker /\ got' = got
        /\ clean' = clean /\ ui = "storeThermal" /\ ui' = "storeCoolsense"
    BY <1>4 DEF StoreThermal
  <2> QED
    BY <2>1, <2>2 DEF HalfWay, Afterwards
<1>5. CASE StoreCoolsense
  <2>1. /\ cache' \in Pairs /\ cache'.coolsense = choice.coolsense /\ cache'.thermal = cache.thermal
    BY <1>5, PairHalves DEF StoreCoolsense
  <2>2. /\ hw' = hw /\ choice' = choice /\ choices' = choices /\ worker' = worker /\ got' = got
        /\ clean' = clean /\ ui = "storeCoolsense" /\ ui' = "stamp"
    BY <1>5 DEF StoreCoolsense
  <2> QED
    BY <2>1, <2>2 DEF HalfWay, Afterwards, Shown
<1>6. CASE Stamp
  BY <1>6 DEF Stamp, HalfWay, Afterwards, Shown
<1> QED
  BY <1>1, <1>2, <1>3, <1>4, <1>5, <1>6

(* Cache, selection and worker agree, however the two threads interleave.  *)
THEOREM MenuInvHolds == MenuSpec => []MenuInv
<1>1. MenuInv /\ [MenuNext]_menuVars => MenuInv'
  <2> SUFFICES ASSUME MenuInv, [MenuNext]_menuVars PROVE MenuInv'
    OBVIOUS
  <2>1. CASE UNCHANGED menuVars
    BY <2>1 DEF menuVars, uiVars, workerVars, MenuInv, MenuTypes, HalfWay, Afterwards, Handling, Shown
  <2> QED
    BY <2>1, WarmKeeps, WorkerKeeps, ChoosingKeeps, HandlingKeeps DEF MenuNext, UiStep
<1> QED
  BY <1>1, MenuInitInv, PTL DEF MenuSpec

(* A selection that met no worker and no failed call is what the next menu *)
(* shows, whatever workers come after it.                                  *)
THEOREM ShowsSelection == MenuSpec => []QuietSelectionShown
<1>1. MenuInv => QuietSelectionShown
  BY DEF MenuInv, Afterwards, Handling, Shown, QuietSelectionShown, Chosen
<1> QED
  BY <1>1, MenuInvHolds, PTL
=============================================================================
