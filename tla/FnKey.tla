-------------------------------- MODULE FnKey --------------------------------
(***************************************************************************)
(* Fn+F12 from the keyboard to handle_fn_key (app/src/tray.rs): the        *)
(* firmware's event reaches the service's sink (Indicate in wmi_com.rs) up *)
(* to Delay later and sets an auto-reset event, which merges presses.  The *)
(* tray's UI thread handles it as soon as it is back at its wait, where    *)
(* the event comes before window messages: a menu, a dialog or the         *)
(* transactions of a screen toggle keep it away for up to MaxAway.  While  *)
(* the machine sleeps nothing is delivered or handled, though the clock    *)
(* (it counts sleep) runs.  MaxTime bounds the clock.                      *)
(***************************************************************************)
EXTENDS Naturals

CONSTANTS Debounce,   \* FNKEY_DEBOUNCE_MS
          Suppress,   \* FNKEY_RESUME_SUPPRESS_MS
          Delay,      \* longest way of a press to the event
          MaxAway,    \* longest time between two waits of the UI thread
          MaxTime

ASSUME TimesAssumption ==
  {Debounce, Suppress, Delay, MaxAway} \subseteq Nat /\ MaxTime \in Nat \ {0}

(* What the suppression counts on: a press is handled before it ends.      *)
Lateness == Delay + MaxAway
Prompt == Lateness < Suppress

VARIABLES now,        \* GetTickCount64
          asleep,     \* inside SetSuspendState
          away,       \* how long the UI thread stays away from its wait
          wire,       \* presses not delivered yet: when made, when due
          latched,    \* when the presses merged into the set event were made
          last,       \* LAST_FNKEY_MS
          until,      \* FNKEY_SUPPRESS_UNTIL_MS
          screen, sleep,   \* FNKEY_SCREEN_ON, FNKEY_SLEEP_ON
          resumed,    \* history: the last resume
          acted,      \* history: the latest press behind the last act
          bounced,    \* history: an act rested on presses from before a resume
          closest     \* history: least distance of the presses behind two acts

settings == <<screen, sleep>>
history == <<resumed, acted, bounced, closest>>
vars == <<now, asleep, away, wire, latched, last, until, settings, history>>

Times == 1 .. MaxTime
Presses == [at : Times, due : Nat]

TypeOK == /\ now \in Times /\ {asleep, screen, sleep, bounced} \subseteq BOOLEAN
          /\ wire \subseteq Presses /\ latched \subseteq Times
          /\ {last, until, resumed, acted, closest} \subseteq Nat
          /\ away \in 0 .. MaxAway
          /\ asleep => away = 0
          /\ last <= now /\ until <= now + Suppress

Init == /\ now = 1 /\ asleep = FALSE /\ away = 0
        /\ wire = {} /\ latched = {}
        /\ last = 0 /\ until = 0
        /\ screen \in BOOLEAN /\ sleep \in BOOLEAN
        /\ resumed = 0 /\ acted = 0 /\ bounced = FALSE
        /\ closest = Debounce
-----------------------------------------------------------------------------
Tick == /\ now < MaxTime /\ now' = now + 1
        /\ asleep \/ \A p \in wire : now < p.due
        /\ asleep \/ latched = {} \/ away > 0
        /\ away' = IF away > 0 THEN away - 1 ELSE 0
        /\ UNCHANGED <<asleep, wire, latched, last, until, settings, history>>

Press == /\ wire' = wire \cup {[at |-> now, due |-> now + Delay]}
         /\ UNCHANGED <<now, asleep, away, latched, last, until, settings, history>>

(* SetEvent; presses that arrive together are one.                         *)
Deliver(p) == /\ ~asleep /\ p \in wire
              /\ wire' = wire \ {p} /\ latched' = latched \cup {p.at}
              /\ UNCHANGED <<now, asleep, away, last, until, settings, history>>

(* The UI thread is given a window message to work on.                     *)
Leave == /\ ~asleep /\ away = 0 /\ latched = {}
         /\ away' \in 1 .. MaxAway
         /\ UNCHANGED <<now, asleep, wire, latched, last, until, settings, history>>

Woken == ~asleep /\ away = 0 /\ latched # {}

Suppressed == now < until
(* Changed form: no debounce.                                              *)
RepeatedNever == FALSE
Repeated == last # 0 /\ now - last < Debounce

Apart(t) == IF acted = 0 THEN closest ELSE IF t <= acted THEN 0 ELSE t - acted

Act == /\ \E t \in latched :
            /\ \A u \in latched : u <= t
            /\ acted' = t
            /\ closest' = IF Apart(t) < closest THEN Apart(t) ELSE closest
       /\ bounced' = (bounced \/ \A t \in latched : t <= resumed)
       /\ UNCHANGED resumed

(* The event wakes the UI thread, which drops it ...                       *)
Drop == /\ Woken /\ (Suppressed \/ Repeated)
        /\ latched' = {}
        /\ UNCHANGED <<now, asleep, away, wire, last, until, settings, history>>

(* ... or toggles the screen, or suspends the machine, or finds neither    *)
(* switched on; each stamps LAST_FNKEY_MS.                                 *)
ActOn == /\ Woken /\ ~Suppressed /\ ~Repeated
         /\ latched' = {} /\ last' = now
         /\ asleep' = (~screen /\ sleep)
         /\ away' \in IF screen THEN 0 .. MaxAway ELSE {0}
         /\ Act
         /\ UNCHANGED <<now, wire, until, settings>>

(* Changed form: the wake-up is not stamped.                               *)
ResumeUnstamped == /\ asleep /\ asleep' = FALSE
                   /\ resumed' = now
                   /\ wire' = {[p EXCEPT !.due = now + Delay] : p \in wire}
                   /\ UNCHANGED <<now, away, latched, last, until, settings, acted,
                                  bounced, closest>>

(* Changed form: the two stamps are swapped.                               *)
ResumeSwapped == /\ asleep /\ asleep' = FALSE
                 /\ until' = now /\ last' = now + Suppress /\ resumed' = now
                 /\ wire' = {[p EXCEPT !.due = now + Delay] : p \in wire}
                 /\ UNCHANGED <<now, away, latched, settings, acted, bounced, closest>>

(* SetSuspendState returns, also when it failed at once.                   *)
Resume == /\ asleep /\ asleep' = FALSE
          /\ until' = now + Suppress /\ last' = now /\ resumed' = now
          /\ wire' = {[p EXCEPT !.due = now + Delay] : p \in wire}
          /\ UNCHANGED <<now, away, latched, settings, acted, bounced, closest>>

(* The debug menu's switches; the UI thread is not in SetSuspendState.     *)
Switch == /\ ~asleep
          /\ \/ screen' = ~screen /\ UNCHANGED sleep
             \/ sleep' = ~sleep /\ UNCHANGED screen
          /\ UNCHANGED <<now, asleep, away, wire, latched, last, until, history>>

Next == \/ Tick \/ Press \/ (\E p \in wire : Deliver(p))
        \/ Leave \/ Drop \/ ActOn \/ Resume \/ Switch

Spec == Init /\ [][Next]_vars
-----------------------------------------------------------------------------
(* "the wake-press latched during sleep can't immediately re-sleep"        *)
(* (tray.rs:86-88): nothing is ever done because of presses that were all  *)
(* made before the machine resumed, as long as the suppression outlasts    *)
(* their way and their wait.                                               *)
NoWakeBounce == ~bounced

(* "coalescing key-repeat / double-taps for EVERY action" (tray.rs:85-86): *)
(* presses so close together that the debounce outlasts their way to the   *)
(* handler never cause two acts.                                           *)
OneActPerBurst == closest + Lateness >= Debounce
=============================================================================
