------------------------------ MODULE MenuCache ------------------------------
(***************************************************************************)
(* The tray's menu-state cache (app/src/tray.rs): maybe_warm hands the one *)
(* slow read to a short-lived worker, handle_menu writes through the       *)
(* service and then stores what it wrote.  All triggers run on the UI      *)
(* thread; only the worker runs beside it.  Every atomic load and store is *)
(* a step.  Time is abstracted to whether the stamp is younger than        *)
(* CACHE_FRESH_MS.  MaxChoices bounds the user's selections, MaxFaults the *)
(* transactions that fail (service away, slow, or rate-limited).           *)
(***************************************************************************)
EXTENDS Naturals

CONSTANTS Modes, Unknown, MaxChoices, MaxFaults

ASSUME ModesAssumption == Modes # {} /\ Unknown \notin Modes \cup {0, 1}

VARIABLES hw,         \* what CMD_READ_STATE would return: thermal, coolsense
          cache,      \* CACHED_THERMAL and CACHED_COOLSENSE
          fresh,      \* CACHE_STAMP # 0 and younger than CACHE_FRESH_MS
          inFlight,   \* WARM_IN_FLIGHT
          ui,         \* where the UI thread is
          choice,     \* the thermal mode (or none) and coolsense being set
          worker,     \* where the warm worker is
          got,        \* what the worker read
          clean,      \* the last choice met no worker and no failed call
          choices, faults

uiVars == <<ui, choice, clean, choices>>
workerVars == <<worker, got>>
menuVars == <<hw, cache, fresh, inFlight, uiVars, workerVars, faults>>

States == [thermal : Modes, coolsense : {0, 1}]
NothingKnown == [thermal |-> Unknown, coolsense |-> Unknown]

MenuInit == /\ hw \in States /\ cache = NothingKnown
            /\ fresh = FALSE /\ inFlight = FALSE
            /\ ui = "idle" /\ choice = NothingKnown
            /\ worker = "none" /\ got = NothingKnown
            /\ clean = FALSE /\ choices = 0 /\ faults = 0

Fault == faults < MaxFaults /\ faults' = faults + 1
NoFault == UNCHANGED faults
-----------------------------------------------------------------------------
(* maybe_warm *)

Trigger == /\ ui = "idle" /\ ui' = IF inFlight THEN "idle" ELSE "stamp?"
           /\ UNCHANGED <<hw, cache, fresh, inFlight, choice, clean, choices,
                          workerVars, faults>>

CheckStamp == /\ ui = "stamp?" /\ ui' = IF fresh THEN "idle" ELSE "claim"
              /\ UNCHANGED <<hw, cache, fresh, inFlight, choice, clean, choices,
                             workerVars, faults>>

Claim == /\ ui = "claim" /\ inFlight' = TRUE
         /\ ui' = IF inFlight THEN "idle" ELSE "spawn"
         /\ UNCHANGED <<hw, cache, fresh, choice, clean, choices, workerVars, faults>>

Spawn == /\ ui = "spawn" /\ worker = "none"
         /\ ui' = "idle" /\ worker' = "read"
         /\ UNCHANGED <<hw, cache, fresh, inFlight, choice, clean, choices, got, faults>>

(* Changed form: a failed read ends the worker at once.                    *)
WorkerReadOrQuit == /\ worker = "read"
                    /\ \/ got' = hw /\ worker' = "storeThermal" /\ NoFault
                       \/ Fault /\ worker' = "none" /\ UNCHANGED got
                    /\ UNCHANGED <<hw, cache, fresh, inFlight, uiVars>>

WorkerRead == /\ worker = "read" /\ worker' = "storeThermal"
              /\ \/ got' = hw /\ NoFault
                 \/ got' = NothingKnown /\ Fault
              /\ UNCHANGED <<hw, cache, fresh, inFlight, uiVars>>

WorkerStoreThermal ==
  /\ worker = "storeThermal" /\ worker' = "storeCoolsense"
  /\ cache' = [cache EXCEPT !.thermal = got.thermal]
  /\ UNCHANGED <<hw, fresh, inFlight, uiVars, got, faults>>

WorkerStoreCoolsense ==
  /\ worker = "storeCoolsense" /\ worker' = "stamp"
  /\ cache' = [cache EXCEPT !.coolsense = got.coolsense]
  /\ UNCHANGED <<hw, fresh, inFlight, uiVars, got, faults>>

WorkerStamp == /\ worker = "stamp" /\ worker' = "clear" /\ fresh' = TRUE
               /\ UNCHANGED <<hw, cache, inFlight, uiVars, got, faults>>

WorkerClear == /\ worker = "clear" /\ worker' = "none" /\ inFlight' = FALSE
               /\ UNCHANGED <<hw, cache, fresh, uiVars, got, faults>>

(* CACHE_FRESH_MS pass. *)
Expire == /\ fresh /\ fresh' = FALSE
          /\ UNCHANGED <<hw, cache, inFlight, uiVars, workerVars, faults>>
-----------------------------------------------------------------------------
(* handle_menu *)

Choose(c, next) == /\ ui = "idle" /\ choices < MaxChoices
                   /\ choices' = choices + 1
                   /\ choice' = c /\ ui' = next
                   /\ clean' = (worker = "none")
                   /\ UNCHANGED <<hw, cache, fresh, inFlight, workerVars, faults>>

(* A thermal row: Smart Sense off first, then the mode.                    *)
SelectMode(m) == Choose([thermal |-> m, coolsense |-> 0], "setCoolsense")

ToggleSmartSense == Choose(NothingKnown, "read")

(* READ_COOLSENSE; a failed read counts as "off" and so turns it on.       *)
ReadCoolsense == /\ ui = "read" /\ ui' = "setCoolsense"
                 /\ \/ choice' = [choice EXCEPT !.coolsense = 1 - hw.coolsense]
                       /\ NoFault
                    \/ choice' = [choice EXCEPT !.coolsense = 1] /\ Fault
                 /\ UNCHANGED <<hw, cache, fresh, inFlight, clean, choices, workerVars>>

(* A write through the service whose response nobody reads.                *)
Write(newHw) == /\ \/ hw' = newHw /\ NoFault /\ UNCHANGED clean
                   \/ Fault /\ clean' = FALSE /\ UNCHANGED hw
                /\ UNCHANGED <<cache, fresh, inFlight, choice, choices, workerVars>>

SetCoolsense == /\ ui = "setCoolsense"
                /\ ui' = IF choice.thermal = Unknown THEN "storeCoolsense"
                                                     ELSE "setThermal"
                /\ Write([hw EXCEPT !.coolsense = choice.coolsense])

SetThermal == /\ ui = "setThermal" /\ ui' = "storeThermal"
              /\ Write([hw EXCEPT !.thermal = choice.thermal])

(* cache_store; None leaves a field alone.                                 *)
StoreThermal == /\ ui = "storeThermal" /\ ui' = "storeCoolsense"
                /\ cache' = [cache EXCEPT !.thermal = choice.thermal]
                /\ UNCHANGED <<hw, fresh, inFlight, choice, clean, choices,
                               workerVars, faults>>

(* Changed form: the mode is stored alone.                                 *)
StoreNoCoolsense == /\ ui = "storeCoolsense" /\ ui' = "stamp"
                    /\ cache' = IF choice.thermal # Unknown THEN cache ELSE
                                  [cache EXCEPT !.coolsense = choice.coolsense]
                    /\ UNCHANGED <<hw, fresh, inFlight, choice, clean, choices,
                                   workerVars, faults>>

StoreCoolsense == /\ ui = "storeCoolsense" /\ ui' = "stamp"
                  /\ cache' = [cache EXCEPT !.coolsense = choice.coolsense]
                  /\ UNCHANGED <<hw, fresh, inFlight, choice, clean, choices,
                                 workerVars, faults>>

Stamp == /\ ui = "stamp" /\ ui' = "idle" /\ fresh' = TRUE
         /\ UNCHANGED <<hw, cache, inFlight, choice, clean, choices, workerVars, faults>>
-----------------------------------------------------------------------------
UiStep == \/ CheckStamp \/ Claim \/ Spawn \/ ReadCoolsense
          \/ SetCoolsense \/ SetThermal \/ StoreThermal \/ StoreCoolsense \/ Stamp

WorkerStep == \/ WorkerRead \/ WorkerStoreThermal \/ WorkerStoreCoolsense
              \/ WorkerStamp \/ WorkerClear

MenuNext == \/ Trigger \/ UiStep \/ WorkerStep \/ Expire
            \/ (\E m \in Modes : SelectMode(m)) \/ ToggleSmartSense

MenuSpec == MenuInit /\ [][MenuNext]_menuVars

(* Both threads run on (every transaction is bounded by its timeout) and   *)
(* five seconds do pass; nobody has to touch the menu.                     *)
FairMenuSpec == /\ MenuSpec /\ WF_menuVars(UiStep) /\ WF_menuVars(WorkerStep) /\ WF_menuVars(Expire)
-----------------------------------------------------------------------------
Chosen == choices > 0 /\ ui = "idle"

(* "the NEXT menu open reflects it" (tray.rs:522-525): once a selection    *)
(* that met no running worker went through, with no failed call, the cache *)
(* the next menu is built from shows it in both fields, and nothing that   *)
(* happens later undoes it, torn or partial stores included.               *)
QuietSelectionShown ==
  Chosen /\ clean /\ worker = "none"
    => /\ cache.coolsense = hw.coolsense \/ cache = NothingKnown
       /\ choice.thermal # Unknown
            => cache.thermal = hw.thermal \/ cache = NothingKnown

(* However a stale worker, an optimistic store or a failed call left the   *)
(* cache: as long as the menu keeps being triggered, it comes to agree     *)
(* with the machine and stays so, because no entry is fresh forever and    *)
(* the in-flight mark is always given back.  A trigger that meets that     *)
(* mark does nothing, so the premise asks for triggers outside it only.    *)
Converges == WF_menuVars(Trigger) => <>[](cache = hw)
=============================================================================
