-------------------------------- MODULE Screen --------------------------------
(***************************************************************************)
(* Screen off and on by Fn+F12 (screen_off, screen_on, the black window    *)
(* and its WM_SCREEN_ON escape in app/src/tray.rs).  The DPMS broadcast of *)
(* request_monitor_off is represented by its promise, MonitorOffSpec,      *)
(* which MonitorOff implements.  The debounce is FnKey's: here every press *)
(* is one that handle_fn_key acts on.  MaxFaults bounds the brightness     *)
(* transactions that fail.                                                 *)
(***************************************************************************)
EXTENDS Naturals

CONSTANTS Bright,      \* the brightest level
          Methods,     \* the methods the menu offers
          MaxFaults

ASSUME BrightAssumption == Bright \in Nat \ {0}
ASSUME MethodsAssumption == Methods \subseteq {"DPMS", "BRIGHTNESS", "BLACK"}

VARIABLES isOn,        \* SCREEN_IS_ON
          method,      \* SCREEN_METHOD
          saved,       \* SAVED_BRIGHTNESS
          black,       \* BLACK_WINDOW exists
          escape,      \* a WM_SCREEN_ON message is queued
          awake,       \* ES_SYSTEM_REQUIRED is held by the UI thread
          ui,          \* where the UI thread is in screen_off or screen_on
          level,       \* the panel's brightness
          powered,     \* the monitor is not powered off
          pending, broadcasting,   \* the off broadcast, as in MonitorOffSpec
          before,      \* the level when the screen was last turned off
          faults

panel == <<level, powered>>
cast == <<pending, broadcasting>>
screenVars == <<isOn, method, saved, black, escape, awake, ui, panel, cast, before, faults>>

ScreenInit == /\ isOn = TRUE /\ method \in Methods
              /\ saved = 0 /\ black = FALSE /\ escape = FALSE /\ awake = FALSE
              /\ ui = "idle"
              /\ level \in 0 .. Bright /\ powered = TRUE
              /\ pending = FALSE /\ broadcasting = FALSE
              /\ before = level /\ faults = 0

Cast == INSTANCE MonitorOffSpec

Fault == faults < MaxFaults /\ faults' = faults + 1
-----------------------------------------------------------------------------
(* handle_fn_key: the flag is flipped first, then the screen follows.      *)
Press == /\ ui = "idle"
         /\ isOn' = ~isOn
         /\ ui' = IF isOn THEN "off" ELSE "restore"
         /\ before' = IF isOn THEN level ELSE before
         /\ UNCHANGED <<method, saved, black, escape, awake, panel, cast, faults>>

(* screen_off's match on the method. *)
OffDpms == /\ ui = "off" /\ method = "DPMS" /\ ui' = "idle"
           /\ awake' = TRUE
           /\ Cast!Request
           /\ UNCHANGED <<isOn, method, saved, black, escape, panel, before, faults>>

OffBlack == /\ ui = "off" /\ method = "BLACK" /\ ui' = "idle"
            /\ black' = TRUE
            /\ UNCHANGED <<isOn, method, saved, escape, awake, panel, cast,
                           before, faults>>

OffRead == /\ ui = "off" /\ method = "BRIGHTNESS" /\ ui' = "setZero"
           /\ \/ saved' = (IF level > 0 THEN level ELSE saved) /\ UNCHANGED faults
              \/ Fault /\ UNCHANGED saved
           /\ UNCHANGED <<isOn, method, black, escape, awake, panel, cast, before>>

OffSetZero == /\ ui = "setZero" /\ ui' = "cover"
              /\ \/ level' = 0 /\ UNCHANGED faults
                 \/ Fault /\ UNCHANGED level
              /\ UNCHANGED <<isOn, method, saved, black, escape, awake, powered,
                             cast, before>>

OffCover == /\ ui = "cover" /\ ui' = "idle" /\ black' = TRUE
            /\ UNCHANGED <<isOn, method, saved, escape, awake, panel, cast,
                           before, faults>>

(* Changed form: the saved level is loaded and stays saved.                *)
OnRestoreKeep == /\ ui = "restore" /\ ui' = "uncover"
                 /\ \/ level' = (IF saved > 0 THEN saved ELSE level)
                       /\ UNCHANGED faults
                    \/ saved > 0 /\ Fault /\ UNCHANGED level
                 /\ UNCHANGED <<isOn, method, saved, black, escape, awake, powered,
                                cast, before>>

(* screen_on: SAVED_BRIGHTNESS.swap(0) and the write.                      *)
OnRestore == /\ ui = "restore" /\ ui' = "uncover"
             /\ saved' = 0
             /\ \/ level' = (IF saved > 0 THEN saved ELSE level) /\ UNCHANGED faults
                \/ saved > 0 /\ Fault /\ UNCHANGED level
             /\ UNCHANGED <<isOn, method, black, escape, awake, powered, cast, before>>

(* Changed form: each method cleans up after itself only.                  *)
OnUncoverOwn == /\ ui = "uncover" /\ ui' = "idle"
                /\ black' = (black /\ method = "DPMS")
                /\ awake' = (awake /\ method # "DPMS")
                /\ powered' = TRUE
                /\ UNCHANGED <<isOn, method, saved, escape, level, cast, before, faults>>

(* DestroyWindow; ES_CONTINUOUS, then ES_DISPLAY_REQUIRED. *)
OnUncover == /\ ui = "uncover" /\ ui' = "idle"
             /\ black' = FALSE /\ awake' = FALSE /\ powered' = TRUE
             /\ UNCHANGED <<isOn, method, saved, escape, level, cast, before, faults>>

(* A key or a click in the black window posts WM_SCREEN_ON.                *)
Touch == /\ black /\ ~escape /\ escape' = TRUE
         /\ UNCHANGED <<isOn, method, saved, black, awake, ui, panel, cast,
                        before, faults>>

(* Changed form: the message runs screen_on without setting the flag.      *)
DismissUnmarked == /\ ui = "idle" /\ escape /\ escape' = FALSE
                   /\ ui' = IF isOn THEN "idle" ELSE "restore"
                   /\ UNCHANGED <<isOn, method, saved, black, awake, panel, cast,
                                  before, faults>>

(* wnd_proc on WM_SCREEN_ON; a press may have turned the screen on since.  *)
Dismiss == /\ ui = "idle" /\ escape /\ escape' = FALSE
           /\ isOn' = TRUE
           /\ ui' = IF isOn THEN "idle" ELSE "restore"
           /\ UNCHANGED <<method, saved, black, awake, panel, cast, before, faults>>

(* The debug menu's method rows. *)
SelectMethod(m) == /\ ui = "idle" /\ method' = m
                   /\ UNCHANGED <<isOn, saved, black, escape, awake, ui, panel,
                                  cast, before, faults>>
-----------------------------------------------------------------------------
(* The worker of request_monitor_off and the windows it reaches; each of   *)
(* them powers the monitor off when it gets around to the message.         *)
CastStart == /\ Cast!Start
             /\ UNCHANGED <<isOn, method, saved, black, escape, awake, ui, panel,
                            before, faults>>

CastReach == /\ broadcasting /\ powered' = FALSE
             /\ UNCHANGED <<isOn, method, saved, black, escape, awake, ui, level,
                            cast, before, faults>>

CastFinish == /\ Cast!Finish
              /\ UNCHANGED <<isOn, method, saved, black, escape, awake, ui, panel,
                             before, faults>>

(* The user sets the brightness some other way while the screen is on, or  *)
(* wakes a powered-off monitor with the mouse.                             *)
Adjust == /\ ui = "idle" /\ isOn /\ \E l \in 0 .. Bright : level' = l
          /\ before' = level'
          /\ UNCHANGED <<isOn, method, saved, black, escape, awake, ui, powered,
                         cast, faults>>

MouseWake == /\ ~powered /\ powered' = TRUE
             /\ UNCHANGED <<isOn, method, saved, black, escape, awake, ui, level,
                            cast, before, faults>>

UiStep == OffDpms \/ OffBlack \/ OffRead \/ OffSetZero \/ OffCover \/ OnRestore \/ OnUncover

ScreenNext == \/ Press \/ UiStep \/ Touch \/ Dismiss \/ CastStart \/ CastReach \/ CastFinish
              \/ Adjust \/ MouseWake \/ \E m \in Methods : SelectMethod(m)

ScreenSpec == ScreenInit /\ [][ScreenNext]_screenVars
FairScreenSpec == ScreenSpec /\ WF_screenVars(UiStep) /\ WF_screenVars(Dismiss)
-----------------------------------------------------------------------------
ScreenOn == isOn /\ ui = "idle"

(* screen_on undoes every method, also one that was selected while the     *)
(* screen was off: no cover and no wake lock outlives it (tray.rs:1503).   *)
NothingLeftOver == ScreenOn => ~black /\ ~awake

(* Unless a transaction failed, the brightness after screen_on is the one  *)
(* the user had, never one saved on an earlier occasion.                   *)
BrightnessRestored == ScreenOn /\ faults = 0 => level = before

(* A touch on the cover always ends with the screen on, at least for an    *)
(* instant, also when it races a press of the key.                         *)
EscapeWorks == escape ~> ScreenOn
=============================================================================
