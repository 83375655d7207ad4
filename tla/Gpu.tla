-------------------------------- MODULE Gpu --------------------------------
(***************************************************************************)
(* The graphics library of the debug menu (app/src/nvml.rs): loaded when   *)
(* the menu asks for it, and unloaded by a timer of the tray when it has   *)
(* not been used for a while.                                              *)
(***************************************************************************)
EXTENDS Integers

CONSTANTS
  Timeout,   \* IDLE_TIMEOUT
  MaxOpens   \* menus opened

VARIABLES
  loaded,    \* NVML holds a library
  idle,      \* time since last_use, up to Timeout
  armed,     \* the timer NVML_TIMER_ID
  menu,      \* a context menu is open
  opens
gpuVars == <<loaded, idle, armed, menu, opens>>

GpuInit == loaded = FALSE /\ idle = 0 /\ armed = FALSE /\ menu = FALSE /\ opens = 0

Open == ~menu /\ menu' = TRUE /\ opens < MaxOpens /\ opens' = opens + 1
OpenMenu == Open /\ UNCHANGED <<loaded, idle, armed>>

(* gpu_info: a library that cannot be used is freed at once; one that is   *)
(* loaded stays, whatever the card answers.                                *)
OpenDebugMenu == /\ Open /\ idle' = 0 /\ UNCHANGED armed
                 /\ loaded' \in {loaded, TRUE}

(* Changed form: the timer is set only by the menu that loaded it. *)
CloseMenuOnce == /\ menu /\ menu' = FALSE
                 /\ armed' = (armed \/ (loaded /\ opens = 1))
                 /\ UNCHANGED <<loaded, idle, opens>>
CloseMenu == /\ menu /\ menu' = FALSE
             /\ armed' = (armed \/ loaded)
             /\ UNCHANGED <<loaded, idle, opens>>

Pass == /\ loaded /\ idle < Timeout /\ idle' = idle + 1
        /\ UNCHANGED <<loaded, armed, menu, opens>>

(* WM_TIMER, in the loop of an open menu too: unload_if_idle, and no timer *)
(* is left when nothing is loaded any more.                                *)
Sweep == /\ armed
         /\ loaded' = (loaded /\ idle < Timeout)
         /\ armed' = loaded'
         /\ idle' = (IF loaded' THEN idle ELSE 0)
         /\ UNCHANGED <<menu, opens>>

GpuNext == OpenMenu \/ OpenDebugMenu \/ CloseMenu \/ Pass \/ Sweep

(* Menus are closed, time passes, the timer's message is delivered. *)
GpuFairness == WF_gpuVars(CloseMenu) /\ WF_gpuVars(Pass) /\ WF_gpuVars(Sweep)

(* Once the user leaves the menu alone, neither the library nor the timer  *)
(* stays, though the library was loaded while the timer was being stopped. *)
GpuReleased == loaded \/ armed ~> ~loaded /\ ~armed
=============================================================================
