----------------------------- MODULE ScreenProofs -----------------------------
(***************************************************************************)
(* The screen toggle, and the worker of its power-off broadcast.           *)
(*                                                                         *)
(* MonitorOff, for any sets of callers and worker slots: the three facts   *)
(* about DIRTY, ACTIVE and the threads hold each other up.  The flag is    *)
(* exact because at most one thread holds it, and a request cannot be lost *)
(* because a thread that finds the flag taken leaves it to the holder,     *)
(* which looks at DIRTY once more.                                         *)
(*                                                                         *)
(* Screen, for any brightness, methods and failures: the toggle's two      *)
(* halves are never mixed, and while the screen is off what was saved is   *)
(* enough to restore what the user had.                                    *)
(***************************************************************************)
EXTENDS MonitorOff, Screen, TLAPS

-----------------------------------------------------------------------------
(* The worker. *)


Threads == Callers \cup Workers

IInv == TypeOK /\ OneHolder /\ ActiveIffHeld /\ NoLostRequest

(* Every variable keeps its shape, and a caller never takes a worker step. *)
THEOREM TypeCorrect == Spec => []TypeOK
<1>1. Init => TypeOK
  BY ThreadsDisjoint DEF Init, TypeOK, CallerPc, WorkerPc
<1>2. TypeOK /\ [Next]_vars => TypeOK'
  <2> SUFFICES ASSUME TypeOK, [Next]_vars PROVE TypeOK'
    OBVIOUS
  <2> USE ThreadsDisjoint DEF TypeOK, CallerPc, WorkerPc, Goto
  <2>1. ASSUME NEW c \in Callers, SetDirty(c) PROVE TypeOK'
    BY <2>1 DEF SetDirty
  <2>2. ASSUME NEW c \in Callers, Claim(c) PROVE TypeOK'
    BY <2>2 DEF Claim
  <2>3. ASSUME NEW c \in Callers, NEW w \in Workers, Spawn(c, w) PROVE TypeOK'
    BY <2>3 DEF Spawn
  <2>4. ASSUME NEW w \in Workers, Drain(w) PROVE TypeOK'
    BY <2>4 DEF Drain
  <2>5. ASSUME NEW w \in Workers, Broadcast(w) PROVE TypeOK'
    BY <2>5 DEF Broadcast
  <2>6. ASSUME NEW w \in Workers, Release(w) PROVE TypeOK'
    BY <2>6 DEF Release
  <2>7. ASSUME NEW w \in Workers, Recheck(w) PROVE TypeOK'
    BY <2>7 DEF Recheck
  <2>8. ASSUME NEW w \in Workers, Reclaim(w) PROVE TypeOK'
    BY <2>8 DEF Reclaim
  <2>9. CASE UNCHANGED vars
    BY <2>9 DEF vars
  <2> QED
    BY <2>1, <2>2, <2>3, <2>4, <2>5, <2>6, <2>7, <2>8, <2>9
       DEF Next, CallerStep, WorkerStep
<1> QED
  BY <1>1, <1>2, PTL DEF Spec

(* No thread owns anything at the start.                                   *)
LEMMA InitIInv == Init => IInv
  BY ThreadsDisjoint
     DEF Init, IInv, TypeOK, CallerPc, WorkerPc, OneHolder, ActiveIffHeld,
         NoLostRequest, Holds, WillLook

(* One step of any thread keeps the strengthened invariant.                *)
LEMMA StepIInv == TypeOK' /\ IInv /\ [Next]_vars => IInv'
<1> SUFFICES ASSUME TypeOK', IInv, [Next]_vars PROVE IInv'
  OBVIOUS
<1> USE ThreadsDisjoint
    DEF IInv, TypeOK, CallerPc, WorkerPc, Goto, OneHolder, ActiveIffHeld,
        NoLostRequest, Holds, WillLook
<1>1. ASSUME NEW c \in Callers, SetDirty(c) PROVE IInv'
  BY <1>1 DEF SetDirty
<1>2. ASSUME NEW c \in Callers, Claim(c) PROVE IInv'
  <2>1. CASE active
    <3>1. PICK h \in Callers \cup Workers : Holds(h)
      BY <2>1
    <3>2. h # c /\ Holds(h)' /\ ~Holds(c)'
      BY <1>2, <2>1, <3>1 DEF Claim
    <3>3. OneHolder' /\ ActiveIffHeld' /\ NoLostRequest'
      BY <1>2, <2>1, <3>2 DEF Claim
    <3> QED BY <3>3
  <2>2. CASE ~active
    BY <1>2, <2>2 DEF Claim
  <2> QED BY <2>1, <2>2
<1>3. ASSUME NEW c \in Callers, NEW w \in Workers, Spawn(c, w) PROVE IInv'
  BY <1>3 DEF Spawn
<1>4. ASSUME NEW w \in Workers, Drain(w) PROVE IInv'
  BY <1>4 DEF Drain
<1>5. ASSUME NEW w \in Workers, Broadcast(w) PROVE IInv'
  BY <1>5 DEF Broadcast
<1>6. ASSUME NEW w \in Workers, Release(w) PROVE IInv'
  BY <1>6 DEF Release
<1>7. ASSUME NEW w \in Workers, Recheck(w) PROVE IInv'
  BY <1>7 DEF Recheck
<1>8. ASSUME NEW w \in Workers, Reclaim(w) PROVE IInv'
  <2>1. CASE active
    <3>1. PICK h \in Callers \cup Workers : Holds(h)
      BY <2>1
    <3>2. h # w /\ Holds(h)' /\ ~Holds(w)'
      BY <1>8, <2>1, <3>1 DEF Reclaim
    <3>3. OneHolder' /\ ActiveIffHeld' /\ NoLostRequest'
      BY <1>8, <2>1, <3>2 DEF Reclaim
    <3> QED BY <3>3
  <2>2. CASE ~active
    BY <1>8, <2>2 DEF Reclaim
  <2> QED BY <2>1, <2>2
<1>9. CASE UNCHANGED vars
  BY <1>9 DEF vars
<1> QED
  BY <1>1, <1>2, <1>3, <1>4, <1>5, <1>6, <1>7, <1>8, <1>9
     DEF Next, CallerStep, WorkerStep

(* Flag, owner and request agree in every reachable state: the conjuncts   *)
(* below are read off this one invariant of request_monitor_off.           *)
THEOREM IInvHolds == Spec => []IInv
  BY TypeCorrect, InitIInv, StepIInv, PTL DEF Spec

(* At most one thread owns the broadcast (tray.rs, "single-worker guard"). *)
THEOREM SingleOwner == Spec => []OneHolder
  BY IInvHolds, PTL DEF IInv

(* A request recorded in MONITOR_OFF_DIRTY always has a thread on its way  *)
(* to serve it, in every interleaving of claim, release and recheck.       *)
THEOREM NothingLost == Spec => []NoLostRequest
  BY IInvHolds, PTL DEF IInv

(* MONITOR_WORKER_ACTIVE never leaks: it is set exactly while it is owned. *)
THEOREM FlagExact == Spec => []ActiveIffHeld
  BY IInvHolds, PTL DEF IInv

(* The safety part of the promise: each step of the flag protocol is a     *)
(* request, the start or the end of a broadcast, or invisible.             *)
THEOREM Refines == Spec => Promise!Init /\ [][Promise!Next]_(Promise!vars)
<1> USE ThreadsDisjoint DEF TypeOK, CallerPc, WorkerPc, Goto
<1>1. Init => Promise!Init
  BY DEF Init, Promise!Init
<1>2. IInv /\ [Next]_vars => [Promise!Next]_(Promise!vars)
  <2> SUFFICES ASSUME IInv, [Next]_vars PROVE [Promise!Next]_(Promise!vars)
    OBVIOUS
  <2> DEFINE B == \E w \in Workers : pc[w] = "broadcast"
  <2> USE DEF IInv, Promise!vars
  <2>1. ASSUME NEW c \in Callers, SetDirty(c) PROVE Promise!Request
    BY <2>1 DEF SetDirty, Promise!Request
  <2>2. ASSUME NEW c \in Callers, Claim(c) PROVE UNCHANGED Promise!vars
    BY <2>2 DEF Claim
  <2>3. ASSUME NEW c \in Callers, NEW w \in Workers, Spawn(c, w)
        PROVE UNCHANGED Promise!vars
    BY <2>3 DEF Spawn
  <2>4. ASSUME NEW w \in Workers, Drain(w)
        PROVE Promise!Start \/ UNCHANGED Promise!vars
    <3>1. ~B
      BY <2>4 DEF Drain, OneHolder, Holds
    <3>2. CASE dirty
      BY <2>4, <3>1, <3>2 DEF Drain, Promise!Start
    <3>3. CASE ~dirty
      BY <2>4, <3>3 DEF Drain
    <3> QED BY <3>2, <3>3
  <2>5. ASSUME NEW w \in Workers, Broadcast(w) PROVE Promise!Finish
    BY <2>5 DEF Broadcast, Promise!Finish, OneHolder, Holds
  <2>6. ASSUME NEW w \in Workers, Release(w) \/ Recheck(w) \/ Reclaim(w)
        PROVE UNCHANGED Promise!vars
    BY <2>6 DEF Release, Recheck, Reclaim
  <2>7. CASE UNCHANGED vars
    BY <2>7 DEF vars
  <2> QED
    BY <2>1, <2>2, <2>3, <2>4, <2>5, <2>6, <2>7
       DEF Next, CallerStep, WorkerStep, Promise!Next
<1> QED
  BY <1>1, <1>2, IInvHolds, PTL DEF Spec

-----------------------------------------------------------------------------
(* The screen toggle. *)

ScreenTypes == /\ isOn \in BOOLEAN /\ black \in BOOLEAN /\ awake \in BOOLEAN
               /\ method \in Methods
               /\ ui \in {"idle", "off", "setZero", "cover", "restore", "uncover"}
               /\ saved \in Nat /\ level \in Nat /\ before \in Nat /\ faults \in Nat

(* screen_off runs with the flag cleared and screen_on with the flag set.  *)
Halves == /\ ui \in {"off", "setZero", "cover"} => ~isOn
          /\ ui \in {"restore", "uncover"} => isOn

(* Where the user's level is: still on the panel, with nothing saved that  *)
(* would replace it by another one, or saved.                              *)
Saved == faults = 0 =>
  /\ (ScreenOn \/ ui \in {"off", "uncover"}) => saved = 0
  /\ (ScreenOn \/ ui \in {"off", "setZero", "uncover"}) => level = before
  /\ ~ScreenOn /\ ui # "uncover" => saved \in {0, before} /\ (saved = 0 => level = before)
  /\ ui = "setZero" => saved = before

ScreenInv == ScreenTypes /\ Halves /\ NothingLeftOver /\ Saved

(* The screen is on, bright as the user left it, with nothing saved.       *)
LEMMA ScreenInitInv == ScreenInit => ScreenInv
<1> SUFFICES ASSUME ScreenInit PROVE ScreenInv
  OBVIOUS
<1>1. ScreenTypes
  <2>1. isOn \in BOOLEAN /\ black \in BOOLEAN /\ awake \in BOOLEAN /\ method \in Methods
    BY DEF ScreenInit
  <2>2. saved \in Nat /\ level \in Nat /\ before \in Nat /\ faults \in Nat
    BY BrightAssumption DEF ScreenInit
  <2> QED
    BY <2>1, <2>2 DEF ScreenInit, ScreenTypes
<1>2. Halves /\ NothingLeftOver /\ Saved
  BY DEF ScreenInit, Halves, NothingLeftOver, Saved, ScreenOn
<1> QED
  BY <1>1, <1>2 DEF ScreenInv

(* What the user does, and what the cover's message asks for.              *)
LEMMA UserKeeps ==
  ASSUME ScreenInv, Press \/ Touch \/ Dismiss \/ Adjust \/ \E m \in Methods : SelectMethod(m)
  PROVE  ScreenInv'
<1> USE BrightAssumption DEF ScreenInv, ScreenTypes, Halves, NothingLeftOver, Saved, ScreenOn, panel
<1>1. CASE Press
  BY <1>1 DEF Press
<1>2. CASE Touch
  BY <1>2 DEF Touch
<1>3. CASE Dismiss
  BY <1>3 DEF Dismiss
<1>4. CASE Adjust
  BY <1>4 DEF Adjust
<1>5. CASE \E m \in Methods : SelectMethod(m)
  BY <1>5 DEF SelectMethod
<1> QED
  BY <1>1, <1>2, <1>3, <1>4, <1>5

(* screen_off and screen_on, a transaction at a time.                      *)
LEMMA ToggleKeeps == ASSUME ScreenInv, UiStep PROVE ScreenInv'
<1> USE BrightAssumption
        DEF ScreenInv, ScreenTypes, Halves, NothingLeftOver, Saved, ScreenOn, panel, Fault
<1>1. CASE OffDpms
  BY <1>1 DEF OffDpms
<1>2. CASE OffBlack
  BY <1>2 DEF OffBlack
<1>3. CASE OffRead
  BY <1>3 DEF OffRead
<1>4. CASE OffSetZero
  BY <1>4 DEF OffSetZero
<1>5. CASE OffCover
  BY <1>5 DEF OffCover
<1>6. CASE OnRestore
  BY <1>6 DEF OnRestore
<1>7. CASE OnUncover
  BY <1>7 DEF OnUncover
<1> QED
  BY <1>1, <1>2, <1>3, <1>4, <1>5, <1>6, <1>7 DEF UiStep

(* A toggle in any state of the other threads and of the panel.            *)
THEOREM ScreenInvHolds == ScreenSpec => []ScreenInv
<1>1. ScreenInv /\ [ScreenNext]_screenVars => ScreenInv'
  <2> SUFFICES ASSUME ScreenInv, [ScreenNext]_screenVars PROVE ScreenInv'
    OBVIOUS
  <2> USE DEF ScreenInv, ScreenTypes, Halves, NothingLeftOver, Saved, ScreenOn, panel
  <2>1. CASE CastStart \/ CastReach \/ CastFinish \/ MouseWake
    BY <2>1 DEF CastStart, CastReach, CastFinish, MouseWake
  <2>2. CASE UNCHANGED screenVars
    BY <2>2 DEF screenVars
  <2> QED
    BY <2>1, <2>2, UserKeeps, ToggleKeeps DEF ScreenNext
<1> QED
  BY <1>1, ScreenInitInv, PTL DEF ScreenSpec

(* screen_on takes away the black window and the keep-awake that screen_off*)
(* put up, by any method.  The level of the panel is RestoresBrightness.   *)
THEOREM LeavesNothing == ScreenSpec => []NothingLeftOver
  BY ScreenInvHolds, PTL DEF ScreenInv

(* screen_on gives back the brightness the user had, never an older one.   *)
THEOREM RestoresBrightness == ScreenSpec => []BrightnessRestored
<1>1. ScreenInv => BrightnessRestored
  BY DEF ScreenInv, Saved, BrightnessRestored
<1> QED
  BY <1>1, ScreenInvHolds, PTL
=============================================================================
