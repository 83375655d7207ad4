----------------------------- MODULE MonitorOff -----------------------------
(***************************************************************************)
(* request_monitor_off (app/src/tray.rs): a DPMS broadcast is handed to an *)
(* ephemeral worker thread, so that the caller never blocks on it.  Two    *)
(* SeqCst flags coalesce requests into at most one worker; every load,     *)
(* store and swap of them is one step here.                                *)
(***************************************************************************)
EXTENDS Naturals, FiniteSets

CONSTANTS Callers,   \* threads that call request_monitor_off
          Workers    \* slots for the worker threads that may be alive at once

ASSUME ThreadsDisjoint == Callers \cap Workers = {}

VARIABLES dirty,     \* MONITOR_OFF_DIRTY
          active,    \* MONITOR_WORKER_ACTIVE
          pc         \* where each thread is in the function

vars == <<dirty, active, pc>>

CallerPc == {"idle", "claim", "spawn"}
WorkerPc == {"none", "drain", "broadcast", "release", "recheck", "reclaim"}

(* Shapes; a caller never takes a worker's step, so the UI thread never    *)
(* runs the broadcast itself (#93, tray.rs:1523-1526).                     *)
TypeOK == /\ dirty \in BOOLEAN
          /\ active \in BOOLEAN
          /\ pc \in [Callers \cup Workers -> CallerPc \cup WorkerPc]
          /\ \A c \in Callers : pc[c] \in CallerPc
          /\ \A w \in Workers : pc[w] \in WorkerPc

Init == /\ dirty = FALSE
        /\ active = FALSE
        /\ pc = [t \in Callers \cup Workers |->
                   IF t \in Callers THEN "idle" ELSE "none"]

Goto(t, l) == pc' = [pc EXCEPT ![t] = l]

(* MONITOR_OFF_DIRTY.store(true) *)
SetDirty(c) == /\ pc[c] = "idle"
               /\ dirty' = TRUE
               /\ Goto(c, "claim")
               /\ UNCHANGED active

(* Changed forms: the result of the swap is ignored; the caller that won   *)
(* the claim broadcasts itself.                                            *)
ClaimBlindly(c) == /\ pc[c] = "claim"
                   /\ active' = TRUE
                   /\ Goto(c, "spawn")
                   /\ UNCHANGED dirty

ClaimInPlace(c) == /\ pc[c] = "claim"
                   /\ active' = TRUE
                   /\ Goto(c, IF active THEN "idle" ELSE "drain")
                   /\ UNCHANGED dirty

(* if MONITOR_WORKER_ACTIVE.swap(true) { return } *)
Claim(c) == /\ pc[c] = "claim"
            /\ active' = TRUE
            /\ Goto(c, IF active THEN "idle" ELSE "spawn")
            /\ UNCHANGED dirty

(* std::thread::spawn *)
Spawn(c, w) == /\ pc[c] = "spawn" /\ pc[w] = "none"
               /\ pc' = [pc EXCEPT ![c] = "idle", ![w] = "drain"]
               /\ UNCHANGED <<dirty, active>>

(* while MONITOR_OFF_DIRTY.swap(false) *)
Drain(w) == /\ pc[w] = "drain"
            /\ dirty' = FALSE
            /\ Goto(w, IF dirty THEN "broadcast" ELSE "release")
            /\ UNCHANGED active

(* monitor_off_broadcast(), at most 1000 ms for each window *)
Broadcast(w) == /\ pc[w] = "broadcast"
                /\ Goto(w, "drain")
                /\ UNCHANGED <<dirty, active>>

(* MONITOR_WORKER_ACTIVE.store(false) *)
Release(w) == /\ pc[w] = "release"
              /\ active' = FALSE
              /\ Goto(w, "recheck")
              /\ UNCHANGED dirty

(* Changed form: the worker does not look at DIRTY again once it released. *)
NoRecheck(w) == /\ pc[w] = "recheck"
                /\ Goto(w, "none")
                /\ UNCHANGED <<dirty, active>>

(* if MONITOR_OFF_DIRTY.load() && ... *)
Recheck(w) == /\ pc[w] = "recheck"
              /\ Goto(w, IF dirty THEN "reclaim" ELSE "none")
              /\ UNCHANGED <<dirty, active>>

(* ... && !MONITOR_WORKER_ACTIVE.swap(true) { continue } else { break } *)
Reclaim(w) == /\ pc[w] = "reclaim"
              /\ active' = TRUE
              /\ Goto(w, IF active THEN "none" ELSE "drain")
              /\ UNCHANGED dirty

CallerStep(c) == Claim(c) \/ \E w \in Workers : Spawn(c, w)
WorkerStep(w) == Drain(w) \/ Broadcast(w) \/ Release(w) \/ Recheck(w) \/ Reclaim(w)

Next == \/ \E c \in Callers : SetDirty(c) \/ CallerStep(c)
        \/ \E w \in Workers : WorkerStep(w)

Spec == Init /\ [][Next]_vars

(* A call that began runs on and so does a spawned thread; nobody is       *)
(* obliged to press the key.                                               *)
Fairness == /\ \A c \in Callers : WF_vars(CallerStep(c))
            /\ \A w \in Workers : WF_vars(WorkerStep(w))

FairSpec == Spec /\ Fairness
-----------------------------------------------------------------------------
(* A thread holds the worker role from winning ACTIVE to giving it back.   *)
Holds(t) == pc[t] \in {"spawn", "drain", "broadcast", "release"}

(* The threads that will still look at DIRTY, or at ACTIVE because of it.  *)
WillLook(t) == Holds(t) \/ pc[t] \in {"claim", "recheck", "reclaim"}

(* No two threads ever own the broadcast: a mashed key never runs two      *)
(* workers at once (tray.rs:1528, "single-worker guard").                  *)
OneHolder == \A t, u \in Callers \cup Workers : Holds(t) /\ Holds(u) => t = u

(* A recorded request is never abandoned: while DIRTY is set some thread   *)
(* is on its way to serve it, whatever the order of the claim, the release *)
(* and the recheck ("without dropping the last request", tray.rs:1528).    *)
NoLostRequest == dirty => \E t \in Callers \cup Workers : WillLook(t)

(* ACTIVE says exactly whether somebody owns the broadcast, so a leaked    *)
(* claim can never switch the feature off for good.                        *)
ActiveIffHeld == active <=> \E t \in Callers \cup Workers : Holds(t)

(* The promise: requests merge, broadcasts never overlap, and every        *)
(* request is followed by a broadcast that starts after it.                *)
Promise == INSTANCE MonitorOffSpec WITH
             pending <- dirty,
             broadcasting <- \E w \in Workers : pc[w] = "broadcast"
Implements == Promise!Spec
=============================================================================
