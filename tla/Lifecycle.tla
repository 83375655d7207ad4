------------------------------ MODULE Lifecycle ------------------------------
(***************************************************************************)
(* The product on one machine: users start its executable, elevated        *)
(* helpers install, update and remove it, the service starts and stops,    *)
(* the tray lives beside it.  The tray's part is in this module: the       *)
(* singleton, the svc-start event and exit_if_service_newer.               *)
(***************************************************************************)
EXTENDS Launcher

(* run_inner: the singleton mutex, waited for at most 3 s; then the token  *)
(* and the no-child lock, and the event if there is one to open.           *)
Enter(p) == /\ proc[p].pc = "single"
            /\ \/ /\ Granted(tray) /\ tray' = Parent(p)
                  /\ proc' = [proc EXCEPT
                       ![p].pc = "loop",
                       ![p].locks = @ \cup ProfileFor["Tray"],
                       ![p].ev = svc = "accept" \/ \E q \in P : proc[q].ev,
                       ![p].excused = IF svc = "accept" THEN {svcBuild} ELSE {}]
               \/ ~Granted(tray) /\ Exit(p) /\ UNCHANGED tray
            /\ NoFault /\ Same /\ Idle(lock)

(* The message loop wakes for the event, which resets it ...               *)
Wake(p) == /\ proc[p].pc = "loop" /\ proc[p].ev /\ signalled
           /\ signalled' = FALSE /\ Reach(p, "check")
           /\ NoFault /\ Same /\ UNCHANGED <<user, files, scm, svc, svcBuild, stopped, mutexes>>

(* Changed form: another build is not told from the tray's own.            *)
CompareLoosely(p) == /\ proc[p].pc = "check" /\ Reach(p, "loop")
                     /\ NoFault /\ Same /\ Idle(mutexes)

(* ... and exit_if_service_newer asks the service for its build.           *)
Compare(p) == /\ proc[p].pc = "check"
              /\ \/ svc = "accept" /\ svcBuild = proc[p].build /\ Reach(p, "loop")
                    /\ NoFault /\ UNCHANGED tray
                 \/ svc = "accept" /\ svcBuild # proc[p].build /\ Exit(p)
                    /\ NoFault /\ tray' = Free
                 \/ /\ IF svc = "accept" THEN Fault ELSE NoFault
                    /\ proc' = [proc EXCEPT ![p].pc = "loop", ![p].excused = @ \cup {svcBuild}]
                    /\ UNCHANGED tray
              /\ Same /\ Idle(lock)

(* The menu's Quit, WM_CLOSE. *)
Quit(p) == /\ proc[p].pc = "loop" /\ Exit(p) /\ tray' = Free
           /\ NoFault /\ Same /\ Idle(lock)

(* "an admin manually swapping the binary + restarting the service": both  *)
(* by other means than the product's, in one step.                         *)
AdminSwaps == /\ svc = "accept" /\ exe = 1 /\ launches < MaxLaunches
              /\ launches' = launches + 1
              /\ exe' = 2 /\ svc' = "footing" /\ svcBuild' = 2
              /\ shown' = "start_pending" /\ stopped' = FALSE
              /\ child' = [q \in P |-> [child[q] EXCEPT !.alone = FALSE]]
              /\ NoFault /\ UNCHANGED <<user, bak, arts, reg, signalled, mutexes, proc>>

TrayStep(p) == Enter(p) \/ Wake(p) \/ Compare(p) \/ Quit(p)

(* At first there is nothing, or build 1 installed and running with a tray *)
(* in one of the slots, or installed and its service deleted by hand.      *)
Fresh == /\ exe = 0 /\ arts = {} /\ reg = "no" /\ shown = "stopped"
         /\ svc = "none" /\ svcBuild = 0 /\ signalled = FALSE
         /\ proc = [p \in P |-> NoProc] /\ tray = Free
Installed(p) == /\ exe = 1 /\ arts = Artifacts /\ reg = "yes" /\ shown = "running"
                /\ svc = "accept" /\ svcBuild = 1 /\ signalled = FALSE /\ tray = Parent(p)
                /\ proc = [q \in P |-> IF q = p
                     THEN [Process("", TRUE, 1) EXCEPT !.pc = "loop", !.ev = TRUE,
                             !.excused = {1}, !.locks = ProfileFor["Tray"]]
                     ELSE NoProc]

Unregistered == /\ exe = 1 /\ arts = Artifacts \ ServiceRights /\ reg = "no" /\ shown = "stopped"
                /\ svc = "none" /\ svcBuild = 0 /\ signalled = FALSE
                /\ proc = [p \in P |-> NoProc] /\ tray = Free

Init == /\ hw \in Hardware /\ accepted = {} /\ bak = 0
        /\ Fresh \/ Unregistered \/ \E p \in P : Installed(p)
        /\ stopped = FALSE /\ lock = Free
        /\ child = [p \in P |-> NoChild] /\ launches = 0 /\ faults = 0

Next == \/ ServiceNext \/ AdminSwaps
        \/ \E p \in P : SetupStep(p) \/ LauncherStep(p) \/ TrayStep(p)

Spec == Init /\ [][Next]_vars
-----------------------------------------------------------------------------
(* Types; who owns the two mutexes; and whatever starts the elevated helper *)
(* or the tray may still start a process: the no-child lock comes after    *)
(* the last such point of its role (win_harden.rs profiles, main.rs).      *)
TypeOK ==
  /\ hw \in Hardware /\ accepted \subseteq Hardware
  /\ {exe, bak, svcBuild} \subseteq 0 .. 2 /\ arts \subseteq Artifacts
  /\ reg \in {"no", "yes", "doomed"}
  /\ shown \in {"stopped", "start_pending", "running", "stop_pending"}
  /\ svc \in {"none", "footing", "opening", "signal", "accept"}
  /\ (svc = "none") <=> (svcBuild = 0)
  /\ svc = "none" => shown = "stopped"
  /\ {stopped, signalled} \subseteq BOOLEAN
  /\ lock \in {Free, Abandoned} \cup {Parent(p) : p \in P} \cup {Child(p) : p \in P}
  /\ tray \in {Free, Abandoned} \cup {Parent(p) : p \in P}
  /\ \A p \in P : (tray = Parent(p)) <=> (proc[p].pc \in {"loop", "check"})
  /\ \A p \in P : (lock = Parent(p)) <=>
                    (proc[p].pc \in {"work", "helper", "await", "failed"})
  /\ \A p \in P : proc[p].pc \in {"lock", "work", "helper", "await"} =>
                    "no_child" \notin proc[p].locks
  /\ launches \in 0 .. MaxLaunches /\ faults \in 0 .. MaxFaults

(* What a helper of a downloaded copy leaves when it ended without a failed *)
(* step and nothing else worked meanwhile.                                 *)
Settled(p, cmd) == /\ child[p].pc = "ended" /\ child[p].cmd = cmd
                   /\ child[p].ok /\ child[p].alone
InstallComplete == \A p \in P : Settled(p, "--install-svc") =>
  exe = child[p].build /\ IsInstalled /\ (Artifacts \ Choices) \cup child[p].choices \subseteq arts
UpdateComplete == \A p \in P : Settled(p, "--update-svc") =>
  exe = child[p].build /\ IsInstalled /\ bak = 0 /\ svcBuild \in {0, exe}
UninstallComplete == \A p \in P : Settled(p, "uninstall") =>
  exe = 0 /\ bak = 0 /\ ~IsInstalled /\ svc = "none" /\ arts \subseteq EtwRights

(* Set-up that met no failure leaves what it promises: the new     *)
(* build and no process of the old one after an update, everything chosen  *)
(* after an installation, nothing but the ETW access rights after an       *)
(* uninstallation (install.rs:979-1154, 1324-1406).                        *)
SetupOutcome == InstallComplete /\ UpdateComplete /\ UninstallComplete

(* "a stale tray must not keep running against a newer service"            *)
(* (tray.rs:1722-1728): unless it was there before the tray opened the     *)
(* event, or did not answer when asked, a service of another build has     *)
(* told the tray, or is about to.                                          *)
StaleTrayTold == \A p \in P :
  proc[p].pc = "loop" /\ proc[p].ev /\ svc = "accept" /\ svcBuild # proc[p].build
  /\ svcBuild \notin proc[p].excused => signalled

(* A start is refused for a set-up in progress only while a live process   *)
(* owns the mutex: "a previous crash can never permanently block setup"    *)
(* (install.rs:45-50).                                                     *)
Owner == {p \in P : Alive(p) /\ lock = Parent(p)} \cup {p \in P : Working(p) /\ lock = Child(p)}
RefusedOnlyByLiving == [][\A p \in P :
  proc[p].pc = "lock" /\ proc'[p].pc = "warned" => Owner # {}]_vars

(* The installed copy's own repair ("Installed copy, but the service is    *)
(* missing (repair)", main.rs:331) leaves the machine with the executable. *)
RepairKeepsExe == \A p \in P : child[p].pc = "ended" /\ child[p].cmd = "--install-svc"
  /\ child[p].inst /\ faults = 0 /\ child[p].alone => exe # 0
=============================================================================
