------------------------------ MODULE Launcher ------------------------------
(***************************************************************************)
(* A start of the executable by its user, up to the message loop of the    *)
(* tray: main.rs (role dispatch, default_run, bootstrap_run, the install,  *)
(* start, stop and uninstall commands) with the set-up mutex, the dialogs, *)
(* the elevated helper and the waits of install.rs, and the singleton and  *)
(* the svc-start event of tray.rs.  The starts considered are unelevated;  *)
(* with no argument an elevated one returns at once.  A copy that is not   *)
(* installed is never told the service's build (the pipe refuses it), so   *)
(* is_service_current is false for it.                                     *)
(***************************************************************************)
EXTENDS Setup

Commands == {"", "install", "uninstall", "stop", "start"}
Idle(w) == UNCHANGED <<user, files, scm, service, w>>
Same == UNCHANGED <<child, launches>>
Process(cmd, inst, build) ==
  [NoProc EXCEPT !.pc = "main", !.cmd = cmd, !.bare = (cmd = ""), !.inst = inst,
                 !.build = build, !.locks = HardenForRole(RoleOf(cmd))]

(* What a helper finished is not accountable for what a later start does.  *)
Launch(p) == /\ ~Alive(p) /\ ~Working(p) /\ launches < MaxLaunches
             /\ launches' = launches + 1
             /\ \E cmd \in Commands, inst \in BOOLEAN :
                  /\ inst => exe # 0
                  /\ proc' = [proc EXCEPT ![p] = Process(cmd, inst, IF inst THEN exe ELSE 2)]
             /\ child' = [q \in P |-> [child[q] EXCEPT !.alone = FALSE]]
             /\ NoFault /\ Idle(mutexes)

(* main and require_hp *)
To(p, cmd, l) == proc' = [proc EXCEPT ![p].cmd = cmd, ![p].pc = l]
Main(p) == /\ proc[p].pc = "main"
           /\ IF ~IsHp(hw) THEN Exit(p)
              ELSE CASE proc[p].cmd = "" -> Reach(p, "consent")
                     [] proc[p].cmd = "install" -> IF IsInstalled THEN To(p, "update", "lock")
                                                   ELSE Reach(p, "choose")
                     [] OTHER -> Reach(p, "lock")
           /\ NoFault /\ Same /\ Idle(mutexes)

(* record_acceptance: if it fails the question is asked again next time. *)
RecordAcceptance == \/ accepted' = {hw} /\ NoFault
                    \/ UNCHANGED accepted /\ Fault

(* default_run: silently on trusted hardware, else after a dialog. *)
AskConsent(p) == /\ proc[p].pc = "consent"
                 /\ \/ /\ Consent(hw, accepted) = "Trusted"
                       /\ Reach(p, "decide") /\ UNCHANGED accepted /\ NoFault
                    \/ /\ Consent(hw, accepted) # "Trusted"
                       /\ \/ Reach(p, "decide") /\ RecordAcceptance
                          \/ Exit(p) /\ UNCHANGED accepted /\ NoFault
                 /\ Same /\ UNCHANGED <<hw, files, scm, service, mutexes>>

TrayExists == \E q \in P : proc[q].pc \in {"single", "loop", "check"}

(* ensure_tray: the installed copy is started in this one's place. *)
EnsureTray(p) == IF TrayExists \/ exe = 0 THEN Exit(p)
                 ELSE proc' = [proc EXCEPT ![p] = Process("", TRUE, exe)]

(* is_service_current: the pipe answers the installed copy alone.          *)
IsServiceCurrent(p) == proc[p].inst

(* bootstrap_run: a copy that is not installed installs or updates, and    *)
(* never becomes the tray itself.                                          *)
Bootstrap(p) == CASE ~IsInstalled -> To(p, "install", "choose")
                  [] IsInstalled /\ ~IsServiceCurrent(p) -> To(p, "update", "confirm")
                  [] OTHER -> EnsureTray(p)

(* default_run: what the installed copy has to see to before it is the tray. *)
Decide(p) == /\ proc[p].pc = "decide"
             /\ IF ~proc[p].inst THEN Bootstrap(p)
                ELSE CASE ~IsInstalled -> To(p, "install", "choose")
                       [] IsInstalled /\ ~IsRunning -> To(p, "start", "confirm")
                       [] OTHER -> Reach(p, "single")
             /\ NoFault /\ Same /\ Idle(mutexes)

(* The onboarding dialog, and the one that asks for an update or a start.  *)
Choose(p) == /\ proc[p].pc = "choose"
             /\ \/ Exit(p)
                \/ \E c \in {{}, Choices} :
                     proc' = [proc EXCEPT ![p].choices = c, ![p].pc = "lock"]
             /\ NoFault /\ Same /\ Idle(mutexes)

Confirm(p) == /\ proc[p].pc = "confirm" /\ (Exit(p) \/ Reach(p, "lock"))
              /\ NoFault /\ Same /\ Idle(mutexes)
-----------------------------------------------------------------------------
(* Changed form: a mutex whose owner died is not taken over.               *)
AcquireFree(p) == /\ proc[p].pc = "lock"
                  /\ \/ lock = Free /\ lock' = Parent(p) /\ Reach(p, "work")
                     \/ lock # Free /\ Reach(p, "warned") /\ UNCHANGED lock
                  /\ NoFault /\ Same /\ Idle(tray)

(* acquire_setup_lock, and the message when three seconds are over. *)
Acquire(p) == /\ proc[p].pc = "lock"
              /\ \/ Granted(lock) /\ lock' = Parent(p) /\ Reach(p, "work")
                 \/ ~Granted(lock) /\ Reach(p, "warned") /\ UNCHANGED lock
              /\ NoFault /\ Same /\ Idle(tray)

Release(p) == lock' = IF lock = Parent(p) THEN Free ELSE lock

(* A message box: with it the process ends and what it held is released.   *)
Dismiss(p) == /\ proc[p].pc \in {"warned", "failed"} /\ Exit(p) /\ Release(p)
              /\ NoFault /\ Same /\ Idle(tray)

(* relaunch_elevated, if the user consents. *)
First(cmd) == IF cmd = "--install-svc" THEN "rename" ELSE "begin"
Spawned(p, cmd) ==
  child' = [child EXCEPT ![p] =
    [NoChild EXCEPT !.pc = First(cmd), !.cmd = cmd, !.inst = proc[p].inst,
                    !.build = proc[p].build, !.choices = proc[p].choices, !.ok = TRUE,
                    !.alone = \A q \in P \ {p} :
                      ~Working(q) /\ proc[q].pc \in {"off", "single", "loop", "check"}]]
Elevate(p, cmd) == ~Working(p) /\ Spawned(p, cmd)
Refused == UNCHANGED child

DoInstall(p) == /\ proc[p].pc = "work" /\ proc[p].cmd = "install"
                /\ Elevate(p, "--install-svc") \/ Refused
                /\ Reach(p, "await") /\ NoFault
                /\ UNCHANGED launches /\ Idle(mutexes)

(* update waits for its helper before it looks at the service. *)
DoUpdate(p) == /\ proc[p].pc = "work" /\ proc[p].cmd = "update"
               /\ \/ Elevate(p, "--update-svc") /\ Reach(p, "helper") /\ UNCHANGED lock
                  \/ Refused /\ Exit(p) /\ Release(p)
               /\ NoFault /\ UNCHANGED launches /\ Idle(tray)

DoUninstall(p) == /\ proc[p].pc = "work" /\ proc[p].cmd = "uninstall"
                  /\ Elevate(p, "uninstall") \/ Refused
                  /\ Exit(p) /\ Release(p)
                  /\ NoFault /\ UNCHANGED launches /\ Idle(tray)

(* start and stop: at once if the service lets its users, else elevated.   *)
Native(p, done, does, cmd) ==
  \/ done /\ does /\ UNCHANGED child
  \/ ~done /\ (Elevate(p, cmd) \/ Refused) /\ UNCHANGED <<scm, service>>
DoStart(p) == /\ proc[p].pc = "work" /\ proc[p].cmd = "start"
              /\ Native(p, Starts, IF IsRunning THEN UNCHANGED <<scm, service>>
                                   ELSE StartService, "--start-svc")
              /\ IF proc[p].bare THEN Reach(p, "await") /\ UNCHANGED lock
                 ELSE Exit(p) /\ Release(p)
              /\ NoFault /\ UNCHANGED <<user, files, tray, launches>>
DoStop(p) == /\ proc[p].pc = "work" /\ proc[p].cmd = "stop"
             /\ Native(p, Stops, IF IsStopped THEN UNCHANGED <<scm, service>>
                                 ELSE StopService, "--stop-svc")
             /\ Exit(p) /\ Release(p)
             /\ NoFault /\ UNCHANGED <<user, files, tray, launches>>

(* Two minutes at most: a helper that takes longer has company from then on. *)
HelperEnds(p) == /\ proc[p].pc = "helper" /\ Reach(p, "await")
                 /\ child' = [child EXCEPT ![p].alone = @ /\ ~Working(p)]
                 /\ IF Working(p) THEN Fault ELSE NoFault
                 /\ UNCHANGED launches /\ Idle(mutexes)
-----------------------------------------------------------------------------
(* wait_for_service_running, at most 10 s, and what follows: the installed *)
(* copy goes on to be the tray, another (or the install command) starts it *)
(* and ends, and a failed installation or start is reported to who started *)
(* it with no argument.  The wait for an update only delays.               *)
AwaitRunning(p) ==
  /\ proc[p].pc = "await"
  /\ IF IsRunning \/ (~Working(p) /\ svc = "none") THEN NoFault ELSE Fault
  /\ \/ /\ IsRunning \/ proc[p].cmd = "update"
        /\ IF proc[p].bare /\ proc[p].inst THEN Reach(p, "single") ELSE EnsureTray(p)
        /\ Release(p)
     \/ /\ ~IsRunning /\ proc[p].cmd # "update"
        /\ IF proc[p].bare THEN Reach(p, "failed") /\ UNCHANGED lock ELSE Exit(p) /\ Release(p)
  /\ Same /\ Idle(tray)

(* A process dies. *)
Dies(p) == /\ Alive(p) /\ Fault /\ Exit(p)
           /\ lock' = AfterDeath(lock, {Parent(p)}) /\ tray' = AfterDeath(tray, {Parent(p)})
           /\ Same /\ UNCHANGED <<user, files, scm, service>>

LauncherStep(p) == \/ Launch(p) \/ Main(p) \/ AskConsent(p) \/ Decide(p) \/ Choose(p)
                   \/ Confirm(p) \/ Acquire(p) \/ Dismiss(p) \/ DoInstall(p) \/ DoUpdate(p)
                   \/ DoUninstall(p) \/ DoStart(p) \/ DoStop(p) \/ HelperEnds(p)
                   \/ AwaitRunning(p) \/ Dies(p)
=============================================================================
