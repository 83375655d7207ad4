-------------------------------- MODULE Setup --------------------------------
(***************************************************************************)
(* The elevated work of install.rs: install_service, update_service,       *)
(* uninstall, and the start and stop helpers, one action per step that     *)
(* changes what another process sees.  A step may fail or the helper die   *)
(* between two of them; a registry entry or shortcut that cannot be        *)
(* written is passed over, as in the code.                                 *)
(***************************************************************************)
EXTENDS ServiceHost

(* The processes that wait_or_kill_other_instances ends: they run from the *)
(* installed path.  The service is one of them, if it can be opened.       *)
Victims == {q \in P : proc[q].inst /\ Alive(q)}
ChildVictims(p) == {q \in P \ {p} : child[q].inst /\ Working(q)}

InUse == svc # "none" \/ Victims # {}

At(p, cmds, l) == child[p].cmd \in cmds /\ child[p].pc = l

Step(p, from, to) == child[p].pc = from /\ ChildAt(p, to)
Keeps(v) == UNCHANGED <<user, mutexes, proc, launches, v>>
-----------------------------------------------------------------------------
(* The first step: the update posts WM_CLOSE to the trays, which they may  *)
(* act on at any time, and stops the service; its Event Log sources come   *)
(* first.                                                                  *)
UpdateStops(p) == /\ At(p, {"--update-svc"}, "begin") /\ ChildAt(p, "await")
                  /\ arts' = arts \cup EventSources
                  /\ IF IsStopped THEN UNCHANGED <<scm, service>> ELSE StopService
                  /\ NoFault /\ Keeps(<<exe, bak>>)

(* Changed form: the service is not waited for.                            *)
AwaitNot(p) == /\ child[p].pc = "await"
               /\ ChildAt(p, IF child[p].cmd = "uninstall" THEN "delete" ELSE "kill")
               /\ NoFault /\ Keeps(<<files, scm, service>>)

(* wait_for_service_stopped: at most 10 s, and on it goes either way.      *)
Await(p) == /\ child[p].pc = "await"
            /\ IF IsStopped THEN NoFault ELSE Fault
            /\ child' = [child EXCEPT
                 ![p].pc = IF child[p].cmd = "uninstall" THEN "delete" ELSE "kill",
                 ![p].ok = @ /\ IsStopped]
            /\ Keeps(<<files, scm, service>>)

(* wait_or_kill_other_instances *)
Kill(p) == /\ child[p].pc = "kill"
           /\ proc' = [q \in P |-> IF q \in Victims THEN NoProc ELSE proc[q]]
           /\ child' = [q \in P |->
                IF q = p THEN [child[p] EXCEPT !.pc = IF child[p].cmd = "uninstall"
                                                      THEN "stop" ELSE "rename"]
                ELSE IF q \in ChildVictims(p) THEN [child[q] EXCEPT !.pc = "ended", !.ok = FALSE]
                ELSE child[q]]
           /\ LET dead == {Parent(q) : q \in Victims} \cup {Child(q) : q \in ChildVictims(p)}
              IN lock' = AfterDeath(lock, dead) /\ tray' = AfterDeath(tray, dead)
           /\ \/ svc # "none" /\ SvcEnds
              \/ UNCHANGED <<scm, service>>
           /\ NoFault /\ UNCHANGED <<user, files, launches>>

(* copy_exe_to_install_dir: the old file is moved aside ...                *)
Rename(p) == /\ child[p].pc = "rename"
             /\ \/ /\ exe # 0 /\ exe' = 0 /\ bak' = exe /\ NoFault /\ ChildAt(p, "copy")
                \/ /\ exe = 0 /\ NoFault /\ ChildAt(p, "copy") /\ UNCHANGED <<exe, bak>>
                \/ /\ exe # 0 /\ Fault /\ ChildEnds(p, FALSE) /\ UNCHANGED <<exe, bak>>
             /\ Keeps(<<arts, scm, service>>)

(* ... and the running file copied to its place.  A helper that runs from  *)
(* that very place has just moved its own source away; one that finds a    *)
(* running image there (put by another helper) cannot write it.            *)
Blocked(p) == child[p].inst \/ (exe # 0 /\ InUse)
Copy(p) == /\ child[p].pc = "copy"
           /\ \/ /\ ~Blocked(p) /\ exe' = child[p].build /\ bak' = 0 /\ NoFault
                 /\ ChildAt(p, "configure")
              \/ /\ IF Blocked(p) THEN NoFault ELSE Fault
                 /\ ChildEnds(p, FALSE) /\ UNCHANGED <<exe, bak>>
           /\ Keeps(<<arts, scm, service>>)

(* Everything between the copy and the start.  The update finds the        *)
(* service registered; the installation creates it (sc create fails on one *)
(* that exists or is being deleted, which is only logged: a failed step if *)
(* there is no service to configure afterwards).                           *)
Configure(p) ==
  /\ child[p].pc = "configure"
  /\ IF child[p].cmd = "--install-svc" /\ reg = "no"
     THEN reg' = "yes" /\ shown' = "stopped" ELSE UNCHANGED scm
  /\ child' = [child EXCEPT ![p].pc = "start",
                 ![p].ok = @ /\ (child[p].cmd = "--install-svc" => reg' = "yes")]
  /\ arts' = UNION {arts, DataDir, WerExclusion,
                     IF child[p].cmd = "--update-svc" THEN UninstallEntry
                                                      ELSE EventSources \cup EtwRights,
                     IF reg' = "yes" THEN ServiceRights ELSE {}}
  /\ NoFault /\ Keeps(<<exe, bak, service>>)

(* The last step of the update, of --start-svc, and last but one of the    *)
(* installation.                                                           *)
Start(p) == /\ child[p].pc = "start" \/ At(p, {"--start-svc"}, "begin")
            /\ IF IsRunning THEN UNCHANGED <<scm, service>> ELSE StartService
            /\ IF child[p].cmd = "--install-svc" THEN ChildAt(p, "finish")
               ELSE ChildEnds(p, Starts)
            /\ NoFault /\ Keeps(files)

Finish(p) == /\ child[p].pc = "finish" /\ ChildEnds(p, TRUE)
             /\ arts' = arts \cup UninstallEntry \cup child[p].choices
             /\ NoFault /\ Keeps(<<exe, bak, scm, service>>)

StopHelper(p) == /\ At(p, {"--stop-svc"}, "begin") /\ ChildEnds(p, Stops)
                 /\ IF IsStopped THEN UNCHANGED <<scm, service>> ELSE StopService
                 /\ NoFault /\ Keeps(files)
-----------------------------------------------------------------------------
(* uninstall is the one helper that takes the set-up mutex itself: it      *)
(* comes through guarded_setup like any command.                           *)
UninstallLock(p) == /\ At(p, {"uninstall"}, "begin")
                    /\ \/ Granted(lock) /\ lock' = Child(p) /\ ChildAt(p, "clean") /\ NoFault
                       \/ ~Granted(lock) /\ Fault /\ ChildEnds(p, FALSE) /\ UNCHANGED lock
                    /\ UNCHANGED <<user, files, scm, service, tray, proc, launches>>

(* The access rights of the ETW provider are not taken back.               *)
Clean(p) == /\ Step(p, "clean", "kill")
            /\ arts' = arts \ (Choices \cup UninstallEntry \cup WerExclusion \cup EventSources)
            /\ accepted' = {}
            /\ NoFault /\ UNCHANGED <<hw, exe, bak, scm, service, mutexes, proc, launches>>

UninstallStops(p) == /\ Step(p, "stop", "await")
                     /\ IF IsStopped THEN UNCHANGED <<scm, service>> ELSE StopService
                     /\ NoFault /\ Keeps(files)

Delete(p) == /\ Step(p, "delete", "remove")
             /\ reg' = IF reg = "yes" THEN IF svc = "none" THEN "no" ELSE "doomed" ELSE reg
             /\ arts' = arts \ ServiceRights
             /\ NoFault /\ Keeps(<<exe, bak, shown, service>>)

(* relocate_self_for_deletion: the helper's own image cannot be moved.     *)
StaysInPlace(p) == child[p].inst /\ exe # 0 /\ Fault

(* The directory goes unless an image in it runs (its own is moved away    *)
(* first); then the data, and with the process the mutex.                  *)
Remove(p) == /\ child[p].pc = "remove"
             /\ \/ /\ ~InUse /\ exe' = 0 /\ bak' = 0
                   /\ ChildEnds(p, TRUE) /\ NoFault
                \/ /\ InUse /\ UNCHANGED <<exe, bak>>
                   /\ ChildEnds(p, TRUE) /\ NoFault
                \/ /\ StaysInPlace(p) /\ UNCHANGED <<exe, bak>>
                   /\ ChildEnds(p, FALSE)
             /\ arts' = arts \ DataDir
             /\ lock' = Free
             /\ UNCHANGED <<user, scm, service, tray, proc, launches>>

(* The helper dies: it is ended from outside, or the machine is.           *)
HelperDies(p) == /\ Working(p) /\ Fault /\ ChildEnds(p, FALSE)
                 /\ lock' = AfterDeath(lock, {Child(p)})
                 /\ UNCHANGED <<user, files, scm, service, tray, proc, launches>>

SetupStep(p) == \/ UpdateStops(p) \/ Await(p) \/ Kill(p) \/ Rename(p) \/ Copy(p)
                \/ Configure(p) \/ Start(p) \/ Finish(p) \/ StopHelper(p)
                \/ UninstallLock(p) \/ Clean(p) \/ UninstallStops(p) \/ Delete(p)
                \/ Remove(p) \/ HelperDies(p)
=============================================================================
