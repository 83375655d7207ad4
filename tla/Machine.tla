------------------------------- MODULE Machine -------------------------------
(***************************************************************************)
(* What the parts of the product on one machine share: the files and       *)
(* registrations that set-up leaves, the service control manager, the two  *)
(* named mutexes, the svc-start event, and the processes.  Build 0 is no   *)
(* file at all, 1 the build installed earlier, 2 the build of a copy that  *)
(* was downloaded.                                                         *)
(***************************************************************************)
EXTENDS Footing

CONSTANTS P,            \* process slots a user starts the executable in
          Hardware,     \* the machines considered
          MaxLaunches,  \* starts by the user
          MaxFaults     \* steps that fail, processes that die, waits that time out

ASSUME MachineBounds == IsFiniteSet(P) /\ {MaxLaunches, MaxFaults} \subseteq Nat

VARIABLES hw, accepted,           \* the hardware; fingerprints accepted by the user
          exe, bak,               \* the builds at hp-thermal.exe and beside it (.old)
          arts,                   \* the other things set-up leaves behind
          reg, shown,             \* the registration of the service, and its state
          svc, svcBuild, stopped, \* the service process, and its STOP_EVENT
          signalled,              \* the auto-reset svc-start event
          lock, tray,             \* who owns HpThermalSetupMutex, HpThermalTrayMutex
          proc, child,            \* processes, and the elevated helper each started
          launches, faults

user == <<hw, accepted>>
files == <<exe, bak, arts>>
scm == <<reg, shown>>
service == <<svc, svcBuild, stopped, signalled>>
mutexes == <<lock, tray>>
vars == <<user, files, scm, service, mutexes, proc, child, launches, faults>>

(* What set-up leaves beside the executable, by the function that does it. *)
EventSources == {"sources"}
EtwRights == {"etw"}
DataDir == {"data"}
WerExclusion == {"wer"}
ServiceRights == {"privileges", "sid"}  \* kept with the registration
UninstallEntry == {"entry"}
RunKey == {"run"}
Shortcuts == {"menu", "desktop"}
Choices == RunKey \cup Shortcuts
Artifacts == UNION {EventSources, EtwRights, DataDir, WerExclusion, UninstallEntry, ServiceRights,
                    Choices}

NoProc == [pc |-> "off", cmd |-> "", bare |-> FALSE, inst |-> FALSE, build |-> 0, locks |-> {},
           choices |-> {}, ev |-> FALSE, excused |-> {}]
NoChild == [pc |-> "off", cmd |-> "", inst |-> FALSE, build |-> 0, choices |-> {},
            alone |-> FALSE, ok |-> FALSE]

Free == <<"free">>
Abandoned == <<"abandoned">>
Parent(p) == <<"parent", p>>
Child(p) == <<"child", p>>

(* A mutex whose owner died is handed to the next waiter (WAIT_ABANDONED). *)
Granted(owner) == owner \in {Free, Abandoned}
AfterDeath(owner, who) == IF owner \in who THEN Abandoned ELSE owner

Fault == faults < MaxFaults /\ faults' = faults + 1
NoFault == UNCHANGED faults

Reach(p, l) == proc' = [proc EXCEPT ![p].pc = l]
Exit(p) == proc' = [proc EXCEPT ![p] = NoProc]
ChildAt(p, l) == child' = [child EXCEPT ![p].pc = l]
ChildEnds(p, ok) == child' = [child EXCEPT ![p].pc = "ended",
                                           ![p].ok = ok /\ child[p].ok]
Alive(p) == proc[p].pc # "off"
Working(p) == child[p].pc \notin {"off", "ended"}

(* service_state, and what is read from it.  A registration that is marked *)
(* for deletion goes when its process ends.                                *)
IsInstalled == reg # "no"
IsRunning == IsInstalled /\ shown = "running"
IsStopped == ~IsInstalled \/ shown = "stopped"
=============================================================================
