----------------------------- MODULE ServiceHost -----------------------------
(***************************************************************************)
(* The life of the service (service.rs, install.rs native_start and        *)
(* native_stop): start, the checks of its footing, the state it reports,   *)
(* the svc-start event, stop and death.  The accept loop is PipeTransact.  *)
(***************************************************************************)
EXTENDS Machine

ServiceKeeps == {"SeChangeNotify", "SeCreateGlobal", "SeImpersonate"}
TokenOf(stuck) == Stripped({"SeChangeNotify", "SeDebug"}, ServiceKeeps, stuck)

(* The process is gone; the manager shows STOPPED and finishes a deletion. *)
SvcEnds == /\ svc' = "none" /\ svcBuild' = 0 /\ stopped' = FALSE
           /\ shown' = "stopped"
           /\ reg' = IF reg = "doomed" THEN "no" ELSE reg
           /\ UNCHANGED signalled

(* native_start *)
StartService == IF reg = "yes" /\ svc = "none" /\ exe # 0
                THEN /\ svc' = "footing" /\ svcBuild' = exe /\ shown' = "start_pending"
                     /\ UNCHANGED <<reg, stopped, signalled>>
                ELSE UNCHANGED <<scm, service>>
Starts == IsRunning \/ (reg = "yes" /\ svc = "none" /\ exe # 0)

(* native_stop and ctrl_handler: before the event exists a stop is only    *)
(* shown, and the service comes up all the same.                           *)
StopService == IF svc # "none" /\ shown # "stop_pending"
               THEN /\ shown' = "stop_pending" /\ stopped' = (svc # "footing")
                    /\ UNCHANGED <<reg, svc, svcBuild, signalled>>
               ELSE UNCHANGED <<scm, service>>
Stops == IsStopped \/ shown # "stop_pending"
-----------------------------------------------------------------------------
Outside == UNCHANGED <<user, files, mutexes, proc, child, launches>>

(* running_from_install_dir; a copy of the same build that took the        *)
(* image's place while it starts is not told from it.                      *)
RunningFromInstallDir == exe = svcBuild

(* The footing checks (exit codes 4 to 7): the running image is the one in *)
(* the install directory, only administrators may write it, the process is *)
(* privileged, and nothing beyond the least set remains in its token.      *)
FootingHolds(dacl, privileged, stuck) ==
  /\ RunningFromInstallDir
  /\ WriteRestricted(dacl) /\ privileged
  /\ Extras(TokenOf(stuck), ServiceKeeps, stuck) = {}

Dacl(loose) == [kind |-> "list",
                aces |-> {[allow |-> TRUE, inheritOnly |-> FALSE, writes |-> loose,
                           privileged |-> FALSE]}]

(* service_main up to the creation of STOP_EVENT. *)
SvcFooting == /\ svc = "footing"
              /\ \E loose \in BOOLEAN, privileged \in BOOLEAN, stuck \in SUBSET {"SeDebug"} :
                   /\ IF ~loose /\ privileged /\ stuck = {} THEN NoFault ELSE Fault
                   /\ IF FootingHolds(Dacl(loose), privileged, stuck)
                      THEN svc' = "opening" /\ UNCHANGED <<scm, svcBuild, stopped, signalled>>
                      ELSE SvcEnds
              /\ Outside

(* WMI, the pipe and the event subscription; only the first two are fatal. *)
SvcOpening == /\ svc = "opening"
              /\ \/ /\ svc' = "signal" /\ shown' = "running" /\ NoFault
                    /\ UNCHANGED <<reg, svcBuild, stopped, signalled>>
                 \/ Fault /\ SvcEnds
              /\ Outside

(* signal_svc_start_event: whoever waits or comes later is told.           *)
SvcSignal == /\ svc = "signal" /\ svc' = "accept"
             /\ signalled' = TRUE /\ NoFault
             /\ UNCHANGED <<scm, svcBuild, stopped>> /\ Outside

SvcStop == /\ svc = "accept" /\ stopped /\ SvcEnds /\ NoFault /\ Outside

SvcDies == /\ svc # "none" /\ Fault /\ SvcEnds /\ Outside

ServiceNext == SvcFooting \/ SvcOpening \/ SvcSignal \/ SvcStop \/ SvcDies
=============================================================================
