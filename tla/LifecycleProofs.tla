-------------------------- MODULE LifecycleProofs --------------------------
(***************************************************************************)
(* Lifecycle for any number of process slots, starts and faults.  A helper *)
(* that worked alone is followed from step to step; what its steps leave   *)
(* behind stays because whoever else is alive only waits or is the tray.   *)
(***************************************************************************)
EXTENDS Lifecycle, TLAPS

ProcPcs == {"off", "main", "consent", "decide", "choose", "confirm", "lock", "warned", "work",
            "helper", "await", "failed", "single", "loop", "check"}
ChildPcs == {"off", "ended", "begin", "await", "kill", "rename", "copy", "configure", "start",
             "finish", "clean", "stop", "delete", "remove"}
Builds == {0, 1, 2}
ProcRecs == [pc : ProcPcs, cmd : Commands \cup {"update"}, bare : BOOLEAN, inst : BOOLEAN,
             build : Builds, locks : SUBSET Locks, choices : SUBSET Choices, ev : BOOLEAN,
             excused : SUBSET Builds]
Helpers == {"", "--install-svc", "--update-svc", "--stop-svc", "--start-svc", "uninstall"}
ChildRecs == [pc : ChildPcs, cmd : Helpers, inst : BOOLEAN, build : Builds,
              choices : SUBSET Choices, alone : BOOLEAN, ok : BOOLEAN]

Records == proc \in [P -> ProcRecs] /\ child \in [P -> ChildRecs]

(* The files, the registration and the service, and what ties them.        *)
World == /\ hw \in Hardware /\ accepted \subseteq Hardware
         /\ exe \in Builds /\ bak \in Builds /\ svcBuild \in Builds /\ arts \subseteq Artifacts
         /\ reg \in {"no", "yes", "doomed"}
         /\ shown \in {"stopped", "start_pending", "running", "stop_pending"}
         /\ svc \in {"none", "footing", "opening", "signal", "accept"}
         /\ (svc = "none") <=> (svcBuild = 0)
         /\ (svc = "none") <=> (shown = "stopped")
         /\ svc = "none" => reg # "doomed"
         /\ svc # "none" => reg # "no"
Flags == stopped \in BOOLEAN /\ signalled \in BOOLEAN
Counters == launches \in 0 .. MaxLaunches /\ faults \in 0 .. MaxFaults

(* The steps that helpers of each kind take.                               *)
Course == \A p \in P :
  /\ child[p].pc \in {"rename", "copy", "configure", "start"} =>
       child[p].cmd \in {"--install-svc", "--update-svc"}
  /\ child[p].pc = "finish" => child[p].cmd = "--install-svc"
  /\ child[p].pc = "begin" => child[p].cmd # "--install-svc"
  /\ child[p].pc \in {"await", "kill"} => child[p].cmd \in {"--update-svc", "uninstall"}
  /\ child[p].pc \in {"clean", "stop", "delete", "remove"} => child[p].cmd = "uninstall"

(* Who owns the mutexes.                                                   *)
TrayPcs == {"loop", "check"}
Owning == {"work", "helper", "await", "failed"}
Holds(p) == child[p].cmd = "uninstall"
         /\ child[p].pc \in {"clean", "kill", "stop", "await", "delete", "remove"}
Mutexes ==
  /\ lock \in {Free, Abandoned} \cup {Parent(p) : p \in P} \cup {Child(p) : p \in P}
  /\ tray \in {Free, Abandoned} \cup {Parent(p) : p \in P}
  /\ \A p \in P : /\ (tray = Parent(p)) <=> (proc[p].pc \in TrayPcs)
                  /\ (lock = Parent(p)) <=> (proc[p].pc \in Owning)
                  /\ (lock = Child(p)) <=> Holds(p)
NoChildLate == \A p \in P : proc[p].pc \notin TrayPcs => "no_child" \notin proc[p].locks

(* Beside a helper that works, or worked, alone nobody can do anything but *)
(* wait for the tray's singleton, be the tray, or end.                     *)
Quiet == {"off", "single", "loop", "check"}
OnlyQuiet == \A p \in P : child[p].alone =>
  \A q \in P \ {p} : ~Working(q) /\ proc[q].pc \in Quiet

(* What such a helper has done by each of its steps.                       *)
Registered == ServiceRights \cup DataDir \cup WerExclusion \cup EventSources \cup EtwRights
InstallStage(p) == child[p].cmd = "--install-svc" =>
  /\ child[p].pc = "copy" => exe = 0
  /\ child[p].pc \in {"configure", "start", "finish", "ended"} => exe = child[p].build
  /\ child[p].pc \in {"start", "finish", "ended"} => reg = "yes" /\ Registered \subseteq arts
  /\ child[p].pc = "ended" => UninstallEntry \cup child[p].choices \subseteq arts
UpdateStage(p) == child[p].cmd = "--update-svc" =>
  /\ Working(p) => proc[p].pc \in {"helper", "off"}
  /\ child[p].pc \in {"kill", "rename", "copy", "configure", "start"} => svc = "none"
  /\ child[p].pc = "copy" => exe = 0
  /\ child[p].pc \in {"configure", "start", "ended"} => exe = child[p].build /\ bak = 0
  /\ child[p].pc = "ended" => reg = "yes" /\ svcBuild \in {0, exe}
UninstallStage(p) == child[p].cmd = "uninstall" =>
  /\ proc[p].pc = "off"
  /\ child[p].pc \in {"kill", "stop", "await", "delete", "remove", "ended"} =>
       arts \subseteq ServiceRights \cup DataDir \cup EtwRights
  /\ child[p].pc \in {"stop", "await", "delete", "remove"} => Victims = {}
  /\ child[p].pc \in {"delete", "remove", "ended"} => svc = "none"
  /\ child[p].pc \in {"remove", "ended"} => reg = "no" /\ arts \subseteq DataDir \cup EtwRights
  /\ child[p].pc = "ended" => exe = 0 /\ bak = 0 /\ arts \subseteq EtwRights
Stage(p) == child[p].alone /\ child[p].ok => InstallStage(p) /\ UpdateStage(p) /\ UninstallStage(p)
Stages == \A p \in P : Stage(p)

IInv == /\ World /\ Flags /\ Counters /\ Records /\ Course /\ Mutexes /\ NoChildLate
        /\ OnlyQuiet /\ Stages /\ StaleTrayTold
-----------------------------------------------------------------------------
(* The owners a mutex can name are told apart.                             *)
Names == /\ Free # Abandoned
         /\ \A p \in P : {Parent(p), Child(p)} \cap {Free, Abandoned} = {}
         /\ \A p \in P, q \in P : /\ Parent(p) # Child(q)
                                  /\ Parent(p) = Parent(q) => p = q
                                  /\ Child(p) = Child(q) => p = q

LEMMA OwnersDiffer == Names
<1>1. Free # Abandoned
  BY DEF Free, Abandoned
<1>2. \A p \in P : {Parent(p), Child(p)} \cap {Free, Abandoned} = {}
  BY DEF Free, Abandoned, Parent, Child
<1>3. \A p \in P, q \in P : /\ Parent(p) # Child(q)
                            /\ Parent(p) = Parent(q) => p = q
                            /\ Child(p) = Child(q) => p = q
  BY DEF Parent, Child
<1> QED
  BY <1>1, <1>2, <1>3 DEF Names

(* What a step does to the record of the process it is about.              *)
Moves(p, l) == /\ proc' \in [P -> ProcRecs]
               /\ \A q \in P \ {p} : proc'[q] = proc[q]
               /\ proc'[p].pc = l
               /\ "no_child" \in proc'[p].locks => "no_child" \in proc[p].locks
               /\ l \in {"off", "main"} => "no_child" \notin proc'[p].locks
               /\ l \notin {"off", "main"} => proc'[p].inst = proc[p].inst

LEMMA Reaching ==
  ASSUME Records, NEW p \in P, NEW l \in ProcPcs \ {"off", "main"}, Reach(p, l)
  PROVE  Moves(p, l)
<1>1. proc[p] \in ProcRecs
  BY DEF Records
<1>2. [proc[p] EXCEPT !.pc = l] \in ProcRecs
  BY <1>1 DEF ProcRecs
<1>3. proc' = [proc EXCEPT ![p] = [proc[p] EXCEPT !.pc = l]]
  BY DEF Reach
<1> QED
  BY <1>1, <1>2, <1>3 DEF Records, Moves, ProcRecs

LEMMA Assigning ==
  ASSUME Records, NEW p \in P, NEW cmd \in Commands \cup {"update"},
         NEW l \in ProcPcs \ {"off", "main"}, To(p, cmd, l)
  PROVE  Moves(p, l)
<1>1. proc[p] \in ProcRecs
  BY DEF Records
<1> DEFINE r == [[proc[p] EXCEPT !.cmd = cmd] EXCEPT !.pc = l]
<1>2. r \in ProcRecs /\ r.pc = l /\ r.locks = proc[p].locks /\ r.inst = proc[p].inst
  BY <1>1 DEF ProcRecs
<1>3. proc' = [proc EXCEPT ![p] = r]
  BY DEF To, Records
<1> HIDE DEF r
<1> QED
  BY <1>2, <1>3 DEF Records, Moves

LEMMA Exiting ==
  ASSUME Records, NEW p \in P, Exit(p)
  PROVE  Moves(p, "off")
<1>1. NoProc \in ProcRecs /\ NoProc.pc = "off" /\ NoProc.locks = {}
  BY DEF NoProc, ProcRecs, ProcPcs, Commands, Builds
<1> QED
  BY <1>1 DEF Records, Moves, Exit

LEMMA Starting ==
  ASSUME Records, NEW p \in P, NEW cmd \in Commands, NEW inst \in BOOLEAN, NEW b \in Builds,
         proc' = [proc EXCEPT ![p] = Process(cmd, inst, b)]
  PROVE  Moves(p, "main")
<1> DEFINE r == Process(cmd, inst, b)
<1>1. HardenForRole(RoleOf(cmd)) = {}
  BY DEF HardenForRole, RoleOf, ProfileFor, Commands
<1>2. r \in ProcRecs /\ r.pc = "main" /\ "no_child" \notin r.locks
  BY <1>1 DEF Process, NoProc, ProcRecs, ProcPcs, Commands, Builds, Locks
<1>3. proc' = [proc EXCEPT ![p] = r]
  OBVIOUS
<1> HIDE DEF r
<1> QED
  BY <1>2, <1>3 DEF Records, Moves

(* Who holds the mutexes after a step of p.                                *)
Handed(p) == /\ lock' # lock => {lock, lock'} \subseteq {Free, Abandoned, Parent(p), Child(p)}
             /\ (lock' = Parent(p)) <=> (proc'[p].pc \in Owning)
             /\ (lock' = Child(p)) <=> Holds(p)'
             /\ tray' # tray => {tray, tray'} \subseteq {Free, Abandoned, Parent(p)}
             /\ (tray' = Parent(p)) <=> (proc'[p].pc \in TrayPcs)
OthersRest(p) == \A q \in P \ {p} :
  proc'[q] = proc[q] /\ child'[q].pc = child[q].pc /\ child'[q].cmd = child[q].cmd

LEMMA Handing ==
  ASSUME Mutexes, NEW p \in P, Handed(p), OthersRest(p)
  PROVE  Mutexes'
<1> USE OwnersDiffer DEF Names
<1>1. /\ lock' \in {Free, Abandoned} \cup {Parent(q) : q \in P} \cup {Child(q) : q \in P}
      /\ tray' \in {Free, Abandoned} \cup {Parent(q) : q \in P}
  BY DEF Mutexes, Handed
<1>2. ASSUME NEW q \in P
      PROVE  /\ (tray' = Parent(q)) <=> (proc'[q].pc \in TrayPcs)
             /\ (lock' = Parent(q)) <=> (proc'[q].pc \in Owning)
             /\ (lock' = Child(q)) <=> Holds(q)'
  <2>1. CASE q = p
    BY <2>1 DEF Handed
  <2>2. CASE q # p
    <3>1. proc'[q] = proc[q] /\ (Holds(q)' <=> Holds(q))
      BY <2>2 DEF OthersRest, Holds
    <3>2. Parent(q) \notin {Free, Abandoned, Parent(p), Child(p)}
      BY <2>2
    <3>3. Child(q) \notin {Free, Abandoned, Parent(p), Child(p)}
      BY <2>2
    <3>4. (tray' = Parent(q)) <=> (tray = Parent(q))
      BY <3>2 DEF Handed
    <3>5. (lock' = Parent(q)) <=> (lock = Parent(q))
      BY <3>2 DEF Handed
    <3>6. (lock' = Child(q)) <=> (lock = Child(q))
      BY <3>3 DEF Handed
    <3> QED
      BY <3>1, <3>4, <3>5, <3>6 DEF Mutexes
  <2> QED
    BY <2>1, <2>2
<1> QED
  BY <1>1, <1>2 DEF Mutexes
-----------------------------------------------------------------------------
(* What setting the service in motion, or asking it to stop, leaves.       *)
Hosting == UNCHANGED <<scm, service>> \/ StartService \/ StopService
Hosted == /\ reg' = reg /\ signalled' = signalled /\ stopped' \in BOOLEAN
          /\ shown' \in {"stopped", "start_pending", "running", "stop_pending"}
          /\ svc' \in {"none", "footing", "opening", "signal", "accept"}
          /\ svcBuild' \in Builds /\ svcBuild' \in {svcBuild, exe}
          /\ (svc' = "none") <=> (svcBuild' = 0)
          /\ (svc' = "none") <=> (shown' = "stopped")
          /\ svc' = "none" => svc = "none"
          /\ svc # "none" => svc' = svc /\ svcBuild' = svcBuild
          /\ svc' = "accept" => svc = "accept"
          /\ svc' # "none" => reg # "no"

LEMMA Hosts == World /\ Flags /\ Hosting => Hosted
<1> SUFFICES ASSUME World, Flags, Hosting PROVE Hosted
  OBVIOUS
<1>1. CASE UNCHANGED <<scm, service>>
  BY <1>1 DEF scm, service, World, Flags, Hosted
<1>2. CASE StartService
  BY <1>2 DEF StartService, scm, service, World, Flags, Hosted, Builds
<1>3. CASE StopService
  BY <1>3 DEF StopService, scm, service, World, Flags, Hosted
<1> QED
  BY <1>1, <1>2, <1>3 DEF Hosting

LEMMA WorldHosted ==
  ASSUME World, Flags, Hosted, UNCHANGED <<hw, exe, bak>>, accepted' \subseteq Hardware,
         arts' \subseteq Artifacts
  PROVE  World' /\ Flags'
BY DEF World, Flags, Hosted

LEMMA WorldSame ==
  ASSUME World, Flags, UNCHANGED <<user, files, scm, service>>
  PROVE  World' /\ Flags'
BY DEF World, Flags, user, files, scm, service

LEMMA Counting ==
  ASSUME MachineBounds, Counters, Fault \/ NoFault, UNCHANGED launches
  PROVE  Counters'
BY DEF MachineBounds, Counters, Fault, NoFault

(* A step of a process that is not yet the tray, or of the tray.  The      *)
(* helper it may start or give up on is its own.                           *)
Calls(p) ==
  \/ UNCHANGED child /\ (proc[p].pc = "helper" => proc'[p].pc = "off")
  \/ proc[p].pc = "helper" /\ child' = [child EXCEPT ![p].alone = @ /\ ~Working(p)]
  \/ /\ proc[p].pc = "work" /\ ~Working(p)
     /\ \E cmd \in Helpers \ {""} : /\ Spawned(p, cmd)
                                    /\ cmd = "--update-svc" => proc'[p].pc = "helper"
                                    /\ cmd = "uninstall" => proc'[p].pc = "off"
Keeping(p) == /\ UNCHANGED <<exe, bak, arts, reg>> /\ svcBuild' \in {svcBuild, exe}
              /\ proc[p].pc \in Quiet \cup {"helper"} =>
                   UNCHANGED <<svc, svcBuild>> 
              /\ proc[p].pc \in Quiet => 
                   /\ UNCHANGED child /\ proc'[p].pc \in Quiet
                   /\ proc'[p].pc # "off" => proc'[p].inst = proc[p].inst
ParentStep(p) == /\ Alive(p)
                 /\ World' /\ Flags' /\ Counters' /\ proc' \in [P -> ProcRecs]
                 /\ \A q \in P \ {p} : proc'[q] = proc[q]
                 /\ proc'[p].pc \notin TrayPcs => "no_child" \notin proc'[p].locks
                 /\ Handed(p) /\ Calls(p) /\ Keeping(p) /\ StaleTrayTold'

LEMMA Called ==
  ASSUME Records, Course, NEW p \in P, Calls(p)
  PROVE  /\ child' \in [P -> ChildRecs] /\ Course'
         /\ \A q \in P \ {p} : child'[q] = child[q]
         /\ Holds(p)' <=> Holds(p)
<1>0. child[p] \in ChildRecs /\ proc[p] \in ProcRecs
  BY DEF Records
<1>1. CASE UNCHANGED child
  BY <1>0, <1>1 DEF Records, Course, Holds
<1>2. CASE child' = [child EXCEPT ![p].alone = @ /\ ~Working(p)]
  <2> DEFINE r == [child[p] EXCEPT !.alone = child[p].alone /\ ~Working(p)]
  <2>0. (child[p].alone /\ ~Working(p)) \in BOOLEAN
    BY Zenon
  <2>1. r \in ChildRecs /\ r.pc = child[p].pc /\ r.cmd = child[p].cmd
    BY <1>0, <2>0 DEF ChildRecs
  <2>2. child' = [child EXCEPT ![p] = r]
    BY <1>2 DEF Records
  <2> HIDE DEF r
  <2> QED
    BY <1>0, <2>1, <2>2 DEF Records, Course, Holds
<1>3. ASSUME ~Working(p), NEW cmd \in Helpers \ {""}, Spawned(p, cmd)
      PROVE  /\ child' \in [P -> ChildRecs] /\ Course'
             /\ \A q \in P \ {p} : child'[q] = child[q]
             /\ ~Holds(p)' /\ ~Holds(p)
  <2> DEFINE a == \A q \in P \ {p} :
               ~Working(q) /\ proc[q].pc \in {"off", "single", "loop", "check"}
             r == [NoChild EXCEPT !.pc = First(cmd), !.cmd = cmd, !.inst = proc[p].inst,
                    !.build = proc[p].build, !.choices = proc[p].choices, !.ok = TRUE, !.alone = a]
  <2>0. a \in BOOLEAN
    BY Zenon
  <2>1. r \in ChildRecs /\ r.pc = First(cmd) /\ r.cmd = cmd
    <3> HIDE DEF a
    <3> QED
      BY <1>0, <2>0 DEF ChildRecs, ProcRecs, NoChild, First, ChildPcs, Helpers
  <2>2. child' = [child EXCEPT ![p] = r]
    BY <1>3 DEF Spawned
  <2> HIDE DEF r, a
  <2>3. ~Holds(p)
    BY <1>3 DEF Holds, Working
  <2>4. First(cmd) \in {"begin", "rename"} /\ (First(cmd) = "rename" <=> cmd = "--install-svc")
    BY DEF First
  <2> QED
    BY <1>0, <2>1, <2>2, <2>3, <2>4 DEF Records, Course, Holds
<1> QED
  BY <1>0, <1>1, <1>2, <1>3 DEF Calls, Records

LEMMA Newborn ==
  ASSUME Records, NEW p \in P, NEW cmd \in Helpers \ {""}, Spawned(p, cmd)
  PROVE  /\ child'[p].pc = First(cmd) /\ child'[p].cmd = cmd
         /\ First(cmd) \in {"begin", "rename"} /\ (First(cmd) = "rename" <=> cmd = "--install-svc")
         /\ child'[p].alone <=> \A q \in P \ {p} : ~Working(q) /\ proc[q].pc \in Quiet
<1> DEFINE a == \A q \in P \ {p} :
             ~Working(q) /\ proc[q].pc \in {"off", "single", "loop", "check"}
           r == [NoChild EXCEPT !.pc = First(cmd), !.cmd = cmd, !.inst = proc[p].inst,
                  !.build = proc[p].build, !.choices = proc[p].choices, !.ok = TRUE, !.alone = a]
<1>1. r.pc = First(cmd) /\ r.cmd = cmd /\ r.alone = a
  <2> HIDE DEF a
  <2> QED
    BY DEF NoChild
<1>2. child' = [child EXCEPT ![p] = r]
  BY DEF Spawned
<1>3. child'[p] = r
  <2> HIDE DEF r, a
  <2> QED
    BY <1>2 DEF Records
<1>4. child'[p].alone <=> \A q \in P \ {p} : ~Working(q) /\ proc[q].pc \in Quiet
  <2> HIDE DEF r
  <2> QED
    BY <1>1, <1>3 DEF Quiet
<1> HIDE DEF r, a
<1> QED
  BY <1>1, <1>3, <1>4 DEF First

LEMMA AloneStays ==
  ASSUME Records, Course, OnlyQuiet, NEW p \in P, ParentStep(p)
  PROVE  OnlyQuiet'
<1>0. /\ \A q \in P \ {p} : proc'[q] = proc[q] /\ child'[q] = child[q]
      /\ child[p] \in ChildRecs
  BY Called DEF ParentStep, Records
<1> SUFFICES ASSUME NEW q \in P, child'[q].alone, NEW r \in P \ {q}
             PROVE  ~Working(r)' /\ proc'[r].pc \in Quiet
  BY DEF OnlyQuiet
<1>1. CASE q # p
  <2>1. ~Working(p) /\ proc[p].pc \in Quiet /\ ~Working(r) /\ proc[r].pc \in Quiet
    BY <1>0, <1>1 DEF OnlyQuiet
  <2>2. UNCHANGED child /\ proc'[p].pc \in Quiet
    BY <2>1 DEF ParentStep, Keeping
  <2> QED
    BY <1>0, <2>1, <2>2 DEF Working
<1>2. CASE q = p
  <2>1. ~Working(r) /\ proc[r].pc \in Quiet
    <3>1. CASE UNCHANGED child
      BY <1>2, <3>1 DEF OnlyQuiet
    <3>2. CASE child' = [child EXCEPT ![p].alone = @ /\ ~Working(p)]
      <4>1. child[p].alone
        BY <1>0, <1>2, <3>2 DEF Records, ChildRecs
      <4> QED
        BY <1>2, <4>1 DEF OnlyQuiet
    <3>3. ASSUME NEW cmd \in Helpers \ {""}, Spawned(p, cmd)
          PROVE  ~Working(r) /\ proc[r].pc \in Quiet
      BY <1>2, <3>3, Newborn
    <3> QED
      BY <3>1, <3>2, <3>3 DEF ParentStep, Calls
  <2> QED
    BY <1>0, <1>2, <2>1 DEF Working
<1> QED
  BY <1>1, <1>2

LEMMA StageStays ==
  ASSUME World, Records, Course, OnlyQuiet, Stages, NEW p \in P, ParentStep(p)
  PROVE  Stages'
<1>0. /\ \A q \in P \ {p} : proc'[q] = proc[q] /\ child'[q] = child[q]
      /\ child[p] \in ChildRecs /\ Alive(p) /\ UNCHANGED <<exe, bak, arts, reg>>
      /\ svcBuild' \in {svcBuild, exe} /\ proc' \in [P -> ProcRecs] /\ proc \in [P -> ProcRecs]
  BY Called DEF ParentStep, Records, Keeping
<1> SUFFICES ASSUME NEW q \in P, child'[q].alone, child'[q].ok
             PROVE  InstallStage(q)' /\ UpdateStage(q)' /\ UninstallStage(q)'
  BY DEF Stages, Stage
<1>1. CASE q # p
  <2>1. proc[p].pc \in Quiet
    BY <1>0, <1>1 DEF OnlyQuiet
  <2>2. /\ UNCHANGED <<child, svc, svcBuild>>
        /\ proc'[p].pc # "off" => proc'[p].inst = proc[p].inst
    BY <2>1 DEF ParentStep, Keeping
  <2>3. Victims' \subseteq Victims
    BY <1>0, <2>2 DEF Victims, Alive
  <2>4. InstallStage(q) /\ UpdateStage(q) /\ UninstallStage(q)
    BY <2>2 DEF Stages, Stage
  <2>5. InstallStage(q)'
    BY <1>0, <2>2, <2>4 DEF InstallStage
  <2>6. UpdateStage(q)'
    BY <1>0, <1>1, <2>2, <2>4 DEF UpdateStage, Working
  <2>7. UninstallStage(q)'
    BY <1>0, <1>1, <2>2, <2>3, <2>4 DEF UninstallStage
  <2> QED
    BY <2>5, <2>6, <2>7
<1>2. CASE q = p
  <2>1. CASE UNCHANGED child /\ (proc[p].pc = "helper" => proc'[p].pc = "off")
    <3>1. InstallStage(p) /\ UpdateStage(p) /\ UninstallStage(p)
      BY <1>2, <2>1 DEF Stages, Stage
    <3>2. child[p].cmd # "uninstall"
      BY <1>0, <3>1 DEF UninstallStage, Alive
    <3>3. InstallStage(p)'
      BY <1>0, <2>1, <3>1 DEF InstallStage
    <3>4. UpdateStage(p)'
      <4>1. child[p].cmd = "--update-svc" /\ Working(p) => proc[p].pc = "helper" /\ svc' = svc
        BY <1>0, <3>1 DEF UpdateStage, Alive, ParentStep, Keeping
      <4> QED
        BY <1>0, <2>1, <3>1, <4>1 DEF UpdateStage, Working
    <3> QED
      BY <1>2, <2>1, <3>2, <3>3, <3>4 DEF UninstallStage
  <2>2. CASE child' = [child EXCEPT ![p].alone = @ /\ ~Working(p)]
    <3>1. /\ child[p].alone /\ ~Working(p) /\ child'[p].pc = child[p].pc
          /\ child'[p].cmd = child[p].cmd /\ child'[p].build = child[p].build
          /\ child'[p].choices = child[p].choices /\ child[p].ok
      BY <1>0, <1>2, <2>2 DEF Records, ChildRecs
    <3>2. InstallStage(p) /\ UpdateStage(p) /\ UninstallStage(p)
      BY <3>1 DEF Stages, Stage
    <3>3. child[p].cmd # "uninstall"
      BY <1>0, <3>2 DEF UninstallStage, Alive
    <3>4. InstallStage(p)'
      BY <1>0, <3>1, <3>2 DEF InstallStage
    <3>5. UpdateStage(p)'
      BY <1>0, <3>1, <3>2 DEF UpdateStage, Working
    <3> QED
      BY <1>2, <3>1, <3>3, <3>4, <3>5 DEF UninstallStage
  <2>3. ASSUME NEW cmd \in Helpers \ {""}, Spawned(p, cmd),
               cmd = "--update-svc" => proc'[p].pc = "helper",
               cmd = "uninstall" => proc'[p].pc = "off"
        PROVE  InstallStage(p)' /\ UpdateStage(p)' /\ UninstallStage(p)'
    <3>1. /\ child'[p].pc = First(cmd) /\ child'[p].cmd = cmd
          /\ First(cmd) \in {"begin", "rename"}
          /\ First(cmd) = "rename" <=> cmd = "--install-svc"
      BY <2>3, Newborn
    <3> QED
      BY <2>3, <3>1 DEF InstallStage, UpdateStage, UninstallStage
  <2> QED
    BY <1>2, <2>1, <2>2, <2>3 DEF ParentStep, Calls
<1> QED
  BY <1>1, <1>2

LEMMA ParentKeeps ==
  ASSUME IInv, NEW p \in P, ParentStep(p)
  PROVE  IInv'
<1>1. Calls(p) /\ Handed(p)
  BY DEF ParentStep
<1>2. /\ child' \in [P -> ChildRecs] /\ Course'
      /\ \A q \in P \ {p} : child'[q] = child[q]
  BY <1>1, Called DEF IInv
<1>3. Mutexes'
  BY <1>1, <1>2, Handing DEF IInv, OthersRest, ParentStep
<1>4. NoChildLate'
  BY DEF IInv, NoChildLate, ParentStep
<1>5. OnlyQuiet' /\ Stages'
  BY AloneStays, StageStays DEF IInv
<1> QED
  BY <1>2, <1>3, <1>4, <1>5 DEF IInv, ParentStep, Records
-----------------------------------------------------------------------------
(* The steps of a launcher.                                                *)
LEMMA Telling ==
  ASSUME StaleTrayTold, NEW p \in P, \A q \in P \ {p} : proc'[q] = proc[q],
         proc'[p].pc # "loop", signalled' = signalled,
         svc' = "accept" => svc = "accept" /\ svcBuild' = svcBuild
  PROVE  StaleTrayTold'
BY DEF StaleTrayTold

LEMMA HandedNothing ==
  ASSUME Mutexes, NEW p \in P, UNCHANGED mutexes, Holds(p)' <=> Holds(p),
         (proc'[p].pc \in TrayPcs) <=> (proc[p].pc \in TrayPcs),
         (proc'[p].pc \in Owning) <=> (proc[p].pc \in Owning)
  PROVE  Handed(p)
BY DEF Mutexes, Handed, mutexes

LEMMA HandedBack ==
  ASSUME Mutexes, NEW p \in P, Release(p), tray' = tray, Holds(p)' <=> Holds(p),
         (proc'[p].pc \in TrayPcs) <=> (proc[p].pc \in TrayPcs), proc'[p].pc \notin Owning
  PROVE  Handed(p)
<1> USE OwnersDiffer DEF Names
<1>1. lock' = (IF lock = Parent(p) THEN Free ELSE lock)
  BY DEF Release
<1> QED
  BY <1>1 DEF Mutexes, Handed

LEMMA LauncherMoves ==
  ASSUME MachineBounds, IInv, NEW p \in P, NEW l \in ProcPcs \ TrayPcs, Moves(p, l),
         proc[p].pc \notin Quiet, Hosting, UNCHANGED <<hw, files, launches>>,
         accepted' \subseteq Hardware, Fault \/ NoFault, Calls(p), Handed(p),
         proc[p].pc = "helper" => UNCHANGED <<svc, svcBuild>>
  PROVE  ParentStep(p)
<1>1. Hosted
  BY Hosts DEF IInv
<1>2. World' /\ Flags'
  <2>1. arts' \subseteq Artifacts
    BY DEF IInv, World, files
  <2> QED
    BY <1>1, <2>1, WorldHosted DEF IInv, files
<1>3. Counters'
  BY Counting DEF IInv
<1>4. StaleTrayTold'
  BY <1>1, Telling DEF IInv, Hosted, Moves, TrayPcs
<1>5. Keeping(p)
  BY <1>1 DEF Hosted, Keeping, files, Quiet
<1>6. proc'[p].pc \notin TrayPcs => "no_child" \notin proc'[p].locks
  BY DEF IInv, NoChildLate, Moves, TrayPcs, Quiet
<1> QED
  BY <1>2, <1>3, <1>4, <1>5, <1>6 DEF ParentStep, Moves, Alive, Quiet

(* The steps that concern the process alone.                               *)
Undecided == {"main", "consent", "decide", "choose", "confirm"}
LEMMA Thinks ==
  ASSUME MachineBounds, IInv, NEW p \in P, NEW l \in ProcPcs \ (TrayPcs \cup Owning), Moves(p, l),
         proc[p].pc \in Undecided, UNCHANGED <<hw, files, scm, service, mutexes>>,
         accepted' \subseteq Hardware, Fault \/ NoFault, Same
  PROVE  IInv'
<1>1. Calls(p) /\ UNCHANGED launches
  BY DEF Calls, Same, Undecided
<1>2. Holds(p)' <=> Holds(p)
  BY <1>1, Called DEF IInv
<1>3. Handed(p)
  BY <1>2, HandedNothing DEF IInv, Moves, Undecided, TrayPcs, Owning
<1>4. ParentStep(p)
  BY <1>1, <1>3, LauncherMoves DEF Hosting, Undecided, Quiet
<1> QED
  BY <1>4, ParentKeeps

LEMMA Beginning ==
  ASSUME MachineBounds, IInv, NEW p \in P, Main(p) \/ Decide(p) \/ Choose(p) \/ Confirm(p)
  PROVE  IInv'
<1>1. /\ proc[p].pc \in Undecided /\ UNCHANGED <<hw, files, scm, service, mutexes>>
      /\ accepted' = accepted /\ NoFault /\ Same
  BY DEF Main, Decide, Choose, Confirm, Idle, user, Undecided
<1>2. accepted' \subseteq Hardware
  BY <1>1 DEF IInv, World
<1>3. \E l \in ProcPcs \ (TrayPcs \cup Owning) : Moves(p, l)
  <2>0. Records /\ exe \in Builds
    BY DEF IInv, World
  <2> USE DEF ProcPcs, TrayPcs, Owning
  <2>1. CASE Exit(p)
    BY <2>0, <2>1, Exiting
  <2>2. CASE \E l \in {"consent", "choose", "lock", "single"} : Reach(p, l)
    BY <2>0, <2>2, Reaching
  <2>3. CASE \E cmd \in {"install", "update", "start"}, l \in {"lock", "choose", "confirm"} : To(p, cmd, l)
    BY <2>0, <2>3, Assigning DEF Commands
  <2>4. CASE proc' = [proc EXCEPT ![p] = Process("", TRUE, exe)]
    BY <2>0, <2>4, Starting DEF Commands
  <2>5. ASSUME NEW c \in {{}, Choices}, proc' = [proc EXCEPT ![p].choices = c, ![p].pc = "lock"]
        PROVE  Moves(p, "lock")
    <3> DEFINE r == [[proc[p] EXCEPT !.choices = c] EXCEPT !.pc = "lock"]
    <3>1. proc[p] \in ProcRecs
      BY <2>0 DEF Records
    <3>2. r \in ProcRecs /\ r.pc = "lock" /\ r.locks = proc[p].locks /\ r.inst = proc[p].inst
      BY <3>1 DEF ProcRecs
    <3>3. proc' = [proc EXCEPT ![p] = r]
      BY <2>0, <2>5 DEF Records
    <3> HIDE DEF r
    <3> QED
      BY <2>0, <3>2, <3>3 DEF Records, Moves
  <2>6. CASE Main(p)
    BY <2>1, <2>2, <2>3, <2>6 DEF Main
  <2>7. CASE Decide(p)
    BY <2>1, <2>2, <2>3, <2>4, <2>7 DEF Decide, Bootstrap, EnsureTray
  <2>8. CASE Choose(p)
    BY <2>1, <2>5, <2>8 DEF Choose
  <2>9. CASE Confirm(p)
    BY <2>1, <2>2, <2>9 DEF Confirm
  <2> QED
    BY <2>6, <2>7, <2>8, <2>9
<1> QED
  BY <1>1, <1>2, <1>3, Thinks

LEMMA Asking ==
  ASSUME MachineBounds, IInv, NEW p \in P, AskConsent(p)
  PROVE  IInv'
<1>1. /\ proc[p].pc \in Undecided /\ UNCHANGED <<hw, files, scm, service, mutexes>>
      /\ accepted' \in {accepted, {hw}} /\ (Fault \/ NoFault) /\ Same
      /\ Reach(p, "decide") \/ Exit(p)
  BY DEF AskConsent, RecordAcceptance, Undecided
<1>2. accepted' \subseteq Hardware
  BY <1>1 DEF IInv, World
<1>3. \E l \in ProcPcs \ (TrayPcs \cup Owning) : Moves(p, l)
  BY <1>1, Reaching, Exiting DEF IInv, ProcPcs, TrayPcs, Owning
<1> QED
  BY <1>1, <1>2, <1>3, Thinks

LEMMA Acquiring ==
  ASSUME MachineBounds, IInv, NEW p \in P, Acquire(p)
  PROVE  IInv'
<1>1. /\ proc[p].pc = "lock" /\ UNCHANGED <<hw, files, launches, scm, service, child, tray>>
      /\ accepted' = accepted /\ NoFault
  BY DEF Acquire, Idle, Same, user
<1>2. Calls(p) /\ Hosting /\ accepted' \subseteq Hardware
  BY <1>1 DEF Calls, Hosting, IInv, World
<1>3. Holds(p)' <=> Holds(p)
  BY <1>2, Called DEF IInv
<1>4. CASE Granted(lock) /\ lock' = Parent(p) /\ Reach(p, "work")
  <2>1. Moves(p, "work") /\ "work" \in ProcPcs \ TrayPcs
    BY <1>4, Reaching DEF IInv, ProcPcs, TrayPcs
  <2>2. Handed(p)
    <3> USE OwnersDiffer DEF Names
    <3>1. lock \in {Free, Abandoned} /\ ~Holds(p)
      BY <1>4 DEF Granted, IInv, Mutexes
    <3>2. proc'[p].pc = "work" /\ lock' = Parent(p) /\ tray' = tray /\ tray # Parent(p)
      BY <1>1, <1>4, <2>1 DEF Moves, IInv, Mutexes, TrayPcs
    <3> QED
      BY <1>3, <3>1, <3>2 DEF Handed, Owning, TrayPcs
  <2> QED
    BY <1>1, <1>2, <2>1, <2>2, LauncherMoves, ParentKeeps DEF Quiet
<1>5. CASE Reach(p, "warned") /\ UNCHANGED lock
  <2>1. Moves(p, "warned") /\ "warned" \in ProcPcs \ TrayPcs
    BY <1>5, Reaching DEF IInv, ProcPcs, TrayPcs
  <2>2. Handed(p)
    BY <1>1, <1>3, <1>5, <2>1, HandedNothing DEF Moves, IInv, mutexes, Owning, TrayPcs
  <2> QED
    BY <1>1, <1>2, <2>1, <2>2, LauncherMoves, ParentKeeps DEF Quiet
<1> QED
  BY <1>4, <1>5 DEF Acquire

LEMMA Dismissing ==
  ASSUME MachineBounds, IInv, NEW p \in P, Dismiss(p)
  PROVE  IInv'
<1>1. /\ proc[p].pc \in {"warned", "failed"} /\ Exit(p) /\ Release(p) /\ tray' = tray
      /\ UNCHANGED <<hw, files, launches, scm, service, child>>
      /\ accepted' = accepted /\ NoFault
  BY DEF Dismiss, Idle, Same, user
<1>2. Calls(p) /\ Hosting /\ accepted' \subseteq Hardware
  BY <1>1 DEF Calls, Hosting, IInv, World
<1>3. Moves(p, "off") /\ "off" \in ProcPcs \ TrayPcs
  BY <1>1, Exiting DEF IInv, ProcPcs, TrayPcs
<1>4. Handed(p)
  BY <1>1, <1>2, <1>3, Called, HandedBack DEF IInv, Moves, TrayPcs, Owning
<1> QED
  BY <1>1, <1>2, <1>3, <1>4, LauncherMoves, ParentKeeps DEF Quiet

(* The commands, with the mutex in hand: it is kept or given back.         *)
LEMMA Commanded ==
  ASSUME MachineBounds, IInv, NEW p \in P, proc[p].pc \in Owning,
         NEW l \in ProcPcs \ TrayPcs, Moves(p, l),
         Hosting, UNCHANGED <<user, files, launches, tray>>, Fault \/ NoFault, Calls(p),
         IF l \in Owning THEN UNCHANGED lock ELSE Release(p),
         proc[p].pc = "helper" => UNCHANGED <<svc, svcBuild>>
  PROVE  IInv'
<1>1. (Holds(p)' <=> Holds(p)) /\ proc'[p].pc = l /\ proc[p].pc \notin TrayPcs
  BY Called DEF IInv, Moves, TrayPcs, Owning
<1>2. CASE l \in Owning
  <2>1. Handed(p)
    BY <1>1, <1>2, HandedNothing DEF IInv, mutexes
  <2> QED
    BY <2>1, LauncherMoves, ParentKeeps DEF Quiet, Owning, IInv, World, user
<1>3. CASE l \notin Owning
  <2>1. Handed(p)
    BY <1>1, <1>3, HandedBack DEF IInv
  <2> QED
    BY <2>1, LauncherMoves, ParentKeeps DEF Quiet, Owning, IInv, World, user
<1> QED
  BY <1>2, <1>3

LEMMA Calling ==
  ASSUME NEW p \in P, NEW cmd \in Helpers \ {""}, proc[p].pc = "work",
         Elevate(p, cmd) \/ Refused,
         cmd = "--update-svc" => proc'[p].pc = "helper", cmd = "uninstall" => proc'[p].pc = "off"
  PROVE  Calls(p)
<1>1. CASE Refused
  BY <1>1 DEF Refused, Calls
<1>2. CASE Elevate(p, cmd)
  BY <1>2 DEF Elevate, Calls
<1> QED
  BY <1>1, <1>2

LEMMA Commanding ==
  ASSUME MachineBounds, IInv, NEW p \in P,
         DoInstall(p) \/ DoUpdate(p) \/ DoUninstall(p) \/ DoStart(p) \/ DoStop(p)
  PROVE  IInv'
<1> USE DEF ProcPcs, TrayPcs, Owning
<1>0. Records
  BY DEF IInv
<1>1. /\ proc[p].pc = "work" /\ NoFault /\ UNCHANGED <<user, files, launches, tray>>
  BY DEF DoInstall, DoUpdate, DoUninstall, DoStart, DoStop, Idle, mutexes
<1>2. Hosting
  BY DEF DoInstall, DoUpdate, DoUninstall, DoStart, DoStop, Idle, Hosting, Native
<1>3. \E l \in {"await", "helper", "off"} :
        /\ Moves(p, l) /\ Calls(p)
        /\ IF l \in Owning THEN UNCHANGED lock ELSE Release(p)
  <2>1. CASE DoInstall(p)
    <3>1. Moves(p, "await") /\ UNCHANGED lock
      BY <1>0, <2>1, Reaching DEF DoInstall, Idle, mutexes
    <3>2. Calls(p)
      <4>1. Elevate(p, "--install-svc") \/ Refused
        BY <2>1 DEF DoInstall, Refused
      <4>2. "--install-svc" \in Helpers \ {""}
        BY DEF Helpers
      <4> QED
        BY <1>1, <4>1, <4>2, Calling
    <3> QED
      BY <3>1, <3>2
  <2>2. CASE DoUpdate(p)
    <3>1. CASE Elevate(p, "--update-svc") /\ Reach(p, "helper") /\ UNCHANGED lock
      <4>1. Moves(p, "helper")
        BY <1>0, <3>1, Reaching
      <4>2. Calls(p)
        BY <1>1, <3>1, <4>1, Calling DEF Helpers, Moves
      <4> QED
        BY <3>1, <4>1, <4>2
    <3>2. CASE Refused /\ Exit(p) /\ Release(p)
      <4>1. Moves(p, "off") /\ Calls(p)
        BY <1>0, <1>1, <3>2, Exiting DEF Calls, Refused
      <4> QED
        BY <3>2, <4>1
    <3> QED
      BY <2>2, <3>1, <3>2 DEF DoUpdate
  <2>3. CASE DoUninstall(p)
    <3>1. Moves(p, "off") /\ Release(p)
      BY <1>0, <2>3, Exiting DEF DoUninstall
    <3>2. Calls(p)
      BY <1>1, <2>3, <3>1, Calling DEF DoUninstall, Helpers, Moves
    <3> QED
      BY <3>1, <3>2
  <2>4. CASE DoStart(p)
    <3>1. Calls(p)
      <4>1. Elevate(p, "--start-svc") \/ Refused
        BY <2>4 DEF DoStart, Native, Refused
      <4>2. "--start-svc" \in Helpers \ {""}
        BY DEF Helpers
      <4> QED
        BY <1>1, <4>1, <4>2, Calling
    <3>2. \/ Moves(p, "await") /\ UNCHANGED lock
          \/ Moves(p, "off") /\ Release(p)
      BY <1>0, <2>4, Reaching, Exiting DEF DoStart
    <3> QED
      BY <3>1, <3>2
  <2>5. CASE DoStop(p)
    <3>1. Calls(p)
      <4>1. Elevate(p, "--stop-svc") \/ Refused
        BY <2>5 DEF DoStop, Native, Refused
      <4>2. "--stop-svc" \in Helpers \ {""}
        BY DEF Helpers
      <4> QED
        BY <1>1, <4>1, <4>2, Calling
    <3>2. Moves(p, "off") /\ Release(p)
      BY <1>0, <2>5, Exiting DEF DoStop
    <3> QED
      BY <3>1, <3>2
  <2> QED
    BY <2>1, <2>2, <2>3, <2>4, <2>5
<1> QED
  BY <1>1, <1>2, <1>3, Commanded

LEMMA HelperEnding ==
  ASSUME MachineBounds, IInv, NEW p \in P, HelperEnds(p)
  PROVE  IInv'
<1>1. /\ proc[p].pc = "helper" /\ (Fault \/ NoFault) /\ UNCHANGED <<user, files, launches, tray>>
      /\ UNCHANGED <<lock, scm, service>> /\ Reach(p, "await")
  BY DEF HelperEnds, Idle, mutexes
<1>2. Calls(p)
  BY DEF HelperEnds, Calls
<1>3. Moves(p, "await")
  BY <1>1, Reaching DEF IInv, ProcPcs
<1>4. Hosting /\ UNCHANGED <<svc, svcBuild>>
  BY <1>1 DEF Hosting, service
<1>5. "await" \in ProcPcs \ TrayPcs /\ "await" \in Owning /\ proc[p].pc \in Owning
  BY <1>1 DEF ProcPcs, TrayPcs, Owning
<1> QED
  BY <1>1, <1>2, <1>3, <1>4, <1>5, Commanded

LEMMA Awaiting ==
  ASSUME MachineBounds, IInv, NEW p \in P, AwaitRunning(p)
  PROVE  IInv'
<1> USE DEF ProcPcs, TrayPcs, Owning
<1>0. Records /\ exe \in Builds
  BY DEF IInv, World
<1>1. /\ proc[p].pc = "await" /\ (Fault \/ NoFault) /\ UNCHANGED <<user, files, launches, tray>>
      /\ UNCHANGED <<child, scm, service>>
  BY DEF AwaitRunning, Idle, Same
<1>2. Calls(p) /\ Hosting
  BY <1>1 DEF Calls, Hosting
<1>3. \E l \in {"single", "off", "main", "failed"} :
        /\ Moves(p, l)
        /\ IF l \in Owning THEN UNCHANGED lock ELSE Release(p)
  <2>1. CASE Reach(p, "single") /\ Release(p)
    BY <1>0, <2>1, Reaching
  <2>2. CASE EnsureTray(p) /\ Release(p)
    <3>1. Moves(p, "off") \/ Moves(p, "main")
      BY <1>0, <2>2, Exiting, Starting DEF EnsureTray, Commands
    <3> QED
      BY <2>2, <3>1
  <2>3. CASE Reach(p, "failed") /\ UNCHANGED lock
    BY <1>0, <2>3, Reaching
  <2>4. CASE Exit(p) /\ Release(p)
    BY <1>0, <2>4, Exiting
  <2> QED
    BY <2>1, <2>2, <2>3, <2>4 DEF AwaitRunning
<1> QED
  BY <1>1, <1>2, <1>3, Commanded

LEMMA Dying ==
  ASSUME MachineBounds, IInv, NEW p \in P, Dies(p)
  PROVE  IInv'
<1>1. /\ Alive(p) /\ Fault /\ Exit(p) /\ UNCHANGED <<child, launches, user, files, scm, service>>
      /\ lock' = IF lock = Parent(p) THEN Abandoned ELSE lock
      /\ tray' = IF tray = Parent(p) THEN Abandoned ELSE tray
  BY DEF Dies, AfterDeath, Same
<1>2. Moves(p, "off")
  BY <1>1, Exiting DEF IInv
<1>3. Calls(p)
  BY <1>1, <1>2 DEF Calls, Moves
<1>4. World' /\ Flags' /\ Counters'
  BY <1>1, WorldSame, Counting DEF IInv
<1>5. Handed(p)
  <2> USE OwnersDiffer DEF Names
  <2>1. Holds(p)' <=> Holds(p)
    BY <1>3, Called DEF IInv
  <2> QED
    BY <1>1, <1>2, <2>1 DEF IInv, Mutexes, Handed, Moves, Owning, TrayPcs
<1>6. StaleTrayTold'
  BY <1>1, <1>2, Telling DEF IInv, Moves, service
<1>7. Keeping(p)
  BY <1>1, <1>2 DEF Keeping, Moves, files, scm, service, Quiet
<1>8. ParentStep(p)
  BY <1>1, <1>2, <1>3, <1>4, <1>5, <1>6, <1>7 DEF ParentStep, Moves
<1> QED
  BY <1>8, ParentKeeps

(* A start begins anew: no helper is alone from then on.                   *)
LEMMA Launching ==
  ASSUME MachineBounds, IInv, NEW p \in P, Launch(p)
  PROVE  IInv'
<1>1. /\ ~Alive(p) /\ launches < MaxLaunches /\ launches' = launches + 1 /\ NoFault
      /\ child' = [q \in P |-> [child[q] EXCEPT !.alone = FALSE]]
      /\ UNCHANGED <<user, files, scm, service, mutexes>>
  BY DEF Launch, Idle
<1>2. Moves(p, "main")
  <2>1. PICK cmd \in Commands, inst \in BOOLEAN :
          proc' = [proc EXCEPT ![p] = Process(cmd, inst, IF inst THEN exe ELSE 2)]
    BY DEF Launch
  <2>2. Records /\ (IF inst THEN exe ELSE 2) \in Builds
    BY DEF IInv, World, Builds
  <2> QED
    BY <2>1, <2>2, Starting
<1>3. World' /\ Flags'
  BY <1>1, WorldSame DEF IInv
<1>4. Counters'
  BY <1>1 DEF IInv, Counters, NoFault, MachineBounds
<1>5. \A q \in P : /\ child'[q] \in ChildRecs /\ child'[q].alone = FALSE
                   /\ child'[q].pc = child[q].pc /\ child'[q].cmd = child[q].cmd
  BY <1>1 DEF IInv, Records, ChildRecs
<1>6. Records'
  BY <1>1, <1>2, <1>5 DEF Records, Moves
<1>7. Course'
  BY <1>5 DEF IInv, Course
<1>8. OnlyQuiet' /\ Stages'
  BY <1>5 DEF OnlyQuiet, Stages, Stage
<1>9. Mutexes'
  <2>1. Handed(p)
    BY <1>1, <1>2, <1>5, HandedNothing
       DEF IInv, Holds, Moves, Alive, TrayPcs, Owning
  <2> QED
    BY <1>2, <1>5, <2>1, Handing DEF IInv, OthersRest, Moves
<1>10. NoChildLate'
  BY <1>2 DEF IInv, NoChildLate, Moves
<1>11. StaleTrayTold'
  BY <1>1, <1>2, Telling DEF IInv, Moves, service
<1> QED
  BY <1>3, <1>4, <1>6, <1>7, <1>8, <1>9, <1>10, <1>11 DEF IInv

LEMMA LauncherKeeps ==
  ASSUME MachineBounds, IInv, NEW p \in P, LauncherStep(p)
  PROVE  IInv'
BY Launching, Beginning, Asking, Acquiring, Dismissing, Commanding, HelperEnding, Awaiting, Dying
   DEF LauncherStep
-----------------------------------------------------------------------------
(* The steps of the tray: they concern its own record, its singleton and   *)
(* the event.                                                              *)
LEMMA TrayMoves ==
  ASSUME MachineBounds, IInv, NEW p \in P, Alive(p), proc[p].pc \in Quiet,
         NoFault \/ Fault, Same, UNCHANGED <<user, files, scm, svc, svcBuild, stopped, lock>>,
         signalled' \in BOOLEAN, proc' \in [P -> ProcRecs], \A q \in P \ {p} : proc'[q] = proc[q],
         proc'[p].pc \in Quiet, proc'[p].pc # "off" => proc'[p].inst = proc[p].inst,
         proc'[p].pc \notin TrayPcs => "no_child" \notin proc'[p].locks,
         tray' # tray => {tray, tray'} \subseteq {Free, Abandoned, Parent(p)},
         (tray' = Parent(p)) <=> (proc'[p].pc \in TrayPcs), StaleTrayTold'
  PROVE  IInv'
<1>1. World' /\ Flags'
  BY DEF IInv, World, Flags, user, files, scm
<1>2. Counters'
  BY Counting DEF IInv, Same
<1>3. Calls(p) /\ (Holds(p)' <=> Holds(p))
  BY DEF Calls, Same, Holds, Quiet
<1>4. Handed(p)
  <2>1. proc'[p].pc \notin Owning /\ proc[p].pc \notin Owning
    BY DEF Quiet, Owning
  <2> QED
    BY <1>3, <2>1 DEF Handed, IInv, Mutexes
<1>5. Keeping(p)
  BY DEF Keeping, files, scm, Same
<1>6. ParentStep(p)
  BY <1>1, <1>2, <1>3, <1>4, <1>5 DEF ParentStep
<1> QED
  BY <1>6, ParentKeeps

LEMMA Entering ==
  ASSUME MachineBounds, IInv, NEW p \in P, Enter(p)
  PROVE  IInv'
<1>1. /\ proc[p].pc = "single" /\ NoFault /\ Same
      /\ UNCHANGED <<user, files, scm, service, lock>>
  BY DEF Enter, Idle
<1>2. Alive(p) /\ proc[p].pc \in Quiet /\ signalled' \in BOOLEAN
      /\ UNCHANGED <<svc, svcBuild, stopped>> /\ proc[p] \in ProcRecs
  BY <1>1 DEF Alive, Quiet, IInv, Flags, service, Records
<1>3. CASE ~Granted(tray) /\ Exit(p) /\ UNCHANGED tray
  <2>1. Moves(p, "off")
    BY <1>3, Exiting DEF IInv
  <2>2. StaleTrayTold'
    BY <1>1, <1>2, <2>1, Telling DEF IInv, Moves, service
  <2>3. (tray' = Parent(p)) <=> (proc'[p].pc \in TrayPcs)
    BY <1>1, <1>3, <2>1 DEF IInv, Mutexes, Moves, TrayPcs
  <2> QED
    BY <1>1, <1>2, <1>3, <2>1, <2>2, <2>3, TrayMoves DEF Moves, Quiet
<1>4. CASE /\ Granted(tray) /\ tray' = Parent(p)
           /\ proc' = [proc EXCEPT
                ![p].pc = "loop",
                ![p].locks = @ \cup ProfileFor["Tray"],
                ![p].ev = svc = "accept" \/ \E q \in P : proc[q].ev,
                ![p].excused = IF svc = "accept" THEN {svcBuild} ELSE {}]
  <2> DEFINE e == svc = "accept" \/ \E q \in P : proc[q].ev
             k == proc[p].locks \cup ProfileFor["Tray"]
             x == IF svc = "accept" THEN {svcBuild} ELSE {}
             r == [[[[proc[p] EXCEPT !.pc = "loop"] EXCEPT !.locks = k] EXCEPT !.ev = e]
                     EXCEPT !.excused = x]
  <2>1. e \in BOOLEAN
    BY Zenon
  <2>2. k \in SUBSET Locks /\ x \in SUBSET Builds
    BY <1>2 DEF ProcRecs, ProfileFor, Locks, IInv, World
  <2>3. proc' = [proc EXCEPT ![p] = r]
    <3> HIDE DEF e, k, x
    <3>1. proc' = [proc EXCEPT ![p].pc = "loop", ![p].locks = k, ![p].ev = e, ![p].excused = x]
      BY <1>4 DEF e, k, x
    <3> QED
      BY <3>1, <1>2 DEF IInv, Records, ProcRecs
  <2>4. /\ r \in ProcRecs /\ r.pc = "loop" /\ r.inst = proc[p].inst
        /\ r.excused = x
    <3> HIDE DEF e, k, x
    <3> QED
      BY <1>2, <2>1, <2>2 DEF ProcRecs, ProcPcs
  <2> HIDE DEF r
  <2>5. /\ proc' \in [P -> ProcRecs] /\ proc'[p] = r
        /\ \A q \in P \ {p} : proc'[q] = proc[q]
    BY <2>3, <2>4 DEF IInv, Records
  <2>6. StaleTrayTold'
    BY <1>1, <2>4, <2>5 DEF IInv, StaleTrayTold, service
  <2>7. tray \in {Free, Abandoned}
    BY <1>4 DEF Granted
  <2> HIDE DEF x, k, e
  <2> QED
    BY <1>1, <1>2, <1>4, <2>4, <2>5, <2>6, <2>7, TrayMoves DEF Quiet, TrayPcs
<1> QED
  BY <1>3, <1>4 DEF Enter

LEMMA OneTray ==
  ASSUME IInv, NEW p \in P, proc[p].pc \in TrayPcs, NEW q \in P \ {p}
  PROVE  proc[q].pc \notin TrayPcs
BY OwnersDiffer DEF Names, IInv, Mutexes

LEMMA Waking ==
  ASSUME MachineBounds, IInv, NEW p \in P, Wake(p)
  PROVE  IInv'
<1>1. /\ proc[p].pc = "loop" /\ signalled' = FALSE /\ Reach(p, "check") /\ NoFault /\ Same
      /\ UNCHANGED <<user, files, scm, svc, svcBuild, stopped, mutexes>>
  BY DEF Wake
<1>2. Moves(p, "check")
  BY <1>1, Reaching DEF IInv, ProcPcs
<1>3. StaleTrayTold'
  <2>1. \A q \in P : proc'[q].pc # "loop"
    BY <1>1, <1>2, OneTray DEF Moves, TrayPcs
  <2> QED
    BY <2>1 DEF StaleTrayTold
<1>4. (tray' = Parent(p)) <=> (proc'[p].pc \in TrayPcs)
  BY <1>1, <1>2 DEF IInv, Mutexes, Moves, TrayPcs, mutexes
<1> QED
  BY <1>1, <1>2, <1>3, <1>4, TrayMoves DEF Moves, Alive, Quiet, TrayPcs, mutexes

LEMMA Comparing ==
  ASSUME MachineBounds, IInv, NEW p \in P, Compare(p)
  PROVE  IInv'
<1>1. /\ proc[p].pc = "check" /\ (NoFault \/ Fault) /\ Same
      /\ UNCHANGED <<user, files, scm, service, lock>>
  BY DEF Compare, Idle
<1>2. /\ Alive(p) /\ proc[p].pc \in Quiet /\ signalled' \in BOOLEAN
      /\ UNCHANGED <<svc, svcBuild, stopped>> /\ proc[p] \in ProcRecs /\ tray = Parent(p)
  BY <1>1 DEF Alive, Quiet, IInv, Flags, service, Records, Mutexes, TrayPcs
<1>3. CASE svc = "accept" /\ svcBuild = proc[p].build /\ Reach(p, "loop") /\ UNCHANGED tray
  <2>1. Moves(p, "loop") /\ proc'[p].build = proc[p].build
    BY <1>2, <1>3, Reaching DEF IInv, ProcPcs, Reach, Records, ProcRecs
  <2>2. StaleTrayTold'
    BY <1>1, <1>2, <1>3, <2>1 DEF IInv, StaleTrayTold, Moves, service
  <2> QED
    BY <1>1, <1>2, <1>3, <2>1, <2>2, TrayMoves DEF Moves, Quiet, TrayPcs
<1>4. CASE Exit(p) /\ tray' = Free
  <2>1. Moves(p, "off")
    BY <1>4, Exiting DEF IInv
  <2>2. StaleTrayTold'
    BY <1>1, <1>2, <2>1, Telling DEF IInv, Moves, service
  <2>3. Free # Parent(p)
    BY OwnersDiffer DEF Names
  <2> QED
    BY <1>1, <1>2, <1>4, <2>1, <2>2, <2>3, TrayMoves DEF Moves, Quiet, TrayPcs
<1>5. CASE /\ proc' = [proc EXCEPT ![p].pc = "loop", ![p].excused = @ \cup {svcBuild}]
           /\ UNCHANGED tray
  <2> DEFINE x == proc[p].excused \cup {svcBuild}
             r == [[proc[p] EXCEPT !.pc = "loop"] EXCEPT !.excused = x]
  <2>1. x \in SUBSET Builds
    BY <1>2 DEF ProcRecs, IInv, World
  <2>2. proc' = [proc EXCEPT ![p] = r]
    BY <1>2, <1>5 DEF IInv, Records, ProcRecs
  <2>3. r \in ProcRecs /\ r.pc = "loop" /\ r.inst = proc[p].inst /\ r.excused = x
    <3> HIDE DEF x
    <3> QED
      BY <1>2, <2>1 DEF ProcRecs, ProcPcs
  <2> HIDE DEF r
  <2>4. /\ proc' \in [P -> ProcRecs] /\ proc'[p] = r
        /\ \A q \in P \ {p} : proc'[q] = proc[q]
    BY <2>2, <2>3 DEF IInv, Records
  <2>5. StaleTrayTold'
    BY <1>1, <2>3, <2>4 DEF IInv, StaleTrayTold, service
  <2> HIDE DEF x
  <2> QED
    BY <1>1, <1>2, <1>5, <2>3, <2>4, <2>5, TrayMoves DEF Quiet, TrayPcs
<1> QED
  BY <1>3, <1>4, <1>5 DEF Compare

LEMMA Quitting ==
  ASSUME MachineBounds, IInv, NEW p \in P, Quit(p)
  PROVE  IInv'
<1>1. /\ proc[p].pc = "loop" /\ Exit(p) /\ tray' = Free /\ NoFault /\ Same
      /\ UNCHANGED <<user, files, scm, service, lock>>
  BY DEF Quit, Idle
<1>2. /\ Alive(p) /\ proc[p].pc \in Quiet /\ signalled' \in BOOLEAN
      /\ UNCHANGED <<svc, svcBuild, stopped>> /\ tray = Parent(p)
  BY <1>1 DEF Alive, Quiet, IInv, Flags, service, Mutexes, TrayPcs
<1>3. Moves(p, "off")
  BY <1>1, Exiting DEF IInv
<1>4. StaleTrayTold'
  BY <1>1, <1>2, <1>3, Telling DEF IInv, Moves, service
<1>5. Free # Parent(p)
  BY OwnersDiffer DEF Names
<1> QED
  BY <1>1, <1>2, <1>3, <1>4, <1>5, TrayMoves DEF Moves, Quiet, TrayPcs

LEMMA TrayKeeps ==
  ASSUME MachineBounds, IInv, NEW p \in P, TrayStep(p)
  PROVE  IInv'
BY Entering, Waking, Comparing, Quitting DEF TrayStep
-----------------------------------------------------------------------------
(* The steps of the service, and of the administrator.                     *)
Ending == /\ svc' = "none" /\ svcBuild' = 0 /\ stopped' = FALSE /\ signalled' = signalled
          /\ shown' = "stopped" /\ reg' = (IF reg = "doomed" THEN "no" ELSE reg)

LEMMA ServiceKeepsInv ==
  ASSUME MachineBounds, IInv, ServiceNext
  PROVE  IInv'
<1>1. /\ svc # "none" /\ (Fault \/ NoFault) /\ Outside
      /\ \/ Ending
         \/ /\ svc' \in {"opening", "signal"} /\ UNCHANGED <<reg, svcBuild, stopped, signalled>>
            /\ shown' = shown \/ shown' = "running"
         \/ /\ svc' = "accept" /\ signalled' = TRUE
            /\ UNCHANGED <<reg, shown, svcBuild, stopped>>
  BY DEF ServiceNext, SvcFooting, SvcOpening, SvcSignal, SvcStop, SvcDies, SvcEnds, scm, Ending
<1>2. UNCHANGED <<user, files, mutexes, proc, child, launches>>
  BY <1>1 DEF Outside
<1>3. World' /\ Flags'
  <2>0. UNCHANGED <<hw, accepted, exe, bak, arts>>
    BY <1>2 DEF user, files
  <2>1. CASE Ending
    BY <2>0, <2>1, <1>1 DEF Ending, IInv, World, Flags, Builds
  <2>2. CASE ~Ending
    BY <2>0, <2>2, <1>1 DEF IInv, World, Flags
  <2> QED
    BY <2>1, <2>2
<1>4. Counters'
  BY <1>1, <1>2, Counting DEF IInv
<1>5. Records' /\ Course' /\ Mutexes' /\ NoChildLate' /\ OnlyQuiet'
  <2>1. UNCHANGED <<proc, child, lock, tray>>
    BY <1>2 DEF mutexes
  <2>2. Records' /\ Course'
    BY <2>1 DEF IInv, Records, Course
  <2>3. Mutexes' /\ NoChildLate'
    BY <2>1 DEF IInv, Mutexes, NoChildLate, Holds
  <2>4. OnlyQuiet'
    BY <2>1 DEF IInv, OnlyQuiet, Working
  <2> QED
    BY <2>2, <2>3, <2>4
<1>6. Stages'
  <2> SUFFICES ASSUME NEW p \in P, child'[p].alone, child'[p].ok
               PROVE  InstallStage(p)' /\ UpdateStage(p)' /\ UninstallStage(p)'
    BY DEF Stages, Stage
  <2>1. /\ UNCHANGED <<proc, child, exe, bak, arts>> /\ svcBuild' \in {0, svcBuild}
        /\ reg = "yes" => reg' = "yes"
    BY <1>1, <1>2 DEF Ending, files
  <2>2. InstallStage(p) /\ UpdateStage(p) /\ UninstallStage(p)
    BY <2>1 DEF IInv, Stages, Stage
  <2>3. InstallStage(p)'
    BY <2>1, <2>2 DEF InstallStage
  <2>4. UpdateStage(p)'
    BY <1>1, <2>1, <2>2 DEF UpdateStage, Working
  <2>5. UninstallStage(p)'
    BY <1>1, <2>1, <2>2 DEF UninstallStage, Victims, Alive, IInv, Course, Records
  <2> QED
    BY <2>3, <2>4, <2>5
<1>7. StaleTrayTold'
  BY <1>1, <1>2 DEF IInv, StaleTrayTold, Ending
<1> QED
  BY <1>3, <1>4, <1>5, <1>6, <1>7 DEF IInv

LEMMA AdminKeeps ==
  ASSUME MachineBounds, IInv, AdminSwaps
  PROVE  IInv'
<1>1. /\ svc = "accept" /\ launches < MaxLaunches /\ launches' = launches + 1
      /\ exe' = 2 /\ svc' = "footing" /\ svcBuild' = 2
      /\ shown' = "start_pending" /\ stopped' = FALSE /\ NoFault
      /\ child' = [q \in P |-> [child[q] EXCEPT !.alone = FALSE]]
      /\ UNCHANGED <<hw, accepted, bak, arts, reg, signalled, lock, tray, proc>>
  BY DEF AdminSwaps, user, mutexes
<1>2. World' /\ Flags'
  <2>1. World /\ Flags
    BY DEF IInv
  <2>2. Flags'
    BY <1>1, <2>1 DEF Flags
  <2>3. World'
    BY <1>1, <2>1 DEF World, Builds
  <2> QED
    BY <2>2, <2>3
<1>3. Counters'
  BY <1>1 DEF IInv, Counters, NoFault, MachineBounds
<1>4. \A q \in P : /\ child'[q] \in ChildRecs /\ child'[q].alone = FALSE
                   /\ child'[q].pc = child[q].pc /\ child'[q].cmd = child[q].cmd
  BY <1>1 DEF IInv, Records, ChildRecs
<1>5. Records'
  BY <1>1, <1>4 DEF IInv, Records
<1>6. Course' /\ Mutexes'
  BY <1>1, <1>4 DEF IInv, Course, Mutexes, Holds
<1>7. OnlyQuiet' /\ Stages'
  BY <1>4 DEF OnlyQuiet, Stages, Stage
<1>8. NoChildLate' /\ StaleTrayTold'
  BY <1>1 DEF IInv, NoChildLate, StaleTrayTold
<1> QED
  BY <1>2, <1>3, <1>5, <1>6, <1>7, <1>8 DEF IInv
-----------------------------------------------------------------------------
(* The steps of a helper.                                                  *)
Turns(p, l) == /\ child' \in [P -> ChildRecs]
               /\ \A q \in P \ {p} : child'[q] = child[q]
               /\ child'[p].pc = l /\ child'[p].cmd = child[p].cmd
               /\ child'[p].build = child[p].build /\ child'[p].choices = child[p].choices
               /\ child'[p].alone = child[p].alone
               /\ child'[p].ok => child[p].ok

LEMMA TurningTo ==
  ASSUME Records, NEW p \in P, NEW l \in ChildPcs, ChildAt(p, l)
  PROVE  Turns(p, l)
<1>1. child[p] \in ChildRecs
  BY DEF Records
<1> DEFINE r == [child[p] EXCEPT !.pc = l]
<1>2. /\ r \in ChildRecs /\ r.pc = l /\ r.cmd = child[p].cmd /\ r.build = child[p].build
      /\ r.choices = child[p].choices /\ r.alone = child[p].alone /\ r.ok = child[p].ok
  BY <1>1 DEF ChildRecs
<1>3. child' = [child EXCEPT ![p] = r]
  BY DEF ChildAt
<1> HIDE DEF r
<1> QED
  BY <1>2, <1>3 DEF Records, Turns

LEMMA Turning ==
  ASSUME Records, NEW p \in P, NEW l \in ChildPcs, NEW b \in BOOLEAN, b => child[p].ok,
         child' = [child EXCEPT ![p].pc = l, ![p].ok = b]
  PROVE  Turns(p, l) /\ child'[p].ok = b
<1>1. child[p] \in ChildRecs
  BY DEF Records
<1> DEFINE r == [[child[p] EXCEPT !.pc = l] EXCEPT !.ok = b]
<1>2. /\ r \in ChildRecs /\ r.pc = l /\ r.cmd = child[p].cmd /\ r.build = child[p].build
      /\ r.choices = child[p].choices /\ r.alone = child[p].alone /\ r.ok = b
  BY <1>1 DEF ChildRecs
<1>3. child' = [child EXCEPT ![p] = r]
  BY DEF Records
<1> HIDE DEF r
<1> QED
  BY <1>2, <1>3 DEF Records, Turns

LEMMA TurningOver ==
  ASSUME Records, NEW p \in P, NEW ok, ChildEnds(p, ok)
  PROVE  Turns(p, "ended") /\ (child'[p].ok => ok)
<1> DEFINE b == ok /\ child[p].ok
<1>1. b \in BOOLEAN /\ (b => child[p].ok) /\ (b => ok)
  BY Zenon
<1>2. child' = [child EXCEPT ![p].pc = "ended", ![p].ok = b]
  BY DEF ChildEnds
<1>3. "ended" \in ChildPcs
  BY DEF ChildPcs
<1> HIDE DEF b
<1> QED
  BY <1>1, <1>2, <1>3, Turning

(* What a helper leaves of the machine, if nothing else is at work.        *)
Going(p, l) ==
  /\ l \in {"rename", "copy", "configure", "start"} =>
       child[p].cmd \in {"--install-svc", "--update-svc"}
  /\ l = "finish" => child[p].cmd = "--install-svc"
  /\ l # "begin"
  /\ l \in {"await", "kill"} => child[p].cmd \in {"--update-svc", "uninstall"}
  /\ l \in {"clean", "stop", "delete", "remove"} => child[p].cmd = "uninstall"

LEMMA HelperKeeps ==
  ASSUME IInv, NEW p \in P, NEW l \in ChildPcs, Working(p), Turns(p, l), Going(p, l),
         World', Flags', Counters', proc' = proc, tray' = tray,
         lock' # lock => {lock, lock'} \subseteq {Free, Abandoned, Child(p)},
         (lock' = Child(p)) <=> Holds(p)',
         svc' = "accept" => svc = "accept" /\ svcBuild' = svcBuild, signalled' = signalled,
         Stage(p) => Stage(p)'
  PROVE  IInv'
<1>1. Records'
  BY DEF IInv, Records, Turns
<1>2. Course'
  BY DEF IInv, Course, Turns, Going
<1>3. Handed(p)
  <2> USE OwnersDiffer DEF Names
  <2>1. (lock' = Parent(p)) <=> (proc'[p].pc \in Owning)
    BY DEF IInv, Mutexes
  <2> QED
    BY <2>1 DEF IInv, Mutexes, Handed
<1>4. Mutexes'
  BY <1>3, Handing DEF IInv, OthersRest, Turns
<1>5. NoChildLate' /\ StaleTrayTold'
  BY DEF IInv, NoChildLate, StaleTrayTold
<1>6. \A q \in P : child'[q].alone => q = p /\ child[p].alone
  BY DEF IInv, OnlyQuiet, Turns
<1>7. OnlyQuiet'
  BY <1>6 DEF IInv, OnlyQuiet, Turns, Working
<1>8. Stages'
  BY <1>6 DEF IInv, Stages, Stage
<1> QED
  BY <1>1, <1>2, <1>4, <1>5, <1>7, <1>8 DEF IInv

(* The steps that leave the mutexes alone.                                 *)
LEMMA HelperWorks ==
  ASSUME MachineBounds, IInv, NEW p \in P, NEW l \in ChildPcs, Working(p), Turns(p, l), Going(p, l),
         World', Flags', Fault \/ NoFault, UNCHANGED <<proc, tray, lock, launches>>,
         Holds(p)' <=> Holds(p),
         svc' = "accept" => svc = "accept" /\ svcBuild' = svcBuild, signalled' = signalled,
         Stage(p) => Stage(p)'
  PROVE  IInv'
<1>1. Counters'
  BY Counting DEF IInv
<1>2. (lock' = Child(p)) <=> Holds(p)'
  BY DEF IInv, Mutexes
<1> QED
  BY <1>1, <1>2, HelperKeeps

LEMMA StopsForUpdate ==
  ASSUME MachineBounds, IInv, NEW p \in P, UpdateStops(p)
  PROVE  IInv'
<1>1. /\ child[p].cmd = "--update-svc" /\ child[p].pc = "begin" /\ ChildAt(p, "await")
      /\ arts' = arts \cup EventSources /\ Hosting /\ NoFault
      /\ UNCHANGED <<hw, accepted, lock, tray, proc, launches, exe, bak>>
  BY DEF UpdateStops, At, Keeps, Hosting, user, mutexes
<1>2. "await" \in ChildPcs /\ Working(p)
  BY <1>1 DEF ChildPcs, Working
<1>3. Turns(p, "await") /\ Hosted
  BY <1>1, <1>2, TurningTo, Hosts DEF IInv
<1>4. World' /\ Flags'
  <2>1. arts' \subseteq Artifacts /\ accepted' \subseteq Hardware
    BY <1>1 DEF IInv, World, Artifacts
  <2> QED
    BY <1>1, <1>3, <2>1, WorldHosted DEF IInv
<1>5. Going(p, "await") /\ (Holds(p)' <=> Holds(p))
  BY <1>1, <1>3 DEF Going, Holds, Turns
<1>6. Stage(p) => Stage(p)'
  BY <1>1, <1>2, <1>3
     DEF Stage, InstallStage, UpdateStage, UninstallStage, Turns, Working
<1> QED
  BY <1>1, <1>2, <1>3, <1>4, <1>5, <1>6, HelperWorks DEF Hosted

LEMMA AwaitsStop ==
  ASSUME MachineBounds, IInv, NEW p \in P, Await(p)
  PROVE  IInv'
<1> DEFINE l == IF child[p].cmd = "uninstall" THEN "delete" ELSE "kill"
           b == child[p].ok /\ IsStopped
<1>1. /\ child[p].pc = "await" /\ (Fault \/ NoFault)
      /\ UNCHANGED <<user, files, scm, service, mutexes, proc, launches>>
      /\ child[p].cmd \in {"--update-svc", "uninstall"}
  BY DEF Await, Keeps, IInv, Course
<1>2. l \in ChildPcs /\ Working(p) /\ l \in {"delete", "kill"}
  BY <1>1 DEF ChildPcs, Working
<1>3. Turns(p, l) /\ (child'[p].ok => IsStopped)
  <2>1. b \in BOOLEAN /\ (b => child[p].ok) /\ (b => IsStopped)
    BY Zenon
  <2>2. child' = [child EXCEPT ![p].pc = l, ![p].ok = b]
    BY DEF Await, IInv, Records
  <2> HIDE DEF l, b
  <2> QED
    BY <1>2, <2>1, <2>2, Turning DEF IInv
<1>4. World' /\ Flags'
  BY <1>1, WorldSame DEF IInv
<1>5. Going(p, l) /\ (Holds(p)' <=> Holds(p))
  BY <1>1, <1>3 DEF Going, Holds, Turns
<1>6. Stage(p) => Stage(p)'
  <2>1. IsStopped => svc = "none"
    BY DEF IInv, World, IsStopped, IsInstalled
  <2>2. UNCHANGED <<proc, exe, bak, arts, reg, svc, svcBuild>>
    BY <1>1 DEF files, scm, service
  <2> SUFFICES ASSUME Stage(p), child'[p].alone, child'[p].ok
               PROVE  InstallStage(p)' /\ UpdateStage(p)' /\ UninstallStage(p)'
    BY DEF Stage
  <2>3. InstallStage(p) /\ UpdateStage(p) /\ UninstallStage(p) /\ svc' = "none"
    BY <1>3, <2>1, <2>2 DEF Stage, Turns
  <2>4. InstallStage(p)' /\ UpdateStage(p)'
    BY <1>1, <1>2, <1>3, <2>2, <2>3 DEF InstallStage, UpdateStage, Turns, Working
  <2>5. UninstallStage(p)'
    BY <1>1, <1>2, <1>3, <2>2, <2>3 DEF UninstallStage, Turns, Victims, Alive
  <2> QED
    BY <2>4, <2>5
<1> HIDE DEF l, b
<1> QED
  BY <1>1, <1>2, <1>3, <1>4, <1>5, <1>6, HelperWorks DEF mutexes, service

LEMMA Renaming ==
  ASSUME MachineBounds, IInv, NEW p \in P, Rename(p)
  PROVE  IInv'
<1>1. /\ child[p].pc = "rename" /\ (Fault \/ NoFault)
      /\ UNCHANGED <<user, mutexes, proc, launches, arts, scm, service>>
      /\ child[p].cmd \in {"--install-svc", "--update-svc"} /\ Working(p) /\ child[p] \in ChildRecs
  BY DEF Rename, Keeps, IInv, Course, Records, Working
<1>2. UNCHANGED <<hw, accepted, lock, tray, reg, shown, svc, svcBuild, stopped, signalled>>
  BY <1>1 DEF user, mutexes, scm, service
<1>3. CASE ChildAt(p, "copy") /\ exe' = 0 /\ bak' \in {exe, bak}
  <2>1. Turns(p, "copy") /\ "copy" \in ChildPcs
    BY <1>3, TurningTo DEF IInv, ChildPcs
  <2>2. World' /\ Flags'
    <3>1. World /\ Flags
      BY DEF IInv
    <3> QED
      BY <1>1, <1>2, <1>3, <3>1 DEF World, Flags, Builds
  <2>3. Going(p, "copy") /\ (Holds(p)' <=> Holds(p))
    BY <1>1, <2>1 DEF Going, Holds, Turns
  <2>4. Stage(p) => Stage(p)'
    BY <1>1, <1>2, <1>3, <2>1
       DEF Stage, InstallStage, UpdateStage, UninstallStage, Turns, Working
  <2> QED
    BY <1>1, <1>2, <2>1, <2>2, <2>3, <2>4, HelperWorks
<1>4. CASE ChildEnds(p, FALSE) /\ UNCHANGED <<exe, bak>>
  <2>1. Turns(p, "ended") /\ ~child'[p].ok /\ "ended" \in ChildPcs
    BY <1>4, TurningOver DEF IInv, ChildPcs
  <2>2. World' /\ Flags'
    BY <1>1, <1>2, <1>4, WorldSame DEF IInv, files
  <2>3. Going(p, "ended") /\ (Holds(p)' <=> Holds(p)) /\ Stage(p)'
    BY <1>1, <2>1 DEF Going, Holds, Turns, Stage
  <2> QED
    BY <1>1, <1>2, <2>1, <2>2, <2>3, HelperWorks
<1> QED
  BY <1>3, <1>4 DEF Rename

LEMMA Copying ==
  ASSUME MachineBounds, IInv, NEW p \in P, Copy(p)
  PROVE  IInv'
<1>1. /\ child[p].pc = "copy" /\ (Fault \/ NoFault)
      /\ UNCHANGED <<user, mutexes, proc, launches, arts, scm, service>>
      /\ child[p].cmd \in {"--install-svc", "--update-svc"} /\ Working(p) /\ child[p] \in ChildRecs
  BY DEF Copy, Keeps, IInv, Course, Records, Working
<1>2. UNCHANGED <<hw, accepted, lock, tray, reg, shown, svc, svcBuild, stopped, signalled>>
  BY <1>1 DEF user, mutexes, scm, service
<1>3. CASE ChildAt(p, "configure") /\ exe' = child[p].build /\ bak' = 0
  <2>1. Turns(p, "configure") /\ "configure" \in ChildPcs
    BY <1>3, TurningTo DEF IInv, ChildPcs
  <2>2. World' /\ Flags'
    <3>1. World /\ Flags /\ child[p].build \in Builds
      BY <1>1 DEF IInv, ChildRecs
    <3> QED
      BY <1>2, <1>1, <1>3, <3>1 DEF World, Flags, Builds
  <2>3. Going(p, "configure") /\ (Holds(p)' <=> Holds(p))
    BY <1>1, <2>1 DEF Going, Holds, Turns
  <2>4. Stage(p) => Stage(p)'
    BY <1>1, <1>2, <1>3, <2>1
       DEF Stage, InstallStage, UpdateStage, UninstallStage, Turns, Working
  <2> QED
    BY <1>1, <1>2, <2>1, <2>2, <2>3, <2>4, HelperWorks
<1>4. CASE ChildEnds(p, FALSE) /\ UNCHANGED <<exe, bak>>
  <2>1. Turns(p, "ended") /\ ~child'[p].ok /\ "ended" \in ChildPcs
    BY <1>4, TurningOver DEF IInv, ChildPcs
  <2>2. World' /\ Flags'
    BY <1>1, <1>2, <1>4, WorldSame DEF IInv, files
  <2>3. Going(p, "ended") /\ (Holds(p)' <=> Holds(p)) /\ Stage(p)'
    BY <1>1, <2>1 DEF Going, Holds, Turns, Stage
  <2> QED
    BY <1>1, <1>2, <2>1, <2>2, <2>3, HelperWorks
<1> QED
  BY <1>3, <1>4 DEF Copy

LEMMA Configuring ==
  ASSUME MachineBounds, IInv, NEW p \in P, Configure(p)
  PROVE  IInv'
<1> DEFINE done == child[p].cmd = "--install-svc" => reg' = "yes"
           b == child[p].ok /\ done
<1>1. /\ child[p].pc = "configure" /\ NoFault
      /\ UNCHANGED <<user, mutexes, proc, launches, exe, bak, service>>
      /\ child[p].cmd \in {"--install-svc", "--update-svc"} /\ Working(p) /\ child[p] \in ChildRecs
  BY DEF Configure, Keeps, IInv, Course, Records, Working
<1>2. UNCHANGED <<hw, accepted, lock, tray, svc, svcBuild, stopped, signalled>>
  BY <1>1 DEF user, mutexes, service
<1>3. /\ \/ reg = "no" /\ reg' = "yes" /\ shown' = "stopped"
         \/ UNCHANGED <<reg, shown>>
      /\ arts' = UNION {arts, DataDir, WerExclusion,
                     IF child[p].cmd = "--update-svc" THEN UninstallEntry
                                                      ELSE EventSources \cup EtwRights,
                     IF reg' = "yes" THEN ServiceRights ELSE {}}
  BY DEF Configure, scm
<1>4. World' /\ Flags'
  <2>1. arts' \subseteq Artifacts
    BY <1>3 DEF IInv, World, Artifacts
  <2>2. World /\ Flags
    BY DEF IInv
  <2> HIDE DEF b
  <2> QED
    BY <1>1, <1>2, <1>3, <2>1, <2>2 DEF World, Flags
<1>5. Turns(p, "start") /\ (child'[p].ok => done) /\ "start" \in ChildPcs
  <2>1. b \in BOOLEAN /\ (b => child[p].ok) /\ (b => done)
    BY Zenon
  <2>2. child' = [child EXCEPT ![p].pc = "start", ![p].ok = b]
    BY DEF Configure, IInv, Records
  <2>3. "start" \in ChildPcs
    BY DEF ChildPcs
  <2> HIDE DEF b, done
  <2> QED
    BY <2>1, <2>2, <2>3, Turning DEF IInv
<1>6. Going(p, "start") /\ (Holds(p)' <=> Holds(p))
  BY <1>1, <1>5 DEF Going, Holds, Turns
<1>7. Stage(p) => Stage(p)'
  <2> SUFFICES ASSUME Stage(p), child'[p].alone, child'[p].ok
               PROVE  InstallStage(p)' /\ UpdateStage(p)' /\ UninstallStage(p)'
    BY DEF Stage
  <2>1. InstallStage(p) /\ UpdateStage(p) /\ UninstallStage(p) /\ done
    BY <1>5 DEF Stage, Turns
  <2>2. child[p].cmd = "--install-svc" => reg' = "yes" /\ Registered \subseteq arts'
    BY <1>3, <2>1 DEF Registered
  <2>3. InstallStage(p)'
    BY <1>1, <1>5, <2>1, <2>2 DEF InstallStage, Turns
  <2>4. UpdateStage(p)'
    BY <1>1, <1>2, <1>5, <2>1 DEF UpdateStage, Turns, Working
  <2>5. UninstallStage(p)'
    BY <1>1, <1>5 DEF UninstallStage, Turns
  <2> QED
    BY <2>3, <2>4, <2>5
<1> HIDE DEF b, done
<1> QED
  BY <1>1, <1>2, <1>4, <1>5, <1>6, <1>7, HelperWorks

LEMMA StartingService ==
  ASSUME MachineBounds, IInv, NEW p \in P, Start(p)
  PROVE  IInv'
<1>1. /\ child[p].pc = "start" \/ (child[p].cmd = "--start-svc" /\ child[p].pc = "begin")
      /\ NoFault /\ UNCHANGED <<user, mutexes, proc, launches, files>> /\ Hosting
      /\ child[p] \in ChildRecs /\ Working(p)
      /\ child[p].cmd \in {"--install-svc", "--update-svc", "--start-svc"}
      /\ child[p].cmd # "--start-svc" => child[p].pc = "start"
  BY DEF Start, At, Keeps, Hosting, IInv, Course, Records, Working
<1>2. UNCHANGED <<hw, accepted, exe, bak, arts, lock, tray>> /\ Hosted
  BY <1>1, Hosts DEF user, mutexes, files, IInv
<1>3. World' /\ Flags'
  <2>1. World /\ Flags
    BY DEF IInv
  <2>2. arts' \subseteq Artifacts /\ accepted' \subseteq Hardware
    BY <1>2, <2>1 DEF World
  <2> QED
    BY <1>2, <2>1, <2>2, WorldHosted
<1>4. svc' = "accept" => svc = "accept" /\ svcBuild' = svcBuild
  BY <1>2 DEF Hosted
<1>5. CASE child[p].cmd = "--install-svc" /\ ChildAt(p, "finish")
  <2>1. Turns(p, "finish") /\ "finish" \in ChildPcs
    BY <1>5, TurningTo DEF IInv, ChildPcs
  <2>2. Going(p, "finish") /\ (Holds(p)' <=> Holds(p))
    BY <1>1, <1>5, <2>1 DEF Going, Holds, Turns
  <2>3. Stage(p) => Stage(p)'
    BY <1>1, <1>2, <1>5, <2>1
       DEF Stage, InstallStage, UpdateStage, UninstallStage, Turns, Hosted
  <2> QED
    BY <1>1, <1>2, <1>3, <1>4, <2>1, <2>2, <2>3, HelperWorks DEF Hosted
<1>6. CASE child[p].cmd # "--install-svc" /\ ChildEnds(p, Starts)
  <2>1. Turns(p, "ended") /\ (child'[p].ok => Starts) /\ "ended" \in ChildPcs
    BY <1>6, TurningOver DEF IInv, ChildPcs
  <2>2. Going(p, "ended") /\ (Holds(p)' <=> Holds(p))
    BY <1>1, <1>6, <2>1 DEF Going, Holds, Turns
  <2>3. Stage(p) => Stage(p)'
    <3> SUFFICES ASSUME Stage(p), child'[p].alone, child'[p].ok
                 PROVE  UpdateStage(p)'
      BY <1>1, <1>6, <2>1 DEF Stage, InstallStage, UninstallStage, Turns
    <3>1. UpdateStage(p) /\ Starts
      BY <2>1 DEF Stage, Turns
    <3>2. CASE child[p].cmd = "--update-svc"
      <4>1. svc = "none" /\ exe = child[p].build /\ bak = 0
        BY <1>1, <3>1, <3>2 DEF UpdateStage
      <4>2. ~IsRunning
        BY <4>1 DEF IsRunning, IInv, World
      <4>3. reg = "yes" /\ exe # 0
        BY <3>1, <4>2 DEF Starts
      <4>4. svcBuild' \in {0, exe'} /\ reg' = "yes"
        BY <1>2, <4>1, <4>3 DEF Hosted, IInv, World
      <4> QED
        BY <1>1, <1>2, <2>1, <4>1, <4>4 DEF UpdateStage, Turns, Working
    <3>3. CASE child[p].cmd # "--update-svc"
      BY <2>1, <3>3 DEF UpdateStage, Turns
    <3> QED
      BY <3>2, <3>3
  <2> QED
    BY <1>1, <1>2, <1>3, <1>4, <2>1, <2>2, <2>3, HelperWorks DEF Hosted
<1> QED
  BY <1>5, <1>6 DEF Start

LEMMA Finishing ==
  ASSUME MachineBounds, IInv, NEW p \in P, Finish(p)
  PROVE  IInv'
<1>1. /\ child[p].pc = "finish" /\ ChildEnds(p, TRUE) /\ NoFault
      /\ arts' = arts \cup UninstallEntry \cup child[p].choices
      /\ UNCHANGED <<user, mutexes, proc, launches, exe, bak, scm, service>>
      /\ child[p].cmd = "--install-svc" /\ Working(p) /\ child[p] \in ChildRecs
  BY DEF Finish, Keeps, IInv, Course, Records, Working
<1>2. UNCHANGED <<hw, accepted, lock, tray, reg, shown, svc, svcBuild, stopped, signalled>>
  BY <1>1 DEF user, mutexes, scm, service
<1>3. Turns(p, "ended") /\ "ended" \in ChildPcs
  BY <1>1, TurningOver DEF IInv, ChildPcs
<1>4. World' /\ Flags'
  <2>1. World /\ Flags /\ child[p].choices \subseteq Choices
    BY <1>1 DEF IInv, ChildRecs
  <2>2. arts' \subseteq Artifacts
    BY <1>1, <2>1 DEF World, Artifacts
  <2> QED
    BY <1>1, <1>2, <2>1, <2>2 DEF World, Flags
<1>5. Going(p, "ended") /\ (Holds(p)' <=> Holds(p))
  BY <1>1, <1>3 DEF Going, Holds, Turns
<1>6. Stage(p) => Stage(p)'
  BY <1>1, <1>2, <1>3 DEF Stage, InstallStage, UpdateStage, UninstallStage, Turns
<1> QED
  BY <1>1, <1>2, <1>3, <1>4, <1>5, <1>6, HelperWorks

LEMMA StopHelping ==
  ASSUME MachineBounds, IInv, NEW p \in P, StopHelper(p)
  PROVE  IInv'
<1>1. /\ child[p].cmd = "--stop-svc" /\ child[p].pc = "begin" /\ ChildEnds(p, Stops)
      /\ NoFault /\ UNCHANGED <<user, mutexes, proc, launches, files>> /\ Hosting
      /\ child[p] \in ChildRecs /\ Working(p)
  BY DEF StopHelper, At, Keeps, Hosting, IInv, Records, Working
<1>2. UNCHANGED <<hw, accepted, exe, bak, arts, lock, tray>> /\ Hosted
  BY <1>1, Hosts DEF user, mutexes, files, IInv
<1>3. World' /\ Flags'
  <2>1. World /\ Flags
    BY DEF IInv
  <2>2. arts' \subseteq Artifacts /\ accepted' \subseteq Hardware
    BY <1>2, <2>1 DEF World
  <2> QED
    BY <1>2, <2>1, <2>2, WorldHosted
<1>4. Turns(p, "ended") /\ "ended" \in ChildPcs
  BY <1>1, TurningOver DEF IInv, ChildPcs
<1>5. Going(p, "ended") /\ (Holds(p)' <=> Holds(p)) /\ (Stage(p) => Stage(p)')
  BY <1>1, <1>4 DEF Going, Holds, Turns, Stage, InstallStage, UpdateStage, UninstallStage
<1> QED
  BY <1>1, <1>2, <1>3, <1>4, <1>5, HelperWorks DEF Hosted

(* A helper that ends without success promises nothing.                    *)
LEMMA Failing ==
  ASSUME MachineBounds, IInv, NEW p \in P, Working(p), ChildEnds(p, FALSE), Fault \/ NoFault,
         UNCHANGED <<user, scm, service, tray, proc, launches>>, World', Flags',
         lock' # lock => {lock, lock'} \subseteq {Free, Abandoned, Child(p)}, lock' # Child(p)
  PROVE  IInv'
<1>1. Turns(p, "ended") /\ ~child'[p].ok /\ "ended" \in ChildPcs
  BY TurningOver DEF IInv, ChildPcs
<1>2. Going(p, "ended") /\ ~Holds(p)' /\ Stage(p)'
  BY <1>1 DEF Going, Holds, Turns, Stage
<1>3. Counters'
  BY Counting DEF IInv
<1>4. UNCHANGED <<svc, svcBuild, signalled>>
  BY DEF service
<1> QED
  BY <1>1, <1>2, <1>3, <1>4, HelperKeeps

LEMMA LockingOut ==
  ASSUME MachineBounds, IInv, NEW p \in P, UninstallLock(p)
  PROVE  IInv'
<1> USE OwnersDiffer DEF Names
<1>1. /\ child[p].cmd = "uninstall" /\ child[p].pc = "begin" /\ (Fault \/ NoFault)
      /\ UNCHANGED <<user, files, scm, service, tray, proc, launches>> /\ Working(p)
  BY DEF UninstallLock, At, Working
<1>2. World' /\ Flags' /\ Counters'
  BY <1>1, WorldSame, Counting DEF IInv
<1>3. UNCHANGED <<exe, bak, arts, reg, svc, svcBuild, signalled>>
  BY <1>1 DEF files, scm, service
<1>4. CASE Granted(lock) /\ lock' = Child(p) /\ ChildAt(p, "clean")
  <2>1. Turns(p, "clean") /\ "clean" \in ChildPcs
    BY <1>4, TurningTo DEF IInv, ChildPcs
  <2>2. Going(p, "clean") /\ Holds(p)' /\ lock \in {Free, Abandoned}
    BY <1>1, <1>4, <2>1 DEF Going, Holds, Turns, Granted
  <2>3. Stage(p) => Stage(p)'
    BY <1>1, <1>3, <2>1
       DEF Stage, InstallStage, UpdateStage, UninstallStage, Turns
  <2> QED
    BY <1>1, <1>2, <1>3, <1>4, <2>1, <2>2, <2>3, HelperKeeps
<1>5. CASE ChildEnds(p, FALSE) /\ UNCHANGED lock
  <2>1. lock # Child(p)
    BY <1>1 DEF IInv, Mutexes, Holds
  <2> QED
    BY <1>1, <1>2, <1>5, <2>1, Failing
<1> QED
  BY <1>4, <1>5 DEF UninstallLock

LEMMA Cleaning ==
  ASSUME MachineBounds, IInv, NEW p \in P, Clean(p)
  PROVE  IInv'
<1>1. /\ child[p].pc = "clean" /\ ChildAt(p, "kill") /\ accepted' = {} /\ NoFault
      /\ arts' = arts \ (Choices \cup UninstallEntry \cup WerExclusion \cup EventSources)
      /\ UNCHANGED <<hw, exe, bak, scm, service, mutexes, proc, launches>>
      /\ child[p].cmd = "uninstall" /\ Working(p)
  BY DEF Clean, Step, IInv, Course, Working
<1>2. UNCHANGED <<lock, tray, reg, shown, svc, svcBuild, stopped, signalled>>
  BY <1>1 DEF mutexes, scm, service
<1>3. Turns(p, "kill") /\ "kill" \in ChildPcs
  BY <1>1, TurningTo DEF IInv, ChildPcs
<1>4. World' /\ Flags' /\ arts' \subseteq ServiceRights \cup DataDir \cup EtwRights
  <2>1. World /\ Flags
    BY DEF IInv
  <2>2. arts' \subseteq Artifacts /\ arts' \subseteq ServiceRights \cup DataDir \cup EtwRights
    BY <1>1, <2>1 DEF World, Artifacts, Choices
  <2> QED
    BY <1>1, <1>2, <2>1, <2>2 DEF World, Flags
<1>5. Going(p, "kill") /\ (Holds(p)' <=> Holds(p))
  BY <1>1, <1>3 DEF Going, Holds, Turns
<1>6. Stage(p) => Stage(p)'
  BY <1>1, <1>3, <1>4 DEF Stage, InstallStage, UpdateStage, UninstallStage, Turns
<1> QED
  BY <1>1, <1>2, <1>3, <1>4, <1>5, <1>6, HelperWorks

LEMMA StopsForUninstall ==
  ASSUME MachineBounds, IInv, NEW p \in P, UninstallStops(p)
  PROVE  IInv'
<1>1. /\ child[p].pc = "stop" /\ ChildAt(p, "await") /\ Hosting /\ NoFault
      /\ UNCHANGED <<user, files, mutexes, proc, launches>>
      /\ child[p].cmd = "uninstall" /\ Working(p)
  BY DEF UninstallStops, Step, Keeps, Hosting, IInv, Course, Working
<1>2. UNCHANGED <<hw, accepted, exe, bak, arts, lock, tray>> /\ Hosted
  BY <1>1, Hosts DEF user, mutexes, files, IInv
<1>3. Turns(p, "await") /\ "await" \in ChildPcs
  BY <1>1, TurningTo DEF IInv, ChildPcs
<1>4. World' /\ Flags'
  <2>1. World /\ Flags
    BY DEF IInv
  <2>2. arts' \subseteq Artifacts /\ accepted' \subseteq Hardware
    BY <1>2, <2>1 DEF World
  <2> QED
    BY <1>2, <2>1, <2>2, WorldHosted
<1>5. Going(p, "await") /\ (Holds(p)' <=> Holds(p))
  BY <1>1, <1>3 DEF Going, Holds, Turns
<1>6. Stage(p) => Stage(p)'
  BY <1>1, <1>2, <1>3
     DEF Stage, InstallStage, UpdateStage, UninstallStage, Turns, Victims, Alive
<1> QED
  BY <1>1, <1>2, <1>3, <1>4, <1>5, <1>6, HelperWorks DEF Hosted

LEMMA Deleting ==
  ASSUME MachineBounds, IInv, NEW p \in P, Delete(p)
  PROVE  IInv'
<1>1. /\ child[p].pc = "delete" /\ ChildAt(p, "remove") /\ NoFault
      /\ reg' = (IF reg = "yes" THEN IF svc = "none" THEN "no" ELSE "doomed" ELSE reg)
      /\ arts' = arts \ ServiceRights
      /\ UNCHANGED <<user, exe, bak, shown, service, mutexes, proc, launches>>
      /\ child[p].cmd = "uninstall" /\ Working(p)
  BY DEF Delete, Step, Keeps, IInv, Course, Working
<1>2. UNCHANGED <<hw, accepted, lock, tray, svc, svcBuild, stopped, signalled>>
  BY <1>1 DEF user, mutexes, service
<1>3. Turns(p, "remove") /\ "remove" \in ChildPcs
  BY <1>1, TurningTo DEF IInv, ChildPcs
<1>4. World' /\ Flags'
  <2>1. World /\ Flags
    BY DEF IInv
  <2> QED
    BY <1>1, <1>2, <2>1 DEF World, Flags
<1>5. Going(p, "remove") /\ (Holds(p)' <=> Holds(p))
  BY <1>1, <1>3 DEF Going, Holds, Turns
<1>6. Stage(p) => Stage(p)'
  <2> SUFFICES ASSUME Stage(p), child'[p].alone, child'[p].ok
               PROVE  UninstallStage(p)'
    BY <1>1, <1>3 DEF Stage, InstallStage, UpdateStage, Turns
  <2>1. UninstallStage(p)
    BY <1>3 DEF Stage, Turns
  <2>2. svc = "none" /\ reg' = "no" /\ arts' \subseteq DataDir \cup EtwRights
    BY <1>1, <2>1 DEF UninstallStage, IInv, World
  <2> QED
    BY <1>1, <1>2, <1>3, <2>1, <2>2 DEF UninstallStage, Turns, Victims, Alive
<1> QED
  BY <1>1, <1>2, <1>3, <1>4, <1>5, <1>6, HelperWorks

LEMMA Removing ==
  ASSUME MachineBounds, IInv, NEW p \in P, Remove(p)
  PROVE  IInv'
<1> USE OwnersDiffer DEF Names
<1>1. /\ child[p].pc = "remove" /\ (Fault \/ NoFault) /\ arts' = arts \ DataDir /\ lock' = Free
      /\ \/ exe' = 0 /\ bak' = 0
         \/ UNCHANGED <<exe, bak>>
      /\ UNCHANGED <<user, scm, service, tray, proc, launches>>
      /\ child[p].cmd = "uninstall" /\ Working(p)
  BY DEF Remove, StaysInPlace, IInv, Course, Working
<1>2. UNCHANGED <<hw, accepted, reg, shown, svc, svcBuild, stopped, signalled>>
  BY <1>1 DEF user, scm, service
<1>3. lock = Child(p) /\ lock' # Child(p)
  BY <1>1 DEF IInv, Mutexes, Holds
<1>4. World' /\ Flags'
  <2>1. World /\ Flags
    BY DEF IInv
  <2> QED
    BY <1>1, <1>2, <2>1 DEF World, Flags, Builds
<1>5. CASE ChildEnds(p, TRUE) /\ (~InUse => exe' = 0 /\ bak' = 0)
  <2>1. Turns(p, "ended") /\ "ended" \in ChildPcs
    BY <1>5, TurningOver DEF IInv, ChildPcs
  <2>2. Going(p, "ended") /\ ~Holds(p)'
    BY <2>1 DEF Going, Holds, Turns
  <2>3. Stage(p) => Stage(p)'
    <3> SUFFICES ASSUME Stage(p), child'[p].alone, child'[p].ok
                 PROVE  UninstallStage(p)'
      BY <1>1, <2>1 DEF Stage, InstallStage, UpdateStage, Turns
    <3>1. UninstallStage(p)
      BY <2>1 DEF Stage, Turns
    <3>2. ~InUse
      BY <1>1, <3>1 DEF UninstallStage, InUse
    <3> QED
      BY <1>1, <1>2, <1>5, <2>1, <3>1, <3>2 DEF UninstallStage, Turns
  <2>4. Counters'
    BY <1>1, Counting DEF IInv
  <2> QED
    BY <1>1, <1>2, <1>3, <1>4, <2>1, <2>2, <2>3, <2>4, HelperKeeps
<1>6. CASE ChildEnds(p, FALSE)
  BY <1>1, <1>3, <1>4, <1>6, Failing
<1> QED
  BY <1>5, <1>6 DEF Remove

LEMMA HelperDying ==
  ASSUME MachineBounds, IInv, NEW p \in P, HelperDies(p)
  PROVE  IInv'
<1> USE OwnersDiffer DEF Names
<1>1. /\ Working(p) /\ Fault /\ ChildEnds(p, FALSE)
      /\ lock' = IF lock = Child(p) THEN Abandoned ELSE lock
      /\ UNCHANGED <<user, files, scm, service, tray, proc, launches>>
  BY DEF HelperDies, AfterDeath
<1>2. World' /\ Flags'
  BY <1>1, WorldSame DEF IInv
<1>3. /\ lock' # lock => {lock, lock'} \subseteq {Free, Abandoned, Child(p)}
      /\ lock' # Child(p)
  BY <1>1
<1> QED
  BY <1>1, <1>2, <1>3, Failing

LEMMA Killing ==
  ASSUME MachineBounds, IInv, NEW p \in P, Kill(p)
  PROVE  IInv'
<1> DEFINE l == IF child[p].cmd = "uninstall" THEN "stop" ELSE "rename"
           lost == ChildVictims(p)
           dead == {Parent(q) : q \in Victims} \cup {Child(q) : q \in lost}
<1>1. /\ child[p].pc = "kill" /\ NoFault
      /\ proc' = [q \in P |-> IF q \in Victims THEN NoProc ELSE proc[q]]
      /\ child' = [q \in P |-> IF q = p THEN [child[p] EXCEPT !.pc = l]
                ELSE IF q \in lost THEN [child[q] EXCEPT !.pc = "ended", !.ok = FALSE]
                ELSE child[q]]
      /\ lock' = (IF lock \in dead THEN Abandoned ELSE lock)
      /\ tray' = (IF tray \in dead THEN Abandoned ELSE tray)
      /\ UNCHANGED <<user, files, launches>>
      /\ \/ svc # "none" /\ Ending
         \/ UNCHANGED <<scm, service>>
      /\ child[p].cmd \in {"--update-svc", "uninstall"} /\ Working(p)
  BY DEF Kill, AfterDeath, SvcEnds, Ending, IInv, Course, Working
<1>0. /\ child[p].pc = "kill" /\ child[p].cmd \in {"--update-svc", "uninstall"}
      /\ l \in ChildPcs /\ l \in {"stop", "rename"} /\ (l = "stop" <=> child[p].cmd = "uninstall")
  BY <1>1 DEF l, ChildPcs
<1> HIDE DEF l, lost, dead
<1>2. UNCHANGED <<hw, accepted, exe, bak, arts>> /\ Victims \subseteq P /\ lost \subseteq P \ {p}
  BY <1>1 DEF user, files, Victims, lost, ChildVictims
<1>3. /\ svc' = "accept" => svc = "accept" /\ svcBuild' = svcBuild
      /\ signalled' = signalled /\ (svc = "none" => UNCHANGED <<svc, svcBuild, reg>>)
  BY <1>1 DEF Ending, scm, service
<1>4. World' /\ Flags' /\ Counters'
  <2>1. World /\ Flags
    BY DEF IInv
  <2>2. ASSUME Ending, svc # "none" PROVE World' /\ Flags'
    BY <1>2, <2>1, <2>2 DEF Ending, World, Flags, Builds
  <2>3. ASSUME UNCHANGED <<scm, service>> PROVE World' /\ Flags'
    BY <1>2, <2>1, <2>3 DEF scm, service, World, Flags
  <2>4. Counters'
    BY <1>1, Counting DEF IInv
  <2> QED
    BY <1>1, <2>2, <2>3, <2>4
<1>5. /\ child'[p] \in ChildRecs /\ child'[p].pc = l /\ child'[p].cmd = child[p].cmd
      /\ child'[p].alone = child[p].alone /\ child'[p].ok = child[p].ok
  <2>1. child[p] \in ChildRecs /\ l \in ChildPcs
    BY <1>0 DEF IInv, Records
  <2>2. child'[p] = [child[p] EXCEPT !.pc = l]
    BY <1>1
  <2> QED
    BY <2>1, <2>2 DEF ChildRecs
<1>6. ASSUME NEW q \in P \ {p}
      PROVE  /\ child'[q] \in ChildRecs /\ child'[q].cmd = child[q].cmd
             /\ child'[q].alone = child[q].alone
             /\ child'[q].pc = IF q \in lost THEN "ended" ELSE child[q].pc
  <2>1. child[q] \in ChildRecs
    BY DEF IInv, Records
  <2>2. CASE q \in lost
    <3> DEFINE r == [[child[q] EXCEPT !.pc = "ended"] EXCEPT !.ok = FALSE]
    <3>1. r \in ChildRecs /\ r.pc = "ended" /\ r.cmd = child[q].cmd /\ r.alone = child[q].alone
      BY <2>1 DEF ChildRecs, ChildPcs
    <3>2. child'[q] = r
      BY <1>1, <2>1, <2>2 DEF ChildRecs
    <3> HIDE DEF r
    <3> QED
      BY <2>2, <3>1, <3>2
  <2>3. CASE q \notin lost
    BY <1>1, <2>1, <2>3
  <2> QED
    BY <2>2, <2>3
<1>7. NoProc \in ProcRecs /\ NoProc.pc = "off" /\ NoProc.locks = {} /\ NoProc.inst = FALSE
  BY DEF NoProc, ProcRecs, ProcPcs, Commands, Builds
<1>8. \A q \in P : proc'[q] = IF q \in Victims THEN NoProc ELSE proc[q]
  BY <1>1
<1>9. Records'
  <2>1. proc' \in [P -> ProcRecs]
    BY <1>1, <1>7 DEF IInv, Records
  <2>2. DOMAIN child' = P /\ \A q \in P : child'[q] \in ChildRecs
    BY <1>1, <1>5, <1>6
  <2>3. child' = [q \in P |-> child'[q]]
    BY <1>1
  <2> QED
    BY <2>1, <2>2, <2>3 DEF Records
<1>10. Course'
  BY <1>0, <1>5, <1>6 DEF IInv, Course
<1>11. Mutexes'
  <2> USE OwnersDiffer DEF Names
  <2>1. /\ lock' \in {Free, Abandoned} \cup {Parent(q) : q \in P} \cup {Child(q) : q \in P}
        /\ tray' \in {Free, Abandoned} \cup {Parent(q) : q \in P}
    BY <1>1 DEF IInv, Mutexes
  <2>2. ASSUME NEW q \in P
        PROVE  /\ (tray' = Parent(q)) <=> (proc'[q].pc \in TrayPcs)
               /\ (lock' = Parent(q)) <=> (proc'[q].pc \in Owning)
               /\ (lock' = Child(q)) <=> Holds(q)'
    <3>1. (Parent(q) \in dead <=> q \in Victims) /\ (Child(q) \in dead <=> q \in lost)
      BY <1>2 DEF dead
    <3>2. Parent(q) # Abandoned /\ Child(q) # Abandoned
      OBVIOUS
    <3>3. /\ (tray' = Parent(q)) <=> (tray = Parent(q) /\ q \notin Victims)
          /\ (lock' = Parent(q)) <=> (lock = Parent(q) /\ q \notin Victims)
          /\ (lock' = Child(q)) <=> (lock = Child(q) /\ q \notin lost)
      BY <1>1, <3>1, <3>2
    <3>4. /\ proc'[q].pc \in TrayPcs <=> (proc[q].pc \in TrayPcs /\ q \notin Victims)
          /\ proc'[q].pc \in Owning <=> (proc[q].pc \in Owning /\ q \notin Victims)
      BY <1>7, <1>8 DEF TrayPcs, Owning
    <3>5. Holds(q)' <=> (Holds(q) /\ q \notin lost)
      <4>1. CASE q = p
        BY <1>0, <1>2, <1>5, <4>1 DEF Holds
      <4>2. CASE q # p
        BY <1>6, <4>2 DEF Holds
      <4> QED
        BY <4>1, <4>2
    <3> QED
      BY <3>3, <3>4, <3>5 DEF IInv, Mutexes
  <2> QED
    BY <2>1, <2>2 DEF Mutexes
<1>12. NoChildLate' /\ StaleTrayTold'
  <2>1. \A q \in P : proc'[q] = proc[q] \/ (proc'[q].locks = {} /\ proc'[q].pc = "off")
    BY <1>7, <1>8
  <2>2. NoChildLate'
    BY <2>1 DEF IInv, NoChildLate
  <2>3. StaleTrayTold'
    BY <1>3, <2>1 DEF IInv, StaleTrayTold
  <2> QED
    BY <2>2, <2>3
<1>13. \A q \in P : child'[q].alone => q = p /\ child[p].alone
  BY <1>1, <1>5, <1>6 DEF IInv, OnlyQuiet
<1>14. OnlyQuiet'
  <2> SUFFICES ASSUME child[p].alone, NEW q \in P \ {p}
               PROVE  ~Working(q)' /\ proc'[q].pc \in Quiet
    BY <1>13 DEF OnlyQuiet
  <2>1. ~Working(q) /\ proc[q].pc \in Quiet
    BY DEF IInv, OnlyQuiet
  <2> QED
    BY <1>6, <1>7, <1>8, <2>1 DEF Working, Quiet
<1>15. Stages'
  <2> SUFFICES ASSUME child[p].alone, child[p].ok
               PROVE  InstallStage(p)' /\ UpdateStage(p)' /\ UninstallStage(p)'
    BY <1>5, <1>13 DEF Stages, Stage
  <2>1. UpdateStage(p) /\ UninstallStage(p)
    BY DEF IInv, Stages, Stage
  <2>2. proc'[p].pc \in {proc[p].pc, "off"}
    BY <1>7, <1>8
  <2>3. InstallStage(p)'
    BY <1>0, <1>5 DEF InstallStage
  <2>4. UpdateStage(p)'
    <3>1. child[p].cmd = "--update-svc" => svc' = "none" /\ proc[p].pc \in {"helper", "off"}
      BY <1>0, <1>3, <2>1 DEF UpdateStage, Working
    <3> QED
      BY <1>0, <1>5, <2>2, <3>1 DEF UpdateStage
  <2>5. Victims' = {}
    BY <1>7, <1>8 DEF Victims, Alive
  <2>6. UninstallStage(p)'
    BY <1>0, <1>2, <1>5, <2>1, <2>2, <2>5 DEF UninstallStage
  <2> QED
    BY <2>3, <2>4, <2>6
<1> QED
  BY <1>4, <1>9, <1>10, <1>11, <1>12, <1>14, <1>15 DEF IInv

LEMMA SetupKeeps ==
  ASSUME MachineBounds, IInv, NEW p \in P, SetupStep(p)
  PROVE  IInv'
BY StopsForUpdate, AwaitsStop, Killing, Renaming, Copying, Configuring, StartingService,
   Finishing, StopHelping, LockingOut, Cleaning, StopsForUninstall, Deleting, Removing,
   HelperDying DEF SetupStep
-----------------------------------------------------------------------------
LEMMA InitIInv == MachineBounds /\ Init => IInv
<1> SUFFICES ASSUME MachineBounds, Init PROVE IInv
  OBVIOUS
<1> USE OwnersDiffer DEF Names
<1>0. /\ hw \in Hardware /\ accepted = {} /\ bak = 0 /\ stopped = FALSE /\ lock = Free
      /\ child = [p \in P |-> NoChild] /\ launches = 0 /\ faults = 0
      /\ Fresh \/ Unregistered \/ \E p \in P : Installed(p)
  BY DEF Init
<1>1. /\ NoProc \in ProcRecs /\ NoProc.pc = "off" /\ NoProc.locks = {}
      /\ NoChild \in ChildRecs /\ NoChild.pc = "off" /\ NoChild.alone = FALSE
  BY DEF NoProc, ProcRecs, ProcPcs, Commands, Builds, NoChild, ChildRecs, ChildPcs, Helpers
<1> DEFINE r == [Process("", TRUE, 1) EXCEPT !.pc = "loop", !.ev = TRUE, !.excused = {1},
                   !.locks = ProfileFor["Tray"]]
<1>2. r \in ProcRecs /\ r.pc = "loop" /\ r.build = 1
  <2>1. HardenForRole(RoleOf("")) = {} /\ ProfileFor["Tray"] = {"no_child"}
    BY DEF HardenForRole, RoleOf, ProfileFor
  <2> QED
    BY <2>1 DEF Process, NoProc, ProcRecs, ProcPcs, Commands, Builds, Locks
<1>3. Artifacts \ ServiceRights \subseteq Artifacts
  OBVIOUS
<1>4. World /\ Flags
  <2>1. /\ exe \in Builds /\ bak \in Builds /\ svcBuild \in Builds /\ arts \subseteq Artifacts
        /\ signalled = FALSE
        /\ \/ reg \in {"no", "yes"} /\ shown = "stopped" /\ svc = "none" /\ svcBuild = 0
           \/ reg = "yes" /\ shown = "running" /\ svc = "accept" /\ svcBuild = 1
    BY <1>0, <1>3 DEF Fresh, Unregistered, Installed, Builds
  <2>2. hw \in Hardware /\ accepted \subseteq Hardware /\ stopped = FALSE
    BY <1>0
  <2>3. Flags
    BY <2>1, <2>2 DEF Flags
  <2>4. World
    BY <2>1, <2>2 DEF World
  <2> QED
    BY <2>3, <2>4
<1>5. Counters
  BY <1>0 DEF Counters, MachineBounds
<1>6. /\ Course /\ OnlyQuiet /\ Stages
      /\ child \in [P -> ChildRecs] /\ \A p \in P : ~Holds(p)
  BY <1>0, <1>1 DEF Course, OnlyQuiet, Stages, Stage, Holds
<1>7. \/ /\ proc = [p \in P |-> NoProc] /\ tray = Free /\ svc = "none"
      \/ \E p \in P : /\ proc = [q \in P |-> IF q = p THEN r ELSE NoProc]
                      /\ tray = Parent(p) /\ svcBuild = 1
  BY <1>0 DEF Fresh, Unregistered, Installed
<1> HIDE DEF r
<1>8. CASE proc = [p \in P |-> NoProc] /\ tray = Free /\ svc = "none"
  <2>1. Mutexes
    BY <1>0, <1>1, <1>6, <1>8 DEF Mutexes, TrayPcs, Owning
  <2>2. NoChildLate /\ StaleTrayTold /\ Records
    BY <1>1, <1>6, <1>8 DEF NoChildLate, StaleTrayTold, Records
  <2> QED
    BY <1>4, <1>5, <1>6, <2>1, <2>2 DEF IInv
<1>9. ASSUME NEW p \in P, proc = [q \in P |-> IF q = p THEN r ELSE NoProc],
             tray = Parent(p), svcBuild = 1
      PROVE  IInv
  <2>1. Mutexes
    BY <1>0, <1>1, <1>2, <1>6, <1>9 DEF Mutexes, TrayPcs, Owning
  <2>2. NoChildLate /\ StaleTrayTold /\ Records
    BY <1>1, <1>2, <1>6, <1>9 DEF NoChildLate, StaleTrayTold, Records, TrayPcs
  <2> QED
    BY <1>4, <1>5, <1>6, <2>1, <2>2 DEF IInv
<1> QED
  BY <1>7, <1>8, <1>9

LEMMA NextIInv == MachineBounds /\ IInv /\ [Next]_vars => IInv'
<1> SUFFICES ASSUME MachineBounds, IInv, [Next]_vars PROVE IInv'
  OBVIOUS
<1>1. CASE UNCHANGED vars
  <2>1. UNCHANGED <<hw, accepted, exe, bak, arts, reg, shown, svc, svcBuild, stopped, signalled,
                    lock, tray, proc, child, launches, faults>>
    BY <1>1 DEF vars, user, files, scm, service, mutexes
  <2>2. World' /\ Flags' /\ Counters' /\ Records' /\ Course'
    BY <2>1 DEF IInv, World, Flags, Counters, Records, Course
  <2>3. Mutexes' /\ NoChildLate' /\ OnlyQuiet' /\ StaleTrayTold'
    BY <2>1 DEF IInv, Mutexes, Holds, NoChildLate, OnlyQuiet, Working, StaleTrayTold
  <2>4. Stages'
    BY <2>1 DEF IInv, Stages, Stage, InstallStage, UpdateStage, UninstallStage, Working,
                Victims, Alive
  <2> QED
    BY <2>2, <2>3, <2>4 DEF IInv
<1>2. CASE Next
  BY <1>2, ServiceKeepsInv, AdminKeeps, SetupKeeps, LauncherKeeps, TrayKeeps DEF Next
<1> QED
  BY <1>1, <1>2

(* The invariant, for any number of processes, starts and faults.          *)
THEOREM IInvHolds == Spec => []IInv
<1>1. Init => IInv
  BY InitIInv, MachineBounds
<1>2. IInv /\ [Next]_vars => IInv'
  BY NextIInv, MachineBounds
<1> QED
  BY <1>1, <1>2, PTL DEF Spec

(* Everything has its type, the mutexes name their owners, and no process  *)
(* that may still start another is locked out of it.                       *)
THEOREM TypeCorrect == Spec => []TypeOK
<1>1. IInv => TypeOK
  <2> SUFFICES ASSUME IInv PROVE TypeOK
    OBVIOUS
  <2>1. /\ \A p \in P : (tray = Parent(p)) <=> (proc[p].pc \in {"loop", "check"})
        /\ \A p \in P : (lock = Parent(p)) <=>
                          (proc[p].pc \in {"work", "helper", "await", "failed"})
        /\ lock \in {Free, Abandoned} \cup {Parent(p) : p \in P} \cup {Child(p) : p \in P}
        /\ tray \in {Free, Abandoned} \cup {Parent(p) : p \in P}
    BY DEF IInv, Mutexes, TrayPcs, Owning
  <2>2. \A p \in P : proc[p].pc \in {"lock", "work", "helper", "await"} =>
                       "no_child" \notin proc[p].locks
    BY DEF IInv, NoChildLate, TrayPcs
  <2>3. World /\ Flags /\ Counters /\ {exe, bak, svcBuild} \subseteq 0 .. 2
    BY DEF IInv, World, Builds
  <2> QED
    BY <2>1, <2>2, <2>3 DEF TypeOK, World, Flags, Counters
<1> QED
  BY <1>1, IInvHolds, PTL

(* An installation, update or removal that met no failure and no company   *)
(* leaves what it promises (install.rs:979-1154, 1324-1406).               *)
THEOREM KeepsItsPromise == Spec => []SetupOutcome
<1>1. IInv => SetupOutcome
  <2> SUFFICES ASSUME IInv, NEW p \in P, child[p].pc = "ended", child[p].ok, child[p].alone
               PROVE  /\ child[p].cmd = "--install-svc" =>
                           /\ exe = child[p].build /\ IsInstalled
                           /\ (Artifacts \ Choices) \cup child[p].choices \subseteq arts
                      /\ child[p].cmd = "--update-svc" =>
                           exe = child[p].build /\ IsInstalled /\ bak = 0 /\ svcBuild \in {0, exe}
                      /\ child[p].cmd = "uninstall" =>
                           exe = 0 /\ bak = 0 /\ ~IsInstalled /\ svc = "none" /\ arts \subseteq EtwRights
    BY DEF SetupOutcome, InstallComplete, UpdateComplete, UninstallComplete, Settled
  <2>1. InstallStage(p) /\ UpdateStage(p) /\ UninstallStage(p)
    BY DEF IInv, Stages, Stage
  <2>2. Artifacts \ Choices \subseteq Registered \cup UninstallEntry
    BY DEF Artifacts, Registered
  <2>3. CASE child[p].cmd = "--install-svc"
    BY <2>1, <2>2, <2>3 DEF InstallStage, IsInstalled
  <2>4. CASE child[p].cmd = "--update-svc"
    BY <2>1, <2>4 DEF UpdateStage, IsInstalled
  <2>5. CASE child[p].cmd = "uninstall"
    BY <2>1, <2>5 DEF UninstallStage, IsInstalled
  <2> QED
    BY <2>3, <2>4, <2>5
<1> QED
  BY <1>1, IInvHolds, PTL

(* A tray older than the service has been told, or is about to be: "a      *)
(* stale tray must not keep running" (tray.rs:1722-1728).                  *)
THEOREM TellsStaleTrays == Spec => []StaleTrayTold
<1>1. IInv => StaleTrayTold
  BY DEF IInv
<1> QED
  BY <1>1, IInvHolds, PTL
-----------------------------------------------------------------------------
(* A step changes nobody's record but its own process's, save that set-up  *)
(* ends those that run the installed copy.                                 *)
LEMMA OwnRecord ==
  ASSUME NEW q \in P, NEW r \in P \ {q}, Records, LauncherStep(q) \/ TrayStep(q)
  PROVE  proc'[r] = proc[r]
<1>1. \A l \in ProcPcs : Reach(q, l) => proc'[r] = proc[r]
  BY DEF Reach, Records
<1>2. Exit(q) => proc'[r] = proc[r]
  BY DEF Exit, Records
<1>3. \A cmd \in Commands \cup {"update"}, l \in ProcPcs : To(q, cmd, l) => proc'[r] = proc[r]
  BY DEF To, Records
<1>4. EnsureTray(q) => proc'[r] = proc[r]
  BY <1>2 DEF EnsureTray, Records
<1> USE DEF ProcPcs, Commands
<1>5. Launch(q) \/ Choose(q) \/ Enter(q) => proc'[r] = proc[r]
  BY <1>2 DEF Launch, Choose, Enter, Records
<1>6. Main(q) \/ AskConsent(q) \/ Confirm(q) \/ Acquire(q) \/ Dismiss(q) => proc'[r] = proc[r]
  BY <1>1, <1>2, <1>3 DEF Main, AskConsent, Confirm, Acquire, Dismiss
<1>7. Decide(q) => proc'[r] = proc[r]
  BY <1>1, <1>2, <1>3, <1>4 DEF Decide, Bootstrap
<1>8. DoInstall(q) \/ DoUpdate(q) \/ DoUninstall(q) \/ DoStart(q) \/ DoStop(q) => proc'[r] = proc[r]
  BY <1>1, <1>2 DEF DoInstall, DoUpdate, DoUninstall, DoStart, DoStop
<1>9. HelperEnds(q) \/ AwaitRunning(q) \/ Dies(q) => proc'[r] = proc[r]
  BY <1>1, <1>2, <1>4 DEF HelperEnds, AwaitRunning, Dies
<1>10. Wake(q) \/ Quit(q) => proc'[r] = proc[r]
  BY <1>1, <1>2 DEF Wake, Quit
<1>11. Compare(q) => proc'[r] = proc[r]
  BY <1>1, <1>2 DEF Compare, Records
<1> QED
  BY <1>5, <1>6, <1>7, <1>8, <1>9, <1>10, <1>11 DEF LauncherStep, TrayStep

LEMMA OnlyAcquireWarns ==
  ASSUME NEW p \in P, Records, Next, proc[p].pc = "lock", proc'[p].pc = "warned"
  PROVE  Acquire(p)
<1>0. NoProc.pc = "off"
  BY DEF NoProc
<1>1. ~(ServiceNext \/ AdminSwaps)
  BY DEF ServiceNext, SvcFooting, SvcOpening, SvcSignal, SvcStop, SvcDies, Outside, AdminSwaps
<1>2. \A q \in P : ~SetupStep(q)
  <2> SUFFICES ASSUME NEW q \in P, SetupStep(q) PROVE FALSE
    OBVIOUS
  <2>1. CASE Kill(q)
    <3>1. proc'[p] = NoProc \/ proc'[p] = proc[p]
      BY <2>1 DEF Kill
    <3> QED
      BY <1>0, <3>1
  <2>2. CASE UNCHANGED proc
    BY <2>2
  <2> QED
    BY <2>1, <2>2 DEF SetupStep, UpdateStops, Await, Rename, Copy, Configure, Start, Finish,
         StopHelper, UninstallLock, Clean, UninstallStops, Delete, Remove, HelperDies, Keeps
<1>3. \A q \in P : LauncherStep(q) \/ TrayStep(q) => q = p
  BY OwnRecord
<1>4. LauncherStep(p) \/ TrayStep(p)
  BY <1>1, <1>2, <1>3 DEF Next
<1>5. ~Dies(p)
  BY <1>0 DEF Dies, Exit, Records
<1> QED
  BY <1>4, <1>5 DEF LauncherStep, TrayStep, Launch, Main, AskConsent, Decide, Choose, Confirm,
       Dismiss, DoInstall, DoUpdate, DoUninstall, DoStart, DoStop, HelperEnds, AwaitRunning,
       Enter, Wake, Compare, Quit, Alive

(* Whoever is told that a set-up is in progress is told the truth: a live  *)
(* process owns the mutex (install.rs:45-50).                              *)
THEOREM RefusesForLiving == Spec => RefusedOnlyByLiving
<1>1. IInv /\ [Next]_vars =>
        [\A p \in P : proc[p].pc = "lock" /\ proc'[p].pc = "warned" => Owner # {}]_vars
  <2> SUFFICES ASSUME IInv, Next, NEW p \in P, proc[p].pc = "lock", proc'[p].pc = "warned"
               PROVE  Owner # {}
    OBVIOUS
  <2>1. Acquire(p)
    BY OnlyAcquireWarns DEF IInv
  <2>2. ~Granted(lock)
    <3>1. ~Reach(p, "work")
      BY DEF Reach, IInv, Records, ProcRecs
    <3> QED
      BY <2>1, <3>1 DEF Acquire
  <2>3. CASE \E q \in P : lock = Parent(q)
    BY <2>3 DEF Owner, Alive, IInv, Mutexes, Owning
  <2>4. CASE \E q \in P : lock = Child(q)
    BY <2>4 DEF Owner, Working, IInv, Mutexes, Holds
  <2> QED
    BY <2>2, <2>3, <2>4 DEF IInv, Mutexes, Granted
<1> QED
  BY <1>1, IInvHolds, PTL DEF Spec, RefusedOnlyByLiving
=============================================================================
