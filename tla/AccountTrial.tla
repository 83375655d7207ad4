---------------------------- MODULE AccountTrial ----------------------------
(***************************************************************************)
(* xtask vsa-spike: the service tried under a virtual account and put back *)
(* under its own, with a snapshot file against an end in between.          *)
(***************************************************************************)
EXTENDS Naturals

CONSTANTS Home, Virtual, MaxTrials

VARIABLES pc,        \* the command's next step, "idle" when none runs
          original,  \* the account the command read, in its memory
          account,   \* the service's configured account
          running,   \* the account the service runs under, or "stopped"
          snapshot,  \* the file, or "none"
          refused,   \* did the service manager ever refuse a change?
          trials
trialVars == <<pc, original, account, running, snapshot, refused, trials>>

Step(from, to) == pc = from /\ pc' = to
TrialInit == /\ pc = "idle" /\ original = "none" /\ account = Home /\ running \in {Home, "stopped"}
             /\ snapshot = "none" /\ refused = FALSE /\ trials = 0

TrialIdle == /\ pc = "idle" /\ original = "none" /\ account = Home /\ running = "stopped"
             /\ snapshot = "none" /\ refused = FALSE /\ trials = MaxTrials

(* open_service, query_start_name; --recover goes by the snapshot.         *)
Run == /\ trials < MaxTrials /\ trials' = trials + 1 /\ pc = "idle"
       /\ \/ account # Virtual /\ original' = account /\ pc' = "snapshot"
          \/ snapshot # "none" /\ original' = snapshot /\ pc' = "putBack"
       /\ UNCHANGED <<account, running, snapshot, refused>>

(* Changed form: the snapshot is left for later.                           *)
SnapshotLater == /\ Step("snapshot", "change")
                 /\ UNCHANGED <<original, account, running, snapshot, refused, trials>>
Snapshot == /\ \/ Step("snapshot", "change") /\ snapshot' = original
               \/ Step("snapshot", "idle") /\ UNCHANGED snapshot
            /\ UNCHANGED <<original, account, running, refused, trials>>

(* set_start_name: the manager may refuse. *)
Change == /\ \/ Step("change", "restart") /\ account' = Virtual /\ UNCHANGED refused
             \/ Step("change", "putBack") /\ refused' = TRUE /\ UNCHANGED account
          /\ UNCHANGED <<original, running, snapshot, trials>>

(* restart: a stop that is not reported and a start that fails are waited  *)
(* out; then the trial goes on until ENTER.                                *)
Restart(from, to) == /\ Step(from, to)
                     /\ \/ running' \in {account, "stopped"}
                        \/ running # "stopped" /\ UNCHANGED running
                     /\ UNCHANGED <<original, account, snapshot, refused, trials>>
Exercised == Step("exercise", "putBack")
          /\ UNCHANGED <<original, account, running, snapshot, refused, trials>>

(* revert and recover: the result of the change is not looked at.          *)
PutBack == /\ Step("putBack", "restartBack")
           /\ \/ account' = original /\ UNCHANGED refused
              \/ refused' = TRUE /\ UNCHANGED account
           /\ UNCHANGED <<original, running, snapshot, trials>>
Forget == Step("forget", "idle") /\ snapshot' = "none"
          /\ UNCHANGED <<original, account, running, refused, trials>>

(* The command is ended from outside; its memory is gone. *)
Killed == pc # "idle" /\ pc' = "idle" /\ original' = "none"
          /\ UNCHANGED <<account, running, snapshot, refused, trials>>

TrialNext == \/ Run \/ Snapshot \/ Change \/ Restart("restart", "exercise") \/ Exercised
             \/ PutBack \/ Restart("restartBack", "forget") \/ Forget \/ Killed

(* vsa.rs "Persist the snapshot BEFORE mutating, so an interrupted run is  *)
(* recoverable": unless the service manager refused a change, the service  *)
(* has its own account or the snapshot names it.                           *)
AccountRecoverable == refused \/ account = Home \/ snapshot = Home
=============================================================================
