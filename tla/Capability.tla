----------------------------- MODULE Capability -----------------------------
(***************************************************************************)
(* The capability ladder (app/src/capability.rs): verdict runs a read, a   *)
(* build check and the write probe, which switches to a same-band mode and *)
(* restores the original, each step a transaction of its own.  Meanwhile   *)
(* the user selects modes in the tray, and the service may be replaced by  *)
(* another build.  A write costs a token of the service's limiter.  Bounds *)
(* of the instance: MaxReports calls of verdict in the process's lifetime, *)
(* MaxLost transactions whose response is lost, MaxRestarts replacements   *)
(* of the service.                                                         *)
(***************************************************************************)
EXTENDS TokenBucket

CONSTANTS Ignores,   \* may the firmware acknowledge a write and not do it?
          MaxReports, MaxLost, MaxRestarts

ASSUME IgnoresAssumption == Ignores \in BOOLEAN
ASSUME BoundsAssumption == {MaxReports, MaxLost, MaxRestarts} \subseteq Nat

VARIABLES mode,            \* the thermal mode the machine is in
          same,            \* the service is the same build as we are
          READ, WRITE,     \* process-lifetime caches of the verdicts
          pc, orig,        \* probe_write and its local
          good,            \*   every check of the probe held so far
          verdict,         \* what verdict returned last
          chosen,          \* history: the user selected a mode during the probe
          probes,          \* history: probes begun
          switch,          \* history: what became of the probe's switch
          reports, lost, restarts

service == <<mode, tokens, idle, same>>
local == <<READ, WRITE, pc, orig, good, verdict>>
history == <<chosen, probes, switch>>
bounds == <<reports, lost, restarts>>
vars == <<service, local, history, bounds>>

Modes == 0 .. 3
Partner(m) == (m + 2) % 4       \* same_band_partner

TypeOK == /\ {mode, orig} \subseteq Modes
          /\ tokens \in 0 .. Burst /\ idle \in 0 .. Burst
          /\ {same, good, chosen} \subseteq BOOLEAN
          /\ READ \in {"UNTESTED", "OK"}
          /\ WRITE \in {"UNTESTED", "OK", "FAILED"}
          /\ pc \in {"idle", "read", "build", "write", "rebuild", "cur", "set",
                     "took", "restore", "restored", "store"}
          /\ verdict \in {"none", "Verified", "Skew", "ReadOnly", "Unverified"}
          /\ switch \in {"none", "made", "undone", "stuck"}
          /\ reports \in 0 .. MaxReports /\ lost \in 0 .. MaxLost
          /\ restarts \in 0 .. MaxRestarts /\ probes \in Nat
          /\ pc \notin {"idle", "read"} => READ = "OK"

Init == /\ mode \in Modes /\ tokens = Burst /\ idle = 0 /\ same \in BOOLEAN
        /\ READ = "UNTESTED" /\ WRITE = "UNTESTED"
        /\ pc = "idle" /\ orig = 0 /\ good = FALSE /\ verdict = "none"
        /\ chosen = FALSE /\ probes = 0 /\ switch = "none"
        /\ reports = 0 /\ lost = 0 /\ restarts = 0
-----------------------------------------------------------------------------
(* One transaction: what it does and what comes back.  A lost response     *)
(* says nothing about a write, which may still have been carried out.      *)
Lose == lost < MaxLost /\ lost' = lost + 1
Answered == UNCHANGED lost

Grant == /\ tokens' = TokensAfter(tokens, idle) /\ idle' = 0

Set(m) == /\ Grant /\ UNCHANGED same
          /\ \/ mode' = IF Allowed(tokens, idle) THEN m ELSE mode
             \/ Ignores /\ UNCHANGED mode

Goto(l) == pc' = l
Return(v) == Goto("idle") /\ verdict' = v
Stay == UNCHANGED <<service, history, reports, restarts>>
-----------------------------------------------------------------------------
Report == /\ pc = "idle" /\ reports < MaxReports
          /\ reports' = reports + 1
          /\ Goto(IF READ = "OK" THEN "build" ELSE "read")
          /\ verdict' = "none"
          /\ UNCHANGED <<service, READ, WRITE, orig, good, history, lost, restarts>>

(* read_ok: only a success is remembered. *)
Read == /\ pc = "read"
        /\ \/ Answered /\ READ' = "OK" /\ Goto("build") /\ UNCHANGED verdict
           \/ Lose /\ Return("Unverified") /\ UNCHANGED READ
        /\ UNCHANGED <<WRITE, orig, good>> /\ Stay

(* build_matches, in verdict and once more in write_ok.                    *)
Build == /\ pc = "build"
         /\ \/ Answered /\ same /\ Goto("write") /\ UNCHANGED verdict
            \/ ((Answered /\ ~same) \/ Lose) /\ Return("Skew")
         /\ UNCHANGED <<READ, WRITE, orig, good>> /\ Stay

(* Changed form: a failed probe is not remembered.                         *)
CachedOkOnly == /\ pc = "write" /\ Answered
                /\ \/ WRITE = "OK" /\ Return("Verified")
                   \/ WRITE # "OK" /\ Goto("rebuild") /\ UNCHANGED verdict
                /\ UNCHANGED <<READ, WRITE, orig, good>> /\ Stay

(* write_ok: both outcomes are remembered. *)
Cached == /\ pc = "write" /\ Answered
          /\ \/ WRITE = "OK" /\ Return("Verified")
             \/ WRITE = "FAILED" /\ Return("ReadOnly")
             \/ WRITE = "UNTESTED" /\ Goto("rebuild") /\ UNCHANGED verdict
          /\ UNCHANGED <<READ, WRITE, orig, good>> /\ Stay

Rebuild == /\ pc = "rebuild"
           /\ \/ Answered /\ same /\ Goto("cur") /\ UNCHANGED verdict
              \/ ((Answered /\ ~same) \/ Lose) /\ Return("ReadOnly")
           /\ UNCHANGED <<READ, WRITE, orig, good>> /\ Stay

(* probe_write *)
Current == /\ pc = "cur"
           /\ \/ Answered /\ orig' = mode /\ good' = TRUE /\ Goto("set")
              \/ Lose /\ good' = FALSE /\ Goto("store") /\ UNCHANGED orig
           /\ chosen' = FALSE /\ probes' = probes + 1
           /\ UNCHANGED <<service, READ, WRITE, verdict, switch, reports, restarts>>

(* A probe's write: good only if the service granted it and said so.       *)
ProbeSet(m) == /\ \/ Answered /\ Set(m) /\ good' = (good /\ Allowed(tokens, idle))
                  \/ Lose /\ good' = FALSE /\ (Set(m) \/ UNCHANGED service)
               /\ UNCHANGED <<READ, WRITE, orig, verdict, chosen, probes,
                              reports, restarts>>

SetOther == /\ pc = "set" /\ ProbeSet(Partner(orig)) /\ Goto("took")
            /\ switch' = IF mode' = Partner(orig) THEN "made" ELSE "none"

ReadBack(m) == /\ \/ Answered /\ good' = (good /\ mode = m)
                  \/ Lose /\ good' = FALSE
               /\ UNCHANGED <<READ, WRITE, orig, verdict>> /\ Stay

(* Changed form: nothing is restored when the switch did not take.         *)
TookOrQuit == /\ pc = "took" /\ ReadBack(Partner(orig))
              /\ Goto(IF good' THEN "restore" ELSE "store")

Took == pc = "took" /\ ReadBack(Partner(orig)) /\ Goto("restore")

Restore == /\ pc = "restore" /\ ProbeSet(orig) /\ Goto("restored")
           /\ switch' = IF switch # "made" THEN switch
                        ELSE IF mode' = orig THEN "undone" ELSE "stuck"

(* Changed form: the restore is not read back.                             *)
RestoredUnread == /\ pc = "restored" /\ Goto("store")
                  /\ Answered /\ UNCHANGED <<READ, WRITE, orig, good, verdict>> /\ Stay

Restored == pc = "restored" /\ ReadBack(orig) /\ Goto("store")

Store == /\ pc = "store" /\ WRITE' = (IF good THEN "OK" ELSE "FAILED")
         /\ Return(IF good THEN "Verified" ELSE "ReadOnly") /\ Answered
         /\ UNCHANGED <<READ, orig, good>> /\ Stay
-----------------------------------------------------------------------------
(* The rest of the system: the user's selections, time, a new service.     *)
UserSets(m) == /\ Set(m)
               /\ chosen' = TRUE
               /\ UNCHANGED <<local, probes, switch, bounds>>

Tick == /\ idle < Burst /\ idle' = idle + 1
        /\ UNCHANGED <<mode, tokens, same, local, history, bounds>>

Replace == /\ restarts < MaxRestarts /\ restarts' = restarts + 1
           /\ same' = ~same /\ tokens' = Burst /\ idle' = 0
           /\ UNCHANGED <<mode, local, history, reports, lost>>

Next == \/ Report \/ Read \/ Build \/ Cached \/ Rebuild \/ Current \/ SetOther
        \/ Took \/ Restore \/ Restored \/ Store \/ Tick \/ Replace
        \/ \E m \in Modes : UserSets(m)

Spec == Init /\ [][Next]_vars
-----------------------------------------------------------------------------
(* "Verified" is only ever said of an interface that took the write and    *)
(* gave the original mode back, whatever its firmware acknowledges: unless *)
(* the user selected a mode since the probe began, the switch was really   *)
(* made and undone and the original mode is in force.                      *)
VerifiedIsProven == pc = "store" /\ good /\ ~chosen => switch = "undone" /\ mode = orig

(* However often the report is asked for, the machine is probed at most    *)
(* once by a process ("a failed write must NOT re-toggle the fan on every  *)
(* attempt", capability.rs:30-32).                                         *)
ProbedOnce == probes <= 1

(* "ALWAYS restore the original (even if the confirm above failed)"        *)
(* (capability.rs:92): once the probe is over the machine is in its mode   *)
(* again, whatever else went wrong, unless the one write of the restore    *)
(* was itself refused or lost ("stuck"), or the user chose another mode.   *)
NeverLeftSwitched == pc = "idle" /\ ~chosen =>
                       switch # "made" /\ (switch = "undone" => mode = orig)
=============================================================================
