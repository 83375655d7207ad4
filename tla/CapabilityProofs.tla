-------------------------- MODULE CapabilityProofs --------------------------
(***************************************************************************)
(* Capability for every bucket, any number of reports, lost transactions   *)
(* and replacements of the service.  While nobody chose a mode, what       *)
(* became of the probe's switch determines the mode the machine is in; a   *)
(* check of the probe that held therefore tells what the firmware did.     *)
(***************************************************************************)
EXTENDS Capability, TLAPS

Probing == {"set", "took", "restore", "restored", "store"}

(* The probe runs before its verdict is cached, and the cache stops it.    *)
OneProbe == /\ pc \in {"rebuild", "cur"} \cup Probing => WRITE = "UNTESTED"
            /\ pc \in Probing => probes = 1
            /\ pc \notin Probing /\ WRITE = "UNTESTED" => probes = 0
            /\ probes <= 1

(* The switch is only open between the probe's two writes.                 *)
Opened == /\ probes = 0 \/ pc = "set" => switch = "none"
          /\ pc \in {"took", "restore"} => switch \in {"none", "made"}
          /\ pc \notin {"took", "restore"} => switch # "made"

(* Where the switch leaves the machine unless the user chose a mode.       *)
InForce == ~chosen =>
  /\ switch = "made" => mode = Partner(orig)
  /\ switch = "undone" => mode = orig
  /\ switch = "stuck" => mode # orig
  /\ switch = "none" /\ pc \in {"set", "took", "restore", "restored"} => mode = orig

(* What the checks that held so far have proved by then.                   *)
Evidence == good /\ ~chosen =>
  /\ pc = "restore" => switch = "made"
  /\ pc = "restored" => switch \in {"undone", "stuck"}
  /\ pc = "store" => switch = "undone"

IInv == TypeOK /\ OneProbe /\ Opened /\ InForce /\ Evidence

(* The typing facts one by one.                                            *)
Flags == same \in BOOLEAN /\ good \in BOOLEAN /\ chosen \in BOOLEAN

Types == /\ mode \in Modes /\ orig \in Modes
         /\ tokens \in Nat /\ tokens <= Burst /\ idle \in Nat /\ idle <= Burst
         /\ READ \in {"UNTESTED", "OK"}
         /\ WRITE \in {"UNTESTED", "OK", "FAILED"}
         /\ pc \in {"idle", "read", "build", "write", "rebuild", "cur", "set",
                    "took", "restore", "restored", "store"}
         /\ verdict \in {"none", "Verified", "Skew", "ReadOnly", "Unverified"}
         /\ switch \in {"none", "made", "undone", "stuck"}
         /\ reports \in Nat /\ reports <= MaxReports /\ lost \in Nat /\ lost <= MaxLost
         /\ restarts \in Nat /\ restarts <= MaxRestarts /\ probes \in Nat
         /\ pc \notin {"idle", "read"} => READ = "OK"

(* The assumptions on the constants, one by one.                           *)
LEMMA Constants == /\ Burst \in Nat /\ Cost \in Nat /\ Cost <= Burst
                   /\ MaxReports \in Nat /\ MaxLost \in Nat /\ MaxRestarts \in Nat
  BY BucketAssumption, BoundsAssumption

(* Flags and Types say what TypeOK says.                                   *)
LEMMA TypesIsTypeOK == TypeOK <=> Flags /\ Types
  BY Constants DEF TypeOK, Flags, Types

(* The partner of a mode is another mode.                                  *)
LEMMA PartnerIsOther == ASSUME NEW m \in Modes
                        PROVE  Partner(m) \in Modes /\ Partner(m) # m
<1>1. m = 0 \/ m = 1 \/ m = 2 \/ m = 3
  BY DEF Modes
<1>2. (0 + 2) % 4 = 2 /\ (1 + 2) % 4 = 3 /\ (2 + 2) % 4 = 0 /\ (3 + 2) % 4 = 1
  OBVIOUS
<1> QED
  BY <1>1, <1>2 DEF Partner, Modes

(* A write costs at most a token, and the mode is then the one asked for   *)
(* or the one before.                                                      *)
LEMMA SetFacts ==
  ASSUME Types, NEW m \in Modes, Set(m)
  PROVE  /\ tokens' \in Nat /\ tokens' <= Burst /\ idle' \in Nat /\ idle' <= Burst
         /\ mode' = m \/ mode' = mode
         /\ mode' \in Modes /\ same' = same
  BY Constants DEF Types, Set, Grant, TokensAfter, Allowed, Refilled, Least

(* A step of the probe's write leaves all else as it was.                  *)
LEMMA ProbeSetFacts ==
  ASSUME Types, NEW m \in Modes, ProbeSet(m)
  PROVE  /\ tokens' \in Nat /\ tokens' <= Burst /\ idle' \in Nat /\ idle' <= Burst
         /\ mode' = m \/ mode' = mode
         /\ mode' \in Modes
         /\ lost' \in Nat /\ lost' <= MaxLost
         /\ good' => good
         /\ UNCHANGED <<same, READ, WRITE, orig, verdict, chosen, probes, reports, restarts>>
<1>1. good' => good
  BY DEF ProbeSet
<1>2. lost' \in Nat /\ lost' <= MaxLost
  <2>1. lost' = lost \/ (lost < MaxLost /\ lost' = lost + 1)
    BY DEF ProbeSet, Answered, Lose
  <2> QED
    BY <2>1, Constants DEF Types
<1>3. UNCHANGED <<READ, WRITE, orig, verdict, chosen, probes, reports, restarts>>
  BY DEF ProbeSet
<1>4. /\ tokens' \in Nat /\ tokens' <= Burst /\ idle' \in Nat /\ idle' <= Burst
      /\ mode' = m \/ mode' = mode
      /\ mode' \in Modes /\ same' = same
  <2>1. Set(m) \/ UNCHANGED service
    BY DEF ProbeSet
  <2>2. CASE UNCHANGED service
    BY <2>2 DEF service, Types
  <2> QED
    BY <2>1, <2>2, SetFacts
<1> QED
  BY <1>1, <1>2, <1>3, <1>4

(* A read-back leaves all as it was but good, and good knows the mode.     *)
LEMMA ReadBackFacts ==
  ASSUME Types, NEW m \in Modes, ReadBack(m)
  PROVE  /\ good' => good /\ mode = m
         /\ lost' \in Nat /\ lost' <= MaxLost
         /\ UNCHANGED <<mode, tokens, idle, same, READ, WRITE, orig, verdict, chosen, probes,
                        switch, reports, restarts>>
<1>1. good' => good /\ mode = m
  BY DEF ReadBack
<1>2. lost' = lost \/ (lost < MaxLost /\ lost' = lost + 1)
  BY DEF ReadBack, Answered, Lose
<1>3. UNCHANGED <<mode, tokens, idle, same, READ, WRITE, orig, verdict, chosen, probes,
                  switch, reports, restarts>>
  BY DEF ReadBack, Stay, service, history
<1> QED
  BY <1>1, <1>2, <1>3, Constants DEF Types

J == Types /\ OneProbe /\ Opened /\ InForce /\ Evidence

(* Nothing was probed or chosen at the start.                              *)
LEMMA InitIInv == Init => IInv
<1> SUFFICES ASSUME Init PROVE Flags /\ J
  BY TypesIsTypeOK DEF IInv, J
<1>1. Flags
  BY DEF Init, Flags
<1>2. Types
  BY Constants DEF Init, Types, Modes
<1>3. OneProbe /\ Opened /\ InForce /\ Evidence
  BY DEF Init, OneProbe, Opened, InForce, Evidence, Probing
<1> QED
  BY <1>1, <1>2, <1>3 DEF J

(* The three flags stay flags.                                             *)
LEMMA FlagsStep == Flags /\ [Next]_vars => Flags'
<1> SUFFICES ASSUME Flags, [Next]_vars PROVE Flags'
  OBVIOUS
<1> USE DEF Flags, service, local, history, bounds, Stay, Goto, Return
<1>1. CASE Report \/ Read \/ Build \/ Cached \/ Rebuild \/ Current
  BY <1>1 DEF Report, Read, Build, Cached, Rebuild, Current
<1>2. CASE SetOther \/ Restore
  BY <1>2 DEF SetOther, Restore, ProbeSet, Set
<1>3. CASE Took \/ Restored
  BY <1>3 DEF Took, Restored, ReadBack
<1>4. CASE Store \/ Tick \/ Replace
  BY <1>4 DEF Store, Tick, Replace
<1>5. ASSUME NEW m \in Modes, UserSets(m) PROVE Flags'
  BY <1>5 DEF UserSets, Set
<1>6. CASE UNCHANGED vars
  BY <1>6 DEF vars
<1> QED
  BY <1>1, <1>2, <1>3, <1>4, <1>5, <1>6 DEF Next

(* Outside the probe verdict only moves on, and knows what it may probe.   *)
LEMMA VerdictKeeps == ASSUME J, Report \/ Read \/ Build \/ Cached \/ Rebuild PROVE J'
<1> USE DEF J
<1>1. UNCHANGED <<mode, tokens, idle, same, WRITE, orig, good, chosen, probes, switch, restarts>>
  BY DEF Report, Read, Build, Cached, Rebuild, Stay, service, history, Goto, Return
<1>2. /\ pc \notin Probing \cup {"cur"} /\ pc' \notin Probing
      /\ pc' \in {"idle", "read", "build", "write", "rebuild", "cur"}
      /\ pc' \in {"rebuild", "cur"} => WRITE = "UNTESTED"
      /\ READ' \in {"UNTESTED", "OK"}
      /\ pc' \notin {"idle", "read"} => READ' = "OK"
      /\ verdict' \in {"none", "Verified", "Skew", "ReadOnly", "Unverified"}
  BY DEF Report, Read, Build, Cached, Rebuild, Goto, Return, Types, OneProbe, Probing
<1>3. /\ lost' = lost \/ (lost < MaxLost /\ lost' = lost + 1)
      /\ reports' = reports \/ (reports < MaxReports /\ reports' = reports + 1)
  BY DEF Report, Read, Build, Cached, Rebuild, Answered, Lose, Stay
<1>4. Types'
  BY <1>1, <1>2, <1>3, Constants DEF Types
<1>5. OneProbe' /\ Opened' /\ InForce' /\ Evidence'
  BY <1>1, <1>2 DEF OneProbe, Opened, InForce, Evidence, Probing
<1> QED
  BY <1>4, <1>5

(* The probe begins: this is the only one, and nothing is switched yet.    *)
LEMMA CurrentKeeps == ASSUME J, Current PROVE J'
<1> USE DEF J
<1>1. /\ pc = "cur" /\ chosen' = FALSE /\ probes' = probes + 1
      /\ \/ orig' = mode /\ pc' = "set"
         \/ ~good' /\ pc' = "store" /\ orig' = orig
      /\ lost' = lost \/ (lost < MaxLost /\ lost' = lost + 1)
      /\ UNCHANGED <<mode, tokens, idle, same, READ, WRITE, verdict, switch, reports, restarts>>
  BY DEF Current, Goto, Answered, Lose, service
<1>2. probes = 0 /\ WRITE = "UNTESTED" /\ switch = "none"
  BY <1>1 DEF OneProbe, Opened, Probing
<1>3. Types'
  BY <1>1, Constants DEF Types
<1>4. OneProbe' /\ Opened' /\ InForce'
  BY <1>1, <1>2 DEF OneProbe, Opened, InForce, Probing
<1>5. Evidence'
  BY <1>1, <1>2 DEF Evidence
<1> QED
  BY <1>3, <1>4, <1>5

(* The switch is made or the machine is in the mode it was in.             *)
LEMMA SetOtherKeeps == ASSUME J, SetOther PROVE J'
<1> USE DEF J
<1>1. /\ pc = "set" /\ pc' = "took"
      /\ switch' = IF mode' = Partner(orig) THEN "made" ELSE "none"
  BY DEF SetOther, Goto
<1>2. orig \in Modes /\ Partner(orig) \in Modes /\ Partner(orig) # orig /\ ProbeSet(Partner(orig))
  BY PartnerIsOther DEF Types, SetOther
<1>3. /\ tokens' \in Nat /\ tokens' <= Burst /\ idle' \in Nat /\ idle' <= Burst
      /\ mode' = Partner(orig) \/ mode' = mode
      /\ mode' \in Modes
      /\ lost' \in Nat /\ lost' <= MaxLost
      /\ good' => good
      /\ UNCHANGED <<same, READ, WRITE, orig, verdict, chosen, probes, reports, restarts>>
  BY <1>2, ProbeSetFacts
<1>4. Types'
  BY <1>1, <1>3 DEF Types
<1>5. OneProbe' /\ Opened'
  BY <1>1, <1>3 DEF OneProbe, Opened, Probing
<1>6. InForce'
  <2>1. ~chosen => mode = orig
    BY <1>1, <1>3 DEF InForce, Opened
  <2>2. Partner(orig)' = Partner(orig)
    BY <1>3 DEF Partner
  <2> QED
    BY <1>1, <1>2, <1>3, <2>1, <2>2 DEF InForce
<1>7. Evidence'
  BY <1>1 DEF Evidence
<1> QED
  BY <1>4, <1>5, <1>6, <1>7

(* The read-back of the switch cannot hold unless the switch was made.     *)
LEMMA TookKeeps == ASSUME J, Took PROVE J'
<1> USE DEF J
<1>1. pc = "took" /\ pc' = "restore" /\ ReadBack(Partner(orig))
  BY DEF Took, Goto
<1>2. Partner(orig) \in Modes /\ Partner(orig) # orig
  BY PartnerIsOther DEF Types
<1>3. /\ good' => good /\ mode = Partner(orig)
      /\ lost' \in Nat /\ lost' <= MaxLost
      /\ UNCHANGED <<mode, tokens, idle, same, READ, WRITE, orig, verdict, chosen, probes,
                     switch, reports, restarts>>
  BY <1>1, <1>2, ReadBackFacts
<1>4. Types'
  BY <1>1, <1>3 DEF Types
<1>5. OneProbe' /\ Opened' /\ InForce'
  BY <1>1, <1>3 DEF OneProbe, Opened, InForce, Probing, Partner
<1>6. Evidence'
  BY <1>1, <1>2, <1>3 DEF Opened, InForce, Evidence
<1> QED
  BY <1>4, <1>5, <1>6

(* The restore undoes the switch or leaves it stuck.                       *)
LEMMA RestoreKeeps == ASSUME J, Restore PROVE J'
<1> USE DEF J
<1>1. /\ pc = "restore" /\ pc' = "restored" /\ ProbeSet(orig) /\ orig \in Modes
      /\ switch' = IF switch # "made" THEN switch
                   ELSE IF mode' = orig THEN "undone" ELSE "stuck"
  BY DEF Restore, Goto, Types
<1>2. /\ tokens' \in Nat /\ tokens' <= Burst /\ idle' \in Nat /\ idle' <= Burst
      /\ mode' = orig \/ mode' = mode
      /\ mode' \in Modes
      /\ lost' \in Nat /\ lost' <= MaxLost
      /\ good' => good
      /\ UNCHANGED <<same, READ, WRITE, orig, verdict, chosen, probes, reports, restarts>>
  BY <1>1, ProbeSetFacts
<1>3. Types'
  BY <1>1, <1>2 DEF Types
<1>4. OneProbe' /\ Opened'
  BY <1>1, <1>2 DEF OneProbe, Opened, Probing
<1>5. InForce' /\ Evidence'
  BY <1>1, <1>2 DEF InForce, Evidence, Opened
<1> QED
  BY <1>3, <1>4, <1>5

(* The read-back of the restore cannot hold while the switch is stuck.     *)
LEMMA RestoredKeeps == ASSUME J, Restored PROVE J'
<1> USE DEF J
<1>1. pc = "restored" /\ pc' = "store" /\ ReadBack(orig) /\ orig \in Modes
  BY DEF Restored, Goto, Types
<1>2. /\ good' => good /\ mode = orig
      /\ lost' \in Nat /\ lost' <= MaxLost
      /\ UNCHANGED <<mode, tokens, idle, same, READ, WRITE, orig, verdict, chosen, probes,
                     switch, reports, restarts>>
  BY <1>1, ReadBackFacts
<1>3. Types'
  BY <1>1, <1>2 DEF Types
<1>4. OneProbe' /\ Opened' /\ InForce'
  BY <1>1, <1>2 DEF OneProbe, Opened, InForce, Probing, Partner
<1>5. Evidence'
  BY <1>1, <1>2 DEF InForce, Evidence
<1> QED
  BY <1>3, <1>4, <1>5

(* The verdict is cached, good or bad, and is never probed for again.      *)
LEMMA StoreKeeps == ASSUME J, Store PROVE J'
<1> USE DEF J
<1>1. /\ pc = "store" /\ pc' = "idle" /\ WRITE' \in {"OK", "FAILED"}
      /\ verdict' \in {"Verified", "ReadOnly"}
      /\ UNCHANGED <<mode, tokens, idle, same, READ, orig, good, chosen, probes, switch,
                     reports, lost, restarts>>
  BY DEF Store, Return, Goto, Answered, Stay, service, history
<1>2. Types'
  BY <1>1 DEF Types
<1>3. OneProbe' /\ Opened' /\ InForce' /\ Evidence'
  BY <1>1 DEF OneProbe, Opened, InForce, Evidence, Probing, Partner
<1> QED
  BY <1>2, <1>3

(* The rest of the system changes the mode only by a choice that is known. *)
LEMMA WorldKeeps ==
  ASSUME J, Tick \/ Replace \/ \E m \in Modes : UserSets(m)
  PROVE  J'
<1> USE DEF J
<1>1. UNCHANGED <<READ, WRITE, pc, orig, good, verdict, probes, switch, reports, lost>>
  BY DEF Tick, Replace, UserSets, local, history, bounds
<1>2. chosen' \/ (chosen' = chosen /\ mode' = mode)
  BY DEF Tick, Replace, UserSets, history
<1>3. Types'
  <2>1. CASE Tick
    BY <1>1, <2>1, Constants DEF Tick, Types, bounds
  <2>2. CASE Replace
    BY <1>1, <2>2, Constants DEF Replace, Types
  <2>3. ASSUME NEW m \in Modes, UserSets(m) PROVE Types'
    BY <1>1, <2>3, SetFacts DEF UserSets, Types, bounds
  <2> QED
    BY <2>1, <2>2, <2>3
<1>4. OneProbe' /\ Opened'
  BY <1>1 DEF OneProbe, Opened
<1>5. InForce' /\ Evidence'
  BY <1>1, <1>2 DEF InForce, Evidence, Partner
<1> QED
  BY <1>3, <1>4, <1>5

(* One step of the ladder, the user or the service keeps all of it.        *)
LEMMA StepIInv == IInv /\ [Next]_vars => IInv'
<1> SUFFICES ASSUME IInv, [Next]_vars PROVE IInv'
  OBVIOUS
<1>1. Flags /\ J
  BY TypesIsTypeOK DEF IInv, J
<1>2. J'
  <2>1. CASE UNCHANGED vars
    <3>1. UNCHANGED <<mode, tokens, idle, READ, WRITE, pc, orig, good, verdict, chosen,
                      probes, switch, reports, lost, restarts>>
      BY <2>1 DEF vars, service, local, history, bounds
    <3> QED
      BY <1>1, <3>1 DEF J, Types, OneProbe, Opened, InForce, Evidence, Partner
  <2> QED
    BY <1>1, <2>1, VerdictKeeps, CurrentKeeps, SetOtherKeeps, TookKeeps, RestoreKeeps,
       RestoredKeeps, StoreKeeps, WorldKeeps DEF Next
<1>3. Flags' /\ (TypeOK' <=> Flags' /\ Types')
  BY <1>1, FlagsStep, TypesIsTypeOK, PTL
<1> QED
  BY <1>2, <1>3 DEF IInv, J

(* Probe, verdict and mode fit together in every reachable state.          *)
THEOREM IInvHolds == Spec => []IInv
  BY InitIInv, StepIInv, PTL DEF Spec

(* Every variable keeps its type, and no build is compared before a read.  *)
THEOREM TypeCorrect == Spec => []TypeOK
  BY IInvHolds, PTL DEF IInv

(* probe_write never reports a switch and a restore that did not happen.   *)
THEOREM ProofIsReal == Spec => []VerifiedIsProven
<1>1. IInv => VerifiedIsProven
  BY DEF IInv, Evidence, InForce, VerifiedIsProven
<1> QED
  BY <1>1, IInvHolds, PTL

(* write_ok probes the machine at most once in the life of the process.    *)
THEOREM OnlyOneProbe == Spec => []ProbedOnce
  BY IInvHolds, PTL DEF IInv, OneProbe, ProbedOnce

(* probe_write always attempts the restore, and what it undid stays undone. *)
THEOREM RestoresMode == Spec => []NeverLeftSwitched
<1>1. IInv => NeverLeftSwitched
  BY DEF IInv, Opened, InForce, NeverLeftSwitched
<1> QED
  BY <1>1, IInvHolds, PTL
=============================================================================
