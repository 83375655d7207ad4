------------------------------- MODULE Supply -------------------------------
(***************************************************************************)
(* One pinned build tool on its way from a frozen lock to a blessed digest *)
(* and on under the weekly watch: the commits of a branch and of main, the *)
(* producer (build-tools), the gate (candidate-eval) and the monitor       *)
(* (supply-chain-monitor).  A digest is named by the revision and the lock *)
(* it was built from; the empty lock is that of the zero digest, and of a  *)
(* tree without a frozen lock.                                             *)
(***************************************************************************)
EXTENDS Advisories

CONSTANTS Upstream,   \* the lock the tool's own repository commits, for each revision
          MaxMerges,  \* the bound of the model
          Locks       \* the locks cargo update may make of it

VARIABLES main, branch,   \* two trees: the frozen lock, the pin and its evidence
          built,          \* the producer's last digest
          gate,           \* did the gate pass the branch as it stands?
          vouched,        \* was main's digest gated on the lock it was built from?
          auditor,        \* does the auditor still find what there is?
          watch,          \* did the monitor pass main as it stands?
          merges
supplyVars == <<db, main, branch, built, gate, vouched, auditor, watch, merges>>

Zero == [rev |-> "none", lock |-> {}]
Resolved(t) == IF t.frozen # {} THEN t.frozen ELSE Upstream[t.rev]
(* xtask canary: the auditor is given a lock whose advisory can never be   *)
(* fixed; only a failure that names it shows that the auditor detects.     *)
Detects == auditor = "live"
Audit(lock) == IF Detects THEN Instances(lock) ELSE {}
(* A pin is a revision and a digest; a change of either is a candidate.    *)
Candidate == branch.sha # main.sha \/ branch.rev # main.rev

(* The monitor compares instances, never bare advisories. *)
NewlyKnown(t) == Audit(Resolved(t)) \ t.base

(* After the last merge of the bounded model no branch is prepared.        *)
Edit(t) == /\ merges < MaxMerges /\ branch' = t /\ gate' = FALSE
           /\ UNCHANGED <<db, main, built, vouched, auditor, watch, merges>>

(* The advisory database grows. *)
Advise == /\ \E id \in Ids \ db : db' = db \cup {id}
          /\ watch' = FALSE /\ UNCHANGED <<main, branch, built, gate, vouched, auditor, merges>>

(* The update of the auditor's own database or binary can blind it.        *)
Blind == /\ auditor = "live" /\ auditor' = "blind" /\ watch' = FALSE
         /\ UNCHANGED <<db, main, branch, built, gate, vouched, merges>>

(* Refused unless it was asked for: an advisory the tool's own lock, at    *)
(* the same state of the database, does not have.                          *)
NoRegression(after, allow) ==
  allow \/ Genuine(Audit(Upstream[branch.rev]), Audit(after)) = {}

(* xtask freeze from the tool's own lock: v replaces cur, and whatever its *)
(* requirements force with it.  A dry run writes nothing, and a run with   *)
(* another clock or soak has to be dry.                                    *)
Freeze(cur, v, after, allow) ==
  /\ cur \in Upstream[branch.rev] /\ CheckTarget(v) /\ v \in after \ {cur}
  /\ NoRegression(after, allow)
  /\ Edit([branch EXCEPT !.frozen = after])

(* build-tools: the canary, then the build with the branch's lock.         *)
Build == /\ merges < MaxMerges /\ Detects
         /\ built' = [rev |-> branch.rev, lock |-> Resolved(branch)]
         /\ UNCHANGED <<db, main, branch, gate, vouched, auditor, watch, merges>>

(* A new pin has the zero digest until the producer's is committed.        *)
Bump == \E r \in DOMAIN Upstream \ {branch.rev} :
          Edit([branch EXCEPT !.rev = r, !.sha = Zero, !.base = {}, !.mal = "none", !.caps = "none"])
(* Or the commit moves the revision and forgets the digest.                *)
Repin == \E r \in DOMAIN Upstream \ {branch.rev} : Edit([branch EXCEPT !.rev = r])

(* The produced digest is committed with the baseline of its lock; the     *)
(* records and sign-offs of another digest do not speak for it.            *)
Bless == /\ built # Zero /\ built # main.sha
         /\ Edit([branch EXCEPT !.sha = built, !.base = Audit(Resolved(branch)),
                    !.mal = "none", !.caps = "none"])
(* The two records are independent; the model takes one before the other.  *)
Record == \/ \E m \in {"clean", "flagged", "unnamed"} :
               branch.mal = "none" /\ Edit([branch EXCEPT !.mal = m])
          \/ MalVerdict(branch) /\ branch.caps = "none" /\ Edit([branch EXCEPT !.caps = "toml"])

(* Sign-offs, one line each, for what the gate or the monitor reports.     *)
Reported == (IF Candidate THEN Audit(Resolved(branch)) ELSE {})
            \cup NewlyKnown(main)
Sign == \/ \E i \in Reported \ branch.acks :
             Edit([branch EXCEPT !.acks = @ \cup {i}])
        \/ branch.mal = "flagged" /\ Edit([branch EXCEPT !.mal = "signed"])
        \/ branch.caps = "toml" /\ Edit([branch EXCEPT !.caps = "signed"])

(* gate::run, after the canary; both locks are scanned at one state of the *)
(* database.  A scan or a fetch that fails, a sign-off without its reason  *)
(* or that is no JSON leaves the branch without a pass, as does not        *)
(* running the gate.                                                       *)
GatePasses == Candidate =>
  /\ branch.sha # Zero
  /\ VulnVerdict(Audit(Resolved(main)), Audit(Resolved(branch)), branch.acks)
  /\ MalVerdict(branch) /\ CapsVerdict(branch)
Gate == /\ merges < MaxMerges /\ ~gate /\ Detects /\ GatePasses /\ gate' = TRUE
        /\ UNCHANGED <<db, main, branch, built, vouched, auditor, watch, merges>>

(* A change to the locks alone starts no candidate evaluation.             *)
Merge == /\ branch # main /\ merges < MaxMerges /\ merges' = merges + 1
         /\ gate \/ branch = [main EXCEPT !.frozen = branch.frozen]
         /\ main' = branch /\ gate' = FALSE /\ watch' = FALSE /\ built' = Zero
         /\ vouched' = IF Candidate THEN Resolved(branch) = branch.sha.lock ELSE vouched
         /\ UNCHANGED <<db, branch, auditor>>

(* monitor-vuln, without a canary of its own, and toolchain-advisories;    *)
(* what cannot be evaluated is no pass here either.                        *)
MonitorPasses(feed) == /\ main.sha # Zero /\ NewlyKnown(main) \subseteq main.acks
                       /\ ToolchainClean(feed)
Monitor == /\ \E feed \in Feeds : watch' \in {FALSE, MonitorPasses(feed)}
           /\ UNCHANGED <<db, main, branch, built, gate, vouched, auditor, merges>>

(* Bootstrapped: main's digest has a baseline and records, and no sign-off.*)
SupplyInit ==
  /\ db \in SUBSET Ids /\ auditor = "live"
  /\ \E r \in DOMAIN Upstream :
       main = [frozen |-> {}, rev |-> r, sha |-> [rev |-> r, lock |-> Upstream[r]], acks |-> {},
               base |-> Instances(Upstream[r]), mal |-> "clean", caps |-> "toml"]
  /\ branch = main /\ built = Zero /\ gate = FALSE /\ vouched = FALSE /\ watch = FALSE /\ merges = 0
SupplyIdle == /\ db = {} /\ auditor = "idle" /\ built = Zero
              /\ main = "none" /\ branch = main /\ gate = FALSE /\ vouched = FALSE /\ watch = FALSE /\ merges = 0

SupplyNext == Advise \/ Blind \/ Build \/ Bump \/ Repin \/ Bless \/ Record \/ Sign \/ Gate
              \/ Merge \/ Monitor
              \/ \E cur, v \in Releases, after \in Locks, allow \in BOOLEAN :
                   Freeze(cur, v, after, allow)

(* Once a digest went through the gate, on the lock it was built from, a   *)
(* monitor run that passes means every known instance in it is signed,     *)
(* whatever the recorded baseline forgives: what stood in the baseline was *)
(* known at the bless, so the gate asked for it.  And on the other two     *)
(* axes there are records about these bytes that the gate accepts, which   *)
(* on the detections is less than a sign-off of each (MalVerdict).         *)
NothingUnsigned ==
  vouched => /\ MalVerdict(main) /\ CapsVerdict(main)
             /\ watch /\ auditor = "live" /\ Resolved(main) = main.sha.lock
                  => Instances(Resolved(main)) \subseteq main.acks
=============================================================================
