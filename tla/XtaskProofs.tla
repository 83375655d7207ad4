---------------------------- MODULE XtaskProofs ----------------------------
(***************************************************************************)
(* Xtask for every crate, advisory database, lock, image and import graph, *)
(* and any number of runs.  A behaviour follows one command, so each       *)
(* command has an invariant of its own, kept by its own steps and by those *)
(* that leave its variables alone.                                         *)
(***************************************************************************)
EXTENDS Xtask, SequenceTheorems, FiniteSetTheorems, TLAPS

(* explore: the day of the weekly run that falls in the window of v; there *)
(* is one and only one.                                                    *)
Window(v, t) == /\ t % Cadence = 0
                /\ Published[v] + Soak <= t /\ t < Published[v] + Soak + Cadence
Over(t) == t < today \/ (t = today /\ reported)
Overtaken(v) == \E w \in Releases \ (Pre \cup Undated) :
  w > v /\ Line[w] = Line[v] /\ Published[w] < Published[v] + Cadence

ExploreTypes == /\ today \in Nat /\ reported \in BOOLEAN /\ shouted \in [Releases -> {0, 1}]
ShoutedInWindow == \A v \in Releases : shouted[v] = 1 => \E t \in Nat : Window(v, t) /\ Over(t)
WindowShouts == \A v \in Releases, t \in Nat :
  /\ Window(v, t) /\ Over(t) /\ ~missed
  /\ Resident \notin Pre /\ v > Resident /\ v \notin Pre \cup Undated \cup yanked
  => shouted[v] = 1 \/ Overtaken(v)
Announcements == IF command = "explore" THEN ExploreTypes /\ ShoutedInWindow /\ WindowShouts
                 ELSE missed /\ shouted = [v \in Releases |-> 0]

(* gate, freeze and monitor: what a baseline forgives was known when it    *)
(* was taken.                                                              *)
IsTree(t) == t = [frozen |-> t.frozen, rev |-> t.rev, sha |-> t.sha, acks |-> t.acks,
                  base |-> t.base, mal |-> t.mal, caps |-> t.caps]
BaseKnown(t) == \A i \in t.base : i.id \in db
(* A digest that stands for the lock it names, with its forgiven instances *)
(* signed and its records in order.                                        *)
InOrder(t) == /\ t.sha # Zero /\ MalVerdict(t) /\ CapsVerdict(t)
Forgiven(t, lock) == t.base \cap Instances(lock) \subseteq t.acks
(* What the gate found stays true of the branch as long as it stands.      *)
GateSaw == gate /\ Candidate => InOrder(branch) /\ Forgiven(branch, Resolved(branch))
Vouched == vouched => InOrder(main) /\ Forgiven(main, main.sha.lock)
(* A branch of the same digest only ever adds sign-offs.                   *)
SameDigest == vouched /\ branch.sha = main.sha => /\ main.acks \subseteq branch.acks
  /\ branch.base = main.base /\ branch.mal = main.mal /\ branch.caps = main.caps
Watched == watch /\ auditor = "live" => Instances(Resolved(main)) \ main.base \subseteq main.acks
Chain == IF command = "gate"
         THEN /\ IsTree(main) /\ IsTree(branch) /\ BaseKnown(main) /\ BaseKnown(branch)
              /\ GateSaw /\ Vouched /\ SameDigest /\ Watched
         ELSE ~vouched

(* verify-artifact: the digests that the jobs hand on are those of the     *)
(* image this build stamped.                                               *)
Dated(e) == /\ ~e.signed /\ e.coff = Epoch
            /\ \A d \in e.debug : d.type # "repro" /\ (d.type = "null" \/ d.ts = Epoch)
SignedForm(e) == [e EXCEPT !.signed = signing]
Digests == IF command = "verify-artifact"
  THEN /\ outputs = [build |-> outputs.build, sign |-> outputs.sign] /\ signing \in BOOLEAN
       /\ stage = "attested" => exe \in Images
       /\ stage = "stamped" => \E i \in Images : exe = Stamped(i)
       /\ stage \in {"staged", "uploaded", "sealed", "verified"} =>
            \E i \in Images, p \in Pdbs :
              /\ outputs.build = {[exe |-> Stamped(i), pdb |-> p]}
              /\ stage \in {"sealed", "verified"} =>
                   outputs.sign = {[exe |-> SignedForm(Stamped(i)), pdb |-> p]}
       /\ stage \in {"attested", "stamped"} => pdb \in Pdbs
       /\ stage = "verified" => outputs.sign = {Bytes} /\ VerifyArtifact(exe, pdb, manifest)
  ELSE stage = "idle"

(* audit-dll-closure: what is seen or queued is reached, and what is       *)
(* reached is seen or queued, or will be from there.                       *)
Elements(s) == {s[k] : k \in DOMAIN s}
Queued == Elements(queue)
Every == [d \in Dlls |-> graph.regular[d] \cup graph.delay[d]]
AtLoad == [d \in Dlls |-> graph.regular[d]]
Met == visited \cup {e.dll : e \in Queued}
Walked == IF command = "audit-dll-closure"
  THEN /\ graph \in ImportGraphs /\ queue \in Seq([dll : Dlls, pre : BOOLEAN])
       /\ visited \subseteq Dlls /\ flagged \subseteq [dll : Dlls, pre : BOOLEAN]
       /\ Met \subseteq Reach(Own, Every) /\ Own \subseteq Met
       /\ \A d \in visited \ Exempt : Every[d] \subseteq Met
       /\ \A e \in Queued \cup flagged :
            e.pre => e.dll \in Reach(graph.regular["exe"], AtLoad)
       /\ {f.dll : f \in flagged} = visited \ (Exempt \cup Own)
       /\ \A f, g \in flagged : f.dll = g.dll => f = g
  ELSE visited = {}

(* vsa-spike: where the command stands, and what can then be put back.     *)
TrialTypes == /\ account \in {Home, Virtual} /\ snapshot \in {"none", Home}
              /\ pc # "idle" => original = Home
Stands == \/ refused
          \/ /\ pc = "snapshot" => account = Home
             /\ pc \in {"change", "restart", "exercise", "putBack"} => snapshot = Home
             /\ pc \in {"restartBack", "forget"} => account = Home
Trial == TrialTypes /\ Stands /\ AccountRecoverable

IInv == Announcements /\ Chain /\ Digests /\ Walked /\ Trial
-----------------------------------------------------------------------------
(* The window is as wide as the schedule's step: one run falls into it ... *)
LEMMA SomeRun == ASSUME NEW v \in Releases PROVE \E t \in Nat : Window(v, t)
<1> DEFINE n == Published[v] + Soak
           q == n \div Cadence
<1>1. n \in Nat /\ Cadence \in Nat \ {0}
  BY Policy
<1> HIDE DEF n
<1>2. q \in Nat /\ n = Cadence * q + (n % Cadence) /\ n % Cadence \in 0 .. Cadence - 1
  BY <1>1
<1>3. CASE n % Cadence = 0
  BY <1>1, <1>3 DEF Window, n
<1>4. CASE n % Cadence # 0
  <2> DEFINE t == n - (n % Cadence) + Cadence
  <2> HIDE DEF q
  <2>1. t \in Nat /\ n <= t /\ t < n + Cadence
    BY <1>1, <1>2, <1>4
  <2>2. t = Cadence * (q + 1)
    BY <1>1, <1>2
  <2>3. \A k \in Nat : (Cadence * k) % Cadence = 0
    BY <1>1
  <2>4. t % Cadence = 0
    BY <1>2, <2>2, <2>3
  <2> HIDE DEF t
  <2> QED
    BY <2>1, <2>4 DEF Window, n
<1> QED
  BY <1>3, <1>4

(* ... and no second one.                                                  *)
LEMMA OneRun == ASSUME NEW v \in Releases, NEW t \in Nat, NEW u \in Nat, Window(v, t), Window(v, u)
                PROVE  t = u
<1>1. Cadence \in Nat \ {0} /\ Published[v] + Soak \in Nat
  BY Policy
<1>2. ASSUME NEW a \in Nat, NEW b \in Nat, a % Cadence = 0, b % Cadence = 0,
             a <= b, b < a + Cadence
      PROVE  a = b
  <2> DEFINE k == a \div Cadence  m == b \div Cadence
  <2>1. k \in Nat /\ m \in Nat /\ a = Cadence * k /\ b = Cadence * m
    BY <1>1, <1>2
  <2> HIDE DEF k, m
  <2>2. m < k + 1
    BY <1>1, <1>2, <2>1
  <2>3. k <= m
    BY <1>1, <1>2, <2>1
  <2> QED
    BY <2>1, <2>2, <2>3
<1> QED
  BY <1>1, <1>2 DEF Window

(* Whether a window day has passed before the first of them is no question.*)
LEMMA AnnouncementsStart == Init => Announcements
<1> SUFFICES ASSUME Init PROVE Announcements
  OBVIOUS
<1>1. shouted = [v \in Releases |-> 0] /\ ~reported
  BY DEF Init, ExploreInit
<1>2. CASE command = "explore"
  <2>1. today = 0
    BY <1>2 DEF Init
  <2>2. ~\E t \in Nat : Over(t)
    BY <1>1, <2>1 DEF Over
  <2>3. reported \in BOOLEAN
    BY Zenon DEF Init, ExploreInit
  <2> QED
    BY <1>1, <1>2, <2>1, <2>2, <2>3 DEF Announcements, ExploreTypes, ShoutedInWindow, WindowShouts
<1>3. CASE command # "explore"
  BY <1>1, <1>3 DEF Init, Announcements
<1> QED
  BY <1>2, <1>3

(* A run in the window of a release announces it, or a newer one.          *)
LEMMA RunInWindow ==
  ASSUME NEW v \in Releases, today \in Nat, Window(v, today),
         Resident \notin Pre, v > Resident, v \notin Pre \cup Undated \cup yanked
  PROVE  v \in Announced(Resident) \/ Overtaken(v)
<1> USE Policy
<1>1. Age(v) = today - Published[v] /\ Soaked(v) /\ NewlySoaked(v)
  BY DEF Age, Soaked, NewlySoaked, Window
<1>2. v \in Newer(Resident)
  BY <1>1 DEF Newer, Window
<1>3. CASE v \in Representatives(Newer(Resident))
  BY <1>1, <1>3 DEF Announced
<1>4. CASE v \notin Representatives(Newer(Resident))
  <2>1. PICK w \in Newer(Resident) : Soaked(w) /\ Line[w] = Line[v] /\ ~(w <= v)
    BY <1>1, <1>2, <1>4 DEF Representatives
  <2>2. w \in Releases \ Pre
    BY <2>1 DEF Newer
  <2>3. w > v
    BY <2>1, <2>2
  <2>4. w \notin Undated /\ Published[w] + Soak <= today
    BY <2>1, <2>2 DEF Soaked, Age
  <2> QED
    BY <2>1, <2>2, <2>3, <2>4 DEF Overtaken, Window
<1> QED
  BY <1>3, <1>4

(* A release is announced on a day in its window only.                     *)
LEMMA AnnouncedInWindow ==
  ASSUME NEW v \in Announced(Resident), today \in Nat, today % Cadence = 0
  PROVE  v \in Releases /\ Window(v, today)
<1> USE Policy
<1>1. v \in Releases /\ Soaked(v) /\ NewlySoaked(v)
  BY DEF Announced, Representatives, Newer
<1> QED
  BY <1>1 DEF Soaked, NewlySoaked, Age, Window

(* The run of a day: it was not the second one in any window.              *)
LEMMA ExploreKeeps ==
  ASSUME ExploreTypes, ShoutedInWindow, WindowShouts, Explore
  PROVE  ExploreTypes' /\ ShoutedInWindow' /\ WindowShouts'
<1>1. /\ ~reported /\ today % Cadence = 0 /\ reported' /\ UNCHANGED <<today, yanked>>
      /\ missed => missed'
  BY DEF Explore
<1>2. today \in Nat /\ shouted \in [Releases -> {0, 1}]
  BY DEF ExploreTypes
<1>3. \A t \in Nat : Over(t)' <=> Over(t) \/ t = today
  BY <1>1, <1>2 DEF Over
<1>4. \A v, t : Window(v, t)' <=> Window(v, t)
  BY DEF Window
<1>5. \A v : Overtaken(v)' <=> Overtaken(v)
  BY DEF Overtaken
<1>6. CASE missed' /\ UNCHANGED shouted
  <2>1. ExploreTypes'
    BY <1>1, <1>6 DEF ExploreTypes
  <2>2. ShoutedInWindow'
    BY <1>3, <1>4, <1>6 DEF ShoutedInWindow
  <2> QED
    BY <1>6, <2>1, <2>2 DEF WindowShouts
<1>7. CASE /\ shouted' = [v \in Releases |-> shouted[v] + IF v \in Announced(Resident) THEN 1 ELSE 0]
           /\ UNCHANGED missed
  <2>1. ASSUME NEW v \in Announced(Resident)
        PROVE  v \in Releases /\ shouted[v] = 0 /\ shouted'[v] = 1 /\ Window(v, today)
    <3>1. v \in Releases /\ Window(v, today)
      BY <1>1, <1>2, AnnouncedInWindow
    <3>2. shouted[v] # 1
      <4>1. SUFFICES ASSUME shouted[v] = 1 PROVE FALSE
        OBVIOUS
      <4>2. PICK t \in Nat : Window(v, t) /\ Over(t)
        BY <3>1, <4>1 DEF ShoutedInWindow
      <4>3. t = today
        BY <1>2, <3>1, <4>2, OneRun
      <4> QED
        BY <1>1, <1>2, <4>2, <4>3 DEF Over
    <3> QED
      BY <1>2, <1>7, <3>1, <3>2
  <2>2. \A v \in Releases : v \notin Announced(Resident) => shouted'[v] = shouted[v]
    BY <1>2, <1>7
  <2>3. ExploreTypes'
    <3>1. \A v \in Releases : shouted[v] + (IF v \in Announced(Resident) THEN 1 ELSE 0) \in {0, 1}
      BY <1>2, <2>1
    <3> QED
      BY <1>1, <1>2, <1>7, <3>1 DEF ExploreTypes
  <2>4. ShoutedInWindow'
    BY <1>2, <1>3, <1>4, <2>1, <2>2 DEF ShoutedInWindow
  <2>5. ASSUME NEW v \in Releases, NEW t \in Nat, Window(v, t), Over(t) \/ t = today, ~missed,
               Resident \notin Pre, v > Resident, v \notin Pre \cup Undated \cup yanked
        PROVE  shouted'[v] = 1 \/ Overtaken(v)
    <3>1. CASE v \in Announced(Resident)
      BY <2>1, <3>1
    <3>2. CASE v \notin Announced(Resident) /\ t = today
      BY <1>2, <2>5, <3>2, RunInWindow
    <3>3. CASE v \notin Announced(Resident) /\ Over(t)
      BY <2>2, <2>5, <3>3 DEF WindowShouts
    <3> QED
      BY <2>5, <3>1, <3>2, <3>3
  <2>6. WindowShouts'
    BY <1>1, <1>3, <1>4, <1>5, <1>7, <2>5 DEF WindowShouts
  <2> QED
    BY <2>3, <2>4, <2>6
<1> QED
  BY <1>6, <1>7 DEF Explore

(* The command's steps.                                                    *)
LEMMA AnnouncementsStep ==
  Announcements /\ command = "explore" /\ UNCHANGED command /\ ExploreNext => Announcements'
<1> SUFFICES ASSUME ExploreTypes, ShoutedInWindow, WindowShouts, ExploreNext
             PROVE  ExploreTypes' /\ ShoutedInWindow' /\ WindowShouts'
  BY DEF Announcements
<1>1. CASE Explore
  BY <1>1, ExploreKeeps
<1>2. CASE NextDay
  <2>1. /\ today \in Nat /\ today' = today + 1 /\ ~reported'
        /\ today % Cadence = 0 => reported
        /\ UNCHANGED <<yanked, shouted, missed>>
    BY <1>2 DEF NextDay, ExploreTypes
  <2>2. ExploreTypes'
    <3>1. reported' \in BOOLEAN
      BY <1>2, Zenon DEF NextDay
    <3> QED
      BY <2>1, <3>1 DEF ExploreTypes
  <2>3. \A v \in Releases, t \in Nat : Window(v, t) => (Over(t)' <=> Over(t))
    BY <2>1 DEF Over, Window
  <2>4. \A v, t : Window(v, t)' <=> Window(v, t)
    BY DEF Window
  <2> QED
    BY <2>1, <2>2, <2>3, <2>4 DEF ShoutedInWindow, WindowShouts, Overtaken
<1>3. CASE \E v \in Releases : Yank(v)
  <2>1. yanked \subseteq yanked' /\ UNCHANGED <<today, reported, shouted, missed>>
    BY <1>3 DEF Yank
  <2> QED
    BY <2>1 DEF ExploreTypes, ShoutedInWindow, WindowShouts, Overtaken, Window, Over
<1> QED
  BY <1>1, <1>2, <1>3 DEF ExploreNext

(* Another command changes none of it.                                     *)
LEMMA AnnouncementsKept == Announcements /\ UNCHANGED <<command, exploreVars>> => Announcements'
  BY DEF exploreVars, Announcements, ExploreTypes, ShoutedInWindow, WindowShouts, Overtaken,
     Window, Over

(* Once the window is over its run is over, too.                           *)
LEMMA AnnouncementsSay == Announcements => SoakShoutedOnce
<1> SUFFICES ASSUME Announcements, NEW v \in Releases
             PROVE  /\ shouted[v] <= 1
                    /\ Resident \notin Pre /\ v > Resident /\ v \notin Pre \cup Undated \cup yanked
                       /\ Age(v) >= Soak + Cadence /\ ~missed => shouted[v] = 1 \/ Overtaken(v)
  BY DEF SoakShoutedOnce, Overtaken
<1>1. CASE command = "explore"
  <2>1. shouted[v] <= 1
    BY <1>1 DEF Announcements, ExploreTypes
  <2>2. ASSUME Resident \notin Pre, v > Resident, v \notin Pre \cup Undated \cup yanked,
               Age(v) >= Soak + Cadence, ~missed
        PROVE  shouted[v] = 1 \/ Overtaken(v)
    <3>1. PICK t \in Nat : Window(v, t)
      BY SomeRun
    <3>2. Over(t)
      BY <1>1, <2>2, <3>1, Policy DEF Announcements, ExploreTypes, Window, Over, Age
    <3> QED
      BY <1>1, <2>2, <3>1, <3>2 DEF Announcements, WindowShouts
  <2> QED
    BY <2>1, <2>2
<1>2. CASE command # "explore"
  BY <1>2 DEF Announcements
<1> QED
  BY <1>1, <1>2

-----------------------------------------------------------------------------
(* At first nothing went through the gate, and main's baseline is of the   *)
(* database as it stands.                                                  *)
LEMMA ChainStarts == Init => Chain
<1> SUFFICES ASSUME Init PROVE Chain
  OBVIOUS
<1>1. CASE command = "gate"
  <2>1. SupplyInit
    BY <1>1 DEF Init
  <2>2. PICK r \in DOMAIN Upstream :
          main = [frozen |-> {}, rev |-> r, sha |-> [rev |-> r, lock |-> Upstream[r]], acks |-> {},
                  base |-> Instances(Upstream[r]), mal |-> "clean", caps |-> "toml"]
    BY <2>1 DEF SupplyInit
  <2>3. branch = main /\ ~gate /\ ~vouched /\ ~watch
    BY <2>1 DEF SupplyInit
  <2>4. IsTree(main) /\ main.base = Instances(Upstream[r])
    BY <2>2 DEF IsTree
  <2>5. BaseKnown(main)
    BY <2>4 DEF BaseKnown, Instances
  <2> QED
    BY <1>1, <2>3, <2>4, <2>5 DEF Chain, GateSaw, Vouched, SameDigest, Watched
<1>2. CASE command # "gate"
  BY <1>2 DEF Init, SupplyIdle, Chain
<1> QED
  BY <1>1, <1>2

(* The advisory database only grows, so a forgiven instance was an         *)
(* instance when it was recorded and is one ever after.                    *)
LEMMA ForgivenStays ==
  ASSUME NEW t, NEW lock, BaseKnown(t), db \subseteq db', Forgiven(t, lock)
  PROVE  t.base \cap Instances(lock)' \subseteq t.acks
<1> SUFFICES ASSUME NEW i \in t.base, i \in Instances(lock)' PROVE i \in Instances(lock)
  BY DEF Forgiven
<1> QED
  BY DEF BaseKnown, Instances

(* A change of the branch alone: the gate has to see it again.             *)
LEMMA EditKeeps ==
  ASSUME Chain, command = "gate", command' = command, NEW t, Edit(t),
         IsTree(t), BaseKnown(t),
         vouched /\ t.sha = main.sha =>
           main.acks \subseteq t.acks /\ t.base = main.base /\ t.mal = main.mal /\ t.caps = main.caps
  PROVE  Chain'
<1>1. branch' = t /\ ~gate' /\ UNCHANGED <<db, main, vouched, auditor, watch>>
  BY DEF Edit
<1>2. IsTree(main)' /\ IsTree(branch)' /\ BaseKnown(main)' /\ BaseKnown(branch)'
  BY <1>1 DEF Chain, IsTree, BaseKnown
<1>3. GateSaw'
  BY <1>1 DEF GateSaw
<1>4. Vouched'
  BY <1>1 DEF Chain, Vouched, InOrder, MalVerdict, CapsVerdict, Forgiven, Instances
<1>5. SameDigest'
  BY <1>1 DEF SameDigest, Candidate
<1>6. Watched'
  BY <1>1 DEF Chain, Watched, Resolved, Instances
<1> QED
  BY <1>1, <1>2, <1>3, <1>4, <1>5, <1>6 DEF Chain

(* A digest main vouches for has its records: the branch that shares it    *)
(* can neither record nor sign a finding about it again, whatever revision *)
(* it names beside it.                                                     *)
LEMMA SharedRecords ==
  ASSUME Chain, command = "gate", vouched, branch.sha = main.sha
  PROVE  /\ main.acks \subseteq branch.acks /\ branch.base = main.base
         /\ branch.mal = main.mal /\ branch.caps = main.caps
         /\ branch.mal \in {"clean", "signed", "unnamed"} /\ branch.caps = "signed" /\ main.sha # Zero
  BY DEF Chain, SameDigest, Candidate, Vouched, InOrder, MalVerdict, CapsVerdict

(* A digest that is replaced starts without records.                       *)
LEMMA Renewed ==
  ASSUME NEW t, IsTree(t), NEW s, NEW b
  PROVE  [t EXCEPT !.sha = s, !.base = b, !.mal = "none", !.caps = "none"]
           = [frozen |-> t.frozen, rev |-> t.rev, sha |-> s, acks |-> t.acks, base |-> b,
              mal |-> "none", caps |-> "none"]
<1> DEFINE R(f, h, a, o, m, c) ==
      [frozen |-> f, rev |-> t.rev, sha |-> h, acks |-> a, base |-> o, mal |-> m, caps |-> c]
<1>1. [t EXCEPT !.sha = s, !.base = b, !.mal = "none", !.caps = "none"]
        = [[[[t EXCEPT !.sha = s] EXCEPT !.base = b] EXCEPT !.mal = "none"] EXCEPT !.caps = "none"]
  OBVIOUS
<1> HIDE DEF R
<1>2. [[[[t EXCEPT !.sha = s] EXCEPT !.base = b] EXCEPT !.mal = "none"] EXCEPT !.caps = "none"]
        = R(t.frozen, s, t.acks, b, "none", "none")
  <2>1. [t EXCEPT !.sha = s] = R(t.frozen, s, t.acks, t.base, t.mal, t.caps)
    BY DEF IsTree, R
  <2>2. [R(t.frozen, s, t.acks, t.base, t.mal, t.caps) EXCEPT !.base = b]
          = R(t.frozen, s, t.acks, b, t.mal, t.caps)
    BY DEF R
  <2>3. [R(t.frozen, s, t.acks, b, t.mal, t.caps) EXCEPT !.mal = "none"]
          = R(t.frozen, s, t.acks, b, "none", t.caps)
    BY DEF R
  <2>4. [R(t.frozen, s, t.acks, b, "none", t.caps) EXCEPT !.caps = "none"]
          = R(t.frozen, s, t.acks, b, "none", "none")
    BY DEF R
  <2> QED
    BY <2>1, <2>2, <2>3, <2>4
<1> QED
  BY <1>1, <1>2 DEF R

(* The steps that only touch the branch.                                   *)
LEMMA EditsKeep ==
  ASSUME Chain, command = "gate", command' = command,
         \/ Bump \/ Repin \/ Bless \/ Record \/ Sign
         \/ \E cur, v \in Releases, after \in Locks, allow \in BOOLEAN : Freeze(cur, v, after, allow)
  PROVE  Chain'
<1>0. IsTree(branch) /\ BaseKnown(branch)
  BY DEF Chain
<1>1. CASE \E cur, v \in Releases, after \in Locks, allow \in BOOLEAN : Freeze(cur, v, after, allow)
  <2>1. PICK after \in Locks : Edit([branch EXCEPT !.frozen = after])
    BY <1>1 DEF Freeze
  <2> DEFINE t == [branch EXCEPT !.frozen = after]
  <2>2. t = [frozen |-> after, rev |-> branch.rev, sha |-> branch.sha, acks |-> branch.acks, base |-> branch.base,
             mal |-> branch.mal, caps |-> branch.caps]
    BY <1>0 DEF IsTree
  <2> HIDE DEF t
  <2>3. IsTree(t) /\ BaseKnown(t)
    BY <1>0, <2>2 DEF IsTree, BaseKnown
  <2> QED
    BY <2>1, <2>2, <2>3, EditKeeps, SharedRecords DEF t
<1>2. CASE Bump
  <2>1. PICK r : Edit([branch EXCEPT !.rev = r, !.sha = Zero, !.base = {},
                         !.mal = "none", !.caps = "none"])
    BY <1>2 DEF Bump
  <2> DEFINE u == [branch EXCEPT !.rev = r]
             t == [u EXCEPT !.sha = Zero, !.base = {}, !.mal = "none", !.caps = "none"]
  <2>2. Edit(t)
    BY <2>1
  <2>3. u = [frozen |-> branch.frozen, rev |-> r, sha |-> branch.sha, acks |-> branch.acks,
             base |-> branch.base, mal |-> branch.mal, caps |-> branch.caps]
    BY <1>0 DEF IsTree
  <2> HIDE DEF u
  <2>4. IsTree(u)
    BY <2>3 DEF IsTree
  <2>5. t = [frozen |-> u.frozen, rev |-> u.rev, sha |-> Zero, acks |-> u.acks, base |-> {},
             mal |-> "none", caps |-> "none"]
    BY <2>4, Renewed
  <2> HIDE DEF t
  <2>6. IsTree(t) /\ BaseKnown(t)
    BY <2>5 DEF IsTree, BaseKnown
  <2>7. vouched => main.sha # Zero
    BY DEF Chain, Vouched, InOrder
  <2> QED
    BY <2>2, <2>5, <2>6, <2>7, EditKeeps
<1>6. CASE Repin
  <2>1. PICK r : Edit([branch EXCEPT !.rev = r])
    BY <1>6 DEF Repin
  <2> DEFINE t == [branch EXCEPT !.rev = r]
  <2>2. t = [frozen |-> branch.frozen, rev |-> r, sha |-> branch.sha, acks |-> branch.acks,
             base |-> branch.base, mal |-> branch.mal, caps |-> branch.caps]
    BY <1>0 DEF IsTree
  <2> HIDE DEF t
  <2>3. IsTree(t) /\ BaseKnown(t)
    BY <1>0, <2>2 DEF IsTree, BaseKnown
  <2> QED
    BY <2>1, <2>2, <2>3, EditKeeps, SharedRecords DEF t
<1>3. CASE Bless
  <2> DEFINE t == [branch EXCEPT !.sha = built, !.base = Audit(Resolved(branch)),
                     !.mal = "none", !.caps = "none"]
  <2>1. Edit(t) /\ built # main.sha
    BY <1>3 DEF Bless
  <2>2. t = [frozen |-> branch.frozen, rev |-> branch.rev, sha |-> built, acks |-> branch.acks,
             base |-> Audit(Resolved(branch)), mal |-> "none", caps |-> "none"]
    BY <1>0, Renewed
  <2> HIDE DEF t
  <2>3. IsTree(t) /\ BaseKnown(t)
    BY <2>2 DEF IsTree, BaseKnown, Audit, Instances
  <2> QED
    BY <2>1, <2>2, <2>3, EditKeeps
<1>4. CASE Record
  <2>1. CASE branch.mal = "none" /\ \E m \in {"clean", "flagged", "unnamed"} : Edit([branch EXCEPT !.mal = m])
    <3>1. PICK m : Edit([branch EXCEPT !.mal = m])
      BY <2>1
    <3> DEFINE t == [branch EXCEPT !.mal = m]
    <3>2. t = [frozen |-> branch.frozen, rev |-> branch.rev, sha |-> branch.sha, acks |-> branch.acks,
               base |-> branch.base, mal |-> m, caps |-> branch.caps]
      BY <1>0 DEF IsTree
    <3> HIDE DEF t
    <3>3. IsTree(t) /\ BaseKnown(t)
      BY <1>0, <3>2 DEF IsTree, BaseKnown
    <3> QED
      BY <2>1, <3>1, <3>2, <3>3, EditKeeps, SharedRecords DEF t
  <2>2. CASE branch.caps = "none" /\ Edit([branch EXCEPT !.caps = "toml"])
    <3> DEFINE t == [branch EXCEPT !.caps = "toml"]
    <3>2. t = [frozen |-> branch.frozen, rev |-> branch.rev, sha |-> branch.sha, acks |-> branch.acks,
               base |-> branch.base, mal |-> branch.mal, caps |-> "toml"]
      BY <1>0 DEF IsTree
    <3> HIDE DEF t
    <3>3. IsTree(t) /\ BaseKnown(t)
      BY <1>0, <3>2 DEF IsTree, BaseKnown
    <3> QED
      BY <2>2, <3>2, <3>3, EditKeeps, SharedRecords DEF t
  <2> QED
    BY <1>4, <2>1, <2>2 DEF Record
<1>5. CASE Sign
  <2>1. CASE \E i \in Reported \ branch.acks : Edit([branch EXCEPT !.acks = @ \cup {i}])
    <3>1. PICK i : Edit([branch EXCEPT !.acks = branch.acks \cup {i}])
      BY <2>1
    <3> DEFINE t == [branch EXCEPT !.acks = branch.acks \cup {i}]
    <3>2. t = [frozen |-> branch.frozen, rev |-> branch.rev, sha |-> branch.sha, acks |-> branch.acks \cup {i},
               base |-> branch.base, mal |-> branch.mal, caps |-> branch.caps]
      BY <1>0 DEF IsTree
    <3> HIDE DEF t
    <3>3. IsTree(t) /\ BaseKnown(t)
      BY <1>0, <3>2 DEF IsTree, BaseKnown
    <3>4. main.acks \subseteq branch.acks => main.acks \subseteq t.acks
      BY <3>2
    <3> QED
      BY <3>1, <3>2, <3>3, <3>4, EditKeeps, SharedRecords DEF t
  <2>2. CASE branch.mal = "flagged" /\ Edit([branch EXCEPT !.mal = "signed"])
    <3> DEFINE t == [branch EXCEPT !.mal = "signed"]
    <3>2. t = [frozen |-> branch.frozen, rev |-> branch.rev, sha |-> branch.sha, acks |-> branch.acks,
               base |-> branch.base, mal |-> "signed", caps |-> branch.caps]
      BY <1>0 DEF IsTree
    <3> HIDE DEF t
    <3>3. IsTree(t) /\ BaseKnown(t)
      BY <1>0, <3>2 DEF IsTree, BaseKnown
    <3> QED
      BY <2>2, <3>2, <3>3, EditKeeps, SharedRecords DEF t
  <2>3. CASE branch.caps = "toml" /\ Edit([branch EXCEPT !.caps = "signed"])
    <3> DEFINE t == [branch EXCEPT !.caps = "signed"]
    <3>2. t = [frozen |-> branch.frozen, rev |-> branch.rev, sha |-> branch.sha, acks |-> branch.acks,
               base |-> branch.base, mal |-> branch.mal, caps |-> "signed"]
      BY <1>0 DEF IsTree
    <3> HIDE DEF t
    <3>3. IsTree(t) /\ BaseKnown(t)
      BY <1>0, <3>2 DEF IsTree, BaseKnown
    <3> QED
      BY <2>3, <3>2, <3>3, EditKeeps, SharedRecords DEF t
  <2> QED
    BY <1>5, <2>1, <2>2, <2>3 DEF Sign
<1> QED
  BY <1>1, <1>2, <1>3, <1>4, <1>5, <1>6

(* A merge of another digest takes what the gate saw of the branch; one of *)
(* the same digest adds sign-offs at most.                                 *)
LEMMA MergeKeeps ==
  ASSUME Chain, command = "gate", command' = command, Merge
  PROVE  Chain'
<1>1. /\ main' = branch /\ branch' = branch /\ ~gate' /\ ~watch' /\ UNCHANGED <<db, auditor>>
      /\ gate \/ branch = [main EXCEPT !.frozen = branch.frozen]
      /\ vouched' = IF Candidate THEN Resolved(branch) = branch.sha.lock ELSE vouched
  BY DEF Merge
<1>2. IsTree(main)' /\ IsTree(branch)' /\ BaseKnown(main)' /\ BaseKnown(branch)'
  BY <1>1 DEF Chain, IsTree, BaseKnown
<1>3. SameDigest'
  BY <1>1 DEF SameDigest
<1>4. InOrder(branch)' = InOrder(branch)
      /\ \A lock : Forgiven(branch, lock)' = Forgiven(branch, lock)
  BY <1>1 DEF InOrder, MalVerdict, CapsVerdict, Forgiven, Instances
<1>5. vouched' => InOrder(branch) /\ Forgiven(branch, branch.sha.lock)
  <2>1. CASE Candidate
    <3>1. gate
      <4>1. SUFFICES ASSUME branch = [main EXCEPT !.frozen = branch.frozen] PROVE FALSE
        BY <1>1
      <4>2. /\ [main EXCEPT !.frozen = branch.frozen].sha = main.sha
            /\ [main EXCEPT !.frozen = branch.frozen].rev = main.rev
        BY DEF Chain, IsTree
      <4> QED
        BY <2>1, <4>1, <4>2 DEF Candidate
    <3> QED
      BY <1>1, <2>1, <3>1 DEF Chain, GateSaw
  <2>2. CASE ~Candidate
    <3> SUFFICES ASSUME vouched PROVE InOrder(branch) /\ Forgiven(branch, branch.sha.lock)
      BY <1>1, <2>2
    <3>1. branch.sha = main.sha
      BY <2>2 DEF Candidate
    <3>2. InOrder(main) /\ Forgiven(main, main.sha.lock)
      BY DEF Chain, Vouched
    <3> QED
      BY <3>1, <3>2, SharedRecords DEF InOrder, MalVerdict, CapsVerdict, Forgiven
  <2> QED
    BY <2>1, <2>2
<1>6. Vouched'
  BY <1>1, <1>4, <1>5 DEF Vouched, InOrder, MalVerdict, CapsVerdict, Forgiven, Instances
<1> QED
  BY <1>1, <1>2, <1>3, <1>6 DEF Chain, GateSaw, Watched

(* Neither a new advisory nor a blind auditor takes back what was found.   *)
LEMMA ChainStep == Chain /\ command = "gate" /\ UNCHANGED command /\ SupplyNext => Chain'
<1> SUFFICES ASSUME Chain, command = "gate", command' = command, SupplyNext PROVE Chain'
  OBVIOUS
<1>1. CASE Advise
  <2>1. db \subseteq db' /\ ~watch' /\ UNCHANGED <<main, branch, gate, vouched, auditor>>
    BY <1>1 DEF Advise
  <2>2. IsTree(main)' /\ IsTree(branch)' /\ BaseKnown(main)' /\ BaseKnown(branch)'
    BY <2>1 DEF Chain, IsTree, BaseKnown
  <2>3. GateSaw'
    BY <2>1, ForgivenStays
       DEF Chain, GateSaw, Candidate, InOrder, MalVerdict, CapsVerdict, Resolved, Forgiven
  <2>4. Vouched'
    BY <2>1, ForgivenStays DEF Chain, Vouched, InOrder, MalVerdict, CapsVerdict, Forgiven
  <2> QED
    BY <2>1, <2>2, <2>3, <2>4 DEF Chain, SameDigest, Candidate, Watched
<1>2. CASE Blind
  BY <1>2 DEF Blind, Chain, IsTree, BaseKnown, GateSaw, Vouched, SameDigest, Watched, Candidate,
     InOrder, MalVerdict, CapsVerdict, Resolved, Forgiven, Instances
<1>3. CASE Build
  BY <1>3 DEF Build, Chain, IsTree, BaseKnown, GateSaw, Vouched, SameDigest, Watched, Candidate,
     InOrder, MalVerdict, CapsVerdict, Resolved, Forgiven, Instances
<1>4. CASE Gate
  <2>1. gate' /\ Detects /\ GatePasses /\ UNCHANGED <<db, main, branch, vouched, auditor, watch>>
    BY <1>4 DEF Gate
  <2>2. Candidate => InOrder(branch) /\ Instances(Resolved(branch)) \subseteq branch.acks
    BY <2>1 DEF GatePasses, VulnVerdict, InOrder, Audit
  <2>3. GateSaw'
    BY <2>1, <2>2 DEF GateSaw, Candidate, InOrder, MalVerdict, CapsVerdict, Forgiven, Resolved,
       Instances
  <2> QED
    BY <2>1, <2>3 DEF Chain, IsTree, BaseKnown, Vouched, SameDigest, Watched, Candidate,
       InOrder, MalVerdict, CapsVerdict, Resolved, Forgiven, Instances
<1>5. CASE Merge
  BY <1>5, MergeKeeps
<1>6. CASE Monitor
  <2>1. /\ watch' => NewlyKnown(main) \subseteq main.acks
        /\ UNCHANGED <<db, main, branch, gate, vouched, auditor>>
    BY <1>6 DEF Monitor, MonitorPasses
  <2>2. Watched'
    BY <2>1 DEF Watched, NewlyKnown, Audit, Detects, Resolved, Instances
  <2> QED
    BY <2>1, <2>2 DEF Chain, IsTree, BaseKnown, GateSaw, Vouched, SameDigest, Candidate,
       InOrder, MalVerdict, CapsVerdict, Resolved, Forgiven, Instances
<1>7. CASE \/ Bump \/ Repin \/ Bless \/ Record \/ Sign
           \/ \E cur, v \in Releases, after \in Locks, allow \in BOOLEAN :
                Freeze(cur, v, after, allow)
  BY <1>7, EditsKeep
<1> QED
  BY <1>1, <1>2, <1>3, <1>4, <1>5, <1>6, <1>7 DEF SupplyNext

(* Another command changes none of it.                                     *)
LEMMA ChainKept == Chain /\ UNCHANGED <<command, supplyVars>> => Chain'
  BY DEF supplyVars, Chain, IsTree, BaseKnown, GateSaw, Vouched, SameDigest, Watched, Candidate,
     InOrder, MalVerdict, CapsVerdict, Resolved, Forgiven, Instances

(* What a passing watch does not report is in the baseline, and that the   *)
(* gate had signed.                                                        *)
LEMMA ChainSays == Chain => NothingUnsigned
<1> SUFFICES ASSUME Chain, vouched PROVE NothingUnsigned
  BY DEF NothingUnsigned
<1>1. command = "gate" /\ InOrder(main) /\ Forgiven(main, main.sha.lock) /\ Watched
  BY DEF Chain, Vouched
<1> QED
  BY <1>1 DEF NothingUnsigned, InOrder, Forgiven, Watched

-----------------------------------------------------------------------------
(* The image a linker produced keeps its shape when it is stamped.         *)
LEMMA StampedFacts ==
  ASSUME NEW i \in Images
  PROVE  /\ Dated(Stamped(i))
         /\ [SignedForm(Stamped(i)) EXCEPT !.signed = FALSE] = Stamped(i)
         /\ SignedForm(Stamped(i)).signed = signing
         /\ SignedForm(Stamped(i)).coff = Epoch
         /\ SignedForm(Stamped(i)).debug = Stamped(i).debug
<1> DEFINE one(e) == CASE e.type = "repro" -> [type |-> "null", ts |-> 0]
                       [] e.type = "null" -> e
                       [] OTHER -> [e EXCEPT !.ts = Epoch]
           D == {one(e) : e \in i.debug}
           Form(s) == [hard |-> i.hard, dlls |-> i.dlls, functions |-> i.functions,
                       view |-> i.view, comctl |-> i.comctl, coff |-> Epoch, rsrc |-> i.rsrc,
                       signed |-> s, debug |-> D]
<1>1. i \in ImageRecord
  BY ImagesAssumption
<1>2. ASSUME NEW e \in i.debug
      PROVE  one(e).type # "repro" /\ (one(e).type = "null" \/ one(e).ts = Epoch)
  <2>1. e \in [type : STRING, ts : Nat]
    BY <1>1 DEF ImageRecord
  <2>2. CASE e.type = "repro"
    BY <2>2
  <2>3. CASE e.type = "null"
    BY <2>3
  <2>4. CASE e.type # "repro" /\ e.type # "null"
    BY <2>1, <2>4
  <2> QED
    BY <2>2, <2>3, <2>4
<1>3. \A d \in D : d.type # "repro" /\ (d.type = "null" \/ d.ts = Epoch)
  <2> HIDE DEF one
  <2> QED
    BY <1>2
<1>4. Stamped(i) = [i EXCEPT !.coff = Epoch, !.debug = D]
  BY DEF Stamped
<1> HIDE DEF D
<1>5. Stamped(i) = Form(FALSE)
  BY <1>1, <1>4 DEF ImageRecord
<1>6. ASSUME NEW s, NEW t PROVE [Form(s) EXCEPT !.signed = t] = Form(t)
  OBVIOUS
<1>7. \A s : Form(s).signed = s /\ Form(s).coff = Epoch /\ Form(s).debug = D
  OBVIOUS
<1>8. ~Form(FALSE).signed /\ Form(FALSE).coff = Epoch /\ Form(FALSE).debug = D
  OBVIOUS
<1> HIDE DEF Form
<1>9. SignedForm(Stamped(i)) = Form(signing)
  BY <1>5, <1>6 DEF SignedForm
<1>10. Dated(Stamped(i))
  BY <1>3, <1>5, <1>8 DEF Dated
<1>11. [SignedForm(Stamped(i)) EXCEPT !.signed = FALSE] = Stamped(i)
  BY <1>5, <1>6, <1>9
<1>12. Form(signing).signed = signing /\ Form(signing).coff = Epoch /\ Form(signing).debug = D
  BY <1>7
<1>13. Stamped(i).debug = D
  BY <1>5, <1>8
<1> QED
  BY <1>9, <1>10, <1>11, <1>12, <1>13, Zenon

(* No digest is handed on before the image is built.                       *)
LEMMA DigestsStart == Init => Digests
<1> SUFFICES ASSUME Init PROVE Digests
  OBVIOUS
<1>1. CASE command = "verify-artifact"
  BY <1>1 DEF Init, ReleaseInit, Digests
<1>2. CASE command # "verify-artifact"
  BY <1>2 DEF Init, ReleaseIdle, Digests
<1> QED
  BY <1>1, <1>2

(* Each job hands on what it was given, or stops.                          *)
LEMMA DigestsStep == Digests /\ command = "verify-artifact" /\ UNCHANGED command /\ ReleaseNext
                     => Digests'
<1> SUFFICES ASSUME Digests, command = "verify-artifact", UNCHANGED command, ReleaseNext
             PROVE  Digests'
  OBVIOUS
<1> USE DEF Digests, To, Kept
<1>1. CASE SourceGate
  BY <1>1 DEF SourceGate
<1>2. CASE Attest
  BY <1>2 DEF Attest
<1>3. CASE StampTime
  BY <1>3 DEF StampTime
<1>4. CASE StageDist
  <2>1. stage = "stamped" /\ stage' = "staged" /\ UNCHANGED <<exe, pdb, manifest, signing>>
    BY <1>4 DEF StageDist
  <2>2. outputs' = [build |-> {Bytes}, sign |-> outputs.sign]
    BY <1>4 DEF StageDist, Seal
  <2>3. PICK i \in Images : exe = Stamped(i)
    BY <2>1
  <2> QED
    BY <2>1, <2>2, <2>3 DEF Bytes
<1>5. CASE PreSign
  BY <1>5 DEF PreSign
<1>6. CASE SignImage
  <2>1. /\ stage = "uploaded" /\ UNCHANGED <<pdb, manifest, signing>>
        /\ exe' = [exe EXCEPT !.signed = exe.signed \/ signing]
        /\ outputs' = [outputs EXCEPT !.sign = {[exe |-> exe', pdb |-> pdb]}]
        /\ stage' \in {"sealed", "failed"}
        /\ stage' = "sealed" => outputs.build = {Bytes}
    BY <1>6 DEF SignImage, Sealed
  <2>2. outputs' = [build |-> outputs.build, sign |-> {[exe |-> exe', pdb |-> pdb]}]
    BY <2>1
  <2>3. CASE stage' = "sealed"
    <3>1. PICK i \in Images, p \in Pdbs : outputs.build = {[exe |-> Stamped(i), pdb |-> p]}
      BY <2>1
    <3>2. exe = Stamped(i) /\ pdb = p
      <4>1. Bytes = [exe |-> Stamped(i), pdb |-> p]
        BY <2>1, <2>3, <3>1
      <4> QED
        BY <4>1 DEF Bytes
    <3>3. exe' = SignedForm(Stamped(i))
      <4>1. (exe.signed \/ signing) = signing
        BY <3>2, StampedFacts, Zenon DEF Dated
      <4> QED
        BY <2>1, <3>2, <4>1 DEF SignedForm
    <3>4. SignedForm(Stamped(i))' = SignedForm(Stamped(i))
      BY <2>1 DEF SignedForm
    <3>5. outputs'.build = {[exe |-> Stamped(i), pdb |-> p]}
          /\ outputs'.sign = {[exe |-> SignedForm(Stamped(i)), pdb |-> p]}
      BY <2>2, <3>1, <3>2, <3>3
    <3> QED
      BY <2>1, <2>2, <2>3, <3>4, <3>5
  <2>4. CASE stage' = "failed"
    BY <2>1, <2>2, <2>4
  <2> QED
    BY <2>1, <2>3, <2>4
<1>7. CASE Verify
  BY <1>7 DEF Verify, Bytes, SignedForm
<1>8. CASE Swap
  BY <1>8 DEF Swap, SignedForm
<1>9. CASE Publish
  BY <1>9 DEF Publish
<1> QED
  BY <1>1, <1>2, <1>3, <1>4, <1>5, <1>6, <1>7, <1>8, <1>9 DEF ReleaseNext

(* Another command changes none of it.                                     *)
LEMMA DigestsKept == Digests /\ UNCHANGED <<command, releaseVars>> => Digests'
  BY DEF Digests, releaseVars, Bytes, SignedForm

(* What the verify job accepted is what was stamped, signed if it is to be.*)
LEMMA DigestsSay == Digests => VerifiedIsBuilt
<1> SUFFICES ASSUME Digests, stage = "verified"
             PROVE  /\ exe.signed = signing
                    /\ outputs.build = {[exe |-> [exe EXCEPT !.signed = FALSE], pdb |-> pdb]}
                    /\ exe.coff = Epoch
                    /\ \A e \in exe.debug : e.type # "repro" /\ (e.type = "null" \/ e.ts = Epoch)
                    /\ VerifyArtifact(exe, pdb, manifest)
  BY DEF VerifiedIsBuilt, VerifyArtifact, HardeningOk, CapabilitiesOk, ImportsOk, LinkOk, ManifestOk
<1>1. PICK i \in Images, p \in Pdbs :
        /\ outputs.build = {[exe |-> Stamped(i), pdb |-> p]}
        /\ outputs.sign = {[exe |-> SignedForm(Stamped(i)), pdb |-> p]}
  BY DEF Digests
<1>2. outputs.sign = {Bytes} /\ VerifyArtifact(exe, pdb, manifest)
  BY DEF Digests
<1>3. exe = SignedForm(Stamped(i)) /\ pdb = p
  <2>1. Bytes = [exe |-> SignedForm(Stamped(i)), pdb |-> p]
    BY <1>1, <1>2
  <2> QED
    BY <2>1 DEF Bytes
<1> QED
  BY <1>1, <1>2, <1>3, StampedFacts DEF Dated

-----------------------------------------------------------------------------
(* A sequence of a set has all of its elements.                            *)
LEMMA SeqOfSet == ASSUME NEW S, IsFiniteSet(S), NEW a \in SetToSeqs(S)
                  PROVE  a \in Seq(S) /\ Elements(a) = S
<1>1. a \in [1..Cardinality(S) -> S] /\ Cardinality(S) \in Nat
  BY FS_CardinalityType DEF SetToSeqs
<1>2. a \in Injection(1..Cardinality(S), S)
  BY <1>1 DEF SetToSeqs, Injection, IsInjective
<1>3. Cardinality(1..Cardinality(S)) = Cardinality(S)
  BY <1>1, FS_Interval
<1>4. a \in Surjection(1..Cardinality(S), S)
  BY <1>2, <1>3, FS_Injection
<1> QED
  BY <1>1, <1>4 DEF Surjection, Elements

(* The elements of a concatenation.                                        *)
LEMMA Concatenated == ASSUME NEW S, NEW s \in Seq(S), NEW t \in Seq(S)
                      PROVE  s \o t \in Seq(S) /\ Elements(s \o t) = Elements(s) \cup Elements(t)
<1>1. \A x \in Elements(s \o t) : x \in Elements(s) \cup Elements(t)
  BY DEF Elements
<1>2. ASSUME NEW k \in DOMAIN s PROVE s[k] \in Elements(s \o t)
  <2>1. k \in DOMAIN (s \o t) /\ (s \o t)[k] = s[k]
    OBVIOUS
  <2> QED
    BY <2>1 DEF Elements
<1>3. ASSUME NEW k \in DOMAIN t PROVE t[k] \in Elements(s \o t)
  <2>1. Len(s) + k \in DOMAIN (s \o t) /\ (s \o t)[Len(s) + k] = t[k]
    OBVIOUS
  <2> QED
    BY <2>1 DEF Elements
<1>4. Elements(s) \cup Elements(t) \subseteq Elements(s \o t)
  BY <1>2, <1>3 DEF Elements
<1> QED
  BY <1>1, <1>4

(* The elements of a sequence are its head and those of its tail.          *)
LEMMA HeadAndTail == ASSUME NEW S, NEW s \in Seq(S), s # <<>>
                     PROVE  /\ Head(s) \in S /\ Tail(s) \in Seq(S)
                            /\ Elements(s) = {Head(s)} \cup Elements(Tail(s))
<1>1. Len(s) \in Nat \ {0} /\ DOMAIN s = 1..Len(s) /\ Head(s) = s[1] /\ Head(s) \in S
  OBVIOUS
<1>2. /\ Tail(s) \in Seq(S) /\ DOMAIN Tail(s) = 1..(Len(s) - 1)
      /\ \A k \in 1..(Len(s) - 1) : Tail(s)[k] = s[k + 1]
  OBVIOUS
<1>3. ASSUME NEW k \in DOMAIN s PROVE s[k] \in {Head(s)} \cup Elements(Tail(s))
  <2>1. CASE k = 1
    BY <1>1, <2>1
  <2>2. CASE k # 1
    <3>1. k - 1 \in 1..(Len(s) - 1) /\ Tail(s)[k - 1] = s[k]
      BY <1>1, <1>2, <2>2
    <3> QED
      BY <1>2, <3>1 DEF Elements
  <2> QED
    BY <2>1, <2>2
<1>4. ASSUME NEW k \in DOMAIN Tail(s) PROVE Tail(s)[k] \in Elements(s)
  <2>1. k + 1 \in DOMAIN s /\ Tail(s)[k] = s[k + 1]
    BY <1>1, <1>2
  <2> QED
    BY <2>1 DEF Elements
<1>5. Head(s) \in Elements(s)
  BY <1>1 DEF Elements
<1>6. \A x \in Elements(s) : x \in {Head(s)} \cup Elements(Tail(s))
  BY <1>3 DEF Elements
<1>7. \A x \in Elements(Tail(s)) : x \in Elements(s)
  BY <1>4 DEF Elements
<1> QED
  BY <1>1, <1>2, <1>5, <1>6, <1>7

(* The imports of an image or a library, its delayed ones after the        *)
(* others, as they are queued.                                             *)
LEMMA QueuedImports ==
  ASSUME NEW now \in SUBSET Dlls, NEW later \in SUBSET Dlls, NEW pre \in BOOLEAN,
         NEW a \in SetToSeqs(Entry(now, pre)), NEW b \in SetToSeqs(Entry(later, FALSE))
  PROVE  /\ a \o b \in Seq([dll : Dlls, pre : BOOLEAN])
         /\ \A e \in Elements(a \o b) : e.dll \in now \cup later /\ (e.pre => pre /\ e.dll \in now)
         /\ now \cup later \subseteq {e.dll : e \in Elements(a \o b)}
<1> DEFINE S == [dll : Dlls, pre : BOOLEAN]
<1>1. ASSUME NEW T \in SUBSET Dlls, NEW p \in BOOLEAN
      PROVE  IsFiniteSet(Entry(T, p)) /\ Entry(T, p) \in SUBSET S
  <2>1. IsFiniteSet(T)
    BY GraphsAssumption, FS_Subset
  <2> DEFINE f == [d \in T |-> [dll |-> d, pre |-> p]]
  <2>2. f \in Surjection(T, Entry(T, p))
    BY DEF Surjection, Entry
  <2> QED
    BY <2>1, <2>2, FS_Surjection DEF Entry
<1> HIDE DEF S
<1>2. a \in Seq(S) /\ Elements(a) = Entry(now, pre)
  <2>1. IsFiniteSet(Entry(now, pre)) /\ Entry(now, pre) \in SUBSET S
    BY <1>1
  <2>2. a \in Seq(Entry(now, pre)) /\ Elements(a) = Entry(now, pre)
    BY <2>1, SeqOfSet
  <2> QED
    BY <2>1, <2>2, SeqMonotonic
<1>3. b \in Seq(S) /\ Elements(b) = Entry(later, FALSE)
  <2>1. IsFiniteSet(Entry(later, FALSE)) /\ Entry(later, FALSE) \in SUBSET S
    BY <1>1
  <2>2. b \in Seq(Entry(later, FALSE)) /\ Elements(b) = Entry(later, FALSE)
    BY <2>1, SeqOfSet
  <2> QED
    BY <2>1, <2>2, SeqMonotonic
<1>4. a \o b \in Seq(S) /\ Elements(a \o b) = Entry(now, pre) \cup Entry(later, FALSE)
  <2>1. a \in Seq(S) /\ b \in Seq(S)
    BY <1>2, <1>3
  <2>2. a \o b \in Seq(S) /\ Elements(a \o b) = Elements(a) \cup Elements(b)
    BY <2>1, Concatenated, Zenon
  <2> QED
    BY <1>2, <1>3, <2>2
<1>5. \A e \in Entry(now, pre) : e.dll \in now /\ e.pre = pre
  BY DEF Entry
<1>6. \A e \in Entry(later, FALSE) : e.dll \in later /\ e.pre = FALSE
  BY DEF Entry
<1>7. \A d \in now : [dll |-> d, pre |-> pre] \in Entry(now, pre) /\ [dll |-> d, pre |-> pre].dll = d
  BY DEF Entry
<1>8. \A d \in later : /\ [dll |-> d, pre |-> FALSE] \in Entry(later, FALSE)
                       /\ [dll |-> d, pre |-> FALSE].dll = d
  BY DEF Entry
<1> QED
  BY <1>4, <1>5, <1>6, <1>7, <1>8 DEF S

(* What is reached: the start, and the imports of what is reached; and     *)
(* nothing outside a set that has both.                                    *)
LEMMA ReachFacts ==
  ASSUME NEW start \in SUBSET Dlls, NEW step \in [Dlls -> SUBSET Dlls]
  PROVE  /\ start \subseteq Reach(start, step)
         /\ Reach(start, step) \subseteq Dlls
         /\ \A d \in Reach(start, step) \ Exempt : step[d] \subseteq Reach(start, step)
         /\ \A S \in SUBSET Dlls : start \subseteq S /\ (\A c \in S \ Exempt : step[c] \subseteq S)
                                   => Reach(start, step) \subseteq S
<1>1. ASSUME NEW d \in Reach(start, step), d \notin Exempt, NEW c \in step[d],
             NEW S \in SUBSET Dlls, start \subseteq S, \A x \in S \ Exempt : step[x] \subseteq S
      PROVE  c \in S
  <2>1. d \in S
    BY <1>1 DEF Reach
  <2> QED
    BY <1>1, <2>1
<1>2. \A d \in Reach(start, step) \ Exempt : step[d] \subseteq Dlls
  BY DEF Reach
<1>3. \A d \in Reach(start, step) \ Exempt : step[d] \subseteq Reach(start, step)
  BY <1>1, <1>2 DEF Reach
<1> QED
  BY <1>3 DEF Reach

(* The shape of an import graph.                                           *)
LEMMA GraphFacts ==
  ASSUME graph \in ImportGraphs
  PROVE  /\ graph.regular["exe"] \in SUBSET Dlls /\ graph.delay["exe"] \in SUBSET Dlls
         /\ \A d \in Dlls : graph.regular[d] \in SUBSET Dlls /\ graph.delay[d] \in SUBSET Dlls
         /\ Own \in SUBSET Dlls
         /\ Every \in [Dlls -> SUBSET Dlls] /\ AtLoad \in [Dlls -> SUBSET Dlls]
<1>1. graph.regular \in [Dlls \cup {"exe"} -> SUBSET Dlls]
      /\ graph.delay \in [Dlls \cup {"exe"} -> SUBSET Dlls]
  BY GraphsAssumption DEF ImportGraph
<1>2. /\ graph.regular["exe"] \in SUBSET Dlls /\ graph.delay["exe"] \in SUBSET Dlls
      /\ \A d \in Dlls : graph.regular[d] \in SUBSET Dlls /\ graph.delay[d] \in SUBSET Dlls
  BY <1>1
<1> QED
  BY <1>2 DEF Own, Every, AtLoad

(* The image's own imports are queued first.                               *)
LEMMA WalkedStarts == Init => Walked
<1> SUFFICES ASSUME Init PROVE Walked
  OBVIOUS
<1>1. CASE command = "audit-dll-closure"
  <2>1. graph \in ImportGraphs /\ visited = {} /\ flagged = {}
    BY <1>1 DEF Init, ClosureInit
  <2>2. PICK a \in SetToSeqs(Entry(graph.regular["exe"], TRUE)),
             b \in SetToSeqs(Entry(graph.delay["exe"], FALSE)) : queue = a \o b
    BY <1>1 DEF Init, ClosureInit
  <2>3. /\ graph.regular["exe"] \in SUBSET Dlls /\ graph.delay["exe"] \in SUBSET Dlls
        /\ Own \in SUBSET Dlls
        /\ Every \in [Dlls -> SUBSET Dlls] /\ AtLoad \in [Dlls -> SUBSET Dlls]
    BY <2>1, GraphFacts
  <2>4. /\ queue \in Seq([dll : Dlls, pre : BOOLEAN])
        /\ \A e \in Queued : e.dll \in Own /\ (e.pre => e.dll \in graph.regular["exe"])
        /\ Own \subseteq {e.dll : e \in Queued}
    BY <2>2, <2>3, QueuedImports DEF Queued, Own
  <2>5. Own \subseteq Reach(Own, Every)
    BY <2>3, ReachFacts
  <2>6. graph.regular["exe"] \subseteq Reach(graph.regular["exe"], AtLoad)
    BY <2>3, ReachFacts
  <2> QED
    BY <1>1, <2>1, <2>4, <2>5, <2>6 DEF Walked, Met
<1>2. CASE command # "audit-dll-closure"
  BY <1>2 DEF Init, ClosureIdle, Walked
<1> QED
  BY <1>1, <1>2

(* The imports of a library, as they are queued.                           *)
LEMMA QueuedChildren ==
  ASSUME graph \in ImportGraphs, NEW d \in Dlls, NEW pre \in BOOLEAN, NEW c \in Children(d, pre)
  PROVE  /\ c \in Seq([dll : Dlls, pre : BOOLEAN])
         /\ \A f \in Elements(c) : f.dll \in Every[d] /\ (f.pre => pre /\ f.dll \in AtLoad[d])
         /\ Every[d] \subseteq {f.dll : f \in Elements(c)}
<1>1. PICK a \in SetToSeqs(Entry(graph.regular[d], pre)),
           b \in SetToSeqs(Entry(graph.delay[d], FALSE)) : c = a \o b
  <2> DEFINE A == SetToSeqs(Entry(graph.regular[d], pre))
             B == SetToSeqs(Entry(graph.delay[d], FALSE))
  <2>1. Children(d, pre) = {a \o b : a \in A, b \in B}
    BY DEF Children
  <2> HIDE DEF A, B
  <2>2. \E a \in A, b \in B : c = a \o b
    BY <2>1
  <2> QED
    BY <2>2 DEF A, B
<1> DEFINE R == graph.regular[d]  L == graph.delay[d]
<1>2. R \in SUBSET Dlls /\ L \in SUBSET Dlls
  BY GraphFacts
<1>3. Every[d] = R \cup L /\ AtLoad[d] = R
  BY DEF Every, AtLoad
<1> HIDE DEF R, L
<1>4. a \in SetToSeqs(Entry(R, pre)) /\ b \in SetToSeqs(Entry(L, FALSE))
  BY <1>1 DEF R, L
<1>5. /\ a \o b \in Seq([dll : Dlls, pre : BOOLEAN])
      /\ \A e \in Elements(a \o b) : e.dll \in R \cup L /\ (e.pre => pre /\ e.dll \in R)
      /\ R \cup L \subseteq {e.dll : e \in Elements(a \o b)}
  BY <1>2, <1>4, QueuedImports
<1> QED
  BY <1>1, <1>3, <1>5

(* A turn of the loop takes a library off the queue, and in its place puts *)
(* its imports if they are wanted.                                         *)
LEMMA WalkedStep == Walked /\ command = "audit-dll-closure" /\ UNCHANGED command /\ Walk => Walked'
<1> SUFFICES ASSUME Walked, command = "audit-dll-closure", UNCHANGED command, Walk PROVE Walked'
  OBVIOUS
<1> DEFINE Jobs == [dll : Dlls, pre : BOOLEAN]
           All == Reach(Own, Every)
           Load == Reach(graph.regular["exe"], AtLoad)
           e == Head(queue)
           rest == Tail(queue)
<1>1. /\ graph \in ImportGraphs /\ queue \in Seq(Jobs)
      /\ visited \subseteq Dlls /\ flagged \subseteq Jobs
      /\ Met \subseteq All /\ Own \subseteq Met
      /\ \A d \in visited \ Exempt : Every[d] \subseteq Met
      /\ \A f \in Queued \cup flagged : f.pre => f.dll \in Load
      /\ {f.dll : f \in flagged} = visited \ (Exempt \cup Own)
      /\ \A f, g \in flagged : f.dll = g.dll => f = g
  BY DEF Walked
<1>2. /\ queue # <<>> /\ visited' = visited \cup {e.dll} /\ graph' = graph
      /\ e.dll \in visited \cup Exempt => queue' = rest /\ flagged' = flagged
      /\ e.dll \notin visited \cup Exempt =>
           /\ flagged' = IF e.dll \in Own THEN flagged ELSE flagged \cup {e}
           /\ \E c \in Children(e.dll, e.pre) : queue' = rest \o c
  BY DEF Walk
<1>3. Own' = Own /\ Every' = Every /\ AtLoad' = AtLoad /\ All' = All /\ Load' = Load
  BY <1>2 DEF Own, Every, AtLoad, Reach
<1>4. /\ Own \in SUBSET Dlls
      /\ Every \in [Dlls -> SUBSET Dlls] /\ AtLoad \in [Dlls -> SUBSET Dlls]
      /\ graph.regular["exe"] \in SUBSET Dlls
      /\ \A d \in Dlls : graph.regular[d] \in SUBSET Dlls /\ graph.delay[d] \in SUBSET Dlls
  BY <1>1, GraphFacts
<1>5. \A d \in All \ Exempt : Every[d] \subseteq All
  BY <1>4, ReachFacts
<1>6. \A d \in Load \ Exempt : AtLoad[d] \subseteq Load
  BY <1>4, ReachFacts
<1>7. e \in Jobs /\ rest \in Seq(Jobs) /\ Queued = {e} \cup Elements(rest)
  BY <1>1, <1>2, HeadAndTail DEF Queued
<1> HIDE DEF All, Load, e, rest, Jobs
<1>8. e.dll \in Dlls /\ e.dll \in All /\ (e.pre => e.dll \in Load)
  BY <1>1, <1>7 DEF Met, Jobs
<1>9. CASE e.dll \in visited \cup Exempt
  <2>1. queue' = rest /\ flagged' = flagged /\ Queued' = Elements(rest)
    BY <1>2, <1>9 DEF Queued
  <2>2. Met' = Met
    BY <1>2, <1>7, <2>1 DEF Met
  <2>3. {f.dll : f \in flagged} = visited' \ (Exempt \cup Own)
    BY <1>1, <1>2, <1>9
  <2>4. \A d \in visited' \ Exempt : Every[d] \subseteq Met
    BY <1>1, <1>2, <1>9
  <2>5. visited' \subseteq Dlls
    BY <1>1, <1>2, <1>8
  <2>6. \A f \in Queued' \cup flagged' : f.pre => f.dll \in Load
    BY <1>1, <1>7, <2>1
  <2> QED
    BY <1>1, <1>2, <1>3, <1>7, <2>1, <2>2, <2>3, <2>4, <2>5, <2>6 DEF Walked, All, Load, Jobs
<1>10. CASE e.dll \notin visited \cup Exempt
  <2>1. PICK c \in Children(e.dll, e.pre) : queue' = rest \o c
    BY <1>2, <1>10
  <2>2. e.pre \in BOOLEAN
    BY <1>7 DEF Jobs
  <2>3. /\ c \in Seq(Jobs)
        /\ \A f \in Elements(c) : f.dll \in Every[e.dll] /\ (f.pre => e.pre /\ f.dll \in AtLoad[e.dll])
        /\ Every[e.dll] \subseteq {f.dll : f \in Elements(c)}
    BY <1>1, <1>8, <2>1, <2>2, QueuedChildren DEF Jobs
  <2>4. queue' \in Seq(Jobs) /\ Queued' = Elements(rest) \cup Elements(c)
    <3>1. rest \o c \in Seq(Jobs) /\ Elements(rest \o c) = Elements(rest) \cup Elements(c)
      BY <1>7, <2>3, Concatenated, Zenon
    <3> QED
      BY <2>1, <3>1 DEF Queued
  <2>5. Met' = Met \cup Every[e.dll]
    <3>1. {f.dll : f \in Elements(c)} = Every[e.dll]
      BY <2>3
    <3>2. Met = visited \cup {e.dll} \cup {f.dll : f \in Elements(rest)}
      BY <1>7 DEF Met
    <3>3. Met' = visited' \cup {f.dll : f \in Elements(rest)} \cup {f.dll : f \in Elements(c)}
      BY <2>4 DEF Met
    <3> QED
      BY <1>2, <3>1, <3>2, <3>3
  <2>6. Every[e.dll] \subseteq All
    BY <1>5, <1>8, <1>10
  <2>7. e.pre => AtLoad[e.dll] \subseteq Load
    BY <1>6, <1>8, <1>10
  <2>8. flagged' = IF e.dll \in Own THEN flagged ELSE flagged \cup {e}
    BY <1>2, <1>10
  <2>9. \A f \in Queued' \cup flagged' : f.pre => f.dll \in Load
    BY <1>1, <1>7, <1>8, <2>3, <2>4, <2>7, <2>8
  <2>10. {f.dll : f \in flagged'} = visited' \ (Exempt \cup Own)
    BY <1>1, <1>2, <1>10, <2>8
  <2>11. \A f, g \in flagged' : f.dll = g.dll => f = g
    <3>1. \A f \in flagged : f.dll \in visited
      BY <1>1
    <3> QED
      BY <1>1, <1>10, <2>8, <3>1
  <2>12. \A d \in visited' \ Exempt : Every[d] \subseteq Met'
    BY <1>1, <1>2, <2>5
  <2>13. visited' \subseteq Dlls /\ flagged' \subseteq Jobs
    BY <1>1, <1>2, <1>7, <1>8, <2>8
  <2>14. Met' \subseteq All /\ Own \subseteq Met'
    BY <1>1, <2>5, <2>6
  <2> QED
    BY <1>1, <1>2, <1>3, <2>4, <2>9, <2>10, <2>11, <2>12, <2>13, <2>14 DEF Walked, All, Load, Jobs
<1> QED
  BY <1>9, <1>10

(* Another command changes none of it.                                     *)
LEMMA WalkedKept == Walked /\ UNCHANGED <<command, closureVars>> => Walked'
<1> SUFFICES ASSUME Walked, UNCHANGED <<command, closureVars>> PROVE Walked'
  OBVIOUS
<1>1. UNCHANGED <<command, graph, queue, visited, flagged>>
  BY DEF closureVars
<1>2. Own' = Own /\ Every' = Every /\ AtLoad' = AtLoad /\ Queued' = Queued
  BY <1>1 DEF Own, Every, AtLoad, Queued
<1>3. /\ Met' = Met /\ Reach(Own, Every)' = Reach(Own, Every)
      /\ Reach(graph.regular["exe"], AtLoad)' = Reach(graph.regular["exe"], AtLoad)
  BY <1>1, <1>2 DEF Met, Reach
<1> QED
  BY <1>1, <1>2, <1>3 DEF Walked

(* With nothing queued, what was visited is closed.                        *)
LEMMA WalkedSays == Walked => ClosureExact
<1> SUFFICES ASSUME Walked, queue = <<>>, visited # {}
             PROVE  /\ {f.dll : f \in flagged} = Reach(Own, Every) \ (Exempt \cup Own)
                    /\ \A f, g \in flagged : f.dll = g.dll => f = g
                    /\ \A f \in flagged : f.pre => f.dll \in Reach(graph.regular["exe"], AtLoad)
  BY DEF ClosureExact, Every, AtLoad
<1>1. /\ graph \in ImportGraphs /\ visited \subseteq Dlls
      /\ Met \subseteq Reach(Own, Every) /\ Own \subseteq Met
      /\ \A d \in visited \ Exempt : Every[d] \subseteq Met
      /\ \A f \in Queued \cup flagged : f.pre => f.dll \in Reach(graph.regular["exe"], AtLoad)
      /\ {f.dll : f \in flagged} = visited \ (Exempt \cup Own)
      /\ \A f, g \in flagged : f.dll = g.dll => f = g
  BY DEF Walked
<1>2. Met = visited
  BY DEF Met, Queued, Elements
<1>3. Own \in SUBSET Dlls /\ Every \in [Dlls -> SUBSET Dlls]
  BY <1>1, GraphFacts
<1>4. Reach(Own, Every) \subseteq visited
  BY <1>1, <1>2, <1>3, ReachFacts
<1> QED
  BY <1>1, <1>2, <1>4

-----------------------------------------------------------------------------
(* vsa-spike starts from the service's own account.                        *)
LEMMA TrialStarts == Init => Trial
<1> SUFFICES ASSUME Init PROVE Trial
  OBVIOUS
<1>1. TrialInit \/ TrialIdle
  BY DEF Init
<1> QED
  BY <1>1 DEF TrialInit, TrialIdle, Trial, TrialTypes, Stands, AccountRecoverable

(* Every step of the command, its end from outside included, leaves the    *)
(* account where it was or the snapshot naming it.                         *)
LEMMA TrialStep == Trial /\ TrialNext => Trial'
<1> SUFFICES ASSUME Trial, TrialNext PROVE Trial'
  OBVIOUS
<1> USE DEF Trial, TrialTypes, Stands, AccountRecoverable, Step
<1>1. CASE Run
  BY <1>1 DEF Run
<1>2. CASE Snapshot
  BY <1>2 DEF Snapshot
<1>3. CASE Change
  BY <1>3 DEF Change
<1>4. CASE Restart("restart", "exercise")
  BY <1>4 DEF Restart
<1>5. CASE Exercised
  BY <1>5 DEF Exercised
<1>6. CASE PutBack
  BY <1>6 DEF PutBack
<1>7. CASE Restart("restartBack", "forget")
  BY <1>7 DEF Restart
<1>8. CASE Forget
  BY <1>8 DEF Forget
<1>9. CASE Killed
  BY <1>9 DEF Killed
<1> QED
  BY <1>1, <1>2, <1>3, <1>4, <1>5, <1>6, <1>7, <1>8, <1>9 DEF TrialNext

(* Another command changes none of it.                                     *)
LEMMA TrialKept == Trial /\ UNCHANGED trialVars => Trial'
  BY DEF Trial, TrialTypes, Stands, AccountRecoverable, trialVars

-----------------------------------------------------------------------------
(* Each command keeps its own part, and leaves the others alone.           *)
THEOREM IInvHolds == Spec => []IInv
<1>1. Init => IInv
  BY AnnouncementsStart, ChainStarts, DigestsStart, WalkedStarts, TrialStarts DEF IInv
<1>2. IInv /\ [Next]_vars => IInv'
  <2> SUFFICES ASSUME IInv, [Next]_vars PROVE IInv'
    OBVIOUS
  <2>1. UNCHANGED command
    BY DEF Next, Others, vars
  <2>2. Announcements'
    <3>1. (command = "explore" /\ ExploreNext) \/ UNCHANGED exploreVars
      BY DEF Next, Others, vars
    <3> QED
      BY <2>1, <3>1, AnnouncementsStep, AnnouncementsKept DEF IInv
  <2>3. Chain'
    <3>1. (command = "gate" /\ SupplyNext) \/ UNCHANGED supplyVars
      BY DEF Next, Others, vars
    <3> QED
      BY <2>1, <3>1, ChainStep, ChainKept DEF IInv
  <2>4. Digests'
    <3>1. (command = "verify-artifact" /\ ReleaseNext) \/ UNCHANGED releaseVars
      BY DEF Next, Others, vars
    <3> QED
      BY <2>1, <3>1, DigestsStep, DigestsKept DEF IInv
  <2>5. Walked'
    <3>1. (command = "audit-dll-closure" /\ Walk) \/ UNCHANGED closureVars
      BY DEF Next, Others, vars
    <3> QED
      BY <2>1, <3>1, WalkedStep, WalkedKept DEF IInv
  <2>6. Trial'
    <3>1. TrialNext \/ UNCHANGED trialVars
      BY DEF Next, Others, vars
    <3> QED
      BY <3>1, TrialStep, TrialKept DEF IInv
  <2> QED
    BY <2>2, <2>3, <2>4, <2>5, <2>6 DEF IInv
<1> QED
  BY <1>1, <1>2, PTL DEF Spec

(* explore.rs newly_soaked: a fix is announced once, neither twice nor     *)
(* never, whatever the soak time, the cadence and the releases.            *)
THEOREM AnnouncedOnce == Spec => []SoakShoutedOnce
<1>1. IInv => SoakShoutedOnce
  BY AnnouncementsSay DEF IInv
<1> QED
  BY <1>1, IInvHolds, PTL

(* gate.rs, monitor.rs: under a passing watch every known instance in a    *)
(* gated digest is signed, whatever its baseline forgives.                 *)
THEOREM SignedOff == Spec => []NothingUnsigned
<1>1. IInv => NothingUnsigned
  BY ChainSays DEF IInv
<1> QED
  BY <1>1, IInvHolds, PTL

(* release.yml: the verify job accepts nothing but what this build stamped *)
(* and checked, signed exactly when signing is switched on, whatever the   *)
(* artifact store handed it.  What publish downloads later is not claimed. *)
THEOREM ShipsWhatItBuilt == Spec => []VerifiedIsBuilt
<1>1. IInv => VerifiedIsBuilt
  BY DigestsSay DEF IInv
<1> QED
  BY <1>1, IInvHolds, PTL

(* audit-dll-closure: the walk finds exactly the transitive closure, on    *)
(* every import graph, cyclic ones included.                               *)
THEOREM WalkIsExact == Spec => []ClosureExact
<1>1. IInv => ClosureExact
  BY WalkedSays DEF IInv
<1> QED
  BY <1>1, IInvHolds, PTL

(* vsa.rs: wherever the trial of the virtual account is interrupted, the   *)
(* service has its own account or the snapshot names it.                   *)
THEOREM CanPutBack == Spec => []AccountRecoverable
<1>1. IInv => AccountRecoverable
  BY DEF IInv, Trial
<1> QED
  BY <1>1, IInvHolds, PTL

=============================================================================
