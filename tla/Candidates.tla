----------------------------- MODULE Candidates -----------------------------
(***************************************************************************)
(* xtask explore: the newer releases of a crate an advisory concerns, as   *)
(* the weekly run reports them, and the target check of xtask freeze.  The *)
(* releases are numbered in the order of their versions.                   *)
(***************************************************************************)
EXTENDS Naturals, Integers, FiniteSets

CONSTANTS Releases,   \* the crate's releases
          Resident,   \* the one in the lock that is explored
          Line,       \* the release line of each
          Pre,        \* those parse_ver rejects: pre-releases, odd numbers
          Undated,    \* those whose publication date cannot be read
          Published,  \* the day each appears
          Soak, Cadence, MaxDay

ASSUME Policy == /\ Releases \subseteq Nat /\ Soak \in Nat \ {0} /\ Cadence \in Nat \ {0}
                 /\ Published \in [Releases -> Nat] /\ Resident \in Releases /\ MaxDay \in Nat

VARIABLES today, yanked,
          reported,   \* is today's run over?
          shouted,    \* how often each release was announced as newly soaked
          missed      \* did a run fail to read the list of releases?
exploreVars == <<today, yanked, reported, shouted, missed>>

Age(v) == IF v \in Undated THEN -1 ELSE today - Published[v]
Soaked(v) == Age(v) >= Soak

(* candidates_from_versions *)
Newer(cur) == IF cur \in Pre THEN {}
              ELSE {v \in Releases \ (Pre \cup yanked) : v > cur /\ Published[v] <= today}

(* The newest soaked release of each line: the rungs of the ladder.        *)
Representatives(cands) ==
  LET soaked == {v \in cands : Soaked(v)}
  IN  {v \in soaked : \A w \in soaked : Line[w] = Line[v] => w <= v}

(* Changed form: the window is closed at both ends. *)
NewlySoakedClosed(v) == Soaked(v) /\ Age(v) <= Soak + Cadence
NewlySoaked(v) == Soaked(v) /\ Age(v) < Soak + Cadence

(* freeze: check_target. *)
CheckTarget(v) == v \notin Pre \cup yanked \cup Undated /\ Published[v] <= today /\ Soaked(v)

(* The ladder of one finding, and those of it that end the report.         *)
Announced(cur) == {v \in Representatives(Newer(cur)) : NewlySoaked(v)}

(* explore::run for a finding on Resident: the list is fetched, or the     *)
(* finding, or the whole audit, is not evaluated.                          *)
Explore == /\ ~reported /\ today % Cadence = 0 /\ reported' = TRUE
           /\ \/ /\ shouted' = [v \in Releases |->
                      shouted[v] + IF v \in Announced(Resident) THEN 1 ELSE 0]
                 /\ UNCHANGED missed
              \/ missed' = TRUE /\ UNCHANGED shouted
           /\ UNCHANGED <<today, yanked>>

(* The schedule runs every Cadence days; nothing else makes it skip a day. *)
NextDay == /\ today < MaxDay /\ (today % Cadence = 0 => reported)
           /\ today' = today + 1 /\ reported' = FALSE
           /\ UNCHANGED <<yanked, shouted, missed>>
Yank(v) == yanked' = yanked \cup {v} /\ v \notin yanked
           /\ UNCHANGED <<today, reported, shouted, missed>>

ExploreNext == Explore \/ NextDay \/ \E v \in Releases : Yank(v)

ExploreInit == /\ yanked = {} /\ reported = FALSE
               /\ shouted = [v \in Releases |-> 0]

(* explore.rs "wide enough that a fix cannot slip between two monitor      *)
(* ticks unnoticed, narrow enough that it stops shouting afterwards": once *)
(* its window is over a release was announced exactly once, unless it was  *)
(* withdrawn, a list or the version in the lock could not be read, or a    *)
(* newer release of its line soaked in the same window.                    *)
SoakShoutedOnce == \A v \in Releases :
  /\ shouted[v] <= 1
  /\ Resident \notin Pre /\ v > Resident /\ v \notin Pre \cup Undated \cup yanked
     /\ Age(v) >= Soak + Cadence /\ ~missed
       => \/ shouted[v] = 1
          \/ \E w \in Releases \ (Pre \cup Undated) :
               w > v /\ Line[w] = Line[v] /\ Published[w] < Published[v] + Cadence
=============================================================================
