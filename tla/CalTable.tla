------------------------------ MODULE CalTable ------------------------------
(***************************************************************************)
(* The calibration of Noise Adapt (app/src/audio.rs): the decision from a  *)
(* measured difference, the table of points with its crossover, the answer *)
(* from the table alone, and the choice of the microphone.  Levels and     *)
(* differences are integers, in half decibels.                             *)
(***************************************************************************)
EXTENDS Integers, Sequences, FiniteSets, SequencesExt

CONSTANT MaxPoints      \* MAX_POINTS

ASSUME TableAssumption == MaxPoints \in Nat \ {0, 1}

Threshold == 6      \* THRESHOLD_DB
Band == 3           \* CONFIDENCE_BAND

Mag(x) == IF x < 0 THEN -x ELSE x
Performance == 0
Balanced == 1

(* compute_decision: a small difference without a ramp keeps the mode; a   *)
(* shift of the centroid, in the direction of a marginal difference, tips. *)
Decide(delta, ramp, shift, current) ==
  LET low == Mag(delta) < 2 /\ ~ramp
      boosted == ~low /\ Mag(delta) >= 2 /\ Mag(delta) < Threshold /\ delta * shift > 0
  IN  IF low THEN current
      ELSE IF delta >= Threshold \/ (boosted /\ delta > 0) THEN Balanced ELSE Performance

(* estimate_crossover, doubled: between the closest neighbours that differ,*)
(* the first of them; empty when there are none.                           *)
Crossover(pts) ==
  LET turns == {i \in 1 .. Len(pts) - 1 : pts[i].chosen # pts[i + 1].chosen}
      gap(i) == pts[i + 1].ambient - pts[i].ambient
  IN  {pts[i].ambient + pts[i + 1].ambient : i \in
        {i \in turns : \A j \in turns : gap(i) < gap(j) \/ (gap(i) = gap(j) /\ i <= j)}}

Sorted(pts) == \A i, j \in DOMAIN pts : i <= j => pts[i].ambient <= pts[j].ambient
Points == [ambient : Int, delta : Int, chosen : Int]
Tables == {pts \in Seq(Points) : Len(pts) <= MaxPoints /\ Sorted(pts)}
Below(pts, level) == Cardinality({i \in DOMAIN pts : pts[i].ambient < level})

(* sort_points, a stable sort: a point comes after those of a lower level  *)
(* and those of its own level that stood before it.                        *)
Rank(pts, i) == Cardinality({j \in DOMAIN pts : \/ pts[j].ambient < pts[i].ambient
                                                \/ pts[j].ambient = pts[i].ambient /\ j <= i})
SortPoints[pts \in Seq(Points)] ==
  [k \in DOMAIN pts |-> pts[CHOOSE i \in DOMAIN pts : Rank(pts, i) = k]]

(* The last of the points at the indices in set that are farthest away.    *)
Farthest(pts, set, cross) ==
  LET dist(i) == Mag(2 * pts[i].ambient - cross)
  IN  CHOOSE i \in set : \A j \in set : dist(j) < dist(i) \/ (dist(j) = dist(i) /\ j <= i)

(* Changed form: the farthest of all goes, whatever its side. *)
VictimsAny(pts, pt) == DOMAIN pts
Victims(pts, pt) == LET same == {i \in DOMAIN pts : pts[i].chosen = pt.chosen}
                    IN  IF same = {} THEN DOMAIN pts ELSE same

(* One more point, after those of a lower level.                           *)
Insert(pts, pt) == LET below == Below(pts, pt.ambient)
                   IN  SubSeq(pts, 1, below) \o <<pt>> \o SubSeq(pts, below + 1, Len(pts))

(* insert_point *)
InsertPoint(pts, pt) ==
  IF Len(pts) < MaxPoints THEN Insert(pts, pt)
  ELSE LET known == Crossover(pts)
           cross == IF known = {} THEN 2 * pt.ambient ELSE CHOOSE c \in known : TRUE
           old == Farthest(pts, Victims(pts, pt), cross)
           flips == /\ known # {}
                    /\ IF pt.chosen = Balanced THEN 2 * pt.ambient > cross
                                               ELSE 2 * pt.ambient < cross
           opposite == \A i \in DOMAIN pts : pts[i].chosen # pt.chosen
       IN  IF opposite \/ flips \/ Mag(2 * pt.ambient - cross) < Mag(2 * pts[old].ambient - cross)
           THEN SortPoints[[pts EXCEPT ![old] = pt]] ELSE pts

(* fast_path: what the table says of a level; empty when it is not sure.   *)
FastChoice(pts, level) ==
  LET n == Len(pts)
      pos == Below(pts, level)
      lo == pts[pos]
      hi == pts[pos + 1]
      span == hi.ambient - lo.ambient
      scaled == lo.delta * span + (level - lo.ambient) * (hi.delta - lo.delta)
  IN  CASE n = 0 -> {}
        [] n > 0 /\ pos = 0 -> {Balanced} \cap {pts[1].chosen}
        [] n > 0 /\ pos = n -> {Performance} \cap {pts[n].chosen}
        [] OTHER -> IF scaled > (Threshold - Band) * span /\ scaled < (Threshold + Band) * span
                    THEN {}
                    ELSE {IF scaled >= Threshold * span THEN Balanced ELSE Performance}

(* device_score, and select_capture_device: the name first, then the peak, *)
(* then the order the system lists them in.                                *)
Weight == [array |-> 20, smart |-> 15, realtek |-> 10, internal |-> 10,
           interface |-> -20, loopback |-> -15, usb |-> -10]
Score(traits) == FoldSet(LAMBDA t, sum : sum + Weight[t], 0, traits)
Selected(devices, peak) ==
  {i \in DOMAIN devices : \A j \in DOMAIN devices :
     LET a == Score(devices[i].traits) b == Score(devices[j].traits) IN
     \/ a > b
     \/ a = b /\ (peak[i] > peak[j] \/ (peak[i] = peak[j] /\ i <= j))}
=============================================================================
