-------------------------- MODULE InstrumentsProofs --------------------------
(***************************************************************************)
(* Noise Adapt, for any microphones, measurements and files: the mode that *)
(* is announced is the mode that is set, and the table of points keeps its *)
(* order and both its sides whoever saves it.                              *)
(***************************************************************************)
EXTENDS Instruments, FiniteSetTheorems, SequenceTheorems, TLAPS

-----------------------------------------------------------------------------
(* Places.  The members of a finite set of numbers, ordered by a key and   *)
(* then by themselves, take the places from 1 to their number.             *)
Under(T, key, i) == {j \in T : key[j] < key[i] \/ (key[j] = key[i] /\ j <= i)}
Place(T, key, i) == Cardinality(Under(T, key, i))

LEMMA UnderFinite ==
  ASSUME NEW T, IsFiniteSet(T), T \subseteq Int, NEW key \in [T -> Int], NEW i \in T
  PROVE  /\ IsFiniteSet(Under(T, key, i)) /\ i \in Under(T, key, i)
         /\ Place(T, key, i) \in 1 .. Cardinality(T)
<1>1. Under(T, key, i) \subseteq T /\ i \in Under(T, key, i)
  BY DEF Under
<1>2. IsFiniteSet(Under(T, key, i)) /\ Cardinality(Under(T, key, i)) <= Cardinality(T)
  BY <1>1, FS_Subset
<1>3. Cardinality(Under(T, key, i)) \in Nat /\ Cardinality(T) \in Nat
  BY <1>2, FS_CardinalityType
<1>4. Cardinality(Under(T, key, i)) # 0
  BY <1>1, <1>2, FS_EmptySet
<1> QED
  BY <1>1, <1>2, <1>3, <1>4 DEF Place

(* Of two, the later one has the other under it, and a higher place.       *)
LEMMA PlacesDiffer ==
  ASSUME NEW T, IsFiniteSet(T), T \subseteq Int, NEW key \in [T -> Int],
         NEW i \in T, NEW j \in T, i # j, i \in Under(T, key, j)
  PROVE  Place(T, key, i) < Place(T, key, j)
<1>1. Under(T, key, i) \subseteq Under(T, key, j) /\ j \notin Under(T, key, i)
  <2>1. \A k \in T : k \in Int /\ key[k] \in Int
    OBVIOUS
  <2>2. key[i] < key[j] \/ (key[i] = key[j] /\ i <= j)
    BY DEF Under
  <2>3. ASSUME NEW k \in T, key[k] < key[i] \/ (key[k] = key[i] /\ k <= i)
        PROVE  key[k] < key[j] \/ (key[k] = key[j] /\ k <= j)
    BY <2>1, <2>2, <2>3
  <2>4. ~(key[j] < key[i] \/ (key[j] = key[i] /\ j <= i))
    BY <2>1, <2>2
  <2> QED
    BY <2>3, <2>4 DEF Under
<1>2. /\ IsFiniteSet(Under(T, key, i)) /\ IsFiniteSet(Under(T, key, j)) /\ j \in Under(T, key, j)
  BY UnderFinite
<1>3. Cardinality(Under(T, key, i)) <= Cardinality(Under(T, key, j))
      /\ Cardinality(Under(T, key, j)) # Cardinality(Under(T, key, i))
  BY <1>1, <1>2, FS_Subset
<1>4. Cardinality(Under(T, key, i)) \in Nat /\ Cardinality(Under(T, key, j)) \in Nat
  BY <1>2, FS_CardinalityType
<1> QED
  BY <1>3, <1>4 DEF Place

LEMMA OneUnderTheOther ==
  ASSUME NEW T, T \subseteq Int, NEW key \in [T -> Int], NEW i \in T, NEW j \in T
  PROVE  i \in Under(T, key, j) \/ j \in Under(T, key, i)
  BY DEF Under

LEMMA PlacesInOrder ==
  ASSUME NEW T, IsFiniteSet(T), T \subseteq Int, NEW key \in [T -> Int],
         NEW i \in T, NEW j \in T
  PROVE  /\ Place(T, key, i) = Place(T, key, j) => i = j
         /\ Place(T, key, i) <= Place(T, key, j) => i \in Under(T, key, j)
<1>1. Place(T, key, i) \in Int /\ Place(T, key, j) \in Int
  <2>1. Place(T, key, i) \in 1 .. Cardinality(T) /\ Place(T, key, j) \in 1 .. Cardinality(T)
    BY UnderFinite
  <2>2. Cardinality(T) \in Nat
    BY FS_CardinalityType
  <2> QED
    BY <2>1, <2>2
<1>2. i \in Under(T, key, i)
  BY UnderFinite
<1>3. i # j /\ i \in Under(T, key, j) => Place(T, key, i) < Place(T, key, j)
  BY PlacesDiffer
<1>4. i # j /\ j \in Under(T, key, i) => Place(T, key, j) < Place(T, key, i)
  BY PlacesDiffer
<1>5. i \in Under(T, key, j) \/ j \in Under(T, key, i)
  BY OneUnderTheOther
<1> QED
  BY <1>1, <1>2, <1>3, <1>4, <1>5

LEMMA EveryPlaceTaken ==
  ASSUME NEW T, IsFiniteSet(T), T \subseteq Int, NEW key \in [T -> Int]
  PROVE  \A k \in 1 .. Cardinality(T) : \E i \in T : Place(T, key, i) = k
<1> DEFINE place == [i \in T |-> Place(T, key, i)]
           n == Cardinality(T)
<1>1. n \in Nat
  BY FS_CardinalityType
<1>2. place \in [T -> 1 .. n]
  BY UnderFinite
<1>3. place \in Injection(T, 1 .. n)
  <2>1. ASSUME NEW i \in T, NEW j \in T, place[i] = place[j]
        PROVE  i = j
    BY <2>1, PlacesInOrder
  <2> HIDE DEF place
  <2>2. IsInjective(place)
    BY <1>2, <2>1 DEF IsInjective
  <2> QED
    BY <1>2, <2>2 DEF Injection
<1>4. IsFiniteSet(1 .. n) /\ Cardinality(1 .. n) = n
  BY <1>1, FS_Interval
<1>5. place \in Surjection(T, 1 .. n)
  <2> HIDE DEF place, n
  <2>1. Cardinality(T) = Cardinality(1 .. n)
    BY <1>4 DEF n
  <2> QED
    BY <1>3, <1>4, <2>1, FS_Injection
<1> QED
  BY <1>5 DEF Surjection

(* So a finite set that has a member has a last one.                       *)
LEMMA LastExists ==
  ASSUME NEW T, IsFiniteSet(T), T \subseteq Int, T # {}, NEW key \in [T -> Int]
  PROVE  \E i \in T : Under(T, key, i) = T
<1>1. Cardinality(T) \in Nat /\ Cardinality(T) # 0
  BY FS_CardinalityType, FS_EmptySet
<1>2. PICK i \in T : Place(T, key, i) = Cardinality(T)
  <2>1. Cardinality(T) \in 1 .. Cardinality(T)
    BY <1>1
  <2> QED
    BY <2>1, EveryPlaceTaken
<1>3. Under(T, key, i) \in SUBSET T
  BY DEF Under
<1> QED
  BY <1>2, <1>3, FS_Subset DEF Place

-----------------------------------------------------------------------------
(* The table. *)

LEMMA TableTypes ==
  ASSUME NEW pts \in Seq(Points)
  PROVE  /\ Len(pts) \in Nat /\ DOMAIN pts = 1 .. Len(pts)
         /\ IsFiniteSet(DOMAIN pts) /\ Cardinality(DOMAIN pts) = Len(pts)
         /\ \A i \in DOMAIN pts : pts[i] \in Points /\ pts[i].ambient \in Int
<1>1. Len(pts) \in Nat /\ DOMAIN pts = 1 .. Len(pts)
  OBVIOUS
<1>2. IsFiniteSet(1 .. Len(pts)) /\ Cardinality(1 .. Len(pts)) = Len(pts)
  BY <1>1, FS_Interval
<1>3. \A i \in DOMAIN pts : pts[i] \in Points
  BY <1>1
<1> QED
  BY <1>1, <1>2, <1>3 DEF Points

(* Where every point of one table has a place of its own in the other, of  *)
(* the same side, no side has fewer points there.                          *)
LEMMA CountsGrow ==
  ASSUME NEW old \in Seq(Points), NEW new \in Seq(Points),
         NEW f \in [DOMAIN old -> DOMAIN new], IsInjective(f),
         \A i \in DOMAIN old : new[f[i]].chosen = old[i].chosen,
         NEW side
  PROVE  /\ Count(old, side) \in Nat /\ Count(new, side) \in Nat
         /\ Count(old, side) <= Count(new, side)
<1> DEFINE S == {i \in DOMAIN old : old[i].chosen = side}
           T == {i \in DOMAIN new : new[i].chosen = side}
           g == [i \in S |-> f[i]]
<1>1. IsFiniteSet(S) /\ IsFiniteSet(T)
  <2>1. IsFiniteSet(DOMAIN old) /\ IsFiniteSet(DOMAIN new)
    BY TableTypes
  <2>2. S \subseteq DOMAIN old /\ T \subseteq DOMAIN new
    OBVIOUS
  <2> QED
    BY <2>1, <2>2, FS_Subset
<1>2. g \in Injection(S, T)
  <2>1. g \in [S -> T]
    OBVIOUS
  <2>2. IsInjective(g)
    BY DEF IsInjective
  <2> QED
    BY <2>1, <2>2 DEF Injection
<1>3. Cardinality(S) \in Nat /\ Cardinality(T) \in Nat
  BY <1>1, FS_CardinalityType
<1>4. Cardinality(S) <= Cardinality(T)
  <2> HIDE DEF S, T, g
  <2> QED
    BY <1>1, <1>2, FS_Injection
<1> QED
  BY <1>3, <1>4 DEF Count

(* In a table in order the points below a level are its first ones.        *)
LEMMA BelowIsPrefix ==
  ASSUME NEW pts \in Seq(Points), Sorted(pts), NEW level \in Int
  PROVE  /\ Below(pts, level) \in 0 .. Len(pts)
         /\ \A i \in DOMAIN pts : i <= Below(pts, level) <=> pts[i].ambient < level
<1> DEFINE L == {i \in DOMAIN pts : pts[i].ambient < level}
           p == Cardinality(L)
<1>1. /\ Len(pts) \in Nat /\ DOMAIN pts = 1 .. Len(pts)
      /\ IsFiniteSet(DOMAIN pts) /\ Cardinality(DOMAIN pts) = Len(pts)
      /\ \A i \in DOMAIN pts : pts[i].ambient \in Int
  BY TableTypes
<1>2. L \subseteq DOMAIN pts
  OBVIOUS
<1>3. IsFiniteSet(L) /\ p <= Len(pts)
  BY <1>1, <1>2, FS_Subset
<1>4. p \in Nat
  BY <1>3, FS_CardinalityType
<1>5. ASSUME NEW i \in L
      PROVE  i <= p
  <2>1. 1 .. i \subseteq L
    BY <1>1 DEF Sorted
  <2>2. i \in Nat /\ i >= 1
    BY <1>1
  <2>4. Cardinality(1 .. i) = i
    BY <2>2, FS_Interval
  <2>3. Cardinality(1 .. i) <= Cardinality(L)
    BY <1>3, <2>1, FS_Subset
  <2> QED
    BY <2>4, <2>3
<1>6. L \subseteq 1 .. p
  BY <1>1, <1>4, <1>5
<1>7. IsFiniteSet(1 .. p) /\ Cardinality(1 .. p) = p
  <2> HIDE DEF p
  <2> QED
    BY <1>4, FS_Interval
<1>8. L = 1 .. p
  BY <1>6, <1>7, FS_Subset
<1>9. \A i \in DOMAIN pts : i <= p <=> i \in L
  BY <1>1, <1>4, <1>8
<1>10. p \in 0 .. Len(pts) /\ \A i \in DOMAIN pts : i <= p <=> pts[i].ambient < level
  BY <1>1, <1>3, <1>4, <1>9
<1> QED
  BY <1>10 DEF Below

LEMMA InsertParts ==
  ASSUME NEW pts \in Seq(Points), NEW pt \in Points,
         NEW p \in 0 .. Len(pts), p = Below(pts, pt.ambient)
  PROVE  /\ Insert(pts, pt) \in Seq(Points) /\ Len(Insert(pts, pt)) = Len(pts) + 1
         /\ \A i \in 1 .. Len(pts) + 1 :
              Insert(pts, pt)[i] = IF i <= p THEN pts[i]
                                   ELSE IF i = p + 1 THEN pt ELSE pts[i - 1]
<1> DEFINE n == Len(pts)
           front == SubSeq(pts, 1, p)
           back == SubSeq(pts, p + 1, n)
           most == front \o <<pt>>
<1>1. n \in Nat /\ \A i \in 1 .. n : pts[i] \in Points
  BY TableTypes
<1>2. front \in Seq(Points) /\ Len(front) = p /\ \A i \in 1 .. p : front[i] = pts[i]
  <2>1. \A i \in 1 .. p : pts[i] \in Points
    BY <1>1
  <2>2. p \in Int /\ 1 \in Int
    OBVIOUS
  <2>3. /\ front \in Seq(Points)
        /\ Len(front) = IF 1 <= p THEN p - 1 + 1 ELSE 0
        /\ \A i \in 1 .. p - 1 + 1 : front[i] = pts[1 + i - 1]
    BY <2>1, <2>2, SubSeqProperties
  <2> HIDE DEF front
  <2> QED
    BY <1>1, <2>3
<1>3. back \in Seq(Points) /\ Len(back) = n - p /\ \A i \in 1 .. n - p : back[i] = pts[p + i]
  <2>1. \A i \in p + 1 .. n : pts[i] \in Points
    BY <1>1
  <2>2. p + 1 \in Int /\ n \in Int
    BY <1>1
  <2>3. /\ back \in Seq(Points)
        /\ Len(back) = IF p + 1 <= n THEN n - (p + 1) + 1 ELSE 0
        /\ \A i \in 1 .. n - (p + 1) + 1 : back[i] = pts[(p + 1) + i - 1]
    BY <2>1, <2>2, SubSeqProperties
  <2> HIDE DEF back
  <2> QED
    BY <1>1, <2>3
<1>4. <<pt>> \in Seq(Points) /\ Len(<<pt>>) = 1 /\ <<pt>>[1] = pt
  OBVIOUS
<1>5. most \in Seq(Points) /\ Len(most) = p + 1
      /\ \A i \in 1 .. p + 1 : most[i] = IF i <= p THEN pts[i] ELSE pt
  <2> HIDE DEF front
  <2>1. /\ most \in Seq(Points)
        /\ Len(most) = Len(front) + Len(<<pt>>)
        /\ \A i \in 1 .. Len(front) + Len(<<pt>>) :
             most[i] = IF i <= Len(front) THEN front[i] ELSE <<pt>>[i - Len(front)]
    BY <1>2, <1>4, ConcatProperties
  <2> HIDE DEF most
  <2> QED
    BY <1>2, <1>4, <2>1
<1>6. /\ most \o back \in Seq(Points)
      /\ Len(most \o back) = Len(most) + Len(back)
      /\ \A i \in 1 .. Len(most) + Len(back) :
           (most \o back)[i] = IF i <= Len(most) THEN most[i] ELSE back[i - Len(most)]
  <2> HIDE DEF most, back
  <2> QED
    BY <1>3, <1>5, ConcatProperties
<1>7. Insert(pts, pt) = most \o back
  BY DEF Insert
<1>8. most \o back \in Seq(Points) /\ Len(most \o back) = n + 1
      /\ \A i \in 1 .. n + 1 :
           (most \o back)[i] = IF i <= p THEN pts[i] ELSE IF i = p + 1 THEN pt ELSE pts[i - 1]
  <2> HIDE DEF most, back
  <2> DEFINE all == most \o back
  <2>1. all \in Seq(Points) /\ Len(all) = n + 1
        /\ \A i \in 1 .. n + 1 : all[i] = IF i <= p + 1 THEN most[i] ELSE back[i - (p + 1)]
    BY <1>1, <1>3, <1>5, <1>6
  <2> HIDE DEF all
  <2>2. ASSUME NEW i \in 1 .. n + 1
        PROVE  all[i] = IF i <= p THEN pts[i] ELSE IF i = p + 1 THEN pt ELSE pts[i - 1]
    <3>1. CASE i <= p + 1
      BY <1>1, <1>5, <2>1, <3>1
    <3>2. CASE i > p + 1
      <4>5. i \in Int /\ p \in Int /\ n \in Int /\ i <= n + 1
        BY <1>1
      <4> HIDE DEF n
      <4>1. i - (p + 1) \in 1 .. n - p /\ p + (i - (p + 1)) = i - 1
        BY <3>2, <4>5
      <4>2. all[i] = back[i - (p + 1)]
        BY <1>1, <2>1, <3>2
      <4>3. back[i - (p + 1)] = pts[i - 1]
        BY <1>3, <4>1
      <4> QED
        BY <1>1, <3>2, <4>2, <4>3
    <3> QED
      BY <1>1, <3>1, <3>2
  <2> QED
    BY <2>1, <2>2 DEF all
<1>9. n = Len(pts)
  OBVIOUS
<1> HIDE DEF most, back, n
<1> QED
  BY <1>7, <1>8, <1>9

(* A new point goes where it keeps the table in order, and takes nothing.  *)
LEMMA InsertKeeps ==
  ASSUME NEW pts \in Tables, NEW pt \in Points, Len(pts) < MaxPoints
  PROVE  /\ Insert(pts, pt) \in Tables
         /\ \A s : Count(pts, s) <= Count(Insert(pts, pt), s)
                   /\ Count(pts, s) \in Nat /\ Count(Insert(pts, pt), s) \in Nat
<1> DEFINE p == Below(pts, pt.ambient)
           new == Insert(pts, pt)
           n == Len(pts)
<1>1. pts \in Seq(Points) /\ Sorted(pts) /\ pt.ambient \in Int /\ MaxPoints \in Int
  BY TableAssumption DEF Tables, Points
<1>2. /\ n \in Nat /\ DOMAIN pts = 1 .. n
      /\ \A i \in 1 .. n : pts[i].ambient \in Int
  BY <1>1, TableTypes
<1>3. p \in 0 .. n /\ \A i \in 1 .. n : i <= p <=> pts[i].ambient < pt.ambient
  BY <1>1, <1>2, BelowIsPrefix
<1>4. /\ new \in Seq(Points) /\ Len(new) = n + 1
      /\ \A i \in 1 .. n + 1 :
           new[i] = IF i <= p THEN pts[i] ELSE IF i = p + 1 THEN pt ELSE pts[i - 1]
  BY <1>1, <1>3, InsertParts
<1> HIDE DEF p, new, n
<1>5. DOMAIN new = 1 .. n + 1
  BY <1>4
<1>6. Sorted(new)
  <2>1. SUFFICES ASSUME NEW i \in 1 .. n + 1, NEW j \in 1 .. n + 1, i <= j
                 PROVE  new[i].ambient <= new[j].ambient
    BY <1>5 DEF Sorted
  <2>2. \A a, b \in 1 .. n : a <= b => pts[a].ambient <= pts[b].ambient
    BY <1>1, <1>2 DEF Sorted
  <2>3. i \in Int /\ j \in Int /\ p \in Int /\ n \in Int /\ p <= n /\ 0 <= p
    BY <1>2, <1>3
  <2>4. CASE j <= p
    <3>1. i \in 1 .. n /\ j \in 1 .. n /\ new[i] = pts[i] /\ new[j] = pts[j]
      BY <1>4, <2>1, <2>3, <2>4
    <3> QED
      BY <2>1, <2>2, <3>1
  <2>5. CASE j = p + 1
    <3>1. new[j] = pt
      BY <1>4, <2>3, <2>5
    <3>2. CASE i <= p
      <4>1. i \in 1 .. n /\ new[i] = pts[i]
        BY <1>4, <2>3, <3>2
      <4>2. pts[i].ambient < pt.ambient /\ pts[i].ambient \in Int
        BY <1>2, <1>3, <3>2, <4>1
      <4> QED
        BY <1>1, <3>1, <4>1, <4>2
    <3>3. CASE i = j
      BY <1>1, <3>1, <3>3
    <3> QED
      BY <2>1, <2>3, <2>5, <3>2, <3>3
  <2>6. CASE j > p + 1
    <3>1. j - 1 \in 1 .. n /\ ~(j - 1 <= p) /\ new[j] = pts[j - 1]
      BY <1>4, <2>3, <2>6
    <3>2. CASE i <= p
      <4>1. i \in 1 .. n /\ new[i] = pts[i] /\ i <= j - 1
        BY <1>4, <2>3, <2>6, <3>2
      <4> QED
        BY <2>2, <3>1, <4>1
    <3>3. CASE i = p + 1
      <4>1. new[i] = pt
        BY <1>4, <2>3, <3>3
      <4>2. ~(pts[j - 1].ambient < pt.ambient) /\ pts[j - 1].ambient \in Int
        BY <1>2, <1>3, <3>1
      <4> QED
        BY <1>1, <3>1, <4>1, <4>2
    <3>4. CASE i > p + 1
      <4>1. i - 1 \in 1 .. n /\ new[i] = pts[i - 1] /\ i - 1 <= j - 1
        BY <1>4, <2>1, <2>3, <3>4
      <4> QED
        BY <2>2, <3>1, <4>1
    <3> QED
      BY <2>3, <3>2, <3>3, <3>4
  <2> QED
    BY <2>3, <2>4, <2>5, <2>6
<1>7. new \in Tables
  <2>1. Len(new) <= MaxPoints
    BY <1>1, <1>2, <1>4 DEF n
  <2> QED
    BY <1>4, <1>6, <2>1 DEF Tables
<1>8. ASSUME NEW s
      PROVE  Count(pts, s) <= Count(new, s) /\ Count(pts, s) \in Nat /\ Count(new, s) \in Nat
  <2> DEFINE f == [i \in DOMAIN pts |-> IF i <= p THEN i ELSE i + 1]
  <2>1. f \in [DOMAIN pts -> DOMAIN new]
    BY <1>2, <1>3, <1>5
  <2>2. IsInjective(f)
    BY <1>2, <1>3 DEF IsInjective
  <2>3. ASSUME NEW i \in DOMAIN pts
        PROVE  new[f[i]].chosen = pts[i].chosen
    <3>1. i \in Int /\ p \in Int /\ 1 <= i /\ i <= n /\ n \in Int
      BY <1>2, <1>3
    <3>2. CASE i <= p
      BY <1>4, <3>1, <3>2
    <3>3. CASE ~(i <= p)
      <4>1. f[i] = i + 1 /\ i + 1 \in 1 .. n + 1 /\ ~(i + 1 <= p) /\ i + 1 # p + 1 /\ (i + 1) - 1 = i
        BY <3>1, <3>3
      <4>2. new[i + 1] = pts[(i + 1) - 1]
        BY <1>4, <4>1
      <4> QED
        BY <4>1, <4>2
    <3> QED
      BY <3>2, <3>3
  <2> HIDE DEF f
  <2> QED
    BY <1>1, <1>4, <2>1, <2>2, <2>3, CountsGrow
<1> QED
  BY <1>7, <1>8 DEF new

(* Sorting moves the points about, and puts them in order.                 *)
LEMMA SortKeeps ==
  ASSUME NEW pts \in Seq(Points)
  PROVE  /\ SortPoints[pts] \in Seq(Points) /\ Len(SortPoints[pts]) = Len(pts)
         /\ Sorted(SortPoints[pts])
         /\ \A s : Count(SortPoints[pts], s) = Count(pts, s) /\ Count(pts, s) \in Nat
<1> DEFINE D == DOMAIN pts
           key == [i \in D |-> pts[i].ambient]
           sel == [k \in D |-> CHOOSE i \in D : Rank(pts, i) = k]
           rank == [i \in D |-> Rank(pts, i)]
           new == SortPoints[pts]
<1>1. /\ Len(pts) \in Nat /\ D = 1 .. Len(pts) /\ D \subseteq Int
      /\ IsFiniteSet(D) /\ Cardinality(D) = Len(pts)
      /\ \A i \in D : pts[i] \in Points /\ pts[i].ambient \in Int
  BY TableTypes
<1>2. key \in [D -> Int]
  BY <1>1
<1>3. \A i \in D : Rank(pts, i) = Place(D, key, i)
  BY DEF Rank, Place, Under
<1>4. new = [k \in D |-> pts[sel[k]]]
  BY DEF SortPoints
<1>5. \A k \in D : \E i \in D : Rank(pts, i) = k
  <2> HIDE DEF D, key
  <2>1. \A k \in 1 .. Cardinality(D) : \E i \in D : Place(D, key, i) = k
    BY <1>1, <1>2, EveryPlaceTaken
  <2>2. 1 .. Cardinality(D) = D
    BY <1>1
  <2> QED
    BY <1>3, <2>1, <2>2
<1>6. \A k \in D : sel[k] \in D /\ Rank(pts, sel[k]) = k
  BY <1>5
<1>7. \A i \in D : Rank(pts, i) \in D
  <2> HIDE DEF D, key
  <2> QED
    BY <1>1, <1>2, <1>3, UnderFinite
<1>8. \A i, j \in D : Rank(pts, i) = Rank(pts, j) => i = j
  <2> HIDE DEF D, key
  <2>1. ASSUME NEW i \in D, NEW j \in D
        PROVE  Place(D, key, i) = Place(D, key, j) => i = j
    BY <1>1, <1>2, PlacesInOrder
  <2> QED
    BY <1>3, <2>1
<1>9. \A i, j \in D : Rank(pts, i) <= Rank(pts, j) => pts[i].ambient <= pts[j].ambient
  <2>1. SUFFICES ASSUME NEW i \in D, NEW j \in D, Rank(pts, i) <= Rank(pts, j)
                 PROVE  pts[i].ambient <= pts[j].ambient
    OBVIOUS
  <2>2. i \in Under(D, key, j)
    <3> HIDE DEF D, key
    <3> QED
      BY <1>1, <1>2, <1>3, <2>1, PlacesInOrder
  <2> QED
    BY <1>1, <2>2 DEF Under
<1> HIDE DEF key, sel, new
<1>10. new \in Seq(Points) /\ DOMAIN new = D /\ Len(new) = Len(pts)
  <2>1. new \in [1 .. Len(pts) -> Points]
    BY <1>1, <1>4, <1>6
  <2> QED
    BY <1>1, <2>1
<1>11. Sorted(new)
  BY <1>1, <1>4, <1>6, <1>9, <1>10 DEF Sorted
<1>12. sel \in [D -> D] /\ IsInjective(sel)
  <2>1. sel \in [D -> D]
    BY <1>6 DEF sel
  <2>2. \A k, l \in D : sel[k] = sel[l] => k = l
    BY <1>6
  <2> QED
    BY <2>1, <2>2 DEF IsInjective
<1>13. rank \in [D -> D] /\ IsInjective(rank)
  BY <1>7, <1>8 DEF IsInjective
<1>14. \A i \in D : new[rank[i]].chosen = pts[i].chosen
  <2>1. ASSUME NEW i \in D
        PROVE  sel[rank[i]] = i
    BY <1>6, <1>7, <1>8
  <2> QED
    BY <1>4, <1>7, <2>1
<1>15. ASSUME NEW s
       PROVE  Count(new, s) = Count(pts, s) /\ Count(pts, s) \in Nat
  <2>1. Count(new, s) <= Count(pts, s)
    BY <1>4, <1>10, <1>12, CountsGrow
  <2>2. Count(pts, s) <= Count(new, s) /\ Count(pts, s) \in Nat /\ Count(new, s) \in Nat
    <3> HIDE DEF rank
    <3> QED
      BY <1>10, <1>13, <1>14, CountsGrow
  <2> QED
    BY <2>1, <2>2
<1> QED
  BY <1>10, <1>11, <1>15 DEF new

(* Among any of the points one is the farthest, and it is one of them.     *)
LEMMA FarthestIsOne ==
  ASSUME NEW pts \in Seq(Points), NEW set \in SUBSET DOMAIN pts, set # {}, NEW cross \in Int
  PROVE  Farthest(pts, set, cross) \in set
<1> DEFINE key == [i \in set |-> Mag(2 * pts[i].ambient - cross)]
<1>1. /\ IsFiniteSet(DOMAIN pts) /\ DOMAIN pts \subseteq Int
      /\ \A i \in DOMAIN pts : pts[i].ambient \in Int
  BY TableTypes
<1>2. IsFiniteSet(set) /\ set \subseteq Int
  BY <1>1, FS_Subset
<1>3. key \in [set -> Int]
  BY <1>1 DEF Mag
<1>4. PICK i \in set : Under(set, key, i) = set
  <2> HIDE DEF key
  <2> QED
    BY <1>2, <1>3, LastExists
<1>5. \A j \in set : \/ Mag(2 * pts[j].ambient - cross) < Mag(2 * pts[i].ambient - cross)
                     \/ Mag(2 * pts[j].ambient - cross) = Mag(2 * pts[i].ambient - cross) /\ j <= i
  BY <1>4 DEF Under
<1> QED
  BY <1>5 DEF Farthest

(* The distance is counted from a level, or from between two.              *)
LEMMA CrossoverType ==
  ASSUME NEW pts \in Seq(Points)
  PROVE  \A c \in Crossover(pts) : c \in Int
<1>1. /\ Len(pts) \in Nat /\ DOMAIN pts = 1 .. Len(pts)
      /\ \A i \in DOMAIN pts : pts[i].ambient \in Int
  BY TableTypes
<1>2. \A i \in 1 .. Len(pts) - 1 : pts[i].ambient + pts[i + 1].ambient \in Int
  <2>1. ASSUME NEW i \in 1 .. Len(pts) - 1
        PROVE  i \in DOMAIN pts /\ i + 1 \in DOMAIN pts
    BY <1>1
  <2>2. ASSUME NEW i \in 1 .. Len(pts) - 1
        PROVE  pts[i].ambient \in Int /\ pts[i + 1].ambient \in Int
    BY <1>1, <2>1
  <2> QED
    BY <2>2
<1> QED
  BY <1>2 DEF Crossover

(* One point for another: the side that gained had none before, or nothing *)
(* was gained or lost.                                                     *)
LEMMA ReplaceKeeps ==
  ASSUME NEW pts \in Seq(Points), NEW pt \in Points, NEW old \in Victims(pts, pt), NEW s
  PROVE  /\ [pts EXCEPT ![old] = pt] \in Seq(Points)
         /\ Len([pts EXCEPT ![old] = pt]) = Len(pts)
         /\ \/ Count([pts EXCEPT ![old] = pt], s) <= Count(pts, s)
            \/ Count(pts, s) = 0 /\ Count([pts EXCEPT ![old] = pt], s) = 1
         /\ \/ \A i \in DOMAIN pts : pts[i].chosen # pt.chosen
            \/ Count([pts EXCEPT ![old] = pt], s) = Count(pts, s)
         /\ Count([pts EXCEPT ![old] = pt], s) >= Count(pts, s) - 1
<1> DEFINE new == [pts EXCEPT ![old] = pt]
           Of(t) == {i \in DOMAIN t : t[i].chosen = s}
<1>1. /\ Len(pts) \in Nat /\ DOMAIN pts = 1 .. Len(pts) /\ IsFiniteSet(DOMAIN pts)
      /\ \A i \in DOMAIN pts : pts[i] \in Points
  BY TableTypes
<1>2. old \in DOMAIN pts
  BY DEF Victims
<1>3. new \in Seq(Points) /\ Len(new) = Len(pts) /\ DOMAIN new = DOMAIN pts
  BY <1>1, <1>2
<1>4. \A i \in DOMAIN pts : new[i] = IF i = old THEN pt ELSE pts[i]
  BY <1>1, <1>2
<1> HIDE DEF new
<1>5. \A i \in DOMAIN pts : i \in Of(new) <=> (IF i = old THEN pt.chosen = s ELSE i \in Of(pts))
  BY <1>3, <1>4
<1>6. Of(new) \subseteq DOMAIN pts /\ Of(pts) \subseteq DOMAIN pts
  BY <1>3
<1>7. IsFiniteSet(Of(pts))
  BY <1>1, <1>6, FS_Subset
<1>8. Count(new, s) = Cardinality(Of(new)) /\ Count(pts, s) = Cardinality(Of(pts))
  BY DEF Count
<1>9. (\A i \in DOMAIN pts : pts[i].chosen # pt.chosen) \/ pts[old].chosen = pt.chosen
  BY DEF Victims
<1>10. old \in Of(pts) <=> pts[old].chosen = s
  BY <1>2
<1>11. s = pt.chosen /\ (\A i \in DOMAIN pts : pts[i].chosen # pt.chosen) => Of(pts) = {}
  OBVIOUS
<1> HIDE DEF Of
<1>12. CASE pts[old].chosen = pt.chosen
  <2>1. Of(new) = Of(pts)
    BY <1>2, <1>5, <1>6, <1>10, <1>12
  <2>2. Count(new, s) = Count(pts, s) /\ Count(pts, s) \in Nat
    BY <1>7, <1>8, <2>1, FS_CardinalityType
  <2> QED
    BY <1>3, <2>2 DEF new
<1>13. CASE \A i \in DOMAIN pts : pts[i].chosen # pt.chosen
  <2>1. CASE s = pt.chosen
    <3>1. Of(pts) = {} /\ Of(new) = {old}
      BY <1>2, <1>5, <1>6, <1>11, <1>13, <2>1
    <3>2. Count(pts, s) = 0 /\ Count(new, s) = 1
      BY <1>8, <3>1, FS_EmptySet, FS_Singleton
    <3> QED
      BY <1>3, <1>13, <3>2 DEF new
  <2>2. CASE s # pt.chosen
    <3>1. Of(new) = Of(pts) \ {old}
      BY <1>5, <1>6, <2>2
    <3>2. /\ Cardinality(Of(new)) = Cardinality(Of(pts)) - (IF old \in Of(pts) THEN 1 ELSE 0)
          /\ Cardinality(Of(pts)) \in Nat
      BY <1>7, <3>1, FS_RemoveElement, FS_CardinalityType
    <3>3. Count(new, s) <= Count(pts, s) /\ Count(new, s) >= Count(pts, s) - 1
      BY <1>8, <3>2
    <3> QED
      BY <1>3, <1>13, <3>3 DEF new
  <2> QED
    BY <2>1, <2>2
<1> QED
  BY <1>9, <1>12, <1>13

(* The only point of a side has others beside it in a table of two or more.*)
LEMMA NotAlone ==
  ASSUME NEW pts \in Seq(Points), Len(pts) > 1, NEW s, Count(pts, s) = 1
  PROVE  \E i \in DOMAIN pts : pts[i].chosen # s
<1> SUFFICES ASSUME \A i \in DOMAIN pts : pts[i].chosen = s PROVE FALSE
  OBVIOUS
<1>1. {i \in DOMAIN pts : pts[i].chosen = s} = DOMAIN pts
  OBVIOUS
<1>2. Count(pts, s) = Len(pts)
  BY <1>1, TableTypes DEF Count
<1>3. Len(pts) = 1 /\ Len(pts) \in Nat
  BY <1>2, TableTypes
<1> QED
  BY <1>3

(* insert_point keeps the table in order and within its size, and takes    *)
(* from a side only in a full table, for the first point of another.       *)
LEMMA InsertPointKeeps ==
  ASSUME NEW pts \in Tables, NEW pt \in Points
  PROVE  InsertPoint(pts, pt) \in Tables /\ SidesKept(pts, InsertPoint(pts, pt))
<1>1. /\ pts \in Seq(Points) /\ Len(pts) <= MaxPoints /\ Len(pts) \in Nat
      /\ DOMAIN pts = 1 .. Len(pts) /\ MaxPoints \in Nat /\ MaxPoints >= 2
  BY TableAssumption, TableTypes DEF Tables
<1>2. CASE Len(pts) < MaxPoints
  <2>1. InsertPoint(pts, pt) = Insert(pts, pt)
    BY <1>2 DEF InsertPoint
  <2>2. \A s : ~(Count(Insert(pts, pt), s) < Count(pts, s))
    BY <1>2, InsertKeeps
  <2> QED
    BY <1>2, <2>1, <2>2, InsertKeeps DEF SidesKept
<1>3. CASE ~(Len(pts) < MaxPoints)
  <2> DEFINE known == Crossover(pts)
             cross == IF known = {} THEN 2 * pt.ambient ELSE CHOOSE c \in known : TRUE
             old == Farthest(pts, Victims(pts, pt), cross)
             new == SortPoints[[pts EXCEPT ![old] = pt]]
  <2>1. cross \in Int
    BY <1>1, CrossoverType DEF Points
  <2>2. InsertPoint(pts, pt) = new \/ InsertPoint(pts, pt) = pts
    BY <1>3 DEF InsertPoint
  <2>3. old \in Victims(pts, pt)
    <3>1. Victims(pts, pt) \in SUBSET DOMAIN pts /\ Victims(pts, pt) # {}
      BY <1>1, <1>3 DEF Victims
    <3> HIDE DEF cross
    <3> QED
      BY <1>1, <2>1, <3>1, FarthestIsOne
  <2> HIDE DEF cross, known, old
  <2> DEFINE mid == [pts EXCEPT ![old] = pt]
  <2>4. \A s : /\ mid \in Seq(Points) /\ Len(mid) = Len(pts)
               /\ \/ Count(mid, s) <= Count(pts, s)
                  \/ Count(pts, s) = 0 /\ Count(mid, s) = 1
               /\ \/ \A i \in DOMAIN pts : pts[i].chosen # pt.chosen
                  \/ Count(mid, s) = Count(pts, s)
               /\ Count(mid, s) >= Count(pts, s) - 1
    BY <1>1, <2>3, ReplaceKeeps
  <2>5. new = SortPoints[mid]
    OBVIOUS
  <2> HIDE DEF mid, new
  <2>6. /\ new \in Seq(Points) /\ Len(new) = Len(pts) /\ Sorted(new)
        /\ \A s : Count(new, s) = Count(mid, s) /\ Count(mid, s) \in Nat
    BY <2>4, <2>5, SortKeeps
  <2>7. \A s : Count(pts, s) \in Nat
    BY <1>1, SortKeeps
  <2>8. new \in Tables
    BY <1>1, <2>6 DEF Tables
  <2>9. ASSUME NEW s, Count(new, s) > Count(pts, s)
        PROVE  Count(pts, s) = 0 /\ Count(new, s) = 1
    BY <2>4, <2>6, <2>7, <2>9
  <2>12. Len(pts) = MaxPoints /\ Len(new) = MaxPoints
    <3>1. Len(pts) \in Int /\ MaxPoints \in Int /\ Len(pts) <= MaxPoints
      BY <1>1
    <3>2. Len(pts) = MaxPoints
      BY <1>3, <3>1
    <3> QED
      BY <2>6, <3>2
  <2>13. ASSUME NEW s, Count(new, s) < Count(pts, s)
         PROVE  /\ Count(new, s) = Count(pts, s) - 1
                /\ Count(new, s) = 0 => \E i \in DOMAIN pts : pts[i].chosen # s
    <3>1. Count(mid, s) >= Count(pts, s) - 1
      BY <2>4
    <3>2. Count(new, s) = Count(mid, s) /\ Count(mid, s) \in Nat /\ Count(pts, s) \in Nat
      BY <2>6, <2>7
    <3>3. Count(new, s) = Count(pts, s) - 1
      BY <2>13, <3>1, <3>2
    <3>4. Count(new, s) = 0 => Count(pts, s) = 1
      BY <3>2, <3>3
    <3>5. Len(pts) > 1
      BY <1>1, <2>12
    <3> QED
      BY <1>1, <3>3, <3>4, <3>5, NotAlone
  <2>10. SidesKept(pts, new)
    BY <2>9, <2>12, <2>13 DEF SidesKept
  <2>11. SidesKept(pts, pts)
    BY <2>7 DEF SidesKept
  <2> QED
    BY <2>2, <2>8, <2>10, <2>11
<1> QED
  BY <1>2, <1>3

-----------------------------------------------------------------------------
(* The measurements. *)

IsFile(f) == DOMAIN f = {"mic", "fans", "age", "points"} /\ f.points \in Tables

IsThread(t) == /\ DOMAIN t = {"pc", "current", "mic", "chosen", "heard", "cal"}
               /\ t.current \in Int /\ t.chosen \in Int
               /\ t.heard \in Measures /\ IsFile(t.cal)

NoiseTypes == /\ mode \in Int
              /\ adapting \in BOOLEAN /\ calibrating \in BOOLEAN /\ overridden \in BOOLEAN
              /\ IsFile(file) /\ IsThread(adapter) /\ IsThread(calibrator)

(* One measurement at a time: a thread at work, or its message on the way, *)
(* never both, under a flag of its own.                                    *)
Alone == /\ ~(adapting /\ calibrating)
         /\ adapter.pc # "idle" => adapting /\ adapted = NoNote
         /\ adapted # NoNote => adapting
         /\ calibrator.pc # "idle" => calibrating /\ calibrated = NoNote
         /\ calibrated # NoNote => calibrating

(* Nothing else selects while an adaptation that nobody overrode runs.     *)
Quiet == adapting /\ ~overridden => coolsense = 0

(* What is about to be saved is the file as it is, with one point more or  *)
(* with new fans, if it is of the file's microphone.                       *)
OnePointMore == adapter.pc = "save" /\ file # NoFile /\ adapter.cal.mic = file.mic =>
                  /\ \E pt \in Points : adapter.cal.points = InsertPoint(file.points, pt)
                  /\ file.fans = "stress" => adapter.cal.fans = "stress"
SamePoints == calibrator.pc = "save" /\ file # NoFile /\ calibrator.cal.mic = file.mic =>
                calibrator.cal.points = file.points

(* The mode that an adaptation chose is the mode of the machine.           *)
ChosenIsSet ==
  ~overridden => /\ adapter.pc \in {"record", "save", "post"} => mode = adapter.chosen
                 /\ adapted.kind = "done" => mode = adapted.chosen

NoiseInv == NoiseTypes /\ Alone /\ Quiet /\ ChosenIsSet /\ OnePointMore /\ SamePoints

LEMMA DecideType ==
  ASSUME NEW delta, NEW ramp, NEW shift, NEW current \in Int
  PROVE  Decide(delta, ramp, shift, current) \in Int
  BY DEF Decide, Balanced, Performance

LEMMA FastChoiceType ==
  ASSUME NEW pts \in Seq(Points), NEW level \in Int
  PROVE  \A c \in FastChoice(pts, level) : c \in Int
  BY DEF FastChoice, Balanced, Performance

LEMMA NoFileType == IsFile(NoFile)
<1>1. <<>> \in Tables
  BY TableAssumption DEF Tables, Sorted
<1> QED
  BY <1>1 DEF IsFile, NoFile

LEMMA UnsetType == IsThread(Unset) /\ Unset.pc = "idle"
<1>1. (CHOOSE m \in Measures : TRUE) \in Measures
  BY MeasuresAssumption
<1> QED
  BY <1>1, NoFileType DEF IsThread, Unset

LEMMA OfMicType ==
  ASSUME IsFile(file), NEW mic
  PROVE  /\ IsFile(OfMic(mic)) /\ OfMic(mic).mic = mic
         /\ file.mic = mic => OfMic(mic) = file
  BY NoFileType DEF OfMic, IsFile, NoFile

-----------------------------------------------------------------------------

LEMMA NoiseInitInv == NoiseInit => NoiseInv
<1>1. ASSUME NoiseInit
      PROVE  NoiseTypes
  <2>1. IsFile(file)
    BY <1>1, FilesAssumption, NoFileType DEF NoiseInit, IsFile
  <2>2. IsThread(adapter) /\ IsThread(calibrator)
    BY <1>1, UnsetType DEF NoiseInit
  <2>3. mode \in Int
    BY <1>1 DEF NoiseInit
  <2>4. adapting \in BOOLEAN /\ calibrating \in BOOLEAN /\ overridden \in BOOLEAN
    BY <1>1, Zenon DEF NoiseInit
  <2> QED
    BY <2>1, <2>2, <2>3, <2>4, Zenon DEF NoiseTypes
<1>2. ASSUME NoiseInit
      PROVE  Alone /\ Quiet /\ ChosenIsSet /\ OnePointMore /\ SamePoints
  BY <1>2, UnsetType DEF NoiseInit, NoNote, Alone, Quiet, ChosenIsSet, OnePointMore, SamePoints
<1> QED
  BY <1>1, <1>2 DEF NoiseInv

(* The types, of the window's steps.                                       *)
LEMMA WindowTypes ==
  ASSUME NoiseTypes, Window
  PROVE  NoiseTypes'
<1> USE DEF NoiseTypes, machineVars
<1>1. CASE StartAdapt
  <2>1. PICK current \in {mode, 0, 1} :
          adapter' = [Unset EXCEPT !.pc = "begin", !.current = current]
    BY <1>1 DEF StartAdapt, Begin
  <2>2. IsThread(adapter')
    <3>1. IsThread(Unset) /\ current \in Int
      BY UnsetType
    <3> QED
      BY <2>1, <3>1 DEF IsThread
  <2>3. overridden' \in BOOLEAN /\ adapting' \in BOOLEAN
    BY <1>1 DEF StartAdapt, Begin
  <2> QED
    BY <1>1, <2>2, <2>3 DEF StartAdapt, Begin
<1>2. CASE StartCalibrate
  <2>1. IsThread(calibrator')
    BY <1>2, UnsetType DEF StartCalibrate, IsThread
  <2> QED
    BY <1>2, <2>1 DEF StartCalibrate
<1>3. CASE ClearCal
  BY <1>3, NoFileType DEF ClearCal
<1>4. CASE SelectMode
  BY <1>4, ModesAssumption DEF SelectMode
<1>5. CASE ToggleSmartSense
  BY <1>5 DEF ToggleSmartSense
<1>6. CASE AdaptDone
  BY <1>6 DEF AdaptDone
<1>7. CASE CalibrateDone
  BY <1>7 DEF CalibrateDone
<1>8. CASE Quit
  BY <1>8, NoFileType, UnsetType DEF Quit
<1> QED
  BY <1>1, <1>2, <1>3, <1>4, <1>5, <1>6, <1>7, <1>8 DEF Window

(* A thread is a thread after every change its steps make.                 *)
LEMMA ThreadTo ==
  ASSUME NEW t, IsThread(t), NEW pc
  PROVE  IsThread([t EXCEPT !.pc = pc])
  BY DEF IsThread

LEMMA ThreadMic ==
  ASSUME NEW t, IsThread(t), NEW pc, NEW mic
  PROVE  IsThread([t EXCEPT !.pc = pc, !.mic = mic])
  BY DEF IsThread

LEMMA ThreadMicCal ==
  ASSUME NEW t, IsThread(t), NEW pc, NEW mic, NEW f, IsFile(f)
  PROVE  IsThread([t EXCEPT !.pc = pc, !.mic = mic, !.cal = f])
  BY DEF IsThread

LEMMA ThreadHeard ==
  ASSUME NEW t, IsThread(t), NEW pc, NEW m \in Measures
  PROVE  IsThread([t EXCEPT !.pc = pc, !.heard = m])
  BY DEF IsThread

LEMMA ThreadCal ==
  ASSUME NEW t, IsThread(t), NEW pc, NEW f, IsFile(f)
  PROVE  IsThread([t EXCEPT !.pc = pc, !.cal = f])
  BY DEF IsThread

LEMMA ThreadSlow ==
  ASSUME NEW t, IsThread(t), NEW pc, NEW f, IsFile(f), NEW m \in Measures
  PROVE  IsThread([t EXCEPT !.pc = pc, !.cal = f, !.heard = m])
  BY DEF IsThread

LEMMA ThreadMore ==
  ASSUME NEW t, IsThread(t), NEW pc, NEW f, IsFile(f), NEW m \in Measures
  PROVE  IsThread([t EXCEPT !.pc = pc, !.heard = m, !.cal = f])
  BY DEF IsThread

LEMMA ThreadChosen ==
  ASSUME NEW t, IsThread(t), NEW pc, NEW m \in Measures, NEW c \in Int
  PROVE  IsThread([t EXCEPT !.pc = pc, !.chosen = c, !.heard = m])
  BY DEF IsThread

LEMMA ThreadFast ==
  ASSUME NEW t, IsThread(t), NEW pc, NEW f, IsFile(f), NEW m \in Measures, NEW c \in Int
  PROVE  IsThread([t EXCEPT !.pc = pc, !.chosen = c, !.cal = f, !.heard = m])
  BY DEF IsThread

LEMMA FileChange ==
  ASSUME NEW f, IsFile(f), NEW fans, NEW age
  PROVE  IsFile([f EXCEPT !.fans = fans, !.age = age])
  BY DEF IsFile

(* The types, of the adapting thread's steps.                              *)
LEMMA AdapterTypes ==
  ASSUME NoiseTypes, Adapter
  PROVE  NoiseTypes'
<1>1. IsThread(adapter) /\ IsFile(file) /\ mode \in Int /\ Performance \in Int /\ Balanced \in Int
  BY DEF NoiseTypes, Performance, Balanced
<1>2. overridden' \in BOOLEAN
  BY Zenon DEF NoiseTypes, Adapter, Adapt, machineVars, Select, FastCapture, FastPath, ApplyFast,
     SlowOpen, SlowPerformance, SlowBalanced, LostDevice, SlowDecide, Record, Save, Post, SetMode, TestMode
<1>3. UNCHANGED <<adapting, calibrating, calibrator>>
  BY DEF Adapter, Adapt, Select, FastCapture, FastPath, ApplyFast,
     SlowOpen, SlowPerformance, SlowBalanced, LostDevice, SlowDecide, Record, Save, Post
<1>4. SUFFICES mode' \in Int /\ IsFile(file') /\ IsThread(adapter')
  BY <1>2, <1>3 DEF NoiseTypes
<1>5. IsThread(Unset) /\ IsFile(NoFile) /\ Unset.heard \in Measures
  BY UnsetType, NoFileType DEF IsThread
<1>7. CASE Select
  <2>1. mode' = mode /\ file' = file
    BY <1>7 DEF Select, machineVars
  <2>2. \/ \E mic : \/ adapter' = [adapter EXCEPT !.pc = "listen", !.mic = mic, !.cal = file]
                   \/ adapter' = [adapter EXCEPT !.pc = "open", !.mic = mic]
        \/ adapter' = Unset
    BY <1>7 DEF Select, FailAdapt
  <2>3. \A mic : /\ IsThread([adapter EXCEPT !.pc = "listen", !.mic = mic, !.cal = file])
                 /\ IsThread([adapter EXCEPT !.pc = "open", !.mic = mic])
    BY <1>1, ThreadMic, ThreadMicCal
  <2> QED
    BY <1>1, <1>5, <2>1, <2>2, <2>3
<1>8. CASE FastCapture
  <2>1. mode' = mode /\ file' = file
    BY <1>8 DEF FastCapture, machineVars
  <2>2. \/ \E m \in Measures : adapter' = [adapter EXCEPT !.pc = "judge", !.heard = m]
        \/ adapter' = [adapter EXCEPT !.pc = "open", !.cal = NoFile, !.heard = Unset.heard]
    BY <1>8 DEF FastCapture, SlowWay
  <2>3. \A m \in Measures : IsThread([adapter EXCEPT !.pc = "judge", !.heard = m])
    BY <1>1, ThreadHeard
  <2>4. IsThread([adapter EXCEPT !.pc = "open", !.cal = NoFile, !.heard = Unset.heard])
    BY <1>1, <1>5, ThreadSlow
  <2> QED
    BY <1>1, <2>1, <2>2, <2>3, <2>4
<1>9. CASE FastPath
  <2>1. /\ adapter.cal.points \in Seq(Points) /\ adapter.heard.ambient \in Int
    BY <1>1, MeasuresAssumption DEF IsThread, IsFile, Tables
  <2>2. \A c \in FastChoice(adapter.cal.points, adapter.heard.ambient) : c \in Int
    BY <2>1, FastChoiceType
  <2>3. mode' = mode /\ file' = file
    BY <1>9 DEF FastPath, machineVars
  <2>4. \/ adapter' = [adapter EXCEPT !.pc = "open", !.cal = NoFile, !.heard = Unset.heard]
        \/ \E c \in Int : adapter' = [adapter EXCEPT !.pc = "apply", !.chosen = c,
                                      !.cal = NoFile, !.heard = Unset.heard]
    BY <1>9, <2>2 DEF FastPath, SlowWay
  <2>5. IsThread([adapter EXCEPT !.pc = "open", !.cal = NoFile, !.heard = Unset.heard])
    BY <1>1, <1>5, ThreadSlow
  <2>6. \A c \in Int : IsThread([adapter EXCEPT !.pc = "apply", !.chosen = c,
                                  !.cal = NoFile, !.heard = Unset.heard])
    BY <1>1, <1>5, ThreadFast
  <2> QED
    BY <1>1, <2>3, <2>4, <2>5, <2>6
<1>10. CASE ApplyFast
  BY <1>1, <1>10, ThreadTo DEF ApplyFast, AdaptTo, SetMode, IsThread
<1>11. CASE SlowOpen
  BY <1>1, <1>5, <1>11, ThreadTo DEF SlowOpen, AdaptTo, FailAdapt, machineVars
<1>12. CASE SlowPerformance
  BY <1>1, <1>12, ThreadTo DEF SlowPerformance, AdaptTo, TestMode
<1>13. CASE SlowBalanced
  BY <1>1, <1>13, ThreadTo DEF SlowBalanced, AdaptTo, TestMode
<1>14. CASE LostDevice
  BY <1>1, <1>5, <1>14 DEF LostDevice, FailAdapt, machineVars
<1>15. CASE SlowDecide
  <2>1. PICK m \in Measures :
          LET c == Decide(m.delta, m.ramp, m.shift, adapter.current) IN
          /\ adapter' = [adapter EXCEPT !.pc = "record", !.chosen = c, !.heard = m]
          /\ SetMode(c)
    BY <1>15 DEF SlowDecide
  <2>2. Decide(m.delta, m.ramp, m.shift, adapter.current) \in Int
    BY <1>1, DecideType DEF IsThread
  <2>3. file' = file /\ (mode' = Decide(m.delta, m.ramp, m.shift, adapter.current) \/ mode' = mode)
    BY <1>15, <2>1 DEF SlowDecide, SetMode
  <2> QED
    BY <1>1, <2>1, <2>2, <2>3, ThreadChosen
<1>16. CASE Record
  <2> DEFINE cal == OfMic(adapter.mic)
             base == IF cal.fans = "none" /\ cal.age = "never"
                     THEN [cal EXCEPT !.fans = "proxy", !.age = "fresh"] ELSE cal
             point == [ambient |-> adapter.heard.ambient, delta |-> adapter.heard.delta,
                       chosen |-> adapter.chosen]
             more == [base EXCEPT !.points = InsertPoint(base.points, point)]
  <2>1. adapter' = [adapter EXCEPT !.pc = "save", !.heard = Unset.heard, !.cal = more]
        /\ mode' = mode /\ file' = file
    BY <1>16 DEF Record, machineVars
  <2>2. IsFile(cal)
    BY <1>1, OfMicType
  <2> HIDE DEF cal
  <2>3. IsFile(base)
    BY <2>2 DEF IsFile
  <2> HIDE DEF base
  <2>4. point \in Points
    BY <1>1, MeasuresAssumption DEF IsThread, Points
  <2> HIDE DEF point
  <2>5. InsertPoint(base.points, point) \in Tables
    BY <2>3, <2>4, InsertPointKeeps DEF IsFile
  <2>6. IsFile(more)
    BY <2>3, <2>5 DEF IsFile
  <2> HIDE DEF more
  <2> QED
    BY <1>1, <1>5, <2>1, <2>6, ThreadMore
<1>17. CASE Save
  BY <1>1, <1>5, <1>17, ThreadCal DEF Save, IsThread, machineVars
<1>18. CASE Post
  BY <1>1, <1>5, <1>18 DEF Post, machineVars
<1> QED
  BY <1>7, <1>8, <1>9, <1>10, <1>11, <1>12, <1>13, <1>14, <1>15, <1>16, <1>17, <1>18 DEF Adapter

(* The types, of the calibrating thread's steps.                           *)
LEMMA CalibratorTypes ==
  ASSUME NoiseTypes, Calibrator
  PROVE  NoiseTypes'
<1>1. IsThread(calibrator) /\ IsFile(file) /\ mode \in Int /\ Performance \in Int /\ Balanced \in Int
  BY DEF NoiseTypes, Performance, Balanced
<1>2. UNCHANGED <<adapting, calibrating, adapter, overridden>>
  BY DEF Calibrator, Calibrate, machineVars, CalPerformance, CalLoad, CalUnload, CalBalanced,
     CalMeasured, CalSave, CalFailed, TestMode
<1>3. SUFFICES mode' \in Int /\ IsFile(file') /\ IsThread(calibrator')
  BY <1>2 DEF NoiseTypes
<1>5. CASE CalPerformance
  <2>1. mode' \in {Performance, mode} /\ file' = file
    BY <1>5 DEF CalPerformance, TestMode
  <2>2. \E mic : calibrator' = [calibrator EXCEPT !.pc = "settle", !.mic = mic]
    BY <1>5 DEF CalPerformance
  <2>3. \A mic : IsThread([calibrator EXCEPT !.pc = "settle", !.mic = mic])
    BY <1>1, ThreadMic
  <2> QED
    BY <1>1, <2>1, <2>2, <2>3
<1>6. CASE CalLoad
  BY <1>1, <1>6, ThreadTo DEF CalLoad, CalibrateTo, machineVars
<1>7. CASE CalUnload
  BY <1>1, <1>7, ThreadTo DEF CalUnload, CalibrateTo, machineVars
<1>8. CASE CalBalanced
  BY <1>1, <1>8, ThreadTo DEF CalBalanced, CalibrateTo, TestMode
<1>9. CASE CalMeasured
  <2>1. PICK fans \in {"stress", "none"} :
          calibrator' = [calibrator EXCEPT !.pc = "save",
                           !.cal = [OfMic(calibrator.mic) EXCEPT !.fans = fans, !.age = "fresh"]]
    BY <1>9 DEF CalMeasured
  <2>2. IsFile(OfMic(calibrator.mic))
    BY <1>1, OfMicType
  <2>3. IsFile([OfMic(calibrator.mic) EXCEPT !.fans = fans, !.age = "fresh"])
    BY <2>2, FileChange
  <2> QED
    BY <1>1, <1>9, <2>1, <2>3, ThreadCal DEF CalMeasured, machineVars
<1>10. CASE CalSave
  BY <1>1, <1>10, NoFileType, UnsetType DEF CalSave, IsThread, machineVars
<1>11. CASE CalFailed
  BY <1>1, <1>11, UnsetType DEF CalFailed, machineVars
<1> QED
  BY <1>5, <1>6, <1>7, <1>8, <1>9, <1>10, <1>11 DEF Calibrator

LEMMA TypesStep ==
  ASSUME NoiseTypes, NoiseNext
  PROVE  NoiseTypes'
<1>1. CASE Expire
  BY <1>1 DEF NoiseTypes, Expire, machineVars
<1>2. CASE Age
  BY <1>2 DEF NoiseTypes, Age, machineVars, IsFile
<1>3. CASE SmartSenseSelects
  BY <1>3, ModesAssumption DEF NoiseTypes, SmartSenseSelects
<1> QED
  BY <1>1, <1>2, <1>3, WindowTypes, AdapterTypes, CalibratorTypes DEF NoiseNext

(* One at a time.                                                          *)
LEMMA AloneStep ==
  ASSUME NoiseInv, NoiseNext
  PROVE  Alone'
<1>1. /\ NoiseTypes /\ Alone
      /\ DOMAIN adapter = {"pc", "current", "mic", "chosen", "heard", "cal"}
      /\ DOMAIN calibrator = {"pc", "current", "mic", "chosen", "heard", "cal"}
      /\ Unset.pc = "idle"
      /\ DOMAIN Unset = {"pc", "current", "mic", "chosen", "heard", "cal"}
  BY UnsetType DEF NoiseInv, NoiseTypes, IsThread
<1>2. CASE Window
  BY <1>1, <1>2 DEF Alone, Window, Free, StartAdapt, Begin, StartCalibrate, ClearCal, SelectMode,
     ToggleSmartSense, AdaptDone, CalibrateDone, Quit
<1>3. CASE Adapter
  <2>1. adapter.pc # "idle" /\ adapting /\ adapted = NoNote /\ ~calibrating
    BY <1>1, <1>3 DEF Alone, Adapter, Select, FastCapture, FastPath, ApplyFast, SlowOpen,
       SlowPerformance, SlowBalanced, LostDevice, SlowDecide, Record, Save, Post, Polled
  <2>2. UNCHANGED <<adapting, calibrating, calibrator, calibrated>>
    BY <1>3 DEF Adapter, Adapt, Select, FastCapture, FastPath, ApplyFast, SlowOpen,
       SlowPerformance, SlowBalanced, LostDevice, SlowDecide, Record, Save, Post
  <2>3. adapted' = adapted \/ adapter' = Unset
    BY <1>3 DEF Adapter, Select, FastCapture, FastPath, ApplyFast, SlowOpen,
       SlowPerformance, SlowBalanced, LostDevice, SlowDecide, Record, Save, Post, FailAdapt
  <2> QED
    BY <1>1, <2>1, <2>2, <2>3 DEF Alone
<1>4. CASE Calibrator
  <2>1. calibrator.pc # "idle" /\ calibrating /\ calibrated = NoNote /\ ~adapting
    BY <1>1, <1>4 DEF Alone, Calibrator, CalPerformance, CalLoad, CalUnload, CalBalanced,
       CalMeasured, CalSave, CalFailed, Loads, Unloads
  <2>2. UNCHANGED <<adapting, calibrating, adapter, adapted>>
    BY <1>4 DEF Calibrator, Calibrate, CalPerformance, CalLoad, CalUnload, CalBalanced,
       CalMeasured, CalSave, CalFailed
  <2>3. calibrated' = calibrated \/ calibrator' = Unset
    BY <1>4 DEF Calibrator, CalPerformance, CalLoad, CalUnload, CalBalanced,
       CalMeasured, CalSave, CalFailed
  <2> QED
    BY <1>1, <2>1, <2>2, <2>3 DEF Alone
<1>5. CASE Expire \/ Age \/ SmartSenseSelects
  BY <1>1, <1>5 DEF Alone, Expire, Age, SmartSenseSelects, machineVars
<1> QED
  BY <1>2, <1>3, <1>4, <1>5 DEF NoiseNext

(* Who may change what Quiet and ChosenIsSet speak of.                  *)
LEMMA QuietStep ==
  ASSUME NoiseInv, NoiseNext
  PROVE  Quiet'
<1>1. Alone /\ Quiet
  BY DEF NoiseInv
<1>2. CASE Window
  <2>1. CASE StartAdapt
    <3>1. coolsense' = 0 \/ overridden'
      BY <2>1, Zenon DEF StartAdapt, Begin
    <3> QED
      BY <3>1 DEF Quiet
  <2>2. CASE SelectMode \/ ToggleSmartSense
    <3>1. overridden' = adapting /\ adapting' = adapting
      BY <2>2 DEF SelectMode, ToggleSmartSense
    <3> QED
      BY <3>1, Zenon DEF Quiet
  <2>3. CASE StartCalibrate \/ ClearCal \/ CalibrateDone
    BY <1>1, <2>3 DEF Quiet, StartCalibrate, ClearCal, CalibrateDone, machineVars
  <2>4. CASE AdaptDone \/ Quit
    <3>1. ~adapting'
      BY <2>4, Zenon DEF AdaptDone, Quit
    <3> QED
      BY <3>1 DEF Quiet
  <2> QED
    BY <1>2, <2>1, <2>2, <2>3, <2>4 DEF Window
<1>3. CASE Adapter
  <2>1. UNCHANGED <<adapting, coolsense>> /\ (overridden' = overridden \/ overridden')
    BY <1>3 DEF Adapter, Adapt, Select, FastCapture, FastPath, ApplyFast, SlowOpen, machineVars,
       SlowPerformance, SlowBalanced, LostDevice, SlowDecide, Record, Save, Post, SetMode, TestMode
  <2> QED
    BY <1>1, <2>1 DEF Quiet
<1>4. CASE Calibrator
  <2>1. UNCHANGED <<adapting, coolsense, overridden>>
    BY <1>4 DEF Calibrator, Calibrate, CalPerformance, CalLoad, CalUnload, CalBalanced,
       CalMeasured, CalSave, CalFailed, machineVars, TestMode
  <2> QED
    BY <1>1, <2>1 DEF Quiet
<1>5. CASE Expire \/ Age \/ SmartSenseSelects
  BY <1>1, <1>5 DEF Quiet, Expire, Age, SmartSenseSelects, machineVars
<1> QED
  BY <1>2, <1>3, <1>4, <1>5 DEF NoiseNext

LEMMA AnnouncedStep ==
  ASSUME NoiseInv, NoiseNext
  PROVE  ChosenIsSet'
<1>1. /\ Alone /\ Quiet /\ ChosenIsSet
      /\ DOMAIN adapter = {"pc", "current", "mic", "chosen", "heard", "cal"}
      /\ DOMAIN Unset = {"pc", "current", "mic", "chosen", "heard", "cal"}
      /\ Unset.pc = "idle"
  BY UnsetType DEF NoiseInv, NoiseTypes, IsThread
<1>2. CASE Window
  <2>1. CASE StartAdapt
    <3>1. adapter'.pc = "begin"
      BY <1>1, <2>1 DEF StartAdapt, Begin
    <3>2. adapted' = NoNote
      BY <1>1, <2>1 DEF StartAdapt, Begin, Free, Alone
    <3> QED
      BY <3>1, <3>2 DEF ChosenIsSet, NoNote
  <2>2. CASE SelectMode \/ ToggleSmartSense
    <3>1. overridden' = adapting /\ adapter' = adapter /\ adapted' = adapted
      BY <2>2 DEF SelectMode, ToggleSmartSense
    <3>2. CASE adapting
      <4>1. overridden'
        BY <3>1, <3>2, Zenon
      <4> QED
        BY <4>1 DEF ChosenIsSet
    <3>3. CASE ~adapting
      BY <1>1, <3>1, <3>3 DEF ChosenIsSet, Alone, NoNote
    <3> QED
      BY <3>2, <3>3
  <2>3. CASE StartCalibrate \/ ClearCal \/ CalibrateDone
    BY <1>1, <2>3 DEF ChosenIsSet, StartCalibrate, ClearCal, CalibrateDone, machineVars
  <2>4. CASE AdaptDone
    BY <1>1, <2>4 DEF ChosenIsSet, Alone, AdaptDone, NoNote
  <2>5. CASE Quit
    BY <1>1, <2>5 DEF ChosenIsSet, Quit, NoNote
  <2> QED
    BY <1>2, <2>1, <2>2, <2>3, <2>4, <2>5 DEF Window
<1>3. CASE Adapter
  <2> USE <1>1 DEF ChosenIsSet, Alone, NoNote, Adapt, machineVars
  <2>1. CASE Select
    <3>1. adapted' = adapted \/ adapted'.kind = "failed"
      <4>1. adapted' = adapted \/ adapted' = [kind |-> "failed", chosen |-> adapter.current]
        BY <2>1, Zenon DEF Select, FailAdapt
      <4> QED
        BY <4>1
    <3>2. adapter'.pc \in {"listen", "open", "idle"}
      BY <2>1 DEF Select, FailAdapt
    <3>3. adapted = NoNote
      BY <2>1 DEF Select
    <3> QED
      BY <3>1, <3>2, <3>3
  <2>2. CASE FastCapture
    BY <2>2 DEF FastCapture, SlowWay
  <2>3. CASE FastPath
    BY <2>3 DEF FastPath, SlowWay
  <2>4. CASE ApplyFast
    BY <2>4 DEF ApplyFast, AdaptTo, SetMode
  <2>5. CASE SlowOpen
    BY <2>5 DEF SlowOpen, AdaptTo, FailAdapt
  <2>6. CASE SlowPerformance
    BY <2>6 DEF SlowPerformance, AdaptTo, TestMode
  <2>7. CASE SlowBalanced
    BY <2>7 DEF SlowBalanced, AdaptTo, TestMode
  <2>8. CASE LostDevice
    BY <2>8 DEF LostDevice, FailAdapt
  <2>9. CASE SlowDecide
    BY <2>9 DEF SlowDecide, SetMode
  <2>10. CASE Record
    BY <2>10 DEF Record
  <2>11. CASE Save
    BY <2>11 DEF Save
  <2>12. CASE Post
    BY <2>12 DEF Post
  <2> QED
    BY <1>3, <2>1, <2>2, <2>3, <2>4, <2>5, <2>6, <2>7, <2>8, <2>9, <2>10, <2>11, <2>12 DEF Adapter
<1>4. CASE Calibrator
  <2>1. adapter.pc = "idle" /\ adapted = NoNote
    BY <1>1, <1>4 DEF Alone, Calibrator, CalPerformance, CalLoad, CalUnload, CalBalanced,
       CalMeasured, CalSave, CalFailed, Loads, Unloads
  <2>2. UNCHANGED <<adapter, adapted>>
    BY <1>4 DEF Calibrator, Calibrate, CalPerformance, CalLoad, CalUnload, CalBalanced,
       CalMeasured, CalSave, CalFailed
  <2> QED
    BY <2>1, <2>2 DEF ChosenIsSet, NoNote
<1>5. CASE Expire \/ Age \/ SmartSenseSelects
  BY <1>1, <1>5 DEF Quiet, Alone, ChosenIsSet, NoNote, Expire, Age, SmartSenseSelects, machineVars
<1> QED
  BY <1>2, <1>3, <1>4, <1>5 DEF NoiseNext

(* What is about to be saved.                                              *)
LEMMA OnePointMoreStep ==
  ASSUME NoiseInv, NoiseNext
  PROVE  OnePointMore'
<1>1. /\ Alone /\ OnePointMore /\ IsThread(adapter) /\ IsFile(file)
      /\ DOMAIN adapter = {"pc", "current", "mic", "chosen", "heard", "cal"}
      /\ DOMAIN Unset = {"pc", "current", "mic", "chosen", "heard", "cal"}
      /\ Unset.pc = "idle"
  BY UnsetType DEF NoiseInv, NoiseTypes, IsThread
<1>2. CASE Window
  <2>1. \/ adapter'.pc # "save"
        \/ adapter' = adapter /\ file' \in {file, NoFile}
    <3>1. CASE StartAdapt
      <4>1. adapter'.pc = "begin"
        BY <1>1, <3>1 DEF StartAdapt, Begin
      <4> QED
        BY <4>1
    <3>2. CASE Quit
      BY <1>1, <3>2 DEF Quit
    <3> QED
      BY <1>2, <3>1, <3>2 DEF Window, StartCalibrate, ClearCal, SelectMode, ToggleSmartSense,
         AdaptDone, CalibrateDone
  <2> QED
    BY <1>1, <2>1 DEF OnePointMore
<1>3. CASE Adapter /\ ~Record
  <2>1. adapter'.pc # "save"
    <3>1. CASE Select
      <4>1. adapter'.pc \in {"listen", "open", "idle"}
        BY <1>1, <3>1 DEF Select, FailAdapt
      <4> QED
        BY <4>1
    <3>2. CASE FastCapture
      <4>1. adapter'.pc \in {"judge", "open"}
        BY <1>1, <3>2 DEF FastCapture, SlowWay
      <4> QED
        BY <4>1
    <3>3. CASE FastPath
      <4>1. adapter'.pc \in {"apply", "open"}
        BY <1>1, <3>3 DEF FastPath, SlowWay
      <4> QED
        BY <4>1
    <3>4. CASE SlowDecide
      <4>1. adapter'.pc = "record"
        BY <1>1, <3>4 DEF SlowDecide
      <4> QED
        BY <4>1
    <3> QED
      BY <1>1, <1>3, <3>1, <3>2, <3>3, <3>4 DEF Adapter, ApplyFast, SlowOpen, SlowPerformance,
         SlowBalanced, LostDevice, Save, Post, AdaptTo, FailAdapt
  <2> QED
    BY <2>1 DEF OnePointMore
<1>4. CASE Record
  <2> DEFINE cal == OfMic(adapter.mic)
             base == IF cal.fans = "none" /\ cal.age = "never"
                     THEN [cal EXCEPT !.fans = "proxy", !.age = "fresh"] ELSE cal
             point == [ambient |-> adapter.heard.ambient, delta |-> adapter.heard.delta,
                       chosen |-> adapter.chosen]
             more == [base EXCEPT !.points = InsertPoint(base.points, point)]
  <2>1. adapter' = [adapter EXCEPT !.pc = "save", !.heard = Unset.heard, !.cal = more]
        /\ file' = file
    BY <1>4 DEF Record
  <2>2. IsFile(cal) /\ cal.mic = adapter.mic /\ (file.mic = adapter.mic => cal = file)
    BY <1>1, OfMicType
  <2> HIDE DEF cal
  <2>3. /\ IsFile(base) /\ base.mic = cal.mic /\ base.points = cal.points
        /\ cal.fans = "stress" => base.fans = "stress"
    BY <2>2 DEF IsFile
  <2> HIDE DEF base
  <2>4. point \in Points
    BY <1>1, MeasuresAssumption DEF IsThread, Points
  <2> HIDE DEF point
  <2>5. more.mic = base.mic /\ more.fans = base.fans /\ more.points = InsertPoint(base.points, point)
    BY <2>3 DEF IsFile
  <2> HIDE DEF more
  <2>6. adapter'.cal = more
    BY <1>1, <2>1
  <2>7. ASSUME adapter'.cal.mic = file'.mic
        PROVE  /\ adapter'.cal.points = InsertPoint(file'.points, point)
               /\ file'.fans = "stress" => adapter'.cal.fans = "stress"
    <3>1. cal = file
      BY <2>1, <2>2, <2>3, <2>5, <2>6, <2>7
    <3> QED
      BY <2>1, <2>3, <2>5, <2>6, <3>1
  <2> QED
    BY <2>4, <2>7 DEF OnePointMore
<1>5. CASE Calibrator
  <2>1. adapter.pc = "idle"
    BY <1>1, <1>5 DEF Alone, Calibrator, CalPerformance, CalLoad, CalUnload, CalBalanced,
       CalMeasured, CalSave, CalFailed, Loads, Unloads
  <2>2. adapter' = adapter
    BY <1>5 DEF Calibrator, Calibrate, CalPerformance, CalLoad, CalUnload, CalBalanced,
       CalMeasured, CalSave, CalFailed
  <2> QED
    BY <2>1, <2>2 DEF OnePointMore
<1>6. CASE Expire \/ SmartSenseSelects
  BY <1>1, <1>6 DEF OnePointMore, Expire, SmartSenseSelects, machineVars
<1>7. CASE Age
  BY <1>1, <1>7 DEF OnePointMore, Age, Alone, Free
<1> QED
  BY <1>2, <1>3, <1>4, <1>5, <1>6, <1>7 DEF NoiseNext

LEMMA SamePointsStep ==
  ASSUME NoiseInv, NoiseNext
  PROVE  SamePoints'
<1>1. /\ Alone /\ SamePoints /\ IsThread(calibrator) /\ IsFile(file)
      /\ DOMAIN calibrator = {"pc", "current", "mic", "chosen", "heard", "cal"}
      /\ DOMAIN Unset = {"pc", "current", "mic", "chosen", "heard", "cal"}
      /\ Unset.pc = "idle"
  BY UnsetType DEF NoiseInv, NoiseTypes, IsThread
<1>2. CASE Window
  <2>1. \/ calibrator'.pc # "save"
        \/ calibrator' = calibrator /\ file' \in {file, NoFile}
    <3>1. CASE StartAdapt
      BY <3>1 DEF StartAdapt, Begin
    <3>2. CASE StartCalibrate \/ Quit
      BY <1>1, <3>2 DEF StartCalibrate, Quit
    <3> QED
      BY <1>2, <3>1, <3>2 DEF Window, ClearCal, SelectMode, ToggleSmartSense,
         AdaptDone, CalibrateDone
  <2> QED
    BY <1>1, <2>1 DEF SamePoints
<1>3. CASE Adapter
  <2>1. calibrator.pc = "idle"
    BY <1>1, <1>3 DEF Alone, Adapter, Select, FastCapture, FastPath, ApplyFast, SlowOpen,
       SlowPerformance, SlowBalanced, LostDevice, SlowDecide, Record, Save, Post, Polled
  <2>2. calibrator' = calibrator
    BY <1>3 DEF Adapter, Adapt, Select, FastCapture, FastPath, ApplyFast, SlowOpen,
       SlowPerformance, SlowBalanced, LostDevice, SlowDecide, Record, Save, Post
  <2> QED
    BY <2>1, <2>2 DEF SamePoints
<1>4. CASE Calibrator /\ ~CalMeasured
  <2>1. calibrator'.pc # "save"
    <3>1. CASE CalPerformance
      <4>1. calibrator'.pc = "settle"
        BY <1>1, <3>1 DEF CalPerformance
      <4> QED
        BY <4>1
    <3> QED
      BY <1>1, <1>4, <3>1 DEF Calibrator, CalLoad, CalUnload, CalBalanced, CalSave, CalFailed,
         CalibrateTo, Loads, Unloads
  <2> QED
    BY <2>1 DEF SamePoints
<1>5. CASE CalMeasured
  <2> DEFINE cal == OfMic(calibrator.mic)
  <2>1. PICK fans \in {"stress", "none"} :
          calibrator' = [calibrator EXCEPT !.pc = "save",
                           !.cal = [cal EXCEPT !.fans = fans, !.age = "fresh"]]
    BY <1>5 DEF CalMeasured
  <2>2. file' = file
    BY <1>5 DEF CalMeasured
  <2>3. IsFile(cal) /\ cal.mic = calibrator.mic /\ (file.mic = calibrator.mic => cal = file)
    BY <1>1, OfMicType
  <2> HIDE DEF cal
  <2> DEFINE new == [cal EXCEPT !.fans = fans, !.age = "fresh"]
  <2>4. new.mic = cal.mic /\ new.points = cal.points
    BY <2>3 DEF IsFile
  <2> HIDE DEF new
  <2>5. calibrator'.cal = new
    BY <1>1, <2>1 DEF new
  <2> QED
    BY <2>2, <2>3, <2>4, <2>5 DEF SamePoints
<1>6. CASE Expire \/ SmartSenseSelects
  BY <1>1, <1>6 DEF SamePoints, Expire, SmartSenseSelects, machineVars
<1>7. CASE Age
  BY <1>1, <1>7 DEF SamePoints, Age, Alone, Free
<1> QED
  BY <1>2, <1>3, <1>4, <1>5, <1>6, <1>7 DEF NoiseNext

LEMMA NoiseInvStep ==
  ASSUME NoiseInv, [Next]_vars
  PROVE  NoiseInv'
<1>1. CASE NoiseNext
  <2>1. NoiseTypes'
    BY <1>1, TypesStep DEF NoiseInv
  <2> QED
    BY <1>1, <2>1, AloneStep, QuietStep, AnnouncedStep, OnePointMoreStep, SamePointsStep DEF NoiseInv
<1>2. CASE UNCHANGED noiseVars
  BY <1>2 DEF NoiseInv, NoiseTypes, Alone, Quiet, ChosenIsSet, OnePointMore, SamePoints,
     noiseVars, machineVars
<1> QED
  BY <1>1, <1>2 DEF Next, vars

(* The strengthening is an invariant.                                      *)
THEOREM NoiseInvHolds == Spec => []NoiseInv
<1>1. Init => NoiseInv
  BY NoiseInitInv DEF Init
<1>2. NoiseInv /\ [Next]_vars => NoiseInv'
  BY NoiseInvStep
<1> QED
  BY <1>1, <1>2, PTL DEF Spec

(* The balloon of a successful adaptation names the mode of the machine if *)
(* that is one of the two it compared, and a third mode that was kept is   *)
(* still set, unless the user selected meanwhile or a write was lost: the  *)
(* flags and the withdrawn Smart Sense (run_smart_measure_thread) let      *)
(* nothing else select.                                                    *)
THEOREM Announced == Spec => []AnnouncedIsSet
<1>1. NoiseInv => AnnouncedIsSet
  BY DEF NoiseInv, ChosenIsSet, AnnouncedIsSet, Balloon, Performance, Balanced
<1> QED
  BY <1>1, NoiseInvHolds, PTL

(* save_cal, from either thread, for tables of any size: the table stays   *)
(* in order; a side loses a point only in a full table, only one, and only *)
(* to the first point of a side that had none, and loses its last only     *)
(* where a third side has points; and neither thread undoes the other's    *)
(* part of the file.                                                       *)
THEOREM Kept == Spec => CalibrationKept
<1>1. ASSUME NoiseInv, [Next]_vars
      PROVE  [KeepsCalibration]_file
  <2>1. SUFFICES ASSUME file' # file, NoFile \notin {file, file'}, file'.mic = file.mic
                 PROVE  /\ Sorted(file'.points) /\ SidesKept(file.points, file'.points)
                        /\ adapter.pc = "save" /\ file.fans = "stress" => file'.fans = "stress"
                        /\ calibrator.pc = "save" => file'.points = file.points
    BY DEF KeepsCalibration
  <2>2. /\ NoiseTypes /\ Alone /\ OnePointMore /\ SamePoints
        /\ IsFile(file) /\ file.points \in Tables
    BY <1>1 DEF NoiseInv, NoiseTypes, IsFile
  <2>3. Sorted(file'.points)
    BY <1>1, NoiseInvStep DEF NoiseInv, NoiseTypes, IsFile, Tables
  <2>4. SidesKept(file.points, file.points)
    <3>1. \A s : Count(file.points, s) \in Nat
      BY <2>2, SortKeeps DEF Tables
    <3> QED
      BY <3>1 DEF SidesKept
  <2>5. Save \/ CalSave \/ Age
    <3>1. NoiseNext
      BY <1>1, <2>1 DEF Next, vars, noiseVars
    <3>2. CASE Adapter
      BY <2>1, <3>2 DEF Adapter, Select, FastCapture, FastPath, ApplyFast, SlowOpen,
         SlowPerformance, SlowBalanced, LostDevice, SlowDecide, Record, Post
    <3>3. CASE Calibrator
      BY <2>1, <3>3 DEF Calibrator, CalPerformance, CalLoad, CalUnload, CalBalanced,
         CalMeasured, CalFailed
    <3>4. CASE Window
      BY <2>1, <3>4 DEF Window, StartAdapt, Begin, StartCalibrate, ClearCal, SelectMode,
         ToggleSmartSense, AdaptDone, CalibrateDone, Quit
    <3> QED
      BY <2>1, <3>1, <3>2, <3>3, <3>4 DEF NoiseNext, Expire, SmartSenseSelects
  <2>6. CASE Save
    <3>1. file' = adapter.cal /\ adapter.pc = "save" /\ calibrator.pc # "save"
      BY <2>1, <2>2, <2>6 DEF Save, Alone
    <3>2. PICK pt \in Points : file'.points = InsertPoint(file.points, pt)
      BY <2>1, <2>2, <3>1 DEF OnePointMore
    <3>3. SidesKept(file.points, file'.points)
      BY <2>2, <3>2, InsertPointKeeps
    <3>4. file.fans = "stress" => file'.fans = "stress"
      BY <2>1, <2>2, <3>1 DEF OnePointMore
    <3> QED
      BY <2>3, <3>1, <3>3, <3>4
  <2>7. CASE CalSave
    <3>1. file' = calibrator.cal /\ calibrator.pc = "save" /\ adapter.pc # "save"
      BY <2>1, <2>2, <2>7 DEF CalSave, Alone
    <3>2. file'.points = file.points
      BY <2>1, <2>2, <3>1 DEF SamePoints
    <3> QED
      BY <2>3, <2>4, <3>1, <3>2
  <2>8. CASE Age
    <3>1. file'.points = file.points /\ file'.fans = file.fans
      BY <2>2, <2>8 DEF Age, IsFile
    <3> QED
      BY <2>3, <2>4, <3>1
  <2> QED
    BY <2>5, <2>6, <2>7, <2>8
<1>2. NoiseInv /\ [Next]_vars => [KeepsCalibration]_file
  BY <1>1
<1> QED
  BY <1>2, NoiseInvHolds, PTL DEF Spec, CalibrationKept

=============================================================================
