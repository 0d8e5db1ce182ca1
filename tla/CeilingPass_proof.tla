--------------------------- MODULE CeilingPass_proof ---------------------------
(***************************************************************************)
(* Proofs about the two parts of a ceiling pass: the concurrency ladder,    *)
(* for every first rung, step, bound, patience and set of rates, and the    *)
(* rig that measures its rungs, for any number of workers, any topic, any   *)
(* window and any failures.                                                 *)
(***************************************************************************)
EXTENDS Ladder, Rig, FiniteSetTheorems, WellFoundedInduction, TLAPS

-----------------------------------------------------------------------------
(* The ladder.                                                             *)

Point == [concurrency : 1..MaxRung, rows : Rates, landed : Landings]

LEMMA RungRange == MaxRung \in Nat /\ MaxRung >= 1 /\ FirstRung \in 1..MaxRung
  BY LadderAssumption DEF MaxRung, FirstRung

\* Climbing stays inside the bound and goes up.
LEMMA ClimbRange ==
  ASSUME NEW c \in 1..MaxRung, NEW m \in Nat
  PROVE  /\ Climb(c, m) \in 1..MaxRung \union {NoRung}
         /\ Climb(c, m) # NoRung => Climb(c, m) > c /\ m < Patience
         /\ Climb(c, m) = NoRung => m >= Patience \/ c = MaxRung
<1>1. c * Step \in Nat /\ c * Step > c
  <2>1. c \in Nat /\ c >= 1 /\ Step \in Nat /\ Step >= 2
    BY RungRange, LadderAssumption
  <2>2. PICK d \in Nat : Step = d + 2
    BY <2>1
  <2>3. c * Step = c * d + 2 * c /\ c * d \in Nat
    BY <2>1, <2>2
  <2> QED
    BY <2>1, <2>3
<1> QED
  BY <1>1, RungRange, LadderAssumption DEF Climb

\* The ladder as it is climbed: rungs go up, the next is above them all, and no
\* figure is above the incumbent's margin.
Ascending ==
  \A i, j \in 1..Len(points) : i < j => points[i].concurrency < points[j].concurrency
NextAbove ==
  next # NoRung => \A i \in 1..Len(points) : points[i].concurrency < next

Typed ==
  /\ next \in 1..MaxRung \union {NoRung}
  /\ points \in Seq(Point)
  /\ best \in Nat /\ misses \in Nat
  /\ points = <<>> => best = 1
  /\ points # <<>> => best \in 1..Len(points)
  /\ misses <= Patience
  /\ next # NoRung => misses < Patience
  /\ points = <<>> => next # NoRung
  /\ pc \in {"prove", "create", "start", "settle", "burst"} => next # NoRung
  /\ pc \in {"prove", "create", "start"} => points = <<>>
  /\ outcome # "none" => pc \in {"drop", "ended"}
  /\ pc \in {"prove", "create", "start", "settle", "burst", "conclude", "drop", "ended"}
  /\ outcome \in {"none", "ceiling", "refused"}
  /\ outcome = "ceiling" => points # <<>> /\ best # Len(points) /\ points[best].landed # "short"
  /\ pc = "conclude" => points # <<>>

LadderInv == Typed /\ Ascending /\ NextAbove /\ UnderstatedByMargin

\* One rung more, from what the climb knows so far.
LEMMA ObserveStep ==
  ASSUME LadderInv, pc = "burst",
         NEW r \in Rates, NEW l \in Landings, Observe(next, r, l)
  PROVE  /\ points' \in Seq(Point) /\ points' # <<>>
         /\ best' \in 1..Len(points') /\ misses' \in 0..Patience
         /\ next' \in 1..MaxRung \union {NoRung}
         /\ next' # NoRung => misses' < Patience
         /\ Ascending' /\ NextAbove' /\ UnderstatedByMargin'
<1> DEFINE p == [concurrency |-> next, rows |-> r, landed |-> l]
<1>1. /\ next \in 1..MaxRung /\ points \in Seq(Point) /\ best \in Nat /\ misses \in Nat
      /\ misses < Patience
      /\ points # <<>> => best \in 1..Len(points)
      /\ MaxRung \in Nat /\ NoRung \notin Nat /\ Patience \in Nat /\ Rates \subseteq Nat
  BY RungRange, LadderAssumption DEF LadderInv, Typed
<1>2. p \in Point /\ points' = Append(points, p)
  BY <1>1 DEF Point, Observe
<1>3. /\ points' \in Seq(Point) /\ points' # <<>> /\ Len(points') = Len(points) + 1
      /\ Len(points) \in Nat
      /\ \A i \in 1..Len(points) : points'[i] = points[i]
      /\ points'[Len(points) + 1] = p
  BY <1>1, <1>2
<1>4. \A i \in 1..Len(points) : points[i] \in Point
  BY <1>1
<1>5. best' \in 1..Len(points') /\ misses' \in 0..Patience
  <2>1. CASE points = <<>>
    BY <2>1, <1>1, <1>3 DEF Observe, Improves
  <2>2. CASE points # <<>>
    BY <2>2, <1>1, <1>3 DEF Observe
  <2> QED
    BY <2>1, <2>2
<1>6. /\ next' \in 1..MaxRung \union {NoRung}
      /\ next' # NoRung => next' > next /\ misses' < Patience
  BY <1>1, <1>5, ClimbRange DEF Observe
<1>7. \A i \in 1..Len(points) : points'[i].concurrency < next
  BY <1>1, <1>3 DEF LadderInv, NextAbove
<1>8. Ascending'
  <2> SUFFICES ASSUME NEW i \in 1..Len(points'), NEW j \in 1..Len(points'), i < j
               PROVE  points'[i].concurrency < points'[j].concurrency
    BY DEF Ascending
  <2>1. i \in 1..Len(points)
    BY <1>3
  <2>2. CASE j = Len(points')
    BY <2>1, <2>2, <1>3, <1>7
  <2>3. CASE j # Len(points')
    BY <2>1, <2>3, <1>3 DEF LadderInv, Ascending
  <2> QED
    BY <2>2, <2>3
<1>9. NextAbove'
  <2> SUFFICES ASSUME next' # NoRung, NEW i \in 1..Len(points')
               PROVE  points'[i].concurrency < next'
    BY DEF NextAbove
  <2>1. next' > next /\ next' \in Nat /\ next \in Nat
    BY <1>1, <1>6
  <2>2. CASE i = Len(points')
    BY <2>1, <2>2, <1>3
  <2>3. CASE i # Len(points')
    <3>1. i \in 1..Len(points)
      BY <2>3, <1>3
    <3>2. points'[i].concurrency \in Nat
      <4>1. points'[i] \in Point
        BY <3>1, <1>3, <1>4
      <4> QED
        BY <4>1, RungRange DEF Point
    <3> QED
      BY <2>1, <3>1, <3>2, <1>7
  <2> QED
    BY <2>2, <2>3
<1>10. UnderstatedByMargin'
  <2> SUFFICES ASSUME NEW i \in 1..Len(points')
               PROVE  100 * points'[i].rows <= 103 * points'[best'].rows
    BY DEF UnderstatedByMargin
  <2>1. r \in Nat /\ \A k \in 1..Len(points) : points[k].rows \in Nat
    BY <1>1, <1>4 DEF Point
  <2>2. CASE points = <<>>
    <3>1. i = 1 /\ best' = 1 /\ points'[1].rows = r
      BY <2>2, <1>3 DEF Observe, Improves
    <3> QED
      BY <3>1, <2>1
  <2>3. CASE points # <<>> /\ 100 * r > 103 * points[best].rows
    <3>1. best' = Len(points) + 1 /\ points'[best'].rows = r
      BY <2>3, <1>3 DEF Observe, Improves
    <3>2. CASE i = Len(points) + 1
      BY <3>1, <3>2, <1>3, <2>1
    <3>3. CASE i # Len(points) + 1
      <4>1. i \in 1..Len(points) /\ best \in 1..Len(points)
        BY <3>3, <2>3, <1>1, <1>3
      <4>2. 100 * points[i].rows <= 103 * points[best].rows
        BY <4>1 DEF LadderInv, UnderstatedByMargin
      <4>3. points'[i].rows = points[i].rows /\ points[i].rows \in Nat /\ points[best].rows \in Nat
        BY <4>1, <2>1, <1>3
      <4>4. ASSUME NEW a \in Nat, NEW b \in Nat, NEW c \in Nat,
                   100 * a <= 103 * b, 100 * c > 103 * b
            PROVE  100 * a <= 103 * c
        BY <4>4
      <4> QED
        BY <4>2, <4>3, <4>4, <2>1, <2>3, <3>1
    <3> QED
      BY <3>2, <3>3
  <2>4. CASE points # <<>> /\ ~(100 * r > 103 * points[best].rows)
    <3>1. best' = best /\ best \in 1..Len(points)
      <4>1. ~Improves(r)
        BY <2>4 DEF Improves
      <4> QED
        BY <4>1, <2>4, <1>1 DEF Observe
    <3>4. points'[best'].rows = points[best].rows
      BY <3>1, <1>3
    <3>2. CASE i = Len(points) + 1
      <4>1. points'[i].rows = r /\ points[best].rows \in Nat
        BY <3>1, <3>2, <1>3, <2>1
      <4> QED
        BY <4>1, <3>4, <2>1, <2>4
    <3>3. CASE i # Len(points) + 1
      <4>1. i \in 1..Len(points) /\ points'[i].rows = points[i].rows
        BY <3>3, <1>3
      <4> QED
        BY <4>1, <3>4 DEF LadderInv, UnderstatedByMargin
    <3> QED
      BY <3>2, <3>3
  <2> QED
    BY <2>2, <2>3, <2>4
<1> QED
  BY <1>3, <1>5, <1>6, <1>8, <1>9, <1>10

LEMMA InitInv == Init => LadderInv
  BY RungRange, LadderAssumption
     DEF Init, LadderInv, Typed, Ascending, NextAbove, UnderstatedByMargin, Point

\* What leaves the points alone leaves three of the four parts alone.
LEMMA SweepUnchanged ==
  ASSUME LadderInv, UNCHANGED sweep, Typed'
  PROVE  LadderInv'
  BY DEF LadderInv, sweep, Ascending, NextAbove, UnderstatedByMargin

LEMMA StepInv == LadderInv /\ [Next]_vars => LadderInv'
<1> SUFFICES ASSUME LadderInv, [Next]_vars PROVE LadderInv'
  OBVIOUS
<1> USE DEF LadderInv, Typed
<1>1. CASE Burst
  <2>1. PICK r \in Rates, l \in Landings : Observe(next, r, l)
    BY <1>1 DEF Burst
  <2>2. pc = "burst" /\ outcome = "none" /\ UNCHANGED outcome
    BY <1>1 DEF Burst
  <2>3. /\ points' \in Seq(Point) /\ points' # <<>>
        /\ best' \in 1..Len(points') /\ misses' \in 0..Patience
        /\ next' \in 1..MaxRung \union {NoRung}
        /\ next' # NoRung => misses' < Patience
        /\ Ascending' /\ NextAbove' /\ UnderstatedByMargin'
    BY <2>1, <2>2, ObserveStep
  <2>4. pc' = IF next' = NoRung THEN "conclude" ELSE "settle"
    BY <1>1 DEF Burst
  <2>5. best' \in Nat /\ misses' \in Nat /\ misses' <= Patience
    BY <2>3, LadderAssumption
  <2> QED
    BY <2>2, <2>3, <2>4, <2>5
<1>2. CASE Conclude
  <2>1. Typed'
    BY <1>2 DEF Conclude, still_climbing, check_landed, sweep
  <2> QED
    BY <1>2, <2>1, SweepUnchanged DEF Conclude
<1>3. CASE Prove \/ Create \/ CreateFails \/ Start \/ Settle
  <2>1. Typed' /\ UNCHANGED sweep
    BY <1>3 DEF Prove, Create, CreateFails, Start, Settle, Refuse, sweep
  <2> QED
    BY <2>1, SweepUnchanged
<1>4. CASE BurstFails \/ DropInserter \/ DropTable \/ Orphan \/ UNCHANGED vars
  <2>1. Typed' /\ UNCHANGED sweep
    BY <1>4 DEF BurstFails, DropInserter, DropTable, Orphan, Refuse, sweep, vars
  <2> QED
    BY <2>1, SweepUnchanged
<1> QED
  BY <1>1, <1>2, <1>3, <1>4 DEF Next, Driver

THEOREM Invariant == Spec => []LadderInv
  BY InitInv, StepInv, PTL DEF Spec

\* No figure of a ladder is above its best by more than the margin: what is
\* published as the ceiling is understated by three per cent at most.
THEOREM Margin == Spec => []UnderstatedByMargin
<1>1. LadderInv => UnderstatedByMargin
  BY DEF LadderInv
<1> QED
  BY <1>1, Invariant, PTL

\* What is published as a ceiling was challenged: a rung with more inserters
\* was measured, and did not beat it.
THEOREM NoFloor == Spec => []CeilingIsNoFloor
<1>1. LadderInv => CeilingIsNoFloor
  <2> SUFFICES ASSUME LadderInv, outcome = "ceiling"
               PROVE  \E c \in Tried : c > points[best].concurrency
    BY DEF CeilingIsNoFloor
  <2>1. /\ points \in Seq(Point) /\ best \in 1..Len(points) /\ best # Len(points)
        /\ Len(points) \in Nat
    BY DEF LadderInv, Typed
  <2>2. best < Len(points) /\ Len(points) \in 1..Len(points)
    BY <2>1
  <2>3. points[best].concurrency < points[Len(points)].concurrency
    BY <2>1, <2>2 DEF LadderInv, Ascending
  <2>4. points[best].concurrency \in Nat /\ points[Len(points)].concurrency \in Nat
    <3>1. points[best] \in Point /\ points[Len(points)] \in Point
      BY <2>1, <2>2
    <3> QED
      BY <3>1, RungRange DEF Point
  <2>5. points[Len(points)].concurrency \in Tried
    BY <2>2 DEF Tried
  <2> QED
    BY <2>3, <2>4, <2>5
<1> QED
  BY <1>1, Invariant, PTL

\* The winner's rows stayed in the table it was measured on.
THEOREM Landed == Spec => []WinnerLanded
<1>1. LadderInv => WinnerLanded
  BY DEF LadderInv, Typed, WinnerLanded
<1> QED
  BY <1>1, Invariant, PTL

\* The pass has a next rung for as long as it can still burst, and turns left to take.
LEMMA LeftTyped ==
  ASSUME LadderInv
  PROVE  /\ RungsAbove \in Nat /\ StagesLeft \in 0..8 /\ TurnsLeft = 2 * RungsAbove + StagesLeft
         /\ next # NoRung => RungsAbove = MaxRung - next
         /\ next = NoRung => RungsAbove = 0
<1>1. next \in 1..MaxRung \union {NoRung} /\ MaxRung \in Nat
  BY RungRange DEF LadderInv, Typed
<1>2. RungsAbove \in Nat
  BY <1>1 DEF RungsAbove
<1>3. StagesLeft \in 0..8
  BY DEF StagesLeft, LadderInv, Typed
<1> QED
  BY <1>1, <1>2, <1>3 DEF RungsAbove, TurnsLeft

LEMMA TurnsAreCounted == LadderInv => TurnsLeft \in Nat
<1> SUFFICES ASSUME LadderInv PROVE TurnsLeft \in Nat
  OBVIOUS
<1>1. RungsAbove \in Nat /\ StagesLeft \in Nat /\ TurnsLeft = 2 * RungsAbove + StagesLeft
  BY LeftTyped
<1> QED
  BY <1>1

\* A turn that leaves the climb alone comes nearer to the end by its stage.
LEMMA ByStage ==
  ASSUME LadderInv, UNCHANGED next, StagesLeft' \in Nat
  PROVE  /\ StagesLeft' < StagesLeft => TurnsLeft' < TurnsLeft
         /\ StagesLeft' = StagesLeft => TurnsLeft' = TurnsLeft
<1>1. RungsAbove' = RungsAbove
  BY DEF RungsAbove
<1>2. PICK r \in Nat, x \in Nat, y \in Nat :
        r = RungsAbove /\ x = StagesLeft /\ y = StagesLeft'
  BY LeftTyped
<1>3. TurnsLeft = 2 * r + x /\ TurnsLeft' = 2 * r + y
  BY <1>1, <1>2 DEF TurnsLeft
<1>4. y < x => 2 * r + y < 2 * r + x
  OBVIOUS
<1> QED
  BY <1>2, <1>3, <1>4

\* A burst that goes on is one that found a rung above its own.
LEMMA BurstTurns == LadderInv /\ Burst => TurnsLeft' < TurnsLeft
<1> SUFFICES ASSUME LadderInv, Burst PROVE TurnsLeft' < TurnsLeft
  OBVIOUS
<1>1. pc = "burst" /\ next \in 1..MaxRung /\ MaxRung \in Nat
  BY RungRange DEF Burst, LadderInv, Typed
<1>2. misses' \in Nat /\ next' = Climb(next, misses')
  BY DEF Burst, Observe, LadderInv, Typed
<1>3. PICK c \in 1..MaxRung, m \in Nat : c = next /\ m = misses'
  BY <1>1, <1>2
<1>4. Climb(c, m) \in 1..MaxRung \union {NoRung} /\ (Climb(c, m) # NoRung => Climb(c, m) > c)
  BY ClimbRange
<1>5. next' \in 1..MaxRung \union {NoRung} /\ (next' # NoRung => next' > next)
  BY <1>2, <1>3, <1>4
<1>6. PICK r \in Nat : r = RungsAbove /\ r = MaxRung - next /\ TurnsLeft = 2 * r + 4
  <2>1. next # NoRung
    BY <1>1, LadderAssumption
  <2>2. StagesLeft = 4
    BY <1>1 DEF StagesLeft
  <2> QED
    BY <2>1, <2>2, LeftTyped
<1>7. CASE next' = NoRung
  <2>1. pc' = "conclude"
    BY <1>7 DEF Burst
  <2>2. RungsAbove' = 0 /\ StagesLeft' = 3
    BY <1>7, <2>1 DEF RungsAbove, StagesLeft
  <2>3. TurnsLeft' = 3
    BY <2>2 DEF TurnsLeft
  <2> QED
    BY <1>6, <2>3
<1>8. CASE next' # NoRung
  <2>1. pc' = "settle"
    BY <1>8 DEF Burst
  <2>2. StagesLeft' = 5 /\ RungsAbove' = MaxRung - next'
    BY <1>8, <2>1 DEF RungsAbove, StagesLeft
  <2>3. PICK q \in Nat : q = RungsAbove' /\ q <= r - 1
    <3>1. PICK a \in 1..MaxRung, b \in 1..MaxRung : a = next /\ b = next'
      BY <1>1, <1>5, <1>8
    <3>2. a < b /\ r = MaxRung - a /\ RungsAbove' = MaxRung - b
      BY <1>5, <1>6, <1>8, <2>2, <3>1
    <3>3. MaxRung - b \in Nat /\ MaxRung - b <= MaxRung - a - 1
      BY <1>1, <3>2
    <3> QED
      BY <3>2, <3>3
  <2>4. TurnsLeft' = 2 * q + 5
    BY <2>2, <2>3 DEF TurnsLeft
  <2> QED
    BY <1>6, <2>3, <2>4
<1> QED
  BY <1>7, <1>8

\* The other turns go on to a later stage.
LEMMA StageTurns ==
  ASSUME LadderInv, Driver, ~Burst
  PROVE  UNCHANGED next /\ StagesLeft' \in Nat /\ StagesLeft' < StagesLeft
<1>1. CASE Prove \/ Create \/ CreateFails
  BY <1>1 DEF Prove, Create, CreateFails, Refuse, sweep, StagesLeft
<1>2. CASE Start
  BY <1>2 DEF Start, Refuse, sweep, StagesLeft, LadderInv, Typed
<1>3. CASE Settle
  BY <1>3 DEF Settle, Refuse, sweep, StagesLeft
<1>4. CASE BurstFails
  BY <1>4 DEF BurstFails, Refuse, sweep, StagesLeft
<1>5. CASE Conclude
  BY <1>5 DEF Conclude, sweep, StagesLeft
<1>6. CASE DropInserter
  BY <1>6 DEF DropInserter, sweep, StagesLeft
<1>7. CASE DropTable
  BY <1>7 DEF DropTable, sweep, StagesLeft
<1> QED
  BY <1>1, <1>2, <1>3, <1>4, <1>5, <1>6, <1>7 DEF Driver

LEMMA OrphanTurns == LadderInv /\ Orphan /\ ~Driver => TurnsLeft' = TurnsLeft
<1> SUFFICES ASSUME LadderInv, Orphan PROVE TurnsLeft' = TurnsLeft
  OBVIOUS
<1>1. UNCHANGED next /\ StagesLeft' = StagesLeft
  BY DEF Orphan, sweep, StagesLeft
<1> QED
  BY <1>1, LeftTyped, ByStage

\* Sweep::observe: a pass ends after as many turns as the bound allows, for every first
\* rung, step, bound, patience and set of rates, whatever fails and whatever a killed
\* pass has left running.
THEOREM ClimbEnds == Spec => ClimbRunsDown
<1>1. LadderInv /\ [Next]_vars
        => [TurnsLeft' <= TurnsLeft /\ (Driver => TurnsLeft' < TurnsLeft)]_vars
  <2> SUFFICES ASSUME LadderInv, Next
               PROVE  TurnsLeft' <= TurnsLeft /\ (Driver => TurnsLeft' < TurnsLeft)
    OBVIOUS
  <2>1. TurnsLeft \in Nat /\ TurnsLeft' \in Nat
    <3>1. LadderInv'
      BY StepInv
    <3>2. (LadderInv => TurnsLeft \in Nat)'
      BY TurnsAreCounted, PTL
    <3> QED
      BY <3>1, <3>2, TurnsAreCounted
  <2>2. ASSUME Driver PROVE TurnsLeft' < TurnsLeft
    BY <2>2, BurstTurns, StageTurns, ByStage
  <2>3. ASSUME ~Driver PROVE TurnsLeft' = TurnsLeft
    BY <2>3, OrphanTurns DEF Next
  <2>4. TurnsLeft' < TurnsLeft => TurnsLeft' <= TurnsLeft
    BY <2>1
  <2> QED
    BY <2>1, <2>2, <2>3, <2>4
<1> QED
  BY <1>1, Invariant, TurnsAreCounted, PTL DEF Spec, ClimbRunsDown

-----------------------------------------------------------------------------
(* Numbers and sums.                                                       *)

Smaller == {z \in Nat \X Nat : z[1] < z[2]}

LEMMA LeastNumber ==
  ASSUME NEW S \in SUBSET Nat, S # {}
  PROVE  \E m \in S : \A k \in S : m <= k
<1>1. IsWellFoundedOn(Smaller, Nat)
  BY NatLessThanWellFounded DEF OpToRel, Smaller
<1>2. PICK m \in S : \A k \in S : <<k, m>> \notin Smaller
  BY <1>1, WFMin
<1>3. ASSUME NEW k \in S PROVE m <= k
  <2>1. m \in Nat /\ k \in Nat /\ <<k, m>> \notin Smaller
    BY <1>2
  <2> QED
    BY <2>1 DEF Smaller
<1> QED
  BY <1>3

\* What SumFunctionOnSet computes: of a set, a member of it and the sum of the rest.
Pick(T) == CHOOSE x \in T : TRUE
Sums(g, f, T) == g[T] = IF T = {} THEN 0 ELSE f[Pick(T)] + g[T \ {Pick(T)}]

LEMMA Rest ==
  ASSUME NEW T, IsFiniteSet(T), T # {}
  PROVE  /\ Pick(T) \in T /\ IsFiniteSet(T \ {Pick(T)})
         /\ Cardinality(T) \in Nat /\ Cardinality(T \ {Pick(T)}) = Cardinality(T) - 1
         /\ Cardinality(T) > 0
<1>1. Pick(T) \in T
  BY DEF Pick
<1> QED
  BY <1>1, FS_RemoveElement, FS_CardinalityType, FS_EmptySet

LEMMA SumExists ==
  ASSUME NEW S, IsFiniteSet(S), NEW f, NEW n \in Nat
  PROVE  \E g : \A T \in SUBSET S : Cardinality(T) <= n => Sums(g, f, T)
<1> DEFINE Some(k) == \E g : \A T \in SUBSET S : Cardinality(T) <= k => Sums(g, f, T)
           bad == {k \in Nat : ~Some(k)}
<1>1. \A T \in SUBSET S : IsFiniteSet(T) /\ Cardinality(T) \in Nat
  BY FS_Subset, FS_CardinalityType
<1>2. SUFFICES ASSUME bad # {} PROVE FALSE
  OBVIOUS
<1>3. PICK k \in bad : \A j \in bad : k <= j
  <2>1. bad \in SUBSET Nat
    OBVIOUS
  <2> HIDE DEF bad
  <2> QED
    BY <1>2, <2>1, LeastNumber
<1>4. k # 0
  <2> DEFINE g == [T \in SUBSET S |-> 0]
  <2>1. \A T \in SUBSET S : Cardinality(T) <= 0 => T = {}
    BY <1>1, FS_EmptySet
  <2>2. \A T \in SUBSET S : Cardinality(T) <= 0 => Sums(g, f, T)
    BY <2>1 DEF Sums
  <2>3. Some(0)
    BY <2>2
  <2> QED
    BY <2>3
<1>5. k \in Nat /\ k - 1 \in Nat
  BY <1>4
<1>6. Some(k - 1)
  <2>1. k - 1 \notin bad
    BY <1>3, <1>5
  <2> QED
    BY <1>5, <2>1
<1>7. PICK g : \A T \in SUBSET S : Cardinality(T) <= k - 1 => Sums(g, f, T)
  BY <1>6
<1> DEFINE h == [T \in SUBSET S |-> IF Cardinality(T) <= k - 1 THEN g[T]
                                    ELSE f[Pick(T)] + g[T \ {Pick(T)}]]
<1>8. ASSUME NEW T \in SUBSET S, Cardinality(T) <= k PROVE Sums(h, f, T)
  <2>1. CASE T = {}
    <3>1. Cardinality(T) <= k - 1
      BY <1>5, <2>1, FS_EmptySet
    <3> QED
      BY <1>7, <2>1, <3>1 DEF Sums
  <2>2. CASE T # {}
    <3>1. /\ T \ {Pick(T)} \in SUBSET S /\ Cardinality(T) \in Nat
          /\ Cardinality(T \ {Pick(T)}) = Cardinality(T) - 1
      BY <1>1, <2>2, Rest
    <3>2. h[T \ {Pick(T)}] = g[T \ {Pick(T)}]
      <4>1. Cardinality(T \ {Pick(T)}) <= k - 1
        BY <1>5, <1>8, <3>1
      <4> QED
        BY <3>1, <4>1
    <3>3. h[T] = f[Pick(T)] + g[T \ {Pick(T)}]
      BY <1>7, <2>2 DEF Sums
    <3> QED
      BY <2>2, <3>2, <3>3 DEF Sums
  <2> QED
    BY <2>1, <2>2
<1>9. Some(k)
  <2> HIDE DEF h
  <2> QED
    BY <1>8
<1> QED
  BY <1>9

LEMMA SumUnrolls ==
  ASSUME NEW S, IsFiniteSet(S), NEW f
  PROVE  \E g : SumFunctionOnSet(f, S) = g[S] /\ \A T \in SUBSET S : Sums(g, f, T)
<1> DEFINE Adds(g) == g = [T \in SUBSET S |-> IF T = {} THEN 0 ELSE f[Pick(T)] + g[T \ {Pick(T)}]]
<1>1. SumFunctionOnSet(f, S) = (CHOOSE g : Adds(g))[S]
  BY DEF SumFunctionOnSet, FoldFunctionOnSet, MapThenFoldSet, Pick
<1>2. PICK g : \A T \in SUBSET S : Sums(g, f, T)
  <2>1. Cardinality(S) \in Nat /\ \A T \in SUBSET S : Cardinality(T) <= Cardinality(S)
    BY FS_CardinalityType, FS_Subset
  <2>2. \E g : \A T \in SUBSET S : Cardinality(T) <= Cardinality(S) => Sums(g, f, T)
    BY <2>1, SumExists
  <2> QED
    BY <2>1, <2>2
<1> DEFINE h == [T \in SUBSET S |-> g[T]]
<1>3. Adds(h)
  BY <1>2 DEF Sums
<1>4. Adds(CHOOSE k : Adds(k))
  <2> HIDE DEF h, Adds
  <2> QED
    BY <1>3
<1>5. \A T \in SUBSET S : Sums(CHOOSE k : Adds(k), f, T)
  BY <1>4 DEF Sums
<1> QED
  BY <1>1, <1>5

LEMMA SumIsNat ==
  ASSUME NEW S, IsFiniteSet(S), NEW f, \A x \in S : f[x] \in Nat
  PROVE  SumFunctionOnSet(f, S) \in Nat
<1>1. PICK g : SumFunctionOnSet(f, S) = g[S] /\ \A T \in SUBSET S : Sums(g, f, T)
  BY SumUnrolls
<1> DEFINE bad == {n \in Nat : \E T \in SUBSET S : Cardinality(T) = n /\ g[T] \notin Nat}
<1>2. \A T \in SUBSET S : IsFiniteSet(T) /\ Cardinality(T) \in Nat
  BY FS_Subset, FS_CardinalityType
<1>3. SUFFICES ASSUME bad # {} PROVE FALSE
  BY <1>1, <1>2
<1>4. PICK n \in bad : \A k \in bad : n <= k
  <2>1. bad \in SUBSET Nat
    OBVIOUS
  <2> HIDE DEF bad
  <2> QED
    BY <1>3, <2>1, LeastNumber
<1>5. PICK T \in SUBSET S : Cardinality(T) = n /\ g[T] \notin Nat
  BY <1>4
<1>6. T # {}
  <2>1. T = {} => g[T] = 0
    BY <1>1, <1>5 DEF Sums
  <2> QED
    BY <1>5, <2>1
<1>7. /\ Pick(T) \in S /\ T \ {Pick(T)} \in SUBSET S
      /\ Cardinality(T \ {Pick(T)}) = n - 1 /\ n \in Nat /\ n - 1 \in Nat
  BY <1>2, <1>5, <1>6, Rest
<1>8. g[T \ {Pick(T)}] \in Nat
  <2>1. n - 1 \notin bad
    <3> HIDE DEF bad
    <3>1. n - 1 \in bad => n <= n - 1
      BY <1>4
    <3> QED
      BY <1>5, <1>7, <3>1
  <2> QED
    BY <1>7, <2>1
<1>9. g[T] = f[Pick(T)] + g[T \ {Pick(T)}]
  BY <1>1, <1>5, <1>6 DEF Sums
<1> QED
  BY <1>5, <1>7, <1>8, <1>9

\* A sum of which each part is at most k for each member of a set of its own.
All(A, T) == UNION {A[x] : x \in T}
Fits(g, A, k, T) ==
  g[T] \in Nat /\ IsFiniteSet(All(A, T)) /\ g[T] <= k * Cardinality(All(A, T))

LEMMA OneMore ==
  ASSUME NEW A, NEW k \in Nat, NEW g, NEW T, NEW x \in T, Fits(g, A, k, T \ {x}),
         IsFiniteSet(A[x]), NEW n \in Nat, n <= k * Cardinality(A[x]),
         g[T] = n + g[T \ {x}],
         \A y \in T : x # y => A[x] \intersect A[y] = {}
  PROVE  Fits(g, A, k, T)
<1>1. All(A, T) = A[x] \union All(A, T \ {x}) /\ A[x] \intersect All(A, T \ {x}) = {}
  <2>1. T = (T \ {x}) \union {x}
    OBVIOUS
  <2> QED
    BY <2>1 DEF All
<1>2. IsFiniteSet(All(A, T \ {x}))
  BY DEF Fits
<1>3. /\ IsFiniteSet(All(A, T))
      /\ Cardinality(All(A, T)) = Cardinality(A[x]) + Cardinality(All(A, T \ {x}))
             - Cardinality(A[x] \intersect All(A, T \ {x}))
  <2>1. /\ IsFiniteSet(A[x] \union All(A, T \ {x}))
        /\ Cardinality(A[x] \union All(A, T \ {x})) =
             Cardinality(A[x]) + Cardinality(All(A, T \ {x}))
               - Cardinality(A[x] \intersect All(A, T \ {x}))
    BY <1>2, FS_Union
  <2> QED
    BY <1>1, <2>1
<1> DEFINE a == Cardinality(A[x])
           b == Cardinality(All(A, T \ {x}))
<1>4. a \in Nat /\ b \in Nat /\ Cardinality(All(A, T)) = a + b
  <2>1. Cardinality(A[x] \intersect All(A, T \ {x})) = 0
    BY <1>1, FS_EmptySet
  <2>2. a \in Nat /\ b \in Nat
    BY <1>2, FS_CardinalityType
  <2> QED
    BY <1>3, <2>1, <2>2
<1>5. g[T \ {x}] \in Nat /\ g[T \ {x}] <= k * b /\ n <= k * a
  BY DEF Fits
<1> HIDE DEF a, b
<1>6. k * (a + b) = k * a + k * b /\ k * a \in Nat /\ k * b \in Nat
  BY <1>4
<1>7. g[T] \in Nat /\ g[T] <= k * (a + b)
  BY <1>5, <1>6
<1> QED
  BY <1>3, <1>4, <1>7 DEF Fits

LEMMA SumWithin ==
  ASSUME NEW S, IsFiniteSet(S), NEW f, NEW A, NEW k \in Nat,
         \A x \in S : IsFiniteSet(A[x]) /\ f[x] \in Nat /\ f[x] <= k * Cardinality(A[x]),
         \A x, y \in S : x # y => A[x] \intersect A[y] = {}
  PROVE  SumFunctionOnSet(f, S) <= k * Cardinality(All(A, S))
<1>1. PICK g : SumFunctionOnSet(f, S) = g[S] /\ \A T \in SUBSET S : Sums(g, f, T)
  BY SumUnrolls
<1> DEFINE bad == {n \in Nat : \E T \in SUBSET S : Cardinality(T) = n /\ ~Fits(g, A, k, T)}
<1>2. \A T \in SUBSET S : IsFiniteSet(T) /\ Cardinality(T) \in Nat
  BY FS_Subset, FS_CardinalityType
<1>3. SUFFICES ASSUME bad # {} PROVE FALSE
  BY <1>1, <1>2 DEF Fits
<1>4. PICK n \in bad : \A j \in bad : n <= j
  <2>1. bad \in SUBSET Nat
    OBVIOUS
  <2> HIDE DEF bad
  <2> QED
    BY <1>3, <2>1, LeastNumber
<1>5. PICK T \in SUBSET S : Cardinality(T) = n /\ ~Fits(g, A, k, T)
  BY <1>4
<1>6. T # {}
  <2>1. ASSUME T = {} PROVE Fits(g, A, k, T)
    <3>1. All(A, T) = {} /\ g[T] = 0
      BY <1>1, <1>5, <2>1 DEF Sums, All
    <3> QED
      BY <3>1, FS_EmptySet DEF Fits
  <2> QED
    BY <1>5, <2>1
<1>7. PICK x : x = Pick(T)
  OBVIOUS
<1>8. /\ x \in S /\ x \in T /\ T \ {x} \in SUBSET S
      /\ Cardinality(T \ {x}) = n - 1 /\ n \in Nat /\ n - 1 \in Nat
  <2>1. IsFiniteSet(T)
    BY <1>2, <1>5
  <2>2. n \in Nat
    BY <1>4
  <2>3. /\ Pick(T) \in T /\ Cardinality(T \ {Pick(T)}) = Cardinality(T) - 1
        /\ Cardinality(T) > 0
    BY <1>6, <2>1, Rest
  <2>4. x \in T /\ Cardinality(T \ {x}) = n - 1 /\ n > 0
    BY <1>5, <1>7, <2>3
  <2> HIDE DEF bad
  <2> QED
    BY <1>5, <2>2, <2>4
<1>9. Fits(g, A, k, T \ {x})
  <2>1. n - 1 \notin bad
    <3> HIDE DEF bad
    <3>1. n - 1 \in bad => n <= n - 1
      BY <1>4
    <3> QED
      BY <1>8, <3>1
  <2> QED
    BY <1>8, <2>1
<1>10. g[T] = f[x] + g[T \ {x}]
  BY <1>1, <1>5, <1>6, <1>7 DEF Sums
<1>11. Fits(g, A, k, T)
  BY <1>8, <1>9, <1>10, OneMore
<1> QED
  BY <1>5, <1>11

-----------------------------------------------------------------------------
(* The rig's invariant. *)

Said == {"ok", "drained", "error", "broken"}
Lines ==
  {<<>>, <<"READY">>, <<"ERR">>}
    \union ({"ERR"} \X (Said \union {"short"})) \union ({"OK"} \X Nat \X Nat)

HarnessTypes ==
  /\ kind \in Kinds /\ (kind = "fetcher" => FitsPartitions)
  /\ stage \in {"hello", "calibrate", "measure", "rung", "ended"}
  /\ asked \in Nat /\ calibrated \in Nat \X Nat
  /\ depth \in [1..Partitions -> Nat]
ProgramTypes ==
  /\ prog \in {"hello", "command", "run", "barrier", "collect", "reap", "exited", "gone"}
  /\ line \in Lines
WorkerTypes ==
  /\ at \in [Workers -> {"none", "early", "ready", "work", "exited"}]
  /\ offset \in [1..Partitions -> Nat]
  /\ count \in [Workers -> Nat] /\ clock \in [Workers -> Nat]
  /\ answers \in Seq(Said)
RigTypes == HarnessTypes /\ ProgramTypes /\ WorkerTypes

Running == {"barrier", "collect", "reap"}

\* Between windows no worker lives, and a line waits to be read only then.
Quiet ==
  /\ prog \notin Running => \A w \in Workers : at[w] \notin Alive
  /\ line # <<>> => prog \in {"command", "exited"} /\ (line[1] = "OK" => prog = "command")

\* A window that is measured is not over before it begins.
Sized ==
  /\ stage \in {"calibrate", "measure"} => kind = "fetcher"
  /\ stage = "measure" => \A w \in Workers : Offers(w) > 0

\* What a worker can be served in a second comes from a place of its own.
Lanes(w) == IF kind = "fetcher" THEN Split(w) ELSE {w}
Paced(w) ==
  /\ count[w] <= clock[w] * Cardinality(Lanes(w))
  /\ at[w] \in {"early", "ready"} => clock[w] = 0

Ahead(w) == kind = "fetcher" => \A p \in Split(w) : offset[p] < depth[p]
Flowing(w) == at[w] = "work" /\ clock[w] > 0 => Ahead(w)

\* An answer that is OK is that of a worker whose window was whole.
Whole == {w \in Workers : at[w] = "exited" /\ Over(clock[w]) /\ Ahead(w)}
Oks == {i \in DOMAIN answers : answers[i] = "ok"}
Earned ==
  prog \in Running => Cardinality(Oks) <= Cardinality(Whole)

\* Before a worker is let go by a broken Barrier another has said why.
Heard ==
  /\ broken => \E i \in DOMAIN answers : answers[i] = "error"
  /\ \A i \in DOMAIN answers :
       answers[i] = "broken" => \E j \in DOMAIN answers : j < i /\ answers[j] = "error"

Figures == FitsLongestWindow /\ NoPartialFigure /\ CauseIsReported

RigInv ==
  /\ Quiet /\ Sized
  /\ \A w \in Workers : Paced(w) /\ Flowing(w)
  /\ Earned /\ Heard /\ Figures
-----------------------------------------------------------------------------
(* Types.                                                                  *)

LEMMA LinesOf ==
  /\ <<>> \in Lines /\ <<"READY">> \in Lines /\ <<"ERR">> \in Lines
  /\ \A x \in Said \union {"short"} : <<"ERR", x>> \in Lines
  /\ \A m, s \in Nat : <<"OK", m, s>> \in Lines
BY DEF Lines

\* What a line says of itself.
LEMMA LineParts ==
  ASSUME NEW l \in Lines, l # <<>>
  PROVE  /\ l[1] \in {"READY", "ERR", "OK"}
         /\ l[1] = "OK" => l[2] \in Nat /\ l[3] \in Nat /\ l = <<"OK", l[2], l[3]>>
BY DEF Lines

LEMMA FewWorkers == IsFiniteSet(Workers) /\ Workers # {} /\ Cardinality(Workers) = Threads
<1>1. Threads \in Nat /\ Threads >= 1
  BY RigAssumption
<1>2. /\ IsFiniteSet(1..Threads)
      /\ Cardinality(1..Threads) = IF 1 > Threads THEN 0 ELSE Threads - 1 + 1
  BY <1>1, FS_Interval
<1>3. Cardinality(1..Threads) = Threads /\ 1 \in 1..Threads
  BY <1>1, <1>2
<1> QED
  BY <1>2, <1>3 DEF Workers

LEMMA SplitFinite ==
  ASSUME NEW w \in Workers
  PROVE  Split(w) \subseteq 1..Partitions /\ IsFiniteSet(Split(w))
<1>1. Split(w) \subseteq 1..Partitions /\ IsFiniteSet(1..Partitions)
  BY FS_Interval, RigAssumption DEF Split
<1> QED
  BY <1>1, FS_Subset

LEMMA HarnessSame ==
  ASSUME RigTypes, UNCHANGED <<kind, stage, asked, calibrated, depth>> PROVE HarnessTypes'
BY DEF RigTypes, HarnessTypes, FitsPartitions
LEMMA ProgramSame ==
  ASSUME RigTypes, UNCHANGED <<prog, line>> PROVE ProgramTypes'
BY DEF RigTypes, ProgramTypes
LEMMA WorkersSame ==
  ASSUME RigTypes, UNCHANGED <<offset, count, clock, answers>>,
         at' \in [Workers -> {"none", "early", "ready", "work", "exited"}]
  PROVE  WorkerTypes'
BY DEF RigTypes, WorkerTypes

LEMMA InitRigTyped == RigInit => RigTypes
<1> SUFFICES ASSUME RigInit PROVE RigTypes
  OBVIOUS
<1>1. HarnessTypes
  BY RigAssumption DEF RigInit, HarnessTypes
<1>2. ProgramTypes /\ WorkerTypes
  BY LinesOf DEF RigInit, ProgramTypes, WorkerTypes
<1> QED
  BY <1>1, <1>2 DEF RigTypes

LEMMA WorkTyped ==
  ASSUME RigTypes, NEW w \in Workers, Work(w)
  PROVE  RigTypes'
<1>1. PICK s \in 1..MaxFetch, got \in SUBSET (IF kind = "fetcher" THEN Split(w) ELSE {}) :
        /\ \A p \in got : offset[p] + s <= depth[p]
        /\ clock' = [clock EXCEPT ![w] = clock[w] + s]
        /\ offset' = [p \in DOMAIN offset |-> IF p \in got THEN offset[p] + s ELSE offset[p]]
        /\ IF \E p \in Split(w) : kind = "fetcher" /\ offset'[p] >= depth[p]
             THEN /\ at' = [at EXCEPT ![w] = "exited"]
                  /\ answers' = Append(answers, "drained")
                  /\ UNCHANGED count
             ELSE /\ count' = [count EXCEPT ![w] =
                         count[w] + (IF kind = "fetcher" THEN s * Cardinality(got) ELSE 1)]
                  /\ UNCHANGED <<at, answers>>
  BY DEF Work, Answer
<1>2. s \in Nat /\ Cardinality(got) \in Nat /\ s * Cardinality(got) \in Nat
  <2>1. s \in Nat
    BY RigAssumption
  <2>2. IsFiniteSet(got)
    BY SplitFinite, FS_Subset, FS_EmptySet
  <2>3. Cardinality(got) \in Nat
    BY <2>2, FS_CardinalityType
  <2> QED
    BY <2>1, <2>3
<1>3. clock' \in [Workers -> Nat] /\ offset' \in [1..Partitions -> Nat]
  BY <1>1, <1>2 DEF RigTypes, WorkerTypes
<1>4. count' \in [Workers -> Nat]
  <2>1. count[w] + s * Cardinality(got) \in Nat /\ count[w] + 1 \in Nat
    BY <1>2 DEF RigTypes, WorkerTypes
  <2> QED
    BY <1>1, <2>1 DEF RigTypes, WorkerTypes
<1>5. /\ at' \in [Workers -> {"none", "early", "ready", "work", "exited"}]
      /\ answers' \in Seq(Said)
  <2>1. at \in [Workers -> {"none", "early", "ready", "work", "exited"}] /\ answers \in Seq(Said)
    BY DEF RigTypes, WorkerTypes
  <2>2. Append(answers, "drained") \in Seq(Said)
    BY <2>1 DEF Said
  <2>3. [at EXCEPT ![w] = "exited"] \in [Workers -> {"none", "early", "ready", "work", "exited"}]
    BY <2>1
  <2>4. CASE \E p \in Split(w) : kind = "fetcher" /\ offset'[p] >= depth[p]
    BY <1>1, <2>2, <2>3, <2>4
  <2>5. CASE ~\E p \in Split(w) : kind = "fetcher" /\ offset'[p] >= depth[p]
    BY <1>1, <2>1, <2>5
  <2> QED
    BY <2>4, <2>5
<1>6. UNCHANGED <<kind, stage, asked, calibrated, depth, prog, line>>
  BY DEF Work, Worker, harness
<1> QED
  BY <1>3, <1>4, <1>5, <1>6, HarnessSame, ProgramSame DEF RigTypes, WorkerTypes

LEMMA RaiseEarlyTyped ==
  ASSUME RigTypes, RaiseEarly
  PROVE  RigTypes'
<1>1. PICK S \in (SUBSET Workers) \ {{}} :
        /\ \A w \in S : at[w] = "early"
        /\ at' = [w \in Workers |-> IF w \in S THEN "exited" ELSE at[w]]
        /\ answers' = answers \o [i \in 1..Cardinality(S) |-> "error"]
  BY DEF RaiseEarly
<1>2. Cardinality(S) \in Nat
  BY FewWorkers, FS_Subset, FS_CardinalityType
<1>3. [i \in 1..Cardinality(S) |-> "error"] \in Seq(Said)
  BY <1>2 DEF Said
<1>4. answers' \in Seq(Said)
  BY <1>1, <1>3 DEF RigTypes, WorkerTypes
<1>5. at' \in [Workers -> {"none", "early", "ready", "work", "exited"}]
  BY <1>1 DEF RigTypes, WorkerTypes
<1>6. UNCHANGED <<kind, stage, asked, calibrated, depth, prog, line, offset, count, clock>>
  BY DEF RaiseEarly, Worker, harness
<1> QED
  BY <1>4, <1>5, <1>6, HarnessSame, ProgramSame DEF RigTypes, WorkerTypes

\* The worker with the fewest above it has none: Elapsed is the longest's window.
LEMMA ElapsedIsMax ==
  ASSUME RigTypes PROVE Elapsed \in Nat /\ \A w \in Workers : clock[w] <= Elapsed
<1> DEFINE T == {clock[w] : w \in Workers}
           above(t) == {w \in Workers : clock[w] > t}
           sizes == {Cardinality(above(t)) : t \in T}
<1>1. \A w \in Workers : clock[w] \in Nat
  BY DEF RigTypes, WorkerTypes
<1>2. \A t \in T : IsFiniteSet(above(t)) /\ Cardinality(above(t)) \in Nat
  BY FewWorkers, FS_Subset, FS_CardinalityType
<1>3. PICK n \in sizes : \A m \in sizes : n <= m
  <2>1. sizes \in SUBSET Nat /\ sizes # {}
    BY <1>2, FewWorkers
  <2> HIDE DEF sizes
  <2> QED
    BY <2>1, LeastNumber
<1>4. PICK t \in T : n = Cardinality(above(t))
  BY <1>3
<1>5. ASSUME NEW w \in Workers, clock[w] > t PROVE FALSE
  <2> DEFINE u == clock[w]
  <2>1. above(u) \subseteq above(t) \ {w} /\ u \in T
    BY <1>1, <1>4, <1>5
  <2>2. w \in above(t)
    BY <1>5
  <2>3. Cardinality(above(t) \ {w}) = n - 1 /\ n \in Nat
    BY <1>2, <1>4, <2>2, FS_RemoveElement
  <2>4. Cardinality(above(u)) <= n - 1 /\ Cardinality(above(u)) \in Nat
    <3>1. IsFiniteSet(above(t) \ {w})
      BY <1>2, FS_Subset
    <3> HIDE DEF above, u, T
    <3> QED
      BY <1>2, <2>1, <2>3, <3>1, FS_Subset
  <2>5. n <= Cardinality(above(u))
    <3>1. Cardinality(above(u)) \in sizes
      BY <2>1
    <3> HIDE DEF sizes, above, u
    <3> QED
      BY <1>3, <3>1
  <2> QED
    BY <2>3, <2>4, <2>5
<1>6. \A w \in Workers : clock[w] <= t
  BY <1>1, <1>4, <1>5
<1>7. Elapsed \in T /\ \A w \in Workers : clock[w] <= Elapsed
  BY <1>6 DEF Elapsed
<1> QED
  BY <1>1, <1>7

LEMMA FirstBad ==
  ASSUME RigTypes, Bad # {}
  PROVE  \E k \in Bad : k = (CHOOSE i \in Bad : \A j \in Bad : i <= j) /\ \A j \in Bad : k <= j
<1>1. Bad \in SUBSET Nat
  BY DEF RigTypes, WorkerTypes, Bad
<1>2. \E i \in Bad : \A j \in Bad : i <= j
  BY <1>1, LeastNumber
<1> QED
  BY <1>2

LEMMA SumTyped == ASSUME RigTypes PROVE SumFunctionOnSet(count, Workers) \in Nat
<1>1. \A w \in Workers : count[w] \in Nat
  BY DEF RigTypes, WorkerTypes
<1> QED
  BY <1>1, FewWorkers, SumIsNat

LEMMA ReplyTyped ==
  ASSUME RigTypes, Reply PROVE RigTypes'
<1>1. /\ prog' = "command"
      /\ line' = IF Bad # {}
                    THEN <<"ERR", answers[CHOOSE i \in Bad : \A j \in Bad : i <= j]>>
                  ELSE IF Len(answers) < Threads THEN <<"ERR", "short">>
                  ELSE <<"OK", SumFunctionOnSet(count, Workers), Elapsed>>
      /\ UNCHANGED <<kind, stage, asked, calibrated, depth, at, offset, count, clock, answers>>
  BY DEF Reply, Main, harness, window
<1>2. line' \in Lines
  <2>1. CASE Bad # {}
    <3>1. PICK k \in Bad : k = (CHOOSE i \in Bad : \A j \in Bad : i <= j)
      BY <2>1, FirstBad
    <3>2. answers[k] \in Said
      BY DEF RigTypes, WorkerTypes, Bad
    <3> QED
      BY <1>1, <2>1, <3>1, <3>2, LinesOf
  <2>2. CASE Bad = {} /\ Len(answers) < Threads
    BY <1>1, <2>2, LinesOf
  <2>3. CASE Bad = {} /\ ~(Len(answers) < Threads)
    BY <1>1, <2>3, LinesOf, SumTyped, ElapsedIsMax
  <2> QED
    BY <2>1, <2>2, <2>3
<1>3. at \in [Workers -> {"none", "early", "ready", "work", "exited"}]
  BY DEF RigTypes, WorkerTypes
<1> QED
  BY <1>1, <1>2, <1>3, HarnessSame, WorkersSame DEF RigTypes, ProgramTypes

LEMMA ReadTyped ==
  ASSUME RigTypes, Read PROVE RigTypes'
<1>1. /\ line \in Lines /\ line # <<>> /\ line' = <<>> /\ UNCHANGED <<kind, depth, faults>>
  BY DEF RigTypes, ProgramTypes, Read
<1>2. /\ asked' \in {asked, asked + 1}
      /\ calibrated' = calibrated \/ (line[1] = "OK" /\ calibrated' = <<line[2], line[3]>>)
      /\ stage' \in {"ended", "calibrate", "measure", "rung"}
      /\ prog' \in {"gone", "run"}
      /\ at' = at \/ at' = [w \in Workers |-> "none"]
      /\ UNCHANGED <<offset, count, clock, answers>>
  BY DEF Read, Stop, Ask, Shutdown, window
<1>3. calibrated' \in Nat \X Nat
  BY <1>1, <1>2, LineParts DEF RigTypes, HarnessTypes
<1>4. HarnessTypes' /\ ProgramTypes'
  BY <1>1, <1>2, <1>3, LinesOf DEF RigTypes, HarnessTypes, ProgramTypes, FitsPartitions
<1>5. at' \in [Workers -> {"none", "early", "ready", "work", "exited"}]
  BY <1>2 DEF RigTypes, WorkerTypes
<1> QED
  BY <1>2, <1>4, <1>5, WorkersSame DEF RigTypes

LEMMA RigTyped == RigTypes /\ [RigNext]_rigVars => RigTypes'
<1> SUFFICES ASSUME RigTypes, [RigNext]_rigVars PROVE RigTypes'
  OBVIOUS
<1> DEFINE places == [Workers -> {"none", "early", "ready", "work", "exited"}]
<1>1. at \in places /\ answers \in Seq(Said)
  BY DEF RigTypes, WorkerTypes
<1>2. CASE UNCHANGED rigVars
  BY <1>1, <1>2, HarnessSame, ProgramSame, WorkersSame DEF rigVars, harness, window, RigTypes
<1>3. CASE Hello \/ HelloFails \/ Release \/ ReleaseNobody \/ NotReady \/ Collect
  <2>1. UNCHANGED <<kind, stage, asked, calibrated, depth, at, offset, count, clock, answers>>
    BY <1>3 DEF Hello, HelloFails, Release, ReleaseNobody, NotReady, Collect, Main, harness, window
  <2>2. ProgramTypes'
    BY <1>3, LinesOf
    DEF Hello, HelloFails, Release, ReleaseNobody, NotReady, Collect, RigTypes, ProgramTypes
  <2> QED
    BY <1>1, <2>1, <2>2, HarnessSame, WorkersSame DEF RigTypes
<1>4. CASE Fork
  <2>1. UNCHANGED <<kind, stage, asked, calibrated, depth>>
    BY <1>4 DEF Fork, Main, harness
  <2>2. ProgramTypes'
    BY <1>4 DEF Fork, RigTypes, ProgramTypes
  <2>3. WorkerTypes'
    BY <1>4 DEF Fork, WorkerTypes
  <2> QED
    BY <2>1, <2>2, <2>3, HarnessSame DEF RigTypes
<1>5. CASE ReadEof
  <2>1. UNCHANGED <<kind, asked, calibrated, depth, line, offset, count, clock, answers>>
    BY <1>5 DEF ReadEof, Stop
  <2>2. at' \in places /\ prog' = "gone" /\ stage' = "ended"
    BY <1>5 DEF ReadEof, Stop, Shutdown
  <2> QED
    BY <2>1, <2>2, WorkersSame DEF RigTypes, HarnessTypes, ProgramTypes, FitsPartitions
<1>6. CASE ContainerDies
  <2>1. UNCHANGED <<kind, stage, asked, calibrated, depth, offset, count, clock, answers>>
    BY <1>6 DEF ContainerDies, harness
  <2>2. at' \in places /\ ProgramTypes'
    BY <1>6, LinesOf DEF ContainerDies, ProgramTypes
  <2> QED
    BY <2>1, <2>2, HarnessSame, WorkersSame DEF RigTypes
<1>7. ASSUME NEW w \in Workers, Arrive(w) PROVE RigTypes'
  <2>1. UNCHANGED <<kind, stage, asked, calibrated, depth, prog, line, count, clock, answers>>
    BY <1>7 DEF Arrive, Worker, harness
  <2>2. at' \in places
    BY <1>1, <1>7 DEF Arrive
  <2>3. offset' \in [1..Partitions -> Nat]
    BY <1>7 DEF Arrive, RigTypes, WorkerTypes
  <2> QED
    BY <2>1, <2>2, <2>3, HarnessSame, ProgramSame DEF RigTypes, WorkerTypes
<1>8. ASSUME NEW w \in Workers, Begin(w) \/ Done(w) \/ Break(w) \/ Raise(w) \/ Killed(w)
      PROVE  RigTypes'
  <2>1. UNCHANGED <<kind, stage, asked, calibrated, depth, prog, line, offset, count, clock>>
    BY <1>8 DEF Begin, Done, Break, Raise, Killed, Worker, harness
  <2>2. at' \in places
    BY <1>1, <1>8 DEF Begin, Done, Break, Raise, Killed
  <2>3. answers' = answers \/ \E what \in Said : answers' = Append(answers, what)
    BY <1>8 DEF Begin, Done, Break, Raise, Killed, Answer, Said
  <2>4. answers' \in Seq(Said)
    BY <1>1, <2>3
  <2> QED
    BY <2>1, <2>2, <2>4, HarnessSame, ProgramSame DEF RigTypes, WorkerTypes
<1> QED
  BY <1>2, <1>3, <1>4, <1>5, <1>6, <1>7, <1>8, ReplyTyped, ReadTyped, WorkTyped, RaiseEarlyTyped
  DEF RigNext, Program, WorkerStep, Fault
-----------------------------------------------------------------------------
(* What the steps have in common.                                          *)

LEMMA NoFigure == line = <<>> => Figures
BY DEF Figures, FitsLongestWindow, NoPartialFigure, CauseIsReported

LEMMA ElsewhereNoLine ==
  ASSUME Quiet, prog \notin {"command", "exited"} PROVE line = <<>>
BY DEF Quiet

LEMMA Apart ==
  ASSUME NEW v \in Workers, NEW w \in Workers, v # w
  PROVE  Split(v) \intersect Split(w) = {}
<1>1. v \in Int /\ w \in Int
  BY DEF Workers
<1> QED
  BY <1>1 DEF Split

\* A consumer has a partition: the topic has as many as there are consumers.
LEMMA HasSome ==
  ASSUME NEW w \in Workers, FitsPartitions
  PROVE  Cardinality(Split(w)) \in Nat /\ Cardinality(Split(w)) >= 1
<1>1. w \in 1..Partitions /\ (w - 1) % Threads = w - 1
  BY RigAssumption DEF Workers, FitsPartitions
<1>2. w \in Split(w)
  BY <1>1 DEF Split
<1>3. Cardinality(Split(w)) \in Nat /\ Cardinality(Split(w)) # 0
  BY <1>2, SplitFinite, FS_CardinalityType, FS_EmptySet
<1> QED
  BY <1>3

LEMMA LanesFinite ==
  ASSUME NEW w \in Workers
  PROVE  /\ IsFiniteSet(Lanes(w)) /\ Cardinality(Lanes(w)) \in Nat
         /\ kind # "fetcher" => Cardinality(Lanes(w)) = 1
<1>1. IsFiniteSet({w}) /\ Cardinality({w}) = 1
  BY FS_Singleton
<1>2. IsFiniteSet(Lanes(w))
  BY <1>1, SplitFinite DEF Lanes
<1> QED
  BY <1>1, <1>2, FS_CardinalityType DEF Lanes

LEMMA WholeFinite == IsFiniteSet(Whole) /\ Cardinality(Whole) \in Nat
<1>1. Whole \subseteq Workers
  BY DEF Whole
<1> QED
  BY <1>1, FewWorkers, FS_Subset, FS_CardinalityType

LEMMA WholeFinitePrime == IsFiniteSet(Whole') /\ Cardinality(Whole') \in Nat
<1>1. Whole' \subseteq Workers
  BY DEF Whole
<1> QED
  BY <1>1, FewWorkers, FS_Subset, FS_CardinalityType

LEMMA OksFinite ==
  ASSUME RigTypes
  PROVE  IsFiniteSet(Oks) /\ Cardinality(Oks) \in Nat /\ Oks \subseteq 1..Len(answers)
<1>1. Oks \subseteq 1..Len(answers) /\ Len(answers) \in Nat
  BY DEF Oks, RigTypes, WorkerTypes
<1>2. IsFiniteSet(1..Len(answers))
  BY <1>1, FS_Interval
<1>3. IsFiniteSet(Oks)
  BY <1>1, <1>2, FS_Subset
<1> QED
  BY <1>1, <1>3, FS_CardinalityType

\* What Over reads is not changed by a worker.
LEMMA OverSame ==
  ASSUME UNCHANGED <<stage, calibrated, depth>>, NEW w \in Workers, clock'[w] = clock[w]
  PROVE  Over(clock[w])' <=> Over(clock[w])
BY DEF Over, Needs, Offers, Assigned, Streams

LEMMA OffersInt ==
  ASSUME RigTypes, NEW w \in Workers PROVE Offers(w) \in Int
<1>1. Assigned(w) \in Nat
  <2>1. \A p \in Split(w) : depth[p] \in Nat
    BY SplitFinite DEF RigTypes, HarnessTypes
  <2> QED
    BY <2>1, SplitFinite, SumIsNat DEF Assigned
<1>2. Streams \in Nat /\ calibrated[2] \in Nat
  BY RigAssumption DEF Streams, RigTypes, HarnessTypes
<1>3. 7 * Assigned(w) \in Nat
  BY <1>1
<1>4. 7 * Assigned(w) * Streams \in Nat
  BY <1>2, <1>3
<1> QED
  BY <1>2, <1>4 DEF Offers

\* No window is over when it begins.
LEMMA OverPositive ==
  ASSUME RigTypes, Sized, NEW s \in Nat, Over(s)
  PROVE  s > 0
<1>1. SUFFICES ASSUME s = 0 PROVE FALSE
  OBVIOUS
<1>2. Requested > 0 /\ Requested \in Nat
  BY RigAssumption
<1>3. PICK w \in Workers : stage = "measure" /\ Needs(w, 0) >= Offers(w)
  BY <1>1, <1>2 DEF Over
<1>4. Needs(w, 0) = 0
  <2>1. calibrated[1] \in Nat /\ Cardinality(Split(w)) \in Nat
    BY SplitFinite, FS_CardinalityType DEF RigTypes, HarnessTypes
  <2>2. 10 * calibrated[1] * Cardinality(Split(w)) \in Nat
    BY <2>1
  <2> QED
    BY <2>2 DEF Needs
<1>5. Offers(w) > 0
  BY <1>3 DEF Sized
<1>6. Offers(w) \in Int
  BY OffersInt
<1> QED
  BY <1>3, <1>4, <1>5, <1>6

\* An answer more.
LEMMA OneAnswer ==
  ASSUME RigTypes, NEW x, answers' = Append(answers, x)
  PROVE  /\ x # "ok" => Oks' = Oks
         /\ x = "ok" => Cardinality(Oks') = Cardinality(Oks) + 1
<1>1. /\ answers \in Seq(Said) /\ Len(answers) \in Nat
      /\ DOMAIN answers = 1..Len(answers) /\ DOMAIN answers' = 1..(Len(answers) + 1)
      /\ \A i \in 1..Len(answers) : answers'[i] = answers[i]
      /\ answers'[Len(answers) + 1] = x
  BY DEF RigTypes, WorkerTypes
<1>2. x # "ok" => Oks' = Oks
  BY <1>1 DEF Oks
<1>3. ASSUME x = "ok" PROVE Cardinality(Oks') = Cardinality(Oks) + 1
  <2>1. Oks' = Oks \union {Len(answers) + 1} /\ Len(answers) + 1 \notin Oks
    BY <1>1, <1>3 DEF Oks
  <2> QED
    BY <2>1, OksFinite, FS_AddElement
<1> QED
  BY <1>2, <1>3

LEMMA AnswerHeard ==
  ASSUME RigTypes, Heard, NEW x, answers' = Append(answers, x),
         broken' => broken \/ x = "error", x = "broken" => broken
  PROVE  Heard'
<1>1. /\ Len(answers) \in Nat
      /\ DOMAIN answers = 1..Len(answers) /\ DOMAIN answers' = 1..(Len(answers) + 1)
      /\ \A i \in 1..Len(answers) : answers'[i] = answers[i]
      /\ answers'[Len(answers) + 1] = x
  BY DEF RigTypes, WorkerTypes
<1>2. broken' => \E i \in DOMAIN answers' : answers'[i] = "error"
  <2>1. CASE x = "error"
    BY <1>1, <2>1
  <2>2. CASE broken
    BY <1>1, <2>2 DEF Heard
  <2> QED
    BY <2>1, <2>2
<1>3. ASSUME NEW i \in DOMAIN answers', answers'[i] = "broken"
      PROVE  \E j \in DOMAIN answers' : j < i /\ answers'[j] = "error"
  <2>1. CASE i \in DOMAIN answers
    <3>1. PICK j \in DOMAIN answers : j < i /\ answers[j] = "error"
      BY <1>1, <1>3, <2>1 DEF Heard
    <3> QED
      BY <1>1, <3>1
  <2>2. CASE i = Len(answers) + 1
    <3>1. PICK j \in DOMAIN answers : answers[j] = "error"
      BY <1>1, <1>3, <2>2 DEF Heard
    <3> QED
      BY <1>1, <2>2, <3>1
  <2> QED
    BY <1>1, <2>1, <2>2
<1> QED
  BY <1>2, <1>3 DEF Heard

\* A step of one worker leaves the others where they are.
Others(w) ==
  /\ UNCHANGED <<kind, stage, asked, calibrated, depth, prog, line>>
  /\ \A v \in Workers : v # w =>
       /\ at'[v] = at[v] /\ clock'[v] = clock[v] /\ count'[v] = count[v]
       /\ \A p \in Split(v) : offset'[p] = offset[p]

LEMMA OneWorker ==
  ASSUME RigTypes, RigInv, NEW w \in Workers, at[w] \in Alive, Others(w),
         Paced(w)', Flowing(w)', Heard',
         Oks' = Oks \/ (Cardinality(Oks') = Cardinality(Oks) + 1 /\ w \in Whole')
  PROVE  RigInv'
<1>1. prog \in Running /\ line = <<>> /\ prog' = prog /\ line' = line
  BY ElsewhereNoLine DEF RigInv, Quiet, Others, Running
<1>2. Quiet' /\ Figures'
  <2>1. Quiet'
    BY <1>1 DEF Quiet, Running
  <2>2. (line = <<>> => Figures)'
    BY NoFigure, PTL
  <2> QED
    BY <1>1, <2>1, <2>2
<1>3. Sized'
  BY DEF RigInv, Sized, Others, Offers, Assigned, Streams
<1>4. ASSUME NEW v \in Workers, v # w
      PROVE  Paced(v)' /\ Flowing(v)' /\ (v \in Whole => v \in Whole')
  <2>1. Paced(v) /\ Flowing(v)
    BY DEF RigInv
  <2>2. Paced(v)'
    BY <1>4, <2>1 DEF Others, Paced, Lanes
  <2>3. Ahead(v)' <=> Ahead(v)
    BY <1>4 DEF Others, Ahead
  <2>4. Flowing(v)'
    BY <1>4, <2>1, <2>3 DEF Others, Flowing
  <2>5. Over(clock[v])' <=> Over(clock[v])
    BY <1>4, OverSame DEF Others
  <2> QED
    BY <1>4, <2>2, <2>3, <2>4, <2>5 DEF Others, Whole
<1>5. Whole \subseteq Whole' /\ w \notin Whole
  <2>1. w \notin Whole
    BY DEF Whole, Alive
  <2> QED
    BY <1>4, <2>1 DEF Whole
<1>6. Earned'
  <2>1. Cardinality(Oks) \in Nat /\ Cardinality(Oks) <= Cardinality(Whole)
    BY <1>1, OksFinite DEF RigInv, Earned
  <2>2. Cardinality(Whole) <= Cardinality(Whole')
    BY <1>5, WholeFinitePrime, FS_Subset
  <2>3. w \in Whole' => Cardinality(Whole) <= Cardinality(Whole') - 1
    <3>1. SUFFICES ASSUME w \in Whole' PROVE Cardinality(Whole) <= Cardinality(Whole') - 1
      OBVIOUS
    <3>2. IsFiniteSet(Whole' \ {w}) /\ Cardinality(Whole' \ {w}) = Cardinality(Whole') - 1
      BY <3>1, WholeFinitePrime, FS_RemoveElement
    <3>3. Whole \subseteq Whole' \ {w}
      BY <1>5
    <3> QED
      BY <3>2, <3>3, FS_Subset
  <2>4. Cardinality(Oks') <= Cardinality(Whole')
    BY <2>1, <2>2, <2>3, WholeFinite, WholeFinitePrime
  <2> QED
    BY <2>4 DEF Earned
<1> QED
  BY <1>2, <1>3, <1>4, <1>6 DEF RigInv
-----------------------------------------------------------------------------
(* The workers' steps.                                                     *)

LEMMA ArriveInv ==
  ASSUME RigTypes, RigInv, NEW w \in Workers, Arrive(w) PROVE RigInv'
<1>1. PICK got \in SUBSET (IF kind = "fetcher" THEN Split(w) ELSE {}) :
        offset' = [p \in DOMAIN offset |-> IF p \in got THEN offset[p] + 1 ELSE offset[p]]
  BY DEF Arrive
<1>2. /\ at[w] = "early" /\ at' = [at EXCEPT ![w] = "ready"]
      /\ UNCHANGED <<kind, stage, asked, calibrated, depth, prog, line>>
      /\ UNCHANGED <<count, clock, broken, answers>>
  BY DEF Arrive, Worker, harness
<1>3. at'[w] = "ready" /\ \A v \in Workers : v # w => at'[v] = at[v]
  BY <1>2 DEF RigTypes, WorkerTypes
<1>4. Others(w)
  <2>1. ASSUME NEW v \in Workers, v # w, NEW p \in Split(v) PROVE offset'[p] = offset[p]
    <3>1. p \notin got /\ p \in DOMAIN offset
      BY <1>1, <2>1, Apart, SplitFinite DEF RigTypes, WorkerTypes
    <3> QED
      BY <1>1, <3>1
  <2> QED
    BY <1>2, <1>3, <2>1 DEF Others
<1>5. Paced(w)' /\ Flowing(w)'
  BY <1>2, <1>3 DEF RigInv, Paced, Lanes, Flowing
<1>6. Heard' /\ Oks' = Oks
  BY <1>2 DEF RigInv, Heard, Oks
<1>7. at[w] \in Alive
  BY <1>2 DEF Alive
<1> QED
  BY <1>4, <1>5, <1>6, <1>7, OneWorker

LEMMA BeginInv ==
  ASSUME RigTypes, RigInv, NEW w \in Workers, Begin(w) PROVE RigInv'
<1>1. /\ at[w] = "ready" /\ at' = [at EXCEPT ![w] = "work"]
      /\ UNCHANGED <<kind, stage, asked, calibrated, depth, prog, line>>
      /\ UNCHANGED <<offset, count, clock, broken, answers>>
  BY DEF Begin, Worker, harness
<1>2. at'[w] = "work" /\ \A v \in Workers : v # w => at'[v] = at[v]
  BY <1>1 DEF RigTypes, WorkerTypes
<1>3. Others(w)
  BY <1>1, <1>2 DEF Others
<1>4. clock[w] = 0
  BY <1>1 DEF RigInv, Paced
<1>5. Paced(w)' /\ Flowing(w)'
  BY <1>1, <1>2, <1>4 DEF RigInv, Paced, Lanes, Flowing
<1>6. Heard' /\ Oks' = Oks
  BY <1>1 DEF RigInv, Heard, Oks
<1>7. at[w] \in Alive
  BY <1>1 DEF Alive
<1> QED
  BY <1>3, <1>5, <1>6, <1>7, OneWorker

\* A worker that leaves, with an answer or without.
LEMMA LeaveInv ==
  ASSUME RigTypes, RigInv, NEW w \in Workers, at[w] \in Alive,
         at' = [at EXCEPT ![w] = "exited"],
         UNCHANGED <<kind, stage, asked, calibrated, depth, prog, line>>,
         UNCHANGED <<offset, count, clock>>,
         Heard',
         Oks' = Oks \/ (Cardinality(Oks') = Cardinality(Oks) + 1 /\ Over(clock[w]) /\ Ahead(w))
  PROVE  RigInv'
<1>1. at'[w] = "exited" /\ \A v \in Workers : v # w => at'[v] = at[v]
  BY DEF RigTypes, WorkerTypes
<1>2. Others(w)
  BY <1>1 DEF Others
<1>3. Paced(w)' /\ Flowing(w)'
  BY <1>1 DEF RigInv, Paced, Lanes, Flowing
<1>4. Ahead(w)' <=> Ahead(w)
  BY DEF Ahead
<1>5. Over(clock[w])' <=> Over(clock[w])
  BY OverSame
<1>6. Over(clock[w]) /\ Ahead(w) => w \in Whole'
  BY <1>1, <1>4, <1>5 DEF Whole
<1> QED
  BY <1>2, <1>3, <1>6, OneWorker

LEMMA DoneInv ==
  ASSUME RigTypes, RigInv, NEW w \in Workers, Done(w) PROVE RigInv'
<1>1. /\ at[w] = "work" /\ Over(clock[w]) /\ at' = [at EXCEPT ![w] = "exited"]
      /\ answers' = Append(answers, "ok")
      /\ UNCHANGED <<kind, stage, asked, calibrated, depth, prog, line>>
      /\ UNCHANGED <<offset, count, clock, broken>>
  BY DEF Done, Answer, Worker, harness
<1>2. Heard'
  BY <1>1, AnswerHeard DEF RigInv
<1>3. Cardinality(Oks') = Cardinality(Oks) + 1
  BY <1>1, OneAnswer
<1>4. clock[w] \in Nat
  BY DEF RigTypes, WorkerTypes
<1>5. clock[w] > 0
  BY <1>1, <1>4, OverPositive DEF RigInv
<1>6. Ahead(w)
  BY <1>1, <1>5 DEF RigInv, Flowing
<1>7. at[w] \in Alive
  BY <1>1 DEF Alive
<1> QED
  BY <1>1, <1>2, <1>3, <1>6, <1>7, LeaveInv

LEMMA RaiseInv ==
  ASSUME RigTypes, RigInv, NEW w \in Workers, Raise(w) PROVE RigInv'
<1>1. /\ at[w] = "work" /\ at' = [at EXCEPT ![w] = "exited"]
      /\ answers' = Append(answers, "error")
      /\ UNCHANGED <<kind, stage, asked, calibrated, depth, prog, line>>
      /\ UNCHANGED <<offset, count, clock>>
  BY DEF Raise, Answer, Worker, harness
<1>2. Heard'
  BY <1>1, AnswerHeard DEF RigInv
<1>3. Oks' = Oks
  BY <1>1, OneAnswer
<1>4. at[w] \in Alive
  BY <1>1 DEF Alive
<1> QED
  BY <1>1, <1>2, <1>3, <1>4, LeaveInv

LEMMA BreakInv ==
  ASSUME RigTypes, RigInv, NEW w \in Workers, Break(w) PROVE RigInv'
<1>1. /\ at[w] = "ready" /\ broken /\ at' = [at EXCEPT ![w] = "exited"]
      /\ answers' = Append(answers, "broken")
      /\ UNCHANGED <<kind, stage, asked, calibrated, depth, prog, line>>
      /\ UNCHANGED <<offset, count, clock, broken>>
  BY DEF Break, Answer, Worker, harness
<1>2. Heard'
  BY <1>1, AnswerHeard DEF RigInv
<1>3. Oks' = Oks
  BY <1>1, OneAnswer
<1>4. at[w] \in Alive
  BY <1>1 DEF Alive
<1> QED
  BY <1>1, <1>2, <1>3, <1>4, LeaveInv

LEMMA KilledInv ==
  ASSUME RigTypes, RigInv, NEW w \in Workers, Killed(w) PROVE RigInv'
<1>1. /\ at[w] \in Alive /\ at' = [at EXCEPT ![w] = "exited"]
      /\ UNCHANGED <<kind, stage, asked, calibrated, depth, prog, line>>
      /\ UNCHANGED <<offset, count, clock, broken, answers>>
  BY DEF Killed, Worker, harness
<1>2. Heard' /\ Oks' = Oks
  BY <1>1 DEF RigInv, Heard, Oks
<1> QED
  BY <1>1, <1>2, LeaveInv

\* In s seconds a consumer is served at most s messages of each of its partitions,
\* and a thread's target takes one block.
LEMMA StillPaced ==
  ASSUME NEW C \in Nat, NEW n \in Nat, NEW t \in Nat, NEW s \in Nat, NEW g \in Nat,
         n <= t * C, g <= s * C
  PROVE  n <= (t + s) * C /\ n + g <= (t + s) * C
<1>1. (t + s) * C = t * C + s * C /\ t * C \in Nat /\ s * C \in Nat
  OBVIOUS
<1> QED
  BY <1>1

LEMMA WorkInv ==
  ASSUME RigTypes, RigInv, NEW w \in Workers, Work(w) PROVE RigInv'
<1> DEFINE drained == \E p \in Split(w) : kind = "fetcher" /\ offset'[p] >= depth[p]
<1>1. PICK s \in 1..MaxFetch, got \in SUBSET (IF kind = "fetcher" THEN Split(w) ELSE {}) :
        /\ clock' = [clock EXCEPT ![w] = clock[w] + s]
        /\ offset' = [p \in DOMAIN offset |-> IF p \in got THEN offset[p] + s ELSE offset[p]]
        /\ IF drained
             THEN /\ at' = [at EXCEPT ![w] = "exited"]
                  /\ answers' = Append(answers, "drained")
                  /\ UNCHANGED count
             ELSE /\ count' = [count EXCEPT ![w] =
                         count[w] + (IF kind = "fetcher" THEN s * Cardinality(got) ELSE 1)]
                  /\ UNCHANGED <<at, answers>>
  BY DEF Work, Answer
<1>2. /\ at[w] = "work" /\ UNCHANGED broken
      /\ UNCHANGED <<kind, stage, asked, calibrated, depth, prog, line>>
  BY DEF Work, Worker, harness
<1> HIDE DEF drained
<1>3. s \in Nat /\ s >= 1
  BY RigAssumption
<1>4. clock'[w] = clock[w] + s /\ \A v \in Workers : v # w => clock'[v] = clock[v]
  BY <1>1 DEF RigTypes, WorkerTypes
<1>5. \A v \in Workers : v # w => at'[v] = at[v] /\ count'[v] = count[v]
  BY <1>1 DEF RigTypes, WorkerTypes
<1>6. Others(w)
  <2>1. ASSUME NEW v \in Workers, v # w, NEW p \in Split(v) PROVE offset'[p] = offset[p]
    <3>1. p \notin got /\ p \in DOMAIN offset
      BY <1>1, <2>1, Apart, SplitFinite DEF RigTypes, WorkerTypes
    <3> QED
      BY <1>1, <3>1
  <2> QED
    BY <1>2, <1>4, <1>5, <2>1 DEF Others
<1> DEFINE C == Cardinality(Lanes(w))
           g == IF kind = "fetcher" THEN s * Cardinality(got) ELSE 1
<1>7. C \in Nat /\ g \in Nat /\ g <= s * C
  <2>1. C \in Nat /\ (kind # "fetcher" => C = 1)
    BY LanesFinite
  <2>2. CASE kind = "fetcher"
    <3>1. got \subseteq Lanes(w)
      BY <2>2 DEF Lanes
    <3>2. Cardinality(got) \in Nat /\ Cardinality(got) <= C
      BY <3>1, LanesFinite, FS_Subset, FS_CardinalityType
    <3>3. \A a \in Nat, b \in Nat : a <= b => s * a <= s * b /\ s * a \in Nat
      BY <1>3
    <3>4. s * Cardinality(got) <= s * C /\ s * Cardinality(got) \in Nat
      BY <2>1, <3>2, <3>3
    <3> QED
      BY <2>1, <2>2, <3>4
  <2>3. CASE kind # "fetcher"
    BY <1>3, <2>1, <2>3
  <2> QED
    BY <2>2, <2>3
<1>8. count'[w] = count[w] \/ count'[w] = count[w] + g
  BY <1>1 DEF RigTypes, WorkerTypes
<1>9. Lanes(w)' = Lanes(w)
  BY <1>2 DEF Lanes
<1>10. Paced(w)'
  <2>1. at'[w] \notin {"early", "ready"}
    BY <1>1, <1>2 DEF RigTypes, WorkerTypes
  <2>2. count[w] \in Nat /\ clock[w] \in Nat /\ count[w] <= clock[w] * C
    BY DEF RigTypes, WorkerTypes, RigInv, Paced
  <2>3. count[w] <= (clock[w] + s) * C /\ count[w] + g <= (clock[w] + s) * C
    <3> HIDE DEF C, g
    <3> QED
      BY <1>3, <1>7, <2>2, StillPaced
  <2>4. count'[w] <= clock'[w] * C
    <3> HIDE DEF C, g
    <3> QED
      BY <1>4, <1>8, <2>3
  <2> QED
    BY <1>9, <2>1, <2>4 DEF Paced
<1>11. Flowing(w)'
  <2>1. CASE drained
    <3>1. at'[w] = "exited"
      BY <1>1, <2>1 DEF RigTypes, WorkerTypes
    <3> QED
      BY <3>1 DEF Flowing
  <2>2. CASE ~drained
    <3>1. offset' \in [1..Partitions -> Nat]
      BY <1>1, <1>3 DEF RigTypes, WorkerTypes
    <3>2. ASSUME kind' = "fetcher", NEW p \in Split(w) PROVE offset'[p] < depth'[p]
      <4>1. offset'[p] \in Nat /\ depth[p] \in Nat
        BY <3>1, SplitFinite DEF RigTypes, HarnessTypes
      <4>2. ~(offset'[p] >= depth[p])
        BY <1>2, <2>2, <3>2 DEF drained
      <4> QED
        BY <1>2, <4>1, <4>2
    <3> QED
      BY <3>2 DEF Flowing, Ahead
  <2> QED
    BY <2>1, <2>2
<1>12. Heard' /\ Oks' = Oks
  <2>1. CASE drained
    BY <1>1, <1>2, <2>1, AnswerHeard, OneAnswer DEF RigInv
  <2>2. CASE ~drained
    BY <1>1, <1>2, <2>2 DEF RigInv, Heard, Oks
  <2> QED
    BY <2>1, <2>2
<1>13. at[w] \in Alive
  BY <1>2 DEF Alive
<1> QED
  BY <1>6, <1>10, <1>11, <1>12, <1>13, OneWorker

LEMMA RaiseEarlyInv ==
  ASSUME RigTypes, RigInv, RaiseEarly PROVE RigInv'
<1>1. PICK S \in (SUBSET Workers) \ {{}} :
        /\ \A w \in S : at[w] = "early"
        /\ at' = [w \in Workers |-> IF w \in S THEN "exited" ELSE at[w]]
        /\ answers' = answers \o [i \in 1..Cardinality(S) |-> "error"]
  BY DEF RaiseEarly
<1>2. UNCHANGED <<kind, stage, asked, calibrated, depth, prog, line, offset, count, clock, broken>>
  BY DEF RaiseEarly, Worker, harness
<1>3. prog \in Running /\ line = <<>>
  <2>1. PICK w \in S : at[w] = "early" /\ w \in Workers
    BY <1>1
  <2> QED
    BY <2>1, ElsewhereNoLine DEF RigInv, Quiet, Running, Alive
<1>4. Quiet' /\ Figures'
  <2>1. Quiet'
    BY <1>2, <1>3 DEF Quiet, Running
  <2>2. (line = <<>> => Figures)'
    BY NoFigure, PTL
  <2> QED
    BY <1>2, <1>3, <2>1, <2>2
<1>5. Sized'
  BY <1>2 DEF RigInv, Sized, Offers, Assigned, Streams
<1>6. ASSUME NEW w \in Workers
      PROVE  Paced(w)' /\ Flowing(w)' /\ (w \in Whole => w \in Whole')
  <2>1. Paced(w) /\ Flowing(w)
    BY DEF RigInv
  <2>2. at'[w] = at[w] \/ (at[w] = "early" /\ at'[w] = "exited")
    BY <1>1
  <2>3. Ahead(w)' <=> Ahead(w)
    BY <1>2 DEF Ahead
  <2>4. Over(clock[w])' <=> Over(clock[w])
    BY <1>2, OverSame
  <2>5. Paced(w)'
    BY <1>2, <2>1, <2>2 DEF Paced, Lanes
  <2>6. Flowing(w)'
    BY <1>2, <2>1, <2>2, <2>3 DEF Flowing
  <2> QED
    BY <2>2, <2>3, <2>4, <2>5, <2>6 DEF Whole
<1>7. Cardinality(S) \in Nat
  BY FewWorkers, FS_Subset, FS_CardinalityType
<1> DEFINE n == Len(answers)
           m == Cardinality(S)
<1>8. /\ n \in Nat /\ DOMAIN answers = 1..n /\ DOMAIN answers' = 1..(n + m)
      /\ \A i \in 1..n : answers'[i] = answers[i]
      /\ \A i \in 1..(n + m) : i > n => answers'[i] = "error"
  <2>1. answers \in Seq(Said) /\ n \in Nat /\ DOMAIN answers = 1..n
    BY DEF RigTypes, WorkerTypes
  <2> DEFINE more == [i \in 1..m |-> "error"]
  <2>2. more \in Seq(Said) /\ Len(more) = m /\ \A i \in 1..m : more[i] = "error"
    BY <1>7 DEF Said
  <2> HIDE DEF more
  <2>3. /\ DOMAIN (answers \o more) = 1..(n + m)
        /\ \A i \in 1..n : (answers \o more)[i] = answers[i]
        /\ \A i \in 1..(n + m) : i > n => (answers \o more)[i] = more[i - n]
    BY <1>7, <2>1, <2>2
  <2>4. \A i \in 1..(n + m) : i > n => i - n \in 1..m
    BY <1>7, <2>1
  <2>5. answers' = answers \o more
    BY <1>1 DEF more
  <2> QED
    BY <2>1, <2>2, <2>3, <2>4, <2>5
<1>9. Oks' = Oks
  BY <1>7, <1>8 DEF Oks
<1>10. Heard'
  <2>1. \A i \in DOMAIN answers : i \in DOMAIN answers' /\ answers'[i] = answers[i]
    BY <1>7, <1>8
  <2>2. broken' => \E i \in DOMAIN answers' : answers'[i] = "error"
    BY <1>2, <2>1 DEF RigInv, Heard
  <2>3. ASSUME NEW i \in DOMAIN answers', answers'[i] = "broken"
        PROVE  \E j \in DOMAIN answers' : j < i /\ answers'[j] = "error"
    <3>1. i \in DOMAIN answers /\ answers[i] = "broken"
      BY <1>7, <1>8, <2>3
    <3>2. PICK j \in DOMAIN answers : j < i /\ answers[j] = "error"
      BY <3>1 DEF RigInv, Heard
    <3> QED
      BY <2>1, <3>2
  <2> QED
    BY <2>2, <2>3 DEF Heard
<1>11. Earned'
  <2>1. Whole \subseteq Whole'
    BY <1>6 DEF Whole
  <2>2. Cardinality(Whole) <= Cardinality(Whole')
    BY <2>1, WholeFinitePrime, FS_Subset
  <2>3. Cardinality(Oks') <= Cardinality(Whole')
    BY <1>3, <1>9, <2>2, OksFinite, WholeFinite, WholeFinitePrime DEF RigInv, Earned
  <2> QED
    BY <2>3 DEF Earned
<1> QED
  BY <1>4, <1>5, <1>6, <1>10, <1>11 DEF RigInv

-----------------------------------------------------------------------------
(* The steps of the program and of the harness.                            *)

\* What the program or the harness does with no worker alive, or the program between
\* two lines.
LEMMA HelloInv ==
  ASSUME RigTypes, RigInv, Hello \/ HelloFails PROVE RigInv'
<1>1. /\ prog = "hello" /\ prog' \in {"command", "exited"}
      /\ line' \in {<<>>, <<"READY">>, <<"ERR">>}
      /\ UNCHANGED <<kind, stage, asked, calibrated, depth, at, offset, count, clock,
                     broken, answers>>
  BY DEF Hello, HelloFails, Main, harness, window
<1>2. line' # <<>> => line'[1] # "OK"
  BY <1>1
<1>3. Quiet'
  BY <1>1, <1>2 DEF RigInv, Quiet, Running
<1>4. Figures'
  BY <1>1, <1>2 DEF Figures, FitsLongestWindow, NoPartialFigure, CauseIsReported
<1>5. Sized' /\ Earned' /\ Heard'
  BY <1>1 DEF RigInv, Sized, Offers, Assigned, Streams, Earned, Running, Heard
<1>6. \A w \in Workers : Paced(w)' /\ Flowing(w)'
  BY <1>1 DEF RigInv, Paced, Lanes, Flowing, Ahead
<1> QED
  BY <1>3, <1>4, <1>5, <1>6 DEF RigInv

LEMMA ForkInv ==
  ASSUME RigTypes, RigInv, Fork PROVE RigInv'
<1>1. /\ prog = "run" /\ prog' = "barrier" /\ answers' = <<>> /\ broken' = FALSE
      /\ at' = [w \in Workers |-> "early"] /\ count' = [w \in Workers |-> 0]
      /\ clock' = [w \in Workers |-> 0]
      /\ UNCHANGED <<kind, stage, calibrated, depth, line>>
  BY DEF Fork, Main, harness
<1>2. line = <<>>
  BY <1>1, ElsewhereNoLine DEF RigInv
<1>3. Quiet' /\ Figures'
  <2>1. (line = <<>> => Figures)'
    BY NoFigure, PTL
  <2> QED
    BY <1>1, <1>2, <2>1 DEF Quiet, Running
<1>4. Sized'
  BY <1>1 DEF RigInv, Sized, Offers, Assigned, Streams
<1>5. ASSUME NEW w \in Workers PROVE Paced(w)' /\ Flowing(w)'
  <2>1. Cardinality(Lanes(w)) \in Nat /\ Lanes(w)' = Lanes(w)
    BY <1>1, LanesFinite DEF Lanes
  <2>2. 0 * Cardinality(Lanes(w)) = 0
    BY <2>1
  <2>3. Paced(w)'
    BY <1>1, <2>1, <2>2 DEF Paced
  <2> QED
    BY <1>1, <2>3 DEF Flowing
<1>6. Earned'
  <2>1. Oks' = {}
    BY <1>1 DEF Oks
  <2>2. Cardinality(Oks') = 0
    BY <2>1, FS_EmptySet
  <2> QED
    BY <2>2, WholeFinitePrime DEF Earned
<1>7. Heard'
  BY <1>1 DEF Heard
<1> QED
  BY <1>3, <1>4, <1>5, <1>6, <1>7 DEF RigInv

LEMMA WaitInv ==
  ASSUME RigTypes, RigInv, Release \/ NotReady \/ Collect PROVE RigInv'
<1>1. /\ prog \in Running /\ prog' \in Running
      /\ UNCHANGED <<kind, stage, asked, calibrated, depth, line, at, offset, count, clock,
                     broken, answers>>
  BY DEF Release, NotReady, Collect, Main, harness, window, Running
<1>2. line = <<>>
  BY <1>1, ElsewhereNoLine DEF RigInv, Running
<1>3. Quiet' /\ Figures'
  <2>1. (line = <<>> => Figures)'
    BY NoFigure, PTL
  <2> QED
    BY <1>1, <1>2, <2>1 DEF Quiet
<1>4. Sized' /\ Heard'
  BY <1>1 DEF RigInv, Sized, Offers, Assigned, Streams, Heard
<1>5. \A w \in Workers : Paced(w)' /\ Flowing(w)'
  BY <1>1 DEF RigInv, Paced, Lanes, Flowing, Ahead
<1>6. Earned'
  <2>1. \A w \in Workers : Over(clock[w])' <=> Over(clock[w])
    BY <1>1, OverSame
  <2>2. Whole' = Whole /\ Oks' = Oks
    BY <1>1, <2>1 DEF Whole, Ahead, Oks
  <2> QED
    BY <1>1, <2>2 DEF RigInv, Earned
<1> QED
  BY <1>3, <1>4, <1>5, <1>6 DEF RigInv

\* Nobody is alive any more and no line is left to read, or the one there was has been
\* read: what is left of a window is its figures.
LEMMA OverAndDone ==
  ASSUME RigTypes, RigInv, UNCHANGED <<kind, depth, count, clock, offset, broken, answers>>,
         prog' \notin Running, \A w \in Workers : at'[w] \notin Alive, line' = <<>>, Sized'
  PROVE  RigInv'
<1>1. Quiet' /\ Figures'
  <2>1. (line = <<>> => Figures)'
    BY NoFigure, PTL
  <2> QED
    BY <2>1 DEF Quiet
<1>2. Heard' /\ Earned'
  BY DEF RigInv, Heard, Earned
<1>3. \A w \in Workers : Paced(w)' /\ Flowing(w)'
  BY DEF RigInv, Paced, Lanes, Flowing, Alive
<1> QED
  BY <1>1, <1>2, <1>3 DEF RigInv

LEMMA ReleaseNobodyInv ==
  ASSUME RigTypes, RigInv, ReleaseNobody PROVE RigInv'
<1>1. /\ prog = "barrier" /\ prog' = "exited" /\ \A w \in Workers : at[w] = "exited"
      /\ UNCHANGED <<kind, stage, calibrated, depth, line, at, offset, count, clock, broken,
                     answers>>
  BY DEF ReleaseNobody, Main, harness, window
<1>2. line' = <<>>
  BY <1>1, ElsewhereNoLine DEF RigInv
<1>3. Sized'
  BY <1>1 DEF RigInv, Sized, Offers, Assigned, Streams
<1>4. prog' \notin Running /\ \A w \in Workers : at'[w] \notin Alive
  BY <1>1 DEF Running, Alive
<1> QED
  BY <1>1, <1>2, <1>3, <1>4, OverAndDone

LEMMA ContainerDiesInv ==
  ASSUME RigTypes, RigInv, ContainerDies PROVE RigInv'
<1>1. /\ prog' = "exited" /\ line' = <<>> /\ at' = [w \in Workers |-> "exited"]
      /\ UNCHANGED <<kind, stage, calibrated, depth, offset, count, clock, broken, answers>>
  BY DEF ContainerDies, harness
<1>2. Sized'
  BY <1>1 DEF RigInv, Sized, Offers, Assigned, Streams
<1>3. prog' \notin Running /\ \A w \in Workers : at'[w] \notin Alive
  BY <1>1 DEF Running, Alive
<1> QED
  BY <1>1, <1>2, <1>3, OverAndDone

LEMMA ReadEofInv ==
  ASSUME RigTypes, RigInv, ReadEof PROVE RigInv'
<1>1. /\ prog' = "gone" /\ line' = <<>> /\ at' = [w \in Workers |-> "none"] /\ stage' = "ended"
      /\ UNCHANGED <<kind, depth, offset, count, clock, broken, answers>>
  BY DEF ReadEof, Stop, Shutdown
<1>2. Sized'
  BY <1>1 DEF Sized
<1>3. prog' \notin Running /\ \A w \in Workers : at'[w] \notin Alive
  BY <1>1 DEF Running, Alive
<1> QED
  BY <1>1, <1>2, <1>3, OverAndDone

\* A measured window lasts: a calibration that served anything, times a window of at
\* least MinWindow, is within what the consumer has been offered.
LEMMA OffersLast ==
  ASSUME NEW n \in Nat, n > 0, NEW C \in Nat, C >= 1, NEW f \in Int,
         ~(10 * n * C * MinWindow > f)
  PROVE  f > 0
<1>1. MinWindow \in Nat /\ MinWindow >= 1
  BY RigAssumption
<1>2. n * C \in Nat /\ n * C >= 1
  OBVIOUS
<1> DEFINE a == 10 * n * C
<1>3. a \in Nat /\ a >= 1
  BY <1>2
<1> HIDE DEF a
<1>4. a * MinWindow >= 1 /\ a * MinWindow \in Nat
  BY <1>1, <1>3
<1> QED
  BY <1>4 DEF a

LEMMA ReadInv ==
  ASSUME RigTypes, RigInv, Read PROVE RigInv'
<1>1. /\ line \in Lines /\ line # <<>> /\ line' = <<>>
      /\ prog' \in {"gone", "run"} /\ (at' = at \/ at' = [w \in Workers |-> "none"])
      /\ UNCHANGED <<kind, depth, offset, count, clock, broken, answers>>
  BY DEF RigTypes, ProgramTypes, Read, Stop, Ask, Shutdown, window
<1>2. \A w \in Workers : at[w] \notin Alive
  BY <1>1 DEF RigInv, Quiet, Running
<1>3. prog' \notin Running /\ \A w \in Workers : at'[w] \notin Alive
  BY <1>1, <1>2 DEF Running, Alive
<1>4. \/ stage' \in {"ended", "rung"}
      \/ stage' = "calibrate" /\ kind = "fetcher"
      \/ /\ stage = "calibrate" /\ stage' = "measure" /\ ~TooShort'
         /\ line[1] = "OK" /\ line[2] > 0 /\ line[3] > 0 /\ calibrated' = <<line[2], line[3]>>
  BY DEF Read, Stop, Ask
<1>5. CASE stage' \in {"ended", "rung"} \/ (stage' = "calibrate" /\ kind = "fetcher")
  <2>1. Sized'
    BY <1>1, <1>5 DEF Sized
  <2> QED
    BY <1>1, <1>3, <2>1, OverAndDone
<1>6. CASE /\ stage = "calibrate" /\ stage' = "measure" /\ ~TooShort'
           /\ line[1] = "OK" /\ line[2] > 0 /\ line[3] > 0 /\ calibrated' = <<line[2], line[3]>>
  <2>1. kind = "fetcher" /\ FitsPartitions
    BY <1>6 DEF RigInv, Sized, RigTypes, HarnessTypes
  <2>2. RigTypes'
    BY ReadTyped
  <2>3. ASSUME NEW w \in Workers PROVE Offers(w)' > 0
    <3>1. ~(10 * calibrated'[1] * Cardinality(Split(w)) * MinWindow > Offers(w)')
      BY <1>6 DEF TooShort, Needs
    <3>2. calibrated'[1] \in Nat /\ calibrated'[1] > 0
      BY <1>1, <1>6, LineParts
    <3>3. Cardinality(Split(w)) \in Nat /\ Cardinality(Split(w)) >= 1
      BY <2>1, HasSome
    <3>4. Offers(w)' \in Int
      <4>1. (RigTypes => Offers(w) \in Int)'
        BY OffersInt, PTL
      <4> QED
        BY <2>2, <4>1
    <3> QED
      BY <3>1, <3>2, <3>3, <3>4, OffersLast
  <2>4. Sized'
    BY <1>1, <1>6, <2>1, <2>3 DEF Sized
  <2> QED
    BY <1>1, <1>3, <2>4, OverAndDone
<1> QED
  BY <1>4, <1>5, <1>6

-----------------------------------------------------------------------------
(* The reply.                                                              *)

LEMMA AllOk ==
  ASSUME RigTypes, Earned, prog = "reap", Bad = {}, ~(Len(answers) < Threads)
  PROVE  Whole = Workers
<1>1. answers \in Seq(Said) /\ Len(answers) \in Nat /\ DOMAIN answers = 1..Len(answers)
  BY DEF RigTypes, WorkerTypes
<1>2. Oks = 1..Len(answers)
  BY <1>1 DEF Bad, Oks
<1>3. Cardinality(Oks) = Len(answers)
  <2>1. Cardinality(1..Len(answers)) = IF 1 > Len(answers) THEN 0 ELSE Len(answers) - 1 + 1
    BY <1>1, FS_Interval
  <2> QED
    BY <1>1, <1>2, <2>1
<1>4. Threads \in Nat /\ Cardinality(Whole) >= Threads
  BY <1>1, <1>3, RigAssumption, WholeFinite DEF Earned, Running
<1>5. Whole \subseteq Workers
  BY DEF Whole
<1>6. Cardinality(Whole) <= Threads /\ (Cardinality(Whole) = Threads => Whole = Workers)
  BY <1>5, FewWorkers, FS_Subset
<1> QED
  BY <1>4, <1>6, WholeFinite

LEMMA UpTo ==
  ASSUME NEW C \in Nat, NEW t \in Nat, NEW e \in Nat, t <= e, NEW n \in Nat, n <= t * C
  PROVE  n <= e * C
<1>1. t * C <= e * C /\ t * C \in Nat /\ e * C \in Nat
  OBVIOUS
<1> QED
  BY <1>1

\* The sum of what the workers counted, against the seconds of the longest.
LEMMA SumServed ==
  ASSUME RigTypes, \A w \in Workers : Paced(w)
  PROVE  SumFunctionOnSet(count, Workers) <=
           Elapsed * (IF kind = "fetcher" THEN Partitions ELSE Threads)
<1> DEFINE A == [w \in Workers |-> Lanes(w)]
           n == SumFunctionOnSet(count, Workers)
<1>1. Elapsed \in Nat /\ \A w \in Workers : clock[w] <= Elapsed
  BY ElapsedIsMax
<1>2. PICK e \in Nat : e = Elapsed
  BY <1>1
<1>3. ASSUME NEW w \in Workers
      PROVE  IsFiniteSet(A[w]) /\ count[w] \in Nat /\ count[w] <= e * Cardinality(A[w])
  <2>1. count[w] \in Nat /\ clock[w] \in Nat /\ count[w] <= clock[w] * Cardinality(Lanes(w))
    BY DEF RigTypes, WorkerTypes, Paced
  <2>2. IsFiniteSet(Lanes(w)) /\ Cardinality(Lanes(w)) \in Nat /\ clock[w] <= e
    BY <1>1, <1>2, LanesFinite
  <2>3. count[w] <= e * Cardinality(Lanes(w))
    BY <2>1, <2>2, UpTo
  <2> QED
    BY <2>1, <2>2, <2>3
<1>4. \A v, w \in Workers : v # w => A[v] \intersect A[w] = {}
  BY Apart DEF Lanes
<1>5. n <= e * Cardinality(All(A, Workers))
  <2> HIDE DEF A
  <2> QED
    BY <1>3, <1>4, FewWorkers, SumWithin
<1> DEFINE k == IF kind = "fetcher" THEN Partitions ELSE Threads
<1>6. k \in Nat /\ Cardinality(All(A, Workers)) \in Nat /\ Cardinality(All(A, Workers)) <= k
  <2>1. CASE kind = "fetcher"
    <3>1. All(A, Workers) \subseteq 1..Partitions
      BY <2>1, SplitFinite DEF All, Lanes
    <3>2. Partitions \in Nat /\ Partitions >= 1
      BY RigAssumption
    <3>3. IsFiniteSet(1..Partitions) /\ Cardinality(1..Partitions) = Partitions
      <4>1. /\ IsFiniteSet(1..Partitions)
            /\ Cardinality(1..Partitions) = IF 1 > Partitions THEN 0 ELSE Partitions - 1 + 1
        BY <3>2, FS_Interval
      <4> QED
        BY <3>2, <4>1
    <3> HIDE DEF A
    <3> QED
      BY <2>1, <3>1, <3>2, <3>3, FS_Subset, FS_CardinalityType
  <2>2. CASE kind # "fetcher"
    <3>1. All(A, Workers) \subseteq Workers
      BY <2>2 DEF All, Lanes
    <3> HIDE DEF A
    <3> QED
      BY <2>2, <3>1, FewWorkers, FS_Subset, FS_CardinalityType, RigAssumption
  <2> QED
    BY <2>1, <2>2
<1>7. n \in Nat
  BY SumTyped
<1>8. n <= e * k
  <2> DEFINE c == Cardinality(All(A, Workers))
  <2>1. c \in Nat /\ c <= k /\ n <= e * c
    BY <1>5, <1>6
  <2> HIDE DEF n, k, c
  <2>2. e * c <= e * k /\ e * c \in Nat /\ e * k \in Nat
    BY <1>6, <2>1
  <2> QED
    BY <1>7, <2>1, <2>2
<1> QED
  BY <1>2, <1>8

LEMMA ReplyInv ==
  ASSUME RigTypes, RigInv, Reply PROVE RigInv'
<1>1. /\ prog = "reap" /\ prog' = "command" /\ \A w \in Workers : at[w] \notin Alive
      /\ line' = IF Bad # {}
                    THEN <<"ERR", answers[CHOOSE i \in Bad : \A j \in Bad : i <= j]>>
                  ELSE IF Len(answers) < Threads THEN <<"ERR", "short">>
                  ELSE <<"OK", SumFunctionOnSet(count, Workers), Elapsed>>
      /\ UNCHANGED <<kind, stage, asked, calibrated, depth, at, offset, count, clock,
                     broken, answers>>
  BY DEF Reply, Main, harness, window
<1>2. Quiet' /\ Earned'
  BY <1>1 DEF Quiet, Earned, Running
<1>3. Sized' /\ Heard'
  BY <1>1 DEF RigInv, Sized, Offers, Assigned, Streams, Heard
<1>4. \A w \in Workers : Paced(w)' /\ Flowing(w)'
  BY <1>1 DEF RigInv, Paced, Lanes, Flowing, Ahead
<1>5. Figures'
  <2>1. CASE Bad # {}
    <3>1. PICK k \in Bad : k = (CHOOSE i \in Bad : \A j \in Bad : i <= j) /\ \A j \in Bad : k <= j
      BY <2>1, FirstBad
    <3>2. line' = <<"ERR", answers[k]>>
      BY <1>1, <2>1, <3>1
    <3>3. answers[k] # "broken"
      <4>1. SUFFICES ASSUME answers[k] = "broken" PROVE FALSE
        OBVIOUS
      <4>2. PICK j \in DOMAIN answers : j < k /\ answers[j] = "error"
        BY <3>1, <4>1 DEF RigInv, Heard, Bad
      <4>3. j \in Bad
        BY <4>2 DEF Bad
      <4>4. k \in Nat /\ j \in Nat
        BY <3>1, <4>2 DEF Bad, RigTypes, WorkerTypes
      <4> QED
        BY <3>1, <4>2, <4>3, <4>4
    <3> QED
      BY <3>2, <3>3 DEF Figures, FitsLongestWindow, NoPartialFigure, CauseIsReported
  <2>2. CASE Bad = {} /\ Len(answers) < Threads
    <3>1. line' = <<"ERR", "short">>
      BY <1>1, <2>2
    <3> QED
      BY <3>1 DEF Figures, FitsLongestWindow, NoPartialFigure, CauseIsReported
  <2>3. CASE Bad = {} /\ ~(Len(answers) < Threads)
    <3>1. line' = <<"OK", SumFunctionOnSet(count, Workers), Elapsed>>
      BY <1>1, <2>3
    <3>2. Whole = Workers
      BY <1>1, <2>3, AllOk DEF RigInv
    <3>3. \A w \in Workers : Over(clock[w])' /\ Ahead(w)
      BY <1>1, <3>2, OverSame DEF Whole
    <3>4. NoPartialFigure'
      BY <1>1, <3>3 DEF NoPartialFigure, Ahead
    <3>5. SumFunctionOnSet(count, Workers) <=
            Elapsed * (IF kind = "fetcher" THEN Partitions ELSE Threads)
      BY SumServed DEF RigInv
    <3>6. FitsLongestWindow'
      BY <1>1, <3>1, <3>5 DEF FitsLongestWindow
    <3>7. CauseIsReported'
      BY <3>1 DEF CauseIsReported
    <3> QED
      BY <3>4, <3>6, <3>7 DEF Figures
  <2> QED
    BY <2>1, <2>2, <2>3
<1> QED
  BY <1>2, <1>3, <1>4, <1>5 DEF RigInv

-----------------------------------------------------------------------------
LEMMA InitRigInv == RigInit => RigInv
<1> SUFFICES ASSUME RigInit PROVE RigInv
  OBVIOUS
<1>1. /\ line = <<>> /\ prog = "hello" /\ at = [w \in Workers |-> "none"] /\ stage = "hello"
      /\ count = [w \in Workers |-> 0] /\ clock = [w \in Workers |-> 0]
      /\ broken = FALSE /\ answers = <<>>
  BY DEF RigInit
<1>2. Quiet /\ Sized /\ Earned /\ Heard
  BY <1>1 DEF Quiet, Sized, Earned, Heard, Running, Alive
<1>3. ASSUME NEW w \in Workers PROVE Paced(w) /\ Flowing(w)
  <2>1. 0 * Cardinality(Lanes(w)) = 0
    BY LanesFinite
  <2> QED
    BY <1>1, <2>1 DEF Paced, Flowing
<1> QED
  BY <1>1, <1>2, <1>3, NoFigure DEF RigInv

LEMMA RigStep == RigTypes /\ RigInv /\ [RigNext]_rigVars => RigInv'
<1> SUFFICES ASSUME RigTypes, RigInv, [RigNext]_rigVars PROVE RigInv'
  OBVIOUS
<1>1. CASE UNCHANGED rigVars
  <2>1. UNCHANGED <<kind, stage, asked, calibrated, prog, line, depth, at, offset, count, clock,
                    started, broken, answers>>
    BY <1>1 DEF rigVars, harness, window
  <2>2. Quiet' /\ Sized' /\ Heard'
    BY <2>1 DEF RigInv, Quiet, Sized, Offers, Assigned, Streams, Heard
  <2>3. \A w \in Workers : Paced(w)' /\ Flowing(w)'
    BY <2>1 DEF RigInv, Paced, Lanes, Flowing, Ahead
  <2>4. \A w \in Workers : Over(clock[w])' <=> Over(clock[w])
    BY <2>1, OverSame
  <2>5. Earned'
    <3>1. Whole' = Whole /\ Oks' = Oks
      BY <2>1, <2>4 DEF Whole, Ahead, Oks
    <3> QED
      BY <2>1, <3>1 DEF RigInv, Earned
  <2>6. Figures'
    BY <2>1, <2>4 DEF RigInv, Figures, FitsLongestWindow, NoPartialFigure, CauseIsReported
  <2> QED
    BY <2>2, <2>3, <2>5, <2>6 DEF RigInv
<1> QED
  BY <1>1, HelloInv, ForkInv, WaitInv, ReleaseNobodyInv, ReplyInv, ReadInv, ReadEofInv, ContainerDiesInv,
     RaiseEarlyInv, RaiseInv, KilledInv, ArriveInv, BeginInv, WorkInv, DoneInv, BreakInv
  DEF RigNext, Program, WorkerStep, Fault

LEMMA RigHolds == RigSpec => [](RigTypes /\ RigInv)
<1>1. RigInit => RigTypes /\ RigInv
  BY InitRigTyped, InitRigInv
<1>2. RigTypes /\ RigInv /\ [RigNext]_rigVars => (RigTypes /\ RigInv)'
  BY RigTyped, RigStep
<1> QED
  BY <1>1, <1>2, PTL DEF RigSpec

\* What a figure counts fits the longest of its workers' windows, each worker on the clock
\* it started itself (run of fetcher.rs and of inserter.rs). That is a bound for workers
\* that start together; windows that lie apart can be divided by less than they took,
\* which Rig_apart.cfg shows.
THEOREM RateFits == RigSpec => []FitsLongestWindow
<1>1. RigTypes /\ RigInv => FitsLongestWindow
  BY DEF RigInv, Figures
<1> QED
  BY <1>1, RigHolds, PTL

\* A figure is of a window every worker saw to its end: none of them was drained, failed
\* or went without an answer.
THEOREM NoPartial == RigSpec => []NoPartialFigure
<1>1. RigTypes /\ RigInv => NoPartialFigure
  BY DEF RigInv, Figures
<1> QED
  BY <1>1, RigHolds, PTL

\* A refused window reports a refusal of its own, never a worker let go because of one.
THEOREM CauseReported == RigSpec => []CauseIsReported
<1>1. RigTypes /\ RigInv => CauseIsReported
  BY DEF RigInv, Figures
<1> QED
  BY <1>1, RigHolds, PTL

-----------------------------------------------------------------------------
(* A pass only runs down.                                                  *)

Windows == IF kind = "fetcher" THEN 2 ELSE IF MaxRungs > 1 THEN MaxRungs ELSE 1

\* The program greets once, and a pass asks for no more windows than it has.
AskInv ==
  /\ prog = "hello" \/ line = <<"READY">> => stage = "hello"
  /\ stage = "hello" => asked = 0
  /\ stage = "calibrate" => asked = 1
  /\ stage = "rung" => kind # "fetcher"
  /\ asked \in 0..Windows

LEMMA WindowsTyped == Windows \in Nat \ {0}
BY RigAssumption DEF Windows

LEMMA AskInit == RigInit => AskInv
<1> SUFFICES ASSUME RigInit PROVE AskInv
  OBVIOUS
<1>1. 0 \in 0..Windows
  BY WindowsTyped
<1> QED
  BY <1>1 DEF RigInit, AskInv

\* A pass that asks, of whichever line it has read.
LEMMA ReadAsks ==
  ASSUME RigTypes, RigInv, AskInv, Read
  PROVE  /\ AskInv' /\ kind' = kind
         /\ \/ asked' = asked /\ prog' = "gone"
            \/ asked' = asked + 1 /\ prog' = "run"
<1>1. /\ line # <<>> /\ line' = <<>> /\ kind' = kind /\ asked \in 0..Windows
      /\ line \in Lines /\ Windows \in Nat \ {0} /\ Windows' = Windows
  BY WindowsTyped DEF Read, AskInv, RigTypes, ProgramTypes, Windows
<1>2. line[1] = "READY" => line = <<"READY">>
  BY <1>1, LineParts DEF Lines
<1>3. line' # <<"READY">>
  BY <1>1
<1>4. CASE Stop \/ (stage' = "ended" /\ Shutdown /\ asked' = asked)
  <2>1. stage' = "ended" /\ prog' = "gone" /\ asked' = asked
    BY <1>4 DEF Stop, Shutdown
  <2> QED
    BY <1>1, <1>3, <2>1 DEF AskInv
<1>5. CASE \E ask \in {"calibrate", "measure", "rung"} : Ask(ask)
  <2>1. stage' \in {"calibrate", "measure", "rung"} /\ prog' = "run" /\ asked' = asked + 1
    BY <1>5 DEF Ask
  <2>2. CASE stage' = "calibrate" /\ line[1] = "READY" /\ kind = "fetcher"
    <3>1. asked = 0 /\ Windows = 2
      BY <1>2, <2>2 DEF AskInv, Windows
    <3> QED
      BY <1>1, <1>3, <2>1, <2>2, <3>1 DEF AskInv
  <2>3. CASE stage' = "rung" /\ line[1] = "READY" /\ kind = "inserter"
    <3>1. asked = 0
      BY <1>2, <2>3 DEF AskInv
    <3> QED
      BY <1>1, <1>3, <2>1, <2>3, <3>1 DEF AskInv
  <2>4. CASE stage' = "measure" /\ stage = "calibrate"
    <3>1. asked = 1 /\ Windows = 2
      BY <2>4 DEF AskInv, RigInv, Sized, Windows
    <3> QED
      BY <1>1, <1>3, <2>1, <2>4, <3>1 DEF AskInv
  <2>5. CASE stage' = "rung" /\ stage = "rung" /\ asked < MaxRungs
    <3>1. kind # "fetcher" /\ MaxRungs \in Nat
      BY <2>5, RigAssumption DEF AskInv
    <3>2. asked + 1 \in 0..Windows
      BY <1>1, <2>5, <3>1 DEF Windows
    <3> QED
      BY <1>1, <1>3, <2>1, <2>5, <3>1, <3>2 DEF AskInv
  <2> QED
    BY <1>5, <2>1, <2>2, <2>3, <2>4, <2>5 DEF Read, Ask, Stop
<1>6. \/ Stop \/ (stage' = "ended" /\ Shutdown /\ asked' = asked)
      \/ \E ask \in {"calibrate", "measure", "rung"} : Ask(ask)
  BY DEF Read
<1>7. CASE Stop \/ (stage' = "ended" /\ Shutdown /\ asked' = asked)
  BY <1>1, <1>4, <1>7 DEF Stop, Shutdown
<1>8. CASE \E ask \in {"calibrate", "measure", "rung"} : Ask(ask)
  BY <1>1, <1>5, <1>8 DEF Ask
<1> QED
  BY <1>6, <1>7, <1>8

\* Everything else leaves the questions as they are.
LEMMA AskKept ==
  ASSUME AskInv, UNCHANGED <<kind, asked>>,
         stage' \in {stage, "ended"}, prog' # "hello",
         line' = <<"READY">> => (prog = "hello" \/ line = <<"READY">>) /\ stage' = stage
  PROVE  AskInv'
BY DEF AskInv, Windows

\* The program's place on its way to a reply.
Place(x) ==
  CASE x = "hello" -> 7 [] x = "run" -> 6 [] x = "barrier" -> 5 [] x = "collect" -> 4
    [] x = "reap" -> 3 [] x = "command" -> 2 [] x = "exited" -> 1 [] x = "gone" -> 0

LEMMA PlaceTyped ==
  \A x \in {"hello", "command", "run", "barrier", "collect", "reap", "exited", "gone"} :
    Place(x) \in 0..7
BY DEF Place

LEMMA LeftOfProgram ==
  ASSUME RigTypes, AskInv
  PROVE  /\ WindowsLeft \in Nat /\ Place(prog) \in 0..7
         /\ ProgramLeft = 8 * WindowsLeft + Place(prog)
<1>1. WindowsLeft = Windows - asked
  BY DEF WindowsLeft, Windows
<1>2. WindowsLeft \in Nat
  BY <1>1, WindowsTyped DEF AskInv
<1>3. Place(prog) \in 0..7
  BY PlaceTyped DEF RigTypes, ProgramTypes
<1>4. ProgramLeft = 8 * WindowsLeft + Place(prog)
  BY DEF ProgramLeft, Place
<1> QED
  BY <1>2, <1>3, <1>4

\* Its steps go on to a later place, or take one of the windows that are left.
LEMMA Nearer ==
  ASSUME RigTypes, RigTypes', AskInv, UNCHANGED <<kind, asked>>
  PROVE  /\ Place(prog') < Place(prog) => ProgramLeft' < ProgramLeft
         /\ prog' = prog => ProgramLeft' = ProgramLeft
<1>1. PICK w \in Nat, a \in 0..7 : w = WindowsLeft /\ a = Place(prog)
  BY LeftOfProgram
<1>2. PICK b \in 0..7 : b = Place(prog')
  BY PlaceTyped DEF RigTypes, ProgramTypes
<1>3. ProgramLeft = 8 * w + a
  BY <1>1, LeftOfProgram
<1>4. ProgramLeft' = 8 * w + b
  <2>1. WindowsLeft' = w
    BY <1>1 DEF WindowsLeft
  <2> QED
    BY <1>2, <2>1 DEF ProgramLeft, Place
<1>5. b < a => 8 * w + b < 8 * w + a
  OBVIOUS
<1> QED
  BY <1>1, <1>2, <1>3, <1>4, <1>5

LEMMA OneWindowLess ==
  ASSUME RigTypes, AskInv, kind' = kind, asked' = asked + 1, prog' = "run"
  PROVE  ProgramLeft' < ProgramLeft
<1>1. PICK w \in Nat, a \in 0..7 : w = WindowsLeft /\ a = Place(prog)
  BY LeftOfProgram
<1>2. ProgramLeft = 8 * w + a
  BY <1>1, LeftOfProgram
<1>3. WindowsLeft' = w - 1
  <2>1. PICK n \in Nat, all \in Nat : n = asked /\ all = Windows
    BY WindowsTyped DEF AskInv
  <2>2. w = all - n
    BY <1>1, <2>1 DEF WindowsLeft, Windows
  <2>3. WindowsLeft' = all - (n + 1)
    BY <2>1 DEF WindowsLeft, Windows
  <2>4. all - (n + 1) = all - n - 1
    OBVIOUS
  <2> QED
    BY <2>2, <2>3, <2>4
<1>4. ProgramLeft' = 8 * (w - 1) + 6
  BY <1>3 DEF ProgramLeft
<1>5. 8 * (w - 1) + 6 < 8 * w + a
  OBVIOUS
<1> QED
  BY <1>2, <1>4, <1>5

\* What is left of a worker's window, by what it does.
WorkersAt ==
  \A w \in Workers :
    /\ at[w] = "early" => WorkerLeft(w) = Requested + 3
    /\ at[w] = "ready" => WorkerLeft(w) = Requested + 2
    /\ at[w] = "work" /\ clock[w] < Requested => WorkerLeft(w) = 1 + (Requested - clock[w])
    /\ at[w] = "work" /\ ~(clock[w] < Requested) => WorkerLeft(w) = 1
    /\ at[w] \in {"none", "exited"} => WorkerLeft(w) = 0

LEMMA AtWork == WorkersAt
BY DEF WorkersAt, WorkerLeft

LEMMA LeftOfWorker ==
  ASSUME RigTypes, WorkersAt, NEW w \in Workers
  PROVE  /\ WorkerLeft(w) \in 0..(Requested + 3)
         /\ at[w] \in Alive => WorkerLeft(w) > 0
         /\ at[w] = "work" => WorkerLeft(w) < Requested + 2
<1>1. Requested \in Nat \ {0} /\ clock[w] \in Nat
      /\ at[w] \in {"none", "early", "ready", "work", "exited"}
  BY RigAssumption DEF RigTypes, WorkerTypes
<1>2. CASE at[w] = "work" /\ clock[w] < Requested
  <2>1. PICK c \in Nat : c = clock[w] /\ c < Requested
    BY <1>1, <1>2
  <2>2. WorkerLeft(w) = 1 + (Requested - c)
    BY <1>2, <2>1 DEF WorkersAt
  <2>3. 1 + (Requested - c) \in 1..(Requested + 1)
    BY <1>1, <2>1
  <2> QED
    BY <1>1, <1>2, <2>2, <2>3
<1>3. CASE at[w] = "work" /\ ~(clock[w] < Requested)
  <2>1. WorkerLeft(w) = 1
    BY <1>3 DEF WorkersAt
  <2> QED
    BY <1>1, <1>3, <2>1
<1>4. CASE at[w] = "early"
  <2>1. WorkerLeft(w) = Requested + 3
    BY <1>4 DEF WorkersAt
  <2> QED
    BY <1>1, <1>4, <2>1
<1>5. CASE at[w] = "ready"
  <2>1. WorkerLeft(w) = Requested + 2
    BY <1>5 DEF WorkersAt
  <2> QED
    BY <1>1, <1>5, <2>1
<1>6. CASE at[w] \in {"none", "exited"}
  <2>1. WorkerLeft(w) = 0
    BY <1>6 DEF WorkersAt
  <2> QED
    BY <1>1, <1>6, <2>1 DEF Alive
<1> QED
  BY <1>1, <1>2, <1>3, <1>4, <1>5, <1>6

\* A window that is not over has seconds left of those that were asked for.
LEMMA NotOverYet ==
  ASSUME NEW c \in Nat, ~Over(c)
  PROVE  c < Requested
<1>1. Requested \in Nat /\ Requested >= 1
  BY RigAssumption
<1>2. CASE stage = "calibrate"
  <2>1. ~(c >= 1)
    BY <1>2 DEF Over
  <2> QED
    BY <1>1, <2>1
<1>3. CASE stage # "calibrate"
  <2>1. ~(c >= Requested)
    BY <1>3 DEF Over
  <2> QED
    BY <1>1, <2>1
<1> QED
  BY <1>2, <1>3

\* A worker that leaves, and one that does not move.
LEMMA Leaves ==
  ASSUME RigTypes, WorkersAt, WorkersAt', NEW w \in Workers, at[w] \in Alive, at'[w] = "exited"
  PROVE  WorkerLeft(w)' < WorkerLeft(w)
<1>1. WorkerLeft(w)' = 0
  BY DEF WorkersAt
<1> QED
  BY <1>1, LeftOfWorker

LEMMA Rests ==
  ASSUME RigTypes, NEW w \in Workers, at'[w] = at[w], clock'[w] = clock[w]
  PROVE  WorkerLeft(w)' <= WorkerLeft(w)
<1>1. WorkerLeft(w)' = WorkerLeft(w)
  BY DEF WorkerLeft
<1>2. WorkerLeft(w) \in 0..(Requested + 3)
  BY AtWork, LeftOfWorker
<1>3. Requested \in Nat
  BY RigAssumption
<1> QED
  BY <1>1, <1>2, <1>3

\* A worker's step, which touches no other.
LEMMA OneRunsDown ==
  ASSUME RigTypes, RigTypes', NEW w \in Workers, WorkerLeft(w)' < WorkerLeft(w),
         \A v \in Workers : v # w => at'[v] = at[v] /\ clock'[v] = clock[v]
  PROVE  WorkersRunDown
<1>1. PICK r \in Nat, a \in Nat : r = WorkerLeft(w) /\ a = WorkerLeft(w)'
  <2>1. WorkersAt' /\ WorkersAt
    BY AtWork, PTL
  <2>2. WorkerLeft(w) \in 0..(Requested + 3)
    BY <2>1, LeftOfWorker
  <2>3. WorkerLeft(w)' \in Nat
    <3>1. PICK x \in {"none", "early", "ready", "work", "exited"}, c \in Nat :
            x = at'[w] /\ c = clock'[w]
      BY DEF RigTypes, WorkerTypes
    <3>2. Requested \in Nat
      BY RigAssumption
    <3>3. c < Requested => 1 + (Requested - c) \in Nat
      BY <3>2
    <3> QED
      BY <2>1, <3>1, <3>2, <3>3 DEF WorkersAt
  <2> QED
    BY <2>2, <2>3
<1>2. WorkerLeft(w)' <= WorkerLeft(w)
  <2>1. a < r => a <= r
    OBVIOUS
  <2> QED
    BY <1>1, <2>1
<1>3. \A v \in Workers : v # w => WorkerLeft(v)' <= WorkerLeft(v)
  BY Rests
<1> QED
  BY <1>2, <1>3 DEF WorkersRunDown

LEMMA RaiseEarlyRunsDown ==
  ASSUME RigTypes, RigTypes', RaiseEarly
  PROVE  WorkersRunDown
<1>1. PICK S \in (SUBSET Workers) \ {{}} :
        /\ \A w \in S : at[w] = "early"
        /\ at' = [w \in Workers |-> IF w \in S THEN "exited" ELSE at[w]] /\ clock' = clock
  BY DEF RaiseEarly
<1>2. WorkersAt /\ WorkersAt'
  BY AtWork, PTL
<1>3. ASSUME NEW w \in S PROVE WorkerLeft(w)' < WorkerLeft(w)
  <2>1. w \in Workers /\ at[w] \in Alive /\ at'[w] = "exited"
    BY <1>1, <1>3 DEF Alive
  <2> QED
    BY <1>2, <2>1, Leaves
<1>4. ASSUME NEW w \in Workers PROVE WorkerLeft(w)' <= WorkerLeft(w)
  <2>1. CASE w \in S
    <3>1. WorkerLeft(w)' = 0 /\ WorkerLeft(w) = Requested + 3
      BY <1>1, <1>2, <2>1 DEF WorkersAt
    <3>2. Requested \in Nat
      BY RigAssumption
    <3> QED
      BY <3>1, <3>2
  <2>2. CASE w \notin S
    BY <1>1, <2>2, Rests
  <2> QED
    BY <2>1, <2>2
<1> QED
  BY <1>1, <1>3, <1>4 DEF WorkersRunDown

\* A fetch or a POST takes a second at the least.
LEMMA WorkRunsDown ==
  ASSUME RigTypes, RigTypes', NEW w \in Workers, Work(w)
  PROVE  WorkersRunDown
<1>1. WorkersAt /\ WorkersAt'
  BY AtWork, PTL
<1>2. PICK c \in Nat : c = clock[w]
  BY DEF RigTypes, WorkerTypes
<1>3. at[w] = "work" /\ c < Requested
  <2>1. ~Over(c) /\ at[w] = "work"
    BY <1>2 DEF Work
  <2> QED
    BY <2>1, NotOverYet
<1>4. PICK s \in 1..MaxFetch :
        /\ clock' = [clock EXCEPT ![w] = clock[w] + s]
        /\ at' = [at EXCEPT ![w] = "exited"] \/ at' = at
  BY DEF Work
<1>5. \A v \in Workers : v # w => at'[v] = at[v] /\ clock'[v] = clock[v]
  BY <1>4 DEF RigTypes, WorkerTypes
<1>6. WorkerLeft(w)' < WorkerLeft(w)
  <2>1. CASE at'[w] = "exited"
    <3>1. at[w] \in Alive
      BY <1>3 DEF Alive
    <3> QED
      BY <1>1, <2>1, <3>1, Leaves
  <2>2. CASE at'[w] # "exited"
    <3>1. at'[w] = "work" /\ clock'[w] = c + s
      BY <1>2, <1>3, <1>4, <2>2 DEF RigTypes, WorkerTypes
    <3>2. WorkerLeft(w) = 1 + (Requested - c)
      BY <1>1, <1>2, <1>3 DEF WorkersAt
    <3>3. WorkerLeft(w)' = 1 + (Requested - (c + s)) \/ WorkerLeft(w)' = 1
      BY <1>1, <3>1 DEF WorkersAt
    <3>4. s \in Nat /\ s >= 1 /\ Requested \in Nat
      BY <1>4, RigAssumption
    <3>5. 1 + (Requested - (c + s)) < 1 + (Requested - c) /\ 1 < 1 + (Requested - c)
      BY <1>3, <3>4
    <3> QED
      BY <3>2, <3>3, <3>5
  <2> QED
    BY <2>1, <2>2
<1> QED
  BY <1>5, <1>6, OneRunsDown

LEMMA WorkersRun ==
  ASSUME RigTypes, RigTypes', NEW w \in Workers,
         Arrive(w) \/ Begin(w) \/ Done(w) \/ Break(w) \/ Raise(w) \/ Killed(w)
  PROVE  WorkersRunDown
<1>1. WorkersAt /\ WorkersAt'
  BY AtWork, PTL
<1>2. clock' = clock /\ \E x : at' = [at EXCEPT ![w] = x]
  BY DEF Arrive, Begin, Done, Break, Raise, Killed
<1>3. \A v \in Workers : v # w => at'[v] = at[v] /\ clock'[v] = clock[v]
  BY <1>2 DEF RigTypes, WorkerTypes
<1>4. CASE Arrive(w)
  <2>1. at[w] = "early" /\ at'[w] = "ready"
    BY <1>4 DEF Arrive, RigTypes, WorkerTypes
  <2>2. WorkerLeft(w) = Requested + 3 /\ WorkerLeft(w)' = Requested + 2
    BY <1>1, <2>1 DEF WorkersAt
  <2>3. WorkerLeft(w)' < WorkerLeft(w)
    BY <2>2, RigAssumption
  <2> QED
    BY <1>3, <2>3, OneRunsDown
<1>5. CASE Begin(w)
  <2>1. at[w] = "ready" /\ at'[w] = "work"
    BY <1>5 DEF Begin, RigTypes, WorkerTypes
  <2>2. PICK c \in Nat : c = clock'[w]
    BY DEF RigTypes, WorkerTypes
  <2>3. WorkerLeft(w) = Requested + 2 /\ WorkerLeft(w)' \in {1 + (Requested - c), 1}
    BY <1>1, <2>1, <2>2 DEF WorkersAt
  <2>4. 1 + (Requested - c) < Requested + 2 /\ 1 < Requested + 2
    BY RigAssumption
  <2>5. WorkerLeft(w)' < WorkerLeft(w)
    BY <2>3, <2>4
  <2> QED
    BY <1>3, <2>5, OneRunsDown
<1>6. CASE Done(w) \/ Break(w) \/ Raise(w) \/ Killed(w)
  <2>1. at[w] \in Alive /\ at'[w] = "exited"
    BY <1>6 DEF Done, Break, Raise, Killed, Alive, RigTypes, WorkerTypes
  <2>2. WorkerLeft(w)' < WorkerLeft(w)
    BY <1>1, <2>1, Leaves
  <2> QED
    BY <1>3, <2>2, OneRunsDown
<1> QED
  BY <1>4, <1>5, <1>6

\* The program's own steps, and the end of it.
LEMMA ProgramNearer ==
  ASSUME RigTypes, RigTypes', RigInv, AskInv, Program \/ ReadEof \/ ContainerDies
  PROVE  AskInv' /\ ProgramLeft' < ProgramLeft
<1>1. /\ UNCHANGED <<kind, asked>> /\ Place(prog') < Place(prog)
      /\ stage' \in {stage, "ended"} /\ prog' # "hello"
      /\ line' = <<"READY">> => (prog = "hello" \/ line = <<"READY">>) /\ stage' = stage
  <2>1. CASE Hello
    BY <2>1 DEF Hello, Main, harness, Place
  <2>2. CASE HelloFails
    <3>1. line' # <<"READY">>
      BY <2>2 DEF HelloFails
    <3> QED
      BY <2>2, <3>1 DEF HelloFails, Main, harness, Place
  <2>3. CASE Fork \/ Release \/ ReleaseNobody \/ NotReady \/ Collect
    BY <2>3 DEF Fork, Release, ReleaseNobody, NotReady, Collect, Main, harness, Place
  <2>4. CASE Reply
    <3>1. line' # <<"READY">>
      <4>1. line'[1] \in {"ERR", "OK"}
        BY <2>4 DEF Reply
      <4> QED
        BY <4>1
    <3> QED
      BY <2>4, <3>1 DEF Reply, Main, harness, Place
  <2>5. CASE ReadEof
    BY <2>5 DEF ReadEof, Stop, Shutdown, Place
  <2>6. CASE ContainerDies
    <3>1. prog \in {"command", "run", "barrier", "collect", "reap"}
      BY <2>6 DEF ContainerDies, RigTypes, ProgramTypes
    <3>2. prog' = "exited" /\ line' = <<>> /\ UNCHANGED <<kind, asked, stage>>
      BY <2>6 DEF ContainerDies, harness
    <3>3. Place(prog') < Place(prog)
      BY <3>1, <3>2 DEF Place
    <3> QED
      BY <3>2, <3>3
  <2> QED
    BY <2>1, <2>2, <2>3, <2>4, <2>5, <2>6 DEF Program
<1>2. AskInv'
  BY <1>1, AskKept
<1> QED
  BY <1>1, <1>2, Nearer

LEMMA WorkerKeeps ==
  ASSUME RigTypes, RigTypes', AskInv, WorkerStep \/ RaiseEarly \/ \E w \in Workers : Raise(w) \/ Killed(w)
  PROVE  AskInv' /\ ProgramLeft' = ProgramLeft /\ WorkersRunDown
<1>1. UNCHANGED <<kind, stage, asked, prog, line>>
  BY DEF WorkerStep, Arrive, Begin, Work, Done, Break, RaiseEarly, Raise, Killed, Worker, harness
<1>2. AskInv'
  BY <1>1 DEF AskInv, Windows
<1>3. ProgramLeft' = ProgramLeft
  BY <1>1, Nearer
<1>4. WorkersRunDown
  BY RaiseEarlyRunsDown, WorkRunsDown, WorkersRun DEF WorkerStep
<1> QED
  BY <1>2, <1>3, <1>4

LEMMA RunsDownStep ==
  ASSUME RigTypes, RigTypes', RigInv, AskInv, RigNext
  PROVE  AskInv' /\ (ProgramLeft' < ProgramLeft \/ (ProgramLeft' = ProgramLeft /\ WorkersRunDown))
<1>1. CASE Read
  <2>1. CASE asked' = asked /\ prog' = "gone"
    <3>1. prog \in {"command", "exited"} /\ kind' = kind /\ AskInv'
      BY <1>1, ReadAsks DEF Read, RigInv, Quiet
    <3>2. Place(prog') < Place(prog)
      BY <2>1, <3>1 DEF Place
    <3> QED
      BY <2>1, <3>1, <3>2, Nearer
  <2>2. CASE asked' = asked + 1 /\ prog' = "run"
    BY <1>1, <2>2, ReadAsks, OneWindowLess
  <2> QED
    BY <1>1, <2>1, <2>2, ReadAsks
<1>2. CASE Program \/ ReadEof \/ ContainerDies
  BY <1>2, ProgramNearer
<1>3. CASE WorkerStep \/ RaiseEarly \/ \E w \in Workers : Raise(w) \/ Killed(w)
  BY <1>3, WorkerKeeps
<1> QED
  BY <1>1, <1>2, <1>3 DEF RigNext, Fault

LEMMA LeftIsCounted ==
  ASSUME RigTypes, AskInv, WorkersAt
  PROVE  ProgramLeft \in Nat /\ \A w \in Workers : WorkerLeft(w) \in Nat
<1>1. PICK n \in Nat, a \in 0..7 : n = WindowsLeft /\ a = Place(prog)
  BY LeftOfProgram
<1>2. ProgramLeft = 8 * n + a
  BY <1>1, LeftOfProgram
<1>3. 8 * n + a \in Nat
  OBVIOUS
<1>4. \A w \in Workers : WorkerLeft(w) \in Nat
  BY LeftOfWorker
<1> QED
  BY <1>2, <1>3, <1>4

\* A pass only runs down, for any topic, number of workers, fetch times, windows, rungs
\* and failures: each window has its seconds, each program its way to one reply, and
\* each pass its windows (the loops of fetcher.rs and inserter.rs, and `measure_consume`
\* and `measure_ingest` before the pipe they read without a timeout).
THEOREM RigRunsDown == RigSpec => PassRunsDown
<1> DEFINE Counted == ProgramLeft \in Nat /\ \A w \in Workers : WorkerLeft(w) \in Nat
           Down == ProgramLeft' < ProgramLeft \/ (ProgramLeft' = ProgramLeft /\ WorkersRunDown)
<1>1. RigTypes /\ AskInv /\ WorkersAt => Counted
  BY LeftIsCounted
<1>2. RigTypes /\ RigTypes' /\ RigInv /\ AskInv /\ [RigNext]_rigVars => AskInv' /\ [Down]_rigVars
  <2>1. CASE UNCHANGED rigVars
    BY <2>1 DEF rigVars, harness, AskInv, Windows
  <2>2. CASE RigNext
    BY <2>2, RunsDownStep
  <2> QED
    BY <2>1, <2>2
<1> HIDE DEF Counted, Down
<1>3. RigSpec => []AskInv
  BY <1>2, AskInit, RigHolds, PTL DEF RigSpec
<1>4. RigSpec => []Counted /\ [][Down]_rigVars
  BY <1>1, <1>2, <1>3, AtWork, RigHolds, PTL DEF RigSpec
<1> QED
  BY <1>4, PTL DEF PassRunsDown, Counted, Down

=============================================================================
