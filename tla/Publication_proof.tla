------------------------- MODULE Publication_proof -------------------------
(***************************************************************************)
(* Proofs about publication, for any checkouts, sweeps, options and faults: *)
(* what can reach the page, what it ranks, and that a measurement is not    *)
(* lost in silence on its way to the main branch.                           *)
(***************************************************************************)
EXTENDS Publication, FiniteSetTheorems, TLAPS

(* A file's lines.                                                         *)

Arms == {Expand(z[1])[(z[2] % Len(Expand(z[1]))) + 1] : z \in Asks \X Nat}
Turns == {z[2] \div Len(Expand(z[1])) + 1 : z \in Asks \X Nat}
Built ==
  {r \in [id : Nat, sitting : Sweeps, arm : Arms, rep : Turns, reps : Nat,
          status : {"ok", "infra_bound", "failed"},
          group : Groups, version : Versions,
          bars : BOOLEAN, fixture : BOOLEAN, knobs : BOOLEAN] : r.knobs => r.bars}
Lines == Built \union {Garbage}
Files == {f \in [lines : Seq(Lines), open : BOOLEAN] : f.open => f.lines # <<>>}

LEMMA FileParts ==
  ASSUME NEW f \in Files
  PROVE  /\ f.lines \in Seq(Lines) /\ f.open \in BOOLEAN /\ (f.open => f.lines # <<>>)
         /\ DOMAIN f.lines = 1..Len(f.lines) /\ Len(f.lines) \in Nat
BY DEF Files

\* Two files in a row hold what either holds.
Joins(f, s, t) ==
  /\ s \o t \in Seq(Lines)
  /\ \A i \in DOMAIN s : Holds(f, s[i])
  /\ \A i \in DOMAIN t : Holds(f, t[i])
  /\ \A x : Holds(f, x) =>
       (\E i \in DOMAIN s : s[i] = x) \/ (\E i \in DOMAIN t : t[i] = x)

LEMMA HoldsBoth ==
  ASSUME NEW s \in Seq(Lines), NEW t \in Seq(Lines), NEW f, f.lines = s \o t
  PROVE  Joins(f, s, t)
<1>1. /\ s \o t \in Seq(Lines) /\ Len(s \o t) = Len(s) + Len(t)
      /\ Len(s) \in Nat /\ Len(t) \in Nat
      /\ DOMAIN s = 1..Len(s) /\ DOMAIN t = 1..Len(t) /\ DOMAIN (s \o t) = 1..(Len(s) + Len(t))
  OBVIOUS
<1>2. \A i \in 1..Len(s) : i \in 1..(Len(s) + Len(t)) /\ (s \o t)[i] = s[i]
  BY <1>1
<1>3. \A i \in 1..Len(t) : Len(s) + i \in 1..(Len(s) + Len(t)) /\ (s \o t)[Len(s) + i] = t[i]
  BY <1>1
<1>4. \A i \in DOMAIN s : Holds(f, s[i])
  BY <1>1, <1>2 DEF Holds
<1>5. \A i \in DOMAIN t : Holds(f, t[i])
  BY <1>1, <1>3 DEF Holds
<1>6. ASSUME NEW x, Holds(f, x)
      PROVE  (\E i \in DOMAIN s : s[i] = x) \/ (\E i \in DOMAIN t : t[i] = x)
  <2>1. PICK i \in 1..(Len(s) + Len(t)) : (s \o t)[i] = x
    BY <1>1, <1>6 DEF Holds
  <2>2. CASE i <= Len(s)
    BY <1>1, <1>2, <2>1, <2>2
  <2>3. CASE i > Len(s)
    <3>1. i - Len(s) \in 1..Len(t) /\ Len(s) + (i - Len(s)) = i
      BY <1>1, <2>1, <2>3
    <3> QED
      BY <1>1, <1>3, <2>1, <3>1
  <2> QED
    BY <1>1, <2>1, <2>2, <2>3
<1> QED
  BY <1>1, <1>4, <1>5, <1>6 DEF Joins

\* What is written to a file of whole lines is in it with all that was; to one that was
\* torn, a line that does not parse is.
LEMMA WriteKeeps ==
  ASSUME NEW f \in Files, NEW what \in Lines, NEW newline \in BOOLEAN, NEW g,
         g = Write(f, what, newline)
  PROVE  /\ g \in Files
         /\ Len(g.lines) = IF f.open THEN Len(f.lines) ELSE Len(f.lines) + 1
         /\ f.open => g.lines[Len(g.lines)] = Garbage
         /\ ~f.open => g.lines[Len(g.lines)] = what
         /\ \A i \in 1..(Len(g.lines) - 1) : i \in DOMAIN f.lines /\ g.lines[i] = f.lines[i]
         /\ g.lines # <<>> /\ DOMAIN g.lines = 1..Len(g.lines)
<1>1. /\ f.lines \in Seq(Lines) /\ f.open \in BOOLEAN /\ (f.open => f.lines # <<>>)
      /\ DOMAIN f.lines = 1..Len(f.lines) /\ Len(f.lines) \in Nat
  BY FileParts
<1>2. Garbage \in Lines
  BY DEF Lines
<1>3. CASE ~f.open
  <2>1. g = [lines |-> Append(f.lines, what), open |-> ~newline]
    BY <1>3 DEF Write
  <2>2. /\ Append(f.lines, what) \in Seq(Lines) /\ Len(Append(f.lines, what)) = Len(f.lines) + 1
        /\ Append(f.lines, what)[Len(f.lines) + 1] = what
        /\ \A i \in 1..Len(f.lines) : Append(f.lines, what)[i] = f.lines[i]
        /\ DOMAIN Append(f.lines, what) = 1..(Len(f.lines) + 1)
    BY <1>1
  <2> QED
    BY <1>1, <1>3, <2>1, <2>2 DEF Files
<1>4. CASE f.open
  <2> DEFINE front == Front(f.lines)
  <2>1. g = [lines |-> Append(front, Garbage), open |-> ~newline]
    BY <1>4 DEF Write
  <2>2. Len(f.lines) > 0
    BY <1>1, <1>4
  <2>3. /\ front \in Seq(Lines) /\ Len(front) = Len(f.lines) - 1
        /\ \A i \in 1..(Len(f.lines) - 1) : front[i] = f.lines[i]
    BY <1>1, <2>2 DEF Front
  <2> HIDE DEF front
  <2>4. /\ Append(front, Garbage) \in Seq(Lines) /\ Len(Append(front, Garbage)) = Len(f.lines)
        /\ Append(front, Garbage)[Len(f.lines)] = Garbage
        /\ \A i \in 1..(Len(f.lines) - 1) : Append(front, Garbage)[i] = front[i]
        /\ DOMAIN Append(front, Garbage) = 1..Len(f.lines)
    BY <1>1, <1>2, <2>2, <2>3
  <2> QED
    BY <1>1, <1>4, <2>1, <2>2, <2>3, <2>4 DEF Files
<1> QED
  BY <1>1, <1>3, <1>4

-----------------------------------------------------------------------------
(* Finite sets of numbers, and what is computed along a sequence.          *)

\* Among the subsets of a finite set there is one with no other below it.
Least(T, C) == T \in C /\ \A U \in C : U \subseteq T => U = T

LEMMA Minimal ==
  ASSUME NEW S, IsFiniteSet(S), NEW C, C \subseteq SUBSET S, C # {}
  PROVE  \E T : Least(T, C)
<1>1. C \subseteq FiniteSubsetsOf(S)
  BY FS_FiniteSubsetsOfFinite
<1>2. PICK T \in C : \A U \in C : <<U, T>> \notin StrictSubsetOrdering(S)
  BY <1>1, FS_StrictSubsetOrderingWellFounded, WFMin
<1>3. ASSUME NEW U \in C, U \subseteq T PROVE U = T
  BY <1>2, <1>3 DEF StrictSubsetOrdering
<1>4. Least(T, C)
  BY <1>3 DEF Least
<1> QED
  BY <1>4

Above(S, x) == {y \in S : y > x}

\* The member with the fewest above it has none.
LEMMA Largest ==
  ASSUME NEW S \in SUBSET Int, IsFiniteSet(S), S # {}
  PROVE  \E x \in S : \A y \in S : y <= x
<1> DEFINE C == {Above(S, x) : x \in S}
<1>1. C \subseteq SUBSET S /\ C # {}
  BY DEF Above
<1>2. PICK T : Least(T, C)
  <2> HIDE DEF C
  <2> QED
    BY <1>1, Minimal
<1>3. PICK x \in S : T = Above(S, x)
  BY <1>2 DEF Least
<1>4. ASSUME NEW y \in S, y > x PROVE FALSE
  <2>1. Above(S, y) \subseteq T
    <3>1. \A z \in S : z > y => z > x
      BY <1>4
    <3> QED
      BY <1>3, <3>1 DEF Above
  <2>2. Above(S, y) \in C
    OBVIOUS
  <2>3. y \in T /\ y \notin Above(S, y)
    BY <1>3, <1>4 DEF Above
  <2> QED
    BY <1>2, <2>1, <2>2, <2>3 DEF Least
<1>5. \A y \in S : y <= x
  BY <1>4
<1> QED
  BY <1>5

LEMMA Newer ==
  ASSUME NEW S \in SUBSET Nat, IsFiniteSet(S), S # {}
  PROVE  Max(S) \in S /\ \A y \in S : Max(S) >= y
<1>1. \E x \in S : \A y \in S : y <= x
  BY Largest
<1> QED
  BY <1>1 DEF Max

LEMMA First ==
  ASSUME NEW n \in Nat, NEW S \in SUBSET (0..n), S # {}
  PROVE  \E m \in S : \A k \in S : m <= k
<1> DEFINE T == {n - k : k \in S}
           f == [k \in S |-> n - k]
<1>1. IsFiniteSet(S)
  <2>1. IsFiniteSet(0..n)
    BY FS_Interval
  <2> QED
    BY <2>1, FS_Subset
<1>2. f \in Surjection(S, T)
  BY DEF Surjection
<1>3. IsFiniteSet(T)
  <2> HIDE DEF T, f
  <2> QED
    BY <1>1, <1>2, FS_Surjection
<1>4. T \in SUBSET Int /\ T # {}
  <2>1. \A k \in S : n - k \in Int
    OBVIOUS
  <2> QED
    BY <2>1
<1>5. PICK x \in T : \A y \in T : y <= x
  <2> HIDE DEF T
  <2> QED
    BY <1>3, <1>4, Largest
<1>6. PICK m \in S : x = n - m
  BY <1>5
<1>7. ASSUME NEW k \in S PROVE m <= k
  <2>1. n - k <= n - m
    BY <1>5, <1>6
  <2> QED
    BY <1>6, <1>7, <2>1
<1> QED
  BY <1>7

\* The prefixes of the filter, up to the n-th line.
AddedUpTo(base, lines, n, g) ==
  g = [i \in 0..n |->
         IF i = 0 THEN <<>>
         ELSE IF Holds(base, lines[i]) THEN g[i - 1]
         ELSE Append(g[i - 1], lines[i])]

LEMMA UpToExists ==
  ASSUME NEW base, NEW lines, NEW n \in Nat
  PROVE  \E g : AddedUpTo(base, lines, n, g)
<1> DEFINE S == {k \in 0..n : ~\E g : AddedUpTo(base, lines, k, g)}
<1>1. ASSUME S # {} PROVE FALSE
  <2>1. PICK k \in S : \A j \in S : k <= j
    <3>1. S \in SUBSET (0..n)
      OBVIOUS
    <3> HIDE DEF S
    <3> QED
      BY <1>1, <3>1, First
  <2>2. k \in 0..n /\ ~\E g : AddedUpTo(base, lines, k, g)
    OBVIOUS
  <2>3. k # 0
    <3>1. AddedUpTo(base, lines, 0, [i \in 0..0 |-> <<>>])
      BY DEF AddedUpTo
    <3> QED
      BY <2>2, <3>1
  <2>4. k - 1 \in 0..n /\ k - 1 \notin S
    BY <2>1, <2>2, <2>3
  <2>5. PICK g : AddedUpTo(base, lines, k - 1, g)
    BY <2>4
  <2> DEFINE h == [i \in 0..k |->
                     IF i < k THEN g[i]
                     ELSE IF Holds(base, lines[k]) THEN g[k - 1]
                     ELSE Append(g[k - 1], lines[k])]
  <2>6. ASSUME NEW i \in 0..k
        PROVE  h[i] = IF i = 0 THEN <<>>
                      ELSE IF Holds(base, lines[i]) THEN h[i - 1]
                      ELSE Append(h[i - 1], lines[i])
    <3>1. CASE i < k
      <4>1. i \in 0..(k - 1) /\ (i # 0 => i - 1 \in 0..(k - 1))
        BY <2>2, <2>6, <3>1
      <4>2. g[i] = IF i = 0 THEN <<>>
                   ELSE IF Holds(base, lines[i]) THEN g[i - 1]
                   ELSE Append(g[i - 1], lines[i])
        BY <2>5, <4>1 DEF AddedUpTo
      <4>3. h[i] = g[i] /\ (i # 0 => h[i - 1] = g[i - 1])
        BY <2>2, <3>1, <4>1
      <4> HIDE DEF h
      <4> QED
        BY <4>2, <4>3
    <3>2. CASE i = k
      <4>1. k - 1 \in 0..k /\ k - 1 < k
        BY <2>2, <2>3
      <4>2. h[k - 1] = g[k - 1]
        BY <4>1
      <4>3. h[k] = IF Holds(base, lines[k]) THEN g[k - 1] ELSE Append(g[k - 1], lines[k])
        BY <2>2
      <4> HIDE DEF h
      <4> QED
        BY <2>3, <3>2, <4>2, <4>3
    <3> QED
      BY <2>2, <2>6, <3>1, <3>2
  <2>7. AddedUpTo(base, lines, k, h)
    <3>1. h = [i \in 0..k |-> h[i]]
      OBVIOUS
    <3> HIDE DEF h
    <3> QED
      BY <2>6, <3>1 DEF AddedUpTo
  <2> QED
    BY <2>2, <2>7
<1> QED
  BY <1>1

\* The lines of a union: of the ones that came, those that the base does not hold.
LEMMA AddedHolds ==
  ASSUME NEW base, NEW lines \in Seq(Lines), NEW f, f.lines = Added(base, lines)
  PROVE  /\ f.lines \in Seq(Lines)
         /\ \A x : Holds(f, x) <=> ~Holds(base, x) /\ \E i \in DOMAIN lines : lines[i] = x
<1> DEFINE n == Len(lines)
           g == CHOOSE g : AddedUpTo(base, lines, n, g)
           Right(k) ==
             /\ g[k] \in Seq(Lines)
             /\ \A x : (\E j \in DOMAIN g[k] : g[k][j] = x) <=>
                         ~Holds(base, x) /\ \E i \in 1..k : lines[i] = x
<1>1. n \in Nat /\ DOMAIN lines = 1..n
  OBVIOUS
<1>2. AddedUpTo(base, lines, n, g)
  BY <1>1, UpToExists
<1>3. Added(base, lines) = g[n]
  BY DEF Added, AddedUpTo
<1> HIDE DEF g
<1> DEFINE S == {k \in 0..n : ~Right(k)}
<1>5. ASSUME S # {} PROVE FALSE
  <2>1. PICK k \in S : \A j \in S : k <= j
    <3>1. S \in SUBSET (0..n)
      OBVIOUS
    <3> HIDE DEF S
    <3> QED
      BY <1>1, <1>5, <3>1, First
  <2>2. k \in 0..n /\ ~Right(k)
    OBVIOUS
  <2>3. g[k] = IF k = 0 THEN <<>>
               ELSE IF Holds(base, lines[k]) THEN g[k - 1]
               ELSE Append(g[k - 1], lines[k])
    BY <1>2, <2>2 DEF AddedUpTo
  <2>4. k # 0
    BY <2>2, <2>3
  <2>5. k - 1 \in 0..n /\ k - 1 \notin S
    <3>1. k \in Int /\ k - 1 \in 0..n
      BY <1>1, <2>2, <2>4
    <3> HIDE DEF S
    <3> QED
      BY <2>1, <3>1
  <2>6. Right(k - 1)
    BY <2>5
  <2>7. lines[k] \in Lines /\ k \in 1..n /\ 1..k = 1..(k - 1) \union {k}
    BY <1>1, <2>2, <2>4
  <2> HIDE DEF S
  <2>8. CASE Holds(base, lines[k])
    <3>1. g[k] = g[k - 1]
      BY <2>3, <2>4, <2>8
    <3>2. \A x : ~Holds(base, x) /\ (\E i \in 1..k : lines[i] = x) <=>
                 ~Holds(base, x) /\ (\E i \in 1..(k - 1) : lines[i] = x)
      BY <2>7, <2>8
    <3> QED
      BY <2>2, <2>6, <3>1, <3>2
  <2>9. CASE ~Holds(base, lines[k])
    <3> DEFINE t == g[k - 1]
    <3>1. g[k] = Append(t, lines[k]) /\ t \in Seq(Lines)
      BY <2>3, <2>4, <2>6, <2>9
    <3>2. \A x : (\E j \in DOMAIN t : t[j] = x) <=>
                   ~Holds(base, x) /\ \E i \in 1..(k - 1) : lines[i] = x
      BY <2>6
    <3> HIDE DEF t
    <3>3. /\ g[k] \in Seq(Lines) /\ DOMAIN t = 1..Len(t) /\ Len(t) \in Nat
          /\ DOMAIN g[k] = 1..(Len(t) + 1) /\ g[k][Len(t) + 1] = lines[k]
          /\ \A j \in 1..Len(t) : g[k][j] = t[j]
      BY <2>7, <3>1
    <3>4. \A x : (\E j \in DOMAIN g[k] : g[k][j] = x) <=>
                   x = lines[k] \/ \E j \in DOMAIN t : t[j] = x
      <4>1. 1..(Len(t) + 1) = 1..Len(t) \union {Len(t) + 1}
        BY <3>3
      <4> QED
        BY <3>3, <4>1
    <3>5. \A x : ~Holds(base, x) /\ (\E i \in 1..k : lines[i] = x) <=>
                 \/ x = lines[k]
                 \/ ~Holds(base, x) /\ \E i \in 1..(k - 1) : lines[i] = x
      BY <2>7, <2>9
    <3>6. Right(k)
      BY <3>2, <3>3, <3>4, <3>5
    <3> QED
      BY <2>2, <3>6
  <2> QED
    BY <2>8, <2>9
<1>6. Right(n)
  BY <1>1, <1>5
<1> QED
  BY <1>1, <1>3, <1>6 DEF Holds

-----------------------------------------------------------------------------
(* The site.                                                               *)

Sound(f) == \A i \in DOMAIN f.lines : f.lines[i] # Garbage /\ RecordValid(f.lines[i])

LEMMA LoadedTyped ==
  ASSUME NEW f \in Files
  PROVE  /\ Loaded(f) \subseteq Built /\ IsFiniteSet(Loaded(f))
         /\ Sound(f) => \A r \in Loaded(f) : ~r.bars /\ ~r.knobs /\ ~r.fixture
<1> DEFINE g == [i \in DOMAIN f.lines |-> f.lines[i]]
           T == {f.lines[i] : i \in DOMAIN f.lines}
<1>1. f.lines \in Seq(Lines) /\ DOMAIN f.lines = 1..Len(f.lines) /\ Len(f.lines) \in Nat
  BY FileParts
<1>2. \A i \in DOMAIN f.lines : f.lines[i] \in Lines
  BY <1>1
<1>3. Loaded(f) \subseteq Built
  BY <1>2 DEF Loaded, Lines
<1>4. g \in Surjection(DOMAIN f.lines, T)
  BY DEF Surjection
<1>5. IsFiniteSet(DOMAIN f.lines)
  BY <1>1, FS_Interval
<1>6. IsFiniteSet(T)
  <2> HIDE DEF g, T
  <2> QED
    BY <1>4, <1>5, FS_Surjection
<1>7. IsFiniteSet(Loaded(f))
  <2>1. Loaded(f) \in SUBSET T
    BY DEF Loaded
  <2> HIDE DEF T
  <2> QED
    BY <1>6, <2>1, FS_Subset
<1>8. ASSUME Sound(f), NEW r \in Loaded(f) PROVE ~r.bars /\ ~r.knobs /\ ~r.fixture
  <2>1. RecordValid(r)
    BY <1>8 DEF Sound, Loaded
  <2>2. r.knobs => r.bars
    BY <1>3, <1>8 DEF Built
  <2> QED
    BY <2>1, <2>2 DEF RecordValid
<1> QED
  BY <1>3, <1>7, <1>8

\* The timestamp of a row is that of one of its repetitions, and of none after it.
LEMMA NewestOf ==
  ASSUME NEW f \in Files, NEW reps \in SUBSET Loaded(f), reps # {}
  PROVE  /\ Newest(reps) \in Nat
         /\ \E r \in reps : r.id = Newest(reps)
         /\ \A r \in reps : r.id <= Newest(reps)
<1> DEFINE T == {r.id : r \in reps}
           g == [r \in reps |-> r.id]
<1>1. Loaded(f) \subseteq Built /\ IsFiniteSet(Loaded(f))
  BY LoadedTyped
<1>2. IsFiniteSet(reps)
  BY <1>1, FS_Subset
<1>3. g \in Surjection(reps, T)
  BY DEF Surjection
<1>4. IsFiniteSet(T)
  <2> HIDE DEF g, T
  <2> QED
    BY <1>2, <1>3, FS_Surjection
<1>5. T \in SUBSET Nat /\ T # {}
  BY <1>1 DEF Built
<1>6. Max(T) \in T /\ \A y \in T : Max(T) >= y
  <2> HIDE DEF T
  <2> QED
    BY <1>4, <1>5, Newer
<1>7. Newest(reps) = Max(T)
  BY DEF Newest
<1>8. PICK r \in reps : r.id = Max(T)
  <2> DEFINE m == Max(T)
  <2>1. m \in T
    BY <1>6
  <2> HIDE DEF m
  <2>2. \E r \in reps : r.id = m
    BY <2>1
  <2> QED
    BY <2>2 DEF m
<1>9. \A q \in reps : q.id \in T
  OBVIOUS
<1> HIDE DEF T
<1>10. \A q \in reps : q.id <= Max(T)
  BY <1>5, <1>6, <1>9
<1> QED
  BY <1>5, <1>6, <1>7, <1>8, <1>10

\* What a row or an attempt is made of.
Grouped(f, x) ==
  /\ x.reps \in SUBSET Loaded(f) /\ x.reps # {} /\ x.ts = Newest(x.reps)
  /\ \A r \in x.reps : SameArm(x, r) /\ r.sitting = x.sitting

LEMMA EntriesGrouped ==
  ASSUME NEW f
  PROVE  /\ \A x \in Rows(f) \union Attempts(f) : Grouped(f, x)
         /\ \A r \in Loaded(f) : \E x \in Rows(f) \union Attempts(f) : r \in x.reps
<1>1. ASSUME NEW r \in Counted(f)
      PROVE  Grouped(f, RowOf(f, r)) /\ r \in RowOf(f, r).reps
  BY DEF RowOf, Grouped, Counted, rowKey, SameArm
<1>2. ASSUME NEW r \in Loaded(f) \ Counted(f)
      PROVE  Grouped(f, AttemptOf(f, r)) /\ r \in AttemptOf(f, r).reps
  BY DEF AttemptOf, Grouped, SameArm
<1>3. \A x \in Rows(f) \union Attempts(f) : Grouped(f, x)
  BY <1>1, <1>2 DEF Rows, Attempts
<1>4. ASSUME NEW r \in Loaded(f)
      PROVE  \E x \in Rows(f) \union Attempts(f) : r \in x.reps
  <2>1. CASE r \in Counted(f)
    BY <1>1, <2>1 DEF Rows
  <2>2. CASE r \notin Counted(f)
    BY <1>2, <2>2 DEF Attempts
  <2> QED
    BY <2>1, <2>2
<1> QED
  BY <1>3, <1>4

LEMMA SoundIsUnbarred ==
  ASSUME main \in Files, Sound(main), page = Site(main)
  PROVE  NothingBarredPublished
<1> SUFFICES ASSUME NEW x \in Rows(main) \union Attempts(main), NEW r \in x.reps
             PROVE  ~r.bars /\ ~r.knobs /\ ~r.fixture
  BY DEF NothingBarredPublished, Site
<1>1. Grouped(main, x)
  BY EntriesGrouped
<1>2. r \in Loaded(main)
  BY <1>1 DEF Grouped
<1> QED
  BY <1>2, LoadedTyped

LEMMA SiteIsReproduced ==
  ASSUME main \in Files, Sound(main), page = Site(main)
  PROVE  RankedIsReproduced
<1> DEFINE all == Rows(main) \union Attempts(main)
<1> SUFFICES ASSUME NEW row \in Rows(main), ~Superseded(all, row)
             PROVE  LET mine == {x \in Loaded(main) : SameArm(row, x)}
                        same == {x \in mine : x.sitting = row.sitting}
                    IN /\ row.status = "ok" =>
                            \A x \in same : rowKey(x) = row.key => x.status # "infra_bound"
                       /\ \A x \in mine : \E y \in same : x.id <= y.id
  BY DEF RankedIsReproduced, Site
<1>1. \A x \in all : Grouped(main, x)
  BY EntriesGrouped
<1>2. PICK q \in Counted(main) : row = RowOf(main, q)
  BY DEF Rows
<1>3. /\ row.key = rowKey(q) /\ row.status = WorstStatus(row.reps)
      /\ row.reps = {x \in Counted(main) : rowKey(x) = rowKey(q)}
  BY <1>2 DEF RowOf
<1>4. \A x \in Loaded(main) : x \in Built
  BY LoadedTyped
<1>5. ASSUME row.status = "ok", NEW x \in Loaded(main), rowKey(x) = row.key,
             x.status = "infra_bound"
      PROVE  FALSE
  <2>1. x \in Counted(main)
    BY <1>5 DEF Counted, CarriesMetrics
  <2>2. x \in row.reps
    BY <1>3, <1>5, <2>1
  <2> QED
    BY <1>3, <1>5, <2>2 DEF WorstStatus
<1>6. ASSUME NEW x \in Loaded(main), SameArm(row, x)
      PROVE  \E y \in Loaded(main) : SameArm(row, y) /\ y.sitting = row.sitting /\ x.id <= y.id
  <2>1. x.id \in Nat
    BY <1>4 DEF Built
  <2>2. CASE x.sitting = row.sitting
    BY <1>6, <2>1, <2>2
  <2>3. CASE x.sitting # row.sitting
    <3>1. PICK y \in all : x \in y.reps
      BY EntriesGrouped
    <3>2. Grouped(main, y) /\ SameArm(row, y) /\ y.sitting # row.sitting
      BY <1>1, <1>6, <2>3, <3>1 DEF Grouped, SameArm
    <3>3. PICK z \in all : SameArm(row, z) /\ z.sitting = row.sitting /\ ~(z.ts < y.ts)
      BY <3>2 DEF Superseded
    <3>4. Grouped(main, z)
      BY <1>1
    <3>5. y.ts \in Nat /\ x.id <= y.ts
      BY <3>1, <3>2, NewestOf DEF Grouped
    <3>6. z.ts \in Nat /\ \E r \in z.reps : r.id = z.ts
      BY <3>4, NewestOf DEF Grouped
    <3>7. PICK r \in z.reps : r.id = z.ts
      BY <3>6
    <3>8. r \in Loaded(main) /\ SameArm(row, r) /\ r.sitting = row.sitting
      BY <3>3, <3>4, <3>7 DEF Grouped, SameArm
    <3>9. x.id <= r.id
      BY <2>1, <3>3, <3>5, <3>6, <3>7
    <3> QED
      BY <3>8, <3>9
  <2> QED
    BY <2>2, <2>3
<1> QED
  BY <1>5, <1>6

-----------------------------------------------------------------------------
(* The invariant.                                                          *)

Started ==
  [at : {"running", "done", "dead"}, in : Checkouts, opts : {o \in Options : Accepted(o)},
   plan : {Expand(ask) : ask \in Asks}, next : Nat]
Invocations == [at : {"idle"}] \union Started
Trees == [base : Files, results : Files, tuning : Files, wrote : SUBSET Built, swept : BOOLEAN]
Requests ==
  [at : {"none"}] \union
  [at : {"open", "green", "red"}, base : Files, file : Files, wrote : SUBSET Built]

TypeOK ==
  /\ clock \in Nat
  /\ sweep \in [Sweeps -> Invocations]
  /\ checkout \in [Checkouts -> Trees]
  /\ pr \in [Checkouts -> Requests]
  /\ main \in Files

\* What a checkout and its pull request start from is on main, and what a green one
\* adds is valid.
Within(f, g) == \A i \in DOMAIN f.lines : Holds(g, f.lines[i])
Based(c) ==
  /\ Within(checkout[c].base, main)
  /\ pr[c].at # "none" => Within(pr[c].base, main)
Checked(c) ==
  pr[c].at = "green" =>
    \A i \in DOMAIN pr[c].file.lines :
      \/ Holds(pr[c].base, pr[c].file.lines[i])
      \/ pr[c].file.lines[i] # Garbage /\ RecordValid(pr[c].file.lines[i])

PageInv ==
  /\ page = Site(main) /\ Sound(main)
  /\ \A c \in Checkouts : Based(c) /\ Checked(c)

-----------------------------------------------------------------------------
(* Types.                                                                  *)

LEMMA EmptyFile == Empty \in Files
BY DEF Empty, Files

LEMMA InitTyped == Init => TypeOK
<1> SUFFICES ASSUME Init PROVE TypeOK
  OBVIOUS
<1>1. sweep \in [Sweeps -> Invocations]
  BY DEF Init, Invocations
<1>2. checkout \in [Checkouts -> Trees]
  BY EmptyFile DEF Init, Trees
<1>3. pr \in [Checkouts -> Requests]
  BY DEF Init, Requests
<1> QED
  BY <1>1, <1>2, <1>3, EmptyFile DEF Init, TypeOK

LEMMA RunningTyped ==
  ASSUME TypeOK, NEW s \in Sweeps, Running(s)
  PROVE  sweep[s] \in Started
BY DEF TypeOK, Running, Invocations

\* An invocation goes on where it is.
Onward ==
  /\ sweep' \in [Sweeps -> Invocations]
  /\ \A s \in Sweeps : /\ sweep'[s].at # "idle" <=> sweep[s].at # "idle"
                       /\ sweep[s].at # "idle" => sweep'[s].in = sweep[s].in

\* What is left of an invocation that moves on.
MovedTo(rec, n, end) == [[rec EXCEPT !.next = n] EXCEPT !.at = end]

LEMMA Moved ==
  ASSUME NEW rec \in Started, NEW n \in Nat, NEW end \in {"running", "done", "dead"}
  PROVE  /\ MovedTo(rec, n, end) \in Invocations
         /\ MovedTo(rec, n, end).at # "idle" /\ MovedTo(rec, n, end).in = rec.in
<1>1. /\ MovedTo(rec, n, end).at = end /\ MovedTo(rec, n, end).in = rec.in
      /\ end # "idle"
  BY DEF Started, MovedTo
<1>2. MovedTo(rec, n, end) \in Started
  BY DEF Started, MovedTo
<1> QED
  BY <1>1, <1>2 DEF Invocations

LEMMA TurnTyped ==
  ASSUME TypeOK, NEW s \in Sweeps, Running(s), NEW refused, Turn(s, refused)
  PROVE  Onward
<1> DEFINE rec == sweep[s]
           end == IF refused /\ sweep[s].opts.failFast THEN "dead"
                  ELSE IF sweep[s].next + 1 = Total(s) THEN "done" ELSE sweep[s].at
           n == sweep[s].next + 1
<1>1. rec \in Started /\ rec.at = "running"
  BY RunningTyped DEF Running
<1>2. end \in {"running", "done", "dead"} /\ n \in Nat
  BY <1>1 DEF Started
<1>3. sweep \in [Sweeps -> Invocations]
  BY DEF TypeOK
<1>4. sweep' = [sweep EXCEPT ![s] = MovedTo(rec, n, end)]
  BY <1>3 DEF Turn, MovedTo
<1>5. rec = sweep[s]
  OBVIOUS
<1> HIDE DEF rec, end, n
<1>6. /\ MovedTo(rec, n, end) \in Invocations
      /\ MovedTo(rec, n, end).at # "idle" /\ MovedTo(rec, n, end).in = rec.in
  BY <1>1, <1>2, Moved
<1> QED
  BY <1>1, <1>3, <1>4, <1>5, <1>6 DEF Onward

LEMMA CrashTyped ==
  ASSUME TypeOK, NEW s \in Sweeps, Crash(s)
  PROVE  Onward
<1> DEFINE rec == sweep[s]
           n == sweep[s].next
<1>1. rec \in Started /\ rec.at = "running" /\ n \in Nat
  BY RunningTyped DEF Crash, Running, Started
<1>2. sweep \in [Sweeps -> Invocations]
  BY DEF TypeOK
<1>3. sweep' = [sweep EXCEPT ![s] = MovedTo(rec, n, "dead")]
  BY <1>1, <1>2 DEF Crash, MovedTo, Started
<1>4. rec = sweep[s]
  OBVIOUS
<1> HIDE DEF rec, n
<1>5. /\ MovedTo(rec, n, "dead") \in Invocations
      /\ MovedTo(rec, n, "dead").at # "idle" /\ MovedTo(rec, n, "dead").in = rec.in
  BY <1>1, Moved
<1> QED
  BY <1>1, <1>2, <1>3, <1>4, <1>5 DEF Onward

\* The record that a repetition gives.
RecordOf(s, status, version) ==
  [id |-> clock + 1, sitting |-> s, arm |-> Arm(s), rep |-> Rep(s),
   reps |-> sweep[s].opts.reps, status |-> status, group |-> sweep[s].opts.group,
   version |-> version, bars |-> sweep[s].opts.bars,
   fixture |-> sweep[s].opts.fixture, knobs |-> sweep[s].opts.knobs]

LEMMA RecordTyped ==
  ASSUME TypeOK, NEW s \in Sweeps, Running(s), NEW status \in {"ok", "infra_bound", "failed"},
         NEW version \in Versions
  PROVE  RecordOf(s, status, version) \in Built
<1>1. /\ sweep[s].opts \in Options /\ Accepted(sweep[s].opts)
      /\ sweep[s].plan \in {Expand(ask) : ask \in Asks} /\ sweep[s].next \in Nat
  BY RunningTyped DEF Started
<1>2. sweep[s].opts \in [reps : Nat, group : Groups, bars : BOOLEAN, fixture : BOOLEAN,
                         knobs : BOOLEAN, failFast : BOOLEAN]
  BY <1>1, PublicationAssumption
<1>3. PICK ask \in Asks : sweep[s].plan = Expand(ask)
  BY <1>1
<1>4. <<ask, sweep[s].next>> \in Asks \X Nat
  BY <1>1
<1>5. Arm(s) \in Arms
  BY <1>3, <1>4 DEF Arm, Arms
<1>6. Rep(s) \in Turns
  BY <1>3, <1>4 DEF Rep, Turns
<1>7. clock + 1 \in Nat
  BY DEF TypeOK
<1> QED
  BY <1>1, <1>2, <1>5, <1>6, <1>7 DEF RecordOf, Built, Accepted

\* A union holds the lines of main and those that the branch adds, and no others.
LEMMA MergesHold ==
  ASSUME main \in Files, NEW base, NEW file \in Files, NEW m \in Merges(base, file)
  PROVE  /\ m.file \in Files
         /\ Within(main, m.file)
         /\ \A i \in DOMAIN file.lines :
              Holds(base, file.lines[i]) \/ Holds(m.file, file.lines[i])
         /\ \A x : Holds(m.file, x) =>
              Holds(main, x) \/ (~Holds(base, x) /\ \E i \in DOMAIN file.lines : file.lines[i] = x)
<1> DEFINE more == Added(base, file.lines)
           new == Added(main, more)
           f(added) == [lines |-> added]
<1>1. /\ file.lines \in Seq(Lines) /\ file.open \in BOOLEAN
      /\ main.lines \in Seq(Lines) /\ main.open \in BOOLEAN /\ (main.open => main.lines # <<>>)
  BY FileParts
<1>2. /\ more \in Seq(Lines)
      /\ \A x : Holds(f(more), x) <=> ~Holds(base, x) /\ \E i \in DOMAIN file.lines : file.lines[i] = x
  <2>1. f(more).lines = more
    OBVIOUS
  <2> HIDE DEF f
  <2>2. f(more).lines = Added(base, file.lines)
    BY <2>1
  <2> HIDE DEF more
  <2> QED
    BY <1>1, <2>1, <2>2, AddedHolds
<1>3. \A x : Holds(f(more), x) <=> \E i \in DOMAIN more : more[i] = x
  BY DEF Holds
<1>4. /\ new \in Seq(Lines)
      /\ \A x : Holds(f(new), x) <=> ~Holds(main, x) /\ \E i \in DOMAIN more : more[i] = x
  <2>1. f(new).lines = new
    OBVIOUS
  <2>2. f(new).lines = Added(main, more)
    OBVIOUS
  <2> HIDE DEF f, new, more
  <2> QED
    BY <1>2, <2>1, <2>2, AddedHolds
<1>5. \A x : Holds(f(new), x) <=> \E i \in DOMAIN new : new[i] = x
  BY DEF Holds
<1>6. m.file = United(file, new) \/ m.file = United(file, more)
  BY DEF Merges
<1> HIDE DEF f, more, new
<1>7. ASSUME NEW added \in Seq(Lines), m.file = United(file, added),
             \A x : (\E i \in DOMAIN added : added[i] = x) =>
                      ~Holds(base, x) /\ \E i \in DOMAIN file.lines : file.lines[i] = x,
             \A x : ~Holds(base, x) /\ (\E i \in DOMAIN file.lines : file.lines[i] = x) =>
                      Holds(main, x) \/ \E i \in DOMAIN added : added[i] = x
      PROVE  /\ m.file \in Files
             /\ Within(main, m.file)
             /\ \A i \in DOMAIN file.lines :
                  Holds(base, file.lines[i]) \/ Holds(m.file, file.lines[i])
             /\ \A x : Holds(m.file, x) =>
                  Holds(main, x) \/ (~Holds(base, x) /\ \E i \in DOMAIN file.lines : file.lines[i] = x)
  <2> DEFINE g == m.file
             old == main.lines
             open == IF added = <<>> THEN main.open
                     ELSE file.open /\ Last(added) = Last(file.lines)
  <2>1. g = [lines |-> old \o added, open |-> open]
    BY <1>7 DEF United
  <2>2. open \in BOOLEAN
    BY <1>1
  <2>3. (open => old \o added # <<>>) /\ old \in Seq(Lines)
    BY <1>1, <1>7
  <2>4. \A x : Holds(main, x) <=> \E i \in DOMAIN old : old[i] = x
    BY DEF Holds
  <2>5. (\A i \in DOMAIN old : Holds(g, old[i])) => Within(main, g)
    BY DEF Within
  <2> HIDE DEF g, open, old
  <2>6. g.lines = old \o added
    BY <2>1
  <2>7. Joins(g, old, added)
    BY <1>7, <2>3, <2>6, HoldsBoth
  <2>8. g \in Files /\ Within(main, g)
    BY <2>1, <2>2, <2>3, <2>5, <2>7 DEF Files, Joins
  <2>9. \A x : Holds(main, x) => Holds(g, x)
    BY <2>4, <2>7 DEF Joins
  <2>10. \A i \in DOMAIN file.lines : Holds(base, file.lines[i]) \/ Holds(g, file.lines[i])
    BY <1>7, <2>7, <2>9 DEF Joins
  <2>11. \A x : Holds(g, x) =>
           Holds(main, x) \/ (~Holds(base, x) /\ \E i \in DOMAIN file.lines : file.lines[i] = x)
    BY <1>7, <2>4, <2>7 DEF Joins
  <2> QED
    BY <2>8, <2>10, <2>11 DEF g
<1>8. CASE m.file = United(file, new)
  <2>1. \A x : (\E i \in DOMAIN new : new[i] = x) =>
                 ~Holds(base, x) /\ \E i \in DOMAIN file.lines : file.lines[i] = x
    BY <1>2, <1>3, <1>4, <1>5
  <2>2. \A x : ~Holds(base, x) /\ (\E i \in DOMAIN file.lines : file.lines[i] = x) =>
                 Holds(main, x) \/ \E i \in DOMAIN new : new[i] = x
    BY <1>2, <1>3, <1>4, <1>5
  <2> QED
    BY <1>4, <1>7, <1>8, <2>1, <2>2
<1>9. CASE m.file = United(file, more)
  <2> QED
    BY <1>2, <1>3, <1>7, <1>9
<1> QED
  BY <1>6, <1>8, <1>9

-----------------------------------------------------------------------------
(* Steps.                                                                  *)

LEMMA StartTyped ==
  ASSUME TypeOK, NEW s \in Sweeps, NEW c \in Checkouts, Start(s, c)
  PROVE  TypeOK'
<1>1. PICK o \in Options, ask \in Asks :
        /\ Accepted(o)
        /\ sweep' = [sweep EXCEPT ![s] = [at |-> "running", in |-> c, opts |-> o,
                                          plan |-> Expand(ask), next |-> 0]]
  BY DEF Start
<1>2. [at |-> "running", in |-> c, opts |-> o, plan |-> Expand(ask), next |-> 0] \in Invocations
  BY <1>1 DEF Invocations, Started
<1>3. sweep' \in [Sweeps -> Invocations]
  BY <1>1, <1>2 DEF TypeOK
<1>4. checkout[c] \in Trees /\ main \in Files
  BY DEF TypeOK
<1>5. [checkout[c] EXCEPT !.base = main, !.results = main, !.swept = TRUE] \in Trees
  BY <1>4 DEF Trees
<1>6. checkout' \in [Checkouts -> Trees]
  BY <1>4, <1>5 DEF Start, TypeOK
<1> QED
  BY <1>3, <1>6 DEF Start, TypeOK

LEMMA WritesTyped ==
  ASSUME NEW r \in Built, NEW w \in Writes(r)
  PROVE  /\ w.what \in Lines /\ w.newline \in BOOLEAN /\ w.ok \in BOOLEAN
         /\ w.ok => w.what = r
<1>1. r \in Lines /\ Garbage \in Lines
  BY DEF Lines
<1>2. \/ w = [what |-> r, newline |-> TRUE, ok |-> TRUE, fault |-> 0]
      \/ w = [what |-> r, newline |-> FALSE, ok |-> FALSE, fault |-> 1]
      \/ w = [what |-> Garbage, newline |-> FALSE, ok |-> FALSE, fault |-> 1]
  BY DEF Writes
<1>3. CASE w = [what |-> r, newline |-> TRUE, ok |-> TRUE, fault |-> 0]
  BY <1>1, <1>3
<1>4. CASE w = [what |-> r, newline |-> FALSE, ok |-> FALSE, fault |-> 1]
  BY <1>1, <1>4
<1>5. CASE w = [what |-> Garbage, newline |-> FALSE, ok |-> FALSE, fault |-> 1]
  BY <1>1, <1>5
<1> QED
  BY <1>2, <1>3, <1>4, <1>5

LEMMA MeasureTyped ==
  ASSUME TypeOK, NEW s \in Sweeps, NEW status \in {"ok", "infra_bound", "failed"}, NEW version \in Versions,
         Measure(s, status, version)
  PROVE  TypeOK'
<1> DEFINE c == sweep[s].in
           r == RecordOf(s, status, version)
           where == Archive(sweep[s].opts)
<1>1. Running(s)
  BY DEF Measure
<1>2. c \in Checkouts /\ r \in Built
  BY <1>1, RunningTyped, RecordTyped DEF Started
<1>3. where \in {"results", "tuning"}
  BY DEF Archive
<1>4. PICK w \in Writes(r) :
        /\ Turn(s, status = "failed" \/ ~w.ok)
        /\ checkout' = [checkout EXCEPT
             ![c][where] = Write(checkout[c][where], w.what, w.newline),
             ![c].wrote = IF w.ok /\ ~sweep[s].opts.bars THEN checkout[c].wrote \union {r}
                          ELSE checkout[c].wrote]
  BY DEF Measure, RecordOf
<1>5. sweep' \in [Sweeps -> Invocations]
  BY <1>1, <1>4, TurnTyped DEF Onward
<1>6. w.what \in Lines /\ w.newline \in BOOLEAN
  BY <1>2, <1>4, WritesTyped
<1>7. checkout \in [Checkouts -> Trees] /\ checkout[c] \in Trees
  BY <1>2 DEF TypeOK
<1> HIDE DEF c, r, where
<1> DEFINE new == Write(checkout[c][where], w.what, w.newline)
           wrote == IF w.ok /\ ~sweep[s].opts.bars THEN checkout[c].wrote \union {r}
                    ELSE checkout[c].wrote
           tree == checkout[c]
<1>8. tree[where] \in Files
  BY <1>3, <1>7 DEF Trees
<1>9. new \in Files
  BY <1>6, <1>8, WriteKeeps
<1>10. wrote \in SUBSET Built
  BY <1>2, <1>7 DEF Trees
<1>11. checkout' = [checkout EXCEPT ![c] = [[tree EXCEPT ![where] = new] EXCEPT !.wrote = wrote]]
  BY <1>2, <1>4, <1>7
<1>12. tree \in Trees
  BY <1>7
<1> HIDE DEF new, wrote, tree
<1>13. [[tree EXCEPT ![where] = new] EXCEPT !.wrote = wrote] \in Trees
  BY <1>3, <1>9, <1>10, <1>12 DEF Trees
<1>14. checkout' \in [Checkouts -> Trees]
  BY <1>7, <1>11, <1>13
<1>15. clock' \in Nat /\ pr' = pr /\ main' = main
  BY DEF Measure, TypeOK
<1> QED
  BY <1>5, <1>14, <1>15 DEF TypeOK

LEMMA MoveTyped ==
  ASSUME TypeOK, NEW c \in Checkouts, MoveTuning(c)
  PROVE  TypeOK'
<1> DEFINE tree == checkout[c]
           both == [lines |-> tree.results.lines \o tree.tuning.lines,
                    open |-> tree.tuning.open]
<1>1. tree \in Trees /\ checkout \in [Checkouts -> Trees]
  BY DEF TypeOK
<1>2. tree.results \in Files /\ tree.tuning \in Files
  BY <1>1 DEF Trees
<1>3. checkout' = [checkout EXCEPT ![c] = [[tree EXCEPT !.results = both] EXCEPT !.tuning = Empty]]
  BY <1>1 DEF MoveTuning
<1>4. both \in Files
  <2>1. /\ tree.results.lines \in Seq(Lines)
        /\ tree.tuning.lines \in Seq(Lines) /\ tree.tuning.open \in BOOLEAN
        /\ tree.tuning.open => tree.tuning.lines # <<>>
    BY <1>2, FileParts
  <2>2. /\ tree.results.lines \o tree.tuning.lines \in Seq(Lines)
        /\ tree.tuning.open => tree.results.lines \o tree.tuning.lines # <<>>
    BY <2>1
  <2> QED
    BY <2>1, <2>2 DEF Files
<1> HIDE DEF tree, both
<1>5. [[tree EXCEPT !.results = both] EXCEPT !.tuning = Empty] \in Trees
  BY <1>1, <1>4, EmptyFile DEF Trees
<1>6. checkout' \in [Checkouts -> Trees]
  BY <1>1, <1>3, <1>5
<1> QED
  BY <1>6 DEF MoveTuning, TypeOK

\* What a box uploads: the lines past the committed count.
LEMMA AppendedTyped ==
  ASSUME TypeOK, NEW c \in Checkouts
  PROVE  /\ Appended(c) \in Seq(Lines)
         /\ \A i \in DOMAIN checkout[c].results.lines :
              i > Len(checkout[c].base.lines) =>
                \E j \in DOMAIN Appended(c) : Appended(c)[j] = checkout[c].results.lines[i]
<1> DEFINE s == checkout[c].results.lines
           m == Len(checkout[c].base.lines) + 1
           n == Len(s)
<1>1. checkout[c].results \in Files /\ checkout[c].base \in Files
  BY DEF TypeOK, Trees
<1>2. s \in Seq(Lines) /\ n \in Nat /\ DOMAIN s = 1..n
  BY <1>1, FileParts
<1>3. m \in Nat /\ m >= 1
  BY <1>1, FileParts
<1>4. Appended(c) = SubSeq(s, m, n)
  BY DEF Appended
<1>5. n = Len(s) /\ Len(checkout[c].base.lines) = m - 1
  BY <1>1, FileParts
<1> HIDE DEF s, m, n
<1>6. SubSeq(s, m, n) \in Seq(Lines)
  BY <1>2, <1>3, <1>5
<1>7. ASSUME NEW i \in DOMAIN s, i > m - 1
      PROVE  \E j \in DOMAIN SubSeq(s, m, n) : SubSeq(s, m, n)[j] = s[i]
  <2> DEFINE j == (i - m) + 1
  <2>1. j \in 1..(n - m + 1) /\ m + j - 1 = i /\ n - m + 1 \in Nat /\ m <= n + 1
    BY <1>2, <1>3, <1>7
  <2> HIDE DEF j
  <2>2. DOMAIN SubSeq(s, m, n) = 1..(n - m + 1)
    BY <1>2, <1>3, <1>5, <2>1
  <2>3. SubSeq(s, m, n)[j] = s[m + j - 1]
    BY <1>2, <1>3, <1>5, <2>1
  <2> QED
    BY <2>1, <2>2, <2>3
<1> QED
  BY <1>4, <1>5, <1>6, <1>7 DEF s

LEMMA ProposeTyped ==
  ASSUME TypeOK, NEW c \in Checkouts, Propose(c)
  PROVE  /\ TypeOK'
         /\ pr[c].at = "none" /\ pr'[c].at = "open" /\ pr'[c].wrote = checkout[c].wrote
         /\ \A d \in Checkouts : d # c => pr'[d] = pr[d]
         /\ pr'[c].base \in {checkout[c].base, main}
         /\ c \in Desks => pr'[c].file = checkout[c].results
         /\ c \notin Desks =>
              /\ pr'[c].file.lines = main.lines \o Appended(c)
              /\ \E s \in Sweeps : sweep[s].at = "done" /\ sweep[s].in = c
<1> DEFINE box == [lines |-> main.lines \o Appended(c), open |-> checkout[c].results.open]
           req == pr'[c]
<1>1. /\ checkout[c].base \in Files /\ checkout[c].results \in Files
      /\ checkout[c].wrote \in SUBSET Built /\ main \in Files
  BY DEF TypeOK, Trees
<1>2. box \in Files \/ Appended(c) = <<>>
  <2>1. /\ main.lines \in Seq(Lines) /\ checkout[c].results.open \in BOOLEAN
        /\ Appended(c) \in Seq(Lines)
    BY <1>1, FileParts, AppendedTyped
  <2>2. /\ main.lines \o Appended(c) \in Seq(Lines)
        /\ Appended(c) # <<>> => main.lines \o Appended(c) # <<>>
    BY <2>1
  <2> QED
    BY <2>1, <2>2 DEF Files
<1>3. CASE c \in Desks
  <2>1. pr' = [pr EXCEPT ![c] = [at |-> "open", base |-> checkout[c].base,
                                 file |-> checkout[c].results, wrote |-> checkout[c].wrote]]
    BY <1>3 DEF Propose
  <2>2. [at |-> "open", base |-> checkout[c].base, file |-> checkout[c].results,
         wrote |-> checkout[c].wrote] \in Requests
    BY <1>1 DEF Requests
  <2>3. pr' \in [Checkouts -> Requests]
    BY <2>1, <2>2 DEF TypeOK
  <2> QED
    BY <1>3, <2>1, <2>3 DEF Propose, TypeOK
<1>4. CASE c \notin Desks
  <2>1. /\ pr' = [pr EXCEPT ![c] = [at |-> "open", base |-> main, file |-> box,
                                    wrote |-> checkout[c].wrote]]
        /\ Appended(c) # <<>>
        /\ \E s \in Sweeps : sweep[s].at = "done" /\ sweep[s].in = c
    BY <1>4 DEF Propose
  <2>2. box.lines = main.lines \o Appended(c)
    OBVIOUS
  <2> HIDE DEF box
  <2>3. [at |-> "open", base |-> main, file |-> box, wrote |-> checkout[c].wrote] \in Requests
    BY <1>1, <1>2, <2>1 DEF Requests
  <2>4. pr' \in [Checkouts -> Requests]
    BY <2>1, <2>3 DEF TypeOK
  <2> QED
    BY <1>4, <2>1, <2>2, <2>4 DEF Propose, TypeOK
<1> QED
  BY <1>3, <1>4

LEMMA OpenTyped ==
  ASSUME TypeOK, NEW c \in Checkouts, pr[c].at # "none"
  PROVE  pr[c] \in [at : {"open", "green", "red"}, base : Files, file : Files,
                    wrote : SUBSET Built]
BY DEF TypeOK, Requests

LEMMA CheckTyped ==
  ASSUME TypeOK, NEW c \in Checkouts, Check(c)
  PROVE  /\ TypeOK'
         /\ pr[c].at = "open" /\ pr'[c].at \in {"green", "red"}
         /\ pr'[c].base = pr[c].base /\ pr'[c].file = pr[c].file /\ pr'[c].wrote = pr[c].wrote
         /\ \A d \in Checkouts : d # c => pr'[d] = pr[d]
         /\ pr'[c].at = "green" =>
              \E m \in Merges(pr[c].base, pr[c].file) : Valid(m.file)
<1>1. PICK m \in Merges(pr[c].base, pr[c].file) :
        pr' = [pr EXCEPT ![c].at = IF Valid(m.file) THEN "green" ELSE "red"]
  BY DEF Check
<1> DEFINE verdict == IF Valid(m.file) THEN "green" ELSE "red"
           req == pr[c]
<1>2. verdict \in {"green", "red"} /\ (verdict = "green" => Valid(m.file))
  OBVIOUS
<1>3. /\ req \in [at : {"open", "green", "red"}, base : Files, file : Files, wrote : SUBSET Built]
      /\ req.at = "open" /\ req = pr[c]
  BY OpenTyped DEF Check
<1>4. pr' = [pr EXCEPT ![c] = [req EXCEPT !.at = verdict]] /\ pr \in [Checkouts -> Requests]
  BY <1>1 DEF TypeOK
<1> HIDE DEF verdict, req
<1>5. /\ [req EXCEPT !.at = verdict] \in Requests
      /\ [req EXCEPT !.at = verdict].at = verdict /\ [req EXCEPT !.at = verdict].base = req.base
      /\ [req EXCEPT !.at = verdict].file = req.file
      /\ [req EXCEPT !.at = verdict].wrote = req.wrote
  BY <1>2, <1>3 DEF Requests
<1>6. pr' \in [Checkouts -> Requests] /\ pr'[c] = [req EXCEPT !.at = verdict]
  BY <1>4, <1>5
<1>7. TypeOK'
  BY <1>6 DEF Check, TypeOK
<1>8. \A d \in Checkouts : d # c => pr'[d] = pr[d]
  BY <1>4
<1> QED
  BY <1>2, <1>3, <1>5, <1>6, <1>7, <1>8

LEMMA MergeTyped ==
  ASSUME TypeOK, NEW c \in Checkouts, Merge(c)
  PROVE  /\ TypeOK'
         /\ pr[c].at = "green" /\ pr'[c].at = "none"
         /\ \A d \in Checkouts : d # c => pr'[d] = pr[d]
         /\ \E m \in Merges(pr[c].base, pr[c].file) : main' = m.file
         /\ page' = Site(main')
         /\ \/ checkout' = checkout
            \/ /\ c \in Desks /\ checkout[c].results = pr[c].file
               /\ checkout'[c].base = main' /\ checkout'[c].results = main'
               /\ checkout'[c].wrote = checkout[c].wrote
               /\ \A d \in Checkouts : d # c => checkout'[d] = checkout[d]
<1>1. PICK m \in Merges(pr[c].base, pr[c].file), pull \in BOOLEAN :
        /\ main' = m.file /\ page' = Site(m.file)
        /\ pull => c \in Desks /\ ~Busy(c) /\ checkout[c].results = pr[c].file
        /\ checkout' = IF pull THEN [checkout EXCEPT ![c].base = m.file,
                                                     ![c].results = m.file]
                       ELSE checkout
  BY DEF Merge
<1>2. pr[c].at = "green" /\ pr' = [pr EXCEPT ![c] = [at |-> "none"]]
  BY DEF Merge
<1>3. [at |-> "none"] \in Requests
  BY DEF Requests
<1>4. pr' \in [Checkouts -> Requests] /\ pr'[c].at = "none"
      /\ \A d \in Checkouts : d # c => pr'[d] = pr[d]
  BY <1>2, <1>3 DEF TypeOK
<1>5. pr[c].file \in Files /\ main \in Files
  BY <1>2, OpenTyped DEF TypeOK
<1>6. m.file \in Files
  BY <1>5, MergesHold
<1> DEFINE tree == checkout[c]
           new == m.file
<1>7. tree \in Trees /\ checkout \in [Checkouts -> Trees] /\ new \in Files
  BY <1>6 DEF TypeOK
<1>8. pull => checkout' = [checkout EXCEPT ![c] = [[tree EXCEPT !.base = new] EXCEPT !.results = new]]
  BY <1>1, <1>7
<1>9. tree = checkout[c] /\ main' = new /\ page' = Site(new)
  BY <1>1
<1> HIDE DEF tree, new
<1>10. /\ [[tree EXCEPT !.base = new] EXCEPT !.results = new] \in Trees
       /\ [[tree EXCEPT !.base = new] EXCEPT !.results = new].base = new
       /\ [[tree EXCEPT !.base = new] EXCEPT !.results = new].results = new
       /\ [[tree EXCEPT !.base = new] EXCEPT !.results = new].wrote = tree.wrote
  BY <1>7 DEF Trees
<1>11. CASE pull
  <2>1. /\ checkout' \in [Checkouts -> Trees]
        /\ checkout'[c] = [[tree EXCEPT !.base = new] EXCEPT !.results = new]
        /\ \A d \in Checkouts : d # c => checkout'[d] = checkout[d]
    BY <1>7, <1>8, <1>10, <1>11
  <2>2. TypeOK'
    BY <1>4, <1>7, <1>9, <2>1 DEF Merge, TypeOK
  <2> QED
    BY <1>1, <1>2, <1>4, <1>9, <1>10, <1>11, <2>1, <2>2
<1>12. CASE ~pull
  <2>1. checkout' = checkout
    BY <1>1, <1>12
  <2>2. TypeOK'
    BY <1>4, <1>7, <1>9, <2>1 DEF Merge, TypeOK
  <2> QED
    BY <1>1, <1>2, <1>4, <1>9, <2>1, <2>2
<1> QED
  BY <1>11, <1>12

LEMMA CloseTyped ==
  ASSUME TypeOK, NEW c \in Checkouts, Close(c)
  PROVE  /\ TypeOK'
         /\ pr'[c].at = "none"
         /\ checkout'[c].base = main /\ checkout'[c].results = main /\ checkout'[c].wrote = {}
         /\ checkout'[c].swept = checkout[c].swept
         /\ \A d \in Checkouts : d # c => pr'[d] = pr[d] /\ checkout'[d] = checkout[d]
<1> DEFINE tree == checkout[c]
           new == [[[tree EXCEPT !.base = main] EXCEPT !.results = main] EXCEPT !.wrote = {}]
<1>1. tree \in Trees /\ checkout \in [Checkouts -> Trees] /\ main \in Files
  BY DEF TypeOK
<1>2. checkout' = [checkout EXCEPT ![c] = new]
  BY <1>1 DEF Close
<1>3. /\ new \in Trees /\ new.base = main /\ new.results = main /\ new.wrote = {}
      /\ new.swept = tree.swept
  <2>1. tree = checkout[c]
    OBVIOUS
  <2> HIDE DEF tree
  <2> QED
    BY <1>1 DEF Trees
<1>4. [at |-> "none"] \in Requests
  BY DEF Requests
<1>5. /\ pr' = [pr EXCEPT ![c] = [at |-> "none"]] /\ pr \in [Checkouts -> Requests]
      /\ UNCHANGED <<clock, sweep, main>>
  BY DEF Close, TypeOK
<1>6. /\ pr' \in [Checkouts -> Requests] /\ pr'[c].at = "none"
      /\ \A d \in Checkouts : d # c => pr'[d] = pr[d]
  BY <1>4, <1>5
<1>7. tree = checkout[c]
  OBVIOUS
<1> HIDE DEF new, tree
<1>8. /\ checkout' \in [Checkouts -> Trees] /\ checkout'[c] = new
      /\ \A d \in Checkouts : d # c => checkout'[d] = checkout[d]
  BY <1>1, <1>2, <1>3
<1>9. TypeOK'
  BY <1>5, <1>6, <1>8 DEF TypeOK
<1> QED
  BY <1>3, <1>6, <1>7, <1>8, <1>9

LEMMA Typed == TypeOK /\ [Next]_vars => TypeOK'
<1> SUFFICES ASSUME TypeOK, [Next]_vars PROVE TypeOK'
  OBVIOUS
<1>1. ASSUME NEW s \in Sweeps, RefuseUnidentified(s) \/ Crash(s) PROVE TypeOK'
  <2>1. Onward
    BY <1>1, TurnTyped, CrashTyped DEF RefuseUnidentified
  <2>2. UNCHANGED <<clock, checkout, pr, main>>
    BY <1>1 DEF RefuseUnidentified, Crash
  <2> QED
    BY <2>1, <2>2 DEF TypeOK, Onward
<1>2. UNCHANGED vars => TypeOK'
  BY DEF vars, TypeOK
<1> QED
  BY <1>1, <1>2, StartTyped, MeasureTyped, MoveTyped, ProposeTyped, CheckTyped, MergeTyped,
     CloseTyped DEF Next

LEMMA WithinMore ==
  ASSUME NEW f, NEW g, NEW h, Within(f, g), Within(g, h)
  PROVE  Within(f, h)
BY DEF Within, Holds

LEMMA WithinSame ==
  ASSUME NEW f
  PROVE  Within(f, f)
BY DEF Within, Holds

\* What a step does not bring to main, and what it starts from main.
LEMMA Rebased ==
  ASSUME NEW d \in Checkouts, Based(d), Checked(d), main' = main,
         checkout'[d].base \in {checkout[d].base, main},
         pr'[d] = pr[d] \/ pr'[d].at = "none"
  PROVE  Based(d)' /\ Checked(d)'
BY WithinSame DEF Based, Checked

\* Where the base of a checkout goes in a step that leaves main alone.
LEMMA BasesStay ==
  ASSUME TypeOK, NEW d \in Checkouts,
         \/ \E s \in Sweeps : \/ \E c \in Checkouts : Start(s, c)
                              \/ RefuseUnidentified(s) \/ Crash(s)
                              \/ \E status \in {"ok", "infra_bound", "failed"}, version \in Versions :
                                   Measure(s, status, version)
         \/ \E c \in Checkouts : MoveTuning(c) \/ Close(c)
         \/ UNCHANGED vars
  PROVE  /\ main' = main /\ page' = page
         /\ checkout'[d].base \in {checkout[d].base, main}
         /\ pr'[d] = pr[d] \/ pr'[d].at = "none"
<1>1. checkout \in [Checkouts -> Trees] /\ checkout[d] \in Trees
  BY DEF TypeOK
<1>2. ASSUME NEW s \in Sweeps, NEW c \in Checkouts, Start(s, c)
      PROVE  checkout'[d].base \in {checkout[d].base, main} /\ UNCHANGED <<main, page, pr>>
  <2>1. /\ UNCHANGED <<main, page, pr>>
        /\ checkout' = [checkout EXCEPT ![c] =
             IF c \in Boxes
             THEN [checkout[c] EXCEPT !.base = main, !.results = main, !.swept = TRUE]
             ELSE checkout[c]]
    BY <1>2 DEF Start
  <2> QED
    BY <1>1, <2>1 DEF Trees
<1>3. ASSUME NEW s \in Sweeps, NEW status \in {"ok", "infra_bound", "failed"},
             NEW version \in Versions, Measure(s, status, version)
      PROVE  checkout'[d].base = checkout[d].base /\ UNCHANGED <<main, page, pr>>
  <2> DEFINE c == sweep[s].in
             where == Archive(sweep[s].opts)
  <2>1. where \in {"results", "tuning"} /\ UNCHANGED <<main, page, pr>>
    BY <1>3 DEF Archive, Measure
  <2>2. PICK file, wrote :
          checkout' = [checkout EXCEPT ![c][where] = file, ![c].wrote = wrote]
    BY <1>3 DEF Measure
  <2> HIDE DEF where, c
  <2> QED
    BY <1>1, <2>1, <2>2 DEF Trees
<1>4. ASSUME NEW c \in Checkouts, MoveTuning(c)
      PROVE  checkout'[d].base = checkout[d].base /\ UNCHANGED <<main, page, pr>>
  BY <1>1, <1>4 DEF MoveTuning, Trees
<1>5. ASSUME NEW c \in Checkouts, Close(c)
      PROVE  /\ checkout'[d].base \in {checkout[d].base, main} /\ UNCHANGED <<main, page>>
             /\ pr'[d] = pr[d] \/ pr'[d].at = "none"
  <2>1. UNCHANGED <<main, page>>
    BY <1>5 DEF Close
  <2> QED
    BY <1>5, <2>1, CloseTyped
<1>6. ASSUME NEW s \in Sweeps, RefuseUnidentified(s) \/ Crash(s)
      PROVE  UNCHANGED <<main, page, pr, checkout>>
  BY <1>6 DEF RefuseUnidentified, Crash
<1>7. UNCHANGED vars => UNCHANGED <<main, page, pr, checkout>>
  BY DEF vars
<1> QED
  BY <1>2, <1>3, <1>4, <1>5, <1>6, <1>7

LEMMA ProposePage ==
  ASSUME TypeOK, PageInv, NEW c \in Checkouts, Propose(c) PROVE PageInv'
<1>1. UNCHANGED <<main, page, checkout>>
  BY DEF Propose
<1>2. /\ pr'[c].at = "open" /\ pr'[c].base \in {checkout[c].base, main}
      /\ \A d \in Checkouts : d # c => pr'[d] = pr[d]
  BY ProposeTyped
<1>3. \A d \in Checkouts : Based(d) /\ Checked(d)
  BY DEF PageInv
<1>4. ASSUME NEW d \in Checkouts PROVE Based(d)' /\ Checked(d)'
  <2>1. CASE d # c
    BY <1>1, <1>2, <1>3, <2>1, Rebased
  <2>2. CASE d = c
    BY <1>1, <1>2, <1>3, <2>2, WithinSame DEF Based, Checked
  <2> QED
    BY <2>1, <2>2
<1> QED
  BY <1>1, <1>4 DEF PageInv

\* Every line that a branch adds is in the union that `bench validate` passed.
LEMMA CheckPage ==
  ASSUME TypeOK, PageInv, NEW c \in Checkouts, Check(c) PROVE PageInv'
<1>1. UNCHANGED <<main, page, checkout>>
  BY DEF Check
<1>2. /\ pr[c].at = "open" /\ pr'[c].at \in {"green", "red"}
      /\ pr'[c].base = pr[c].base /\ pr'[c].file = pr[c].file
      /\ \A d \in Checkouts : d # c => pr'[d] = pr[d]
      /\ pr'[c].at = "green" => \E m \in Merges(pr[c].base, pr[c].file) : Valid(m.file)
  BY CheckTyped
<1>3. \A d \in Checkouts : Based(d) /\ Checked(d)
  BY DEF PageInv
<1>4. pr[c].file \in Files /\ main \in Files
  BY <1>2, OpenTyped DEF TypeOK
<1>5. ASSUME pr'[c].at = "green", NEW i \in DOMAIN pr[c].file.lines,
             ~Holds(pr[c].base, pr[c].file.lines[i])
      PROVE  pr[c].file.lines[i] # Garbage /\ RecordValid(pr[c].file.lines[i])
  <2>1. PICK m \in Merges(pr[c].base, pr[c].file) : Valid(m.file)
    BY <1>2, <1>5
  <2>2. Holds(m.file, pr[c].file.lines[i])
    BY <1>4, <1>5, MergesHold
  <2> QED
    BY <2>1, <2>2 DEF Valid, Holds
<1>6. ASSUME NEW d \in Checkouts PROVE Based(d)' /\ Checked(d)'
  <2>1. CASE d # c
    BY <1>1, <1>2, <1>3, <2>1, Rebased
  <2>2. CASE d = c
    BY <1>1, <1>2, <1>3, <1>5, <2>2 DEF Based, Checked
  <2> QED
    BY <2>1, <2>2
<1> QED
  BY <1>1, <1>6 DEF PageInv

LEMMA MergePage ==
  ASSUME TypeOK, PageInv, NEW c \in Checkouts, Merge(c) PROVE PageInv'
<1>1. PICK m \in Merges(pr[c].base, pr[c].file) : main' = m.file
  BY MergeTyped
<1>2. /\ pr[c].at = "green" /\ pr'[c].at = "none" /\ page' = Site(main')
      /\ \A d \in Checkouts : d # c => pr'[d] = pr[d]
      /\ \A d \in Checkouts : checkout'[d].base \in {checkout[d].base, main'}
  BY MergeTyped
<1>3. \A d \in Checkouts : Based(d) /\ Checked(d)
  BY DEF PageInv
<1>4. pr[c].file \in Files /\ main \in Files
  BY <1>2, OpenTyped DEF TypeOK
<1>5. /\ Within(main, main')
      /\ \A x : Holds(main', x) =>
           \/ Holds(main, x)
           \/ ~Holds(pr[c].base, x) /\ \E i \in DOMAIN pr[c].file.lines : pr[c].file.lines[i] = x
  BY <1>1, <1>4, MergesHold
<1>6. Sound(main')
  <2>1. \A x : Holds(main', x) => x # Garbage /\ RecordValid(x)
    <3>1. \A x : Holds(main, x) => x # Garbage /\ RecordValid(x)
      BY DEF PageInv, Sound, Holds
    <3>2. \A i \in DOMAIN pr[c].file.lines :
            \/ Holds(pr[c].base, pr[c].file.lines[i])
            \/ pr[c].file.lines[i] # Garbage /\ RecordValid(pr[c].file.lines[i])
      BY <1>2, <1>3 DEF Checked
    <3> QED
      BY <1>5, <3>1, <3>2
  <2> QED
    BY <2>1 DEF Sound, Holds
<1>7. ASSUME NEW d \in Checkouts PROVE Based(d)' /\ Checked(d)'
  <2>1. Within(checkout[d].base, main')
    BY <1>3, <1>5, WithinMore DEF Based
  <2>2. Within(checkout'[d].base, main')
    BY <1>2, <2>1, WithinSame
  <2>3. pr'[d].at # "none" => pr'[d] = pr[d] /\ Within(pr[d].base, main')
    BY <1>2, <1>3, <1>5, WithinMore DEF Based
  <2> QED
    BY <1>3, <2>2, <2>3 DEF Based, Checked
<1> QED
  BY <1>2, <1>6, <1>7 DEF PageInv

LEMMA PageStep == TypeOK /\ PageInv /\ [Next]_vars => PageInv'
<1> SUFFICES ASSUME TypeOK, PageInv, [Next]_vars PROVE PageInv'
  OBVIOUS
<1>1. \A d \in Checkouts : Based(d) /\ Checked(d)
  BY DEF PageInv
<1>2. CASE \/ \E s \in Sweeps : \/ \E c \in Checkouts : Start(s, c)
                                \/ RefuseUnidentified(s) \/ Crash(s)
                                \/ \E status \in {"ok", "infra_bound", "failed"}, version \in Versions :
                                     Measure(s, status, version)
           \/ \E c \in Checkouts : MoveTuning(c) \/ Close(c)
           \/ UNCHANGED vars
  <2>1. ASSUME NEW d \in Checkouts PROVE Based(d)' /\ Checked(d)'
    <3>1. /\ main' = main /\ checkout'[d].base \in {checkout[d].base, main}
          /\ pr'[d] = pr[d] \/ pr'[d].at = "none"
      BY <1>2, BasesStay
    <3> QED
      BY <1>1, <3>1, Rebased
  <2>2. main' = main /\ page' = page
    BY <1>2 DEF Start, RefuseUnidentified, Crash, Measure, MoveTuning, Close, vars
  <2> QED
    BY <2>1, <2>2 DEF PageInv
<1>3. CASE \E c \in Checkouts : Propose(c) \/ Check(c) \/ Merge(c)
  BY <1>3, ProposePage, CheckPage, MergePage
<1> QED
  BY <1>2, <1>3 DEF Next

LEMMA InitPage == Init => PageInv
<1> SUFFICES ASSUME Init PROVE PageInv
  OBVIOUS
<1>1. main = Empty /\ page = Site(main) /\ DOMAIN Empty.lines = {}
  BY DEF Init, Empty
<1>2. \A c \in Checkouts : checkout[c].base = Empty /\ pr[c].at = "none"
  BY DEF Init
<1> QED
  BY <1>1, <1>2 DEF PageInv, Sound, Based, Checked, Within

LEMMA PageHolds == Spec => [](TypeOK /\ PageInv)
<1>1. Init => TypeOK /\ PageInv
  BY InitTyped, InitPage
<1>2. TypeOK /\ PageInv /\ [Next]_vars => TypeOK' /\ PageInv'
  BY Typed, PageStep
<1> QED
  BY <1>1, <1>2, PTL DEF Spec

\* Whatever is swept, moved, torn, merged twice or checked before main moved on: nothing
\* behind the page was taken for a reason that bars publication, at a configuration no
\* descriptor declares, or on a fixture (root_for, opts_from, check_record).
THEOREM NothingBarred == Spec => []NothingBarredPublished
<1>1. TypeOK /\ PageInv => NothingBarredPublished
  BY SoundIsUnbarred DEF TypeOK, PageInv
<1> QED
  BY <1>1, PageHolds, PTL

\* However many sittings, groups, versions and repetitions are on the tree: what the page
\* ranks is of the arm's newest sitting in its comparability group, and no repetition
\* behind it crossed a limit (latestSitting, worstStatus).
THEOREM Reproduced == Spec => []RankedIsReproduced
<1>1. TypeOK /\ PageInv => RankedIsReproduced
  BY SiteIsReproduced DEF TypeOK, PageInv
<1> QED
  BY <1>1, PageHolds, PTL

-----------------------------------------------------------------------------
(* What an append returned from is not lost in silence.                    *)

\* A record of a checkout is in its file, or a line is that does not parse: of a box, past
\* the committed count, unless the committed file itself was torn.
Past(c, x) ==
  \E i \in DOMAIN checkout[c].results.lines :
    i > Len(checkout[c].base.lines) /\ checkout[c].results.lines[i] = x
DeskKeeps(c) ==
  \A r \in checkout[c].wrote :
    Holds(checkout[c].results, r) \/ Holds(checkout[c].results, Garbage)
BoxKeeps(c) ==
  ~checkout[c].base.open =>
    /\ Len(checkout[c].base.lines) <= Len(checkout[c].results.lines)
    /\ checkout[c].results.open =>
         Len(checkout[c].base.lines) < Len(checkout[c].results.lines)
    /\ \A r \in checkout[c].wrote : Past(c, r) \/ Past(c, Garbage)
Fresh(c) == ~checkout[c].swept => checkout[c].wrote = {} /\ pr[c].at = "none"
Carried(c) ==
  pr[c].at # "none" =>
    \A r \in pr[c].wrote :
      \/ Holds(pr[c].file, r) \/ Holds(pr[c].file, Garbage)
      \/ c \in Boxes /\ checkout[c].base.open

Kept(c) ==
  /\ c \in Desks => DeskKeeps(c)
  /\ c \in Boxes => BoxKeeps(c) /\ Fresh(c)
  /\ Carried(c)

\* A box is cloned before its sweep.
Cloned(s) ==
  sweep[s].at # "idle" /\ sweep[s].in \in Boxes => checkout[sweep[s].in].swept

KeptInv == (\A c \in Checkouts : Kept(c)) /\ (\A s \in Sweeps : Cloned(s))

LEMMA KeptFrame ==
  ASSUME NEW c \in Checkouts, Kept(c), checkout'[c] = checkout[c], pr'[c] = pr[c]
  PROVE  Kept(c)'
BY DEF Kept, DeskKeeps, BoxKeeps, Past, Fresh, Carried

LEMMA ClonedFrame ==
  ASSUME TypeOK, KeptInv, Onward \/ sweep' = sweep,
         \A c \in Checkouts : checkout[c].swept => checkout'[c].swept
  PROVE  \A s \in Sweeps : Cloned(s)'
<1> SUFFICES ASSUME NEW s \in Sweeps, sweep'[s].at # "idle", sweep'[s].in \in Boxes
             PROVE  checkout'[sweep'[s].in].swept
  BY DEF Cloned
<1>1. sweep[s].at # "idle" /\ sweep'[s].in = sweep[s].in
  BY DEF Onward
<1> QED
  BY <1>1 DEF KeptInv, Cloned, Checkouts

\* A green branch has no line that does not parse, and its records reach main.
LEMMA Landed ==
  ASSUME TypeOK, PageInv, NEW c \in Checkouts, pr[c].at = "green",
         NEW m \in Merges(pr[c].base, pr[c].file), NEW r,
         Holds(pr[c].file, r) \/ Holds(pr[c].file, Garbage)
  PROVE  Holds(m.file, r)
<1>1. pr[c].file \in Files /\ main \in Files
  BY OpenTyped DEF TypeOK
<1>2. Based(c) /\ Checked(c) /\ Sound(main)
  BY DEF PageInv
<1>3. \A x : Holds(pr[c].base, x) => Holds(main, x)
  BY <1>2 DEF Based, Within, Holds
<1>4. ~Holds(main, Garbage)
  BY <1>2 DEF Sound, Holds
<1>5. ~Holds(pr[c].file, Garbage)
  BY <1>2, <1>3, <1>4 DEF Checked, Holds
<1>6. PICK i \in DOMAIN pr[c].file.lines : pr[c].file.lines[i] = r
  BY <1>5 DEF Holds
<1>7. Holds(pr[c].base, r) \/ Holds(m.file, r)
  BY <1>1, <1>6, MergesHold
<1>8. \A x : Holds(main, x) => Holds(m.file, x)
  BY <1>1, MergesHold DEF Within, Holds
<1> QED
  BY <1>3, <1>7, <1>8

LEMMA StartKept ==
  ASSUME TypeOK, KeptInv, NEW s \in Sweeps, NEW c \in Checkouts, Start(s, c) PROVE KeptInv'
<1>1. /\ pr' = pr /\ sweep[s].at = "idle"
      /\ c \in Boxes => ~checkout[c].swept
      /\ checkout' = [checkout EXCEPT ![c] =
           IF c \in Boxes
           THEN [checkout[c] EXCEPT !.base = main, !.results = main, !.swept = TRUE]
           ELSE checkout[c]]
  BY DEF Start
<1>2. checkout \in [Checkouts -> Trees] /\ checkout[c] \in Trees /\ main \in Files
  BY DEF TypeOK
<1>3. /\ \A d \in Checkouts : d # c => checkout'[d] = checkout[d]
      /\ c \notin Boxes => checkout'[c] = checkout[c]
      /\ c \in Boxes =>
           /\ checkout'[c].base = main /\ checkout'[c].results = main
           /\ checkout'[c].swept /\ checkout'[c].wrote = checkout[c].wrote
  BY <1>1, <1>2 DEF Trees
<1>4. \A d \in Checkouts : Kept(d)
  BY DEF KeptInv
<1>5. ASSUME c \in Boxes PROVE Kept(c)'
  <2>1. checkout[c].wrote = {} /\ pr[c].at = "none" /\ c \notin Desks
    BY <1>1, <1>4, <1>5, PublicationAssumption DEF Kept, Fresh
  <2>2. Len(main.lines) \in Nat
    BY <1>2, FileParts
  <2> QED
    BY <1>1, <1>3, <1>5, <2>1, <2>2 DEF Kept, BoxKeeps, Fresh, Carried
<1>6. \A d \in Checkouts : Kept(d)'
  BY <1>1, <1>3, <1>4, <1>5, KeptFrame
<1>7. ASSUME NEW t \in Sweeps PROVE Cloned(t)'
  <2>1. \A d \in Checkouts : checkout[d].swept => checkout'[d].swept
    BY <1>3
  <2>2. PICK o, plan :
          sweep' = [sweep EXCEPT ![s] = [at |-> "running", in |-> c, opts |-> o,
                                         plan |-> plan, next |-> 0]]
    BY DEF Start
  <2>3. CASE t = s
    BY <1>3, <2>2, <2>3 DEF TypeOK, Cloned
  <2>4. CASE t # s
    <3>1. sweep'[t] = sweep[t]
      BY <2>2, <2>4 DEF TypeOK
    <3> QED
      BY <2>1, <3>1 DEF KeptInv, Cloned, Checkouts
  <2> QED
    BY <2>3, <2>4
<1> QED
  BY <1>6, <1>7 DEF KeptInv

\* What a repetition leaves of its checkout, whichever archive it goes to.
LEMMA MeasureLeaves ==
  ASSUME TypeOK, NEW s \in Sweeps, NEW status \in {"ok", "infra_bound", "failed"}, NEW version \in Versions,
         Measure(s, status, version), NEW c, c = sweep[s].in
  PROVE  /\ c \in Checkouts /\ Onward /\ UNCHANGED <<pr, main>>
         /\ \A d \in Checkouts : d # c => checkout'[d] = checkout[d]
         /\ checkout'[c].base = checkout[c].base /\ checkout'[c].swept = checkout[c].swept
         /\ \/ checkout'[c].results = checkout[c].results /\ checkout'[c].wrote = checkout[c].wrote
            \/ \E what \in Lines, newline \in BOOLEAN :
                 /\ checkout'[c].results = Write(checkout[c].results, what, newline)
                 /\ checkout'[c].wrote \subseteq checkout[c].wrote \union {what}
<1> DEFINE r == RecordOf(s, status, version)
           bars == sweep[s].opts.bars
           where == Archive(sweep[s].opts)
<1>1. Running(s) /\ UNCHANGED <<pr, main>>
  BY DEF Measure
<1>2. c \in Checkouts /\ r \in Built /\ bars \in BOOLEAN
  <2>1. sweep[s].opts \in Options
    BY <1>1, RunningTyped DEF Started
  <2> QED
    BY <1>1, <2>1, RunningTyped, RecordTyped, PublicationAssumption DEF Started
<1>3. where = IF bars THEN "tuning" ELSE "results"
  BY DEF Archive
<1>4. PICK w \in Writes(r) :
        /\ Turn(s, status = "failed" \/ ~w.ok)
        /\ checkout' = [checkout EXCEPT
             ![c][where] = Write(checkout[c][where], w.what, w.newline),
             ![c].wrote = IF w.ok /\ ~bars THEN checkout[c].wrote \union {r}
                          ELSE checkout[c].wrote]
  BY DEF Measure, RecordOf
<1>5. Onward
  BY <1>1, <1>4, TurnTyped
<1> HIDE DEF r
<1>6. w.what \in Lines /\ w.newline \in BOOLEAN /\ w.ok \in BOOLEAN /\ (w.ok => w.what = r)
  BY <1>2, <1>4, WritesTyped
<1> HIDE DEF where, bars
<1> DEFINE new == Write(checkout[c][where], w.what, w.newline)
           wrote == IF w.ok /\ ~bars THEN checkout[c].wrote \union {r} ELSE checkout[c].wrote
           tree == checkout[c]
<1>7. tree \in Trees /\ checkout \in [Checkouts -> Trees]
  BY <1>2 DEF TypeOK
<1>8. checkout' = [checkout EXCEPT ![c] = [[tree EXCEPT ![where] = new] EXCEPT !.wrote = wrote]]
  BY <1>2, <1>4, <1>7
<1>9. /\ bars => wrote = tree.wrote
      /\ wrote \subseteq tree.wrote \union {w.what}
      /\ ~bars => new = Write(tree.results, w.what, w.newline)
  BY <1>2, <1>3, <1>6
<1>10. tree = checkout[c]
  OBVIOUS
<1> HIDE DEF new, wrote, tree
<1>11. checkout'[c] = [[tree EXCEPT ![where] = new] EXCEPT !.wrote = wrote]
  BY <1>2, <1>7, <1>8
<1>12. \A d \in Checkouts : d # c => checkout'[d] = checkout[d]
  BY <1>7, <1>8
<1>13. /\ checkout'[c].base = tree.base /\ checkout'[c].swept = tree.swept
       /\ checkout'[c].wrote = wrote
  BY <1>2, <1>3, <1>7, <1>11 DEF Trees
<1>14. CASE bars
  BY <1>1, <1>2, <1>3, <1>5, <1>7, <1>9, <1>10, <1>11, <1>12, <1>13, <1>14 DEF Trees
<1>15. CASE ~bars
  <2>1. checkout'[c].results = new
    BY <1>2, <1>3, <1>7, <1>11, <1>15 DEF Trees
  <2>2. checkout'[c].results = Write(checkout[c].results, w.what, w.newline)
    BY <1>9, <1>10, <1>15, <2>1
  <2>3. checkout'[c].wrote \subseteq checkout[c].wrote \union {w.what}
    BY <1>9, <1>10, <1>13
  <2>4. \E what \in Lines, newline \in BOOLEAN :
          /\ checkout'[c].results = Write(checkout[c].results, what, newline)
          /\ checkout'[c].wrote \subseteq checkout[c].wrote \union {what}
    BY <1>6, <2>2, <2>3
  <2>5. checkout'[c].base = checkout[c].base /\ checkout'[c].swept = checkout[c].swept
    BY <1>10, <1>13
  <2> QED
    BY <1>1, <1>2, <1>5, <1>12, <2>4, <2>5
<1> QED
  BY <1>14, <1>15

LEMMA MeasureKept ==
  ASSUME TypeOK, KeptInv, NEW s \in Sweeps, NEW status \in {"ok", "infra_bound", "failed"}, NEW version \in Versions,
         Measure(s, status, version)
  PROVE  KeptInv'
<1>1. PICK c : c = sweep[s].in
  OBVIOUS
<1>2. Cloned(s) /\ sweep[s].at = "running"
  BY DEF KeptInv, Measure, Running
<1>3. /\ c \in Checkouts /\ Onward /\ pr' = pr
      /\ \A d \in Checkouts : d # c => checkout'[d] = checkout[d]
      /\ checkout'[c].base = checkout[c].base /\ checkout'[c].swept = checkout[c].swept
  BY <1>1, MeasureLeaves
<1>4. Kept(c) /\ \A d \in Checkouts : d # c => Kept(d)'
  BY <1>3, KeptFrame DEF KeptInv
<1>5. c \in Boxes => Fresh(c)'
  BY <1>1, <1>2, <1>3 DEF Cloned, Fresh
<1>6. Carried(c)'
  BY <1>3, <1>4 DEF Kept, Carried
<1>7. ASSUME checkout'[c].results = checkout[c].results, checkout'[c].wrote = checkout[c].wrote
      PROVE  Kept(c)'
  BY <1>3, <1>4, <1>5, <1>6, <1>7 DEF Kept, DeskKeeps, BoxKeeps, Past
<1>8. ASSUME NEW what \in Lines, NEW newline \in BOOLEAN,
             checkout'[c].results = Write(checkout[c].results, what, newline),
             checkout'[c].wrote \subseteq checkout[c].wrote \union {what}
      PROVE  Kept(c)'
  <2>1. PICK f, g, b : /\ f = checkout[c].results /\ g = checkout'[c].results
                       /\ b = Len(checkout[c].base.lines)
    OBVIOUS
  <2>2. f \in Files /\ checkout[c].base \in Files
    BY <1>3, <2>1 DEF TypeOK, Trees
  <2>3. /\ b \in Nat /\ Len(f.lines) \in Nat /\ DOMAIN f.lines = 1..Len(f.lines)
        /\ f.open \in BOOLEAN
    BY <2>1, <2>2, FileParts
  <2>4. g = Write(f, what, newline)
    BY <1>8, <2>1
  <2>5. /\ f = checkout[c].results /\ g = checkout'[c].results
        /\ b = Len(checkout[c].base.lines) /\ b = Len(checkout'[c].base.lines)
    BY <1>3, <2>1
  <2>6. /\ g \in Files
        /\ Len(g.lines) = IF f.open THEN Len(f.lines) ELSE Len(f.lines) + 1
        /\ f.open => g.lines[Len(g.lines)] = Garbage
        /\ ~f.open => g.lines[Len(g.lines)] = what
        /\ \A i \in 1..(Len(g.lines) - 1) : i \in DOMAIN f.lines /\ g.lines[i] = f.lines[i]
        /\ g.lines # <<>> /\ DOMAIN g.lines = 1..Len(g.lines)
    BY <1>8, <2>2, <2>4, WriteKeeps
  <2>7. Len(g.lines) \in Nat /\ Len(g.lines) > 0
    <3>1. g.lines \in Seq(Lines)
      BY <2>6, FileParts
    <3> QED
      BY <2>6, <3>1
  <2>8. Len(g.lines) \in DOMAIN g.lines
    BY <2>6, <2>7
  <2>9. ASSUME NEW i \in DOMAIN f.lines
        PROVE  \/ i \in DOMAIN g.lines /\ g.lines[i] = f.lines[i]
               \/ f.open /\ i = Len(g.lines)
    BY <2>3, <2>6
  <2>10. c \in Desks => DeskKeeps(c)'
    <3>1. f.open => Holds(g, Garbage)
      BY <2>6, <2>8 DEF Holds
    <3>2. ~f.open => Holds(g, what) /\ \A x : Holds(f, x) => Holds(g, x)
      BY <2>6, <2>8, <2>9 DEF Holds
    <3> QED
      BY <1>4, <1>8, <2>5, <3>1, <3>2 DEF Kept, DeskKeeps
  <2>11. ASSUME c \in Boxes PROVE BoxKeeps(c)'
    <3> SUFFICES ASSUME ~checkout[c].base.open
                 PROVE  /\ b <= Len(g.lines) /\ b < Len(g.lines)
                        /\ \A r \in checkout'[c].wrote : Past(c, r)' \/ Past(c, Garbage)'
      BY <1>3, <2>5 DEF BoxKeeps
    <3>1. /\ b <= Len(f.lines) /\ (f.open => b < Len(f.lines))
          /\ \A r \in checkout[c].wrote : Past(c, r) \/ Past(c, Garbage)
      BY <1>4, <2>5, <2>11 DEF Kept, BoxKeeps
    <3>2. b < Len(g.lines)
      BY <2>3, <2>6, <3>1
    <3>3. f.open => Past(c, Garbage)'
      BY <2>5, <2>6, <2>8, <3>2 DEF Past
    <3>4. ~f.open => Past(c, what)'
      BY <2>5, <2>6, <2>8, <3>2 DEF Past
    <3>5. ~f.open => \A x : Past(c, x) => Past(c, x)'
      BY <2>5, <2>9 DEF Past
    <3>6. \A r \in checkout'[c].wrote : Past(c, r)' \/ Past(c, Garbage)'
      BY <1>8, <3>1, <3>3, <3>4, <3>5
    <3> QED
      BY <2>3, <2>7, <3>2, <3>6
  <2> QED
    BY <1>5, <1>6, <2>10, <2>11 DEF Kept
<1>9. Kept(c)'
  <2>1. \/ checkout'[c].results = checkout[c].results /\ checkout'[c].wrote = checkout[c].wrote
        \/ \E what \in Lines, newline \in BOOLEAN :
             /\ checkout'[c].results = Write(checkout[c].results, what, newline)
             /\ checkout'[c].wrote \subseteq checkout[c].wrote \union {what}
    BY <1>1, MeasureLeaves
  <2> QED
    BY <1>7, <1>8, <2>1
<1>10. \A t \in Sweeps : Cloned(t)'
  <2>1. \A d \in Checkouts : checkout[d].swept => checkout'[d].swept
    BY <1>3
  <2> QED
    BY <1>3, <2>1, ClonedFrame
<1> QED
  BY <1>4, <1>9, <1>10 DEF KeptInv

LEMMA MoveKept ==
  ASSUME TypeOK, KeptInv, NEW c \in Checkouts, MoveTuning(c) PROVE KeptInv'
<1>1. /\ c \in Desks /\ c \notin Boxes /\ UNCHANGED <<sweep, pr, main>>
      /\ checkout' = [checkout EXCEPT
           ![c].results = [lines |-> checkout[c].results.lines \o checkout[c].tuning.lines,
                           open |-> checkout[c].tuning.open],
           ![c].tuning = Empty]
  BY PublicationAssumption DEF MoveTuning
<1>2. checkout \in [Checkouts -> Trees] /\ checkout[c] \in Trees
  BY DEF TypeOK
<1>3. /\ checkout'[c].results.lines = checkout[c].results.lines \o checkout[c].tuning.lines
      /\ checkout'[c].wrote = checkout[c].wrote /\ checkout'[c].swept = checkout[c].swept
      /\ \A d \in Checkouts : d # c => checkout'[d] = checkout[d]
  BY <1>1, <1>2 DEF Trees
<1>4. \A d \in Checkouts : Kept(d)
  BY DEF KeptInv
<1>5. \A x : Holds(checkout[c].results, x) => Holds(checkout'[c].results, x)
  <2>1. checkout[c].results.lines \in Seq(Lines) /\ checkout[c].tuning.lines \in Seq(Lines)
    BY <1>2, FileParts DEF Trees
  <2>2. Joins(checkout'[c].results, checkout[c].results.lines, checkout[c].tuning.lines)
    <3> DEFINE g == checkout'[c].results
    <3>1. g.lines = checkout[c].results.lines \o checkout[c].tuning.lines
      BY <1>3
    <3> HIDE DEF g
    <3>2. Joins(g, checkout[c].results.lines, checkout[c].tuning.lines)
      BY <2>1, <3>1, HoldsBoth
    <3> QED
      BY <3>2 DEF g
  <2> QED
    BY <2>2 DEF Joins, Holds
<1>6. Kept(c)'
  BY <1>1, <1>3, <1>4, <1>5 DEF Kept, DeskKeeps, Carried
<1>7. \A d \in Checkouts : Kept(d)'
  BY <1>1, <1>3, <1>4, <1>6, KeptFrame
<1>8. \A s \in Sweeps : Cloned(s)'
  BY <1>1, <1>3, ClonedFrame
<1> QED
  BY <1>7, <1>8 DEF KeptInv

LEMMA ProposeKept ==
  ASSUME TypeOK, KeptInv, NEW c \in Checkouts, Propose(c) PROVE KeptInv'
<1>1. UNCHANGED <<sweep, checkout, main>>
  BY DEF Propose
<1>2. /\ pr'[c].wrote = checkout[c].wrote
      /\ \A d \in Checkouts : d # c => pr'[d] = pr[d]
      /\ c \in Desks => pr'[c].file = checkout[c].results
      /\ c \notin Desks =>
           /\ pr'[c].file.lines = main.lines \o Appended(c)
           /\ \E s \in Sweeps : sweep[s].at = "done" /\ sweep[s].in = c
  BY ProposeTyped
<1>3. \A d \in Checkouts : Kept(d)
  BY DEF KeptInv
<1>4. ASSUME c \in Desks PROVE Kept(c)'
  BY <1>1, <1>2, <1>3, <1>4, PublicationAssumption DEF Kept, DeskKeeps, Carried
<1>5. ASSUME c \notin Desks PROVE Kept(c)'
  <2>1. c \in Boxes
    BY <1>5 DEF Checkouts
  <2>2. checkout[c].swept
    BY <1>2, <1>5, <2>1 DEF KeptInv, Cloned
  <2>3. ASSUME NEW x, Past(c, x) PROVE Holds(pr'[c].file, x)
    <3>1. Appended(c) \in Seq(Lines) /\ main.lines \in Seq(Lines)
      BY AppendedTyped, FileParts DEF TypeOK
    <3>2. PICK j \in DOMAIN Appended(c) : Appended(c)[j] = x
      BY <2>3, AppendedTyped DEF Past
    <3>3. PICK g : g = pr'[c].file
      OBVIOUS
    <3>4. Joins(g, main.lines, Appended(c))
      BY <1>2, <1>5, <3>1, <3>3, HoldsBoth
    <3> QED
      BY <3>2, <3>3, <3>4 DEF Joins
  <2>4. Carried(c)'
    BY <1>1, <1>2, <1>3, <2>1, <2>3 DEF Kept, BoxKeeps, Carried
  <2>5. BoxKeeps(c)'
    BY <1>1, <1>3, <2>1 DEF Kept, BoxKeeps, Past
  <2>6. Fresh(c)'
    BY <1>1, <2>2 DEF Fresh
  <2> QED
    BY <1>5, <2>4, <2>5, <2>6 DEF Kept
<1>6. \A d \in Checkouts : Kept(d)'
  BY <1>1, <1>2, <1>3, <1>4, <1>5, KeptFrame
<1>7. \A s \in Sweeps : Cloned(s)'
  BY <1>1, ClonedFrame
<1> QED
  BY <1>6, <1>7 DEF KeptInv

LEMMA CheckKept ==
  ASSUME TypeOK, KeptInv, NEW c \in Checkouts, Check(c) PROVE KeptInv'
<1>1. UNCHANGED <<sweep, checkout, main>>
  BY DEF Check
<1>2. /\ pr[c].at = "open" /\ pr'[c].file = pr[c].file /\ pr'[c].wrote = pr[c].wrote
      /\ \A d \in Checkouts : d # c => pr'[d] = pr[d]
  BY CheckTyped
<1>3. \A d \in Checkouts : Kept(d)
  BY DEF KeptInv
<1>4. Carried(c)' /\ (c \in Boxes => Fresh(c)')
  BY <1>1, <1>2, <1>3 DEF Kept, Carried, Fresh
<1>5. Kept(c)'
  BY <1>1, <1>3, <1>4 DEF Kept, DeskKeeps, BoxKeeps, Past
<1>6. \A d \in Checkouts : Kept(d)'
  BY <1>1, <1>2, <1>3, <1>5, KeptFrame
<1>7. \A s \in Sweeps : Cloned(s)'
  BY <1>1, ClonedFrame
<1> QED
  BY <1>6, <1>7 DEF KeptInv

LEMMA MergeKept ==
  ASSUME TypeOK, PageInv, KeptInv, NEW c \in Checkouts, Merge(c) PROVE KeptInv'
<1>1. /\ pr[c].at = "green" /\ pr'[c].at = "none" /\ sweep' = sweep
      /\ \A d \in Checkouts : d # c => pr'[d] = pr[d]
  BY MergeTyped DEF Merge
<1>2. PICK m \in Merges(pr[c].base, pr[c].file) : main' = m.file
  BY MergeTyped
<1>3. \/ checkout' = checkout
      \/ /\ c \in Desks /\ checkout[c].results = pr[c].file
         /\ checkout'[c].base = main' /\ checkout'[c].results = main'
         /\ checkout'[c].wrote = checkout[c].wrote
         /\ \A d \in Checkouts : d # c => checkout'[d] = checkout[d]
  BY MergeTyped
<1>4. \A d \in Checkouts : Kept(d)
  BY DEF KeptInv
<1>5. Kept(c)'
  <2>1. CASE checkout' = checkout
    BY <1>1, <1>4, <2>1 DEF Kept, DeskKeeps, BoxKeeps, Past, Fresh, Carried
  <2>2. ASSUME c \in Desks, checkout[c].results = pr[c].file,
               checkout'[c].results = m.file, checkout'[c].wrote = checkout[c].wrote
        PROVE  Kept(c)'
    <3>1. \A r \in checkout[c].wrote : Holds(m.file, r)
      <4>1. \A r \in checkout[c].wrote : Holds(pr[c].file, r) \/ Holds(pr[c].file, Garbage)
        BY <1>4, <2>2 DEF Kept, DeskKeeps
      <4> QED
        BY <1>1, <4>1, Landed
    <3> QED
      BY <1>1, <2>2, <3>1, PublicationAssumption DEF Kept, DeskKeeps, Carried
  <2> QED
    BY <1>2, <1>3, <2>1, <2>2
<1>6. \A d \in Checkouts : Kept(d)'
  BY <1>1, <1>3, <1>4, <1>5, KeptFrame
<1>7. ASSUME NEW s \in Sweeps PROVE Cloned(s)'
  <2>1. Cloned(s)
    BY DEF KeptInv
  <2>2. sweep[s].at # "idle" /\ sweep[s].in \in Boxes => checkout'[sweep[s].in] = checkout[sweep[s].in]
    BY <1>3, PublicationAssumption DEF Checkouts
  <2> QED
    BY <1>1, <2>1, <2>2 DEF Cloned
<1> QED
  BY <1>6, <1>7 DEF KeptInv

LEMMA CloseKept ==
  ASSUME TypeOK, KeptInv, NEW c \in Checkouts, Close(c) PROVE KeptInv'
<1>1. /\ pr'[c].at = "none"
      /\ checkout'[c].base = main /\ checkout'[c].results = main /\ checkout'[c].wrote = {}
      /\ checkout'[c].swept = checkout[c].swept
      /\ \A d \in Checkouts : d # c => pr'[d] = pr[d] /\ checkout'[d] = checkout[d]
  BY CloseTyped
<1>2. UNCHANGED <<sweep, main>>
  BY DEF Close
<1>3. \A d \in Checkouts : Kept(d)
  BY DEF KeptInv
<1>4. main \in Files /\ Len(main.lines) \in Nat
  BY FileParts DEF TypeOK
<1>5. ASSUME c \in Boxes PROVE BoxKeeps(c)'
  <2> SUFFICES ASSUME ~main.open
               PROVE  Len(main.lines) <= Len(main.lines)
    BY <1>1 DEF BoxKeeps
  <2> QED
    BY <1>4
<1>6. Kept(c)'
  BY <1>1, <1>5 DEF Kept, DeskKeeps, Fresh, Carried
<1>7. \A d \in Checkouts : Kept(d)'
  BY <1>1, <1>3, <1>6, KeptFrame
<1>8. \A s \in Sweeps : Cloned(s)'
  BY <1>1, <1>2, ClonedFrame
<1> QED
  BY <1>7, <1>8 DEF KeptInv

LEMMA KeptStep == TypeOK /\ PageInv /\ KeptInv /\ [Next]_vars => KeptInv'
<1> SUFFICES ASSUME TypeOK, PageInv, KeptInv, [Next]_vars PROVE KeptInv'
  OBVIOUS
<1>1. ASSUME UNCHANGED <<checkout, pr>>, Onward \/ sweep' = sweep PROVE KeptInv'
  <2>1. \A c \in Checkouts : Kept(c)'
    BY <1>1, KeptFrame DEF KeptInv
  <2>2. \A s \in Sweeps : Cloned(s)'
    BY <1>1, ClonedFrame
  <2> QED
    BY <2>1, <2>2 DEF KeptInv
<1>2. CASE UNCHANGED vars
  BY <1>1, <1>2 DEF vars
<1>3. ASSUME NEW s \in Sweeps, RefuseUnidentified(s) PROVE KeptInv'
  <2>1. Onward /\ UNCHANGED <<checkout, pr>>
    BY <1>3, TurnTyped DEF RefuseUnidentified
  <2> QED
    BY <1>1, <2>1
<1>4. ASSUME NEW s \in Sweeps, Crash(s) PROVE KeptInv'
  <2>1. Onward /\ UNCHANGED <<checkout, pr>>
    BY <1>4, CrashTyped DEF Crash
  <2> QED
    BY <1>1, <2>1
<1> QED
  BY <1>2, <1>3, <1>4, StartKept, MeasureKept, MoveKept, ProposeKept, CheckKept, MergeKept,
     CloseKept DEF Next

LEMMA KeptHolds == Spec => [](TypeOK /\ PageInv /\ KeptInv)
<1>1. Init => TypeOK /\ PageInv /\ KeptInv
  <2> SUFFICES ASSUME Init PROVE KeptInv
    BY InitTyped, InitPage
  <2>1. \A c \in Checkouts : /\ checkout[c].base = Empty /\ checkout[c].results = Empty
                             /\ checkout[c].wrote = {} /\ pr[c].at = "none"
    BY DEF Init
  <2>2. Empty.open = FALSE /\ Len(Empty.lines) \in Nat
    BY EmptyFile, FileParts DEF Empty
  <2>3. \A c \in Checkouts : Kept(c)
    BY <2>1, <2>2 DEF Kept, DeskKeeps, BoxKeeps, Fresh, Carried
  <2>4. \A s \in Sweeps : Cloned(s)
    BY DEF Init, Cloned
  <2> QED
    BY <2>3, <2>4 DEF KeptInv
<1>2. TypeOK /\ PageInv /\ KeptInv /\ [Next]_vars => TypeOK' /\ PageInv' /\ KeptInv'
  BY Typed, PageStep, KeptStep
<1> QED
  BY <1>1, <1>2, PTL DEF Spec

\* Only a merge takes a pull request from green to none.
LEMMA MergedOnly ==
  ASSUME TypeOK, [Next]_vars, NEW c \in Checkouts, pr[c].at = "green", pr'[c].at = "none"
  PROVE  Merge(c)
<1>1. CASE pr' = pr
  BY <1>1
<1>2. ASSUME NEW d \in Checkouts, Propose(d) \/ Check(d) \/ Merge(d) \/ Close(d) PROVE d = c
  BY <1>2, ProposeTyped, CheckTyped, MergeTyped, CloseTyped
<1>3. ~Propose(c) /\ ~Check(c) /\ ~Close(c)
  BY DEF Propose, Check, Close
<1>4. ASSUME pr' # pr PROVE \E d \in Checkouts : Propose(d) \/ Check(d) \/ Merge(d) \/ Close(d)
  BY <1>4 DEF Next, vars, Start, RefuseUnidentified, Crash, Measure, MoveTuning
<1> QED
  BY <1>1, <1>2, <1>3, <1>4

\* Whatever writes fail, whichever lines are applied once or twice and however main moves
\* between a check and its merge: when the pull request of a checkout is merged, every
\* record whose append returned is on main, but for a box cloned from a file whose last
\* line was torn (writeln!, run-bench.sh, validate).
THEOREM LossSeen == Spec => LossIsSeen
<1>1. TypeOK /\ PageInv /\ KeptInv /\ [Next]_vars =>
        [\A c \in Checkouts : pr[c].at = "green" /\ pr'[c].at = "none" =>
           \A r \in pr[c].wrote :
             Holds(main', r) \/ (c \in Boxes /\ checkout[c].base.open)]_vars
  <2> SUFFICES ASSUME TypeOK, PageInv, KeptInv, [Next]_vars,
                      NEW c \in Checkouts, pr[c].at = "green", pr'[c].at = "none",
                      NEW r \in pr[c].wrote, ~(c \in Boxes /\ checkout[c].base.open)
               PROVE  Holds(main', r)
    OBVIOUS
  <2>1. Merge(c)
    BY MergedOnly
  <2>2. PICK m \in Merges(pr[c].base, pr[c].file) : main' = m.file
    BY <2>1, MergeTyped
  <2>3. Holds(pr[c].file, r) \/ Holds(pr[c].file, Garbage)
    BY DEF KeptInv, Kept, Carried
  <2>4. Holds(m.file, r)
    BY <2>3, Landed
  <2> QED
    BY <2>2, <2>4 DEF Holds
<1> QED
  BY <1>1, KeptHolds, PTL DEF Spec, LossIsSeen

=============================================================================
