-------------------------------- MODULE Ladder --------------------------------
(***************************************************************************)
(* One format of a ceiling pass (measure_ingest and Sweep of               *)
(* src/harness/src/ceiling.rs): the format is proved on the arms' own      *)
(* table, a table and an inserter of the pass's own are made, and the      *)
(* concurrency ladder is climbed until its rule stops it. What a rung      *)
(* absorbs and what fails is up to the target; an earlier pass that was    *)
(* killed may have left its table and its inserter.                        *)
(***************************************************************************)
EXTENDS Integers, Sequences

CONSTANTS
  From, Step, \* INGEST_CONCURRENCY_FROM, INGEST_CONCURRENCY_STEP
  IngestMax,  \* --ingest-max
  Patience,   \* INGEST_SWEEP_PATIENCE
  Rates,      \* rows per second a rung can absorb
  NoRung      \* the ladder is over

ASSUME LadderAssumption ==
  /\ From \in Nat /\ Step \in Nat \ {0, 1} /\ IngestMax \in Nat /\ Patience \in Nat \ {0}
  /\ Rates \subseteq Nat /\ NoRung \notin Nat

VARIABLES
  pc,
  next, points, best, misses,  \* the Sweep; best is the winner's index
  undrivable,  \* a rung above those measured could not be driven
  proof,       \* proof rows are in the arms' table
  tbl,         \* the ceiling table
  inserter,    \* who POSTs into it
  outcome

sweep == <<next, points, best, misses>>
vars == <<pc, sweep, undrivable, proof, tbl, inserter, outcome>>

MaxRung == IF IngestMax = 0 THEN 1 ELSE IngestMax
FirstRung == IF From > MaxRung THEN MaxRung ELSE IF From = 0 THEN 1 ELSE From

Landings == {"all", "short", "unread"}

Init ==
  /\ pc = "prove"
  /\ next = FirstRung /\ points = <<>> /\ best = 1 /\ misses = 0
  /\ undrivable = FALSE /\ proof \in BOOLEAN
  /\ tbl \in {"none", "rows"} /\ inserter \in {"none", "orphan"}
  /\ outcome = "none"

Refuse(to) == outcome' = "refused" /\ pc' = to

-----------------------------------------------------------------------------
\* An inserter whose pass was killed finishes its window, then reads the end
\* of its pipe.
Orphan ==
  /\ inserter = "orphan"
  /\ \/ inserter' = "none" /\ UNCHANGED tbl
     \/ tbl = "empty" /\ tbl' = "rows" /\ UNCHANGED inserter
  /\ UNCHANGED <<pc, sweep, undrivable, proof, outcome>>

\* prove_format_lands_correctly: its rows are truncated away on every path, as
\* far as the server does as it is told.
Prove ==
  /\ pc = "prove"
  /\ proof' \in BOOLEAN
  /\ \/ pc' = "create" /\ UNCHANGED outcome
     \/ Refuse("ended")
  /\ UNCHANGED <<sweep, undrivable, tbl, inserter>>

\* CeilingTable::create: the DROP of what an earlier pass left is not checked.
Create ==
  /\ pc = "create"
  /\ tbl' \in {"empty", tbl} \ {"none"}
  /\ pc' = "start"
  /\ UNCHANGED <<sweep, undrivable, proof, inserter, outcome>>

CreateFails ==
  /\ pc = "create"
  /\ tbl' \in {"none", tbl}
  /\ Refuse("ended")
  /\ UNCHANGED <<sweep, undrivable, proof, inserter>>

\* Inserter::start: a container that still has the name is removed first, and
\* one that could not be removed makes `docker run` fail.
Start ==
  /\ pc = "start"
  /\ \/ inserter' = "own" /\ pc' = "settle" /\ UNCHANGED outcome
     \/ inserter' \in {inserter, "none"} /\ Refuse("drop")
  /\ UNCHANGED <<sweep, undrivable, proof, tbl>>

\* settle: an empty table for every rung. How long its parts take to go is not
\* waited for without limit, and is not modelled.
Settle ==
  /\ pc = "settle"
  /\ \/ tbl' = "empty" /\ pc' = "burst" /\ UNCHANGED outcome
     \/ Refuse("drop") /\ UNCHANGED tbl
  /\ UNCHANGED <<sweep, undrivable, proof, inserter>>

-----------------------------------------------------------------------------
\* Mutant: any gain at all makes a new best, measured against the rung before.
BeatsLast(rows) == points = <<>> \/ rows > points[Len(points)].rows

\* Better than the incumbent by more than INGEST_SWEEP_MARGIN, 3 per cent.
Improves(rows) == points = <<>> \/ 100 * rows > 103 * points[best].rows

\* Mutant: only the patience ends the climb.
ClimbOnPatience(concurrency, missed) ==
  IF missed >= Patience THEN NoRung
  ELSE IF concurrency * Step < MaxRung THEN concurrency * Step ELSE MaxRung

\* Climb by Step, and try the bound itself rather than pass it.
Climb(concurrency, missed) ==
  IF missed >= Patience \/ concurrency >= MaxRung THEN NoRung
  ELSE IF concurrency * Step < MaxRung THEN concurrency * Step ELSE MaxRung

\* Sweep::observe
Observe(concurrency, rows, landed) ==
  /\ points' = Append(points, [concurrency |-> concurrency, rows |-> rows, landed |-> landed])
  /\ best' = IF Improves(rows) THEN Len(points) + 1 ELSE best
  /\ misses' = IF Improves(rows) THEN 0 ELSE misses + 1
  /\ next' = Climb(concurrency, misses')

\* A rung, and what of its rows is in the table when it ended.
Burst ==
  /\ pc = "burst"
  /\ \E rows \in Rates, landed \in Landings : Observe(next, rows, landed)
  /\ tbl' = "rows"
  /\ pc' = IF next' = NoRung THEN "conclude" ELSE "settle"
  /\ UNCHANGED <<undrivable, proof, inserter, outcome>>

\* A rung that cannot be driven: the first one refuses the pass, a later one
\* ends the ladder.
BurstFails ==
  /\ pc = "burst"
  /\ tbl' \in {"empty", "rows"}
  /\ IF points = <<>>
       THEN Refuse("drop") /\ UNCHANGED undrivable
       ELSE undrivable' = TRUE /\ pc' = "conclude" /\ UNCHANGED outcome
  /\ UNCHANGED <<sweep, proof, inserter>>

\* Mutant: a plateau is whatever the ladder stopped on.
NeverClimbing == FALSE

\* Sweep::still_climbing
still_climbing == points # <<>> /\ best = Len(points)

\* Mutant: what the last rung landed is looked at.
LandedLast == points[Len(points)].landed # "short"

\* check_landed, of the winning rung.
check_landed == points[best].landed # "short"

\* The ceiling, or the refusal to publish a floor as one.
Conclude ==
  /\ pc = "conclude"
  /\ pc' = "drop"
  /\ outcome' = IF ~still_climbing /\ check_landed THEN "ceiling" ELSE "refused"
  /\ UNCHANGED <<sweep, undrivable, proof, tbl, inserter>>

\* Mutant: only a pass that has its ceiling stops the inserter.
DropInserterOnSuccess ==
  /\ pc = "drop" /\ inserter = "own" /\ outcome = "ceiling"
  /\ inserter' = "none"
  /\ UNCHANGED <<pc, sweep, undrivable, proof, tbl, outcome>>

\* Locals are dropped in the reverse of the order they were made in.
DropInserter ==
  /\ pc = "drop" /\ inserter = "own"
  /\ inserter' = "none"
  /\ UNCHANGED <<pc, sweep, undrivable, proof, tbl, outcome>>

DropTable ==
  /\ pc = "drop" /\ inserter # "own"
  /\ tbl' \in {"none", tbl}
  /\ pc' = "ended"
  /\ UNCHANGED <<sweep, undrivable, proof, inserter, outcome>>

Driver ==
  \/ Prove \/ Create \/ CreateFails \/ Start \/ Settle
  \/ Burst \/ BurstFails \/ Conclude
  \/ DropInserter \/ DropTable

Next == Driver \/ Orphan

\* The pass goes on: every answer the target can give is one it goes on from.
Spec == Init /\ [][Next]_vars /\ WF_vars(Driver)
-----------------------------------------------------------------------------
Tried == {points[i].concurrency : i \in 1..Len(points)}

TypeOK ==
  /\ pc \in {"prove", "create", "start", "settle", "burst", "conclude", "drop", "ended"}
  /\ next \in 1..MaxRung \union {NoRung}
  /\ points \in Seq([concurrency : 1..MaxRung, rows : Rates, landed : Landings])
  /\ best \in 1..(IF points = <<>> THEN 1 ELSE Len(points)) /\ misses \in 0..Patience
  /\ undrivable \in BOOLEAN /\ proof \in BOOLEAN
  /\ tbl \in {"none", "empty", "rows"} /\ inserter \in {"none", "orphan", "own"}
  /\ outcome \in {"none", "ceiling", "refused"}

\* "The figure is therefore understated by at most this much": no rung that
\* was measured beats the incumbent by more than the margin, whatever order
\* good and bad rungs came in.
UnderstatedByMargin ==
  \A i \in 1..Len(points) : 100 * points[i].rows <= 103 * points[best].rows

\* A ceiling is not a floor: more inserters than the winner's were tried, and
\* did not beat it.
CeilingIsNoFloor ==
  outcome = "ceiling" => \E c \in Tried : c > points[best].concurrency

\* The figure that becomes the ceiling is one whose rows stayed.
WinnerLanded == outcome = "ceiling" => points[best].landed # "short"

\* The turns a pass can still take: two for each rung above the next one, a settle
\* and a burst, and those of the stages to come.
RungsAbove == IF next = NoRung THEN 0 ELSE MaxRung - next
StagesLeft ==
  CASE pc = "prove" -> 8 [] pc = "create" -> 7 [] pc = "start" -> 6 [] pc = "settle" -> 5
    [] pc = "burst" -> 4 [] pc = "conclude" -> 3
    [] pc = "drop" -> IF inserter = "own" THEN 2 ELSE 1
    [] pc = "ended" -> 0
TurnsLeft == 2 * RungsAbove + StagesLeft

\* "the bound that guarantees it terminates against a target that never plateaus":
\* whatever the rungs absorb and whatever fails, every turn of the pass leaves fewer,
\* and what an orphan does beside it gives none back.
ClimbRunsDown ==
  /\ [](TurnsLeft \in Nat)
  /\ [][TurnsLeft' <= TurnsLeft /\ (Driver => TurnsLeft' < TurnsLeft)]_vars

\* The climb ends by its bound and everything is put away, on a refusal as on a ceiling.
PassEnds == ClimbRunsDown /\ <>(pc = "ended" /\ inserter # "own")
=============================================================================
