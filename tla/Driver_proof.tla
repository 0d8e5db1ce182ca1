---------------------------- MODULE Driver_proof ----------------------------
(***************************************************************************)
(* Proofs about what the driver does with an arm. About Sweep, for every   *)
(* set of arms, every naming of their containers, every selection, number  *)
(* of repetitions and of invocations, and any number of kills and of       *)
(* failing teardowns and removals. About Accounting, for any containers,   *)
(* rates, levels, sampling interval, times and number of faults, pauses    *)
(* and inserts: what an arm is charged is what its containers did.         *)
(***************************************************************************)
EXTENDS Sweep, Accounting, FiniteSetTheorems, WellFoundedInduction, TLAPS

-----------------------------------------------------------------------------
(* Type correctness, one part of TypeOK at a time.                         *)

LEMMA TypeInit == Init => TypeOK
<1> SUFFICES ASSUME Init PROVE TypeOK
  OBVIOUS
<1> USE SweepAssumption DEF SweepAssumption, Init
<1>1. LoopOK  BY DEF LoopOK
<1>2. FlagsOK  BY DEF FlagsOK, Stages, Statuses
<1>3. WorldOK  BY DEF WorldOK
<1>4. BudgetOK  BY DEF BudgetOK
<1> QED  BY <1>1, <1>2, <1>3, <1>4 DEF TypeOK

LEMMA CurType ==
  ASSUME TypeOK, pc # "idle"
  PROVE  cur \in Arms /\ own \in Containers
<1>1. cur = sweep[idx] /\ idx \in 1..Len(sweep) /\ sweep \in Seq(Arms)
  BY DEF TypeOK, LoopOK, cur
<1>2. cur \in Arms
  BY <1>1
<1> QED  BY <1>2 DEF TypeOK, LoopOK, own, Containers

\* The loop's position only moves at a launch and at the end of a turn.
LEMMA EndTurnLoop ==
  ASSUME TypeOK, pc # "idle", NEW refused \in BOOLEAN, EndTurn(refused)
  PROVE  LoopOK' /\ pc' \in Stages
<1> USE SweepAssumption DEF SweepAssumption, TypeOK, LoopOK, EndTurn, loop, Stages
<1>1. CASE UNCHANGED loop /\ pc' = "idle"
  BY <1>1
<1>2. CASE pc' = "identify" /\ attempt' = attempt + 1 /\ UNCHANGED <<sweep, runs>>
           /\ idx < Len(sweep) /\ idx' = idx + 1 /\ rep' = rep
  BY <1>2
<1>3. CASE /\ pc' = "identify" /\ attempt' = attempt + 1 /\ UNCHANGED <<sweep, runs>>
           /\ ~(idx < Len(sweep)) /\ idx' = 1 /\ rep' = rep + 1
           /\ ~(idx = Len(sweep) /\ rep = Reps)
  <2>1. idx = Len(sweep) /\ rep # Reps  BY <1>3
  <2> QED  BY <1>3, <2>1
<1> QED  BY <1>1, <1>2, <1>3

LEMMA LaunchLoop ==
  ASSUME TypeOK, NEW sel \in Selections, Launch(sel)
  PROVE  LoopOK'
<1>1. sel \in Seq(Arms) /\ Len(sel) \in Nat /\ Len(sel) # 0
  BY SweepAssumption DEF SweepAssumption
<1> QED  BY <1>1, SweepAssumption DEF SweepAssumption, TypeOK, LoopOK, Launch

LEMMA LoopStep == TypeOK /\ [Next]_vars => LoopOK'
<1> SUFFICES ASSUME TypeOK, [Next]_vars PROVE LoopOK'
  OBVIOUS
<1>1. CASE UNCHANGED loop /\ (pc' # "idle" => pc # "idle")
  BY <1>1 DEF TypeOK, LoopOK, loop
<1>2. ASSUME NEW sel \in Selections, Launch(sel) PROVE LoopOK'
  BY <1>2, LaunchLoop
<1>3. ASSUME pc # "idle", NEW refused \in BOOLEAN, EndTurn(refused) PROVE LoopOK'
  BY <1>3, EndTurnLoop
<1>4. CASE Driver
  <2> USE <1>1, <1>3 DEF Goto, Unwind, Pass, Refuse, Panic
  <2>1. CASE Identify  BY <2>1 DEF Identify
  <2>2. CASE DefensiveTeardown  BY <2>2 DEF DefensiveTeardown
  <2>3. CASE Truncate  BY <2>3 DEF Truncate
  <2>4. CASE CreateObjects  BY <2>4 DEF CreateObjects
  <2>5. CASE StartArm  BY <2>5 DEF StartArm
  <2>6. CASE Stop  BY <2>6 DEF Stop
  <2>7. CASE Evaluate  BY <2>7 DEF Evaluate
  <2>8. CASE RunGates  BY <2>8 DEF RunGates
  <2>9. CASE Finish  BY <2>9 DEF Finish
  <2>10. CASE DropContainers  BY <2>10 DEF DropContainers
  <2>11. CASE DropObjects  BY <2>11 DEF DropObjects
  <2>12. CASE AppendRecord  BY <2>12 DEF AppendRecord
  <2>13. CASE ArmObjectsNew  BY <2>13 DEF ArmObjectsNew
  <2>14. CASE assert_pinned_version \/ build_specs \/ HoldWindow \/ CheckCosts \/ Quiesce
    BY <2>14 DEF assert_pinned_version, build_specs, HoldWindow, CheckCosts, Quiesce
  <2> QED
    BY <1>4, <2>1, <2>2, <2>3, <2>4, <2>5, <2>6, <2>7, <2>8, <2>9, <2>10, <2>11,
       <2>12, <2>13, <2>14 DEF Driver
<1>5. CASE Kill
  BY <1>5, <1>1 DEF Kill
<1>6. ASSUME NEW c \in containers, Land(c) PROVE LoopOK'
  BY <1>6, <1>1 DEF Land
<1>7. CASE UNCHANGED vars
  BY <1>7, <1>1 DEF vars
<1> QED  BY <1>2, <1>4, <1>5, <1>6, <1>7 DEF Next

LEMMA FlagsStep == TypeOK /\ [Next]_vars => FlagsOK'
<1> SUFFICES ASSUME TypeOK, [Next]_vars PROVE FlagsOK'
  OBVIOUS
<1> USE SweepAssumption, CurType DEF SweepAssumption, TypeOK, FlagsOK, Stages, Statuses,
        loop, guards, world, left, budget, Goto, Unwind, Pass, Refuse, Panic
<1>1. CASE UNCHANGED vars
  BY <1>1 DEF vars
<1>2. ASSUME NEW sel \in Selections, Launch(sel) PROVE FlagsOK'
  BY <1>2 DEF Launch
<1>3. CASE Driver
  <2>1. CASE Identify  BY <2>1 DEF Identify, EndTurn
  <2>2. CASE assert_pinned_version  BY <2>2 DEF assert_pinned_version
  <2>3. CASE ArmObjectsNew  BY <2>3 DEF ArmObjectsNew
  <2>4. CASE DefensiveTeardown  BY <2>4 DEF DefensiveTeardown, TornDown, TeardownFails
  <2>5. CASE Truncate  BY <2>5 DEF Truncate
  <2>6. CASE CreateObjects  BY <2>6 DEF CreateObjects
  <2>7. CASE build_specs  BY <2>7 DEF build_specs
  <2>8. CASE StartArm  BY <2>8 DEF StartArm, Replaced
  <2>9. CASE HoldWindow  BY <2>9 DEF HoldWindow
  <2>10. CASE CheckCosts  BY <2>10 DEF CheckCosts
  <2>11. CASE Quiesce  BY <2>11 DEF Quiesce
  <2>12. CASE Stop  BY <2>12 DEF Stop, StopContainers
  <2>13. CASE Evaluate  BY <2>13 DEF Evaluate, CarriesMetrics
  <2>14. CASE RunGates  BY <2>14 DEF RunGates
  <2>15. CASE Finish  BY <2>15 DEF Finish, TornDown, TeardownFails
  <2>16. CASE DropContainers  BY <2>16 DEF DropContainers, StopContainers
  <2>17. CASE DropObjects  BY <2>17 DEF DropObjects, TornDown, TeardownFails
  <2>18. CASE AppendRecord  BY <2>18 DEF AppendRecord, EndTurn, Records, CarriesMetrics
  <2> QED  BY <1>3, <2>1, <2>2, <2>3, <2>4, <2>5, <2>6, <2>7, <2>8, <2>9, <2>10, <2>11, <2>12, <2>13, <2>14, <2>15, <2>16, <2>17, <2>18 DEF Driver
<1>4. CASE Kill
  BY <1>4 DEF Kill
<1>5. ASSUME NEW c \in containers, Land(c) PROVE FlagsOK'
  BY <1>5 DEF Land
<1> QED  BY <1>1, <1>2, <1>3, <1>4, <1>5 DEF Next

LEMMA WorldStep == TypeOK /\ [Next]_vars => WorldOK'
<1> SUFFICES ASSUME TypeOK, [Next]_vars PROVE WorldOK'
  OBVIOUS
<1> USE SweepAssumption, CurType DEF SweepAssumption, TypeOK, WorldOK, FlagsOK,
        loop, guards, world, left, budget, Goto, Unwind, Pass, Refuse, Panic
<1>1. CASE UNCHANGED vars
  BY <1>1 DEF vars
<1>2. ASSUME NEW sel \in Selections, Launch(sel) PROVE WorldOK'
  BY <1>2 DEF Launch
<1>3. CASE Driver
  <2>1. CASE Identify  BY <2>1 DEF Identify, EndTurn
  <2>2. CASE assert_pinned_version  BY <2>2 DEF assert_pinned_version
  <2>3. CASE ArmObjectsNew  BY <2>3 DEF ArmObjectsNew
  <2>4. CASE DefensiveTeardown  BY <2>4 DEF DefensiveTeardown, TornDown, TeardownFails
  <2>5. CASE Truncate  BY <2>5 DEF Truncate
  <2>6. CASE CreateObjects  BY <2>6 DEF CreateObjects
  <2>7. CASE build_specs  BY <2>7 DEF build_specs
  <2>8. CASE StartArm  BY <2>8 DEF StartArm, Replaced
  <2>9. CASE HoldWindow  BY <2>9 DEF HoldWindow
  <2>10. CASE CheckCosts  BY <2>10 DEF CheckCosts
  <2>11. CASE Quiesce  BY <2>11 DEF Quiesce
  <2>12. CASE Stop  BY <2>12 DEF Stop, StopContainers
  <2>13. CASE Evaluate  BY <2>13 DEF Evaluate, CarriesMetrics
  <2>14. CASE RunGates  BY <2>14 DEF RunGates
  <2>15. CASE Finish  BY <2>15 DEF Finish, TornDown, TeardownFails
  <2>16. CASE DropContainers  BY <2>16 DEF DropContainers, StopContainers
  <2>17. CASE DropObjects  BY <2>17 DEF DropObjects, TornDown, TeardownFails
  <2>18. CASE AppendRecord
    <3>1. [arm |-> cur, attempt |-> attempt, status |-> status, rows |-> seen,
           tainted |-> tainted] \in Records
      BY <2>18 DEF AppendRecord, LoopOK, Records
    <3>2. last' \in Records \union {NoRecord}
      BY <2>18, <3>1 DEF AppendRecord
    <3> QED  BY <2>18, <3>2 DEF AppendRecord
  <2> QED  BY <1>3, <2>1, <2>2, <2>3, <2>4, <2>5, <2>6, <2>7, <2>8, <2>9, <2>10, <2>11, <2>12, <2>13, <2>14, <2>15, <2>16, <2>17, <2>18 DEF Driver
<1>4. CASE Kill
  BY <1>4 DEF Kill
<1>5. ASSUME NEW c \in containers, Land(c) PROVE WorldOK'
  BY <1>5 DEF Land, Containers
<1> QED  BY <1>1, <1>2, <1>3, <1>4, <1>5 DEF Next

LEMMA BudgetStep == TypeOK /\ [Next]_vars => BudgetOK'
<1> SUFFICES ASSUME TypeOK, [Next]_vars PROVE BudgetOK'
  OBVIOUS
<1> USE SweepAssumption, CurType DEF SweepAssumption, TypeOK, BudgetOK,
        loop, guards, world, left, budget, Goto, Unwind, Pass, Refuse, Panic
<1>1. CASE UNCHANGED vars
  BY <1>1 DEF vars
<1>2. ASSUME NEW sel \in Selections, Launch(sel) PROVE BudgetOK'
  BY <1>2 DEF Launch
<1>3. CASE Driver
  <2>1. CASE Identify  BY <2>1 DEF Identify, EndTurn
  <2>2. CASE assert_pinned_version  BY <2>2 DEF assert_pinned_version
  <2>3. CASE ArmObjectsNew  BY <2>3 DEF ArmObjectsNew
  <2>4. CASE DefensiveTeardown  BY <2>4 DEF DefensiveTeardown, TornDown, TeardownFails
  <2>5. CASE Truncate  BY <2>5 DEF Truncate
  <2>6. CASE CreateObjects  BY <2>6 DEF CreateObjects
  <2>7. CASE build_specs  BY <2>7 DEF build_specs
  <2>8. CASE StartArm  BY <2>8 DEF StartArm, Replaced
  <2>9. CASE HoldWindow  BY <2>9 DEF HoldWindow
  <2>10. CASE CheckCosts  BY <2>10 DEF CheckCosts
  <2>11. CASE Quiesce  BY <2>11 DEF Quiesce
  <2>12. CASE Stop  BY <2>12 DEF Stop, StopContainers
  <2>13. CASE Evaluate  BY <2>13 DEF Evaluate, CarriesMetrics
  <2>14. CASE RunGates  BY <2>14 DEF RunGates
  <2>15. CASE Finish  BY <2>15 DEF Finish, TornDown, TeardownFails
  <2>16. CASE DropContainers  BY <2>16 DEF DropContainers, StopContainers
  <2>17. CASE DropObjects  BY <2>17 DEF DropObjects, TornDown, TeardownFails
  <2>18. CASE AppendRecord  BY <2>18 DEF AppendRecord, EndTurn, Records, CarriesMetrics
  <2> QED  BY <1>3, <2>1, <2>2, <2>3, <2>4, <2>5, <2>6, <2>7, <2>8, <2>9, <2>10, <2>11, <2>12, <2>13, <2>14, <2>15, <2>16, <2>17, <2>18 DEF Driver
<1>4. CASE Kill
  BY <1>4 DEF Kill
<1>5. ASSUME NEW c \in containers, Land(c) PROVE BudgetOK'
  BY <1>5 DEF Land
<1> QED  BY <1>1, <1>2, <1>3, <1>4, <1>5 DEF Next

LEMMA TypeStep == TypeOK /\ [Next]_vars => TypeOK'
  BY LoopStep, FlagsStep, WorldStep, BudgetStep DEF TypeOK

\* Every variable of the sweep keeps its type, the loop's position stays inside
\* the selection, and only arms that declare objects ever have any.
THEOREM TypeCorrect == Spec => []TypeOK
  BY TypeInit, TypeStep, PTL DEF Spec

-----------------------------------------------------------------------------
(* The inductive invariant.                                                *)

LEMMA InvInit == Init => SweepInv
  BY DEF Init, SweepInv, GuardsScoped, FailedUnwind, ObjectsConfined,
         ContainersConfined, OwnObjectsGone, OwnTable, RecordIsOwn, Truncated,
         CarriesMetrics

LEMMA InvStep == TypeOK /\ TypeOK' /\ SweepInv /\ [Next]_vars => SweepInv'
<1> SUFFICES ASSUME TypeOK, TypeOK', SweepInv, [Next]_vars PROVE SweepInv'
  OBVIOUS
<1> USE SweepAssumption DEF SweepAssumption, TypeOK, FlagsOK, WorldOK, Stages, Statuses,
        Containers,
        own, cur, loop, guards, world, left, budget, Goto, Unwind, Pass, Refuse, Panic,
        SweepInv, GuardsScoped, FailedUnwind, ObjectsConfined, ContainersConfined,
        OwnObjectsGone, OwnTable, RecordIsOwn, Truncated, CarriesMetrics
<1>1. CASE UNCHANGED vars
  BY <1>1 DEF vars
<1>2. ASSUME NEW sel \in Selections, Launch(sel) PROVE SweepInv'
  BY <1>2 DEF Launch
<1>3. CASE Driver
  <2>1. CASE Identify  BY <2>1 DEF Identify, EndTurn
  <2>2. CASE assert_pinned_version  BY <2>2 DEF assert_pinned_version
  <2>3. CASE ArmObjectsNew  BY <2>3 DEF ArmObjectsNew
  <2>4. CASE DefensiveTeardown  BY <2>4 DEF DefensiveTeardown, TornDown, TeardownFails
  <2>5. CASE Truncate
    <3>1. CASE pc = "truncate" /\ pc' \in {"create", "specs"} /\ table' = {}
               /\ tainted' = (strays # {})
               /\ UNCHANGED <<loop, guards, panicking, status, seen, objects,
                              containers, last, budget, owed, left>>
      <4>1. cur' = cur /\ own' = own  BY <3>1
      <4>2. ~tainted' => strays = {}  BY <3>1
      <4>3. OwnTable'  BY <3>1, <4>2
      <4>4. GuardsScoped'  BY <2>5, <3>1 DEF Truncate
      <4>5. ObjectsConfined' /\ ContainersConfined' /\ OwnObjectsGone' /\ RecordIsOwn'
        BY <3>1, <4>1
      <4> QED  BY <3>1, <4>3, <4>4, <4>5
    <3>2. CASE Refuse("truncate") \/ Panic("truncate")
      BY <3>2
    <3> QED  BY <2>5, <3>1, <3>2 DEF Truncate
  <2>6. CASE CreateObjects  BY <2>6 DEF CreateObjects
  <2>7. CASE build_specs  BY <2>7 DEF build_specs
  <2>8. CASE StartArm  BY <2>8 DEF StartArm, Replaced
  <2>9. CASE HoldWindow  BY <2>9 DEF HoldWindow
  <2>10. CASE CheckCosts  BY <2>10 DEF CheckCosts
  <2>11. CASE Quiesce  BY <2>11 DEF Quiesce
  <2>12. CASE Stop  BY <2>12 DEF Stop, StopContainers
  <2>13. CASE Evaluate  BY <2>13 DEF Evaluate, CarriesMetrics
  <2>14. CASE RunGates
    <3>1. CASE pc = "gate" /\ pc' = (IF cur \in SqlArms THEN "finish" ELSE "append")
               /\ table # {} /\ seen' = table
               /\ UNCHANGED <<loop, guards, panicking, status, world, last, budget,
                              owed, left, tainted>>
      <4>1. cur' = cur /\ own' = own  BY <3>1
      <4>2. ASSUME ~tainted PROVE table = {attempt}
        <5>1. table \subseteq {attempt}  BY <3>1, <4>2
        <5>2. PICK x \in table : TRUE  BY <3>1
        <5>3. x = attempt /\ attempt \in table  BY <5>1, <5>2
        <5> QED  BY ONLY <5>1, <5>3, Zenon
      <4> QED  BY <3>1, <4>1, <4>2
    <3>2. CASE Refuse("gate") \/ Panic("gate")
      BY <3>2
    <3> QED  BY <2>14, <3>1, <3>2 DEF RunGates
  <2>15. CASE Finish  BY <2>15 DEF Finish, TornDown, TeardownFails
  <2>16. CASE DropContainers  BY <2>16 DEF DropContainers, StopContainers
  <2>17. CASE DropObjects  BY <2>17 DEF DropObjects, TornDown, TeardownFails
  <2>18. CASE AppendRecord  BY <2>18 DEF AppendRecord, EndTurn, Records, CarriesMetrics
  <2> QED  BY <1>3, <2>1, <2>2, <2>3, <2>4, <2>5, <2>6, <2>7, <2>8, <2>9, <2>10, <2>11, <2>12, <2>13, <2>14, <2>15, <2>16, <2>17, <2>18 DEF Driver
<1>4. CASE Kill
  BY <1>4 DEF Kill
<1>5. ASSUME NEW c \in containers, Land(c) PROVE SweepInv'
  BY <1>5 DEF Land
<1> QED  BY <1>1, <1>2, <1>3, <1>4, <1>5 DEF Next

LEMMA Invariant == Spec => [](TypeOK /\ SweepInv)
  BY TypeInit, TypeStep, InvInit, InvStep, PTL DEF Spec

-----------------------------------------------------------------------------
(* What follows from it.                                                   *)

\* On every path out of a repetition its arm's ClickHouse objects are gone
\* again, or a kill or a reported teardown failure has left them.
THEOREM Confined == Spec => [](ObjectsConfined /\ ContainersConfined)
<1>1. SweepInv => ObjectsConfined /\ ContainersConfined
  BY DEF SweepInv
<1> QED  BY <1>1, Invariant, PTL

\* The table is never truncated under the measured arm's own view, even one
\* that a killed driver left, nor under another's that nothing has left.
THEOREM BareTruncate == Spec => []OwnObjectsGoneAtTruncate
<1>1. SweepInv => OwnObjectsGoneAtTruncate
  BY DEF SweepInv, ObjectsConfined, OwnObjectsGone, OwnObjectsGoneAtTruncate
<1> QED  BY <1>1, Invariant, PTL

\* A record with metrics rests on the rows of its own repetition only, unless
\* strays were up at its truncate.
THEOREM OwnRows == Spec => []RecordIsOwn
<1>1. SweepInv => RecordIsOwn
  BY DEF SweepInv
<1> QED  BY <1>1, Invariant, PTL

\* Before a record with metrics is appended its arm has nothing left running
\* or installed that the next arm would pay for.
THEOREM CleanRecord == Spec => []CleanBeforeRecord
<1>1. SweepInv => CleanBeforeRecord
  BY DEF SweepInv, GuardsScoped, ContainersConfined, OwnObjectsGone, CleanBeforeRecord
<1> QED  BY <1>1, Invariant, PTL

\* A step that removes objects finds none of their containers up but strays:
\* only three steps remove any, and none while the containers' guard is set.
LEMMA OutliveStep ==
  ASSUME TypeOK, SweepInv, [Next]_vars
  PROVE  \A a \in objects \ objects' : \A c \in containers : c.arm = a => c \in strays
<1>1. SUFFICES ASSUME objects' # objects, objects \ objects' # {}
               PROVE  containers \subseteq strays
  OBVIOUS
<1> USE DEF loop, guards, world, left, budget, Goto, Unwind, Pass, Refuse, Panic
<1>2. CASE DefensiveTeardown \/ Finish \/ DropObjects
  <2>1. pc \in {"defensive", "finish", "dropObjects"}
    BY <1>2 DEF DefensiveTeardown, Finish, DropObjects
  <2> QED  BY <2>1 DEF SweepInv, GuardsScoped, ContainersConfined
<1>3. CASE Driver /\ ~(DefensiveTeardown \/ Finish \/ DropObjects)
  <2>1. CASE CreateObjects  BY <2>1, <1>1 DEF CreateObjects
  <2> QED
    BY <1>1, <1>3, <2>1 DEF Driver, Identify, assert_pinned_version, ArmObjectsNew, Truncate,
       build_specs, StartArm, HoldWindow, CheckCosts, Quiesce, Stop, Evaluate, RunGates,
       DropContainers, AppendRecord
<1>4. CASE Kill \/ (\E sel \in Selections : Launch(sel)) \/ (\E c \in containers : Land(c))
  BY <1>1, <1>4 DEF Kill, Launch, Land
<1> QED  BY <1>1, <1>2, <1>3, <1>4 DEF Next, vars

\* Nothing the driver has up is still inserting through a view while the view
\* is being dropped, on the success path, an Err or a panic.
THEOREM Outlive == Spec => ObjectsOutliveContainers
<1> DEFINE Kept == \A a \in objects \ objects' :
                     \A c \in containers : c.arm = a => c \in strays
<1>1. TypeOK /\ SweepInv /\ [Next]_vars => Kept
  BY OutliveStep
<1> QED  BY <1>1, Invariant, PTL DEF Spec, ObjectsOutliveContainers

-----------------------------------------------------------------------------
(* Nothing identified goes without a record.                               *)

\* An arm is owed a record from its identification to its append, and the one way
\* out between the two is a panic.
Owing == (pc = "identify" => ~owed) /\ RecordedUnlessPanic

LEMMA OwingStep == Owing /\ [Next]_vars => Owing'
<1> SUFFICES ASSUME Owing, [Next]_vars PROVE Owing'
  OBVIOUS
<1> USE DEF Owing, RecordedUnlessPanic, loop, guards, world, left, budget, Goto, Unwind,
        Pass, Refuse, Panic
<1>1. CASE Identify
  BY <1>1 DEF Identify, EndTurn
<1>2. CASE AppendRecord
  BY <1>2 DEF AppendRecord, EndTurn
<1>3. CASE DropObjects
  BY <1>3 DEF DropObjects
<1>4. CASE Driver /\ ~(Identify \/ AppendRecord \/ DropObjects)
  <2>1. pc' \notin {"idle", "identify"}
    BY <1>4 DEF Driver, assert_pinned_version, ArmObjectsNew, DefensiveTeardown, Truncate,
       CreateObjects, build_specs, StartArm, HoldWindow, CheckCosts, Quiesce, Stop,
       Evaluate, RunGates, Finish, DropContainers
  <2> QED  BY <2>1
<1>5. CASE Kill \/ (\E sel \in Selections : Launch(sel)) \/ (\E c \in containers : Land(c))
  BY <1>5 DEF Kill, Launch, Land
<1>6. CASE UNCHANGED vars
  BY <1>6 DEF vars
<1> QED  BY <1>1, <1>2, <1>3, <1>4, <1>5, <1>6 DEF Next

\* Whatever becomes of an identified repetition, its record is appended before the loop
\* goes on or ends: only a panic, a kill or a failing append loses it (measure).
THEOREM Recorded == Spec => []RecordedUnlessPanic
<1>1. Init => Owing
  BY DEF Init, Owing, RecordedUnlessPanic
<1>2. Owing => RecordedUnlessPanic
  BY DEF Owing
<1> QED  BY <1>1, <1>2, OwingStep, PTL DEF Spec

-----------------------------------------------------------------------------
(* Accounting: least and greatest members, and sums over a finite set.     *)

\* A set of naturals that is not empty has a least element, and a finite one a greatest.
Smaller == {z \in Nat \X Nat : z[1] < z[2]}

LEMMA LeastNumber ==
  ASSUME NEW S \in SUBSET Nat, S # {}
  PROVE  \E m \in S : \A k \in S : m <= k
<1>1. IsWellFoundedOn(Smaller, Nat)
  BY NatLessThanWellFounded DEF OpToRel, Smaller
<1>2. PICK m \in S : \A k \in S : <<k, m>> \notin Smaller
  BY <1>1, WFMin
<1>3. ASSUME NEW k \in S PROVE m <= k
  <2>1. m \in Nat /\ k \in Nat /\ <<k, m>> \notin Smaller
    BY <1>2
  <2> QED
    BY <2>1 DEF Smaller
<1> QED
  BY <1>3

Topless(S) == S # {} /\ ~\E m \in S : \A k \in S : m >= k

LEMMA GreatestNumber ==
  ASSUME NEW S \in SUBSET Nat, S # {}, IsFiniteSet(S)
  PROVE  \E m \in S : \A k \in S : m >= k
<1> DEFINE Counts == {n \in Nat : \E T \in SUBSET Nat :
                        IsFiniteSet(T) /\ Cardinality(T) = n /\ Topless(T)}
<1>1. SUFFICES ASSUME Topless(S) PROVE FALSE
  BY DEF Topless
<1>2. Counts # {}
  BY <1>1, FS_CardinalityType
<1>3. PICK n \in Counts : \A c \in Counts : n <= c
  <2> HIDE DEF Counts
  <2>1. Counts \in SUBSET Nat
    BY DEF Counts
  <2> QED
    BY <1>2, <2>1, LeastNumber
<1>4. PICK T \in SUBSET Nat : IsFiniteSet(T) /\ Cardinality(T) = n /\ Topless(T)
  OBVIOUS
<1>5. PICK x \in T : TRUE
  BY <1>4 DEF Topless
<1>6. PICK R : R = T \ {x}
  OBVIOUS
<1>7. IsFiniteSet(R) /\ Cardinality(R) = n - 1 /\ R \in SUBSET Nat
  BY <1>4, <1>5, <1>6, FS_RemoveElement
<1>8. Cardinality(R) \in Nat
  BY <1>7, FS_CardinalityType
<1>9. ~Topless(R)
  BY <1>3, <1>7, <1>8
<1> HIDE DEF Counts
<1>10. CASE R = {}
  <2>1. \A k \in T : x >= k
    BY <1>4, <1>5, <1>6, <1>10
  <2> QED
    BY <1>4, <1>5, <2>1 DEF Topless
<1>11. CASE R # {}
  <2>1. PICK m \in R : \A k \in R : m >= k
    BY <1>9, <1>11 DEF Topless
  <2>2. m \in Nat /\ x \in Nat /\ m \in T
    BY <1>4, <1>5, <1>6, <2>1
  <2>3. CASE m >= x
    <3>1. \A k \in T : m >= k
      BY <1>6, <2>1, <2>3
    <3> QED
      BY <1>4, <2>2, <3>1 DEF Topless
  <2>4. CASE x >= m
    <3>1. ASSUME NEW k \in T PROVE x >= k
      <4>1. k = x \/ k \in R
        BY <1>6
      <4>2. k \in Nat
        BY <1>4
      <4> QED
        BY <2>1, <2>2, <2>4, <4>1, <4>2
    <3> QED
      BY <1>4, <1>5, <3>1 DEF Topless
  <2> QED
    BY <2>2, <2>3, <2>4
<1> QED
  BY <1>10, <1>11

LEMMA MinMax ==
  ASSUME NEW S \in SUBSET Nat, S # {}, IsFiniteSet(S)
  PROVE  /\ Min(S) \in S /\ Max(S) \in S
         /\ \A k \in S : Min(S) <= k /\ k <= Max(S)
<1>1. PICK m \in S : \A k \in S : m <= k
  BY LeastNumber
<1>2. Min(S) \in S /\ \A k \in S : Min(S) <= k
  BY <1>1 DEF Min
<1>3. PICK x \in S : \A k \in S : x >= k
  BY GreatestNumber
<1>4. Max(S) \in S /\ \A k \in S : Max(S) >= k
  BY <1>3 DEF Max
<1>5. \A k \in S : k \in Nat
  OBVIOUS
<1> QED
  BY <1>2, <1>4, <1>5

\* What SumFunctionOnSet computes: of a set, a member of it and the sum of the rest.
Pick(T) == CHOOSE x \in T : TRUE
Sums(g, f, T) == g[T] = IF T = {} THEN 0 ELSE f[Pick(T)] + g[T \ {Pick(T)}]

LEMMA Rest ==
  ASSUME NEW T, IsFiniteSet(T), T # {}
  PROVE  /\ Pick(T) \in T /\ IsFiniteSet(T \ {Pick(T)})
         /\ Cardinality(T) \in Nat /\ Cardinality(T \ {Pick(T)}) = Cardinality(T) - 1
         /\ Cardinality(T) > 0
<1>1. Pick(T) \in T
  BY DEF Pick
<1> QED
  BY <1>1, FS_RemoveElement, FS_CardinalityType, FS_EmptySet

LEMMA SumExists ==
  ASSUME NEW S, IsFiniteSet(S), NEW f, NEW n \in Nat
  PROVE  \E g : \A T \in SUBSET S : Cardinality(T) <= n => Sums(g, f, T)
<1> DEFINE Some(k) == \E g : \A T \in SUBSET S : Cardinality(T) <= k => Sums(g, f, T)
           bad == {k \in Nat : ~Some(k)}
<1>1. \A T \in SUBSET S : IsFiniteSet(T) /\ Cardinality(T) \in Nat
  BY FS_Subset, FS_CardinalityType
<1>2. SUFFICES ASSUME bad # {} PROVE FALSE
  OBVIOUS
<1>3. PICK k \in bad : \A j \in bad : k <= j
  <2>1. bad \in SUBSET Nat
    OBVIOUS
  <2> HIDE DEF bad
  <2> QED
    BY <1>2, <2>1, LeastNumber
<1>4. k # 0
  <2> DEFINE g == [T \in SUBSET S |-> 0]
  <2>1. \A T \in SUBSET S : Cardinality(T) <= 0 => T = {}
    BY <1>1, FS_EmptySet
  <2>2. \A T \in SUBSET S : Cardinality(T) <= 0 => Sums(g, f, T)
    BY <2>1 DEF Sums
  <2>3. Some(0)
    BY <2>2
  <2> QED
    BY <2>3
<1>5. k \in Nat /\ k - 1 \in Nat
  BY <1>4
<1>6. Some(k - 1)
  <2>1. k - 1 \notin bad
    BY <1>3, <1>5
  <2> QED
    BY <1>5, <2>1
<1>7. PICK g : \A T \in SUBSET S : Cardinality(T) <= k - 1 => Sums(g, f, T)
  BY <1>6
<1> DEFINE h == [T \in SUBSET S |-> IF Cardinality(T) <= k - 1 THEN g[T]
                                    ELSE f[Pick(T)] + g[T \ {Pick(T)}]]
<1>8. ASSUME NEW T \in SUBSET S, Cardinality(T) <= k PROVE Sums(h, f, T)
  <2>1. CASE T = {}
    <3>1. Cardinality(T) <= k - 1
      BY <1>5, <2>1, FS_EmptySet
    <3> QED
      BY <1>7, <2>1, <3>1 DEF Sums
  <2>2. CASE T # {}
    <3>1. /\ T \ {Pick(T)} \in SUBSET S /\ Cardinality(T) \in Nat
          /\ Cardinality(T \ {Pick(T)}) = Cardinality(T) - 1
      BY <1>1, <2>2, Rest
    <3>2. h[T \ {Pick(T)}] = g[T \ {Pick(T)}]
      <4>1. Cardinality(T \ {Pick(T)}) <= k - 1
        BY <1>5, <1>8, <3>1
      <4> QED
        BY <3>1, <4>1
    <3>3. h[T] = f[Pick(T)] + g[T \ {Pick(T)}]
      BY <1>7, <2>2 DEF Sums
    <3> QED
      BY <2>2, <3>2, <3>3 DEF Sums
  <2> QED
    BY <2>1, <2>2
<1>9. Some(k)
  <2> HIDE DEF h
  <2> QED
    BY <1>8
<1> QED
  BY <1>9

LEMMA SumUnrolls ==
  ASSUME NEW S, IsFiniteSet(S), NEW f
  PROVE  \E g : SumFunctionOnSet(f, S) = g[S] /\ \A T \in SUBSET S : Sums(g, f, T)
<1> DEFINE Adds(g) == g = [T \in SUBSET S |-> IF T = {} THEN 0 ELSE f[Pick(T)] + g[T \ {Pick(T)}]]
<1>1. SumFunctionOnSet(f, S) = (CHOOSE g : Adds(g))[S]
  BY DEF SumFunctionOnSet, FoldFunctionOnSet, MapThenFoldSet, Pick
<1>2. PICK g : \A T \in SUBSET S : Sums(g, f, T)
  <2>1. Cardinality(S) \in Nat /\ \A T \in SUBSET S : Cardinality(T) <= Cardinality(S)
    BY FS_CardinalityType, FS_Subset
  <2>2. \E g : \A T \in SUBSET S : Cardinality(T) <= Cardinality(S) => Sums(g, f, T)
    BY <2>1, SumExists
  <2> QED
    BY <2>1, <2>2
<1> DEFINE h == [T \in SUBSET S |-> g[T]]
<1>3. Adds(h)
  BY <1>2 DEF Sums
<1>4. Adds(CHOOSE k : Adds(k))
  <2> HIDE DEF h, Adds
  <2> QED
    BY <1>3
<1>5. \A T \in SUBSET S : Sums(CHOOSE k : Adds(k), f, T)
  BY <1>4 DEF Sums
<1> QED
  BY <1>1, <1>5

\* A sum of naturals counts: so many places for each member of the set.
Shares(f, T) == UNION {{x} \X (1..f[x]) : x \in T}

LEMMA ShareOf ==
  ASSUME NEW f, NEW T, NEW z
  PROVE  z \in Shares(f, T) <=> \E x \in T : \E n \in 1..f[x] : z = <<x, n>>
BY DEF Shares

LEMMA OneShare ==
  ASSUME NEW x, NEW n \in Nat
  PROVE  IsFiniteSet({x} \X (1..n)) /\ Cardinality({x} \X (1..n)) = n
<1>1. IsFiniteSet({x}) /\ Cardinality({x}) = 1
  BY FS_Singleton
<1>2. IsFiniteSet(1..n) /\ Cardinality(1..n) = n
  BY FS_Interval
<1>3. IsFiniteSet({x} \X (1..n)) /\ Cardinality({x} \X (1..n)) = Cardinality({x}) * Cardinality(1..n)
  BY <1>1, <1>2, FS_Product
<1> QED
  BY <1>1, <1>2, <1>3

LEMMA SharesGrow ==
  ASSUME NEW f, NEW T, NEW x \in T, IsFiniteSet(Shares(f, T \ {x})), f[x] \in Nat
  PROVE  /\ IsFiniteSet(Shares(f, T))
         /\ Cardinality(Shares(f, T)) = f[x] + Cardinality(Shares(f, T \ {x}))
<1> DEFINE A == {x} \X (1..f[x])
           B == Shares(f, T \ {x})
<1>1. Shares(f, T) = A \union B
  BY DEF Shares
<1>2. A \intersect B = {}
  BY DEF Shares
<1>3. IsFiniteSet(A) /\ Cardinality(A) = f[x]
  BY OneShare
<1> HIDE DEF A, B
<1>4. IsFiniteSet(B)
  BY DEF B
<1>5. /\ IsFiniteSet(A \union B)
      /\ Cardinality(A \union B) = Cardinality(A) + Cardinality(B) - Cardinality(A \intersect B)
  BY <1>3, <1>4, FS_Union
<1>6. Cardinality(A \intersect B) = 0 /\ Cardinality(B) \in Nat
  BY <1>2, <1>4, FS_EmptySet, FS_CardinalityType
<1>7. Cardinality(A \union B) = f[x] + Cardinality(B)
  BY <1>3, <1>5, <1>6
<1> QED
  BY <1>1, <1>5, <1>7 DEF B

LEMMA SumIsShares ==
  ASSUME NEW S, IsFiniteSet(S), NEW f, \A x \in S : f[x] \in Nat
  PROVE  IsFiniteSet(Shares(f, S)) /\ SumFunctionOnSet(f, S) = Cardinality(Shares(f, S))
<1>1. PICK g : SumFunctionOnSet(f, S) = g[S] /\ \A T \in SUBSET S : Sums(g, f, T)
  BY SumUnrolls
<1> DEFINE Counts(T) == IsFiniteSet(Shares(f, T)) /\ g[T] = Cardinality(Shares(f, T))
           bad == {n \in Nat : \E T \in SUBSET S : Cardinality(T) = n /\ ~Counts(T)}
<1>2. \A T \in SUBSET S : IsFiniteSet(T) /\ Cardinality(T) \in Nat
  BY FS_Subset, FS_CardinalityType
<1>3. SUFFICES ASSUME bad # {} PROVE FALSE
  BY <1>1, <1>2
<1>4. PICK n \in bad : \A k \in bad : n <= k
  <2>1. bad \in SUBSET Nat
    OBVIOUS
  <2> HIDE DEF bad
  <2> QED
    BY <1>3, <2>1, LeastNumber
<1>5. PICK T \in SUBSET S : Cardinality(T) = n /\ ~Counts(T)
  BY <1>4
<1>6. T # {}
  <2>1. ASSUME T = {} PROVE Counts(T)
    <3>1. g[T] = 0
      BY <1>1, <2>1 DEF Sums
    <3>2. Shares(f, T) = {}
      BY <2>1 DEF Shares
    <3> QED
      BY <3>1, <3>2, FS_EmptySet
  <2> HIDE DEF Counts
  <2> QED
    BY <1>5, <2>1
<1>7. /\ Pick(T) \in S /\ Pick(T) \in T /\ T \ {Pick(T)} \in SUBSET S
      /\ Cardinality(T \ {Pick(T)}) = n - 1 /\ n \in Nat /\ n - 1 \in Nat
  BY <1>2, <1>5, <1>6, Rest
<1>8. Counts(T \ {Pick(T)})
  <2>1. n - 1 \notin bad
    <3> HIDE DEF bad
    <3>1. n - 1 \in bad => n <= n - 1
      BY <1>4
    <3> QED
      BY <1>7, <3>1
  <2> HIDE DEF Counts
  <2> QED
    BY <1>7, <2>1
<1>9. g[T] = f[Pick(T)] + g[T \ {Pick(T)}]
  BY <1>1, <1>5, <1>6 DEF Sums
<1>10. PICK x : x = Pick(T)
  OBVIOUS
<1>11. /\ IsFiniteSet(Shares(f, T))
       /\ Cardinality(Shares(f, T)) = f[x] + Cardinality(Shares(f, T \ {x}))
  <2>1. x \in T /\ f[x] \in Nat /\ IsFiniteSet(Shares(f, T \ {x}))
    BY <1>7, <1>8, <1>10
  <2> QED
    BY <2>1, SharesGrow
<1>12. Counts(T)
  BY <1>8, <1>9, <1>10, <1>11
<1> QED
  BY <1>5, <1>12

LEMMA SumTyped ==
  ASSUME NEW S, IsFiniteSet(S), NEW f, \A x \in S : f[x] \in Nat
  PROVE  SumFunctionOnSet(f, S) \in Nat
BY SumIsShares, FS_CardinalityType

\* No summand exceeds the sum.
LEMMA SummandFits ==
  ASSUME NEW S, IsFiniteSet(S), NEW f, \A x \in S : f[x] \in Nat, NEW x \in S
  PROVE  f[x] <= SumFunctionOnSet(f, S)
<1>1. {x} \X (1..f[x]) \in SUBSET Shares(f, S)
  BY DEF Shares
<1>2. Cardinality({x} \X (1..f[x])) = f[x]
  BY OneShare
<1>3. Cardinality({x} \X (1..f[x])) <= Cardinality(Shares(f, S))
  BY <1>1, SumIsShares, FS_Subset
<1> QED
  BY <1>2, <1>3, SumIsShares

\* A sum does not depend on what its summands are called.
LEMMA SumRenamed ==
  ASSUME NEW S, IsFiniteSet(S), NEW f, \A x \in S : f[x] \in Nat,
         NEW T, NEW h, NEW b \in [S -> T],
         \A x, y \in S : b[x] = b[y] => x = y, \A y \in T : \E x \in S : b[x] = y,
         \A x \in S : h[b[x]] = f[x]
  PROVE  /\ IsFiniteSet(T) /\ Cardinality(T) = Cardinality(S)
         /\ SumFunctionOnSet(h, T) = SumFunctionOnSet(f, S)
<1>1. b \in Bijection(S, T)
  BY DEF Bijection, Injection, Surjection, IsInjective
<1>2. IsFiniteSet(T) /\ Cardinality(T) = Cardinality(S)
  BY <1>1, FS_Bijection DEF ExistsBijection
<1>3. \A y \in T : h[y] \in Nat
  OBVIOUS
<1> DEFINE A == Shares(f, S)
           B == Shares(h, T)
           m == [z \in A |-> <<b[z[1]], z[2]>>]
<1>4. \A z \in A : z[1] \in S /\ z[2] \in 1..f[z[1]] /\ z = <<z[1], z[2]>>
  BY DEF Shares
<1>5. \A z \in A : m[z] \in B
  BY <1>4 DEF Shares
<1>6. \A y, z \in A : m[y] = m[z] => y = z
  <2>1. SUFFICES ASSUME NEW y \in A, NEW z \in A, m[y] = m[z] PROVE y = z
    OBVIOUS
  <2>2. b[y[1]] = b[z[1]] /\ y[2] = z[2]
    BY <2>1
  <2>3. y[1] = z[1]
    BY <1>4, <2>2
  <2> QED
    BY <1>4, <2>2, <2>3
<1>7. ASSUME NEW w \in B PROVE \E z \in A : m[z] = w
  <2>1. w[1] \in T /\ w[2] \in 1..h[w[1]] /\ w = <<w[1], w[2]>>
    BY DEF Shares
  <2>2. PICK x \in S : b[x] = w[1]
    BY <2>1
  <2>3. <<x, w[2]>> \in A
    BY <2>1, <2>2 DEF Shares
  <2> QED
    BY <2>1, <2>2, <2>3
<1> HIDE DEF A, B
<1>8. m \in Bijection(A, B)
  BY <1>5, <1>6, <1>7 DEF Bijection, Injection, Surjection, IsInjective
<1>9. IsFiniteSet(A) /\ SumFunctionOnSet(f, S) = Cardinality(A)
  BY SumIsShares DEF A
<1>10. SumFunctionOnSet(h, T) = Cardinality(B)
  BY <1>2, <1>3, SumIsShares DEF B
<1> HIDE DEF m
<1>11. Cardinality(B) = Cardinality(A)
  BY <1>8, <1>9, FS_Bijection DEF ExistsBijection
<1> QED
  BY <1>2, <1>9, <1>10, <1>11

-----------------------------------------------------------------------------
(* The series of one sampler.                                              *)

Banners == [capped : BOOLEAN]
Samples == [t : Nat, cpu : Int, anon : Int]
Lines == Banners \union Samples

LEMMA RowOrBanner ==
  ASSUME NEW l \in Lines
  PROVE  IsRow(l) <=> l \in Samples
<1>1. l \in Banners => DOMAIN l = {"capped"}
  BY DEF Banners
<1>2. l \in Samples => DOMAIN l = {"t", "cpu", "anon"}
  BY DEF Samples
<1> QED
  BY <1>1, <1>2 DEF IsRow, Lines

\* Rows are an interval apart and, where it could be read, of the CPU burned so far.
Series(s, r, n) ==
  /\ s \in Seq(Lines)
  /\ \A i, j \in DOMAIN s : i < j /\ IsRow(s[i]) /\ IsRow(s[j]) => s[i].t + Interval <= s[j].t
  /\ \A i \in DOMAIN s :
       IsRow(s[i]) => s[i].t <= n /\ (s[i].cpu = -1 \/ s[i].cpu = r * s[i].t)

LEMMA RowFacts ==
  ASSUME NEW r, NEW n, NEW s, Series(s, r, n)
  PROVE  /\ RowsOf(s) \in SUBSET Nat /\ IsFiniteSet(RowsOf(s))
         /\ \A i \in RowsOf(s) : /\ i \in DOMAIN s /\ s[i].t \in Nat /\ s[i].t <= n
                                /\ s[i].cpu = r * s[i].t /\ s[i].anon \in Nat
         /\ \A i, j \in RowsOf(s) : i < j => s[i].t + Interval <= s[j].t
<1>1. s \in Seq(Lines) /\ Len(s) \in Nat /\ DOMAIN s = 1..Len(s)
  BY DEF Series
<1>2. IsFiniteSet(1..Len(s))
  BY <1>1, FS_Interval
<1>3. RowsOf(s) \in SUBSET (1..Len(s))
  BY <1>1 DEF RowsOf
<1>4. IsFiniteSet(RowsOf(s))
  BY <1>2, <1>3, FS_Subset
<1>5. ASSUME NEW i \in RowsOf(s)
      PROVE  /\ i \in DOMAIN s /\ IsRow(s[i]) /\ s[i].t \in Nat /\ s[i].t <= n
             /\ s[i].cpu = r * s[i].t /\ s[i].anon \in Nat
  <2>1. i \in DOMAIN s /\ IsRow(s[i]) /\ s[i].cpu >= 0 /\ s[i].anon >= 0
    BY DEF RowsOf, Readable
  <2>2. s[i] \in Lines
    BY <1>1, <2>1
  <2>3. s[i] \in Samples
    BY <2>1, <2>2, RowOrBanner
  <2>4. s[i].t \in Nat /\ s[i].anon \in Int
    BY <2>3 DEF Samples
  <2>5. s[i].t <= n /\ (s[i].cpu = -1 \/ s[i].cpu = r * s[i].t)
    BY <2>1 DEF Series
  <2>6. s[i].cpu = r * s[i].t
    BY <2>1, <2>5
  <2>7. s[i].anon \in Nat
    BY <2>1, <2>4
  <2> QED
    BY <2>1, <2>4, <2>5, <2>6, <2>7
<1>6. \A i, j \in RowsOf(s) : i < j => s[i].t + Interval <= s[j].t
  BY <1>5 DEF Series
<1> QED
  BY <1>1, <1>3, <1>4, <1>5, <1>6

PeakOf(s) == Max({s[i].anon : i \in RowsOf(s)})

LEMMA AnonSet ==
  ASSUME NEW r, NEW n, NEW s, Series(s, r, n), RowsOf(s) # {}
  PROVE  /\ PeakOf(s) \in Nat /\ \A i \in RowsOf(s) : s[i].anon <= PeakOf(s)
         /\ \E i \in RowsOf(s) : s[i].anon = PeakOf(s)
<1> DEFINE A == {s[i].anon : i \in RowsOf(s)}
           f == [i \in RowsOf(s) |-> s[i].anon]
<1>1. f \in Surjection(RowsOf(s), A)
  BY DEF Surjection
<1>2. IsFiniteSet(A)
  <2> HIDE DEF f, A
  <2> QED
    BY <1>1, RowFacts, FS_Surjection
<1>3. A \in SUBSET Nat /\ A # {}
  BY RowFacts
<1>4. Max(A) \in A /\ \A k \in A : k <= Max(A)
  <2> HIDE DEF A
  <2> QED
    BY <1>2, <1>3, MinMax
<1>5. Max(A) = PeakOf(s)
  BY DEF PeakOf
<1> QED
  BY <1>3, <1>4, <1>5

\* What a summary is: of the container's own rows.
LEMMA Summary ==
  ASSUME NEW r \in Nat, NEW n \in Nat, NEW s, Series(s, r, n), NEW p, p = Summarise(s), p # None
  PROVE  /\ p.from \in Nat /\ p.to \in Nat /\ p.to <= n /\ p.to - p.from >= 1
         /\ p.cpu = r * (p.to - p.from)
         /\ RowsOf(s) # {} /\ p.peak \in Nat
         /\ \A i \in RowsOf(s) : s[i].anon <= p.peak
         /\ \E i \in RowsOf(s) : s[i].anon = p.peak
<1> DEFINE rows == RowsOf(s)
           oldest == s[Min(rows)]
           newest == s[Max(rows)]
<1>1. /\ ~(Cardinality(rows) < 2 \/ newest.t <= oldest.t)
      /\ p = [from |-> oldest.t, to |-> newest.t,
              cpu |-> Max({newest.cpu - oldest.cpu, 0}),
              peak |-> Max({s[i].anon : i \in rows})]
  BY DEF Summarise
<1>2. rows # {}
  BY <1>1, FS_EmptySet
<1>3. Min(rows) \in rows /\ Max(rows) \in rows
  BY <1>2, RowFacts, MinMax
<1>4. /\ oldest.t \in Nat /\ newest.t \in Nat /\ newest.t <= n
      /\ oldest.cpu = r * oldest.t /\ newest.cpu = r * newest.t
  BY <1>3, RowFacts
<1>5. PICK a, z : a = oldest.t /\ z = newest.t
  OBVIOUS
<1>6. a \in Nat /\ z \in Nat /\ z - a >= 1
  BY <1>1, <1>4, <1>5
<1>7. newest.cpu - oldest.cpu = r * (z - a) /\ r * (z - a) \in Nat
  <2>1. r * (z - a) = r * z - r * a /\ r * (z - a) \in Nat
    BY <1>6
  <2> QED
    BY <1>4, <1>5, <2>1
<1>8. Max({newest.cpu - oldest.cpu, 0}) = r * (z - a)
  <2>1. PICK d : d = r * (z - a)
    OBVIOUS
  <2>2. d \in Nat /\ newest.cpu - oldest.cpu = d
    BY <1>7, <2>1
  <2>3. \A x \in {d, 0} : (\A y \in {d, 0} : x >= y) => x = d
    BY <2>2
  <2>4. d \in {d, 0} /\ \A y \in {d, 0} : d >= y
    BY <2>2
  <2>5. Max({d, 0}) = d
    BY <2>3, <2>4 DEF Max
  <2> QED
    BY <2>1, <2>2, <2>5
<1>9. /\ PeakOf(s) \in Nat /\ \A i \in rows : s[i].anon <= PeakOf(s)
      /\ \E i \in rows : s[i].anon = PeakOf(s)
  BY <1>2, AnonSet
<1>10. p.from = a /\ p.to = z /\ p.cpu = r * (z - a) /\ p.peak = PeakOf(s)
  BY <1>1, <1>5, <1>8 DEF PeakOf
<1> QED
  BY <1>2, <1>4, <1>5, <1>6, <1>9, <1>10

-----------------------------------------------------------------------------
(* The peak of an arm.                                                     *)

LEMMA BoxesFinite == IsFiniteSet(Boxes) /\ Boxes # {}
<1>1. Order \in Seq(Boxes) /\ Order # <<>>
  BY AccountingAssumption
<1>2. Len(Order) \in Nat /\ DOMAIN Order = 1..Len(Order) /\ Len(Order) >= 1
  BY <1>1
<1>3. IsFiniteSet(DOMAIN Order)
  BY <1>2, FS_Interval
<1>4. Boxes = {Order[k] : k \in DOMAIN Order}
  BY DEF Boxes, Range
<1>5. Order \in Surjection(DOMAIN Order, Boxes)
  BY <1>1, <1>4 DEF Surjection
<1>6. IsFiniteSet(Boxes)
  BY <1>3, <1>5, FS_Surjection
<1>7. Order[1] \in Boxes
  BY <1>2, <1>4
<1> QED
  BY <1>6, <1>7

\* What a container counts with at an edge.
LEMMA HeldIs ==
  ASSUME NEW r, NEW n, NEW s, Series(s, r, n), NEW e \in Int
  PROVE  /\ Held(s, e) \in Nat
         /\ \A i \in RowsOf(s) :
              s[i].t < e /\ (\A j \in RowsOf(s) : i < j => s[j].t >= e) => Held(s, e) = s[i].anon
<1> DEFINE earlier == {i \in RowsOf(s) : s[i].t < e}
<1>1. Held(s, e) = IF earlier = {} THEN 0 ELSE s[Max(earlier)].anon
  BY DEF Held
<1>2. earlier \in SUBSET RowsOf(s) /\ earlier \in SUBSET Nat /\ IsFiniteSet(earlier)
  BY RowFacts, FS_Subset
<1>3. ASSUME earlier # {} PROVE Max(earlier) \in earlier /\ \A k \in earlier : k <= Max(earlier)
  <2> HIDE DEF earlier
  <2> QED
    BY <1>2, <1>3, MinMax
<1>4. Held(s, e) \in Nat
  <2>1. CASE earlier = {}
    BY <1>1, <2>1
  <2>2. CASE earlier # {}
    <3>1. Max(earlier) \in RowsOf(s)
      BY <1>3, <2>2
    <3>2. s[Max(earlier)].anon \in Nat
      BY <3>1, RowFacts
    <3> QED
      BY <1>1, <2>2, <3>2
  <2> QED
    BY <2>1, <2>2
<1>5. ASSUME NEW i \in RowsOf(s), s[i].t < e, \A j \in RowsOf(s) : i < j => s[j].t >= e
      PROVE  Held(s, e) = s[i].anon
  <2>1. i \in earlier
    BY <1>5
  <2>2. PICK k : k = Max(earlier)
    OBVIOUS
  <2>3. k \in earlier /\ i <= k
    BY <1>3, <2>1, <2>2
  <2>4. k \in RowsOf(s) /\ s[k].t < e /\ k \in Nat /\ i \in Nat /\ s[k].t \in Nat
    BY <1>2, <2>1, <2>3, RowFacts
  <2>5. ~(i < k)
    BY <1>5, <2>4
  <2>6. k = i
    BY <2>3, <2>4, <2>5
  <2> QED
    BY <1>1, <2>1, <2>2, <2>6
<1> QED
  BY <1>4, <1>5

LEMMA HeldByIs ==
  ASSUME NEW n, NEW L, DOMAIN L = Boxes, \A c \in Boxes : Series(L[c], Rate[c], n), NEW e \in Int
  PROVE  HeldBy(L, e) \in Nat /\ \A c \in Boxes : Held(L[c], e) <= HeldBy(L, e)
<1> DEFINE f == [c \in Boxes |-> Held(L[c], e)]
<1>1. HeldBy(L, e) = SumFunctionOnSet(f, Boxes)
  BY DEF HeldBy
<1>2. \A c \in Boxes : f[c] \in Nat /\ f[c] = Held(L[c], e)
  BY HeldIs
<1> HIDE DEF f
<1> QED
  BY <1>1, <1>2, BoxesFinite, SumTyped, SummandFits

LEMMA Multiple ==
  ASSUME NEW m \in Nat \ {0}, NEW q \in Nat
  PROVE  (q * m) % m = 0
<1>1. PICK y, d, w : y = q * m /\ d = y \div m /\ w = y % m
  OBVIOUS
<1>2. y \in Nat
  BY <1>1
<1>3. d \in Int /\ w \in 0..(m - 1) /\ y = m * d + w
  BY <1>1, <1>2
<1>4. PICK x \in Int : x = q - d
  BY <1>3
<1>5. x * m = w
  <2>1. x * m = q * m - d * m /\ m * d = d * m
    BY <1>3, <1>4
  <2>2. q * m \in Int /\ d * m \in Int
    BY <1>3
  <2> QED
    BY <1>1, <1>3, <2>1, <2>2
<1>6. ~(x >= 1)
  <2>1. x >= 1 => x * m >= m
    BY <1>4
  <2> QED
    BY <1>3, <1>5, <2>1
<1>7. ~(x <= -1)
  <2>1. x <= -1 => x * m <= -m
    BY <1>4
  <2> QED
    BY <1>3, <1>5, <2>1
<1>8. x = 0
  BY <1>4, <1>6, <1>7
<1> QED
  BY <1>1, <1>5, <1>8

\* The bucket a reading falls into.
LEMMA BucketOf ==
  ASSUME NEW lo \in Nat, NEW t \in Nat, lo <= t
  PROVE  \E b \in lo..t : (b - lo) % Interval = 0 /\ t < b + Interval
<1>1. Interval \in Nat \ {0}
  BY AccountingAssumption
<1>2. PICK q, w : q = (t - lo) \div Interval /\ w = (t - lo) % Interval
  OBVIOUS
<1>3. q \in Nat /\ w \in 0..(Interval - 1) /\ t - lo = Interval * q + w
  BY <1>1, <1>2
<1>4. PICK y : y = q * Interval
  OBVIOUS
<1>5. y \in Nat /\ t - lo = y + w /\ y % Interval = 0
  BY <1>1, <1>3, <1>4, Multiple
<1>6. lo + y \in lo..t /\ (lo + y) - lo = y /\ t < lo + y + Interval
  BY <1>1, <1>3, <1>5
<1> QED
  BY <1>5, <1>6

LEMMA PeakIs ==
  ASSUME NEW n \in Nat, NEW L, DOMAIN L = Boxes, \A c \in Boxes : Series(L[c], Rate[c], n),
         \E c \in Boxes : RowsOf(L[c]) # {}
  PROVE  /\ \A c \in Boxes : \A i \in RowsOf(L[c]) : L[c][i].anon <= SimultaneousPeak(L)
         /\ \E e \in Nat \ {0} : SimultaneousPeak(L) = HeldBy(L, e)
<1>1. Interval \in Nat \ {0}
  BY AccountingAssumption
<1> DEFINE times == UNION {{L[c][i].t : i \in RowsOf(L[c])} : c \in DOMAIN L}
           lo == Min(times)
           hi == Max(times)
           buckets == {b \in lo..hi : (b - lo) % Interval = 0}
           sums == {HeldBy(L, b + Interval) : b \in buckets}
<1>2. SimultaneousPeak(L) = Max(sums)
  BY DEF SimultaneousPeak
<1>3. \A c \in Boxes : \A i \in RowsOf(L[c]) : L[c][i].t \in times
  OBVIOUS
<1>4. times \in SUBSET (0..n) /\ times # {} /\ times \in SUBSET Nat
  <2>1. ASSUME NEW t \in times PROVE t \in Nat /\ t <= n
    <3>1. PICK c \in Boxes : \E i \in RowsOf(L[c]) : t = L[c][i].t
      OBVIOUS
    <3>2. PICK i \in RowsOf(L[c]) : t = L[c][i].t
      BY <3>1
    <3>3. Series(L[c], Rate[c], n)
      OBVIOUS
    <3>4. L[c][i].t \in Nat /\ L[c][i].t <= n
      BY <3>3, RowFacts
    <3> QED
      BY <3>2, <3>4
  <2>2. times # {}
    <3>1. PICK c \in Boxes : RowsOf(L[c]) # {}
      OBVIOUS
    <3>2. PICK i : i \in RowsOf(L[c])
      BY <3>1
    <3>3. L[c][i].t \in times
      BY <1>3, <3>2
    <3> QED
      BY <3>3
  <2> HIDE DEF times
  <2>3. \A t \in times : t \in 0..n
    BY <2>1
  <2> QED
    BY <2>1, <2>2, <2>3
<1>5. IsFiniteSet(times)
  <2>1. IsFiniteSet(0..n)
    BY FS_Interval
  <2> HIDE DEF times
  <2> QED
    BY <1>4, <2>1, FS_Subset
<1>6. lo \in Nat /\ hi \in Nat /\ \A t \in times : t \in Nat /\ lo <= t /\ t <= hi
  <2> HIDE DEF times
  <2> QED
    BY <1>4, <1>5, MinMax
<1> HIDE DEF times, lo, hi
<1>7. buckets \in SUBSET (lo..hi) /\ buckets \in SUBSET Nat /\ IsFiniteSet(buckets)
  <2>1. IsFiniteSet(lo..hi)
    BY <1>6, FS_Interval
  <2> QED
    BY <1>6, <2>1, FS_Subset
<1>8. \A b \in buckets : b + Interval \in Nat \ {0}
  BY <1>1, <1>7
<1>9. sums \in SUBSET Nat
  <2>1. \A b \in buckets : b + Interval \in Int
    BY <1>8
  <2> HIDE DEF buckets
  <2> QED
    BY <2>1, HeldByIs
<1>10. IsFiniteSet(sums)
  <2> DEFINE f == [b \in buckets |-> HeldBy(L, b + Interval)]
  <2> HIDE DEF buckets
  <2>1. f \in Surjection(buckets, sums)
    BY DEF Surjection
  <2> HIDE DEF f, sums
  <2> QED
    BY <1>7, <2>1, FS_Surjection
<1>11. ASSUME NEW c \in Boxes, NEW i \in RowsOf(L[c])
       PROVE  \E b \in buckets : L[c][i].anon <= HeldBy(L, b + Interval)
  <2>1. PICK t : t = L[c][i].t
    OBVIOUS
  <2>2. t \in Nat /\ lo <= t /\ t <= hi
    BY <1>3, <1>6, <2>1
  <2>3. PICK b \in lo..t : (b - lo) % Interval = 0 /\ t < b + Interval
    BY <1>6, <2>2, BucketOf
  <2>4. b \in buckets /\ b + Interval \in Int
    BY <1>1, <1>6, <2>2, <2>3
  <2>5. \A j \in RowsOf(L[c]) : i < j => L[c][j].t >= b + Interval
    <3>1. SUFFICES ASSUME NEW j \in RowsOf(L[c]), i < j PROVE L[c][j].t >= b + Interval
      OBVIOUS
    <3>2. L[c][i].t + Interval <= L[c][j].t /\ L[c][j].t \in Nat
      BY <3>1, RowFacts
    <3> QED
      BY <1>1, <1>6, <2>1, <2>2, <2>3, <3>2
  <2>6. Held(L[c], b + Interval) = L[c][i].anon
    BY <2>1, <2>3, <2>4, <2>5, HeldIs
  <2>7. Held(L[c], b + Interval) <= HeldBy(L, b + Interval)
    BY <2>4, HeldByIs
  <2> QED
    BY <2>4, <2>6, <2>7
<1> HIDE DEF buckets
<1>12. sums # {}
  <2>1. PICK c \in Boxes : RowsOf(L[c]) # {}
    OBVIOUS
  <2>2. buckets # {}
    BY <1>11, <2>1
  <2> QED
    BY <2>2
<1>13. Max(sums) \in sums /\ \A k \in sums : k <= Max(sums)
  <2> HIDE DEF sums
  <2> QED
    BY <1>9, <1>10, <1>12, MinMax
<1>14. ASSUME NEW c \in Boxes, NEW i \in RowsOf(L[c]) PROVE L[c][i].anon <= Max(sums)
  <2>1. PICK b \in buckets : L[c][i].anon <= HeldBy(L, b + Interval)
    BY <1>11
  <2>2. PICK h, m : h = HeldBy(L, b + Interval) /\ m = Max(sums)
    OBVIOUS
  <2>3. h \in sums /\ h <= m /\ h \in Nat /\ m \in Nat
    BY <1>9, <1>13, <2>2
  <2>4. L[c][i].anon \in Nat
    BY RowFacts
  <2> QED
    BY <2>1, <2>2, <2>3, <2>4
<1>15. \E b \in buckets : Max(sums) = HeldBy(L, b + Interval)
  BY <1>13
<1> HIDE DEF sums
<1> QED
  BY <1>2, <1>8, <1>14, <1>15

-----------------------------------------------------------------------------
(* What the samplers have written.                                         *)

Samplers == [on : BOOLEAN, due : Nat, lines : Seq(Lines)]
Ends == {"closed", "settling", "reading", "removed", "recorded", "refused"}
Phases == {"opening", "window", "stopping"} \union Ends

SamplingTypes ==
  /\ now \in Nat /\ step \in [phase : Phases, i : 1..Len(Order)]
  /\ sampler \in [Boxes -> Samplers]
  /\ anon \in [Boxes -> Nat] /\ up \in [Boxes -> BOOLEAN]

\* Every series is of its container, and the next row is due an interval after the last.
Written(c) ==
  LET s == sampler[c].lines IN
  /\ Series(s, Rate[c], now)
  /\ sampler[c].on => \A i \in DOMAIN s : IsRow(s[i]) => s[i].t + Interval <= sampler[c].due

\* A sampler starts once, and once it is stopped nothing more is written.
Unstarted ==
  At("opening") =>
    \A k \in step.i..Len(Order) : sampler[Order[k]].lines = <<>> /\ ~sampler[Order[k]].on
Stopped ==
  /\ At("stopping") => \A k \in 1..(step.i - 1) : ~sampler[Order[k]].on
  /\ step.phase \in Ends => \A c \in Boxes : ~sampler[c].on

Sampling == SamplingTypes /\ (\A c \in Boxes : Written(c)) /\ Unstarted /\ Stopped

LEMMA SeriesEmpty == ASSUME NEW r, NEW n PROVE Series(<<>>, r, n)
<1>1. << >> \in Seq(Lines) /\ DOMAIN << >> = {}
  OBVIOUS
<1> QED
  BY <1>1 DEF Series

LEMMA SeriesLater ==
  ASSUME NEW s, NEW r, NEW n \in Nat, NEW m \in Nat, n <= m, Series(s, r, n)
  PROVE  Series(s, r, m)
<1>1. ASSUME NEW i \in DOMAIN s, IsRow(s[i]) PROVE s[i].t <= m
  <2>1. s[i] \in Lines /\ s[i].t <= n
    BY <1>1 DEF Series
  <2>2. s[i].t \in Nat
    BY <1>1, <2>1, RowOrBanner DEF Samples
  <2> QED
    BY <2>1, <2>2
<1> QED
  BY <1>1 DEF Series

LEMMA SeriesPrefix ==
  ASSUME NEW s, NEW r, NEW n, Series(s, r, n), NEW k \in 0..Len(s)
  PROVE  Series(SubSeq(s, 1, k), r, n)
<1>1. s \in Seq(Lines) /\ Len(s) \in Nat
  BY DEF Series
<1> DEFINE u == SubSeq(s, 1, k)
<1>2. /\ u \in Seq(Lines) /\ Len(u) = k /\ DOMAIN u = 1..k
      /\ \A i \in 1..k : u[i] = s[i] /\ i \in DOMAIN s
  BY <1>1
<1> HIDE DEF u
<1>3. Series(u, r, n)
  BY <1>2 DEF Series
<1> QED
  BY <1>3 DEF u

\* One row more, when it is due.
LEMMA SeriesLonger ==
  ASSUME NEW s, NEW r, NEW n \in Nat, Series(s, r, n), NEW row \in Samples, row.t = n,
         row.cpu = -1 \/ row.cpu = r * n,
         \A i \in DOMAIN s : IsRow(s[i]) => s[i].t + Interval <= n
  PROVE  Series(Append(s, row), r, n)
<1>1. s \in Seq(Lines) /\ Len(s) \in Nat /\ DOMAIN s = 1..Len(s)
  BY DEF Series
<1> DEFINE u == Append(s, row)
           e == Len(s) + 1
<1>2. /\ u \in Seq(Lines) /\ DOMAIN u = 1..e /\ u[e] = row
      /\ \A i \in 1..Len(s) : u[i] = s[i]
  BY <1>1 DEF Lines
<1>3. \A i \in DOMAIN u : i = e \/ (i \in DOMAIN s /\ u[i] = s[i])
  BY <1>1, <1>2
<1>4. \A i, j \in DOMAIN u : i < j => i \in DOMAIN s /\ u[i] = s[i]
  BY <1>1, <1>2
<1> HIDE DEF u, e
<1>5. ASSUME NEW i \in DOMAIN u, NEW j \in DOMAIN u, i < j, IsRow(u[i]), IsRow(u[j])
      PROVE  u[i].t + Interval <= u[j].t
  <2>1. i \in DOMAIN s /\ u[i] = s[i]
    BY <1>4, <1>5
  <2>2. CASE j = e
    BY <1>2, <1>5, <2>1, <2>2
  <2>3. CASE j \in DOMAIN s /\ u[j] = s[j]
    BY <1>5, <2>1, <2>3 DEF Series
  <2> QED
    BY <1>3, <2>2, <2>3
<1>6. ASSUME NEW i \in DOMAIN u, IsRow(u[i])
      PROVE  u[i].t <= n /\ (u[i].cpu = -1 \/ u[i].cpu = r * u[i].t)
  <2>1. CASE i = e
    BY <1>2, <2>1
  <2>2. CASE i \in DOMAIN s /\ u[i] = s[i]
    BY <1>6, <2>2 DEF Series
  <2> QED
    BY <1>3, <2>1, <2>2
<1>7. Series(u, r, n)
  BY <1>2, <1>5, <1>6 DEF Series
<1> QED
  BY <1>7 DEF u

LEMMA SeriesFirst ==
  ASSUME NEW r, NEW n \in Nat, NEW b \in Banners, NEW row \in Samples, row.t = n,
         row.cpu = -1 \/ row.cpu = r * n
  PROVE  Series(<<b, row>>, r, n)
<1>1. b \in Lines /\ row \in Lines /\ b \notin Samples
  <2>1. DOMAIN b = {"capped"} /\ DOMAIN row = {"t", "cpu", "anon"}
    BY DEF Banners, Samples
  <2>2. b \in Samples => DOMAIN b = {"t", "cpu", "anon"}
    BY DEF Samples
  <2> QED
    BY <2>1, <2>2 DEF Lines
<1> DEFINE u == <<b, row>>
<1>2. u \in Seq(Lines) /\ DOMAIN u = 1..2 /\ u[1] = b /\ u[2] = row
  BY <1>1
<1>3. ~IsRow(u[1])
  BY <1>1, <1>2, RowOrBanner
<1> HIDE DEF u
<1>4. \A i \in DOMAIN u : IsRow(u[i]) => i = 2
  BY <1>2, <1>3
<1>5. Series(u, r, n)
  BY <1>2, <1>4 DEF Series
<1> QED
  BY <1>5 DEF u

LEMMA ReadingIs ==
  ASSUME SamplingTypes, NEW c \in Boxes, NEW x \in Readings(c)
  PROVE  /\ x.row \in Samples /\ x.row.t = now
         /\ x.row.cpu = -1 \/ x.row.cpu = Rate[c] * now
<1>1. now \in Nat /\ anon[c] \in Nat /\ Rate[c] \in Nat
  BY AccountingAssumption DEF SamplingTypes
<1>2. Rate[c] * now \in Int
  BY <1>1
<1>3. Row(c) = [t |-> now, cpu |-> Rate[c] * now, anon |-> anon[c]]
  BY DEF Row
<1>4. \/ x.row = Row(c)
      \/ x.row = [Row(c) EXCEPT !.cpu = -1]
      \/ x.row = [Row(c) EXCEPT !.anon = -1]
  BY DEF Readings
<1>5. \/ x.row = [t |-> now, cpu |-> Rate[c] * now, anon |-> anon[c]]
      \/ x.row = [t |-> now, cpu |-> -1, anon |-> anon[c]]
      \/ x.row = [t |-> now, cpu |-> Rate[c] * now, anon |-> -1]
  BY <1>3, <1>4
<1> QED
  BY <1>1, <1>2, <1>5 DEF Samples

\* A container that stops being sampled, or none.
LEMMA Quieter ==
  ASSUME Sampling, now' = now, step' = step, sampler' \in [Boxes -> Samplers],
         anon' \in [Boxes -> Nat], up' \in [Boxes -> BOOLEAN],
         \A c \in Boxes : /\ sampler'[c].lines = sampler[c].lines
                         /\ sampler'[c].due = sampler[c].due
                         /\ (sampler'[c].on => sampler[c].on)
  PROVE  Sampling'
<1>1. SamplingTypes'
  BY DEF Sampling, SamplingTypes
<1>2. \A c \in Boxes : Written(c)'
  BY DEF Sampling, Written
<1>3. \A k \in 1..Len(Order) : Order[k] \in Boxes
  BY AccountingAssumption
<1>4. Unstarted'
  <2>1. SUFFICES ASSUME At("opening"), NEW k \in step.i..Len(Order)
                 PROVE  sampler'[Order[k]].lines = <<>> /\ ~sampler'[Order[k]].on
    BY DEF Unstarted, At
  <2>2. k \in 1..Len(Order)
    BY DEF Sampling, SamplingTypes
  <2>3. sampler[Order[k]].lines = <<>> /\ ~sampler[Order[k]].on
    BY <2>1 DEF Sampling, Unstarted
  <2> QED
    BY <1>3, <2>2, <2>3
<1>5. Stopped'
  <2>1. ASSUME At("stopping"), NEW k \in 1..(step.i - 1) PROVE ~sampler'[Order[k]].on
    <3>1. k \in 1..Len(Order)
      BY DEF Sampling, SamplingTypes
    <3>2. ~sampler[Order[k]].on
      BY <2>1 DEF Sampling, Stopped
    <3> QED
      BY <1>3, <3>1, <3>2
  <2>2. ASSUME step.phase \in Ends, NEW c \in Boxes PROVE ~sampler'[c].on
    BY <2>2 DEF Sampling, Stopped
  <2> QED
    BY <2>1, <2>2 DEF Stopped, At
<1> QED
  BY <1>1, <1>2, <1>4, <1>5 DEF Sampling

\* The end of the sampling.
LEMMA NoneLeft ==
  ASSUME SamplingTypes, now' = now, step' \in [phase : Ends, i : 1..Len(Order)],
         sampler' \in [Boxes -> Samplers], \A c \in Boxes : ~sampler'[c].on,
         \A c \in Boxes : Series(sampler'[c].lines, Rate[c], now),
         anon' \in [Boxes -> Nat], up' \in [Boxes -> BOOLEAN]
  PROVE  Sampling'
<1>1. /\ step'.phase # "opening" /\ step'.phase # "stopping"
      /\ step' \in [phase : Phases, i : 1..Len(Order)]
  BY DEF Ends, Phases
<1>2. SamplingTypes'
  BY <1>1 DEF SamplingTypes
<1>3. \A c \in Boxes : Written(c)'
  BY DEF Written
<1>4. Unstarted' /\ Stopped'
  BY <1>1 DEF Unstarted, Stopped, At
<1> QED
  BY <1>2, <1>3, <1>4 DEF Sampling

LEMMA EnterIs ==
  ASSUME NEW phase, Enter(phase)
  PROVE  /\ step'.phase = phase /\ step'.i = 1
         /\ phase \in Phases => step' \in [phase : Phases, i : 1..Len(Order)]
         /\ phase \in Ends => step' \in [phase : Ends, i : 1..Len(Order)]
<1>1. Len(Order) \in Nat /\ Len(Order) >= 1
  BY AccountingAssumption
<1> QED
  BY <1>1 DEF Enter

LEMMA NoSamplerIs ==
  /\ NoSampler \in Samplers /\ ~NoSampler.on /\ NoSampler.lines = <<>>
  /\ \A c \in Boxes : \A n : Series(NoSampler.lines, Rate[c], n)
<1>1. NoSampler \in Samplers /\ ~NoSampler.on /\ NoSampler.lines = <<>>
  <2>1. << >> \in Seq(Lines)
    OBVIOUS
  <2> QED
    BY <2>1 DEF NoSampler, Samplers
<1> QED
  BY <1>1, SeriesEmpty

LEMMA DiscardSampling ==
  ASSUME Sampling, Discard PROVE Sampling'
<1>1. /\ Enter("refused") /\ sampler' = [c \in Boxes |-> NoSampler]
      /\ now' = now /\ anon' = anon /\ up' = up
  BY DEF Discard
<1>2. "refused" \in Ends
  BY DEF Ends
<1>3. /\ sampler' \in [Boxes -> Samplers] /\ \A c \in Boxes : ~sampler'[c].on
      /\ \A c \in Boxes : Series(sampler'[c].lines, Rate[c], now)
  BY <1>1, NoSamplerIs
<1> QED
  BY <1>1, <1>2, <1>3, EnterIs, NoneLeft DEF Sampling, SamplingTypes

LEMMA TickSampling ==
  ASSUME Sampling, Tick PROVE Sampling'
<1>1. now' = now + 1 /\ UNCHANGED <<step, up, sampler>> /\ now \in Nat
  BY DEF Tick, Sampling, SamplingTypes
<1>2. anon' \in [Boxes -> Nat]
  <2>1. CASE anon' = anon
    BY <2>1 DEF Sampling, SamplingTypes
  <2>2. CASE \E c \in Boxes, l \in Levels : anon' = [anon EXCEPT ![c] = l]
    BY <2>2, AccountingAssumption DEF Sampling, SamplingTypes
  <2> QED
    BY <2>1, <2>2 DEF Tick
<1>3. SamplingTypes'
  BY <1>1, <1>2 DEF Sampling, SamplingTypes
<1>4. \A c \in Boxes : Written(c)'
  BY <1>1, SeriesLater DEF Sampling, Written
<1>5. Unstarted' /\ Stopped'
  BY <1>1 DEF Sampling, Unstarted, Stopped, At
<1> QED
  BY <1>3, <1>4, <1>5 DEF Sampling

\* A container's sampler goes off, with what it has written.
LEMMA GoesOff ==
  ASSUME Sampling, NEW c \in Boxes, sampler' = [sampler EXCEPT ![c].on = FALSE]
  PROVE  /\ sampler' \in [Boxes -> Samplers]
         /\ \A d \in Boxes : /\ sampler'[d].lines = sampler[d].lines
                            /\ sampler'[d].due = sampler[d].due
                            /\ (sampler'[d].on => sampler[d].on)
<1>1. sampler \in [Boxes -> Samplers]
  BY DEF Sampling, SamplingTypes
<1> QED
  BY <1>1 DEF Samplers

LEMMA DieSampling ==
  ASSUME Sampling, NEW c \in Boxes, Die(c) \/ SamplerDies(c) PROVE Sampling'
<1>1. /\ sampler' = [sampler EXCEPT ![c].on = FALSE] /\ now' = now /\ step' = step /\ anon' = anon
      /\ up' = up \/ up' = [up EXCEPT ![c] = FALSE]
  BY DEF Die, SamplerDies
<1>2. up' \in [Boxes -> BOOLEAN] /\ anon' \in [Boxes -> Nat]
  BY <1>1 DEF Sampling, SamplingTypes
<1> QED
  BY <1>1, <1>2, GoesOff, Quieter

\* Some lines more, and when the next is due.
Wrote(f, c, lines, due) == [f EXCEPT ![c].lines = lines, ![c].due = due]

LEMMA WroteIs ==
  ASSUME NEW f \in [Boxes -> Samplers], NEW c \in Boxes, NEW lines \in Seq(Lines), NEW due \in Nat,
         NEW g, g = Wrote(f, c, lines, due)
  PROVE  /\ g \in [Boxes -> Samplers] /\ \A d \in Boxes : d # c => g[d] = f[d]
         /\ g[c].on = f[c].on /\ g[c].lines = lines /\ g[c].due = due
<1> DEFINE w == [f[c] EXCEPT !.lines = lines, !.due = due]
<1>1. w \in Samplers /\ w.on = f[c].on /\ w.lines = lines /\ w.due = due
  BY DEF Samplers
<1>2. g = [f EXCEPT ![c] = w]
  BY DEF Wrote
<1> HIDE DEF w
<1> QED
  BY <1>1, <1>2

LEMMA EmitSampling ==
  ASSUME Sampling, NEW c \in Boxes, Emit(c) PROVE Sampling'
<1>1. /\ sampler[c].on /\ now >= sampler[c].due /\ UNCHANGED <<now, step, up, anon>>
  BY DEF Emit
<1>2. PICK x \in Readings(c) :
        IF sampler[c].lines = <<>>
        THEN \E h \in Headers :
               sampler' = [sampler EXCEPT ![c].lines = <<[capped |-> h.capped], x.row>>,
                                          ![c].due = now + Interval]
        ELSE sampler' = [sampler EXCEPT ![c].lines = Append(@, x.row),
                                        ![c].due = now + Interval]
  BY DEF Emit
<1>3. /\ x.row \in Samples /\ x.row.t = now
      /\ x.row.cpu = -1 \/ x.row.cpu = Rate[c] * now
  BY ReadingIs DEF Sampling
<1>4. /\ now \in Nat /\ sampler \in [Boxes -> Samplers] /\ sampler[c].due \in Nat
      /\ Interval \in Nat
  BY AccountingAssumption DEF Sampling, SamplingTypes, Samplers
<1>5. Series(sampler[c].lines, Rate[c], now)
  BY DEF Sampling, Written
<1>6. PICK s : Series(s, Rate[c], now) /\ sampler' = Wrote(sampler, c, s, now + Interval)
  <2>1. CASE sampler[c].lines = <<>>
    <3>1. PICK h \in Headers :
            sampler' = [sampler EXCEPT ![c].lines = <<[capped |-> h.capped], x.row>>,
                                       ![c].due = now + Interval]
      BY <1>2, <2>1
    <3>2. [capped |-> h.capped] \in Banners
      <4>1. h.capped \in BOOLEAN
        <5>1. CASE h = [capped |-> TRUE, fault |-> 0]
          BY <5>1
        <5>2. CASE h = [capped |-> FALSE, fault |-> 1]
          BY <5>2
        <5> QED
          BY <5>1, <5>2 DEF Headers
      <4> QED
        BY <4>1 DEF Banners
    <3>3. Series(<<[capped |-> h.capped], x.row>>, Rate[c], now)
      BY <1>3, <1>4, <3>2, SeriesFirst
    <3> QED
      BY <3>1, <3>3 DEF Wrote
  <2>2. CASE sampler[c].lines # <<>>
    <3>1. ASSUME NEW i \in DOMAIN sampler[c].lines, IsRow(sampler[c].lines[i])
          PROVE  sampler[c].lines[i].t + Interval <= now
      <4>1. sampler[c].lines[i].t + Interval <= sampler[c].due
        BY <1>1, <3>1 DEF Sampling, Written
      <4>2. sampler[c].lines[i].t \in Nat
        BY <1>5, <3>1, RowOrBanner DEF Series, Samples
      <4> QED
        BY <1>1, <1>4, <4>1, <4>2
    <3>2. Series(Append(sampler[c].lines, x.row), Rate[c], now)
      BY <1>3, <1>4, <1>5, <3>1, SeriesLonger
    <3>3. sampler' = Wrote(sampler, c, Append(sampler[c].lines, x.row), now + Interval)
      BY <1>2, <1>4, <2>2 DEF Wrote
    <3> QED
      BY <3>2, <3>3
  <2> QED
    BY <2>1, <2>2
<1>7. s \in Seq(Lines) /\ now + Interval \in Nat
  BY <1>4, <1>6 DEF Series
<1>8. PICK g : g = sampler'
  OBVIOUS
<1>9. /\ g \in [Boxes -> Samplers] /\ \A d \in Boxes : d # c => g[d] = sampler[d]
      /\ g[c].on = sampler[c].on /\ g[c].lines = s /\ g[c].due = now + Interval
  BY <1>4, <1>6, <1>7, <1>8, WroteIs
<1>10. /\ sampler' \in [Boxes -> Samplers] /\ \A d \in Boxes : d # c => sampler'[d] = sampler[d]
       /\ sampler'[c].on = sampler[c].on /\ sampler'[c].lines = s
       /\ sampler'[c].due = now + Interval
  BY <1>8, <1>9
<1>11. SamplingTypes'
  BY <1>1, <1>10 DEF Sampling, SamplingTypes
<1>12. ASSUME NEW d \in Boxes PROVE Written(d)'
  <2>1. CASE d # c
    BY <1>1, <1>10, <2>1 DEF Sampling, Written
  <2>2. CASE d = c
    <3>1. ASSUME NEW i \in DOMAIN s, IsRow(s[i]) PROVE s[i].t + Interval <= now + Interval
      <4>1. s[i].t <= now /\ s[i].t \in Nat
        BY <1>6, <3>1, RowOrBanner DEF Series, Samples
      <4> QED
        BY <1>4, <4>1
    <3> QED
      BY <1>1, <1>6, <1>10, <2>2, <3>1 DEF Written
  <2> QED
    BY <2>1, <2>2
<1>13. \A k \in 1..Len(Order) : Order[k] \in Boxes
  BY AccountingAssumption
<1>14. Unstarted'
  <2>1. SUFFICES ASSUME At("opening"), NEW k \in step.i..Len(Order)
                 PROVE  sampler'[Order[k]].lines = <<>> /\ ~sampler'[Order[k]].on
    BY <1>1 DEF Unstarted, At
  <2>2. k \in 1..Len(Order)
    BY DEF Sampling, SamplingTypes
  <2>3. sampler[Order[k]].lines = <<>> /\ ~sampler[Order[k]].on
    BY <2>1 DEF Sampling, Unstarted
  <2>4. Order[k] # c
    BY <1>1, <2>3
  <2> QED
    BY <1>10, <1>13, <2>2, <2>3, <2>4
<1>15. Stopped'
  <2>1. \A d \in Boxes : sampler'[d].on = sampler[d].on
    BY <1>10
  <2>2. ASSUME At("stopping"), NEW k \in 1..(step.i - 1) PROVE ~sampler'[Order[k]].on
    <3>1. k \in 1..Len(Order)
      BY DEF Sampling, SamplingTypes
    <3>2. ~sampler[Order[k]].on
      BY <2>2 DEF Sampling, Stopped
    <3> QED
      BY <1>13, <2>1, <3>1, <3>2
  <2> QED
    BY <1>1, <2>1, <2>2 DEF Sampling, Stopped, At
<1> QED
  BY <1>11, <1>12, <1>14, <1>15 DEF Sampling

\* A sampler that starts, or does not.
Began(f, c, on, due) == [f EXCEPT ![c].on = on, ![c].due = due]

LEMMA BeganIs ==
  ASSUME NEW f \in [Boxes -> Samplers], NEW c \in Boxes, NEW on \in BOOLEAN, NEW due \in Nat,
         NEW g, g = Began(f, c, on, due)
  PROVE  /\ g \in [Boxes -> Samplers] /\ \A d \in Boxes : d # c => g[d] = f[d]
         /\ g[c].lines = f[c].lines
<1> DEFINE w == [f[c] EXCEPT !.on = on, !.due = due]
<1>1. w \in Samplers /\ w.lines = f[c].lines
  BY DEF Samplers
<1>2. g = [f EXCEPT ![c] = w]
  BY DEF Began
<1> HIDE DEF w
<1> QED
  BY <1>1, <1>2

LEMMA OrderIs ==
  /\ Len(Order) \in Nat /\ Len(Order) >= 1
  /\ \A k \in 1..Len(Order) : Order[k] \in Boxes
  /\ \A j, k \in 1..Len(Order) : Order[j] = Order[k] => j = k
  /\ \A c \in Boxes : \E k \in 1..Len(Order) : c = Order[k]
<1>1. Len(Order) \in Nat /\ Len(Order) >= 1 /\ DOMAIN Order = 1..Len(Order)
  BY AccountingAssumption
<1>2. \A k \in 1..Len(Order) : Order[k] \in Boxes
  BY AccountingAssumption
<1>3. \A j, k \in 1..Len(Order) : Order[j] = Order[k] => j = k
  BY <1>1, AccountingAssumption DEF IsInjective
<1>4. \A c \in Boxes : \E k \in 1..Len(Order) : c = Order[k]
  BY <1>1 DEF Boxes, Range
<1> QED
  BY <1>1, <1>2, <1>3, <1>4

\* run_arm goes on to the next container, or to the next phase.
LEMMA NextIs ==
  ASSUME SamplingTypes, NEW phase \in Phases,
         IF step.i < Len(Order) THEN step' = [step EXCEPT !.i = @ + 1] ELSE Enter(phase)
  PROVE  /\ step' \in [phase : Phases, i : 1..Len(Order)]
         /\ \/ step.i < Len(Order) /\ step'.phase = step.phase /\ step'.i = step.i + 1
            \/ step.i = Len(Order) /\ step'.phase = phase
<1>1. step \in [phase : Phases, i : 1..Len(Order)] /\ Len(Order) \in Nat
  BY OrderIs DEF SamplingTypes
<1>2. CASE step.i < Len(Order)
  <2>1. step' = [step EXCEPT !.i = step.i + 1] /\ step.i + 1 \in 1..Len(Order)
    BY <1>1, <1>2
  <2> QED
    BY <1>1, <1>2, <2>1
<1>3. CASE ~(step.i < Len(Order))
  <2>1. step.i = Len(Order) /\ Enter(phase)
    BY <1>1, <1>3
  <2> QED
    BY <2>1, EnterIs
<1> QED
  BY <1>2, <1>3

LEMMA StartSampling ==
  ASSUME Sampling, StartSampler PROVE Sampling'
<1>1. PICK c : c = Order[step.i]
  OBVIOUS
<1>2. /\ At("opening") /\ UNCHANGED <<now, up, anon>>
      /\ sampler' = Began(sampler, c, up[c], now)
      /\ IF step.i < Len(Order) THEN step' = [step EXCEPT !.i = @ + 1] ELSE Enter("window")
  BY <1>1 DEF StartSampler, Began
<1>3. "window" \in Phases
  BY DEF Phases
<1>4. /\ step' \in [phase : Phases, i : 1..Len(Order)]
      /\ \/ step.i < Len(Order) /\ step'.phase = step.phase /\ step'.i = step.i + 1
         \/ step.i = Len(Order) /\ step'.phase = "window"
  BY <1>2, <1>3, NextIs DEF Sampling
<1>5. /\ step.i \in 1..Len(Order) /\ now \in Nat /\ sampler \in [Boxes -> Samplers]
      /\ up \in [Boxes -> BOOLEAN]
  BY DEF Sampling, SamplingTypes
<1>6. c \in Boxes
  BY <1>1, <1>5, OrderIs
<1>7. PICK g : g = sampler'
  OBVIOUS
<1>8. /\ g \in [Boxes -> Samplers] /\ \A d \in Boxes : d # c => g[d] = sampler[d]
      /\ g[c].lines = sampler[c].lines
  BY <1>2, <1>5, <1>6, <1>7, BeganIs
<1>9. \A k \in step.i..Len(Order) : sampler[Order[k]].lines = <<>> /\ ~sampler[Order[k]].on
  BY <1>2 DEF Sampling, Unstarted
<1>10. sampler[c].lines = <<>>
  BY <1>1, <1>5, <1>9
<1>11. SamplingTypes'
  BY <1>2, <1>4, <1>7, <1>8 DEF Sampling, SamplingTypes
<1>12. ASSUME NEW d \in Boxes PROVE Written(d)'
  <2>1. CASE d # c
    BY <1>2, <1>7, <1>8, <2>1 DEF Sampling, Written
  <2>2. CASE d = c
    <3>1. sampler'[d].lines = <<>>
      BY <1>7, <1>8, <1>10, <2>2
    <3>2. Series(<<>>, Rate[d], now') /\ DOMAIN << >> = {}
      BY SeriesEmpty
    <3> QED
      BY <3>1, <3>2 DEF Written
  <2> QED
    BY <2>1, <2>2
<1>13. Unstarted'
  <2>1. SUFFICES ASSUME step'.phase = "opening", NEW k \in step'.i..Len(Order)
                 PROVE  sampler'[Order[k]].lines = <<>> /\ ~sampler'[Order[k]].on
    BY DEF Unstarted, At
  <2>2. k \in step.i..Len(Order) /\ k # step.i /\ k \in 1..Len(Order)
    BY <1>4, <1>5, <2>1
  <2>3. Order[k] # c /\ Order[k] \in Boxes
    BY <1>1, <1>5, <2>2, OrderIs
  <2> QED
    BY <1>7, <1>8, <1>9, <2>2, <2>3
<1>14. Stopped'
  <2>1. step.phase = "opening"
    BY <1>2 DEF At
  <2>2. step'.phase = "opening" \/ step'.phase = "window"
    BY <1>4, <2>1
  <2> QED
    BY <2>2 DEF Stopped, At, Ends
<1> QED
  BY <1>11, <1>12, <1>13, <1>14 DEF Sampling

LEMMA HoldSampling ==
  ASSUME Sampling, Hold PROVE Sampling'
<1>1. CASE Discard
  BY <1>1, DiscardSampling
<1>2. CASE Enter("stopping") /\ UNCHANGED <<now, up, anon, sampler>>
  <2>1. "stopping" \in Phases
    BY DEF Phases
  <2>2. step'.phase = "stopping" /\ step'.i = 1 /\ step' \in [phase : Phases, i : 1..Len(Order)]
    BY <1>2, <2>1, EnterIs
  <2>3. SamplingTypes'
    BY <1>2, <2>2 DEF Sampling, SamplingTypes
  <2>4. \A c \in Boxes : Written(c)'
    BY <1>2 DEF Sampling, Written
  <2>5. Unstarted' /\ Stopped'
    BY <2>2 DEF Unstarted, Stopped, At, Ends
  <2> QED
    BY <2>3, <2>4, <2>5 DEF Sampling
<1> QED
  BY <1>1, <1>2 DEF Hold

\* What a stopped sampler leaves.
Cut(s, n) == [NoSampler EXCEPT !.lines = SubSeq(s, 1, n)]

LEMMA CutIs ==
  ASSUME NEW r, NEW n, NEW s, Series(s, r, n), NEW k \in 0..Len(s), NEW w, w = Cut(s, k)
  PROVE  w \in Samplers /\ ~w.on /\ Series(w.lines, r, n)
<1>1. PICK u : u = SubSeq(s, 1, k)
  OBVIOUS
<1>2. Series(u, r, n) /\ u \in Seq(Lines)
  BY <1>1, SeriesPrefix DEF Series
<1>3. w = [on |-> FALSE, due |-> 0, lines |-> u]
  BY <1>1 DEF Cut, NoSampler
<1>4. w \in Samplers
  BY <1>2, <1>3 DEF Samplers
<1>5. w.lines = u /\ w.on = FALSE
  BY <1>3
<1> QED
  BY <1>2, <1>4, <1>5

LEMMA StopSampling ==
  ASSUME Sampling, StopSampler PROVE Sampling'
<1>1. PICK c : c = Order[step.i]
  OBVIOUS
<1>2. /\ At("stopping") /\ UNCHANGED <<now, up, anon>>
      /\ \E n \in 0..Len(sampler[c].lines) :
           sampler' = [sampler EXCEPT ![c] = Cut(sampler[c].lines, n)]
      /\ IF step.i < Len(Order) THEN step' = [step EXCEPT !.i = @ + 1] ELSE Enter("closed")
  BY <1>1 DEF StopSampler, Cut
<1>3. "closed" \in Phases
  BY DEF Phases, Ends
<1>4. /\ step' \in [phase : Phases, i : 1..Len(Order)]
      /\ \/ step.i < Len(Order) /\ step'.phase = step.phase /\ step'.i = step.i + 1
         \/ step.i = Len(Order) /\ step'.phase = "closed"
  BY <1>2, <1>3, NextIs DEF Sampling
<1>5. /\ step.i \in 1..Len(Order) /\ now \in Nat /\ sampler \in [Boxes -> Samplers]
  BY DEF Sampling, SamplingTypes
<1>6. c \in Boxes
  BY <1>1, <1>5, OrderIs
<1>7. PICK n \in 0..Len(sampler[c].lines) :
        sampler' = [sampler EXCEPT ![c] = Cut(sampler[c].lines, n)]
  BY <1>2
<1>8. PICK w : w = Cut(sampler[c].lines, n)
  OBVIOUS
<1>9. w \in Samplers /\ ~w.on /\ Series(w.lines, Rate[c], now)
  BY <1>6, <1>8, CutIs DEF Sampling, Written
<1>10. sampler' = [sampler EXCEPT ![c] = w]
  BY <1>7, <1>8
<1>11. /\ sampler' \in [Boxes -> Samplers] /\ \A d \in Boxes : d # c => sampler'[d] = sampler[d]
       /\ sampler'[c] = w
  BY <1>5, <1>6, <1>9, <1>10
<1>12. SamplingTypes'
  BY <1>2, <1>4, <1>11 DEF Sampling, SamplingTypes
<1>13. ASSUME NEW d \in Boxes PROVE Written(d)'
  BY <1>2, <1>9, <1>11 DEF Sampling, Written
<1>14. step.phase = "stopping" /\ \A k \in 1..(step.i - 1) : ~sampler[Order[k]].on
  BY <1>2 DEF Sampling, Stopped, At
<1>15. step'.phase = "stopping" \/ step'.phase = "closed"
  BY <1>4, <1>14
<1>16. Unstarted'
  BY <1>15 DEF Unstarted, At
<1>17. \A k \in 1..step.i : ~sampler'[Order[k]].on
  <2>1. SUFFICES ASSUME NEW k \in 1..step.i PROVE ~sampler'[Order[k]].on
    OBVIOUS
  <2>2. k \in 1..Len(Order) /\ Order[k] \in Boxes /\ (k = step.i \/ k \in 1..(step.i - 1))
    BY <1>5, OrderIs
  <2> QED
    BY <1>1, <1>9, <1>11, <1>14, <2>2
<1>18. Stopped'
  <2>1. CASE step'.phase = "stopping"
    <3>1. step'.i = step.i + 1
      BY <1>4, <2>1
    <3>2. step'.i - 1 = step.i
      BY <1>5, <3>1
    <3> QED
      BY <1>17, <2>1, <3>2 DEF Stopped, At, Ends
  <2>2. CASE step'.phase = "closed"
    <3>1. step.i = Len(Order)
      BY <1>4, <1>14, <2>2
    <3>2. \A d \in Boxes : ~sampler'[d].on
      BY <1>17, <3>1, OrderIs
    <3> QED
      BY <2>2, <3>2 DEF Stopped, At
  <2> QED
    BY <1>15, <2>1, <2>2
<1> QED
  BY <1>12, <1>13, <1>16, <1>18 DEF Sampling

\* Once all are stopped, the series are read and thrown away.
LEMMA EndSampling ==
  ASSUME Sampling, Account \/ Settle \/ ReadGc \/ Serve PROVE Sampling'
<1>1. step.phase \in {"closed", "settling", "reading", "removed"} /\ step.phase \in Ends
  BY DEF Account, Settle, ReadGc, Serve, At, Ends
<1>2. \A c \in Boxes : ~sampler[c].on
  BY <1>1 DEF Sampling, Stopped
<1>3. CASE Discard
  BY <1>3, DiscardSampling
<1>4. CASE ~Discard
  <2>1. now' = now /\ (sampler' = sampler \/ sampler' = [c \in Boxes |-> NoSampler])
    BY <1>4 DEF Account, Settle, ReadGc, Serve
  <2>2. /\ sampler' \in [Boxes -> Samplers] /\ \A c \in Boxes : ~sampler'[c].on
        /\ \A c \in Boxes : Series(sampler'[c].lines, Rate[c], now)
    <3>1. CASE sampler' = sampler
      BY <1>2, <3>1 DEF Sampling, SamplingTypes, Written
    <3>2. CASE sampler' = [c \in Boxes |-> NoSampler]
      BY <3>2, NoSamplerIs
    <3> QED
      BY <2>1, <3>1, <3>2
  <2>3. anon' \in [Boxes -> Nat] /\ up' \in [Boxes -> BOOLEAN]
    <3>1. anon' = anon \/ anon' = [c \in Boxes |-> 0]
      BY <1>4 DEF Account, Settle, ReadGc, Serve
    <3>2. up' = up \/ up' = [c \in Boxes |-> FALSE]
      BY <1>4 DEF Account, Settle, ReadGc, Serve
    <3>3. [c \in Boxes |-> 0] \in [Boxes -> Nat] /\ [c \in Boxes |-> FALSE] \in [Boxes -> BOOLEAN]
      OBVIOUS
    <3>4. anon \in [Boxes -> Nat] /\ up \in [Boxes -> BOOLEAN]
      BY DEF Sampling, SamplingTypes
    <3> QED
      BY <3>1, <3>2, <3>3, <3>4
  <2>4. step' \in [phase : Ends, i : 1..Len(Order)]
    <3>1. CASE ReadGc
      <4>1. /\ At("reading")
            /\ IF step.i < Len(Order) THEN step' = [step EXCEPT !.i = @ + 1] ELSE Enter("removed")
        BY <3>1 DEF ReadGc
      <4>2. "removed" \in Phases
        BY DEF Phases, Ends
      <4>3. /\ step' \in [phase : Phases, i : 1..Len(Order)]
            /\ step'.phase = step.phase \/ step'.phase = "removed"
        BY <4>1, <4>2, NextIs DEF Sampling
      <4>4. step'.phase \in Ends
        BY <4>1, <4>3 DEF At, Ends
      <4> QED
        BY <4>3, <4>4
    <3>2. CASE Account
      <4>1. Enter("settling")
        BY <1>4, <3>2 DEF Account
      <4> QED
        BY <4>1, EnterIs DEF Ends
    <3>3. CASE Settle
      <4>1. Enter("reading")
        BY <1>4, <3>3 DEF Settle
      <4> QED
        BY <4>1, EnterIs DEF Ends
    <3>4. CASE Serve
      <4>1. Enter("recorded")
        BY <3>4 DEF Serve
      <4> QED
        BY <4>1, EnterIs DEF Ends
    <3> QED
      BY <3>1, <3>2, <3>3, <3>4
  <2> QED
    BY <2>1, <2>2, <2>3, <2>4, NoneLeft DEF Sampling
<1> QED
  BY <1>3, <1>4

LEMMA SamplingInit == AccountingInit => Sampling
<1>1. SUFFICES ASSUME AccountingInit PROVE Sampling
  OBVIOUS
<1>2. step = [phase |-> "opening", i |-> 1] /\ sampler = [c \in Boxes |-> NoSampler] /\ now = 0
  BY <1>1 DEF AccountingInit
<1>3. SamplingTypes
  <2>1. anon \in [Boxes -> Nat] /\ up \in [Boxes -> BOOLEAN]
    BY <1>1, AccountingAssumption DEF AccountingInit
  <2>2. step \in [phase : Phases, i : 1..Len(Order)]
    BY <1>2, OrderIs DEF Phases
  <2>3. sampler \in [Boxes -> Samplers]
    BY <1>2, NoSamplerIs
  <2> QED
    BY <1>2, <2>1, <2>2, <2>3 DEF SamplingTypes
<1>4. \A c \in Boxes : Written(c)
  BY <1>2, NoSamplerIs DEF Written
<1>5. Unstarted
  <2>1. \A k \in step.i..Len(Order) : k \in 1..Len(Order)
    BY <1>2
  <2> QED
    BY <1>2, <2>1, OrderIs, NoSamplerIs DEF Unstarted
<1>6. Stopped
  BY <1>2 DEF Stopped, At, Ends
<1> QED
  BY <1>3, <1>4, <1>5, <1>6 DEF Sampling

LEMMA SamplingStep ==
  ASSUME Sampling, [AccountingNext]_accountingVars PROVE Sampling'
<1>1. CASE Run
  BY <1>1, StartSampling, HoldSampling, StopSampling, EndSampling DEF Run
<1>2. CASE World
  <2>1. CASE Tick
    BY <2>1, TickSampling
  <2>2. ASSUME NEW c \in Boxes, Die(c) \/ SamplerDies(c) \/ Emit(c) PROVE Sampling'
    BY <2>2, DieSampling, EmitSampling
  <2> QED
    BY <1>2, <2>1, <2>2 DEF World
<1>3. CASE UNCHANGED accountingVars
  <2>1. UNCHANGED <<now, step, up, anon, sampler>>
    BY <1>3 DEF accountingVars
  <2> QED
    BY <2>1 DEF Sampling, SamplingTypes, Written, Unstarted, Stopped, At
<1> QED
  BY <1>1, <1>2, <1>3 DEF AccountingNext

-----------------------------------------------------------------------------
(* What the arm is charged.                                                *)

LEMMA SumCostIs ==
  ASSUME NEW n \in Nat, NEW L, DOMAIN L = Boxes, \A c \in Boxes : Series(L[c], Rate[c], n),
         NEW ps, ps = [c \in Boxes |-> Summarise(L[c])], NEW cost, cost = SumCost(ps), cost # None
  PROVE  /\ \A c \in Boxes : ps[c] # None /\ ps[c].to - ps[c].from \in 1..cost.window
         /\ cost.cpu = SumFunctionOnSet([c \in Boxes |-> Rate[c] * (ps[c].to - ps[c].from)], Boxes)
<1>1. DOMAIN ps = Boxes /\ \A c \in Boxes : ps[c] = Summarise(L[c])
  OBVIOUS
<1>2. \A c \in Boxes : ps[c] # None
  BY <1>1 DEF SumCost
<1> DEFINE spans == {ps[c].to - ps[c].from : c \in Boxes}
           burned == [c \in Boxes |-> ps[c].cpu]
<1>3. cost = [cpu |-> SumFunctionOnSet(burned, Boxes), window |-> Max(spans)]
  BY <1>1, <1>2 DEF SumCost
<1>4. ASSUME NEW c \in Boxes
      PROVE  /\ ps[c].to - ps[c].from \in Nat /\ ps[c].to - ps[c].from >= 1
             /\ ps[c].cpu = Rate[c] * (ps[c].to - ps[c].from)
  <2>1. Rate[c] \in Nat
    BY AccountingAssumption
  <2>2. /\ ps[c].from \in Nat /\ ps[c].to \in Nat /\ ps[c].to - ps[c].from >= 1
        /\ ps[c].cpu = Rate[c] * (ps[c].to - ps[c].from)
    BY <1>1, <1>2, <2>1, Summary
  <2> QED
    BY <2>2
<1>5. burned = [c \in Boxes |-> Rate[c] * (ps[c].to - ps[c].from)]
  BY <1>4
<1>6. spans \in SUBSET Nat /\ spans # {}
  BY <1>4, BoxesFinite
<1>7. IsFiniteSet(spans)
  <2> DEFINE f == [c \in Boxes |-> ps[c].to - ps[c].from]
  <2>1. f \in Surjection(Boxes, spans)
    BY DEF Surjection
  <2> HIDE DEF f, spans
  <2> QED
    BY <2>1, BoxesFinite, FS_Surjection
<1>8. Max(spans) \in Nat /\ \A k \in spans : k <= Max(spans)
  <2> HIDE DEF spans
  <2> QED
    BY <1>6, <1>7, MinMax
<1>9. \A c \in Boxes : ps[c].to - ps[c].from \in 1..Max(spans)
  <2>1. SUFFICES ASSUME NEW c \in Boxes PROVE ps[c].to - ps[c].from \in 1..Max(spans)
    OBVIOUS
  <2>2. PICK k : k = ps[c].to - ps[c].from
    OBVIOUS
  <2>3. k \in spans /\ k \in Nat /\ k >= 1
    BY <1>4, <2>2
  <2>4. k <= Max(spans)
    BY <1>8, <2>3
  <2> HIDE DEF spans
  <2>5. k \in 1..Max(spans)
    BY <1>8, <2>3, <2>4
  <2> QED
    BY <2>2, <2>5
<1> HIDE DEF spans, burned
<1> QED
  BY <1>2, <1>3, <1>5, <1>9

\* From the account on, until the record is made, there is a bill; and a bill is
\* one of every container.
Bill(a) == \E cost, span, server, peak :
             a = [cost |-> cost, span |-> span, server |-> server, peak |-> peak]
Whole(a, ps) ==
  /\ \A c \in Boxes : ps[c] # None /\ ps[c].to - ps[c].from \in 1..a.cost.window
  /\ a.cost.cpu = SumFunctionOnSet([c \in Boxes |-> Rate[c] * (ps[c].to - ps[c].from)], Boxes)
Billed ==
  arm # None \/ step.phase \in {"settling", "reading", "removed"} => Bill(arm) /\ Whole(arm, parts)

\* While the containers settle, the bill is what their series say.
Taken ==
  At("settling") =>
    /\ \A c \in Boxes : parts[c] # None /\ parts[c] = Summarise(sampler[c].lines)
    /\ arm.peak = SimultaneousPeak([c \in Boxes |-> sampler[c].lines])

LEMMA AccountIs ==
  ASSUME Sampling, Account, ~Discard
  PROVE  /\ step'.phase = "settling" /\ sampler' = sampler
         /\ \A c \in Boxes : parts'[c] # None /\ parts'[c] = Summarise(sampler[c].lines)
         /\ arm'.peak = SimultaneousPeak([c \in Boxes |-> sampler[c].lines])
         /\ Bill(arm') /\ Whole(arm', parts') /\ arm'.server = None
<1> DEFINE L == [c \in Boxes |-> sampler[c].lines]
<1>1. PICK ps, cost : ps = [c \in Boxes |-> Summarise(L[c])] /\ cost = SumCost(ps)
  OBVIOUS
<1>2. /\ SumCost([c \in Boxes |-> Summarise(sampler[c].lines)]) # None
      /\ parts' = [c \in Boxes |-> Summarise(sampler[c].lines)]
      /\ arm' = [cost |-> SumCost(parts'), span |-> Spanning(parts'), server |-> None,
                 peak |-> SimultaneousPeak([c \in Boxes |-> sampler[c].lines])]
      /\ Enter("settling") /\ sampler' = sampler
  BY DEF Account
<1>3. ps = [c \in Boxes |-> Summarise(sampler[c].lines)]
  BY <1>1
<1>4. parts' = ps /\ cost # None
  BY <1>1, <1>2, <1>3
<1>5. arm' = [cost |-> cost, span |-> Spanning(ps), server |-> None, peak |-> SimultaneousPeak(L)]
  BY <1>1, <1>2, <1>4
<1>6. DOMAIN L = Boxes /\ now \in Nat /\ \A c \in Boxes : Series(L[c], Rate[c], now)
  BY DEF Sampling, SamplingTypes, Written
<1> HIDE DEF L
<1>7. /\ \A c \in Boxes : ps[c] # None /\ ps[c].to - ps[c].from \in 1..cost.window
      /\ cost.cpu = SumFunctionOnSet([c \in Boxes |-> Rate[c] * (ps[c].to - ps[c].from)], Boxes)
  BY <1>1, <1>4, <1>6, SumCostIs
<1>8. Bill(arm') /\ arm'.server = None /\ arm'.cost = cost /\ arm'.peak = SimultaneousPeak(L)
  BY <1>5 DEF Bill
<1>9. Whole(arm', parts')
  BY <1>4, <1>7, <1>8 DEF Whole
<1>10. step'.phase = "settling"
  BY <1>2, EnterIs
<1>11. \A c \in Boxes : parts'[c] # None /\ parts'[c] = Summarise(sampler[c].lines)
  BY <1>3, <1>4, <1>7
<1> QED
  BY <1>2, <1>8, <1>9, <1>10, <1>11 DEF L

\* Serve adds the server's figure and no other.
LEMMA ServeIs ==
  ASSUME Billed, Serve
  PROVE  /\ step'.phase = "recorded" /\ Bill(arm') /\ arm'.cost = arm.cost /\ arm'.span = arm.span
         /\ \/ arm' = arm /\ inserts' = inserts
            \/ \E all \in UpTo(MaxInserts, InsertsAround(arm.span)),
                  route \in Routes, forwarded \in BOOLEAN :
                 /\ arm'.server = ServerFigure(Attributed(QueryLog(all, route), arm.span, forwarded))
                 /\ arm'.server # None /\ inserts' = all
<1>1. At("removed") /\ Enter("recorded")
  BY DEF Serve
<1>2. Bill(arm)
  BY <1>1 DEF Billed, At
<1>3. step'.phase = "recorded"
  BY <1>1, EnterIs
<1>4. CASE arm' = arm /\ inserts' = inserts
  BY <1>2, <1>3, <1>4
<1>5. CASE \E all \in UpTo(MaxInserts, InsertsAround(arm.span)),
              route \in Routes, forwarded \in BOOLEAN :
             LET figure == ServerFigure(Attributed(QueryLog(all, route), arm.span, forwarded))
             IN /\ figure # None
                /\ arm' = [arm EXCEPT !.server = figure]
                /\ inserts' = all
  <2>1. PICK all \in UpTo(MaxInserts, InsertsAround(arm.span)),
             route \in Routes, forwarded \in BOOLEAN :
          /\ ServerFigure(Attributed(QueryLog(all, route), arm.span, forwarded)) # None
          /\ arm' = [arm EXCEPT !.server =
                       ServerFigure(Attributed(QueryLog(all, route), arm.span, forwarded))]
          /\ inserts' = all
    BY <1>5
  <2>2. PICK figure : figure = ServerFigure(Attributed(QueryLog(all, route), arm.span, forwarded))
    OBVIOUS
  <2>3. PICK cost, span, server, peak :
          arm = [cost |-> cost, span |-> span, server |-> server, peak |-> peak]
    BY <1>2 DEF Bill
  <2>4. arm' = [arm EXCEPT !.server = figure]
    BY <2>1, <2>2
  <2>5. arm' = [cost |-> cost, span |-> span, server |-> figure, peak |-> peak]
    BY <2>3, <2>4
  <2>6. Bill(arm') /\ arm'.cost = arm.cost /\ arm'.span = arm.span /\ arm'.server = figure
    BY <2>3, <2>5 DEF Bill
  <2> QED
    BY <1>3, <2>1, <2>2, <2>6
<1> QED
  BY <1>4, <1>5 DEF Serve

\* The other steps leave the bill alone, and those that settle the series too.
LEMMA Otherwise ==
  ASSUME Sampling, [AccountingNext]_accountingVars, ~(Account /\ ~Discard), ~Serve
  PROVE  /\ arm' = arm /\ parts' = parts
         /\ step'.phase \in {"reading", "removed"} =>
             step.phase \in {"settling", "reading"} \/ step' = step
         /\ step'.phase = "settling" => step' = step /\ sampler' = sampler
<1> DEFINE Fine ==
      /\ arm' = arm /\ parts' = parts
      /\ step'.phase \in {"reading", "removed"} =>
             step.phase \in {"settling", "reading"} \/ step' = step
      /\ step'.phase = "settling" => step' = step /\ sampler' = sampler
<1>1. SamplingTypes
  BY DEF Sampling
<1>2. ASSUME Discard PROVE Fine
  <2>1. step'.phase = "refused" /\ arm' = arm /\ parts' = parts
    BY <1>2, EnterIs DEF Discard, Figures
  <2> QED
    BY <2>1
<1>3. ASSUME StartSampler PROVE Fine
  <2>1. "window" \in Phases
    BY DEF Phases
  <2>2. step'.phase \in {"opening", "window"} /\ arm' = arm /\ parts' = parts
    BY <1>1, <1>3, <2>1, NextIs DEF StartSampler, Figures, At
  <2> QED
    BY <2>2
<1>4. ASSUME Hold PROVE Fine
  <2>1. CASE Enter("stopping") /\ UNCHANGED Figures
    <3>1. step'.phase = "stopping" /\ arm' = arm /\ parts' = parts
      BY <2>1, EnterIs DEF Figures
    <3> QED
      BY <3>1
  <2> QED
    BY <1>2, <1>4, <2>1 DEF Hold
<1>5. ASSUME StopSampler PROVE Fine
  <2>1. "closed" \in Phases
    BY DEF Phases, Ends
  <2>2. step'.phase \in {"stopping", "closed"} /\ arm' = arm /\ parts' = parts
    BY <1>1, <1>5, <2>1, NextIs DEF StopSampler, Figures, At
  <2> QED
    BY <2>2
<1>6. ASSUME Settle PROVE Fine
  <2>1. CASE Enter("reading") /\ UNCHANGED Figures
    <3>1. /\ step'.phase = "reading" /\ arm' = arm /\ parts' = parts /\ step.phase = "settling"
      BY <1>6, <2>1, EnterIs DEF Settle, Figures, At
    <3> QED
      BY <3>1
  <2> QED
    BY <1>2, <1>6, <2>1 DEF Settle
<1>7. ASSUME ReadGc PROVE Fine
  <2>1. "removed" \in Phases
    BY DEF Phases, Ends
  <2>2. /\ IF step.i < Len(Order) THEN step' = [step EXCEPT !.i = @ + 1] ELSE Enter("removed")
        /\ arm' = arm /\ parts' = parts /\ step.phase = "reading"
    BY <1>7 DEF ReadGc, At
  <2>3. step'.phase \in {"reading", "removed"}
    BY <1>1, <2>1, <2>2, NextIs
  <2> QED
    BY <2>2, <2>3
<1>8. ASSUME Tick PROVE Fine
  BY <1>8 DEF Tick, Figures
<1>9. ASSUME NEW c \in Boxes, Die(c) PROVE Fine
  <2>1. step' = step /\ arm' = arm /\ parts' = parts /\ step.phase # "settling"
    BY <1>9 DEF Die, Figures
  <2> QED
    BY <2>1
<1>10. ASSUME NEW c \in Boxes, SamplerDies(c) \/ Emit(c) PROVE Fine
  <2>1. step' = step /\ arm' = arm /\ parts' = parts /\ sampler[c].on
    BY <1>10 DEF SamplerDies, Emit, Figures
  <2>2. step.phase # "settling"
    BY <2>1 DEF Sampling, Stopped, Ends
  <2> QED
    BY <2>1, <2>2
<1>11. ASSUME UNCHANGED accountingVars PROVE Fine
  BY <1>11 DEF accountingVars
<1>12. Account => Discard
  OBVIOUS
<1> HIDE DEF Fine
<1>13. Fine
  BY <1>2, <1>3, <1>4, <1>5, <1>6, <1>7, <1>8, <1>9, <1>10, <1>11, <1>12 DEF AccountingNext, Run, World
<1> QED
  BY <1>13 DEF Fine

LEMMA BilledStep ==
  ASSUME Sampling, Billed, [AccountingNext]_accountingVars PROVE Billed'
<1>1. CASE Account /\ ~Discard
  BY <1>1, AccountIs DEF Billed
<1>2. CASE Serve
  <2>1. Bill(arm') /\ arm'.cost = arm.cost /\ parts' = parts
    BY <1>2, ServeIs DEF Serve
  <2>2. Whole(arm, parts)
    BY <1>2 DEF Serve, Billed, At
  <2>3. Whole(arm', parts')
    BY <2>1, <2>2 DEF Whole
  <2> QED
    BY <2>1, <2>3 DEF Billed
<1>3. CASE ~(Account /\ ~Discard) /\ ~Serve
  <2>1. /\ arm' = arm /\ parts' = parts
        /\ step'.phase \in {"reading", "removed"} =>
             step.phase \in {"settling", "reading"} \/ step' = step
        /\ step'.phase = "settling" => step' = step
    BY <1>3, Otherwise
  <2>2. arm' # None \/ step'.phase \in {"settling", "reading", "removed"} =>
          arm # None \/ step.phase \in {"settling", "reading", "removed"}
    BY <2>1
  <2>3. Bill(arm) /\ Whole(arm, parts) => Bill(arm') /\ Whole(arm', parts')
    BY <2>1
  <2> QED
    BY <2>2, <2>3 DEF Billed
<1> QED
  BY <1>1, <1>2, <1>3

LEMMA TakenStep ==
  ASSUME Sampling, Billed, Taken, [AccountingNext]_accountingVars PROVE Taken'
<1>1. CASE Account /\ ~Discard
  <2>1. /\ sampler' = sampler
        /\ \A c \in Boxes : parts'[c] # None /\ parts'[c] = Summarise(sampler[c].lines)
        /\ arm'.peak = SimultaneousPeak([c \in Boxes |-> sampler[c].lines])
    BY <1>1, AccountIs
  <2> QED
    BY <2>1 DEF Taken
<1>2. CASE Serve
  <2>1. step'.phase = "recorded"
    BY <1>2, ServeIs
  <2> QED
    BY <2>1 DEF Taken, At
<1>3. CASE ~(Account /\ ~Discard) /\ ~Serve
  <2>1. /\ arm' = arm /\ parts' = parts
        /\ step'.phase = "settling" => step' = step /\ sampler' = sampler
    BY <1>3, Otherwise
  <2> QED
    BY <2>1 DEF Taken, At
<1> QED
  BY <1>1, <1>2, <1>3

\* What a container counts with at an edge is its latest reading of an instant.
LatestOf(s, t) ==
  LET earlier == {i \in RowsOf(s) : s[i].t <= t}
  IN IF earlier = {} THEN 0 ELSE s[Max(earlier)].anon

LEMMA HeldIsLatest ==
  ASSUME NEW r, NEW n \in Nat, NEW s, Series(s, r, n), NEW e \in Nat \ {0}, NEW t,
         t = IF e - 1 <= n THEN e - 1 ELSE n
  PROVE  t \in 0..n /\ Held(s, e) = LatestOf(s, t)
<1>1. t \in 0..n
  OBVIOUS
<1>2. {i \in RowsOf(s) : s[i].t < e} = {i \in RowsOf(s) : s[i].t <= t}
  <2>1. ASSUME NEW i \in RowsOf(s) PROVE s[i].t < e <=> s[i].t <= t
    <3>1. s[i].t \in Nat /\ s[i].t <= n
      BY RowFacts
    <3> QED
      BY <3>1
  <2> QED
    BY <2>1
<1> QED
  BY <1>1, <1>2 DEF Held, LatestOf

LEMMA PeakTaken ==
  ASSUME Sampling, Taken PROVE PeakIsOfOneInstant
<1>1. SUFFICES ASSUME At("settling") PROVE PeakIsOfOneInstant
  BY DEF PeakIsOfOneInstant
<1> DEFINE L == [c \in Boxes |-> sampler[c].lines]
<1>2. /\ \A c \in Boxes : parts[c] # None /\ parts[c] = Summarise(L[c])
      /\ arm.peak = SimultaneousPeak(L)
  BY <1>1 DEF Taken
<1>3. DOMAIN L = Boxes /\ now \in Nat /\ \A c \in Boxes : Series(L[c], Rate[c], now)
  BY DEF Sampling, SamplingTypes, Written
<1>4. \A c \in Boxes : LatestOf(sampler[c].lines, 0) = LatestOf(L[c], 0) /\ L[c] = sampler[c].lines
  OBVIOUS
<1> HIDE DEF L
<1>5. ASSUME NEW c \in Boxes
      PROVE  /\ RowsOf(L[c]) # {} /\ \E i \in RowsOf(L[c]) : L[c][i].anon = parts[c].peak
  <2>1. Rate[c] \in Nat
    BY AccountingAssumption
  <2> QED
    BY <1>2, <1>3, <2>1, Summary
<1>6. \E c \in Boxes : RowsOf(L[c]) # {}
  BY <1>5, BoxesFinite
<1>7. /\ \A c \in Boxes : \A i \in RowsOf(L[c]) : L[c][i].anon <= SimultaneousPeak(L)
      /\ \E e \in Nat \ {0} : SimultaneousPeak(L) = HeldBy(L, e)
  BY <1>3, <1>6, PeakIs
<1>8. \A c \in Boxes : parts[c].peak <= arm.peak
  BY <1>2, <1>5, <1>7
<1>9. PICK e \in Nat \ {0} : arm.peak = HeldBy(L, e)
  BY <1>2, <1>7
<1>10. PICK t : t = IF e - 1 <= now THEN e - 1 ELSE now
  OBVIOUS
<1>11. \A c \in Boxes : Held(L[c], e) = LatestOf(L[c], t)
  BY <1>3, <1>10, HeldIsLatest
<1>12. t \in 0..now
  BY <1>3, <1>10
<1>13. [c \in Boxes |-> Held(L[c], e)] = [c \in Boxes |-> LatestOf(sampler[c].lines, t)]
  BY <1>4, <1>11
<1>14. HeldBy(L, e) = SumFunctionOnSet([c \in Boxes |-> LatestOf(sampler[c].lines, t)], Boxes)
  BY <1>3, <1>13 DEF HeldBy
<1>15. e \in Int /\ HeldBy(L, e) \in Nat
  BY <1>3, HeldByIs
<1>16. arm.peak <= SumFunctionOnSet([c \in Boxes |-> LatestOf(sampler[c].lines, t)], Boxes)
  BY <1>9, <1>14, <1>15
<1> QED
  BY <1>8, <1>12, <1>16 DEF PeakIsOfOneInstant, LatestOf

-----------------------------------------------------------------------------
(* A collector's figure.                                                   *)

\* A log that is read is the whole log.
LEMMA ReadsAll ==
  ASSUME now \in Nat, NEW ps, NEW log \in LogFiles(ps), Reads(log), ps \in SUBSET Nat
  PROVE  log = FullLog(ps)
<1>1. log # {} /\ log # {Line("app", 0)} /\ log # {Line("other", 0)} /\ log # None
  BY DEF Reads, GcTagged, Line
<1>2. log # FullLog(ps) \union {Line("torn", now)}
  <2>1. SUFFICES ASSUME log = FullLog(ps) \union {Line("torn", now)} PROVE FALSE
    OBVIOUS
  <2>2. PICK l : l = Line("torn", now)
    OBVIOUS
  <2>3. l \in log
    BY <2>1, <2>2
  <2>4. l.kind = "torn"
    BY <2>2 DEF Line
  <2> QED
    BY <2>3, <2>4 DEF Reads
<1>3. PICK k \in 0..(2 * now + 2) : log = {l \in FullLog(ps) : Place(l) >= k}
  BY <1>1, <1>2 DEF LogFiles
<1>4. PICK l \in log : l.kind = "init"
  BY DEF Reads
<1>5. Place(l) = 0
  BY <1>4 DEF Place
<1>6. k = 0
  BY <1>3, <1>4, <1>5
<1>7. ASSUME NEW m \in FullLog(ps) PROVE Place(m) >= 0
  <2>1. CASE m = Line("init", 0)
    BY <2>1 DEF Line, Place
  <2>2. CASE \E t \in ps : m = Line("start", t)
    BY <2>2 DEF Line, Place
  <2>3. CASE \E t \in ps : m = Line("pause", t)
    BY <2>3 DEF Line, Place
  <2> QED
    BY <2>1, <2>2, <2>3 DEF FullLog
<1> QED
  BY <1>3, <1>6, <1>7

LEMMA FigureCounts ==
  ASSUME now \in Nat, NEW ps, IsFiniteSet(ps), ps \in SUBSET Nat, NEW log \in LogFiles(ps), NEW w,
         GcFigure(log, w) # None
  PROVE  GcFigure(log, w) = Cardinality({t \in ps : t < w})
<1>1. Reads(log)
  BY DEF GcFigure
<1>2. log = FullLog(ps)
  BY <1>1, ReadsAll
<1> DEFINE P == {l \in GcTagged(log) : l.kind = "pause" /\ l.t < w}
           Q == {t \in ps : t < w}
           f == [t \in Q |-> Line("pause", t)]
<1>3. ASSUME NEW t \in Q PROVE f[t] \in P
  <2>1. PICK l : l = Line("pause", t)
    OBVIOUS
  <2>2. l \in log
    BY <1>2, <2>1 DEF FullLog
  <2>3. l.kind = "pause" /\ l.t = t
    BY <2>1 DEF Line
  <2> QED
    BY <2>1, <2>2, <2>3 DEF GcTagged
<1>4. \A t, u \in Q : f[t] = f[u] => t = u
  BY DEF Line
<1>5. ASSUME NEW l \in P PROVE \E t \in Q : f[t] = l
  <2>1. l \in FullLog(ps) /\ l.kind = "pause" /\ l.t < w
    BY <1>2 DEF GcTagged
  <2>2. PICK t \in ps : l = Line("pause", t)
    BY <2>1 DEF FullLog, Line
  <2>3. l.t = t
    BY <2>2 DEF Line
  <2> QED
    BY <2>1, <2>2, <2>3
<1>6. IsFiniteSet(Q)
  BY FS_Subset
<1>7. GcFigure(log, w) = Cardinality(P)
  BY <1>1 DEF GcFigure
<1> HIDE DEF P, Q
<1>8. f \in Bijection(Q, P)
  BY <1>3, <1>4, <1>5 DEF Bijection, Injection, Surjection, IsInjective
<1> HIDE DEF f
<1>9. Cardinality(P) = Cardinality(Q)
  BY <1>6, <1>8, FS_Bijection DEF ExistsBijection
<1> QED
  BY <1>7, <1>9 DEF Q

LEMMA UpToFinite ==
  ASSUME NEW n \in Nat, NEW S, NEW T \in UpTo(n, S)
  PROVE  IsFiniteSet(T) /\ T \in SUBSET S
<1>1. CASE T = {}
  BY <1>1, FS_EmptySet
<1>2. CASE \E f \in [1..n -> S] : T = Range(f)
  <2>1. PICK f \in [1..n -> S] : T = Range(f)
    BY <1>2
  <2>2. f \in Surjection(1..n, T) /\ T \in SUBSET S
    BY <2>1 DEF Surjection, Range
  <2>3. IsFiniteSet(1..n)
    BY FS_Interval
  <2> QED
    BY <2>2, <2>3, FS_Surjection
<1> QED
  BY <1>1, <1>2 DEF UpTo

Counted == DOMAIN gc = Boxes /\ DOMAIN pauses = Boxes /\ GcIsOfItsWindow

\* Only read_gc takes a collector's figure, and only the server's is about inserts.
LEMMA FiguresStill ==
  ASSUME [AccountingNext]_accountingVars
  PROVE  /\ ~ReadGc => gc' = gc /\ pauses' = pauses
         /\ ~Serve => inserts' = inserts
<1> DEFINE Still ==
      /\ ~ReadGc => gc' = gc /\ pauses' = pauses
      /\ ~Serve => inserts' = inserts
<1>1. ASSUME Discard PROVE Still
  BY <1>1 DEF Discard, Figures
<1>2. ASSUME StartSampler PROVE Still
  BY <1>2 DEF StartSampler, Figures
<1>3. ASSUME Hold PROVE Still
  <2>1. Discard \/ UNCHANGED Figures
    BY <1>3 DEF Hold
  <2> QED
    BY <1>1, <2>1 DEF Figures
<1>4. ASSUME StopSampler PROVE Still
  BY <1>4 DEF StopSampler, Figures
<1>5. ASSUME Account PROVE Still
  <2>1. Discard \/ UNCHANGED <<gc, pauses, inserts>>
    BY <1>5 DEF Account
  <2> QED
    BY <1>1, <2>1
<1>6. ASSUME Settle PROVE Still
  <2>1. Discard \/ UNCHANGED Figures
    BY <1>6 DEF Settle
  <2> QED
    BY <1>1, <2>1 DEF Figures
<1>7. ASSUME ReadGc PROVE Still
  BY <1>7 DEF ReadGc
<1>8. ASSUME Serve PROVE Still
  BY <1>8 DEF Serve
<1>9. ASSUME Tick PROVE Still
  BY <1>9 DEF Tick, Figures
<1>10. ASSUME NEW c \in Boxes, Die(c) PROVE Still
  BY <1>10 DEF Die, Figures
<1>11. ASSUME NEW c \in Boxes, SamplerDies(c) PROVE Still
  BY <1>11 DEF SamplerDies, Figures
<1>12. ASSUME NEW c \in Boxes, Emit(c) PROVE Still
  BY <1>12 DEF Emit, Figures
<1>13. ASSUME UNCHANGED accountingVars PROVE Still
  BY <1>13 DEF accountingVars
<1> HIDE DEF Still
<1>14. Still
  BY <1>2, <1>3, <1>4, <1>5, <1>6, <1>7, <1>8, <1>9, <1>10, <1>11, <1>12, <1>13
  DEF AccountingNext, Run, World
<1> QED
  BY <1>14 DEF Still

\* What read_gc makes of the log of one container.
GcRead(d) ==
  \E ps \in UpTo(MaxPauses, 0..now), home \in BOOLEAN : \E log \in LogFiles(ps) :
    LET w == parts[d].to - parts[d].from
    IN /\ gc' = [gc EXCEPT ![d] = GcFigure(log, w)]
       /\ pauses' = [pauses EXCEPT ![d] = IF gc'[d] = None THEN 0
                                         ELSE IF ~home THEN None
                                         ELSE Cardinality({t \in ps : t < w})]

LEMMA CountedStep ==
  ASSUME Sampling, Counted, [AccountingNext]_accountingVars PROVE Counted'
<1>1. CASE ReadGc
  <2>1. PICK d : d = Order[step.i]
    OBVIOUS
  <2>2. now \in Nat /\ d \in Boxes
    BY <2>1, OrderIs DEF Sampling, SamplingTypes
  <2>3. CASE UNCHANGED <<gc, pauses>>
    BY <2>3 DEF Counted, GcIsOfItsWindow
  <2>4. CASE GcRead(d)
    <3>0. PICK w : w = parts[d].to - parts[d].from
      OBVIOUS
    <3>1. PICK ps \in UpTo(MaxPauses, 0..now), home \in BOOLEAN : \E log \in LogFiles(ps) :
            /\ gc' = [gc EXCEPT ![d] = GcFigure(log, w)]
            /\ pauses' = [pauses EXCEPT ![d] = IF gc'[d] = None THEN 0
                                              ELSE IF ~home THEN None
                                              ELSE Cardinality({t \in ps : t < w})]
      BY <2>4, <3>0 DEF GcRead
    <3>6. PICK log \in LogFiles(ps) :
            /\ gc' = [gc EXCEPT ![d] = GcFigure(log, w)]
            /\ pauses' = [pauses EXCEPT ![d] = IF gc'[d] = None THEN 0
                                              ELSE IF ~home THEN None
                                              ELSE Cardinality({t \in ps : t < w})]
      BY <3>1
    <3>2. IsFiniteSet(ps) /\ ps \in SUBSET Nat
      <4>1. MaxPauses \in Nat
        BY AccountingAssumption
      <4>2. IsFiniteSet(ps) /\ ps \in SUBSET (0..now)
        BY <4>1, UpToFinite
      <4> QED
        BY <2>2, <4>2
    <3>3. /\ gc'[d] = GcFigure(log, w)
          /\ gc'[d] # None /\ pauses'[d] # None => pauses'[d] = Cardinality({t \in ps : t < w})
      BY <2>2, <3>6 DEF Counted
    <3>4. gc'[d] # None /\ pauses'[d] # None => gc'[d] = pauses'[d]
      BY <2>2, <3>2, <3>3, FigureCounts
    <3>5. /\ DOMAIN gc' = Boxes /\ DOMAIN pauses' = Boxes
          /\ \A c \in Boxes : c # d => gc'[c] = gc[c] /\ pauses'[c] = pauses[c]
      BY <2>2, <3>6 DEF Counted
    <3> QED
      BY <3>4, <3>5 DEF Counted, GcIsOfItsWindow
  <2>5. UNCHANGED <<gc, pauses>> \/ GcRead(Order[step.i])
    BY <1>1 DEF ReadGc, GcRead
  <2> QED
    BY <2>1, <2>3, <2>4, <2>5
<1>2. CASE ~ReadGc
  <2>1. gc' = gc /\ pauses' = pauses
    BY <1>2, FiguresStill
  <2> QED
    BY <2>1 DEF Counted, GcIsOfItsWindow
<1> QED
  BY <1>1, <1>2

-----------------------------------------------------------------------------
(* The server's figure.                                                    *)

IsTheArms(server, all, span) ==
  LET mine == {ins \in all : /\ span.from <= ins.at /\ ins.at < span.to
                             /\ ins.kind \notin {"failed", "running"}}
      told == {ins \in mine : ins.kind # "silent"}
  IN /\ server.queries = Cardinality(mine)
     /\ server.cpu = SumFunctionOnSet([ins \in told |-> Cpu(ins.kind)], told)
     /\ told # {} /\ \A ins \in mine : ins.kind # "buffered"

\* Attributed leaves one execution of an insert, whichever it is.
LEMMA OneExecution ==
  ASSUME NEW all, IsFiniteSet(all), NEW route \in Routes, NEW forwarded \in BOOLEAN, NEW span,
         NEW server, server = ServerFigure(Attributed(QueryLog(all, route), span, forwarded)),
         server # None
  PROVE  IsTheArms(server, all, span)
<1>0. PICK first : first = ~forwarded
  OBVIOUS
<1> DEFINE rows == Attributed(QueryLog(all, route), span, forwarded)
           finished == {q \in rows : q.ins.kind \notin {"failed", "running"}}
           said == {q \in finished : q.ins.kind # "silent"}
           f == [q \in said |-> Cpu(q.ins.kind)]
           mine == {ins \in all : /\ span.from <= ins.at /\ ins.at < span.to
                                  /\ ins.kind \notin {"failed", "running"}}
           told == {ins \in mine : ins.kind # "silent"}
           h == [ins \in told |-> Cpu(ins.kind)]
           Execution(ins) == [initial |-> first, ins |-> ins]
<1>1. /\ said # {} /\ \A q \in finished : q.ins.kind # "buffered"
      /\ server = [queries |-> Cardinality(finished), cpu |-> SumFunctionOnSet(f, said)]
  BY DEF ServerFigure
<1>2. \A q : q \in rows <=> /\ q \in [initial : Initials(route), ins : all] /\ q.initial = first
                            /\ span.from <= q.ins.at /\ q.ins.at < span.to
  BY <1>0 DEF Attributed, QueryLog
<1>3. first \in Initials(route)
  <2>1. PICK q : q \in rows
    BY <1>1
  <2>2. q \in [initial : Initials(route), ins : all] /\ q.initial = first
    BY <1>2, <2>1
  <2> QED
    BY <2>2
<1> HIDE DEF rows
<1>4. ASSUME NEW q \in finished PROVE q.ins \in mine /\ q = Execution(q.ins)
  <2>1. /\ q \in [initial : Initials(route), ins : all] /\ q.initial = first
        /\ span.from <= q.ins.at /\ q.ins.at < span.to
    BY <1>2
  <2>2. q = [initial |-> q.initial, ins |-> q.ins] /\ q.ins \in all
    BY <2>1
  <2> QED
    BY <2>1, <2>2
<1>5. ASSUME NEW ins \in mine PROVE Execution(ins) \in finished /\ Execution(ins).ins = ins
  <2>1. PICK q : q = Execution(ins)
    OBVIOUS
  <2>2. q \in [initial : Initials(route), ins : all] /\ q.initial = first /\ q.ins = ins
    BY <1>3, <2>1
  <2>3. q \in rows
    BY <1>2, <2>2
  <2> QED
    BY <2>1, <2>2, <2>3
<1>6. IsFiniteSet(mine) /\ IsFiniteSet(told)
  BY FS_Subset
<1> HIDE DEF mine, finished
<1>7. Cardinality(finished) = Cardinality(mine)
  <2> DEFINE b == [ins \in mine |-> Execution(ins)]
  <2>1. b \in [mine -> finished]
    BY <1>5
  <2>2. \A x, y \in mine : b[x] = b[y] => x = y
    BY <1>5
  <2>3. \A q \in finished : \E x \in mine : b[x] = q
    BY <1>4
  <2> HIDE DEF b, Execution
  <2>4. b \in Bijection(mine, finished)
    BY <2>1, <2>2, <2>3 DEF Bijection, Injection, Surjection, IsInjective
  <2> QED
    BY <1>6, <2>4, FS_Bijection DEF ExistsBijection
<1>8. /\ SumFunctionOnSet(f, said) = SumFunctionOnSet(h, told)
      /\ told # {}
  <2> DEFINE b == [ins \in told |-> Execution(ins)]
  <2>1. \A ins \in told : b[ins] \in said /\ b[ins].ins = ins
    BY <1>5
  <2>2. \A x, y \in told : b[x] = b[y] => x = y
    BY <2>1
  <2>3. \A q \in said : q.ins \in told /\ b[q.ins] = q
    BY <1>4
  <2>4. \A x \in told : h[x] \in Nat /\ f[b[x]] = h[x]
    BY <2>1 DEF Cpu
  <2>5. b \in [told -> said]
    BY <2>1
  <2>6. told # {}
    BY <1>1, <2>3
  <2> HIDE DEF b, f, h, told, said, Execution
  <2>7. SumFunctionOnSet(f, said) = SumFunctionOnSet(h, told)
    BY <1>6, <2>2, <2>3, <2>4, <2>5, SumRenamed
  <2> QED
    BY <2>6, <2>7
<1>9. \A ins \in mine : ins.kind # "buffered"
  BY <1>1, <1>5
<1>10. server.queries = Cardinality(mine) /\ server.cpu = SumFunctionOnSet(h, told)
  BY <1>1, <1>7, <1>8
<1> QED
  BY <1>8, <1>9, <1>10 DEF IsTheArms, mine

LEMMA ServerStep ==
  ASSUME Sampling, Billed, ServerFigureIsTheArms, [AccountingNext]_accountingVars
  PROVE  ServerFigureIsTheArms'
<1>0. /\ ServerFigureIsTheArms <=>
           (arm # None /\ arm.server # None => IsTheArms(arm.server, inserts, arm.span))
      /\ ServerFigureIsTheArms' <=>
           (arm' # None /\ arm'.server # None => IsTheArms(arm'.server, inserts', arm'.span))
  BY DEF ServerFigureIsTheArms, IsTheArms
<1>1. CASE Account /\ ~Discard
  BY <1>0, <1>1, AccountIs
<1>2. CASE Serve
  <2>1. CASE arm' = arm /\ inserts' = inserts
    BY <1>0, <2>1
  <2>2. CASE \E all \in UpTo(MaxInserts, InsertsAround(arm.span)),
                route \in Routes, forwarded \in BOOLEAN :
               /\ arm'.server = ServerFigure(Attributed(QueryLog(all, route), arm.span, forwarded))
               /\ arm'.server # None /\ inserts' = all
    <3>1. PICK all \in UpTo(MaxInserts, InsertsAround(arm.span)),
               route \in Routes, forwarded \in BOOLEAN :
            /\ arm'.server = ServerFigure(Attributed(QueryLog(all, route), arm.span, forwarded))
            /\ arm'.server # None /\ inserts' = all
      BY <2>2
    <3>2. MaxInserts \in Nat
      BY AccountingAssumption
    <3>3. IsFiniteSet(all)
      BY <3>2, UpToFinite
    <3>4. PICK server, span : server = arm'.server /\ span = arm.span
      OBVIOUS
    <3>5. IsTheArms(server, all, span)
      BY <3>1, <3>3, <3>4, OneExecution
    <3>6. arm'.span = span
      BY <1>2, <3>4, ServeIs
    <3> QED
      BY <1>0, <3>1, <3>4, <3>5, <3>6
  <2> QED
    BY <1>2, <2>1, <2>2, ServeIs
<1>3. CASE ~(Account /\ ~Discard) /\ ~Serve
  <2>1. arm' = arm
    BY <1>3, Otherwise
  <2>2. inserts' = inserts
    BY <1>3, FiguresStill
  <2> QED
    BY <1>0, <2>1, <2>2
<1> QED
  BY <1>1, <1>2, <1>3

-----------------------------------------------------------------------------
(* The inductive invariant: the series, the bill and what it was made of.  *)

AccountingInv == Sampling /\ Billed /\ Taken /\ Counted /\ ServerFigureIsTheArms

LEMMA AccountingInvHolds == AccountingSpec => []AccountingInv
<1>1. AccountingInit => AccountingInv
  <2>1. SUFFICES ASSUME AccountingInit PROVE AccountingInv
    OBVIOUS
  <2>2. Sampling
    BY <2>1, SamplingInit
  <2>3. arm = None /\ step.phase = "opening"
    BY <2>1 DEF AccountingInit
  <2>4. Counted
    BY <2>1 DEF AccountingInit, Counted, GcIsOfItsWindow
  <2>5. Billed /\ Taken /\ ServerFigureIsTheArms
    BY <2>3 DEF Billed, Taken, At, ServerFigureIsTheArms
  <2> QED
    BY <2>2, <2>4, <2>5 DEF AccountingInv
<1>2. AccountingInv /\ [AccountingNext]_accountingVars => AccountingInv'
  BY SamplingStep, BilledStep, TakenStep, CountedStep, ServerStep DEF AccountingInv
<1> QED
  BY <1>1, <1>2, PTL DEF AccountingSpec

\* SutCost::sum and Sample::readable: an arm that has a cost was charged, for every one
\* of its containers, what that container burned between its first and last readable
\* row, whatever rows were lost, unreadable or never written.
THEOREM WholeCharged == AccountingSpec => []WholeArmIsCharged
<1>1. AccountingInv => WholeArmIsCharged
  BY DEF AccountingInv, Billed, Whole, WholeArmIsCharged
<1> QED
  BY <1>1, AccountingInvHolds, PTL

\* simultaneous_peak_anon: the footprint of an arm is what its containers' latest readings
\* came to at one instant, and no container's own peak exceeds it, for any skew between
\* their rows and any sampling interval.
THEOREM PeakOfOneInstant == AccountingSpec => []PeakIsOfOneInstant
<1>1. AccountingInv => PeakIsOfOneInstant
  BY PeakTaken DEF AccountingInv
<1> QED
  BY <1>1, AccountingInvHolds, PTL

\* read_gc: a collector's figure counts every pause of its window, for any history of
\* pauses and whatever became of the log, as long as gc_log names the log of the container's
\* own JVM; else there is none.
THEOREM GcOfItsWindow == AccountingSpec => []GcIsOfItsWindow
<1>1. AccountingInv => GcIsOfItsWindow
  BY DEF AccountingInv, Counted
<1> QED
  BY <1>1, AccountingInvHolds, PTL

\* attribution_sql and serverside::summarise: a published server-side figure counts each
\* of the arm's inserts that started in its window and has finished when the log is read
\* once, whatever their number and way to the server and whether the descriptor says that
\* the arm forwards or not, and none that the server marks as buffered. An insert that was
\* buffered without the mark is among them.
THEOREM ServerFigureOfTheArm == AccountingSpec => []ServerFigureIsTheArms
<1>1. AccountingInv => ServerFigureIsTheArms
  BY DEF AccountingInv
<1> QED
  BY <1>1, AccountingInvHolds, PTL

=============================================================================
