------------------------------- MODULE Sweep --------------------------------
(***************************************************************************)
(* One host's sweeps (`run`, `measure` and `run_arm` of                    *)
(* src/harness/src/driver.rs): the interleaved loop over repetitions and   *)
(* arms, and for each repetition the order in which the arm's ClickHouse   *)
(* objects, the shared table, the arm's containers and the record are      *)
(* touched, with every early return, every panic and the two drop guards.  *)
(*                                                                         *)
(* Driver processes run one after another (ArmLock), any of them may be    *)
(* killed at any step, and `docker rm -f` and teardown SQL may fail.       *)
(***************************************************************************)
EXTENDS Naturals, Sequences

CONSTANTS
  Arms,        \* the arms a selector can name
  SqlArms,     \* those that declare arm_sql and arm_teardown_sql
  Name,        \* the name of each arm's containers; two arms may share it
  Selections,  \* the arm lists an invocation can be given
  Reps,        \* --reps
  FailFast,    \* --fail-fast
  MaxRuns,     \* bound: invocations in a behaviour
  MaxKills,    \* bound: driver processes killed
  MaxFaults,   \* bound: teardowns and container removals that fail
  NoArm, NoRecord

ASSUME SweepAssumption ==
  /\ SqlArms \subseteq Arms
  /\ NoArm \notin Arms
  /\ Selections \subseteq Seq(Arms) \ {<<>>}
  /\ Reps \in Nat \ {0}
  /\ FailFast \in BOOLEAN
  /\ MaxRuns \in Nat /\ MaxKills \in Nat /\ MaxFaults \in Nat

VARIABLES
  pc,          \* the next step of the driver process; "idle" when there is none
  sweep, rep, idx,   \* the invocation's arms, and the loop's position
  attempt,     \* numbers the repetitions of all invocations
  armed,       \* ArmObjects: its drop will run the teardown
  registered,  \* ArmContainers: its drop will stop the containers
  panicking,   \* this unwind is a panic: it ends in the process, not in `measure`
  status,      \* the status the repetition's record will carry
  seen,        \* the repetitions whose rows the correctness gate read
  objects,     \* the arms whose objects exist in ClickHouse
  containers,  \* the containers that are up
  table,       \* the repetitions that have rows in the target table
  last,        \* the last record appended to the results
  kills, faults, runs,
  \* History, for the properties only:
  owed,        \* the arm has been identified and not been recorded
  leaked,      \* objects a kill or a failed teardown has left behind
  strays,      \* containers a kill or a failed removal has left behind
  tainted      \* there were strays when this repetition truncated the table

loop == <<sweep, rep, idx, attempt, runs>>
guards == <<armed, registered>>
world == <<objects, containers, table>>
left == <<leaked, strays>>
budget == <<kills, faults>>
vars == <<pc, loop, guards, panicking, status, seen, world, last, budget,
          owed, left, tainted>>

Stages == {"idle", "identify", "pin", "guard", "defensive", "truncate", "create",
           "specs", "start", "window", "caps", "quiesce", "stop", "evaluate",
           "gate", "finish", "dropContainers", "dropObjects", "append"}

\* The stages at which the table is the repetition's own.
Truncated == {"create", "specs", "start", "window", "caps", "quiesce", "stop",
              "evaluate", "gate"}

Statuses == {"Ok", "InfraBound", "Failed"}
CarriesMetrics(s) == s \in {"Ok", "InfraBound"}

Containers == [arm : Arms, attempt : Nat]
Records == [arm : Arms, attempt : Nat, status : Statuses, rows : SUBSET Nat,
            tainted : BOOLEAN]

cur == IF pc = "idle" THEN NoArm ELSE sweep[idx]
own == [arm |-> cur, attempt |-> attempt]

Init ==
  /\ pc = "idle"
  /\ sweep = <<>> /\ rep = 0 /\ idx = 0 /\ attempt = 0
  /\ armed = FALSE /\ registered = FALSE
  /\ panicking = FALSE /\ status = "Ok" /\ seen = {}
  /\ objects = {} /\ containers = {} /\ table = {}
  /\ last = NoRecord
  /\ kills = 0 /\ faults = 0 /\ runs = 0
  /\ owed = FALSE /\ leaked = {} /\ strays = {} /\ tainted = FALSE

-----------------------------------------------------------------------------
(* Control.                                                                *)

Goto(from, to) == pc = from /\ pc' = to

\* Mutant: the objects' guard is declared after the containers'.
UnwindObjectsFirst(from, panic) ==
  /\ Goto(from, "dropObjects")
  /\ panicking' = panic
  /\ status' = "Failed"

\* `?`, an explicit Err or a panic: the guards drop in reverse order of their
\* declaration, containers before objects.
Unwind(from, panic) ==
  /\ Goto(from, "dropContainers")
  /\ panicking' = panic
  /\ status' = "Failed"

\* A step that only decides whether the repetition goes on.
Pass(from, to) ==
  /\ Goto(from, to)
  /\ UNCHANGED <<loop, guards, panicking, status, seen, world, last, budget,
                 owed, left, tainted>>

Refuse(from) ==
  /\ Unwind(from, FALSE)
  /\ UNCHANGED <<loop, guards, seen, world, last, budget, owed, left, tainted>>

Panic(from) ==
  /\ Unwind(from, TRUE)
  /\ UNCHANGED <<loop, guards, seen, world, last, budget, owed, left, tainted>>

\* `for rep in 1..=reps { for arm in arms`: the next arm of this repetition,
\* the first of the next, or the end; --fail-fast ends it at a refusal.
EndTurn(refused) ==
  IF (FailFast /\ refused) \/ (idx = Len(sweep) /\ rep = Reps)
    THEN /\ pc' = "idle"
         /\ UNCHANGED loop
    ELSE /\ pc' = "identify"
         /\ attempt' = attempt + 1
         /\ IF idx < Len(sweep) THEN idx' = idx + 1 /\ rep' = rep
                                ELSE idx' = 1 /\ rep' = rep + 1
         /\ UNCHANGED <<sweep, runs>>

\* An invocation has taken the lock, reused or brought up the infrastructure
\* and found the load source in order. Nothing of an earlier one is cleaned.
Launch(sel) ==
  /\ Goto("idle", "identify")
  /\ runs < MaxRuns
  /\ runs' = runs + 1
  /\ sweep' = sel /\ rep' = 1 /\ idx' = 1 /\ attempt' = attempt + 1
  /\ panicking' = FALSE /\ owed' = FALSE /\ seen' = {}
  /\ UNCHANGED <<guards, status, world, last, budget, left, tainted>>

\* SIGKILL or a lost host: no destructor runs, what is up stays up.
Kill ==
  /\ pc # "idle"
  /\ kills < MaxKills
  /\ pc' = "idle"
  /\ kills' = kills + 1
  /\ armed' = FALSE /\ registered' = FALSE /\ owed' = FALSE
  /\ leaked' = objects
  /\ strays' = containers
  /\ UNCHANGED <<loop, panicking, status, seen, world, last, faults, tainted>>

-----------------------------------------------------------------------------
(* `measure`, as far as the arm is identified.                             *)

\* No image, or a digest or version that cannot be read, is refused without a
\* record: nothing says yet what the record would be about.
Identify ==
  \/ /\ Goto("identify", "pin")
     /\ owed' = TRUE
     /\ seen' = {} /\ tainted' = FALSE
     /\ UNCHANGED <<loop, guards, panicking, status, world, last, budget, left>>
  \/ /\ pc = "identify"
     /\ EndTurn(TRUE)
     /\ UNCHANGED <<guards, panicking, status, seen, world, last, budget, owed,
                    left, tainted>>

\* Mutant: a version that is not the pinned one returns from `measure`.
PinReturnsEarly ==
  \/ Pass("pin", "guard")
  \/ /\ pc = "pin"
     /\ EndTurn(TRUE)
     /\ UNCHANGED <<guards, panicking, status, seen, world, last, budget, owed,
                    left, tainted>>

assert_pinned_version == Pass("pin", "guard") \/ Refuse("pin")

-----------------------------------------------------------------------------
(* ArmObjects and the shared table.                                        *)

\* The guard exists when the arm declares teardown SQL and its file is read.
ArmObjectsNew ==
  \/ /\ cur \notin SqlArms
     /\ Pass("guard", "truncate")
  \/ /\ cur \in SqlArms
     /\ Goto("guard", "defensive")
     /\ armed' = TRUE
     /\ UNCHANGED <<loop, registered, panicking, status, seen, world, last,
                    budget, owed, left, tainted>>
  \/ /\ cur \in SqlArms
     /\ Refuse("guard")

\* The arm's teardown statements have run...
TornDown ==
  /\ objects' = objects \ {cur}
  /\ leaked' = leaked \ {cur}
  /\ UNCHANGED faults

\* ...or ClickHouse refused one of them.
TeardownFails ==
  /\ faults < MaxFaults
  /\ faults' = faults + 1
  /\ leaked' = leaked \union (objects \intersect {cur})
  /\ UNCHANGED objects

DefensiveTeardown ==
  \/ /\ Goto("defensive", "truncate")
     /\ TornDown
     /\ UNCHANGED <<loop, guards, panicking, status, seen, containers, table,
                    last, kills, owed, strays, tainted>>
  \/ /\ Unwind("defensive", FALSE)
     /\ TeardownFails
     /\ UNCHANGED <<loop, guards, seen, containers, table, last, kills, owed,
                    strays, tainted>>

\* Mutant: the table is kept.
TruncateSkipped ==
  /\ Goto("truncate", IF cur \in SqlArms THEN "create" ELSE "specs")
  /\ tainted' = (strays # {})
  /\ UNCHANGED <<loop, guards, panicking, status, seen, world, last, budget, owed,
                 left>>

\* Through the asserting clickhouse_sql: an I/O error is an Err, an exception
\* of the server a panic.
Truncate ==
  \/ /\ Goto("truncate", IF cur \in SqlArms THEN "create" ELSE "specs")
     /\ table' = {}
     /\ tainted' = (strays # {})
     /\ UNCHANGED <<loop, guards, panicking, status, seen, objects, containers,
                    last, budget, owed, left>>
  \/ Refuse("truncate")
  \/ Panic("truncate")

\* A failing file may have created part of the arm's objects.
CreateObjects ==
  \/ /\ Goto("create", "specs")
     /\ objects' = objects \union {cur}
     /\ UNCHANGED <<loop, guards, panicking, status, seen, containers, table,
                    last, budget, owed, left, tainted>>
  \/ /\ Unwind("create", FALSE)
     /\ objects' \in {objects, objects \union {cur}}
     /\ UNCHANGED <<loop, guards, seen, containers, table, last, budget, owed,
                    left, tainted>>

build_specs == Pass("specs", "start") \/ Refuse("specs")

-----------------------------------------------------------------------------
(* The arm's containers and the window.                                    *)

Replaced == {c \in containers : Name[c.arm] = Name[cur]}

\* The names are registered first; then each start removes what has its name.
\* A missing image or a rejected `docker run` panics, with the container set
\* anywhere in between.
StartArm ==
  /\ registered' = TRUE
  /\ \/ /\ Goto("start", "window")
        /\ containers' = (containers \ Replaced) \union {own}
        /\ UNCHANGED <<panicking, status>>
     \/ /\ Unwind("start", TRUE)
        /\ containers' \in {containers, containers \ Replaced,
                            (containers \ Replaced) \union {own}}
  /\ strays' = strays \intersect containers'
  /\ UNCHANGED <<loop, armed, seen, objects, table, last, budget, owed, leaked,
                 tainted>>

\* An arm lands rows as long as its containers are up, whoever started them.
\* An arm with objects of its own inserts into its landing table, and only
\* its materialized view carries the rows on.
Land(c) ==
  /\ c.arm \in SqlArms => c.arm \in objects
  /\ table' = table \union {c.attempt}
  /\ UNCHANGED <<pc, loop, guards, panicking, status, seen, objects, containers,
                 last, budget, owed, left, tainted>>

\* Opening, holding and closing the window, the checks on its samples and the
\* wait for the frontier: Window.tla has the loops.
HoldWindow == Pass("window", "caps") \/ Refuse("window") \/ Panic("window")
CheckCosts == Pass("caps", "quiesce") \/ Refuse("caps")
Quiesce == Pass("quiesce", "stop") \/ Refuse("quiesce") \/ Panic("quiesce")

\* ArmContainers::stop takes the names, so it acts once, and ignores a
\* `docker rm -f` that fails.
StopContainers ==
  /\ registered' = FALSE
  /\ \/ /\ registered
        /\ containers' = containers \ {own}
        /\ strays' = strays \ {own}
        /\ UNCHANGED faults
     \/ /\ registered
        /\ faults < MaxFaults
        /\ faults' = faults + 1
        /\ strays' = strays \union (containers \intersect {own})
        /\ UNCHANGED containers
     \/ /\ ~registered
        /\ UNCHANGED <<containers, strays, faults>>

Stop ==
  /\ Goto("stop", "evaluate")
  /\ StopContainers
  /\ UNCHANGED <<loop, armed, panicking, status, seen, objects, table, last, kills,
                 owed, leaked, tainted>>

-----------------------------------------------------------------------------
(* After the containers: the figures, the gate, the teardown, the record.  *)

Evaluate ==
  \/ /\ Goto("evaluate", "gate")
     /\ status' \in {"Ok", "InfraBound"}
     /\ UNCHANGED <<loop, guards, panicking, seen, world, last, budget, owed, left,
                    tainted>>
  \/ Refuse("evaluate")
  \/ Panic("evaluate")

\* The gate needs rows to pass and may refuse any that it finds.
RunGates ==
  \/ /\ Goto("gate", IF cur \in SqlArms THEN "finish" ELSE "append")
     /\ table # {}
     /\ seen' = table
     /\ UNCHANGED <<loop, guards, panicking, status, world, last, budget, owed, left,
                    tainted>>
  \/ Refuse("gate")
  \/ Panic("gate")

\* Mutant: the result of the teardown is dropped.
FinishIgnoresError ==
  /\ armed' = FALSE
  /\ Goto("finish", "append")
  /\ TornDown \/ TeardownFails
  /\ UNCHANGED <<loop, registered, panicking, status, seen, containers, table, last,
                 kills, owed, strays, tainted>>

\* ArmObjects::finish disarms first: a failure is reported, not retried.
Finish ==
  /\ armed' = FALSE
  /\ \/ /\ Goto("finish", "append")
        /\ TornDown
        /\ UNCHANGED <<panicking, status>>
     \/ /\ Unwind("finish", FALSE)
        /\ TeardownFails
  /\ UNCHANGED <<loop, registered, seen, containers, table, last, kills, owed,
                 strays, tainted>>

\* Drop for ArmContainers.
DropContainers ==
  /\ Goto("dropContainers", "dropObjects")
  /\ StopContainers
  /\ UNCHANGED <<loop, armed, panicking, status, seen, objects, table, last, kills,
                 owed, leaked, tainted>>

\* Mutant: the backstop does not run during a panic.
DropObjectsNotInPanic ==
  /\ Goto("dropObjects", IF panicking THEN "idle" ELSE "append")
  /\ armed' = FALSE
  /\ \/ armed /\ ~panicking /\ TornDown
     \/ armed /\ ~panicking /\ TeardownFails
     \/ (armed => panicking) /\ UNCHANGED <<objects, leaked, faults>>
  /\ UNCHANGED <<loop, registered, panicking, status, seen, containers, table,
                 last, kills, owed, strays, tainted>>

\* Drop for ArmObjects, and the end of the unwind: an Err has reached
\* `measure`, a panic has ended the process.
DropObjects ==
  /\ Goto("dropObjects", IF panicking THEN "idle" ELSE "append")
  /\ armed' = FALSE
  /\ \/ armed /\ TornDown
     \/ armed /\ TeardownFails
     \/ ~armed /\ UNCHANGED <<objects, leaked, faults>>
  /\ UNCHANGED <<loop, registered, panicking, status, seen, containers, table,
                 last, kills, owed, strays, tainted>>

\* results::append, once per identified repetition; if it fails the
\* repetition becomes an unrecorded refusal.
AppendRecord ==
  /\ pc = "append"
  /\ \/ /\ last' = [arm |-> cur, attempt |-> attempt, status |-> status,
                    rows |-> seen, tainted |-> tainted]
        /\ EndTurn(status = "Failed")
     \/ /\ UNCHANGED last
        /\ EndTurn(TRUE)
  /\ owed' = FALSE
  /\ UNCHANGED <<guards, panicking, status, seen, world, budget, left, tainted>>

-----------------------------------------------------------------------------
Driver ==
  \/ Identify \/ assert_pinned_version \/ ArmObjectsNew \/ DefensiveTeardown
  \/ Truncate \/ CreateObjects \/ build_specs \/ StartArm \/ HoldWindow
  \/ CheckCosts \/ Quiesce \/ Stop \/ Evaluate \/ RunGates \/ Finish
  \/ DropContainers \/ DropObjects \/ AppendRecord

Next ==
  \/ \E sel \in Selections : Launch(sel)
  \/ Driver
  \/ Kill
  \/ \E c \in containers : Land(c)

Spec == Init /\ [][Next]_vars

-----------------------------------------------------------------------------
LoopOK ==
  /\ sweep \in Seq(Arms) /\ rep \in 0..Reps /\ idx \in Nat /\ attempt \in Nat
  /\ runs \in 0..MaxRuns
  /\ pc # "idle" => idx \in 1..Len(sweep)

FlagsOK ==
  /\ pc \in Stages
  /\ armed \in BOOLEAN /\ registered \in BOOLEAN /\ panicking \in BOOLEAN
  /\ owed \in BOOLEAN /\ tainted \in BOOLEAN
  /\ status \in Statuses

WorldOK ==
  /\ objects \subseteq Arms /\ leaked \subseteq Arms
  /\ containers \subseteq Containers /\ strays \subseteq Containers
  /\ table \subseteq Nat /\ seen \subseteq Nat
  /\ last \in Records \union {NoRecord}

BudgetOK == kills \in 0..MaxKills /\ faults \in 0..MaxFaults

TypeOK == LoopOK /\ FlagsOK /\ WorldOK /\ BudgetOK

\* An arm's objects exist only inside its own repetition: on every path out of
\* run_arm they are gone again, unless a teardown failed or the driver was
\* killed while they existed.
ObjectsConfined == \A a \in objects \ leaked : a = cur /\ armed

\* The same for containers, on every path, panics included.
ContainersConfined == \A c \in containers \ strays : c = own /\ registered

\* "never live while the table it targets is truncated", as far as the code
\* ensures it: the arm's own objects are gone even if a killed driver left
\* them, those of other arms unless something left them.
OwnObjectsGoneAtTruncate ==
  pc = "truncate" => cur \notin objects /\ objects \subseteq leaked

\* The same sentence for all objects, in behaviours where no teardown fails.
NoObjectsAtTruncate == pc = "truncate" => objects = {}

\* "nothing is still inserting through a view while the view is being
\* dropped": no container the driver itself has up outlives its objects.
ObjectsOutliveContainers ==
  [][\A a \in objects \ objects' :
       \A c \in containers : c.arm = a => c \in strays]_vars

\* A record with metrics rests on rows of its own repetition and no others,
\* unless containers of an earlier one were up when the table was truncated.
RecordIsOwn ==
  last # NoRecord /\ CarriesMetrics(last.status) /\ ~last.tainted
    => last.rows = {last.attempt}

\* When a repetition with metrics is about to be recorded, nothing of its arm
\* is left to tax the next one, except a container whose removal failed.
CleanBeforeRecord ==
  pc = "append" /\ CarriesMetrics(status) => cur \notin objects /\ own \notin containers \ strays

\* Every repetition of an identified arm is recorded, a refused one too,
\* unless the process panicked, was killed or could not append.
RecordedUnlessPanic == pc = "idle" /\ owed => panicking

\* "One record per repetition including a refused one, as long as the arm got
\* far enough to be identified".
IdentifiedIsRecorded == pc = "idle" => ~owed

-----------------------------------------------------------------------------
\* The inductive strengthening. The guards are armed only while there is an arm
\* to act for, an unwinding repetition has failed, and the arm's own objects are
\* gone between a teardown and the next create.
GuardsScoped ==
  /\ objects \subseteq SqlArms
  /\ armed => cur \in SqlArms /\ pc \notin {"idle", "identify", "pin", "guard", "append"}
  /\ registered => pc \in {"window", "caps", "quiesce", "stop", "dropContainers"}
  /\ pc \in {"defensive", "create", "finish"} => cur \in SqlArms
  /\ cur \in SqlArms /\ pc \in Truncated \union {"defensive", "truncate", "finish"} => armed

FailedUnwind == pc \in {"dropContainers", "dropObjects"} => status = "Failed"

OwnObjectsGone ==
  /\ pc = "truncate" => cur \notin objects
  /\ pc = "append" /\ CarriesMetrics(status) => cur \notin objects

\* From the truncate to the gate only the repetition's own containers are up,
\* unless there were strays; and what the gate has read stays as it was read.
OwnTable ==
  /\ pc \in Truncated /\ ~tainted => strays \subseteq {own} /\ table \subseteq {attempt}
  /\ pc \in {"finish", "append"} /\ CarriesMetrics(status) /\ ~tainted
       => seen = {attempt}

SweepInv ==
  /\ GuardsScoped
  /\ FailedUnwind
  /\ ObjectsConfined
  /\ ContainersConfined
  /\ OwnObjectsGone
  /\ OwnTable
  /\ RecordIsOwn
=============================================================================
