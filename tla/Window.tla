------------------------------- MODULE Window -------------------------------
(***************************************************************************)
(* The loops of src/harness/src/driver.rs that watch one arm: the drain    *)
(* window, the sustained warm-up and window, and `quiesce`. Each sleeps a  *)
(* second, looks at the containers and at the row count, and decides; in   *)
(* that second the arm lands rows, lands some of them twice, stalls, or    *)
(* loses a container. A row count can always be unreadable.                *)
(***************************************************************************)
EXTENDS Naturals

CONSTANTS
  Modes,        \* the modes looked at: "drain", "sustained"
  Parts,        \* the arm's containers
  Corpus,       \* rows the drain expects
  MaxOffered,   \* bound: rows a sustained producer offers
  MaxDup,       \* bound: rows landed twice
  MaxStall,     \* seconds a sound arm may go without landing a row it still has
  DrainMax, WarmupMax, WindowLen, QuiesceMax,  \* the budgets, in seconds
  ProbeMax,     \* ROW_PROBE_MAX_FAILURES
  WarmupPolls,  \* SUSTAINED_WARMUP_POLLS
  Unread        \* a row count that could not be read

ASSUME WindowAssumption ==
  /\ Modes \subseteq {"drain", "sustained"}
  /\ Corpus \in Nat \ {0} /\ MaxOffered \in Nat /\ MaxDup \in Nat /\ MaxStall \in Nat
  /\ DrainMax \in Nat /\ WarmupMax \in Nat /\ WindowLen \in Nat /\ QuiesceMax \in Nat
  /\ ProbeMax \in Nat \ {0} /\ WarmupPolls \in Nat \ {0}
  /\ Unread \notin Nat

VARIABLES
  mode,
  \* The arm and the table.
  sound,      \* the arm loses nothing and keeps to MaxStall
  alive,      \* its containers that run
  offered,    \* rows on the topic for it
  landed,     \* those that are in the table
  dup,        \* rows that are in the table twice
  stall,      \* seconds since it last landed a row, while it has one to land
  rising,     \* seconds in a row in which the count rose
  \* The driver.
  phase, verdict,
  awake,      \* the second is over and the poll is due
  clock,      \* seconds since the phase began
  rows, prev, failures, stable, advancing,
  samplers,   \* the cgroup samplers are running
  producing   \* the load generator is running

world == <<sound, alive, offered, landed, dup, stall, rising>>
poll == <<rows, prev, failures, stable, advancing>>
tools == <<samplers, producing>>
vars == <<mode, world, phase, verdict, awake, clock, poll, tools>>

Phases == {"drain", "warmup", "open", "closing", "quiesce", "ended"}
StablePolls == 3

\* Bound: no budget is compared with a later second than this.
ClockCap == DrainMax + WarmupMax + WindowLen + QuiesceMax + 1

count == landed + dup
Readings == {count, Unread}

\* Drain: samplers from the start. Sustained: producer first, and a first
\* reading before the first sleep.
Init ==
  /\ mode \in Modes
  /\ sound \in BOOLEAN /\ alive = Parts
  /\ offered = IF mode = "drain" THEN Corpus ELSE 0
  /\ landed = 0 /\ dup = 0 /\ stall = 0 /\ rising = 0
  /\ phase = IF mode = "drain" THEN "drain" ELSE "warmup"
  /\ verdict = "none" /\ awake = FALSE /\ clock = 0
  /\ rows = 0 /\ failures = 0 /\ stable = 0 /\ advancing = 0
  /\ prev \in IF mode = "drain" THEN {Unread} ELSE Readings
  /\ samplers = (mode = "drain") /\ producing = (mode = "sustained")

-----------------------------------------------------------------------------
\* One second of the arm. It may duplicate what it has landed (at least once
\* delivery); a sound arm with all its containers lands within MaxStall.
Second ==
  /\ offered' \in offered..(IF producing /\ offered < MaxOffered THEN offered + 1
                                                                 ELSE offered)
  /\ landed' \in landed..offered'
  /\ dup' \in dup..(IF landed > 0 /\ dup < MaxDup THEN dup + 1 ELSE dup)
  /\ alive' \in {alive} \union {alive \ {c} : c \in alive}
  /\ stall' = IF landed' = landed /\ landed < offered'
                THEN (IF stall < MaxStall + 1 THEN stall + 1 ELSE stall) ELSE 0
  /\ sound /\ alive' = Parts => stall' <= MaxStall
  /\ rising' = IF landed' + dup' > count
                 THEN (IF rising < WarmupPolls THEN rising + 1 ELSE rising) ELSE 0
  /\ UNCHANGED sound

\* `sleep(1)` in a loop, and the seconds `load.stop()` takes.
Sleep ==
  /\ phase # "ended" /\ ~awake
  /\ Second
  /\ awake' = TRUE
  /\ clock' = IF clock < ClockCap THEN clock + 1 ELSE clock
  /\ UNCHANGED <<mode, phase, verdict, poll, tools>>

\* Every refusal returns through the drops: containers.stop(), the samplers,
\* the load generator.
Refuse ==
  /\ phase' = "ended" /\ verdict' = "refused"
  /\ samplers' = FALSE /\ producing' = FALSE
  /\ UNCHANGED <<clock, rows, prev, stable, advancing>>

Enter(next) ==
  /\ phase' = next
  /\ clock' = 0 /\ failures' = 0
  /\ UNCHANGED verdict

Again == UNCHANGED <<phase, verdict, clock, tools>>

dead_container == alive # Parts

\* Mutant: a loop that checks no deadline.
ExpiredNever(budget) == FALSE

Expired(budget) == clock > budget

Drained(n) == n >= Corpus

\* "Close the window BEFORE stopping the producer".
CloseSamplers == samplers' = FALSE /\ UNCHANGED producing

Rose(now) == prev # Unread /\ now # Unread /\ now > prev

\* Mutant: a poll that does not advance is forgotten.
AdvancingKept(now) == IF Rose(now) THEN advancing + 1 ELSE advancing

Advancing(now) == IF Rose(now) THEN advancing + 1 ELSE 0

\* A reading the loop survives, and the one that makes it give up.
Counted(now) ==
  /\ failures' = IF now = Unread THEN failures + 1 ELSE 0
  /\ failures' < ProbeMax
GivesUp(now) ==
  /\ now = Unread
  /\ failures' = failures + 1
  /\ failures' >= ProbeMax
  /\ Refuse

Poll(p) == phase = p /\ awake /\ awake' = FALSE /\ UNCHANGED <<mode, world>>

-----------------------------------------------------------------------------
\* hold_drain_window: until the count reaches the corpus.
PollDrain ==
  /\ Poll("drain")
  /\ \/ dead_container /\ Refuse /\ UNCHANGED failures
     \/ /\ ~dead_container
        /\ \E now \in Readings :
             \/ GivesUp(now)
             \/ /\ Counted(now)
                /\ rows' = IF now = Unread THEN rows ELSE now
                /\ UNCHANGED <<stable, advancing>>
                /\ IF Drained(rows')
                     THEN /\ phase' = "quiesce" /\ clock' = 0 /\ prev' = Unread
                          /\ samplers' = FALSE
                          /\ UNCHANGED <<verdict, producing>>
                     ELSE /\ ~Expired(DrainMax)
                          /\ Again /\ UNCHANGED prev
     \/ /\ ~dead_container /\ Expired(DrainMax)
        /\ \E now \in Readings :
             /\ Counted(now)
             /\ ~Drained(IF now = Unread THEN rows ELSE now)
        /\ Refuse

\* The sustained warm-up: three polls in a row that each read more rows than
\* the poll before.
PollWarmup ==
  /\ Poll("warmup")
  /\ \/ dead_container /\ Refuse /\ UNCHANGED failures
     \/ /\ ~dead_container
        /\ \E now \in Readings :
             /\ prev' = now
             /\ advancing' = Advancing(now)
             /\ UNCHANGED <<rows, stable>>
             /\ \/ /\ advancing' >= WarmupPolls
                   /\ Enter("open") /\ samplers' = TRUE /\ UNCHANGED producing
                \/ /\ advancing' < WarmupPolls /\ ~Expired(WarmupMax)
                   /\ Again /\ UNCHANGED failures
     \/ /\ ~dead_container /\ Expired(WarmupMax)
        /\ \E now \in Readings : Advancing(now) < WarmupPolls
        /\ Refuse /\ UNCHANGED failures

\* The sustained window: a fixed span, watched.
PollOpen ==
  /\ Poll("open")
  /\ \/ dead_container /\ Refuse /\ UNCHANGED failures
     \/ /\ ~dead_container
        /\ \E now \in Readings :
             \/ GivesUp(now)
             \/ /\ Counted(now)
                /\ UNCHANGED <<rows, prev, stable, advancing>>
                /\ IF clock < WindowLen
                     THEN Again
                     ELSE /\ phase' = "closing" /\ CloseSamplers
                          /\ UNCHANGED <<verdict, clock>>

\* load.stop(): undelivered messages, or a producer that fell short of its
\* schedule, refuse the repetition.
CloseLoad ==
  /\ Poll("closing")
  /\ \/ Refuse /\ UNCHANGED failures
     \/ /\ Enter("quiesce")
        /\ producing' = FALSE
        /\ prev' = Unread
        /\ UNCHANGED <<samplers, rows, stable, advancing>>

\* Mutant: a poll that could not be read agrees with the one before.
StableUnread(now) == IF now = Unread \/ now = prev THEN stable + 1 ELSE 0

\* "An unreadable count is not a count": it starts the agreement over.
StableAfter(now) == IF now # Unread /\ now = prev THEN stable + 1 ELSE 0

\* quiesce: three polls in a row that read what the one before them read. The
\* containers are not looked at.
PollQuiesce ==
  /\ Poll("quiesce")
  /\ \E now \in Readings :
       \/ GivesUp(now)
       \/ /\ Counted(now)
          /\ prev' = IF now = Unread THEN prev ELSE now
          /\ stable' = StableAfter(now)
          /\ UNCHANGED <<rows, advancing, clock, tools>>
          /\ \/ /\ stable' >= StablePolls
                /\ phase' = "ended" /\ verdict' = "settled"
             \/ /\ stable' < StablePolls /\ Expired(QuiesceMax)
                /\ phase' = "ended"
                /\ verdict' = IF prev' = Unread THEN "refused" ELSE "unsettled"
             \/ /\ stable' < StablePolls /\ ~Expired(QuiesceMax)
                /\ UNCHANGED <<phase, verdict>>

Driver == PollDrain \/ PollWarmup \/ PollOpen \/ CloseLoad \/ PollQuiesce

Next == Sleep \/ Driver

\* Time passes and the driver polls: nothing else is needed for a window to
\* end, the arm may do as it likes.
Spec == Init /\ [][Next]_vars /\ WF_vars(Next)

-----------------------------------------------------------------------------
\* What `settled` is trusted for: the gate sees a complete frontier. It does,
\* for an arm that still has its containers and never goes as many seconds
\* without landing a row as `quiesce` asks polls to agree.
SettledIsComplete ==
  verdict = "settled" /\ sound /\ alive = Parts /\ MaxStall < StablePolls
    => landed = offered

\* "from container start to the instant the corpus is exhausted": the same,
\* with the duplicates that at-least-once delivery allows.
DrainExhaustsCorpus ==
  mode = "drain" /\ phase = "quiesce" => landed = Corpus

\* The sustained window opens on an arm that has landed rows in each of the
\* last WarmupPolls seconds, unreadable counts notwithstanding.
OpensWarm == [][phase = "warmup" /\ phase' = "open" => rising >= WarmupPolls]_vars

\* The seconds the driver can still watch the arm for: what is left of the budget
\* of its phase, with the second that overruns it, and what the phases to come have.
AfterHold == QuiesceMax + 2
SecondsLeft ==
  CASE phase = "drain"   -> DrainMax + 2 - clock + AfterHold
    [] phase = "warmup"  -> WarmupMax + 2 - clock + WindowLen + 2 + AfterHold
    [] phase = "open"    -> WindowLen + 2 - clock + AfterHold
    [] phase = "closing" -> (IF awake THEN 0 ELSE 1) + AfterHold
    [] phase = "quiesce" -> QuiesceMax + 2 - clock
    [] phase = "ended"   -> 0
StepsLeft == 2 * SecondsLeft + (IF awake THEN 1 ELSE 0)

\* However the arm behaves and whatever a poll reads, every second and every poll
\* use up some of the budgets, and no budget is overrun by more than a second: no
\* loop can hold the arm lock longer than its deadlines say.
BudgetsRunDown == [](StepsLeft \in Nat) /\ [][StepsLeft' < StepsLeft]_vars

\* Every hold and every quiesce ends, with a sound arm or a broken one, and by its
\* budgets.
WindowEnds == BudgetsRunDown /\ <>(phase = "ended")
=============================================================================
