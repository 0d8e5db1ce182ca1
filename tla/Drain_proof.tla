----------------------------- MODULE Drain_proof -----------------------------
(***************************************************************************)
(* Proofs about what a drain rests on. For any containers, corpus, offer,  *)
(* duplicates and budgets: what "settled" and "warm" mean in the loops     *)
(* that watch an arm. For any processes, partition counts, generators and  *)
(* faults: that the topic is the corpus a prefill produced, one reused and *)
(* a record was drained from.                                              *)
(***************************************************************************)
EXTENDS Window, Topic, FiniteSetTheorems, WellFoundedInduction, TLAPS


\* The parts of the inductive invariant.
Counters ==
  /\ offered \in Nat /\ landed \in Nat /\ dup \in Nat /\ stall \in Nat /\ rising \in Nat
  /\ stable \in Nat /\ advancing \in Nat /\ prev \in Nat \union {Unread}
  /\ landed <= offered

\* A sound arm that is whole has kept to its stall.
Kept == sound /\ alive = Parts => stall <= MaxStall

\* Nothing is offered any more once a quiesce begins.
Offers == phase \in {"drain", "quiesce", "ended"} => producing = FALSE

\* As many polls as have agreed, that many seconds no row has landed: between two
\* polls by the agreement itself, after the second that follows by the reading.
Silent(n) == landed < offered => stall >= n \/ stall > MaxStall
Agreed ==
  phase = "quiesce" =>
    /\ stable < StablePolls
    /\ prev # Unread => prev <= count
    /\ ~awake /\ stable > 0 => prev = count /\ Silent(stable)
    /\ awake /\ prev = count => Silent(stable + 1)

\* As many polls as have advanced, that many seconds the count has risen.
Warming ==
  phase = "warmup" =>
    /\ advancing < WarmupPolls
    /\ ~awake => prev \in Readings /\ advancing <= rising
    /\ awake /\ prev # Unread /\ prev < count => advancing < rising

Settled == verdict = "settled" => phase = "ended" /\ SettledIsComplete

\* No poll has agreed before the quiesce.
Fresh == phase \notin {"quiesce", "ended"} => stable = 0

WindowInv == Counters /\ Kept /\ Offers /\ Fresh /\ Agreed /\ Warming /\ Settled

-----------------------------------------------------------------------------
\* Two sums of parts that only grow.
LEMMA Sums ==
  ASSUME NEW a \in Nat, NEW b \in Nat, NEW c \in Nat, NEW d \in Nat, a <= c, b <= d
  PROVE  /\ a + b \in Nat /\ c + d \in Nat /\ a + b <= c + d
         /\ a + b = c + d => a = c /\ b = d
OBVIOUS

\* What can be counted: the count grows, and it stands still only with the rows.
LEMMA CountGrows ==
  ASSUME landed \in Nat, dup \in Nat, landed' \in Nat, dup' \in Nat,
         landed <= landed', dup <= dup'
  PROVE  /\ count \in Nat /\ count' \in Nat /\ count <= count'
         /\ count = count' => landed = landed'
BY Zenon, Sums DEF count

LEMMA InitInv == Init => WindowInv
<1> SUFFICES ASSUME Init PROVE WindowInv
  OBVIOUS
<1>1. Counters /\ Kept
  BY WindowAssumption DEF Init, Counters, Kept, Readings, count
<1>2. Offers /\ Fresh /\ Agreed /\ Settled
  BY DEF Init, Offers, Fresh, Agreed, Settled
<1>3. Warming
  BY WindowAssumption DEF Init, Warming, Readings, count
<1> QED
  BY <1>1, <1>2, <1>3 DEF WindowInv

\* What one second of the arm does to what the invariant counts.
LEMMA SecondStep ==
  ASSUME Counters, Kept, Second
  PROVE  /\ offered' \in Nat /\ landed' \in Nat /\ dup' \in Nat /\ stall' \in Nat /\ rising' \in Nat
         /\ landed' <= offered' /\ landed <= landed' /\ dup <= dup' /\ Kept'
         /\ producing = FALSE => offered' = offered
         /\ landed' = landed /\ landed < offered' => stall' > stall \/ stall' > MaxStall
         /\ count' > count => rising' > rising \/ rising' >= WarmupPolls
<1>1. offered' \in Nat /\ offered <= offered' /\ (producing = FALSE => offered' = offered)
  BY DEF Counters, Second
<1>2. landed' \in Nat /\ landed <= landed' /\ landed' <= offered'
  BY <1>1 DEF Counters, Second
<1>3. dup' \in Nat /\ dup <= dup'
  BY DEF Counters, Second
<1>4. stall' \in Nat /\ (landed' = landed /\ landed < offered' => stall' > stall \/ stall' > MaxStall)
  BY WindowAssumption DEF Counters, Second
<1>5. rising' \in Nat /\ (count' > count => rising' > rising \/ rising' >= WarmupPolls)
  BY <1>2, <1>3, WindowAssumption DEF Counters, Second, count
<1>6. Kept'
  BY DEF Second, Kept
<1> QED
  BY <1>1, <1>2, <1>3, <1>4, <1>5, <1>6

LEMMA SleepStep == WindowInv /\ Sleep => WindowInv'
<1> SUFFICES ASSUME WindowInv, Sleep PROVE WindowInv'
  OBVIOUS
<1>1. /\ Second /\ phase # "ended" /\ ~awake /\ awake'
      /\ UNCHANGED <<mode, phase, verdict, poll, tools>>
  BY DEF Sleep
<1>2. Counters /\ Kept
  BY DEF WindowInv
<1>3. Counters' /\ Kept'
  BY <1>1, <1>2, SecondStep DEF Counters, poll
<1>4. Offers' /\ Fresh' /\ Settled'
  BY <1>1 DEF WindowInv, Offers, Fresh, Settled, tools, poll
<1>5. Agreed'
  <2> SUFFICES ASSUME phase = "quiesce"
               PROVE  /\ stable < StablePolls
                      /\ prev # Unread => prev <= count'
                      /\ prev = count' => Silent(stable + 1)'
    BY <1>1 DEF Agreed, poll, Silent
  <2>1. stable < StablePolls
    BY DEF WindowInv, Agreed
  <2>2. count \in Nat /\ count' \in Nat /\ count <= count'
    <3>1. landed' \in Nat /\ dup' \in Nat /\ landed <= landed' /\ dup <= dup'
      BY <1>1, <1>2, SecondStep
    <3>2. landed \in Nat /\ dup \in Nat
      BY <1>2 DEF Counters
    <3> QED
      BY <3>1, <3>2, CountGrows, Zenon
  <2>3. prev # Unread => prev <= count
    BY DEF WindowInv, Agreed
  <2>4. prev # Unread => prev <= count'
    BY <1>2, <2>2, <2>3 DEF Counters
  <2>5. ASSUME prev = count', landed' < offered'
        PROVE  stall' >= stable + 1 \/ stall' > MaxStall
    <3>1. prev # Unread /\ count' = count
      BY <2>2, <2>3, <2>5, WindowAssumption
    <3>2. landed' = landed /\ offered' = offered
      <4>1. producing = FALSE
        BY DEF WindowInv, Offers
      <4>2. offered' = offered
        BY <1>1, <1>2, <4>1, SecondStep
      <4>3. landed' \in Nat /\ dup' \in Nat /\ landed <= landed' /\ dup <= dup'
        BY <1>1, <1>2, SecondStep
      <4>4. landed \in Nat /\ dup \in Nat
        BY <1>2 DEF Counters
      <4>5. landed' = landed
        BY <3>1, <4>3, <4>4, CountGrows, Zenon
      <4> QED
        BY <4>2, <4>5
    <3>3. stall' \in Nat /\ (stall' > stall \/ stall' > MaxStall)
      BY <1>1, <1>2, <2>5, <3>2, SecondStep
    <3>4. stable > 0 => stall >= stable \/ stall > MaxStall
      BY <1>1, <2>5, <3>2 DEF WindowInv, Agreed, Silent
    <3>5. stall' >= stall \/ stall' > MaxStall
      BY <1>2, <3>3 DEF Counters
    <3> QED
      BY <1>2, <3>3, <3>4, <3>5, WindowAssumption DEF Counters
  <2> QED
    BY <1>1, <2>1, <2>4, <2>5 DEF Silent, poll
<1>6. Warming'
  <2> SUFFICES ASSUME phase = "warmup"
               PROVE  /\ advancing < WarmupPolls
                      /\ prev # Unread /\ prev < count' => advancing < rising'
    BY <1>1 DEF Warming, poll
  <2>1. advancing < WarmupPolls /\ prev \in Readings /\ advancing <= rising
    BY <1>1 DEF WindowInv, Warming
  <2>2. prev # Unread => prev = count
    BY <2>1 DEF Readings
  <2>3. count' > count => rising' > rising \/ rising' >= WarmupPolls
    BY <1>1, <1>2, SecondStep
  <2>4. rising' \in Nat
    BY <1>1, <1>2, SecondStep
  <2> QED
    BY <1>2, <2>1, <2>2, <2>3, <2>4, WindowAssumption DEF Counters
<1> QED
  BY <1>3, <1>4, <1>5, <1>6 DEF WindowInv

-----------------------------------------------------------------------------
\* A poll looks at the arm and does not move it.
LEMMA PollStill ==
  ASSUME NEW p, WindowInv, Poll(p)
  PROVE  /\ phase = p /\ awake /\ ~awake' /\ UNCHANGED <<mode, world>>
         /\ count' = count /\ count \in Nat /\ Kept' /\ Counters
BY DEF Poll, WindowInv, Counters, Kept, world, count

\* Whatever the loop, a refusal keeps the invariant.
LEMMA RefuseStep ==
  ASSUME NEW p, WindowInv, Poll(p), Refuse
  PROVE  WindowInv'
<1>1. Kept' /\ Counters
  BY PollStill
<1>2. Counters'
  BY <1>1 DEF Poll, Refuse, Counters, world, WindowInv
<1>3. Offers' /\ Fresh' /\ Agreed' /\ Warming' /\ Settled'
  BY DEF Refuse, Offers, Fresh, Agreed, Warming, Settled
<1> QED
  BY <1>1, <1>2, <1>3 DEF WindowInv

LEMMA DrainStep == WindowInv /\ PollDrain => WindowInv'
<1> SUFFICES ASSUME WindowInv, PollDrain PROVE WindowInv'
  OBVIOUS
<1>1. Poll("drain")
  BY DEF PollDrain
<1>2. CASE Refuse
  BY <1>1, <1>2, RefuseStep
<1>3. CASE /\ stable' = stable /\ advancing' = advancing /\ verdict' = verdict
           /\ producing' = producing
           /\ \/ phase' = "quiesce" /\ prev' = Unread
              \/ phase' = phase /\ prev' = prev
  <2>1. /\ phase = "drain" /\ ~awake' /\ UNCHANGED world /\ Kept' /\ Counters
        /\ Offers /\ Fresh /\ Settled
    BY <1>1, PollStill DEF WindowInv
  <2>2. Counters'
    BY <1>3, <2>1 DEF Counters, world
  <2>3. Offers' /\ Fresh' /\ Settled' /\ Warming'
    BY <1>3, <2>1 DEF Offers, Fresh, Settled, Warming
  <2>4. Agreed'
    BY <1>3, <2>1 DEF Agreed, Fresh, StablePolls
  <2> QED
    BY <2>1, <2>2, <2>3, <2>4 DEF WindowInv
<1> QED
  BY <1>2, <1>3 DEF PollDrain, Again, GivesUp, tools

LEMMA WarmupStep == WindowInv /\ PollWarmup => WindowInv'
<1> SUFFICES ASSUME WindowInv, PollWarmup PROVE WindowInv'
  OBVIOUS
<1>1. Poll("warmup")
  BY DEF PollWarmup
<1>2. CASE Refuse
  BY <1>1, <1>2, RefuseStep
<1>3. ASSUME NEW now \in Readings,
             prev' = now, advancing' = Advancing(now), UNCHANGED <<rows, stable>>,
             \/ Enter("open") /\ producing' = producing
             \/ advancing' < WarmupPolls /\ Again
      PROVE  WindowInv'
  <2>1. /\ phase = "warmup" /\ awake /\ ~awake' /\ UNCHANGED world /\ Kept' /\ Counters
        /\ Offers /\ Fresh /\ Settled /\ Warming /\ count' = count /\ count \in Nat
    BY <1>1, PollStill DEF WindowInv
  <2>2. now \in Nat \union {Unread} /\ now \in Readings'
    BY <2>1 DEF Readings
  <2>3. advancing' \in Nat /\ advancing' <= rising
    BY <2>1, <1>3, WindowAssumption DEF Advancing, Rose, Warming, Readings, Counters
  <2>4. Counters'
    BY <1>3, <2>1, <2>2, <2>3 DEF Counters, world
  <2>5. Offers' /\ Fresh' /\ Settled' /\ Agreed'
    BY <1>3, <2>1 DEF Offers, Fresh, Settled, Agreed, Enter, Again, tools
  <2>6. Warming'
    BY <1>3, <2>1, <2>2, <2>3 DEF Warming, Enter, Again, world
  <2> QED
    BY <2>1, <2>4, <2>5, <2>6 DEF WindowInv
<1> QED
  BY <1>2, <1>3 DEF PollWarmup

LEMMA OpenStep == WindowInv /\ PollOpen => WindowInv'
<1> SUFFICES ASSUME WindowInv, PollOpen PROVE WindowInv'
  OBVIOUS
<1>1. Poll("open")
  BY DEF PollOpen
<1>2. CASE Refuse
  BY <1>1, <1>2, RefuseStep
<1>3. CASE /\ UNCHANGED <<rows, prev, stable, advancing, verdict, producing>>
           /\ phase' \in {phase, "closing"}
  <2>1. /\ phase = "open" /\ ~awake' /\ UNCHANGED world /\ Kept' /\ Counters
        /\ Offers /\ Fresh /\ Settled
    BY <1>1, PollStill DEF WindowInv
  <2>2. Counters'
    BY <1>3, <2>1 DEF Counters, world
  <2>3. Offers' /\ Fresh' /\ Settled' /\ Warming' /\ Agreed'
    BY <1>3, <2>1 DEF Offers, Fresh, Settled, Warming, Agreed
  <2> QED
    BY <2>1, <2>2, <2>3 DEF WindowInv
<1> QED
  BY <1>2, <1>3 DEF PollOpen, Again, GivesUp, CloseSamplers, tools

LEMMA CloseStep == WindowInv /\ CloseLoad => WindowInv'
<1> SUFFICES ASSUME WindowInv, CloseLoad PROVE WindowInv'
  OBVIOUS
<1>1. Poll("closing")
  BY DEF CloseLoad
<1>2. CASE Refuse
  BY <1>1, <1>2, RefuseStep
<1>3. CASE Enter("quiesce") /\ producing' = FALSE /\ prev' = Unread
           /\ UNCHANGED <<samplers, rows, stable, advancing>>
  <2>1. /\ phase = "closing" /\ ~awake' /\ UNCHANGED world /\ Kept' /\ Counters
        /\ Fresh /\ Settled
    BY <1>1, PollStill DEF WindowInv
  <2>2. Counters'
    BY <1>3, <2>1 DEF Counters, world
  <2>3. Offers' /\ Fresh' /\ Settled' /\ Warming' /\ Agreed'
    BY <1>3, <2>1 DEF Offers, Fresh, Settled, Warming, Agreed, Enter, StablePolls
  <2> QED
    BY <2>1, <2>2, <2>3 DEF WindowInv
<1> QED
  BY <1>2, <1>3 DEF CloseLoad

\* The poll that settles is the third that agrees: an arm that is sound, whole and
\* quicker than that has nothing left to land.
LEMMA QuiesceStep == WindowInv /\ PollQuiesce => WindowInv'
<1> SUFFICES ASSUME WindowInv, PollQuiesce PROVE WindowInv'
  OBVIOUS
<1>1. Poll("quiesce")
  BY DEF PollQuiesce
<1>2. CASE Refuse
  BY <1>1, <1>2, RefuseStep
<1>3. ASSUME NEW now \in Readings,
             prev' = (IF now = Unread THEN prev ELSE now), stable' = StableAfter(now),
             UNCHANGED <<rows, advancing, clock, tools>>,
             \/ stable' >= StablePolls /\ phase' = "ended" /\ verdict' = "settled"
             \/ stable' < StablePolls /\ phase' = "ended" /\ verdict' # "settled"
             \/ stable' < StablePolls /\ UNCHANGED <<phase, verdict>>
      PROVE  WindowInv'
  <2>1. /\ phase = "quiesce" /\ awake /\ ~awake' /\ UNCHANGED world
        /\ Kept' /\ Kept /\ Counters /\ Offers /\ Settled /\ Agreed
        /\ count' = count /\ count \in Nat
    BY <1>1, PollStill DEF WindowInv
  <2>2. now = Unread \/ now = count
    BY DEF Readings
  <2>3. stable' \in Nat /\ (stable' > 0 => prev' = count /\ Silent(stable'))
    <3>1. CASE now # Unread /\ now = prev
      <4>1. stable' = stable + 1 /\ now = count /\ prev' = count /\ prev = count
        BY <1>3, <2>2, <3>1 DEF StableAfter
      <4>2. Silent(stable + 1)
        BY <2>1, <4>1 DEF Agreed
      <4> QED
        BY <2>1, <4>1, <4>2 DEF Counters
    <3>2. CASE ~(now # Unread /\ now = prev)
      BY <1>3, <3>2 DEF StableAfter
    <3> QED
      BY <3>1, <3>2
  <2>4. Counters'
    BY <1>3, <2>1, <2>2, <2>3 DEF Counters, world
  <2>5. Offers' /\ Fresh' /\ Warming'
    BY <1>3, <2>1 DEF Offers, Fresh, Warming, tools
  <2>6. Agreed'
    <3>1. prev' # Unread => prev' <= count'
      BY <1>3, <2>1, <2>2 DEF Agreed
    <3>2. phase' = "quiesce" => stable' < StablePolls
      BY <1>3
    <3>3. stable' > 0 => prev' = count' /\ Silent(stable)'
      BY <2>1, <2>3 DEF Silent, world
    <3> QED
      BY <2>1, <3>1, <3>2, <3>3 DEF Agreed
  <2>7. Settled'
    <3>1. CASE stable' >= StablePolls /\ phase' = "ended" /\ verdict' = "settled"
      <4>1. landed < offered => stall >= StablePolls \/ stall > MaxStall
        BY <2>1, <2>3, <3>1 DEF Silent, StablePolls, Counters
      <4>2. sound /\ alive = Parts /\ MaxStall < StablePolls => landed = offered
        BY <2>1, <4>1, WindowAssumption DEF Kept, Counters, StablePolls
      <4> QED
        BY <2>1, <3>1, <4>2 DEF Settled, SettledIsComplete, world
    <3>2. CASE verdict' # "settled"
      BY <3>2 DEF Settled
    <3>3. CASE UNCHANGED <<phase, verdict>>
      BY <2>1, <3>3 DEF Settled
    <3> QED
      BY <1>3, <3>1, <3>2, <3>3
  <2> QED
    BY <2>1, <2>4, <2>5, <2>6, <2>7 DEF WindowInv
<1> QED
  BY <1>2, <1>3 DEF PollQuiesce, GivesUp

-----------------------------------------------------------------------------
LEMMA Inductive == WindowInv /\ [Next]_vars => WindowInv'
<1> SUFFICES ASSUME WindowInv, [Next]_vars PROVE WindowInv'
  OBVIOUS
<1>1. CASE Next
  BY <1>1, SleepStep, DrainStep, WarmupStep, OpenStep, CloseStep, QuiesceStep
  DEF Next, Driver
<1>2. CASE UNCHANGED vars
  <2>1. Counters' /\ Kept' /\ Offers' /\ Fresh'
    BY <1>2 DEF WindowInv, Counters, Kept, Offers, Fresh, vars, world, poll, tools
  <2>2. Agreed'
    BY <1>2 DEF WindowInv, Agreed, Silent, count, vars, world, poll
  <2>3. Warming' /\ Settled'
    BY <1>2 DEF WindowInv, Warming, Settled, SettledIsComplete, Readings, count,
                vars, world, poll
  <2> QED
    BY <2>1, <2>2, <2>3 DEF WindowInv
<1> QED
  BY <1>1, <1>2

LEMMA Invariant == Spec => []WindowInv
BY InitInv, Inductive, PTL DEF Spec

\* What a settled window is trusted for, whatever the corpus, the offer, the budgets
\* and the duplicates: three polls a second apart that agree mean a complete table,
\* for an arm that is sound, whole and never stalls that long (quiesce).
THEOREM SettledComplete == Spec => []SettledIsComplete
<1>1. WindowInv => SettledIsComplete
  BY DEF WindowInv, Settled, SettledIsComplete
<1> QED
  BY <1>1, Invariant, PTL

\* A sustained window opens only on an arm that has landed rows in every one of the
\* last SUSTAINED_WARMUP_POLLS seconds, however many counts could not be read.
THEOREM OpensOnWarm == Spec => OpensWarm
<1>1. WindowInv /\ [Next]_vars
        => [phase = "warmup" /\ phase' = "open" => rising >= WarmupPolls]_vars
  <2> SUFFICES ASSUME WindowInv, Next, phase = "warmup", phase' = "open"
               PROVE  rising >= WarmupPolls
    OBVIOUS
  <2>1. PollWarmup
    BY DEF Next, Driver, Sleep, PollDrain, PollOpen, CloseLoad, PollQuiesce, Poll
  <2>2. PICK now \in Readings : Advancing(now) >= WarmupPolls
    BY <2>1 DEF PollWarmup, Refuse, Again
  <2>3. awake /\ Warming /\ Counters /\ count \in Nat
    BY <2>1, PollStill DEF PollWarmup, WindowInv
  <2> QED
    BY <2>2, <2>3, WindowAssumption DEF Advancing, Rose, Warming, Readings, Counters
<1> QED
  BY <1>1, Invariant, PTL DEF Spec, OpensWarm

-----------------------------------------------------------------------------
(* The budgets: what is left of them is a natural number that every second *)
(* and every poll make smaller.                                            *)

\* The phases with a deadline, and how late each of them may look at it.
Deadlines == {"drain", "warmup", "open", "quiesce"}
Deadline(p) ==
  CASE p = "drain" -> DrainMax [] p = "warmup" -> WarmupMax
    [] p = "open" -> WindowLen [] p = "quiesce" -> QuiesceMax
InBudget ==
  /\ phase \in Phases /\ awake \in BOOLEAN /\ clock \in Nat
  /\ phase \in Deadlines => clock <= Deadline(phase) + (IF awake THEN 1 ELSE 0)

\* What a poll can do: look again while the deadline is not passed, end, or go on.
Onward == {<<"drain", "quiesce">>, <<"warmup", "open">>, <<"open", "closing">>,
           <<"closing", "quiesce">>}
Polled ==
  /\ awake /\ awake' = FALSE
  /\ \/ phase \in Deadlines /\ phase' = phase /\ clock' = clock /\ clock <= Deadline(phase)
     \/ phase # "ended" /\ phase' = "ended" /\ clock' = clock
     \/ /\ <<phase, phase'>> \in Onward
        /\ clock' = IF phase = "open" THEN clock ELSE 0

LEMMA DeadlineIs ==
  /\ Deadline("drain") = DrainMax /\ Deadline("warmup") = WarmupMax
  /\ Deadline("open") = WindowLen /\ Deadline("quiesce") = QuiesceMax
  /\ \A p \in Deadlines : Deadline(p) \in Nat /\ Deadline(p) < ClockCap
<1>1. /\ Deadline("drain") = DrainMax /\ Deadline("warmup") = WarmupMax
      /\ Deadline("open") = WindowLen /\ Deadline("quiesce") = QuiesceMax
  BY DEF Deadline
<1>2. /\ DrainMax \in Nat /\ WarmupMax \in Nat /\ WindowLen \in Nat /\ QuiesceMax \in Nat
      /\ ClockCap = DrainMax + WarmupMax + WindowLen + QuiesceMax + 1
  BY WindowAssumption DEF ClockCap
<1> QED
  BY <1>1, <1>2 DEF Deadlines

LEMMA DrainPolled == InBudget /\ PollDrain => Polled
<1> SUFFICES ASSUME InBudget, PollDrain PROVE Polled
  OBVIOUS
<1>1. phase = "drain" /\ awake /\ awake' = FALSE /\ phase \in Deadlines
  BY DEF PollDrain, Poll, Deadlines
<1>2. \/ phase' = "ended" /\ clock' = clock
      \/ phase' = "quiesce" /\ clock' = 0
      \/ phase' = phase /\ clock' = clock /\ ~Expired(DrainMax)
  BY DEF PollDrain, Refuse, GivesUp, Again
<1>3. ~Expired(DrainMax) => clock <= Deadline(phase)
  BY <1>1, DeadlineIs, WindowAssumption DEF Expired, InBudget
<1> QED
  BY <1>1, <1>2, <1>3 DEF Polled, Onward

LEMMA WarmupPolled == InBudget /\ PollWarmup => Polled
<1> SUFFICES ASSUME InBudget, PollWarmup PROVE Polled
  OBVIOUS
<1>1. phase = "warmup" /\ awake /\ awake' = FALSE /\ phase \in Deadlines
  BY DEF PollWarmup, Poll, Deadlines
<1>2. \/ phase' = "ended" /\ clock' = clock
      \/ phase' = "open" /\ clock' = 0
      \/ phase' = phase /\ clock' = clock /\ ~Expired(WarmupMax)
  BY DEF PollWarmup, Refuse, Enter, Again
<1>3. ~Expired(WarmupMax) => clock <= Deadline(phase)
  BY <1>1, DeadlineIs, WindowAssumption DEF Expired, InBudget
<1> QED
  BY <1>1, <1>2, <1>3 DEF Polled, Onward

LEMMA OpenPolled == InBudget /\ PollOpen => Polled
<1> SUFFICES ASSUME InBudget, PollOpen PROVE Polled
  OBVIOUS
<1>1. phase = "open" /\ awake /\ awake' = FALSE /\ phase \in Deadlines
  BY DEF PollOpen, Poll, Deadlines
<1>2. \/ phase' = "ended" /\ clock' = clock
      \/ phase' = "closing" /\ clock' = clock
      \/ phase' = phase /\ clock' = clock /\ clock < WindowLen
  BY DEF PollOpen, Refuse, GivesUp, Again
<1>3. clock < WindowLen => clock <= Deadline(phase)
  BY <1>1, DeadlineIs, WindowAssumption DEF InBudget
<1> QED
  BY <1>1, <1>2, <1>3 DEF Polled, Onward

LEMMA ClosePolled == InBudget /\ CloseLoad => Polled
<1> SUFFICES ASSUME InBudget, CloseLoad PROVE Polled
  OBVIOUS
<1>1. phase = "closing" /\ awake /\ awake' = FALSE
  BY DEF CloseLoad, Poll
<1>2. (phase' = "ended" /\ clock' = clock) \/ (phase' = "quiesce" /\ clock' = 0)
  BY DEF CloseLoad, Refuse, Enter
<1> QED
  BY <1>1, <1>2 DEF Polled, Onward

LEMMA QuiescePolled == InBudget /\ PollQuiesce => Polled
<1> SUFFICES ASSUME InBudget, PollQuiesce PROVE Polled
  OBVIOUS
<1>1. phase = "quiesce" /\ awake /\ awake' = FALSE /\ phase \in Deadlines
  BY DEF PollQuiesce, Poll, Deadlines
<1>2. \/ phase' = "ended" /\ clock' = clock
      \/ phase' = phase /\ clock' = clock /\ ~Expired(QuiesceMax)
  BY DEF PollQuiesce, Refuse, GivesUp
<1>3. ~Expired(QuiesceMax) => clock <= Deadline(phase)
  BY <1>1, DeadlineIs, WindowAssumption DEF Expired, InBudget
<1> QED
  BY <1>1, <1>2, <1>3 DEF Polled

\* What is left, by the phase.
LeftByPhase ==
         /\ SecondsLeft \in Nat
         /\ phase = "drain"   => SecondsLeft = DrainMax + QuiesceMax + 4 - clock
         /\ phase = "warmup"  => SecondsLeft = WarmupMax + WindowLen + QuiesceMax + 6 - clock
         /\ phase = "open"    => SecondsLeft = WindowLen + QuiesceMax + 4 - clock
         /\ phase = "closing" => SecondsLeft = QuiesceMax + 2 + (IF awake THEN 0 ELSE 1)
         /\ phase = "quiesce" => SecondsLeft = QuiesceMax + 2 - clock
         /\ phase = "ended"   => SecondsLeft = 0

LEMMA LeftIs == InBudget => LeftByPhase
<1> SUFFICES ASSUME InBudget PROVE LeftByPhase
  OBVIOUS
<1>1. /\ DrainMax \in Nat /\ WarmupMax \in Nat /\ WindowLen \in Nat /\ QuiesceMax \in Nat
      /\ clock \in Nat /\ awake \in BOOLEAN
  BY WindowAssumption DEF InBudget
<1>2. CASE phase = "drain"
  <2>1. clock <= DrainMax + 1
    BY <1>1, <1>2, DeadlineIs DEF InBudget, Deadlines
  <2>2. SecondsLeft = DrainMax + 2 - clock + (QuiesceMax + 2)
    BY <1>2 DEF SecondsLeft, AfterHold
  <2> QED
    BY <1>1, <1>2, <2>1, <2>2 DEF LeftByPhase
<1>3. CASE phase = "warmup"
  <2>1. clock <= WarmupMax + 1
    BY <1>1, <1>3, DeadlineIs DEF InBudget, Deadlines
  <2>2. SecondsLeft = WarmupMax + 2 - clock + WindowLen + 2 + (QuiesceMax + 2)
    BY <1>3 DEF SecondsLeft, AfterHold
  <2> QED
    BY <1>1, <1>3, <2>1, <2>2 DEF LeftByPhase
<1>4. CASE phase = "open"
  <2>1. clock <= WindowLen + 1
    BY <1>1, <1>4, DeadlineIs DEF InBudget, Deadlines
  <2>2. SecondsLeft = WindowLen + 2 - clock + (QuiesceMax + 2)
    BY <1>4 DEF SecondsLeft, AfterHold
  <2> QED
    BY <1>1, <1>4, <2>1, <2>2 DEF LeftByPhase
<1>5. CASE phase = "closing"
  <2>1. SecondsLeft = (IF awake THEN 0 ELSE 1) + (QuiesceMax + 2)
    BY <1>5 DEF SecondsLeft, AfterHold
  <2> QED
    BY <1>1, <1>5, <2>1 DEF LeftByPhase
<1>6. CASE phase = "quiesce"
  <2>1. clock <= QuiesceMax + 1
    BY <1>1, <1>6, DeadlineIs DEF InBudget, Deadlines
  <2>2. SecondsLeft = QuiesceMax + 2 - clock
    BY <1>6 DEF SecondsLeft
  <2> QED
    BY <1>1, <1>6, <2>1, <2>2 DEF LeftByPhase
<1>7. CASE phase = "ended"
  BY <1>7 DEF SecondsLeft, LeftByPhase
<1>8. phase \in {"drain", "warmup", "open", "closing", "quiesce", "ended"}
  BY DEF InBudget, Phases
<1> QED
  BY <1>2, <1>3, <1>4, <1>5, <1>6, <1>7, <1>8 DEF LeftByPhase

LEMMA LeftIsNext == InBudget' => LeftByPhase'
BY LeftIs, PTL

LEMMA SleepRunsDown == InBudget /\ Sleep => InBudget' /\ StepsLeft' < StepsLeft
<1> SUFFICES ASSUME InBudget, Sleep PROVE InBudget' /\ StepsLeft' < StepsLeft
  OBVIOUS
<1>1. /\ phase \in Phases \ {"ended"} /\ phase' = phase /\ ~awake /\ awake' = TRUE
      /\ clock' = IF clock < ClockCap THEN clock + 1 ELSE clock
  BY DEF Sleep, InBudget
<1>2. clock \in Nat /\ clock' \in Nat
  BY <1>1 DEF InBudget
<1>3. CASE phase = "closing"
  <2>1. InBudget'
    BY <1>1, <1>2, <1>3 DEF InBudget, Deadlines
  <2>2. SecondsLeft' = QuiesceMax + 2 /\ SecondsLeft = QuiesceMax + 3 /\ QuiesceMax \in Nat
    BY <1>1, <1>3, <2>1, LeftIs, LeftIsNext, WindowAssumption DEF LeftByPhase
  <2>3. StepsLeft = 2 * SecondsLeft /\ StepsLeft' = 2 * SecondsLeft' + 1
    BY <1>1, <2>2 DEF StepsLeft
  <2> QED
    BY <2>1, <2>2, <2>3
<1>4. CASE phase \in Deadlines
  <2>1. clock <= Deadline(phase) /\ Deadline(phase) \in Nat /\ Deadline(phase) < ClockCap
    <3>1. Deadline(phase) \in Nat /\ Deadline(phase) < ClockCap
      BY <1>4, DeadlineIs
    <3> QED
      BY <1>1, <1>2, <1>4, <3>1 DEF InBudget
  <2>2. ClockCap \in Nat
    BY WindowAssumption DEF ClockCap
  <2>3. clock' = clock + 1
    BY <1>1, <1>2, <2>1, <2>2
  <2>4. InBudget'
    <3>1. clock' <= Deadline(phase') + 1
      BY <1>1, <1>2, <2>1, <2>3
    <3> QED
      BY <1>1, <1>2, <1>4, <3>1 DEF InBudget
  <2>5. SecondsLeft \in Nat /\ SecondsLeft' = SecondsLeft - 1
    BY <1>1, <1>2, <1>4, <2>3, <2>4, LeftIs, LeftIsNext, WindowAssumption DEF Deadlines, LeftByPhase
  <2>6. StepsLeft = 2 * SecondsLeft /\ StepsLeft' = 2 * SecondsLeft' + 1
    BY <1>1, <2>5 DEF StepsLeft
  <2> QED
    BY <2>4, <2>5, <2>6
<1> QED
  BY <1>1, <1>3, <1>4 DEF Phases, Deadlines

LEMMA PollRunsDown == InBudget /\ Polled => InBudget' /\ StepsLeft' < StepsLeft
<1> SUFFICES ASSUME InBudget, Polled PROVE InBudget' /\ StepsLeft' < StepsLeft
  OBVIOUS
<1>1. awake /\ awake' = FALSE /\ clock \in Nat /\ clock' \in Nat /\ phase' \in Phases
  BY DEF Polled, Onward, InBudget, Phases
<1>2. InBudget'
  <2>1. CASE phase \in Deadlines /\ phase' = phase /\ clock' = clock /\ clock <= Deadline(phase)
    <3>1. clock' <= Deadline(phase') + 0
      BY <1>1, <2>1, DeadlineIs
    <3> QED
      BY <1>1, <3>1 DEF InBudget
  <2>2. CASE phase' = "ended"
    BY <1>1, <2>2 DEF InBudget, Deadlines
  <2>3. CASE <<phase, phase'>> \in Onward /\ clock' = IF phase = "open" THEN clock ELSE 0
    <3>1. CASE phase = "open"
      BY <1>1, <2>3, <3>1 DEF InBudget, Deadlines, Onward
    <3>2. CASE phase # "open"
      <4>1. clock' = 0 /\ phase' \in Deadlines
        BY <2>3, <3>2 DEF Onward, Deadlines
      <4>2. Deadline(phase') \in Nat
        BY <4>1, DeadlineIs
      <4>3. clock' <= Deadline(phase') + 0
        BY <4>1, <4>2
      <4> QED
        BY <1>1, <4>3 DEF InBudget
    <3> QED
      BY <3>1, <3>2
  <2> QED
    BY <2>1, <2>2, <2>3 DEF Polled
<1>3. SecondsLeft \in Nat /\ SecondsLeft' \in Nat
  BY <1>2, LeftIs, LeftIsNext DEF LeftByPhase
<1>4. SecondsLeft' <= SecondsLeft
  <2>1. CASE phase \in Deadlines /\ phase' = phase /\ clock' = clock
    BY <1>1, <1>2, <2>1, LeftIs, LeftIsNext DEF Deadlines, LeftByPhase
  <2>2. CASE phase' = "ended"
    BY <1>2, <1>3, <2>2, LeftIsNext DEF LeftByPhase
  <2>3. CASE <<phase, phase'>> \in Onward /\ clock' = IF phase = "open" THEN clock ELSE 0
    <3>0. DrainMax \in Nat /\ WarmupMax \in Nat /\ WindowLen \in Nat /\ QuiesceMax \in Nat
      BY WindowAssumption
    <3>1. CASE phase = "drain"
      <4>1. phase' = "quiesce" /\ clock' = 0 /\ clock <= DrainMax + 1
        BY <1>1, <2>3, <3>0, <3>1, DeadlineIs DEF Onward, InBudget, Deadlines
      <4> QED
        BY <1>1, <1>2, <3>0, <3>1, <4>1, LeftIs, LeftIsNext DEF LeftByPhase
    <3>2. CASE phase = "warmup"
      <4>1. phase' = "open" /\ clock' = 0 /\ clock <= WarmupMax + 1
        BY <1>1, <2>3, <3>0, <3>2, DeadlineIs DEF Onward, InBudget, Deadlines
      <4> QED
        BY <1>1, <1>2, <3>0, <3>2, <4>1, LeftIs, LeftIsNext DEF LeftByPhase
    <3>3. CASE phase = "open"
      <4>1. phase' = "closing" /\ clock <= WindowLen + 1
        BY <1>1, <2>3, <3>0, <3>3, DeadlineIs DEF Onward, InBudget, Deadlines
      <4> QED
        BY <1>1, <1>2, <3>0, <3>3, <4>1, LeftIs, LeftIsNext DEF LeftByPhase
    <3>4. CASE phase = "closing"
      <4>1. phase' = "quiesce" /\ clock' = 0
        BY <2>3, <3>4 DEF Onward
      <4> QED
        BY <1>1, <1>2, <3>0, <3>4, <4>1, LeftIs, LeftIsNext DEF LeftByPhase
    <3> QED
      BY <2>3, <3>1, <3>2, <3>3, <3>4 DEF Onward
  <2> QED
    BY <2>1, <2>2, <2>3 DEF Polled
<1>5. StepsLeft = 2 * SecondsLeft + 1 /\ StepsLeft' = 2 * SecondsLeft'
  BY <1>1, <1>3 DEF StepsLeft
<1>6. StepsLeft' < StepsLeft
  <2>1. PICK m \in Nat, l \in Nat : m = SecondsLeft /\ l = SecondsLeft'
    BY <1>3
  <2>2. l <= m
    BY <1>4, <2>1
  <2>3. 2 * l < 2 * m + 1
    BY <2>2
  <2> QED
    BY <1>5, <2>1, <2>3
<1> QED
  BY <1>2, <1>6

LEMMA StepsAreCounted == InBudget => StepsLeft \in Nat
<1> SUFFICES ASSUME InBudget PROVE StepsLeft \in Nat
  OBVIOUS
<1>1. SecondsLeft \in Nat
  BY LeftIs DEF LeftByPhase
<1> QED
  BY <1>1 DEF StepsLeft

\* hold_drain_window, hold_sustained_window and quiesce: whatever the arm does, whatever a
\* poll reads, and whatever the budgets are, every second and every poll leave fewer of
\* them, down to none: a window takes no more seconds than its deadlines add up to.
THEOREM RunsDown == Spec => BudgetsRunDown
<1>1. Init => InBudget
  <2> SUFFICES ASSUME Init PROVE InBudget
    OBVIOUS
  <2>1. phase \in {"drain", "warmup"} /\ clock = 0 /\ awake = FALSE
    BY DEF Init
  <2>2. Deadline(phase) \in Nat
    BY <2>1, DeadlineIs DEF Deadlines
  <2>3. clock <= Deadline(phase) + (IF awake THEN 1 ELSE 0)
    BY <2>1, <2>2
  <2> QED
    BY <2>1, <2>3 DEF InBudget, Phases
<1>2. InBudget /\ [Next]_vars => InBudget' /\ [StepsLeft' < StepsLeft]_vars
  <2>1. InBudget /\ Next => InBudget' /\ StepsLeft' < StepsLeft
    BY SleepRunsDown, PollRunsDown, DrainPolled, WarmupPolled, OpenPolled, ClosePolled,
       QuiescePolled DEF Next, Driver
  <2>2. InBudget /\ UNCHANGED vars => InBudget'
    BY DEF InBudget, vars
  <2> QED
    BY <2>1, <2>2
<1> QED
  BY <1>1, <1>2, StepsAreCounted, PTL DEF Spec, BudgetsRunDown

-----------------------------------------------------------------------------
(* The logs of a topic, their places and their messages.                   *)

AllLogs == Seq(Seq(Nat \X Gens))
Places(t) == Offsets(t, DOMAIN t)

LEMMA LogParts ==
  ASSUME NEW t \in AllLogs
  PROVE  /\ Len(t) \in Nat /\ DOMAIN t = 1..Len(t)
         /\ \A k \in DOMAIN t : /\ t[k] \in Seq(Nat \X Gens) /\ Len(t[k]) \in Nat
                                /\ DOMAIN t[k] = 1..Len(t[k])
                                /\ \A j \in DOMAIN t[k] : t[k][j] \in Nat \X Gens
<1>1. Len(t) \in Nat /\ DOMAIN t = 1..Len(t) /\ \A k \in DOMAIN t : t[k] \in Seq(Nat \X Gens)
  BY DEF AllLogs
<1> QED
  BY <1>1

LEMMA PlaceOf ==
  ASSUME NEW t
  PROVE  /\ \A k \in DOMAIN t : \A j \in DOMAIN t[k] : <<k, j>> \in Places(t)
         /\ \A x \in Places(t) : /\ x[1] \in DOMAIN t /\ x[2] \in DOMAIN t[x[1]]
                                 /\ x = <<x[1], x[2]>>
BY DEF Places, Offsets

LEMMA MessageOf ==
  ASSUME NEW t
  PROVE  /\ \A k \in DOMAIN t : \A j \in DOMAIN t[k] : t[k][j] \in Messages(t)
         /\ \A m \in Messages(t) : \E k \in DOMAIN t : \E j \in DOMAIN t[k] : m = t[k][j]
BY DEF Messages

LEMMA PlacesFinite ==
  ASSUME NEW t \in AllLogs
  PROVE  IsFiniteSet(Places(t)) /\ Cardinality(Places(t)) \in Nat
<1> DEFINE f == [k \in DOMAIN t |-> {k} \X DOMAIN t[k]]
           T == {{k} \X DOMAIN t[k] : k \in DOMAIN t}
<1>1. IsFiniteSet(DOMAIN t)
  <2>1. Len(t) \in Nat /\ DOMAIN t = 1..Len(t)
    BY LogParts
  <2>2. IsFiniteSet(1..Len(t))
    BY <2>1, FS_Interval
  <2> QED
    BY <2>1, <2>2
<1>2. f \in Surjection(DOMAIN t, T)
  BY DEF Surjection
<1>3. IsFiniteSet(T)
  <2> HIDE DEF f, T
  <2> QED
    BY <1>1, <1>2, FS_Surjection
<1>4. ASSUME NEW S \in T PROVE IsFiniteSet(S)
  <2>1. PICK k \in DOMAIN t : S = {k} \X DOMAIN t[k]
    BY <1>4
  <2>2. IsFiniteSet(DOMAIN t[k])
    <3>1. Len(t[k]) \in Nat /\ DOMAIN t[k] = 1..Len(t[k])
      BY LogParts
    <3>2. IsFiniteSet(1..Len(t[k]))
      BY <3>1, FS_Interval
    <3> QED
      BY <3>1, <3>2
  <2>3. IsFiniteSet({k})
    BY FS_Singleton
  <2> QED
    BY <2>1, <2>2, <2>3, FS_Product
<1>5. IsFiniteSet(UNION T)
  <2> HIDE DEF T
  <2> QED
    BY <1>3, <1>4, FS_UNION
<1> QED
  BY <1>5, FS_CardinalityType DEF Places, Offsets

\* The sum over all of a topic's partitions is the number of its places.
LEMMA DepthIsPlaces ==
  ASSUME NEW t \in AllLogs
  PROVE  Depth(t, Len(t), {}) = Cardinality(Places(t))
<1>1. (DOMAIN t \intersect 1..Len(t)) \ {} = DOMAIN t
  BY LogParts
<1> QED
  BY <1>1 DEF Depth, Places

LEMMA MessagesCounted ==
  ASSUME NEW t \in AllLogs
  PROVE  /\ IsFiniteSet(Messages(t)) /\ Cardinality(Messages(t)) \in Nat
         /\ Cardinality(Messages(t)) <= Cardinality(Places(t))
<1> DEFINE f == [x \in Places(t) |-> t[x[1]][x[2]]]
<1>1. f \in Surjection(Places(t), Messages(t))
  <2>1. \A x \in Places(t) : t[x[1]][x[2]] \in Messages(t)
    BY PlaceOf, MessageOf
  <2>2. ASSUME NEW m \in Messages(t) PROVE \E x \in Places(t) : f[x] = m
    <3>1. PICK k \in DOMAIN t : \E j \in DOMAIN t[k] : m = t[k][j]
      BY MessageOf
    <3>2. PICK j \in DOMAIN t[k] : m = t[k][j]
      BY <3>1
    <3>3. <<k, j>> \in Places(t) /\ f[<<k, j>>] = m
      BY <3>2, PlaceOf
    <3> QED
      BY <3>3
  <2> QED
    BY <2>1, <2>2 DEF Surjection
<1> HIDE DEF f
<1> QED
  BY <1>1, PlacesFinite, FS_Surjection, FS_CardinalityType

LEMMA MessageTyped ==
  ASSUME NEW t \in AllLogs, NEW m \in Messages(t)
  PROVE  m \in Nat \X Gens
BY LogParts, MessageOf

-----------------------------------------------------------------------------
(* A topic that one process wrote.                                         *)

Whole(g) == {Message(i, g) : i \in 0..(Batches - 1)}

\* Every message is one of the corpus, and no two places hold the same.
At(t, x) == t[x[1]][x[2]]
Orderly(t, g) ==
  /\ Messages(t) \subseteq Whole(g)
  /\ \A x, y \in Places(t) : At(t, x) = At(t, y) => x = y

\* Of n partitions each place has a batch_id of its own.
IdAt(n, k, j) == (k - 1) + (j - 1) * n

LEMMA IdBehind ==
  ASSUME NEW n \in Nat, NEW k \in 1..n, NEW l \in 1..n, NEW i \in Nat, NEW j \in Nat, i < j
  PROVE  IdAt(n, k, i) < IdAt(n, l, j)
<1>1. PICK d \in Nat : j = i + 1 + d
  <2>1. j - i - 1 \in Nat /\ j = i + 1 + (j - i - 1)
    OBVIOUS
  <2> QED
    BY <2>1
<1>2. (j - 1) * n = (i - 1) * n + n + d * n /\ d * n \in Nat
  BY <1>1
<1>3. (i - 1) * n \in Int
  OBVIOUS
<1> QED
  BY <1>2, <1>3 DEF IdAt

LEMMA IdUnique ==
  ASSUME NEW n \in Nat, NEW k \in 1..n, NEW l \in 1..n,
         NEW i \in Nat \ {0}, NEW j \in Nat \ {0}, IdAt(n, k, i) = IdAt(n, l, j)
  PROVE  k = l /\ i = j
<1>1. IdAt(n, k, i) \in Int /\ IdAt(n, l, j) \in Int
  BY DEF IdAt
<1>2. ~(i < j) /\ ~(j < i)
  BY <1>1, IdBehind
<1>3. i = j
  BY <1>2
<1>4. (i - 1) * n \in Int
  OBVIOUS
<1> QED
  BY <1>3, <1>4 DEF IdAt

LEMMA WholeCounted ==
  ASSUME NEW g
  PROVE  /\ Batches \in Nat
         /\ IsFiniteSet(Whole(g)) /\ Cardinality(Whole(g)) = Batches
<1> DEFINE f == [i \in 0..(Batches - 1) |-> Message(i, g)]
<1>1. Batches \in Nat /\ IsFiniteSet(0..(Batches - 1)) /\ Cardinality(0..(Batches - 1)) = Batches
  <2>1. Batches \in Nat /\ Batches >= 1
    BY TopicAssumption
  <2>2. /\ IsFiniteSet(0..(Batches - 1))
        /\ Cardinality(0..(Batches - 1)) =
             IF 0 > Batches - 1 THEN 0 ELSE (Batches - 1) - 0 + 1
    BY <2>1, FS_Interval
  <2> QED
    BY <2>1, <2>2
<1>2. f \in Surjection(0..(Batches - 1), Whole(g)) /\ f \in Injection(0..(Batches - 1), Whole(g))
  BY DEF Whole, Surjection, Injection, IsInjective, Message
<1> HIDE DEF f
<1> QED
  BY <1>1, <1>2, FS_Surjection

\* An orderly topic is no deeper than the corpus, and as deep only with all of it.
LEMMA OrderlyFits ==
  ASSUME NEW t \in AllLogs, NEW g, Orderly(t, g)
  PROVE  /\ Cardinality(Places(t)) <= Batches
         /\ Cardinality(Places(t)) = Batches => Messages(t) = Whole(g)
<1> DEFINE f == [x \in Places(t) |-> At(t, x)]
<1>1. \A x \in Places(t) : At(t, x) \in Messages(t)
  BY PlaceOf, MessageOf DEF At
<1>2. f \in Injection(Places(t), Whole(g))
  BY <1>1 DEF Orderly, Injection, IsInjective
<1>3. /\ Cardinality(Places(t)) <= Cardinality(Whole(g))
      /\ Cardinality(Places(t)) = Cardinality(Whole(g)) => f \in Surjection(Places(t), Whole(g))
  <2> HIDE DEF f
  <2> QED
    BY <1>2, WholeCounted, FS_Injection
<1>4. ASSUME f \in Surjection(Places(t), Whole(g)) PROVE Messages(t) = Whole(g)
  <2>1. \A m \in Whole(g) : \E x \in Places(t) : f[x] = m
    BY <1>4 DEF Surjection
  <2>2. \A m \in Whole(g) : m \in Messages(t)
    BY <1>1, <2>1
  <2> QED
    BY <2>2 DEF Orderly
<1> QED
  BY <1>3, <1>4, WholeCounted

\* Who sent all of the corpus to a topic of that many messages finds nothing else in it.
LEMMA NothingElse ==
  ASSUME NEW t \in AllLogs, NEW g, Whole(g) \subseteq Messages(t),
         Cardinality(Places(t)) = Batches
  PROVE  Messages(t) = Whole(g)
<1>1. /\ IsFiniteSet(Messages(t))
      /\ Cardinality(Messages(t)) <= Batches /\ Cardinality(Messages(t)) \in Nat
  BY MessagesCounted
<1>2. Cardinality(Whole(g)) <= Cardinality(Messages(t))
  BY <1>1, FS_Subset
<1>3. Cardinality(Messages(t)) = Cardinality(Whole(g))
  BY <1>1, <1>2, WholeCounted
<1> QED
  BY <1>1, <1>3, FS_Subset

LEMMA OrderlyEmpty ==
  ASSUME NEW t, NEW g, Messages(t) = {} PROVE Orderly(t, g)
<1>1. Places(t) = {}
  BY PlaceOf, MessageOf
<1> QED
  BY <1>1 DEF Orderly

\* A message more in one partition.
Longer(t, k, m) == [t EXCEPT ![k] = Append(t[k], m)]

LEMMA OneLonger ==
  ASSUME NEW t \in AllLogs, NEW k \in DOMAIN t, NEW m \in Nat \X Gens, NEW u, u = Longer(t, k, m)
  PROVE  /\ u \in AllLogs /\ Len(u) = Len(t) /\ DOMAIN u = DOMAIN t
         /\ Len(u[k]) = Len(t[k]) + 1 /\ DOMAIN u[k] = 1..(Len(t[k]) + 1)
         /\ u[k][Len(t[k]) + 1] = m
         /\ \A j \in DOMAIN t[k] : u[k][j] = t[k][j]
         /\ \A l \in DOMAIN t : l # k => u[l] = t[l]
<1>1. t[k] \in Seq(Nat \X Gens) /\ Len(t[k]) \in Nat /\ DOMAIN t[k] = 1..Len(t[k])
  BY LogParts
<1> DEFINE s == Append(t[k], m)
<1>2. /\ s \in Seq(Nat \X Gens) /\ Len(s) = Len(t[k]) + 1 /\ DOMAIN s = 1..(Len(t[k]) + 1)
      /\ s[Len(t[k]) + 1] = m /\ \A j \in 1..Len(t[k]) : s[j] = t[k][j]
  BY <1>1
<1> HIDE DEF s
<1>3. u = [t EXCEPT ![k] = s]
  BY DEF Longer, s
<1>4. u[k] = s /\ \A l \in DOMAIN t : l # k => u[l] = t[l]
  BY <1>3
<1>5. u \in AllLogs /\ Len(u) = Len(t) /\ DOMAIN u = DOMAIN t
  BY <1>2, <1>3 DEF AllLogs
<1> QED
  BY <1>1, <1>2, <1>4, <1>5

LEMMA LongerHolds ==
  ASSUME NEW t \in AllLogs, NEW k \in DOMAIN t, NEW m \in Nat \X Gens, NEW u, u = Longer(t, k, m)
  PROVE  /\ m \in Messages(u) /\ Messages(t) \subseteq Messages(u)
         /\ Cardinality(Places(u)) = Cardinality(Places(t)) + 1
<1>1. /\ Len(t[k]) \in Nat /\ DOMAIN t[k] = 1..Len(t[k])
  BY LogParts
<1> DEFINE e == Len(t[k]) + 1
<1>2. /\ u \in AllLogs /\ DOMAIN u = DOMAIN t /\ DOMAIN u[k] = 1..e /\ u[k][e] = m
      /\ \A j \in DOMAIN t[k] : u[k][j] = t[k][j]
      /\ \A l \in DOMAIN t : l # k => u[l] = t[l]
  BY OneLonger
<1>3. e \in DOMAIN u[k] /\ e \notin DOMAIN t[k] /\ DOMAIN u[k] = DOMAIN t[k] \union {e}
  BY <1>1, <1>2
<1> HIDE DEF e
<1>4. m \in Messages(u)
  BY <1>2, <1>3, MessageOf
<1>5. ASSUME NEW l \in DOMAIN t, NEW j \in DOMAIN t[l]
      PROVE  j \in DOMAIN u[l] /\ u[l][j] = t[l][j]
  BY <1>2, <1>3
<1>6. Messages(t) \subseteq Messages(u)
  <2>1. ASSUME NEW x \in Messages(t) PROVE x \in Messages(u)
    <3>1. PICK l \in DOMAIN t : \E j \in DOMAIN t[l] : x = t[l][j]
      BY MessageOf
    <3>2. PICK j \in DOMAIN t[l] : x = t[l][j]
      BY <3>1
    <3> QED
      BY <1>2, <1>5, <3>2, MessageOf
  <2> QED
    BY <2>1
<1>7. Places(u) = Places(t) \union {<<k, e>>} /\ <<k, e>> \notin Places(t)
  <2>1. \A x \in Places(u) : x \in Places(t) \union {<<k, e>>}
    <3>1. SUFFICES ASSUME NEW x \in Places(u) PROVE x \in Places(t) \/ x = <<k, e>>
      OBVIOUS
    <3>2. x[1] \in DOMAIN t /\ x[2] \in DOMAIN u[x[1]] /\ x = <<x[1], x[2]>>
      BY <1>2, PlaceOf
    <3>3. x[2] \in DOMAIN t[x[1]] \/ (x[1] = k /\ x[2] = e)
      BY <1>2, <1>3, <3>2
    <3> QED
      BY <3>2, <3>3, PlaceOf
  <2>2. \A x \in Places(t) : x \in Places(u)
    <3>1. SUFFICES ASSUME NEW x \in Places(t) PROVE x \in Places(u)
      OBVIOUS
    <3>2. x[1] \in DOMAIN t /\ x[2] \in DOMAIN t[x[1]] /\ x = <<x[1], x[2]>>
      BY PlaceOf
    <3>3. x[2] \in DOMAIN u[x[1]]
      BY <1>5, <3>2
    <3> QED
      BY <1>2, <3>2, <3>3, PlaceOf
  <2>3. <<k, e>> \in Places(u)
    BY <1>2, <1>3, PlaceOf
  <2>4. <<k, e>> \notin Places(t)
    <3>1. \A x \in Places(t) : x[2] \in DOMAIN t[x[1]]
      BY PlaceOf
    <3> QED
      BY <1>3, <3>1
  <2> QED
    BY <2>1, <2>2, <2>3, <2>4
<1>8. Cardinality(Places(u)) = Cardinality(Places(t)) + 1
  BY <1>7, PlacesFinite, FS_AddElement
<1> QED
  BY <1>4, <1>6, <1>8

\* A new message of the corpus keeps the topic orderly.
LEMMA OrderlyLonger ==
  ASSUME NEW t \in AllLogs, NEW k \in DOMAIN t, NEW m \in Nat \X Gens, NEW u, u = Longer(t, k, m),
         NEW g, Orderly(t, g), m \in Whole(g), m \notin Messages(t)
  PROVE  Orderly(u, g) /\ Messages(u) \subseteq Messages(t) \union {m}
<1>1. DOMAIN t[k] = 1..Len(t[k]) /\ Len(t[k]) \in Nat
  BY LogParts
<1>2. /\ DOMAIN u = DOMAIN t /\ DOMAIN u[k] = 1..(Len(t[k]) + 1)
      /\ u[k][Len(t[k]) + 1] = m
      /\ \A j \in DOMAIN t[k] : u[k][j] = t[k][j]
      /\ \A l \in DOMAIN t : l # k => u[l] = t[l]
  BY OneLonger
<1> DEFINE z == <<k, Len(t[k]) + 1>>
<1>3. ASSUME NEW x \in Places(u)
      PROVE  \/ x = z /\ At(u, x) = m
             \/ x \in Places(t) /\ At(u, x) = At(t, x) /\ At(t, x) \in Messages(t)
  <2>1. x[1] \in DOMAIN t /\ x[2] \in DOMAIN u[x[1]] /\ x = <<x[1], x[2]>>
    BY <1>2, PlaceOf
  <2>2. CASE x[1] = k /\ x[2] = Len(t[k]) + 1
    BY <1>2, <2>1, <2>2 DEF At
  <2>3. CASE x[1] # k \/ x[2] # Len(t[k]) + 1
    <3>1. x[2] \in DOMAIN t[x[1]] /\ u[x[1]][x[2]] = t[x[1]][x[2]]
      <4>1. CASE x[1] = k
        <5>1. x[2] \in 1..(Len(t[k]) + 1) /\ x[2] # Len(t[k]) + 1
          BY <1>2, <2>1, <2>3, <4>1
        <5>2. x[2] \in 1..Len(t[k])
          BY <1>1, <5>1
        <5> QED
          BY <1>1, <1>2, <4>1, <5>2
      <4>2. CASE x[1] # k
        BY <1>2, <2>1, <4>2
      <4> QED
        BY <4>1, <4>2
    <3> QED
      BY <2>1, <3>1, PlaceOf, MessageOf DEF At
  <2> QED
    BY <2>2, <2>3
<1>4. Messages(u) \subseteq Messages(t) \union {m}
  <2>1. ASSUME NEW w \in Messages(u) PROVE \E x \in Places(u) : At(u, x) = w
    <3>1. PICK l \in DOMAIN u : \E j \in DOMAIN u[l] : w = u[l][j]
      BY MessageOf
    <3>2. PICK j \in DOMAIN u[l] : w = u[l][j]
      BY <3>1
    <3>3. <<l, j>> \in Places(u) /\ At(u, <<l, j>>) = w
      BY <3>2, PlaceOf DEF At
    <3> QED
      BY <3>3
  <2> QED
    BY <1>3, <2>1
<1>5. \A x, y \in Places(u) : At(u, x) = At(u, y) => x = y
  <2> SUFFICES ASSUME NEW x \in Places(u), NEW y \in Places(u), At(u, x) = At(u, y) PROVE x = y
    OBVIOUS
  <2> HIDE DEF z
  <2> QED
    BY <1>3 DEF Orderly
<1> QED
  BY <1>4, <1>5 DEF Orderly
-----------------------------------------------------------------------------
(* Processes.                                                              *)

PrefillAts == {"ensure", "depth", "produce", "verify"}
Prefills ==
  {r \in [at : PrefillAts, parts : Partitions, gen : Gens,
          sent : UNION {[1..n -> Nat] : n \in Partitions}] : r.sent \in [1..r.parts -> Nat]}
Runs == [at : {"check", "drain"}, parts : Partitions, gen : Gens]
Jobs == {Idle} \union Prefills \union Runs

TopicTypes ==
  /\ partitions \in Partitions /\ gen \in Gens
  /\ topic \in AllLogs
  /\ proc \in [Procs -> Jobs]

LEMMA JobKinds ==
  ASSUME NEW r \in Jobs
  PROVE  /\ r.at \in PrefillAts => r \in Prefills
         /\ r.at \in {"check", "drain"} => r \in Runs
         /\ r.at \in {"idle", "check", "drain"} \union PrefillAts
BY DEF Jobs, Idle, Runs, Prefills, PrefillAts

LEMMA PrefillParts ==
  ASSUME NEW r \in Prefills
  PROVE  /\ r.at \in PrefillAts /\ r.parts \in Partitions /\ r.gen \in Gens
         /\ r.parts \in Nat /\ r.parts >= 1 /\ r.sent \in [1..r.parts -> Nat]
<1>1. /\ r.at \in PrefillAts /\ r.parts \in Partitions /\ r.gen \in Gens
      /\ r.sent \in [1..r.parts -> Nat]
  BY DEF Prefills
<1>2. r.parts \in Nat \ {0}
  BY <1>1, TopicAssumption
<1> QED
  BY <1>1, <1>2

LEMMA PrefillMoves ==
  ASSUME NEW r \in Prefills, NEW w \in PrefillAts, NEW n, n = [r EXCEPT !.at = w]
  PROVE  n \in Prefills /\ n.at = w /\ n.parts = r.parts /\ n.gen = r.gen /\ n.sent = r.sent
BY DEF Prefills

LEMMA RunMoves ==
  ASSUME NEW r \in Runs, NEW n, n = [r EXCEPT !.at = "drain"]
  PROVE  n \in Runs /\ n.at = "drain"
BY DEF Runs

\* A step of one process.
Alone(p) == \A q \in Procs : q # p => proc'[q] = proc[q]

LEMMA Moved ==
  ASSUME NEW p \in Procs, proc \in [Procs -> Jobs], NEW job, proc' = [proc EXCEPT ![p] = job]
  PROVE  proc'[p] = job /\ Alone(p) /\ (job \in Jobs => proc' \in [Procs -> Jobs])
BY DEF Alone

LEMMA Went ==
  ASSUME NEW p \in Procs, proc \in [Procs -> Jobs], proc[p] \in Prefills, NEW w \in PrefillAts,
         Goto(p, w)
  PROVE  /\ Alone(p) /\ proc' \in [Procs -> Jobs] /\ proc'[p] \in Prefills
         /\ proc'[p].at = w /\ proc'[p].parts = proc[p].parts /\ proc'[p].gen = proc[p].gen
         /\ proc'[p].sent = proc[p].sent
<1> DEFINE job == [proc[p] EXCEPT !.at = w]
<1>1. proc' = [proc EXCEPT ![p] = job]
  BY DEF Goto
<1>2. /\ job \in Prefills /\ job.at = w /\ job.parts = proc[p].parts /\ job.gen = proc[p].gen
      /\ job.sent = proc[p].sent
  BY PrefillMoves
<1>3. job \in Jobs
  BY <1>2 DEF Jobs
<1> HIDE DEF job
<1>4. proc'[p] = job /\ Alone(p) /\ proc' \in [Procs -> Jobs]
  BY <1>1, <1>3, Moved
<1> QED
  BY <1>2, <1>4

LEMMA Exited ==
  ASSUME NEW p \in Procs, proc \in [Procs -> Jobs], Exit(p)
  PROVE  Alone(p) /\ proc' \in [Procs -> Jobs] /\ proc'[p].at = "idle"
<1>1. proc'[p] = Idle /\ Alone(p) /\ (Idle \in Jobs => proc' \in [Procs -> Jobs])
  BY Moved DEF Exit
<1> QED
  BY <1>1 DEF Idle, Jobs

-----------------------------------------------------------------------------
(* The invariant.                                                          *)

Writing(q) == proc[q].at = "produce"

\* One process wrote the topic, no send was repeated, and it is the one looked at.
Single == doubt \subseteq {"unread", "lost"}
Same == "recreated" \notin doubt

\* Past ensure_topic the topic has the partitions asked for, and until it has looked at
\* the depth a prefill has sent nothing.
Shaped(q) == Same /\ proc[q].at \in {"depth", "produce", "verify"} => Len(topic) = proc[q].parts
Unsent(q) == proc[q].at \in {"ensure", "depth"} => \A k \in 1..proc[q].parts : proc[q].sent[k] = 0

\* What a producer has sent is on the topic, unless a delivery was lost.
Sent(q) ==
  Same /\ "lost" \notin doubt /\ Writing(q) =>
    \A k \in 1..proc[q].parts : \A j \in Nat : j < proc[q].sent[k] =>
      Message((k - 1) + j * proc[q].parts, proc[q].gen) \in Messages(topic)

\* A topic of one writer holds each message once, and with the writer still at work only
\* what it has sent: it is the only one at work.
One == Single => \E g \in Gens : Orderly(topic, g)
Behind(q, m) ==
  \E k \in 1..proc[q].parts : \E j \in Nat \ {0} :
    j <= proc[q].sent[k] /\ m = Message(IdAt(proc[q].parts, k, j), proc[q].gen)
Writer(q) ==
  Single /\ Writing(q) =>
    Orderly(topic, proc[q].gen) /\ \A m \in Messages(topic) : Behind(q, m)
Lone == Single => \A q, r \in Procs : Writing(q) /\ Writing(r) => q = r

\* And what is about to be verified is all there.
Full(q) ==
  proc[q].at = "verify" /\ doubt \subseteq {"lost"} => Cardinality(Places(topic)) = Batches

Part(q) == Shaped(q) /\ Unsent(q) /\ Sent(q) /\ Writer(q) /\ Full(q)
TopicInv == (\A q \in Procs : Part(q)) /\ One /\ Lone

LEMMA PartSame ==
  ASSUME NEW q \in Procs, Part(q), proc'[q] = proc[q], topic' = topic, doubt \subseteq doubt'
  PROVE  Part(q)'
<1>1. (Single' => Single) /\ (Same' => Same) /\ ("lost" \notin doubt' => "lost" \notin doubt)
      /\ (doubt' \subseteq {"lost"} => doubt \subseteq {"lost"})
  BY DEF Single, Same
<1>2. Shaped(q)' /\ Unsent(q)' /\ Sent(q)' /\ Full(q)'
  BY <1>1 DEF Part, Shaped, Unsent, Sent, Full, Writing
<1>3. Writer(q)'
  BY <1>1 DEF Part, Writer, Behind, Writing
<1> QED
  BY <1>2, <1>3 DEF Part

\* A step that leaves the topic alone.
LEMMA TopicStill ==
  ASSUME TopicInv, NEW p \in Procs, Alone(p), topic' = topic, doubt \subseteq doubt',
         Part(p)',
         Single' /\ Writing(p)' => Writing(p) \/ \A q \in Procs \ {p} : ~Writing(q)
  PROVE  TopicInv'
<1>1. \A q \in Procs : Part(q)'
  BY PartSame DEF TopicInv, Alone
<1>2. Single' => Single
  BY DEF Single
<1>3. One'
  BY <1>2 DEF TopicInv, One
<1>4. \A q \in Procs : q # p => (Writing(q)' <=> Writing(q))
  BY DEF Alone, Writing
<1>5. Lone'
  <2> SUFFICES ASSUME Single', NEW q \in Procs, NEW r \in Procs, Writing(q)', Writing(r)'
               PROVE  q = r
    BY DEF Lone
  <2>1. CASE q # p /\ r # p
    BY <1>2, <1>4, <2>1 DEF TopicInv, Lone
  <2>2. CASE q = p /\ r # p
    BY <1>2, <1>4, <2>2 DEF TopicInv, Lone
  <2>3. CASE q # p /\ r = p
    BY <1>2, <1>4, <2>3 DEF TopicInv, Lone
  <2> QED
    BY <2>1, <2>2, <2>3
<1> QED
  BY <1>1, <1>3, <1>5 DEF TopicInv

LEMMA Elsewhere ==
  ASSUME NEW p \in Procs, proc'[p].at \in {"idle", "check", "drain"}
  PROVE  Part(p)' /\ ~Writing(p)'
BY DEF Part, Shaped, Unsent, Sent, Writer, Full, Writing

LEMMA ExitInv ==
  ASSUME TopicTypes, TopicInv, NEW p \in Procs, Exit(p), topic' = topic, doubt \subseteq doubt',
         UNCHANGED <<partitions, gen>>
  PROVE  TopicTypes' /\ TopicInv'
<1>1. Alone(p) /\ proc' \in [Procs -> Jobs] /\ proc'[p].at = "idle"
  BY Exited DEF TopicTypes
<1> QED
  BY <1>1, Elsewhere, TopicStill DEF TopicTypes

\* What a read of the watermarks does: if it found them all there is no new doubt but the
\* one it was made for.
LEMMA ReadDoubt ==
  ASSUME NEW u, NEW why, Read(u, why)
  PROVE  /\ doubt \subseteq doubt' /\ why \subseteq doubt'
         /\ "unread" \notin doubt' => u = {}
         /\ doubt' \subseteq doubt \union why \union {"unread"}
BY DEF Read, Spent

\* From one call of a prefill to the next.
LEMMA GotoInv ==
  ASSUME TopicTypes, TopicInv, NEW p \in Procs, proc[p] \in Prefills, NEW w \in PrefillAts,
         Goto(p, w), topic' = topic, doubt \subseteq doubt', UNCHANGED <<partitions, gen>>,
         w # "ensure", Same' => Len(topic) = proc[p].parts,
         w \in {"depth", "produce"} => \A k \in 1..proc[p].parts : proc[p].sent[k] = 0,
         w = "produce" /\ Single' =>
           Messages(topic) = {} /\ \A q \in Procs \ {p} : ~Writing(q),
         w = "verify" /\ doubt' \subseteq {"lost"} => Cardinality(Places(topic)) = Batches
  PROVE  TopicTypes' /\ TopicInv'
<1>1. /\ Alone(p) /\ proc' \in [Procs -> Jobs]
      /\ proc'[p].at = w /\ proc'[p].parts = proc[p].parts /\ proc'[p].gen = proc[p].gen
      /\ proc'[p].sent = proc[p].sent
  BY Went DEF TopicTypes
<1>2. TopicTypes'
  BY <1>1 DEF TopicTypes
<1>3. Writer(p)'
  <2>1. SUFFICES ASSUME Single', w = "produce"
                 PROVE  Orderly(topic, proc'[p].gen) /\ \A m \in Messages(topic) : Behind(p, m)'
    BY <1>1 DEF Writer, Writing
  <2>2. Messages(topic) = {}
    BY <2>1
  <2> QED
    BY <2>2, OrderlyEmpty
<1>4. Sent(p)'
  <2>1. SUFFICES ASSUME w = "produce", NEW k \in 1..proc[p].parts, NEW j \in Nat,
                        j < proc[p].sent[k]
                 PROVE  FALSE
    BY <1>1 DEF Sent, Writing
  <2> QED
    BY <2>1
<1>5. Shaped(p)' /\ Unsent(p)' /\ Full(p)'
  BY <1>1 DEF Shaped, Unsent, Full
<1>6. Single' /\ Writing(p)' => \A q \in Procs \ {p} : ~Writing(q)
  BY <1>1 DEF Writing
<1>7. Part(p)'
  BY <1>3, <1>4, <1>5 DEF Part
<1> QED
  BY <1>1, <1>2, <1>6, <1>7, TopicStill

-----------------------------------------------------------------------------
(* The steps.                                                              *)

LEMMA EnsureTopicInv ==
  ASSUME TopicTypes, TopicInv, NEW p \in Procs, EnsureTopic(p) PROVE TopicTypes' /\ TopicInv'
<1>1. proc[p].at = "ensure" /\ doubt' = doubt /\ UNCHANGED <<partitions, gen>>
  BY DEF EnsureTopic, Quiet
<1>2. proc[p] \in Prefills
  BY <1>1, JobKinds DEF TopicTypes, PrefillAts
<1>3. Part(p)
  BY DEF TopicInv
<1>4. \A k \in 1..proc[p].parts : proc[p].sent[k] = 0
  BY <1>1, <1>3 DEF Part, Unsent
<1>5. "depth" \in PrefillAts /\ "depth" \notin {"ensure", "produce", "verify"}
  BY DEF PrefillAts
<1>6. CASE topic # NoTopic /\ Len(topic) = proc[p].parts
  <2>1. topic' = topic /\ Goto(p, "depth")
    BY <1>6 DEF EnsureTopic
  <2> QED
    BY <1>1, <1>2, <1>4, <1>5, <1>6, <2>1, GotoInv
<1>7. CASE topic # NoTopic /\ Len(topic) # proc[p].parts
  <2>1. topic' = topic /\ Exit(p)
    BY <1>7 DEF EnsureTopic
  <2> QED
    BY <1>1, <2>1, ExitInv
<1>8. CASE topic = NoTopic
  <2>1. topic' = [k \in 1..proc[p].parts |-> <<>>] /\ Goto(p, "depth")
    BY <1>8 DEF EnsureTopic
  <2>2. /\ Alone(p) /\ proc' \in [Procs -> Jobs]
        /\ proc'[p].at = "depth" /\ proc'[p].parts = proc[p].parts /\ proc'[p].sent = proc[p].sent
    BY <1>2, <1>5, <2>1, Went DEF TopicTypes
  <2>3. proc[p].parts \in Nat /\ proc[p].gen \in Gens
    BY <1>2, PrefillParts
  <2>4. /\ topic' \in AllLogs /\ Len(topic') = proc[p].parts
        /\ \A k \in DOMAIN topic' : DOMAIN topic'[k] = {}
    <3>1. PICK n : n = proc[p].parts
      OBVIOUS
    <3>2. PICK f : f = topic'
      OBVIOUS
    <3>3. f = [k \in 1..n |-> <<>>] /\ n \in Nat
      BY <2>1, <2>3, <3>1, <3>2
    <3>4. << >> \in Seq(Nat \X Gens) /\ DOMAIN << >> = {}
      OBVIOUS
    <3>5. f \in Seq(Seq(Nat \X Gens)) /\ Len(f) = n /\ DOMAIN f = 1..n
      BY <3>3, <3>4
    <3>6. \A k \in DOMAIN f : DOMAIN f[k] = {}
      BY <3>3, <3>4, <3>5
    <3> QED
      BY <3>1, <3>2, <3>5, <3>6 DEF AllLogs
  <2>5. TopicTypes'
    BY <1>1, <2>2, <2>4 DEF TopicTypes
  <2>6. Messages(topic') = {}
    BY <2>4, MessageOf
  <2>7. \A g \in Gens : Orderly(topic', g)
    BY <2>6, OrderlyEmpty
  <2>8. Part(p)'
    BY <1>4, <2>2, <2>4 DEF Part, Shaped, Unsent, Sent, Writer, Full, Writing
  <2>9. ASSUME NEW q \in Procs, q # p PROVE Part(q)'
    <3>1. proc'[q] = proc[q] /\ Part(q)
      BY <2>2, <2>9 DEF Alone, TopicInv
    <3>2. Len(topic) = 0
      BY <1>8 DEF NoTopic
    <3>3. ASSUME Same, proc[q].at \in {"depth", "produce", "verify"} PROVE FALSE
      <4>1. proc[q] \in Prefills
        BY <3>3, JobKinds DEF TopicTypes, PrefillAts
      <4>2. proc[q].parts >= 1 /\ proc[q].parts \in Nat
        BY <4>1, PrefillParts
      <4> QED
        BY <3>1, <3>2, <3>3, <4>2 DEF Part, Shaped
    <3>4. (Same' => Same) /\ (Single' => Same) /\ (doubt' \subseteq {"lost"} => Same)
      BY <1>1 DEF Same, Single
    <3>5. Shaped(q)' /\ Sent(q)' /\ Writer(q)' /\ Full(q)'
      BY <3>1, <3>3, <3>4 DEF Shaped, Sent, Writer, Full, Writing
    <3>6. Unsent(q)'
      BY <3>1 DEF Part, Unsent
    <3> QED
      BY <3>5, <3>6 DEF Part
  <2>10. One'
    BY <2>3, <2>7 DEF One
  <2>11. Lone'
    <3>1. ~Writing(p)' /\ \A q \in Procs : q # p => (Writing(q)' => Writing(q))
      BY <2>2 DEF Alone, Writing
    <3>2. Single' => Single
      BY <1>1 DEF Single
    <3> QED
      BY <3>1, <3>2 DEF TopicInv, Lone
  <2> QED
    BY <2>5, <2>8, <2>9, <2>10, <2>11 DEF TopicInv
<1> QED
  BY <1>6, <1>7, <1>8

LEMMA ReadDepthInv ==
  ASSUME TopicTypes, TopicInv, NEW p \in Procs, ReadDepth(p) PROVE TopicTypes' /\ TopicInv'
<1>1. proc[p].at = "depth" /\ topic' = topic /\ UNCHANGED <<partitions, gen>>
  BY DEF ReadDepth, Quiet
<1>2. PICK u \in Misses(proc[p].parts) :
        LET depth == Depth(topic, proc[p].parts, u)
            produces == ~Reusable(depth) /\ depth = 0
        IN /\ Read(u, IF produces /\ Written(p) THEN {"writers"} ELSE {})
           /\ IF Reusable(depth) THEN Goto(p, "verify")
              ELSE IF produces THEN Goto(p, "produce") ELSE Exit(p)
  BY DEF ReadDepth
<1>3. PICK d : d = Depth(topic, proc[p].parts, u)
  OBVIOUS
<1>4. PICK why : why = IF ~Reusable(d) /\ d = 0 /\ Written(p) THEN {"writers"} ELSE {}
  OBVIOUS
<1>5. /\ Read(u, why)
      /\ Reusable(d) => Goto(p, "verify")
      /\ ~Reusable(d) /\ d = 0 => Goto(p, "produce")
      /\ ~Reusable(d) /\ d # 0 => Exit(p)
  BY <1>2, <1>3, <1>4
<1>6. proc[p] \in Prefills
  BY <1>1, JobKinds DEF TopicTypes, PrefillAts
<1>7. \A k \in 1..proc[p].parts : proc[p].sent[k] = 0
  BY <1>1 DEF TopicInv, Part, Unsent
<1>8. doubt \subseteq doubt' /\ why \subseteq doubt' /\ ("unread" \notin doubt' => u = {})
  BY <1>5, ReadDoubt
<1>9. Same' => Len(topic) = proc[p].parts
  BY <1>1, <1>8 DEF TopicInv, Part, Shaped, Same
<1>10. CASE Reusable(d)
  <2>1. ASSUME doubt' \subseteq {"lost"} PROVE Cardinality(Places(topic)) = Batches
    <3>1. u = {} /\ Len(topic) = proc[p].parts
      BY <1>8, <1>9, <2>1 DEF Same
    <3> QED
      BY <1>3, <1>10, <3>1, DepthIsPlaces DEF Reusable, TopicTypes
  <2>2. "verify" \in PrefillAts /\ "verify" \notin {"ensure", "depth", "produce"}
    BY DEF PrefillAts
  <2>3. Goto(p, "verify")
    BY <1>5, <1>10
  <2> QED
    BY <1>1, <1>6, <1>8, <1>9, <2>1, <2>2, <2>3, GotoInv
<1>11. CASE ~Reusable(d) /\ d = 0
  <2>1. ASSUME Single' PROVE Messages(topic) = {} /\ \A q \in Procs \ {p} : ~Writing(q)
    <3>1. "writers" \notin doubt'
      BY <2>1 DEF Single
    <3>2. ~Written(p)
      BY <1>4, <1>8, <1>11, <3>1
    <3> QED
      BY <3>2 DEF Written, Writing
  <2>2. "produce" \in PrefillAts /\ "produce" \notin {"ensure", "verify"}
    BY DEF PrefillAts
  <2>3. Goto(p, "produce")
    BY <1>5, <1>11
  <2> QED
    BY <1>1, <1>6, <1>7, <1>8, <1>9, <2>1, <2>2, <2>3, GotoInv
<1>12. CASE ~Reusable(d) /\ d # 0
  <2>1. Exit(p)
    BY <1>5, <1>12
  <2> QED
    BY <1>1, <1>8, <2>1, ExitInv
<1> QED
  BY <1>10, <1>11, <1>12

LEMMA FlushInv ==
  ASSUME TopicTypes, TopicInv, NEW p \in Procs, Flush(p) PROVE TopicTypes' /\ TopicInv'
<1>1. proc[p].at = "produce" /\ topic' = topic /\ UNCHANGED <<partitions, gen>>
  BY DEF Flush, Quiet
<1>2. PICK u \in Misses(proc[p].parts) :
        /\ Read(u, {})
        /\ IF Landed(Depth(topic, proc[p].parts, u)) THEN Goto(p, "verify") ELSE Exit(p)
  BY DEF Flush
<1>3. proc[p] \in Prefills
  BY <1>1, JobKinds DEF TopicTypes, PrefillAts
<1>4. doubt \subseteq doubt' /\ ("unread" \notin doubt' => u = {})
  BY <1>2, ReadDoubt
<1>5. Same' => Len(topic) = proc[p].parts
  BY <1>1, <1>4 DEF TopicInv, Part, Shaped, Same
<1>6. CASE Landed(Depth(topic, proc[p].parts, u))
  <2>1. Goto(p, "verify")
    BY <1>2, <1>6
  <2>2. ASSUME doubt' \subseteq {"lost"} PROVE Cardinality(Places(topic)) = Batches
    <3>1. u = {} /\ Len(topic) = proc[p].parts
      BY <1>4, <1>5, <2>2 DEF Same
    <3> QED
      BY <1>6, <3>1, DepthIsPlaces DEF Landed, TopicTypes
  <2>3. "verify" \in PrefillAts /\ "verify" \notin {"ensure", "depth", "produce"}
    BY DEF PrefillAts
  <2> QED
    BY <1>1, <1>3, <1>4, <1>5, <2>1, <2>2, <2>3, GotoInv
<1>7. CASE ~Landed(Depth(topic, proc[p].parts, u))
  <2>1. Exit(p)
    BY <1>2, <1>7
  <2> QED
    BY <1>1, <1>4, <2>1, ExitInv
<1> QED
  BY <1>6, <1>7

\* One message more has been sent.
OneMore(r, k) == [r EXCEPT !.sent[k] = @ + 1]

LEMMA OneMoreSent ==
  ASSUME NEW r \in Prefills, NEW k \in 1..r.parts, NEW s, s = OneMore(r, k)
  PROVE  /\ s \in Prefills /\ s.at = r.at /\ s.parts = r.parts /\ s.gen = r.gen
         /\ s.sent[k] = r.sent[k] + 1
         /\ \A l \in 1..r.parts : l # k => s.sent[l] = r.sent[l]
<1> DEFINE c == [r.sent EXCEPT ![k] = @ + 1]
<1>1. r.sent \in [1..r.parts -> Nat] /\ r.parts \in Partitions /\ r.parts \in Nat
  BY PrefillParts
<1>2. /\ c \in [1..r.parts -> Nat] /\ c[k] = r.sent[k] + 1
      /\ \A l \in 1..r.parts : l # k => c[l] = r.sent[l]
  BY <1>1
<1>3. s = [r EXCEPT !.sent = c]
  BY <1>1 DEF OneMore
<1> HIDE DEF c
<1>4. c \in UNION {[1..n -> Nat] : n \in Partitions}
  BY <1>1, <1>2
<1>5. s \in Prefills /\ s.at = r.at /\ s.parts = r.parts /\ s.gen = r.gen /\ s.sent = c
  BY <1>2, <1>3, <1>4 DEF Prefills
<1> QED
  BY <1>2, <1>5

\* The message a producer is at, and the one before it.
LEMMA NextTyped ==
  ASSUME NEW p \in Procs, proc[p] \in Prefills, NEW k \in 1..proc[p].parts
  PROVE  /\ NextOf(p, k) \in Nat
         /\ Message(NextOf(p, k), proc[p].gen) \in Nat \X Gens
         /\ proc[p].sent[k] > 0 =>
              Message(NextOf(p, k) - proc[p].parts, proc[p].gen) \in Nat \X Gens
<1>1. /\ proc[p].parts \in Nat /\ proc[p].sent[k] \in Nat /\ proc[p].gen \in Gens
  BY PrefillParts
<1>2. NextOf(p, k) \in Nat
  BY <1>1 DEF NextOf
<1>3. ASSUME proc[p].sent[k] > 0 PROVE NextOf(p, k) - proc[p].parts \in Nat
  <2>1. PICK n, c, x : n = proc[p].parts /\ c = proc[p].sent[k] /\ x = NextOf(p, k)
    OBVIOUS
  <2>2. x = (k - 1) + c * n /\ n \in Nat /\ c \in Nat /\ c > 0 /\ k \in 1..n
    BY <1>1, <1>3, <2>1 DEF NextOf
  <2>3. PICK d \in Nat : c = d + 1
    BY <2>2
  <2>4. c * n = d * n + n /\ d * n \in Nat
    BY <2>2, <2>3
  <2>5. x - n \in Nat
    BY <2>2, <2>4
  <2> QED
    BY <2>1, <2>5
<1> QED
  BY <1>1, <1>2, <1>3 DEF Message

\* A longer topic keeps the shape, and what was sent.
LEMMA LongerKeeps ==
  ASSUME TopicTypes, NEW q \in Procs, Shaped(q), Unsent(q), Sent(q), proc'[q] = proc[q],
         Len(topic') = Len(topic), Messages(topic) \subseteq Messages(topic'),
         Same' => Same, "lost" \notin doubt' => "lost" \notin doubt
  PROVE  Shaped(q)' /\ Unsent(q)' /\ Sent(q)'
BY DEF Shaped, Unsent, Sent, Writing

LEMMA RedeliverInv ==
  ASSUME TopicTypes, TopicInv, NEW p \in Procs, Redeliver(p) PROVE TopicTypes' /\ TopicInv'
<1>1. /\ proc[p].at = "produce" /\ proc' = proc /\ UNCHANGED <<partitions, gen>>
      /\ doubt' = doubt \union {"retried"}
  BY DEF Redeliver, Quiet
<1>2. PICK k \in (1..proc[p].parts) \intersect DOMAIN topic :
        /\ proc[p].sent[k] > 0
        /\ topic' = [topic EXCEPT
             ![k] = Append(@, Message(NextOf(p, k) - proc[p].parts, proc[p].gen))]
  BY DEF Redeliver
<1>3. proc[p] \in Prefills /\ topic \in AllLogs
  BY <1>1, JobKinds DEF TopicTypes, PrefillAts
<1>4. PICK m : m = Message(NextOf(p, k) - proc[p].parts, proc[p].gen)
  OBVIOUS
<1>5. m \in Nat \X Gens
  BY <1>2, <1>3, <1>4, NextTyped
<1>6. topic' = Longer(topic, k, m)
  BY <1>2, <1>4 DEF Longer
<1>7. /\ topic' \in AllLogs /\ Len(topic') = Len(topic)
      /\ Messages(topic) \subseteq Messages(topic')
  <2>1. PICK t, u : t = topic /\ u = topic'
    OBVIOUS
  <2>2. t \in AllLogs /\ k \in DOMAIN t /\ u = Longer(t, k, m)
    BY <1>2, <1>3, <1>6, <2>1
  <2>3. u \in AllLogs /\ Len(u) = Len(t) /\ Messages(t) \subseteq Messages(u)
    BY <1>5, <2>2, OneLonger, LongerHolds
  <2> QED
    BY <2>1, <2>3
<1>8. TopicTypes'
  BY <1>1, <1>7 DEF TopicTypes
<1>9. /\ ~Single' /\ ~(doubt' \subseteq {"lost"})
      /\ (Same' => Same) /\ ("lost" \notin doubt' => "lost" \notin doubt)
  BY <1>1 DEF Single, Same
<1>10. ASSUME NEW q \in Procs PROVE Part(q)'
  <2>1. Shaped(q)' /\ Unsent(q)' /\ Sent(q)'
    BY <1>1, <1>7, <1>9, LongerKeeps DEF TopicInv, Part
  <2>2. Writer(q)' /\ Full(q)'
    BY <1>9 DEF Writer, Full
  <2> QED
    BY <2>1, <2>2 DEF Part
<1>11. One' /\ Lone'
  BY <1>9 DEF One, Lone
<1> QED
  BY <1>8, <1>10, <1>11 DEF TopicInv

\* One message more is behind the producer.
LEMMA OneMoreBehind ==
  ASSUME NEW p \in Procs, proc[p] \in Prefills, NEW k \in 1..proc[p].parts,
         proc'[p] = OneMore(proc[p], k), NEW x, x = Message(NextOf(p, k), proc[p].gen)
  PROVE  /\ \A m : Behind(p, m) => Behind(p, m)'
         /\ Behind(p, x)'
<1>1. /\ proc'[p].parts = proc[p].parts /\ proc'[p].gen = proc[p].gen
      /\ proc'[p].sent[k] = proc[p].sent[k] + 1
      /\ \A l \in 1..proc[p].parts : l # k => proc'[p].sent[l] = proc[p].sent[l]
  <2>1. PICK r, s : r = proc[p] /\ s = proc'[p]
    OBVIOUS
  <2> QED
    BY <2>1, OneMoreSent
<1>2. \A l \in 1..proc[p].parts : proc[p].sent[l] \in Nat
  BY PrefillParts
<1>3. ASSUME NEW m, Behind(p, m) PROVE Behind(p, m)'
  <2>1. PICK l \in 1..proc[p].parts : \E j \in Nat \ {0} :
          j <= proc[p].sent[l] /\ m = Message(IdAt(proc[p].parts, l, j), proc[p].gen)
    BY <1>3 DEF Behind
  <2>2. PICK j \in Nat \ {0} :
          j <= proc[p].sent[l] /\ m = Message(IdAt(proc[p].parts, l, j), proc[p].gen)
    BY <2>1
  <2>3. j <= proc'[p].sent[l]
    <3>1. proc'[p].sent[l] = proc[p].sent[l] \/ proc'[p].sent[l] = proc[p].sent[l] + 1
      BY <1>1
    <3> QED
      BY <1>2, <2>2, <3>1
  <2> QED
    BY <1>1, <2>2, <2>3 DEF Behind
<1>4. Behind(p, x)'
  <2>1. PICK j : j = proc[p].sent[k] + 1
    OBVIOUS
  <2>2. j \in Nat \ {0} /\ j - 1 = proc[p].sent[k] /\ j <= proc'[p].sent[k]
    BY <1>1, <1>2, <2>1
  <2>3. NextOf(p, k) = IdAt(proc'[p].parts, k, j)
    BY <1>1, <2>2 DEF NextOf, IdAt
  <2>4. x = Message(IdAt(proc'[p].parts, k, j), proc'[p].gen) /\ k \in 1..proc'[p].parts
    BY <1>1, <2>3
  <2> QED
    BY <2>2, <2>4 DEF Behind
<1> QED
  BY <1>3, <1>4

\* The next message is not behind the producer.
LEMMA NextIsNew ==
  ASSUME NEW p \in Procs, proc[p] \in Prefills, NEW k \in 1..proc[p].parts
  PROVE  ~Behind(p, Message(NextOf(p, k), proc[p].gen))
<1> SUFFICES ASSUME Behind(p, Message(NextOf(p, k), proc[p].gen)) PROVE FALSE
  OBVIOUS
<1>1. PICK n, c : n = proc[p].parts /\ c = proc[p].sent[k]
  OBVIOUS
<1>2. n \in Nat /\ k \in 1..n /\ c \in Nat
  BY <1>1, PrefillParts
<1>3. PICK l \in 1..proc[p].parts : \E j \in Nat \ {0} :
        /\ j <= proc[p].sent[l]
        /\ Message(NextOf(p, k), proc[p].gen) = Message(IdAt(proc[p].parts, l, j), proc[p].gen)
  BY DEF Behind
<1>4. PICK j \in Nat \ {0} :
        j <= proc[p].sent[l] /\ NextOf(p, k) = IdAt(n, l, j)
  BY <1>1, <1>3 DEF Message
<1>5. NextOf(p, k) = IdAt(n, k, c + 1)
  <2>1. (c + 1) - 1 = c
    BY <1>2
  <2> QED
    BY <1>1, <2>1 DEF NextOf, IdAt
<1>6. c + 1 \in Nat \ {0} /\ IdAt(n, k, c + 1) = IdAt(n, l, j) /\ l \in 1..n
  BY <1>1, <1>2, <1>3, <1>4, <1>5
<1>7. k = l /\ c + 1 = j
  BY <1>2, <1>6, IdUnique
<1> QED
  BY <1>1, <1>2, <1>4, <1>7

LEMMA LoseInv ==
  ASSUME TopicTypes, TopicInv, NEW p \in Procs, Lose(p) PROVE TopicTypes' /\ TopicInv'
<1>1. /\ proc[p].at = "produce" /\ topic' = topic /\ UNCHANGED <<partitions, gen>>
      /\ doubt' = doubt \union {"lost"}
  BY DEF Lose, Quiet
<1>2. PICK k \in 1..proc[p].parts : proc' = [proc EXCEPT ![p].sent[k] = @ + 1]
  BY DEF Lose
<1>3. proc[p] \in Prefills
  BY <1>1, JobKinds DEF TopicTypes, PrefillAts
<1>4. proc'[p] = OneMore(proc[p], k) /\ Alone(p)
  BY <1>2 DEF TopicTypes, Alone, OneMore
<1>5. /\ proc'[p] \in Prefills /\ proc'[p].at = "produce" /\ proc'[p].parts = proc[p].parts
      /\ proc'[p].gen = proc[p].gen
  <2>1. PICK r, s : r = proc[p] /\ s = proc'[p]
    OBVIOUS
  <2> QED
    BY <1>1, <1>3, <1>4, <2>1, OneMoreSent
<1>6. TopicTypes'
  <2>1. proc' \in [Procs -> Jobs]
    BY <1>2, <1>4, <1>5 DEF TopicTypes, Jobs, Alone
  <2> QED
    BY <1>1, <2>1 DEF TopicTypes
<1>7. (Single' => Single) /\ (Same' => Same)
  BY <1>1 DEF Single, Same
<1>8. Shaped(p)' /\ Unsent(p)' /\ Sent(p)' /\ Full(p)'
  BY <1>1, <1>5, <1>7 DEF TopicInv, Part, Shaped, Unsent, Sent, Full
<1>9. Writer(p)'
  <2>1. SUFFICES ASSUME Single
                 PROVE  Orderly(topic, proc[p].gen) /\ \A m \in Messages(topic) : Behind(p, m)'
    BY <1>1, <1>5, <1>7 DEF Writer
  <2>2. Orderly(topic, proc[p].gen) /\ \A m \in Messages(topic) : Behind(p, m)
    BY <1>1, <2>1 DEF TopicInv, Part, Writer, Writing
  <2> QED
    BY <1>3, <1>4, <2>2, OneMoreBehind
<1>10. Part(p)'
  BY <1>8, <1>9 DEF Part
<1> QED
  BY <1>1, <1>4, <1>6, <1>10, TopicStill DEF Writing

LEMMA DeliverInv ==
  ASSUME TopicTypes, TopicInv, NEW p \in Procs, Deliver(p) PROVE TopicTypes' /\ TopicInv'
<1>1. proc[p].at = "produce" /\ UNCHANGED <<partitions, gen>> /\ doubt' = doubt
  BY DEF Deliver, Quiet
<1>2. PICK k \in (1..proc[p].parts) \intersect DOMAIN topic :
        /\ NextOf(p, k) < Batches
        /\ topic' = [topic EXCEPT ![k] = Append(@, Message(NextOf(p, k), proc[p].gen))]
        /\ proc' = [proc EXCEPT ![p].sent[k] = @ + 1]
  BY DEF Deliver
<1>3. proc[p] \in Prefills /\ topic \in AllLogs
  BY <1>1, JobKinds DEF TopicTypes, PrefillAts
<1>4. PICK m : m = Message(NextOf(p, k), proc[p].gen)
  OBVIOUS
<1>5. m \in Nat \X Gens /\ NextOf(p, k) \in Nat
  BY <1>3, <1>4, NextTyped
<1>6. topic' = Longer(topic, k, m)
  BY <1>2, <1>4 DEF Longer
<1>7. PICK t, u : t = topic /\ u = topic'
  OBVIOUS
<1>8. /\ topic' \in AllLogs /\ Len(topic') = Len(topic)
      /\ m \in Messages(topic') /\ Messages(topic) \subseteq Messages(topic')
      /\ Cardinality(Places(topic')) = Cardinality(Places(topic)) + 1
  <2>1. t \in AllLogs /\ k \in DOMAIN t /\ u = Longer(t, k, m)
    BY <1>2, <1>3, <1>6, <1>7
  <2>2. /\ u \in AllLogs /\ Len(u) = Len(t) /\ m \in Messages(u)
        /\ Messages(t) \subseteq Messages(u)
        /\ Cardinality(Places(u)) = Cardinality(Places(t)) + 1
    BY <1>5, <2>1, OneLonger, LongerHolds
  <2> QED
    BY <1>7, <2>2
<1>9. proc'[p] = OneMore(proc[p], k) /\ Alone(p)
  BY <1>2 DEF TopicTypes, Alone, OneMore
<1>10. /\ proc'[p] \in Prefills /\ proc'[p].at = "produce" /\ proc'[p].parts = proc[p].parts
       /\ proc'[p].gen = proc[p].gen /\ proc'[p].sent[k] = proc[p].sent[k] + 1
       /\ \A l \in 1..proc[p].parts : l # k => proc'[p].sent[l] = proc[p].sent[l]
  <2>1. PICK r, s : r = proc[p] /\ s = proc'[p]
    OBVIOUS
  <2>2. r \in Prefills /\ k \in 1..r.parts /\ s = OneMore(r, k)
    BY <1>3, <1>9, <2>1
  <2>3. /\ s \in Prefills /\ s.at = r.at /\ s.parts = r.parts /\ s.gen = r.gen
        /\ s.sent[k] = r.sent[k] + 1
        /\ \A l \in 1..r.parts : l # k => s.sent[l] = r.sent[l]
    BY <2>2, OneMoreSent
  <2> QED
    BY <1>1, <2>1, <2>3
<1>11. TopicTypes'
  <2>1. proc' \in [Procs -> Jobs]
    BY <1>2, <1>9, <1>10 DEF TopicTypes, Jobs, Alone
  <2> QED
    BY <1>1, <1>8, <2>1 DEF TopicTypes
<1>12. (Single' <=> Single) /\ (Same' <=> Same)
  BY <1>1 DEF Single, Same
<1>13. ASSUME Single
       PROVE  /\ Orderly(topic', proc[p].gen)
              /\ \A w \in Messages(topic') : Behind(p, w)'
  <2>1. Orderly(topic, proc[p].gen) /\ \A w \in Messages(topic) : Behind(p, w)
    BY <1>1, <1>13 DEF TopicInv, Part, Writer, Writing
  <2>2. m \notin Messages(topic)
    BY <1>2, <1>3, <1>4, <2>1, NextIsNew
  <2>3. m \in Whole(proc[p].gen)
    <3>1. NextOf(p, k) \in 0..(Batches - 1)
      BY <1>2, <1>5, TopicAssumption
    <3> QED
      BY <1>4, <3>1 DEF Whole
  <2>4. Orderly(topic', proc[p].gen) /\ Messages(topic') \subseteq Messages(topic) \union {m}
    <3>1. PICK g : g = proc[p].gen
      OBVIOUS
    <3>2. /\ t \in AllLogs /\ k \in DOMAIN t /\ u = Longer(t, k, m)
          /\ Orderly(t, g) /\ m \in Whole(g) /\ m \notin Messages(t)
      BY <1>2, <1>3, <1>6, <1>7, <2>1, <2>2, <2>3, <3>1
    <3>3. Orderly(u, g) /\ Messages(u) \subseteq Messages(t) \union {m}
      BY <1>5, <3>2, OrderlyLonger
    <3> QED
      BY <1>7, <3>1, <3>3
  <2>5. \A w \in Messages(topic) \union {m} : Behind(p, w)'
    <3>1. (\A w : Behind(p, w) => Behind(p, w)') /\ Behind(p, m)'
      BY <1>2, <1>3, <1>4, <1>9, OneMoreBehind
    <3> QED
      BY <2>1, <3>1
  <2> QED
    BY <2>4, <2>5
<1>14. ASSUME Single, NEW q \in Procs, Writing(q) PROVE q = p
  BY <1>1, <1>14 DEF TopicInv, Lone, Writing
<1>15. ASSUME NEW q \in Procs, q # p PROVE Part(q)'
  <2>1. proc'[q] = proc[q] /\ Part(q)
    BY <1>9, <1>15 DEF Alone, TopicInv
  <2>2. Shaped(q)' /\ Unsent(q)' /\ Sent(q)'
    BY <1>1, <1>8, <1>12, <2>1, LongerKeeps DEF Part
  <2>3. Writer(q)'
    <3>1. Writing(q)' => Writing(q)
      BY <2>1 DEF Writing
    <3> QED
      BY <1>12, <1>14, <1>15, <3>1 DEF Writer
  <2>4. Full(q)'
    <3>1. SUFFICES ASSUME proc[q].at = "verify", doubt \subseteq {"lost"} PROVE FALSE
      BY <1>1, <2>1 DEF Full
    <3>2. Single
      BY <3>1 DEF Single
    <3>3. Cardinality(Places(topic)) = Batches
      BY <2>1, <3>1 DEF Part, Full
    <3>4. Cardinality(Places(topic')) <= Batches
      BY <1>8, <1>13, <3>2, OrderlyFits
    <3>5. Batches \in Nat
      BY TopicAssumption
    <3> QED
      BY <1>8, <3>3, <3>4, <3>5
  <2> QED
    BY <2>2, <2>3, <2>4 DEF Part
<1>16. Part(p)'
  <2>1. Shaped(p)' /\ Unsent(p)' /\ Full(p)'
    BY <1>1, <1>8, <1>10, <1>12 DEF TopicInv, Part, Shaped, Unsent, Full
  <2>2. Writer(p)'
    BY <1>10, <1>12, <1>13 DEF Writer
  <2>3. Sent(p)'
    <3>1. SUFFICES ASSUME Same, "lost" \notin doubt,
                          NEW l \in 1..proc[p].parts, NEW j \in Nat, j < proc'[p].sent[l]
                   PROVE  Message((l - 1) + j * proc[p].parts, proc[p].gen) \in Messages(topic')
      BY <1>1, <1>10, <1>12 DEF Sent
    <3>2. proc[p].sent[k] \in Nat
      BY <1>2, <1>3, PrefillParts
    <3>3. CASE j < proc[p].sent[l]
      BY <1>1, <1>8, <3>1, <3>3 DEF TopicInv, Part, Sent, Writing
    <3>4. CASE l = k /\ j = proc[p].sent[k]
      BY <1>4, <1>8, <3>4 DEF NextOf
    <3>5. l = k => j < proc[p].sent[k] \/ j = proc[p].sent[k]
      BY <1>10, <3>1, <3>2
    <3>6. l # k => j < proc[p].sent[l]
      BY <1>10, <3>1
    <3> QED
      BY <3>3, <3>4, <3>5, <3>6
  <2> QED
    BY <2>1, <2>2, <2>3 DEF Part
<1>17. One'
  <2>1. proc[p].gen \in Gens
    BY <1>3, PrefillParts
  <2> QED
    BY <1>12, <1>13, <2>1 DEF One
<1>18. Lone'
  <2>1. ASSUME Single', NEW q \in Procs, Writing(q)' PROVE q = p
    <3>1. q # p => Writing(q)
      BY <1>9, <2>1 DEF Alone, Writing
    <3> QED
      BY <1>12, <1>14, <2>1, <3>1
  <2> QED
    BY <2>1 DEF Lone
<1> QED
  BY <1>11, <1>15, <1>16, <1>17, <1>18 DEF TopicInv

LEMMA LaunchPrefillInv ==
  ASSUME TopicTypes, TopicInv, NEW p \in Procs, LaunchPrefill(p) PROVE TopicTypes' /\ TopicInv'
<1>1. proc[p] = Idle /\ UNCHANGED <<partitions, gen>>
  BY DEF LaunchPrefill, Quiet
<1>2. PICK fresh \in BOOLEAN :
        /\ proc' = [proc EXCEPT ![p] =
                      [at |-> "ensure", parts |-> partitions, gen |-> gen,
                       sent |-> [k \in 1..partitions |-> 0]]]
        /\ IF fresh
             THEN /\ topic' = NoTopic
                  /\ doubt' = IF \E q \in Procs : proc[q].at \notin {"idle", "ensure", "check"}
                               THEN {"recreated"} ELSE {}
             ELSE UNCHANGED <<topic, doubt>>
  BY DEF LaunchPrefill
<1> DEFINE zeros == [k \in 1..partitions |-> 0]
           job == [at |-> "ensure", parts |-> partitions, gen |-> gen, sent |-> zeros]
<1>3. partitions \in Partitions /\ gen \in Gens
  BY DEF TopicTypes
<1>4. zeros \in [1..partitions -> Nat] /\ \A k \in 1..partitions : zeros[k] = 0
  OBVIOUS
<1>5. job \in Jobs /\ job.at = "ensure" /\ job.parts = partitions /\ job.sent = zeros
  <2> HIDE DEF zeros
  <2>1. zeros \in UNION {[1..n -> Nat] : n \in Partitions}
    BY <1>3, <1>4
  <2> QED
    BY <1>3, <1>4, <2>1 DEF Jobs, Prefills, PrefillAts
<1>6. proc' = [proc EXCEPT ![p] = job]
  BY <1>2
<1> HIDE DEF job, zeros
<1>7. proc'[p] = job /\ Alone(p) /\ proc' \in [Procs -> Jobs]
  BY <1>5, <1>6, Moved DEF TopicTypes
<1>8. Part(p)' /\ ~Writing(p)'
  BY <1>4, <1>5, <1>7 DEF Part, Shaped, Unsent, Sent, Writer, Full, Writing
<1>9. CASE ~fresh
  <2>1. topic' = topic /\ doubt' = doubt
    BY <1>2, <1>9
  <2>2. TopicTypes'
    BY <1>1, <1>7, <2>1 DEF TopicTypes
  <2> QED
    BY <1>7, <1>8, <2>1, <2>2, TopicStill
<1>10. CASE fresh
  <2>1. topic' = NoTopic
        /\ doubt' = IF \E q \in Procs : proc[q].at \notin {"idle", "ensure", "check"}
                     THEN {"recreated"} ELSE {}
    BY <1>2, <1>10
  <2>2. topic' \in AllLogs /\ Messages(topic') = {}
    <3>1. << >> \in AllLogs /\ DOMAIN << >> = {}
      BY DEF AllLogs
    <3>2. Messages(<< >>) = {}
      BY <3>1, MessageOf
    <3> QED
      BY <2>1, <3>1, <3>2 DEF NoTopic
  <2>3. TopicTypes'
    BY <1>1, <1>7, <2>2 DEF TopicTypes
  <2>4. ASSUME NEW q \in Procs, q # p PROVE Part(q)' /\ (Single' => ~Writing(q)')
    <3>1. proc'[q] = proc[q]
      BY <1>7, <2>4 DEF Alone
    <3>2. CASE proc[q].at \notin {"idle", "ensure", "check"}
      <4>1. doubt' = {"recreated"}
        BY <2>1, <3>2
      <4>2. ~Single' /\ ~Same' /\ ~(doubt' \subseteq {"lost"})
        BY <4>1 DEF Single, Same
      <4>3. Unsent(q)'
        BY <3>1 DEF TopicInv, Part, Unsent
      <4> QED
        BY <4>2, <4>3 DEF Part, Shaped, Sent, Writer, Full
    <3>3. CASE proc[q].at \in {"idle", "check"}
      BY <3>1, <3>3, Elsewhere
    <3>4. CASE proc[q].at = "ensure"
      <4>1. Unsent(q)
        BY DEF TopicInv, Part
      <4> QED
        BY <3>1, <3>4, <4>1 DEF Part, Shaped, Unsent, Sent, Writer, Full, Writing
    <3> QED
      BY <3>2, <3>3, <3>4
  <2>5. One'
    <3>1. \A g \in Gens : Orderly(topic', g)
      BY <2>2, OrderlyEmpty
    <3> QED
      BY <1>3, <3>1 DEF One
  <2>6. Lone'
    BY <1>8, <2>4 DEF Lone
  <2> QED
    BY <1>8, <2>3, <2>4, <2>5, <2>6 DEF TopicInv
<1> QED
  BY <1>9, <1>10

LEMMA LaunchRunInv ==
  ASSUME TopicTypes, TopicInv, NEW p \in Procs, LaunchRun(p) PROVE TopicTypes' /\ TopicInv'
<1>1. /\ proc' = [proc EXCEPT ![p] = [at |-> "check", parts |-> partitions, gen |-> gen]]
      /\ topic' = topic /\ doubt' = doubt /\ UNCHANGED <<partitions, gen>>
  BY DEF LaunchRun, Quiet
<1> DEFINE job == [at |-> "check", parts |-> partitions, gen |-> gen]
<1>2. job \in Jobs /\ job.at = "check"
  BY DEF TopicTypes, Jobs, Runs
<1>3. proc' = [proc EXCEPT ![p] = job]
  BY <1>1
<1> HIDE DEF job
<1>4. proc'[p] = job /\ Alone(p) /\ proc' \in [Procs -> Jobs]
  BY <1>2, <1>3, Moved DEF TopicTypes
<1>5. TopicTypes'
  BY <1>1, <1>4 DEF TopicTypes
<1> QED
  BY <1>1, <1>2, <1>4, <1>5, Elsewhere, TopicStill

LEMMA CheckDepthInv ==
  ASSUME TopicTypes, TopicInv, NEW p \in Procs, CheckDepth(p) PROVE TopicTypes' /\ TopicInv'
<1>1. proc[p].at = "check" /\ topic' = topic /\ UNCHANGED <<partitions, gen>>
  BY DEF CheckDepth, Quiet
<1>2. PICK u \in Misses(proc[p].parts) :
        /\ Read(u, {})
        /\ IF Depth(topic, proc[p].parts, u) = Batches THEN Goto(p, "drain") ELSE Exit(p)
  BY DEF CheckDepth
<1>3. doubt \subseteq doubt'
  BY <1>2, ReadDoubt
<1>4. CASE Exit(p)
  BY <1>1, <1>3, <1>4, ExitInv
<1>5. CASE Goto(p, "drain")
  <2>1. proc[p] \in Runs
    BY <1>1, JobKinds DEF TopicTypes
  <2> DEFINE job == [proc[p] EXCEPT !.at = "drain"]
  <2>2. job \in Jobs /\ job.at = "drain"
    BY <2>1, RunMoves DEF Jobs
  <2>3. proc' = [proc EXCEPT ![p] = job]
    BY <1>5 DEF Goto
  <2> HIDE DEF job
  <2>4. proc'[p] = job /\ Alone(p) /\ proc' \in [Procs -> Jobs]
    BY <2>2, <2>3, Moved DEF TopicTypes
  <2>5. TopicTypes'
    BY <1>1, <2>4 DEF TopicTypes
  <2> QED
    BY <1>1, <1>3, <2>2, <2>4, <2>5, Elsewhere, TopicStill
<1> QED
  BY <1>2, <1>4, <1>5

\* Every way out.
LEMMA LeaveInv ==
  ASSUME TopicTypes, TopicInv, NEW p \in Procs, Verify(p) \/ Drain(p) \/ Die(p)
  PROVE  TopicTypes' /\ TopicInv'
<1>1. /\ Exit(p) /\ topic' = topic /\ doubt' = doubt /\ UNCHANGED <<partitions, gen>>
  BY DEF Verify, Drain, Die, Quiet
<1> QED
  BY <1>1, ExitInv

LEMMA HarnessInv ==
  ASSUME TopicTypes, TopicInv, NEW p \in Procs, Harness(p) PROVE TopicTypes' /\ TopicInv'
<1>1. \/ LaunchPrefill(p) \/ EnsureTopic(p) \/ ReadDepth(p) \/ Deliver(p) \/ Lose(p) \/ Redeliver(p)
      \/ Flush(p) \/ Verify(p) \/ LaunchRun(p) \/ CheckDepth(p) \/ Drain(p) \/ Die(p)
  BY DEF Harness
<1> QED
  BY <1>1, LaunchPrefillInv, EnsureTopicInv, ReadDepthInv, DeliverInv, LoseInv, RedeliverInv,
     FlushInv, LaunchRunInv, CheckDepthInv, LeaveInv

LEMMA TopicHolds == TopicSpec => [](TopicTypes /\ TopicInv)
<1>1. TopicInit => TopicTypes /\ TopicInv
  <2> SUFFICES ASSUME TopicInit PROVE TopicTypes /\ TopicInv
    OBVIOUS
  <2>1. \A q \in Procs : proc[q] = Idle /\ proc[q].at = "idle"
    BY DEF TopicInit, Idle
  <2>2. topic \in AllLogs /\ DOMAIN topic = {}
    BY DEF TopicInit, NoTopic, AllLogs
  <2>3. TopicTypes
    BY <2>2 DEF TopicInit, TopicTypes, Jobs
  <2>4. \A q \in Procs : Part(q) /\ ~Writing(q)
    BY <2>1 DEF Part, Shaped, Unsent, Sent, Writer, Full, Writing
  <2>5. One
    <3>1. Messages(topic) = {}
      BY <2>2, MessageOf
    <3>2. \A g \in Gens : Orderly(topic, g)
      BY <3>1, OrderlyEmpty
    <3> QED
      BY <2>3, <3>2 DEF TopicTypes, One
  <2> QED
    BY <2>3, <2>4, <2>5 DEF TopicInv, Lone
<1>2. TopicTypes /\ TopicInv /\ [TopicNext]_topicVars => (TopicTypes /\ TopicInv)'
  <2> SUFFICES ASSUME TopicTypes, TopicInv, [TopicNext]_topicVars PROVE TopicTypes' /\ TopicInv'
    OBVIOUS
  <2>1. ASSUME UNCHANGED <<topic, doubt, proc>>, partitions' \in Partitions, gen' \in Gens
        PROVE  TopicTypes' /\ TopicInv'
    <3>1. TopicTypes'
      BY <2>1 DEF TopicTypes
    <3>2. \A q \in Procs : Part(q)' /\ (Writing(q)' <=> Writing(q))
      BY <2>1, PartSame DEF TopicInv, Writing
    <3>3. One' /\ Lone'
      BY <2>1, <3>2 DEF TopicInv, One, Lone, Single
    <3> QED
      BY <3>1, <3>2, <3>3 DEF TopicInv
  <2>2. CASE Edit
    BY <2>1, <2>2 DEF Edit, TopicTypes
  <2>3. CASE \E p \in Procs : Harness(p)
    BY <2>3, HarnessInv
  <2>4. CASE UNCHANGED topicVars
    BY <2>1, <2>4 DEF topicVars, TopicTypes
  <2> QED
    BY <2>2, <2>3, <2>4 DEF TopicNext
<1> QED
  BY <1>1, <1>2, PTL DEF TopicSpec

-----------------------------------------------------------------------------
(* What a prefill leaves, what it takes for the corpus, what is published.  *)

\* A topic of the count that holds the corpus's messages is the corpus.
LEMMA CorpusOf ==
  ASSUME TopicTypes, NEW g, Messages(topic) = Whole(g), Cardinality(Places(topic)) = Batches
  PROVE  IsCorpus(topic, Len(topic), g)
BY DepthIsPlaces DEF IsCorpus, Whole, TopicTypes

\* Everything queued has been sent.
LEMMA AllSent ==
  ASSUME TopicTypes, NEW p \in Procs, proc[p] \in Prefills, proc[p].at = "produce", Sent(p),
         Same, "lost" \notin doubt, Flushed(p)
  PROVE  Whole(proc[p].gen) \subseteq Messages(topic)
<1>1. Batches \in Nat
  BY TopicAssumption
<1>2. PICK n : n = proc[p].parts
  OBVIOUS
<1>3. n \in Nat /\ n >= 1
  BY <1>2, PrefillParts
<1>4. ASSUME NEW i \in 0..(Batches - 1) PROVE Message(i, proc[p].gen) \in Messages(topic)
  <2>1. PICK j, x : j = i \div n /\ x = i % n
    OBVIOUS
  <2>2. j \in Nat /\ x \in 0..(n - 1) /\ i = n * j + x
    BY <1>1, <1>3, <2>1
  <2>3. PICK k \in 1..n : k - 1 = x
    <3>1. x + 1 \in 1..n /\ (x + 1) - 1 = x
      BY <1>3, <2>2
    <3> QED
      BY <3>1
  <2>4. i = (k - 1) + j * n
    BY <1>3, <2>2, <2>3
  <2>5. proc[p].sent[k] \in Nat
    BY <1>2, PrefillParts
  <2>6. (k - 1) + proc[p].sent[k] * n >= Batches
    BY <1>2 DEF Flushed, NextOf
  <2>7. j < proc[p].sent[k]
    <3>1. SUFFICES ASSUME ~(j < proc[p].sent[k]) PROVE FALSE
      OBVIOUS
    <3>2. PICK c : c = proc[p].sent[k]
      OBVIOUS
    <3>3. PICK d \in Nat : j = c + d
      <4>1. j - c \in Nat /\ j = c + (j - c)
        BY <2>2, <2>5, <3>1, <3>2
      <4> QED
        BY <4>1
    <3>4. j * n = c * n + d * n /\ d * n \in Nat /\ c * n \in Nat
      BY <1>3, <2>5, <3>2, <3>3
    <3>5. (k - 1) + c * n >= Batches
      BY <2>6, <3>2
    <3> QED
      BY <1>1, <1>3, <2>4, <3>4, <3>5
  <2> QED
    BY <1>2, <2>4, <2>7, <2>2 DEF Sent, Writing
<1> QED
  BY <1>4 DEF Whole

\* A prefill whose flush finds the count it sent has left the corpus of its generator in
\* the partitions it asked for, whoever else wrote meanwhile, unless a watermark could not
\* be read or the topic was recreated; a delivery that was lost is missed by the count, if
\* nobody else wrote and no send was repeated (prefill's depth check after flush).
THEOREM Produced == TopicSpec => ProducedIsCorpus
<1>1. TopicTypes /\ TopicInv /\ [TopicNext]_topicVars =>
        [\A p \in Procs :
           /\ Flush(p) /\ proc'[p].at = "verify"
           /\ {"unread", "recreated"} \intersect doubt' = {}
           /\ "lost" \in doubt' => doubt' = {"lost"}
           => IsCorpus(topic, proc[p].parts, proc[p].gen)]_topicVars
  <2> SUFFICES ASSUME TopicTypes, TopicInv, NEW p \in Procs, Flush(p), proc'[p].at = "verify",
                      {"unread", "recreated"} \intersect doubt' = {},
                      "lost" \in doubt' => doubt' = {"lost"}
               PROVE  IsCorpus(topic, proc[p].parts, proc[p].gen)
    OBVIOUS
  <2>1. proc[p].at = "produce" /\ Flushed(p)
    BY DEF Flush
  <2>2. PICK u \in Misses(proc[p].parts) :
          /\ Read(u, {})
          /\ IF Landed(Depth(topic, proc[p].parts, u)) THEN Goto(p, "verify") ELSE Exit(p)
    BY DEF Flush
  <2>3. proc[p] \in Prefills
    BY <2>1, JobKinds DEF TopicTypes, PrefillAts
  <2>4. doubt \subseteq doubt' /\ u = {}
    BY <2>2, ReadDoubt
  <2>5. Same /\ Len(topic) = proc[p].parts
    BY <2>1, <2>4 DEF TopicInv, Part, Shaped, Same
  <2>6. ~Exit(p)
    <3>1. Exit(p) => proc'[p].at = "idle"
      BY Exited DEF TopicTypes
    <3> QED
      BY <3>1
  <2>7. Cardinality(Places(topic)) = Batches
    BY <2>2, <2>4, <2>5, <2>6, DepthIsPlaces DEF Landed, TopicTypes
  <2>8. Messages(topic) = Whole(proc[p].gen)
    <3>1. CASE "lost" \notin doubt
      <4>1. Sent(p)
        BY DEF TopicInv, Part
      <4> QED
        BY <2>1, <2>3, <2>5, <2>7, <3>1, <4>1, AllSent, NothingElse DEF TopicTypes
    <3>2. CASE "lost" \in doubt
      <4>1. Single
        BY <2>4, <3>2 DEF Single
      <4>2. Orderly(topic, proc[p].gen)
        BY <2>1, <4>1 DEF TopicInv, Part, Writer, Writing
      <4> QED
        BY <2>7, <4>2, OrderlyFits DEF TopicTypes
    <3> QED
      BY <3>1, <3>2
  <2> QED
    BY <2>5, <2>7, <2>8, CorpusOf
<1> QED
  BY <1>1, TopicHolds, PTL DEF TopicSpec, ProducedIsCorpus

\* What a prefill verifies, having produced it or found it at the depth of the corpus, is
\* the corpus of its own generator after any kill and any lost delivery, if one process
\* wrote the topic, no send was repeated, every watermark was read and the topic was not
\* recreated under anybody (verify_corpus).
THEOREM Reused == TopicSpec => ReusedIsCorpus
<1>1. TopicTypes /\ TopicInv /\ [TopicNext]_topicVars =>
        [\A p \in Procs :
           Verify(p) /\ Verified(p) /\ doubt \subseteq {"lost"} =>
             IsCorpus(topic, proc[p].parts, proc[p].gen)]_topicVars
  <2> SUFFICES ASSUME TopicTypes, TopicInv, NEW p \in Procs, Verify(p), Verified(p),
                      doubt \subseteq {"lost"}
               PROVE  IsCorpus(topic, proc[p].parts, proc[p].gen)
    OBVIOUS
  <2>1. proc[p].at = "verify" /\ Single /\ Same
    BY DEF Verify, Single, Same
  <2>2. proc[p] \in Prefills
    BY <2>1, JobKinds DEF TopicTypes, PrefillAts
  <2>3. Len(topic) = proc[p].parts /\ Cardinality(Places(topic)) = Batches
    BY <2>1 DEF TopicInv, Part, Shaped, Full
  <2>4. PICK g \in Gens : Orderly(topic, g)
    BY <2>1 DEF TopicInv, One
  <2>5. Messages(topic) = Whole(g)
    BY <2>3, <2>4, OrderlyFits DEF TopicTypes
  <2>6. g = proc[p].gen
    <3>1. proc[p].parts \in Nat /\ proc[p].parts >= 1
      BY <2>2, PrefillParts
    <3>2. 1 \in DOMAIN topic /\ DOMAIN topic[1] = 1..Len(topic[1]) /\ Len(topic[1]) \in Nat
      <4>1. 1 \in DOMAIN topic
        BY <2>3, <3>1, LogParts DEF TopicTypes
      <4> QED
        BY <4>1, LogParts DEF TopicTypes
    <3>3. 1 \in 1..Sample /\ Len(topic[1]) >= Sample /\ Sample \in Nat /\ Sample >= 1
      BY TopicAssumption DEF Verified
    <3>4. topic[1][1][2] = proc[p].gen
      BY <3>3 DEF Verified, FieldsMatch
    <3>5. 1 \in DOMAIN topic[1]
      BY <3>2, <3>3
    <3>6. topic[1][1] \in Whole(g)
      BY <2>5, <3>2, <3>5, MessageOf
    <3> QED
      BY <3>4, <3>6 DEF Whole, Message
  <2> QED
    BY <2>3, <2>5, <2>6, CorpusOf
<1> QED
  BY <1>1, TopicHolds, PTL DEF TopicSpec, ReusedIsCorpus

\* A set of naturals that is not empty has a least element, and a finite one a greatest.
Smaller == {z \in Nat \X Nat : z[1] < z[2]}

LEMMA LeastNumber ==
  ASSUME NEW S \in SUBSET Nat, S # {}
  PROVE  \E m \in S : \A k \in S : m <= k
<1>1. IsWellFoundedOn(Smaller, Nat)
  BY NatLessThanWellFounded DEF OpToRel, Smaller
<1>2. PICK m \in S : \A k \in S : <<k, m>> \notin Smaller
  BY <1>1, WFMin
<1>3. ASSUME NEW k \in S PROVE m <= k
  <2>1. m \in Nat /\ k \in Nat /\ <<k, m>> \notin Smaller
    BY <1>2
  <2> QED
    BY <2>1 DEF Smaller
<1> QED
  BY <1>3

Topless(S) == S # {} /\ ~\E m \in S : \A k \in S : m >= k

LEMMA GreatestNumber ==
  ASSUME NEW S \in SUBSET Nat, S # {}, IsFiniteSet(S)
  PROVE  \E m \in S : \A k \in S : m >= k
<1> DEFINE Counts == {n \in Nat : \E T \in SUBSET Nat :
                        IsFiniteSet(T) /\ Cardinality(T) = n /\ Topless(T)}
<1>1. SUFFICES ASSUME Topless(S) PROVE FALSE
  BY DEF Topless
<1>2. Counts # {}
  BY <1>1, FS_CardinalityType
<1>3. PICK n \in Counts : \A c \in Counts : n <= c
  <2> HIDE DEF Counts
  <2>1. Counts \in SUBSET Nat
    BY DEF Counts
  <2> QED
    BY <1>2, <2>1, LeastNumber
<1>4. PICK T \in SUBSET Nat : IsFiniteSet(T) /\ Cardinality(T) = n /\ Topless(T)
  OBVIOUS
<1>5. PICK x \in T : TRUE
  BY <1>4 DEF Topless
<1>6. PICK R : R = T \ {x}
  OBVIOUS
<1>7. IsFiniteSet(R) /\ Cardinality(R) = n - 1 /\ R \in SUBSET Nat
  BY <1>4, <1>5, <1>6, FS_RemoveElement
<1>8. Cardinality(R) \in Nat
  BY <1>7, FS_CardinalityType
<1>9. ~Topless(R)
  BY <1>3, <1>7, <1>8
<1> HIDE DEF Counts
<1>10. CASE R = {}
  <2>1. \A k \in T : x >= k
    BY <1>4, <1>5, <1>6, <1>10
  <2> QED
    BY <1>4, <1>5, <2>1 DEF Topless
<1>11. CASE R # {}
  <2>1. PICK m \in R : \A k \in R : m >= k
    BY <1>9, <1>11 DEF Topless
  <2>2. m \in Nat /\ x \in Nat /\ m \in T
    BY <1>4, <1>5, <1>6, <2>1
  <2>3. CASE m >= x
    <3>1. \A k \in T : m >= k
      BY <1>6, <2>1, <2>3
    <3> QED
      BY <1>4, <2>2, <3>1 DEF Topless
  <2>4. CASE x >= m
    <3>1. ASSUME NEW k \in T PROVE x >= k
      <4>1. k = x \/ k \in R
        BY <1>6
      <4>2. k \in Nat
        BY <1>4
      <4> QED
        BY <2>1, <2>2, <2>4, <4>1, <4>2
    <3> QED
      BY <1>4, <1>5, <3>1 DEF Topless
  <2> QED
    BY <2>2, <2>3, <2>4
<1> QED
  BY <1>10, <1>11

LEMMA MinMax ==
  ASSUME NEW S \in SUBSET Nat, S # {}, IsFiniteSet(S)
  PROVE  /\ Min(S) \in S /\ Max(S) \in S
         /\ \A k \in S : Min(S) <= k /\ k <= Max(S)
<1>1. PICK m \in S : \A k \in S : m <= k
  BY LeastNumber
<1>2. Min(S) \in S /\ \A k \in S : Min(S) <= k
  BY <1>1 DEF Min
<1>3. PICK x \in S : \A k \in S : x >= k
  BY GreatestNumber
<1>4. Max(S) \in S /\ \A k \in S : Max(S) >= k
  BY <1>3 DEF Max
<1>5. \A k \in S : k \in Nat
  OBVIOUS
<1> QED
  BY <1>2, <1>4, <1>5

LEMMA IdsFinite ==
  ASSUME NEW t \in AllLogs
  PROVE  Ids(t) \in SUBSET Nat /\ IsFiniteSet(Ids(t))
<1> DEFINE f == [m \in Messages(t) |-> m[1]]
<1>1. f \in Surjection(Messages(t), Ids(t))
  BY DEF Surjection, Ids
<1>2. IsFiniteSet(Ids(t))
  <2> HIDE DEF f
  <2> QED
    BY <1>1, MessagesCounted, FS_Surjection
<1>3. \A m \in Messages(t) : m[1] \in Nat
  BY MessageTyped
<1> QED
  BY <1>2, <1>3 DEF Ids

\* The larger of two.
LEMMA MaxOfTwo ==
  ASSUME NEW a \in Int, NEW b \in Int
  PROVE  Max({a, b}) \in {a, b} /\ a <= Max({a, b}) /\ b <= Max({a, b})
<1>1. \E x \in {a, b} : \A y \in {a, b} : x >= y
  <2>1. CASE a >= b
    BY <2>1
  <2>2. CASE b >= a
    BY <2>2
  <2> QED
    BY <2>1, <2>2
<1>2. Max({a, b}) \in {a, b} /\ \A y \in {a, b} : Max({a, b}) >= y
  BY <1>1 DEF Max
<1> QED
  BY <1>2

\* What the gates say of a table that passes them.
LEMMA Gated ==
  ASSUME NEW t \in AllLogs, NEW g, GatesPass(Messages(t), g)
  PROVE  /\ \A i \in Min(Ids(t))..Max(Ids(t)) :
              Min(Ids(t)) < i /\ Max(Ids(t)) - GateMax <= i /\ i < Max(Ids(t)) =>
                /\ i \in Ids(t)
                /\ \A m \in Messages(t) : m[1] = i => m[2] = g
         /\ \E m \in Messages(t) : m[2] = g
<1> DEFINE lo == Max({Min(Ids(t)) + 1, Max(Ids(t)) - GateMax})
           hi == Max(Ids(t)) - 1
<1>1. /\ Messages(t) # {} /\ lo <= hi /\ lo..hi \subseteq Ids(t)
      /\ \A m \in Messages(t) : m[1] \in lo..hi => m[2] = g
  BY DEF GatesPass, SumsMatch, Ids
<1>2. Ids(t) # {} /\ Ids(t) \in SUBSET Nat /\ IsFiniteSet(Ids(t))
  BY <1>1, IdsFinite DEF Ids
<1>3. PICK a, z : a = Min(Ids(t)) /\ z = Max(Ids(t))
  OBVIOUS
<1>4. a \in Nat /\ z \in Nat
  BY <1>2, <1>3, MinMax
<1>5. hi = z - 1 /\ lo = Max({a + 1, z - GateMax})
  BY <1>3
<1> HIDE DEF lo, hi
<1>6. a + 1 \in Int /\ z - GateMax \in Int
  BY <1>4, TopicAssumption
<1>7. lo \in {a + 1, z - GateMax}
  BY <1>5, <1>6, MaxOfTwo
<1>8. lo \in Int /\ hi \in Int
  BY <1>4, <1>5, <1>6, <1>7
<1>9. ASSUME NEW i \in a..z, a < i, z - GateMax <= i, i < z
      PROVE  i \in Ids(t) /\ \A m \in Messages(t) : m[1] = i => m[2] = g
  <2>1. lo <= i
    <3>1. CASE lo = a + 1
      BY <1>4, <1>9, <3>1
    <3>2. CASE lo = z - GateMax
      BY <1>9, <3>2
    <3> QED
      BY <1>7, <3>1, <3>2
  <2>2. i \in lo..hi
    BY <1>4, <1>5, <1>8, <1>9, <2>1
  <2> QED
    BY <1>1, <2>2
<1>10. \E m \in Messages(t) : m[2] = g
  <2>1. lo \in lo..hi
    BY <1>1, <1>8
  <2>2. lo \in Ids(t)
    BY <1>1, <2>1
  <2>3. PICK m \in Messages(t) : m[1] = lo
    BY <2>2 DEF Ids
  <2> QED
    BY <1>1, <2>1, <2>3
<1> QED
  BY <1>3, <1>9, <1>10

LEMMA DrainPublishes ==
  ASSUME TopicTypes, TopicInv, NEW p \in Procs, Drain(p)
  PROVE  PublishedIsCorpus'
<1>1. /\ topic' = topic /\ doubt' = doubt
      /\ record' = IF /\ Depth(topic, Len(topic), {}) >= Batches
                       /\ GatesPass(Messages(topic), proc[p].gen)
                     THEN [parts |-> proc[p].parts, gen |-> proc[p].gen]
                     ELSE None
  BY DEF Drain
<1>2. CASE ~(/\ Depth(topic, Len(topic), {}) >= Batches
             /\ GatesPass(Messages(topic), proc[p].gen))
  <2>1. record' = None
    BY <1>1, <1>2
  <2> QED
    BY <2>1 DEF PublishedIsCorpus
<1>3. CASE /\ Depth(topic, Len(topic), {}) >= Batches
           /\ GatesPass(Messages(topic), proc[p].gen)
  <2>1. PICK g : g = proc[p].gen
    OBVIOUS
  <2>2. record'.gen = g
    BY <1>1, <1>3, <2>1
  <2>3. topic \in AllLogs /\ GatesPass(Messages(topic), g)
    BY <1>3, <2>1 DEF TopicTypes
  <2>4. /\ \A i \in Min(Ids(topic))..Max(Ids(topic)) :
             Min(Ids(topic)) < i /\ Max(Ids(topic)) - GateMax <= i /\ i < Max(Ids(topic)) =>
               /\ i \in Ids(topic)
               /\ \A m \in Messages(topic) : m[1] = i => m[2] = g
        /\ \E m \in Messages(topic) : m[2] = g
    BY <2>3, Gated
  <2>5. ASSUME doubt \subseteq {"unread", "lost"} PROVE IsCorpus(topic, Len(topic), g)
    <3>1. PICK h \in Gens : Orderly(topic, h)
      BY <2>5 DEF TopicInv, One, Single
    <3>2. Cardinality(Places(topic)) = Batches /\ Messages(topic) = Whole(h)
      <4>1. Cardinality(Places(topic)) >= Batches
        BY <1>3, <2>3, DepthIsPlaces
      <4>2. Cardinality(Places(topic)) \in Nat /\ Batches \in Nat
        BY <2>3, PlacesFinite, TopicAssumption
      <4> QED
        BY <2>3, <3>1, <4>1, <4>2, OrderlyFits
    <3>3. h = g
      BY <2>4, <3>2 DEF Whole, Message
    <3> QED
      BY <3>2, <3>3, CorpusOf
  <2> QED
    BY <1>1, <2>2, <2>4, <2>5 DEF PublishedIsCorpus
<1> QED
  BY <1>2, <1>3

\* What a drain published was read from has, from its last message down as far as the
\* gates look, no gap and no message of another generator; and it is the whole corpus when
\* one process wrote the topic, no send was repeated and it was not recreated under
\* anybody, lost deliveries or not (run_gates over the gated range).
THEOREM Published == TopicSpec => []PublishedIsCorpus
<1>1. TopicInit => PublishedIsCorpus
  BY DEF TopicInit, PublishedIsCorpus
<1>2. TopicTypes /\ TopicInv /\ PublishedIsCorpus /\ [TopicNext]_topicVars => PublishedIsCorpus'
  <2> SUFFICES ASSUME TopicTypes, TopicInv, PublishedIsCorpus, [TopicNext]_topicVars
               PROVE  PublishedIsCorpus'
    OBVIOUS
  <2>1. CASE record' = None
    BY <2>1 DEF PublishedIsCorpus
  <2>2. CASE Edit
    BY <2>1, <2>2 DEF Edit
  <2>3. ASSUME NEW p \in Procs, Harness(p) PROVE PublishedIsCorpus'
    <3>1. Drain(p) \/ record' = None
      BY <2>3 DEF Harness, LaunchPrefill, EnsureTopic, ReadDepth, Deliver, Lose, Redeliver, Flush,
                  Verify, LaunchRun, CheckDepth, Die, Quiet
    <3> QED
      BY <2>1, <3>1, DrainPublishes
  <2>4. CASE UNCHANGED topicVars
    BY <2>4 DEF topicVars, PublishedIsCorpus
  <2> QED
    BY <2>2, <2>3, <2>4 DEF TopicNext
<1> QED
  BY <1>1, <1>2, TopicHolds, PTL DEF TopicSpec

=============================================================================
