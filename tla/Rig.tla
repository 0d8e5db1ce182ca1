-------------------------------- MODULE Rig ---------------------------------
(***************************************************************************)
(* The two programs the ceiling pass runs in a container on the bench      *)
(* network and drives over a pipe: src/harness/src/fetcher.rs, one process *)
(* per consumer and three pipes between them and their parent, and         *)
(* src/harness/src/inserter.rs, one thread per slot behind a Barrier. The  *)
(* harness asks for a window with one RUN line and reads one line back     *)
(* without a timeout. The consume pass of ceiling.rs is the harness of the *)
(* fetcher: a calibration, then a window sized against the backlog.        *)
(***************************************************************************)
EXTENDS Integers, Sequences, FiniteSets, Functions

CONSTANTS
  Kinds,        \* the programs looked at: "fetcher", "inserter"
  Threads,      \* --threads: the consumers, or a rung's concurrency
  Partitions,   \* the topic's partition count
  Depths,       \* bound: messages a partition may hold
  Requested,    \* --seconds
  MinWindow,    \* CONSUME_WINDOW_MIN_S
  MaxRungs,     \* bound: rungs the ingest pass asks for
  MaxFetch,     \* bound: seconds one fetch or POST may take
  MaxFaults     \* bound: failures, of a worker, of the container or of the broker

ASSUME RigAssumption ==
  /\ Kinds \subseteq {"fetcher", "inserter"}
  /\ Threads \in Nat \ {0} /\ Partitions \in Nat \ {0}
  /\ Depths \subseteq Nat /\ Requested \in Nat \ {0} /\ MinWindow \in Nat \ {0}
  /\ MaxRungs \in Nat /\ MaxFetch \in Nat \ {0} /\ MaxFaults \in Nat

VARIABLES
  kind,
  \* The harness.
  stage,        \* what it is about to ask for, or waits for
  asked,        \* windows it has asked for
  calibrated,   \* <<messages, seconds>> of the calibration
  \* The container.
  prog,         \* what the program's main process does
  line,         \* the line on its stdout that the harness has not read
  depth,        \* messages on each partition
  \* Its workers.
  at,           \* what each worker does
  offset,       \* next offset of each partition
  count,        \* messages (or blocks) a worker has counted in this window
  clock,        \* seconds since its own start
  \* Between the program and its workers.
  ready,        \* ready bytes in the pipe or read, or arrivals at the Barrier
  started,      \* every worker has been told to start
  broken,       \* the Barrier was aborted
  answers,      \* what the workers have answered, in order
  faults

harness == <<stage, asked, calibrated>>
window == <<at, offset, count, clock, ready, started, broken, answers>>
rigVars == <<kind, harness, prog, line, depth, window, faults>>

Workers == 1..Threads
Split(w) == {p \in 1..Partitions : (p - 1) % Threads = w - 1}

\* A consumer that has no partitions drags the aggregate down.
FitsPartitions == Partitions >= Threads

Waiting == {"hello", "calibrate", "measure", "rung"}
Alive == {"early", "ready", "work"}

\* Mutant: the fastest worker's window.
ElapsedShortest == CHOOSE t \in {clock[w] : w \in Workers} : \A w \in Workers : t <= clock[w]

\* The longest worker's window, not the mean.
Elapsed == CHOOSE t \in {clock[w] : w \in Workers} : \A w \in Workers : clock[w] <= t

\* backlog_window: a consumer's backlog over its share of the fetch streams,
\* times seven tenths, and never longer than was asked for. A window is over
\* when it is over for the consumer that would run dry first.
Assigned(w) == SumFunctionOnSet(depth, Split(w))
Streams == Partitions
Needs(w, seconds) == 10 * calibrated[1] * Cardinality(Split(w)) * seconds
Offers(w) == 7 * Assigned(w) * Streams * calibrated[2]
TooShort == \E w \in Workers : Needs(w, MinWindow) > Offers(w)
Over(seconds) ==
  CASE stage = "calibrate" -> seconds >= 1
    [] stage = "measure"   -> seconds >= Requested
                                \/ \E w \in Workers : Needs(w, seconds) >= Offers(w)
    [] OTHER               -> seconds >= Requested

RigInit ==
  /\ kind \in Kinds
  /\ (kind = "fetcher" => FitsPartitions)
  /\ stage = "hello" /\ asked = 0 /\ calibrated = <<0, 0>>
  /\ prog = "hello" /\ line = <<>>
  /\ depth \in [1..Partitions -> Depths]
  /\ at = [w \in Workers |-> "none"]
  /\ offset = [p \in 1..Partitions |-> 0]
  /\ count = [w \in Workers |-> 0] /\ clock = [w \in Workers |-> 0]
  /\ ready = 0 /\ started = FALSE /\ broken = FALSE /\ answers = <<>>
  /\ faults = 0

-----------------------------------------------------------------------------
\* The workers.

Worker == UNCHANGED <<kind, harness, prog, line, depth>>
Answer(what) == answers' = Append(answers, what)

\* consumer(): connect, list the offsets, and one fetch outside the window. Its
\* messages are read and not counted. A thread has nothing to do here.
Arrive(w) ==
  /\ at[w] = "early" /\ at' = [at EXCEPT ![w] = "ready"] /\ ready' = ready + 1
  /\ \E got \in SUBSET (IF kind = "fetcher" THEN Split(w) ELSE {}) :
       /\ \A p \in got : offset[p] < depth[p]
       /\ offset' = [p \in DOMAIN offset |-> IF p \in got THEN offset[p] + 1 ELSE offset[p]]
  /\ UNCHANGED <<count, clock, started, broken, answers, faults>>
  /\ Worker

\* os.read(go_r), or the Barrier letting go.
Go == started /\ ~broken

Begin(w) ==
  /\ at[w] = "ready" /\ Go
  /\ at' = [at EXCEPT ![w] = "work"]
  /\ UNCHANGED <<offset, count, clock, ready, started, broken, answers, faults>>
  /\ Worker

\* A fetch of every partition of the consumer, which is served one message of
\* it a second while it has any, or a POST of a block. The worker looks at its
\* clock after the answer.
Work(w) ==
  /\ at[w] = "work" /\ ~Over(clock[w])
  /\ \E s \in 1..MaxFetch, got \in SUBSET (IF kind = "fetcher" THEN Split(w) ELSE {}) :
       /\ \A p \in got : offset[p] + s <= depth[p]
       /\ clock' = [clock EXCEPT ![w] = @ + s]
       /\ offset' = [p \in DOMAIN offset |-> IF p \in got THEN offset[p] + s ELSE offset[p]]
       /\ IF \E p \in Split(w) : kind = "fetcher" /\ offset'[p] >= depth[p]
            THEN /\ at' = [at EXCEPT ![w] = "exited"]
                 /\ Answer("drained")
                 /\ UNCHANGED count
            ELSE /\ count' = [count EXCEPT ![w] =
                                @ + (IF kind = "fetcher" THEN s * Cardinality(got) ELSE 1)]
                 /\ UNCHANGED <<at, answers>>
  /\ UNCHANGED <<ready, started, broken, faults>>
  /\ Worker

Done(w) ==
  /\ at[w] = "work" /\ Over(clock[w])
  /\ at' = [at EXCEPT ![w] = "exited"]
  /\ Answer("ok")
  /\ UNCHANGED <<offset, count, clock, ready, started, broken, faults>>
  /\ Worker

\* A broker, or a target, that refuses or stops answering: an exception, which
\* the worker turns into an answer. A thread appends to the errors and then
\* aborts the Barrier; both are one step for whoever still waits behind it.
Raise(w) ==
  /\ faults < MaxFaults /\ faults' = faults + 1
  /\ at[w] = "work"
  /\ at' = [at EXCEPT ![w] = "exited"]
  /\ Answer("error")
  /\ broken' = (broken \/ kind = "inserter")
  /\ UNCHANGED <<offset, count, clock, ready, started>>
  /\ Worker

\* The broker refuses the connections, the offsets or the first fetches of some
\* consumers.
RaiseEarly ==
  /\ kind = "fetcher" /\ faults < MaxFaults /\ faults' = faults + 1
  /\ \E S \in (SUBSET Workers) \ {{}} :
       /\ \A w \in S : at[w] = "early"
       /\ at' = [w \in Workers |-> IF w \in S THEN "exited" ELSE at[w]]
       /\ answers' = answers \o [i \in 1..Cardinality(S) |-> "error"]
  /\ UNCHANGED <<offset, count, clock, ready, started, broken>>
  /\ Worker

\* A process that is killed answers nothing; its ends of the pipes close.
Killed(w) ==
  /\ kind = "fetcher" /\ faults < MaxFaults /\ faults' = faults + 1
  /\ at[w] \in Alive
  /\ at' = [at EXCEPT ![w] = "exited"]
  /\ UNCHANGED <<offset, count, clock, ready, started, broken, answers>>
  /\ Worker

\* Mutant: a worker that finds the Barrier broken is the first to be heard.
BreakFirst(w) ==
  /\ at[w] = "ready" /\ broken
  /\ at' = [at EXCEPT ![w] = "exited"]
  /\ answers' = <<"broken">> \o answers
  /\ UNCHANGED <<offset, count, clock, ready, started, broken, faults>>
  /\ Worker

\* "Releases every thread still waiting to start": BrokenBarrierError.
Break(w) ==
  /\ at[w] = "ready" /\ broken
  /\ at' = [at EXCEPT ![w] = "exited"]
  /\ Answer("broken")
  /\ UNCHANGED <<offset, count, clock, ready, started, broken, faults>>
  /\ Worker

-----------------------------------------------------------------------------
\* The program's main process. It reads RUN, forks, waits for the workers to be
\* ready, says go, collects their answers and writes one line.

Main == UNCHANGED <<kind, harness, depth, faults>>

Hello ==
  /\ prog = "hello"
  /\ prog' = "command" /\ line' = <<"READY">>
  /\ UNCHANGED window
  /\ Main

HelloFails ==
  /\ prog = "hello"
  /\ prog' = "exited" /\ line' \in {<<"ERR">>, <<>>}
  /\ UNCHANGED window
  /\ Main

\* The container dies with everything in it.
ContainerDies ==
  /\ prog \notin {"hello", "exited", "gone"} /\ faults < MaxFaults /\ faults' = faults + 1
  /\ prog' = "exited" /\ line' = <<>>
  /\ at' = [w \in Workers |-> "exited"]
  /\ UNCHANGED <<kind, harness, depth, offset, count, clock, ready, started, broken, answers>>

\* run(): every worker starts from the earliest offsets.
Fork ==
  /\ prog = "run"
  /\ prog' = "barrier"
  /\ at' = [w \in Workers |-> "early"]
  /\ offset' = [p \in 1..Partitions |-> 0]
  /\ count' = [w \in Workers |-> 0] /\ clock' = [w \in Workers |-> 0]
  /\ ready' = 0 /\ started' = FALSE /\ broken' = FALSE /\ answers' = <<>>
  /\ UNCHANGED line
  /\ Main

\* The program counts the ready bytes, or the Barrier its parties: a consumer that
\* died after its byte counts.
AllReady == ready = Threads

Release ==
  /\ prog = "barrier" /\ AllReady
  /\ \E w \in Workers : at[w] # "exited"
  /\ prog' = "collect" /\ started' = TRUE
  /\ UNCHANGED <<line, at, offset, count, clock, ready, broken, answers>>
  /\ Main

\* All of them died after their bytes: the start signal is written to a pipe nobody
\* reads, and BrokenPipeError ends the program.
ReleaseNobody ==
  /\ prog = "barrier" /\ AllReady
  /\ \A w \in Workers : at[w] = "exited"
  /\ prog' = "exited"
  /\ UNCHANGED <<line, window>>
  /\ Main

\* Mutant: the parent keeps its own write end of the pipes open.
EofNever(S) == FALSE

\* A read returns nothing when no process has the write end open any more: the
\* parent closed its own, so when no worker lives.
Eof(S) == \A w \in Workers : at[w] \notin S

\* Mutant: a window whose workers are not all ready is begun again.
NotReadyAgain ==
  /\ prog = "barrier" /\ ~AllReady /\ Eof(Alive) /\ prog' = "run"
  /\ UNCHANGED <<line, window>>
  /\ Main

\* The ready bytes stop short: no start signal is written.
NotReady ==
  /\ prog = "barrier" /\ ~AllReady /\ Eof(Alive) /\ prog' = "collect"
  /\ UNCHANGED <<line, window>>
  /\ Main

\* Every answer has been read, or there are no more.
Collect ==
  /\ prog = "collect" /\ (Len(answers) = Threads \/ Eof(Alive))
  /\ prog' = "reap"
  /\ UNCHANGED <<line, window>>
  /\ Main

\* Mutant: the answers that did arrive are a figure.
BadNone == {}

\* The answers that are not OK.
Bad == {i \in DOMAIN answers : answers[i] # "ok"}

\* waitpid, or join, for every worker, and the line: the first answer that is
\* not OK, too few answers, or the sums over the longest window.
Reply ==
  /\ prog = "reap" /\ \A w \in Workers : at[w] \notin Alive
  /\ prog' = "command"
  /\ line' = IF Bad # {}
                THEN <<"ERR", answers[CHOOSE i \in Bad : \A j \in Bad : i <= j]>>
              ELSE IF Len(answers) < Threads THEN <<"ERR", "short">>
              ELSE <<"OK", SumFunctionOnSet(count, Workers), Elapsed>>
  /\ UNCHANGED window
  /\ Main

Program ==
  Hello \/ HelloFails \/ Fork \/ Release \/ ReleaseNobody \/ NotReady \/ Collect \/ Reply

-----------------------------------------------------------------------------
\* The harness.

\* Drop: "rm -f" by name takes the program and its workers.
Shutdown ==
  /\ prog' = "gone"
  /\ at' = [w \in Workers |-> "none"]

Stop ==
  /\ stage' = "ended"
  /\ Shutdown
  /\ UNCHANGED <<asked, calibrated, offset, count, clock, ready, started, broken, answers>>

Ask(next) ==
  /\ stage' = next /\ asked' = asked + 1
  /\ prog' = "run"
  /\ UNCHANGED window

\* measure_consume and measure_ingest after a line has been read.
Read ==
  /\ stage \in Waiting /\ line # <<>> /\ line' = <<>>
  /\ UNCHANGED <<kind, depth, faults>>
  /\ \/ /\ line[1] = "READY" /\ kind = "fetcher"
        /\ IF SumFunctionOnSet(depth, 1..Partitions) = 0 THEN Stop
                                           ELSE Ask("calibrate") /\ UNCHANGED calibrated
     \/ /\ line[1] = "READY" /\ kind = "inserter"
        /\ Ask("rung") /\ UNCHANGED calibrated
     \/ /\ line[1] = "ERR" \/ (line[1] = "OK" /\ (line[2] = 0 \/ line[3] = 0))
        /\ Stop
     \/ /\ line[1] = "OK" /\ line[2] > 0 /\ line[3] > 0 /\ stage = "calibrate"
        /\ calibrated' = <<line[2], line[3]>>
        /\ IF TooShort' THEN /\ stage' = "ended" /\ Shutdown
                           /\ UNCHANGED <<asked, offset, count, clock, ready, started,
                                          broken, answers>>
                      ELSE Ask("measure")
     \/ /\ line[1] = "OK" /\ line[2] > 0 /\ line[3] > 0 /\ stage = "measure"
        /\ Stop
     \/ /\ line[1] = "OK" /\ line[2] > 0 /\ line[3] > 0 /\ stage = "rung"
        /\ IF asked < MaxRungs THEN Ask("rung") /\ UNCHANGED calibrated ELSE Stop

\* A process of the container that is gone answers with the end of the pipe.
ReadEof ==
  /\ stage \in Waiting /\ line = <<>> /\ prog = "exited"
  /\ Stop
  /\ UNCHANGED <<kind, depth, faults, line>>

WorkerStep ==
  \E w \in Workers : Arrive(w) \/ Begin(w) \/ Work(w) \/ Done(w) \/ Break(w)

Fault == ContainerDies \/ RaiseEarly \/ \E w \in Workers : Raise(w) \/ Killed(w)

RigNext == Program \/ Read \/ ReadEof \/ WorkerStep \/ Fault

\* Processes and threads run on, brokers and targets answer within their
\* timeouts: each fetch or POST ends, as an answer or as an exception.
RigSpec ==
  /\ RigInit /\ [][RigNext]_rigVars
  /\ WF_rigVars(Program) /\ WF_rigVars(Read \/ ReadEof) /\ WF_rigVars(WorkerStep)

-----------------------------------------------------------------------------
\* A figure fits the longest of its workers' windows: in it a partition gives at most
\* one message a second of its consumer's own clock, and a thread's target at most one
\* block. No clock is shared, so this is not what was served in any one span of that
\* length: that is LongestCoversAll of MCRig, which the code does not keep.
FitsLongestWindow ==
  line # <<>> /\ line[1] = "OK" =>
    line[2] <= line[3] * (IF kind = "fetcher" THEN Partitions ELSE Threads)

\* No drained window, and no window in which a worker failed, is ever a figure.
NoPartialFigure ==
  line # <<>> /\ line[1] = "OK" =>
    \A w \in Workers : Over(clock[w]) /\
      (kind = "fetcher" => \A p \in Split(w) : offset[p] < depth[p])

\* What a refused window reports is the refusal itself, never that a worker was
\* released because of it: target_refused reads this string, and a rung the
\* target refused must not be charged to the rig.
CauseIsReported ==
  line # <<>> /\ line[1] = "ERR" => line \in {<<"ERR">>} \/ line[2] # "broken"

\* What is ahead: windows the pass may still ask for, the program's way through the one
\* it is in, a worker's way through its own.
WindowsLeft == (IF kind = "fetcher" THEN 2 ELSE IF MaxRungs > 1 THEN MaxRungs ELSE 1) - asked

ProgramLeft ==
  8 * WindowsLeft +
    (CASE prog = "hello" -> 7 [] prog = "run" -> 6 [] prog = "barrier" -> 5
       [] prog = "collect" -> 4 [] prog = "reap" -> 3 [] prog = "command" -> 2
       [] prog = "exited" -> 1 [] prog = "gone" -> 0)

WorkerLeft(w) ==
  CASE at[w] = "early" -> Requested + 3
    [] at[w] = "ready" -> Requested + 2
    [] at[w] = "work"  -> 1 + (IF clock[w] < Requested THEN Requested - clock[w] ELSE 0)
    [] OTHER           -> 0

WorkersRunDown ==
  /\ \A w \in Workers : WorkerLeft(w)' <= WorkerLeft(w)
  /\ \E w \in Workers : WorkerLeft(w)' < WorkerLeft(w)

\* The harness reads without a timeout, so everything on the other side of the pipe has
\* to run out by itself: every step, a failure's too, leaves the program less to do, or
\* the workers less of their windows while the program waits. Nothing is begun again,
\* however long fetches take, whoever fails and however the windows were sized: a
\* pass that does not end has come to a stop, and WindowAnswered says where.
PassRunsDown ==
  /\ [](ProgramLeft \in Nat /\ \A w \in Workers : WorkerLeft(w) \in Nat)
  /\ [][ProgramLeft' < ProgramLeft \/ (ProgramLeft' = ProgramLeft /\ WorkersRunDown)]_rigVars

\* The start is waited for by a consumer that is ready, and by the program for the
\* byte of one that is gone without: the pipe has no end while the first one lives.
Stranded ==
  /\ prog = "barrier" /\ ~AllReady
  /\ \A w \in Workers : at[w] \in {"ready", "exited"}
  /\ \E w \in Workers : at[w] = "ready"

\* Every window that is asked for is answered, but for that one case: the read of
\* the reply has no timeout, and the pass holds the arm lock meanwhile. "A broker
\* that stops answering must fail a window instead of hanging a pass".
WindowAnswered == PassRunsDown /\ (<>(stage = "ended") \/ <>[]Stranded)

\* What fetcher.rs 122 says without that case; Rig_hang.cfg has the counterexample.
AlwaysAnswered == <>(stage = "ended")
=============================================================================
