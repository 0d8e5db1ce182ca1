# A TLA+ model of the spate-benchmark harness

The harness (`src/harness/`) measures streaming ETL systems ("arms") that read
Avro messages from one Kafka-compatible broker and land rows in one ClickHouse
table. What it publishes are claims about other people's software, so its hard
part is not the arithmetic of a rate: it is that a figure belongs to the arm it
is recorded for, was taken over the interval it claims, and that a refusal
accuses nobody of what the harness did. These modules model the parts of it
whose correctness depends on order, interleaving, failure and time.

## The system

| Part | Code (`src/harness/src/` unless said otherwise) | State it keeps | Operations | Hard behaviour |
|---|---|---|---|---|
| Arm lock | `sampler.rs` 636-721 | a file with a pid at a fixed path | acquire, reclaim, force, drop | processes interleave at each file-system call and die at any of them |
| Sweep driver | `driver.rs` 510-1969 | the loop's position, two drop guards, ClickHouse objects, containers, the shared table, the results file | run, measure, run_arm, teardown, record | early returns, panics, kills, teardowns and removals that fail |
| Windows | `driver.rs` 1971-2258, 2947-3027 | counters over one-second polls, samplers, a producer | hold a drain, warm up and hold a sustained window, quiesce | unreadable polls, stalls, duplicates, dead containers, deadlines |
| Load generator | `corpus.rs` 808-1150 | threads with a producer queue each, a stop flag | start, send, deliver, stop, drop | threads read the flag at different times, full queues, failed deliveries |
| Correctness gates | `corpus.rs` 1310-1640 | none: three queries over the table | run_gates | ragged edges, duplicates, holes |
| Ingest ladder | `ceiling.rs` 2061-2762, 3133-3245 | the ladder's points, a table, an inserter container | prove, create, climb, conclude, put away | when to stop, leftovers of a killed pass, refusals on every line |
| Measuring rig | `fetcher.rs`, `inserter.rs`, `ceiling.rs` 1703-2010 | processes with pipes, threads behind a Barrier, a pipe to the harness | start, RUN, reply, calibrate, size a window | workers that fail or die at any point, reads without a timeout |
| Ceilings file, headroom gate | `ceiling.rs` 326-1215, `bin/bench.rs` 375-575 | a committed JSON file | load, merge, refuse, save, gate, headroom | figures of other envelopes, formats and generators in one file; writes that are cut off |
| Corpus, prefill | `corpus.rs` 60-645, 1152-1305, `driver.rs` 440-510 | the topic | generate, prefill, verify, drain | reuse of a topic of the right depth, kills, repeated sends, no lock |
| Infrastructure | `infra.rs`, `docker.rs`, `environment.rs` | broker and ClickHouse containers | bring_up | reuse, caps read back |
| Sampler, accounting | `sampler.rs` 52-640, `workload/sampler/sample.py`, `serverside.rs`, `jvm.rs` | one series per container, collector logs, the query log | start, stop, summarise, join, attribute | series that start apart, skip fields, die or lose their tail |
| Descriptors | `entrant.rs`, `driver.rs` 226-308, 1291-1343, 3012-3334 | `entrants/<id>/entrant.toml` | validate, plan, substitute, start, record | validation and a run read the same text by different code |
| Records and publication | `report.rs`, `results.rs`, `validate.rs`, `select.rs`, `bin/bench.rs`, `.github/aws/run-bench.sh`, `website/plugins/bench-data/index.js` | append-only files in several checkouts, the main branch, the page | select, append, upload, validate, merge, group, keep the latest sitting | writes that break off, files that are moved, records that must not be mixed |
| Insert encoders | `ceiling.rs` | none | encode a block | |

How they meet: `bench run` takes the arm lock, brings the infrastructure up (or
reuses it) and loops over repetitions and arms. For each it tears down what is
left of the arm's own ClickHouse objects, truncates the one shared table,
creates the objects, starts the containers, holds a window (which in sustained
mode runs the load generator), waits for the row count to settle, stops the
containers, computes the figures against the ceilings, runs the gates on the
table, tears the objects down and appends one record. `bench ceiling` takes the
same lock and measures the ceilings in a table of its own. The parts share the
broker, the ClickHouse tables, container names and one lock file; the arms are
outside and do what they do.

## What is correct

- **Lock.** One process at a time, and nobody's live lock is removed by another
  process, until the lock of a live holder is given up in one of three named
  ways; a stale lock is reclaimed if anybody else may remove it.
- **Sweep.** An arm's objects and containers exist only in its own repetition,
  on every exit; objects outlive the containers that insert through them; the
  table is truncated with the arm's own view gone; a record with figures rests
  on rows of its own repetition; every identified repetition is recorded.
- **Windows.** "Settled" means that everything offered has landed; a sustained
  window opens on an arm that is landing rows; every window ends.
- **Load and gates.** The stream is dense as far as every thread has gone; a
  gate passes nothing that is incomplete and fails nothing for its edges or its
  duplicates; stopping always ends.
- **Ladder.** What is published is a ceiling and not a floor, understated by at
  most the margin, from a rung whose rows stayed; everything is put away.
- **Rig.** A rate fits the longest of its workers' own windows; a window in
  which a worker failed or ran dry is no figure; a refusal keeps its cause;
  every window that is asked for is answered.
- **Ceilings.** A record that is not flagged was held to figures measured on
  containers with the caps its own had, from inside the network, at messages of
  its own size, unless something was done beside a live holder of the lock; a
  pass writes a file of one envelope and loses no figure it did not measure.
- **Topic.** What a prefill leaves, what it takes for left, and what a published
  drain has read is the corpus, with the exceptions that are named.
- **Accounting.** An arm's cost is that of all its containers; its footprint is
  one it had at some instant; a collector's and the server's figure are of the
  arm's own window, or absent.
- **Descriptors.** What validation accepts runs, but for five named causes, in
  the envelope it publishes and with the knobs it records.
- **Publication.** Nothing barred is behind the page; what is ranked is the
  latest sitting of its comparability group and was reproduced in it; a lost
  record is noticed.

## Modules

| Module | Models | Code |
|---|---|---|
| `ArmMutex` | abstract: a right held by at most one process until the lock of a live holder is given up | |
| `ArmLock` | `ArmLock::acquire`, `drop`, `pid_alive` | `sampler.rs` 636-721 |
| `Sweep` (`MCSweep`) | `run`, `measure`, `run_arm`, `ArmObjects`, `ArmContainers` | `driver.rs` 510-1969 |
| `Window` | `hold_drain_window`, `hold_sustained_window`, `quiesce` | `driver.rs` 1971-2258, 2963-3027 |
| `Gates` | the row checks of `run_gates`, as operators on a table | `corpus.rs` 1363-1384, 1514-1639 |
| `Load` (extends `Gates`) | `SustainedLoad` and the driver's use of it, then the gates on an arm's table | `corpus.rs` 298-316, 808-1150 |
| `Ladder` | `measure_ingest`, `Sweep`, `CeilingTable`, `Inserter` | `ceiling.rs` 2154-2255, 2390-2793, 3133-3245 |
| `Rig` (`MCRig`) | the programs inside `fetcher.rs` and `inserter.rs`, `measure_consume`, `backlog_window` | those files, `ceiling.rs` 1703-2010 |
| `Ceilings` (`MCCeilings`) | the ceilings file, `bench ceiling`, `gate`, `headroom`, `bring_up` | `ceiling.rs`, `environment.rs`, `infra.rs`, `driver.rs` |
| `Topic` (`MCTopic`) | `prefill`, `ensure_topic`, `verify_corpus`, the drain of a sweep and its gates | `corpus.rs`, `kafka.rs`, `driver.rs` |
| `Accounting` (`MCAccounting`) | samplers, `summarise`, `SutCost::sum`, `simultaneous_peak_anon`, `read_gc`, `measure_server_side` | `sampler.rs`, `sample.py`, `jvm.rs`, `serverside.rs`, `driver.rs` |
| `Publication` (`MCPublication`) | `expand`, `append`, `validate`, the upload, merges, the data plugin of the site | `select.rs`, `results.rs`, `validate.rs`, `run-bench.sh`, `index.js` |
| `Descriptor` (`MCDescriptor`) | `load_all`, and every place where `driver.rs` reads a descriptor again | `entrant.rs`, `driver.rs` |
| `ArmLock_proof`, `Driver_proof`, `Drain_proof`, `Load_proof`, `CeilingPass_proof`, `Ceilings_proof`, `Descriptor_proof`, `Publication_proof` | the theorems | |

How they correspond to the code:

- **`ArmLock`.** `pc[p]` is the call a process is about to make: `force`
  (FORCE_UNLOCK's removal), `open` (`create_new`), `write` (the pid), `read`,
  `probe` (`kill -0`), `reclaim` (the stale removal), `hold`. `file` is the
  inode at `LOCK_PATH`, so a write through an old descriptor does not reach a
  new file. A process is its pid: launching it again is pid reuse. `Overlap`
  says whether two processes may be inside `acquire` together. `Guests` belong
  to a second user: `kill -0` gets EPERM from their processes, so `pid_alive`
  answers as for a dead one, and `Sticky` says that their files cannot be
  removed from the directory, as in `/tmp`. Any call may fail for want of a
  resource (`faults`): a `kill` that cannot be spawned reads as a dead holder,
  and the error of a removal is ignored and the loop entered again, as often
  as it takes. `behind` and `amiss` are history: who read a file that
  has gone since, and why the lock of a live owner was given up, `forced` by
  FORCE_UNLOCK, `erred` by the probe or `raced` between read and removal.
- **`Sweep`.** `pc` walks through the steps of `measure` and `run_arm` in the
  order of the source; `Refuse`, `Panic` and `Unwind` are the `?`, the asserting
  `clickhouse_sql` or failed `docker run`, and the drops in reverse order of
  declaration. `armed` and `registered` are the two guards. `Land` is the arm:
  rows appear while its containers are up, through its view if it has one.
  `owed`, `leaked`, `strays` and `tainted` are history variables: nothing in the
  model's control reads them. The samples, figures and notes are not there.
- **`Window`.** One step sleeps (and the arm does something in that second),
  the next polls and decides. Every poll may be unreadable. `sound` says that the
  arm loses nothing and never stalls for longer than `MaxStall`: only
  `SettledIsComplete` supposes it. `stall` and `rising` are history.
- **`Load`.** `CheckStop`, `Send`, `Flush` are the thread's loop; `Delivered`
  and `Failed` the client's reports; `Stop`, `Drop`, `Join`, `Report` the
  driver. The queue is bounded. When the load is accepted the arm's table is any
  part of the topic's rows (up to `MaxMissing` missing, up to `MaxAgain` twice)
  and `RunGates` gives the verdict.
- **`Ladder`.** `next`, `points`, `best`, `misses` are the struct's fields, with
  `best` counted from 1. The ceiling table and the inserter are what a killed
  pass may have left; `proof` says that proof rows are still in the arms' table.
- **`Rig`.** Both programs in one module, `kind` saying which. `prog` is the main
  process, `at[w]` a forked consumer or a thread, `ready` the ready bytes that
  were written or the arrivals at the Barrier, `started` the bytes in the go
  pipe or the Barrier's release, `answers` the result pipe or the error list. A
  consumer that is killed after its byte still counts, go is written and the
  window answered; one that is killed before it leaves the parent waiting
  (`Stranded`). A fetch or a POST takes `1..MaxFetch` seconds and a partition is
  served one message a second, so a rate can be compared with what was there.
  There is no common clock: `clock[w]` counts from the worker's own `Begin`, and
  `Elapsed` is the longest of them. `Over` is the window: fixed, or
  `backlog_window` of the calibration. `MCRig` adds the history `behind`, how
  much later than the first one a worker's clock was started.
- **`Ceilings`.** `proc` holds what a process read when it started (its profile's
  digest and generator) and what it has measured; `running` the envelope each
  container was started from, `topic` whose messages the broker holds. An
  envelope is a digest, and `Caps` the cpus and memory it gives each container:
  two digests can give the same, and `CapsMatch` reads back only those. `Gate`
  and `Headroom` are the functions of those names; a measured arm is one step
  that leaves a `record`. `holder` is the lock file's owner: a kill leaves the
  file behind (`Dead`) until the next `acquire` reclaims it, and `GiveUp` is any
  of the three ways in which a live holder loses it. `disturbed`, `good` and the
  field `under` of a figure are history: that something was done beside a live
  holder, the last content of the file that could be parsed, and the envelope
  the measured container was started from. A write is two steps, with `Torn` in
  between.
- **`Topic`.** A message is its `batch_id` and its generator, a partition a
  sequence of them. A delivery that fails for good is dropped: there is no
  delivery callback, and `flush` knows only that its queue is empty (`Lose`,
  `Flush`). The gates look strictly between the first and the last message and
  no further below the last than `GateMax` (`GATE_MAX_BATCHES`). A fresh prefill
  may recreate the broker under whoever works on it. `doubt` is history: a
  second writer, a send that was repeated, one that was lost, a watermark that
  could not be read, a topic recreated under somebody.
- **`Accounting`.** A tick is half a second. `step` walks through `run_arm` from
  the samplers' start to the query log; `sampler` are the lines each produced,
  with -1 for what it could not read. An insert has a start and may still be
  running when the log is read; an asynchronous one may have landed in a buffer
  and may lack the server's mark (`unmarked`). The log at `gc_log` is a JVM's own,
  torn or rotated or not, or another JVM's. `pauses` and `inserts` are history,
  what really happened in the window.
- **`Publication`.** A file is its lines and whether the last has its newline; a
  checkout has one file of `results/` and one of `tuning/`. A contributor's
  checkout lives on after its merge, brought up to date or not; a cloud box
  uploads what it appended. `United` is a merge of lines (`merge=union`), and the
  page is rebuilt at every merge. A row of the page is the set of repetitions
  behind it: the site's arrays are only read through their members, their newest
  timestamp and their worst status. A sweep has a comparability group
  (environment, harness, dataset, infrastructure, mode), and a system's version
  can change in the middle of one: a sitting split over two versions gives two
  rows, attempts are told apart by group, and a sitting supersedes an older one
  only within its group.
- **`Descriptor`.** `desc` is the parsed file, `Validates` `load_one`'s `validate`
  with one operator per function of the source. `stage` then follows the
  descriptor through plan, identification, SQL, specs, container starts and the
  window. `Ends` says which container names are suffixes of which full names. A
  cap of 0 is no limit, docker takes texts the harness does not read (`1.5g`,
  `DockerOnly`) and refuses more cores than the host has (`HostCpus`) and less
  memory than its minimum (`MinMemory`), and the kernel rounds memory down to
  pages: `Limits` is what a sampler then reads. Images and version commands work:
  what is refused is refused for the descriptor's text.

Definitions commented "Mutant" are not the model: each is a plausible bug in the
definition after it, and puts a property of the run that names it to the test.

## Runs

Passing:

| Run | Config | Bounds | What it shows |
|---|---|---|---|
| lock | `ArmLock_faults` | 3 processes, one of them a forcer and one of another user, sticky directory, overlapping launches, 2 kills, 1 failing call | refinement of `ArmMutex` and nobody's live lock taken until one is given up; what sends a process round the loop; stale locks reclaimed |
| sweep | `Sweep_faults` | 3 arms, 2 repetitions, 2 invocations, 1 kill, 1 failing teardown or removal | confinement, drop order, own rows, every record |
| window | `Window_both` | both modes, 2 containers, corpus of 2, 4 offered rows, 1 duplicate, stalls of up to 2 s, 4 unreadable polls to give up, budgets of 2 to 5 s | what opening and settling mean; every poll uses up its budget; every window ends |
| load | `Load_two` | 2 threads, queue of 1, 4 ticks, 1 fault, up to 2 rows missing and 1 twice | density, gates, threads that wind down, termination |
| ladder | `Ladder_climb` | from 2 by 2 up to 12, 5 throughputs around the margin | stopping rule, a climb that ends by its bound, put-away |
| rig | `Rig_both` | both programs, 2 workers, 3 partitions of 0 or 4 messages, windows of 2 s, fetches of up to 2 s, 2 rungs, 2 failures | rates, partial windows, causes, that nothing is begun again and every window is answered |
| ceilings | `Ceilings_passes` | 2 processes, 3 envelopes of which two give the same caps, 2 generators, 2 formats, 2 launches, 1 edit or removal, 1 kill or lock given up | what an arm is held to, what a write leaves in the file |
| topic | `Topic_prefill` | 2 processes, 3 launches, 1 or 2 partitions, 4 messages, gates over the last one below the largest, 2 generators, 1 edit, 1 fault | when a topic is the corpus, what a published drain has read |
| accounting | `Accounting_arm` | 2 containers, 1 JVM, 5 ticks, 1 change of memory, 1 fault, 2 pauses, 2 inserts of 5 kinds | cost, footprint, collector and server figures |
| publication | `Publication_page` | 2 sweeps of 1 or 2 repetitions, 1 desk, 1 box, 5 sets of options over 2 comparability groups, 2 versions of the system, 1 fault | what reaches the page |
| descriptor | `Descriptor_edits` | 3 edits of a valid descriptor, 2 containers, 2 variants, 5 overrides | validation against the run |

Why the bounds are enough. *Lock*: every race on the path is between one reader,
one owner and one intruder, which is three processes; one kill leaves a stale
lock and a second one hits whoever reclaims it; a failing call is told from a
call that another user may not make by there being one of each. *Sweep*: one arm with objects and two without, two of which share a
container name, give every combination of "mine" and "another's"; two
invocations are needed for something to be left and found, a second repetition
for an arm to follow itself. *Window*: two containers tell "one is dead" from
"all are"; the budgets exceed the three polls that settling and warming up need,
and four unreadable polls in a row are one more than those three, so that a loop
that took silence for agreement would settle before it gave up.
*Load*: two threads are the least that can stop apart; four ticks let one be two
messages ahead; a queue of one is full at once. *Ladder*: the bound 12 is not
reached by doubling, so the last rung is the clipped one; 100, 103, 104, 108 lie
at, on and beyond the 3 per cent margin, and gains can add up inside it.
*Rig*: three partitions over two consumers are an uneven split; four messages
outlast a window of two seconds and are drained by one that is overrun; two
failures can take both workers, one before its ready byte and one after it.
*Ceilings*: two envelopes of equal caps and one of others make a figure foreign
with and without the read-back noticing; two formats make a pass restricted; the
generators' messages differ by more than the five per cent tolerated (a third one,
within it, is in `Ceilings_corpus`); rates are ten or none, as a ceiling of zero is
held against nothing; two launches are a pass and the sweep it
gates, or two passes on one file. *Topic*: three launches are two prefills and a
sweep, or a prefill that follows a killed one; four messages over one or two
partitions can be sent in either shape and read in the other; with gates over one
of them, there is a message below what the gates look at; one fault is any of
those that a property has to bear beside a second writer, which is no fault (two
together, a loss hidden behind a repeat, are in `Topic_bytes`).
*Accounting*: an interval is two ticks, so two samplers can be out of phase, and
five ticks give each two rows; two inserts tell one counted twice from two.
*Publication*: two sweeps are an older and a newer sitting, in any two
checkouts. *Descriptor*: three edits change everything that one check relates
(a total, a memory, a container list), and no check relates four.

`CHECK_DEADLOCK FALSE` is set where the system stops by itself: a window, a
load, a ladder, a rig's pass, an arm's accounting or a descriptor's run ends, and
the invocations, launches and sweeps of the others are bounded. The lock goes on
for ever and is checked for deadlock.

## Disagreements

Where the code does not do what a comment of it says, the passing runs check the
strongest form that holds, and a configuration finds the counterexample to the
form that does not. One of them is listed among the runs:

| Run | Property | What happens |
|---|---|---|
| lock_overlap (`ArmLock_overlap`) | `MutualExclusion` | a holder exits and another process takes the lock between a third one's read of the pid and its removal of the path, so the live lock goes (`sampler.rs` 641: "Exclusive right") |

The others are kept as configurations to run by hand
(`tlc -config <config>.cfg <module>`), each ending in the violation it is
about:

| Config, module | Property | What happens |
|---|---|---|
| `ArmLock_crash`, `ArmLock` | `CrashNeverBlocks` | a process killed between `create_new` and the write of its pid leaves an empty file nobody reclaims (`sampler.rs` 661) |
| `ArmLock_users`, `ArmLock` | `AcquireReturns` | another user's holder answers `kill -0` with EPERM and is taken for dead, the sticky directory keeps its file, the error is ignored, and `acquire` goes round for ever (`sampler.rs` 658: "Take the lock, or return the current holder's description") |
| `Sweep_NoObjectsAtTruncate`, `MCSweep` | `NoObjectsAtTruncate` | the objects of a killed driver's arm are live while other arms truncate the table, as only one's own are torn down first (`driver.rs` 1482-1484) |
| `Sweep_IdentifiedIsRecorded`, `MCSweep` | `IdentifiedIsRecorded` | a panic ends the process without a record (`driver.rs` 512-514) |
| `Window_duplicates`, `Window` | `DrainExhaustsCorpus` | duplicates count towards the corpus: the window closes before it is exhausted (`driver.rs` 1973, 1982-1983) |
| `Load_ragged`, `Load` | `WholeArmIsSpared` | threads that stop apart leave a hole below the maximum `batch_id`, and an arm that landed everything fails the gate (`corpus.rs` 840-841) |
| `Rig_hang`, `Rig` | `AlwaysAnswered` | a consumer that fails before its ready byte, beside one that is ready, leaves the parent on a pipe the ready one holds open: the pass hangs with the arm lock (`fetcher.rs` 122: "must fail a window instead of hanging a pass") |
| `Rig_apart`, `MCRig` | `LongestCoversAll` | one worker begins after another has counted for a second: the sum is divided by one window, though the messages took longer (`fetcher.rs` 753: "dividing by a shorter denominator ... would overstate the ceiling") |
| `Ceilings_corpus`, `MCCeilings` | `AppliedDescribesCorpus` | an ingest ceiling measured with rows of another size is applied; only the consume ceiling is compared (`ceiling.rs`, `gate`) |
| `Ceilings_envelope`, `MCCeilings` | `ProvenUnderOneEnvelope` | a running container of another envelope with the same cpus and memory is reused, and its arm is held to the figures of the profile's (`infra.rs` 125: "still fails the run rather than quietly producing a number") |
| `Topic_shape`, `MCTopic` | `RecordedShape` | a drain checks the depth of the partitions its profile declares, never how many the topic has, and records the profile's (`kafka.rs` 16-22: "measuring one shape while recording another") |
| `Topic_bytes`, `MCTopic` | `RightDepthRightBytes` | one delivery is dropped in silence and another repeated: the topic has the depth of the corpus, verifies, and a batch is missing (`corpus.rs` 1209: "a topic of the right depth necessarily holds the right bytes") |
| `Accounting_async`, `MCAccounting` | `AsyncIsRefused` | an asynchronous insert that the server does not mark is charged like any other: the second reading, of rows not written, is made and never used (`serverside.rs` 909: "read two ways because neither is sufficient alone") |
| `Descriptor_cpus`, `MCDescriptor` | `EnvelopeIsANumber` | `[envelope].cpus` that does not parse is NaN, differs from no total, and is published as it is written (`entrant.rs` 1157: "Without this the envelope is decorative") |

Smaller ones, which the properties name as their exceptions or the models show
in passing:

- *Descriptors.* A container's `cpus` or `memory` that docker does not take (no
  quantity, more cores than the host has, too little memory) is refused by nobody
  before docker, and that refusal is a panic that ends the sweep. One that docker
  applies as something else (0, which is no limit, a text that only docker reads,
  memory in no whole pages) is refused when the caps are read back, an arm's run
  too late. Container names are neither unique nor suffix-free, and `ends_with`
  then finds the wrong one (`driver.rs` 1606, 2474, 3204). `arm_sql` is validated
  trimmed and opened as it is written (1297). A knob's text with `{{` in it passes
  validation and is refused by `substitute`, whose comment (3228) says such a
  mismatch "cannot be written". A knob that is neither a number nor a string is
  given as the empty string and left out of the record.
- *Topic.* A fresh prefill recreates the broker under a sweep or another prefill.
  A published drain may have a gap, or messages of another generator, further
  below the largest `batch_id` than `GATE_MAX_BATCHES` (100 000 of a default of
  1 500 000), if two processes wrote the topic or a send was repeated.
- *Publication.* A record appended behind a committed line that lacks its newline
  is not uploaded by `run-bench.sh` (100-127), which counts lines. The site is
  deployed by a workflow beside the one that validates. A box that is killed or
  overruns uploads nothing.
- *Accounting.* For an arm of several containers the server's window is the union
  of the samplers', not the interval `SutCost` divides by (`serverside.rs` 270),
  and an insert belongs to it by its start time. A sampler that dies after two
  rows, or loses its tail, shortens its container's window unnoticed. A `gc_log`
  that names another JVM's log yields that one's pauses.
- *Rig.* The window is divided by the longest of the workers' own times, which
  covers workers that stop apart, and not clocks that start apart.
- *Lock.* `bench prefill` and `bench build` take no lock. A stale lock of another
  user in a sticky directory is reclaimed by nobody of the first.

## Fairness

- **Lock**: weak fairness of each process's steps (a process that is not killed
  runs, and no arm runs for ever), and of each user starting a run when none of
  his runs (the suite goes on). Kills and failing calls are not fair. The reclaim
  of a stale lock needs nothing more.
- **Window**: weak fairness of `Next`. `sleep(1)` returns and a poll answers or
  times out (the HTTP client has a ten-second limit); the arm is free to stop,
  to stall and to be unreadable for ever.
- **Load**: each thread is scheduled, the Kafka client reports on each message
  it took (librdkafka's message timeout), and the driver goes on joining.
  Neither the end of the window nor a successful delivery is assumed.
- **Ladder**: weak fairness of the pass; an orphaned inserter may run for ever.
- **Rig**: weak fairness of the main program, of the harness's reads and of the
  workers' steps taken together: each fetch or POST ends within its timeout as
  an answer or an exception (`FETCH_TIMEOUT_S`), and processes are scheduled.
  Failures are not fair.
- **Sweep, Ceilings, Topic, Accounting, Publication, Descriptor**: none, their
  properties are safety properties. The ending of a sweep's windows is
  `WindowEnds`, that of a pass's rungs `WindowAnswered` and `PassEnds`.

## Proofs

Checked by TLAPS, for every value of the constants that satisfies the modules'
named assumptions.

- **`ArmLock_proof`.** `TypeCorrect`, `NotTaken` and `Implements`, for overlapping
  launches, several users and failing calls. The inductive invariant `LockInv`: a
  process that probes or reclaims has read a pid, and unless the path has changed
  under it (`behind`) the file is still the one it read; and as long as no live
  holder's lock was given up (`amiss`), an owner's file is there and is its own,
  and what is about to be removed as stale has no owner. Mutual exclusion alone
  is not inductive: it is the unconditional removal that needs `ReclaimIsStale`.
  `Implements` maps each step to `Take`, `Leave`, `Override` or a stutter of
  `ArmMutex`; the first step that gives a live lock up maps to `Override`, and
  there are three kinds of it. `SerialNeverRaces` says what serial launches
  (`~Overlap`) add: one process inside `acquire` finds no file where the one it
  read was, so of the three kinds the race does not occur (`SerialInv`).
  `Retries` is about the loop of `acquire`, which has no bound of its own: by a
  rank of the calls a process has left, what sends it round again is a removal
  that failed or another's `create_new`, and nothing else (`RoundAgain`).
- **`Driver_proof`.** Of the sweep `TypeCorrect`, `Confined`, `BareTruncate`, `OwnRows`,
  `CleanRecord`, `Outlive`, for any arms, selections, numbers of repetitions and
  of faults. The invariant `SweepInv` says where each guard is armed, that an
  unwinding repetition has failed, that the arm's own objects are gone between a
  teardown and the next create, and that from the truncate to the gate only the
  repetition's own containers are up and only its rows are in the table unless
  there were strays at the truncate. `RecordIsOwn` speaks of the last record
  only and cannot be carried through a step without that last part.
  `Recorded` has an invariant of its own (`Owing`): no arm is owed a record before it
  is identified, and from there to the append every way out is a panic.
  Of the accounting `WholeCharged`, `PeakOfOneInstant`, `GcOfItsWindow` and
  `ServerFigureOfTheArm`, for any containers, rates, levels, interval, times and
  faults; the interval is positive. The invariant `AccountingInv`: each series is
  a container's own, its rows an interval apart and, where it could be read, of
  the CPU that container has burned (`Series`); a sampler starts once and writes
  nothing after it was stopped (`Unstarted`, `Stopped`), so that what is billed is
  still what the series say when the peak is looked at (`Taken`); and from the
  account to the record there is a bill of every container (`Billed`). The peak
  rests on every reading being its container's last before the edge of its own
  bucket: rows are an interval apart and a bucket is an interval wide, which is
  what the comment on `BUCKET_MS` asks for. The server's figure rests on a
  bijection: whichever way the inserts arrive, the predicate leaves of each insert
  that started in the window and has finished when the log is read one execution,
  or of all of them none, and then there is no figure; an asynchronous insert
  without the server's mark is one of them, which the theorem says and
  `Accounting_async` holds against the code's comment. `GcOfItsWindow` supposes
  that `gc_log` names the container's own JVM's log. A sum is
  reasoned about as the number of places of its summands (`SumIsShares`).
- **`CeilingPass_proof`.** Of the ladder `Margin`, `NoFloor`, `Landed`, for any first
  rung, step, bound, patience and set of throughputs. The invariant: rungs strictly
  ascend, the next one is above all tried, and the best is within the margin of
  every point; "not still climbing" then yields a later, higher rung. Of the rig
  `RateFits`, `NoPartial`, `CauseReported`, for any topic, number of workers, fetch
  times, windows and failures. The invariant `RigInv` follows each worker through its
  window: it has counted at most one message a second of its own clock from each
  partition it reads (`Paced`), nothing it reads was drained while it worked (`Flowing`), and
  the answers that are OK are no more than the workers whose window was whole
  (`Earned`), so that as many as there are workers are all of them. `NoPartial`
  further needs that a window is not over before it begins (`Sized`): that rests on
  `MinWindow` being positive and on a consumer having a partition. `CauseReported`
  needs that before anybody is let go by the Barrier an error was appended
  (`Heard`). The sum over the workers is bounded by lemmas about the library's
  `SumFunctionOnSet`, of parts that each fit a set of their own; each is bounded
  in its worker's own seconds, hence in the longest of them.
  Of both that they run out: `ClimbEnds` (the rungs above the next one, then the
  stages of the pass; `LadderInv` bounds the rungs) and `RigRunsDown`, where every
  step lowers the program's way through the windows it may still be asked for or,
  while it waits, a worker's way through its own and no other's. It needs that a pass
  is greeted once and asks for no more windows than it has (`AskInv`), and that a
  window which is not over has some of its seconds left (`NotOverYet`).
- **`Descriptor_proof`.** `ValidatedDescriptorRuns`, `EnvelopeApplied` and
  `KnobsAsRecorded`, for any names, quantities, container lists, environments,
  knob tables, constraints and overrides and any number of edits. The
  assumption is that a full container name ends in its own name. The invariant
  `DescriptorInv` carries the validation along the run: past validation the
  descriptor still validates; past the plan the variant is one of its own and
  the effective knobs break no constraint; what runs is a declared container
  with the limits docker gave it, the declared ones once they were read back, and
  what no longer waits runs. `ValidatedRuns` says only
  what a refused run implies, so it is inductive only with all of that. The
  lemmas of interest: an override adds no knob, so every placeholder that
  resolved at validation resolves in the run; where no name ends in another's,
  the first match by suffix is the container itself.

- **`Drain_proof`.** Of the windows `SettledComplete` and `OpensOnWarm`, for any
  corpus, offer, duplicates, stall and budgets. "Settled means complete" is not
  inductive: the invariant `WindowInv` counts with the polls, as many seconds without
  a landed row as polls that agreed (`Agreed`), and as many seconds in which the
  count rose as polls that advanced (`Warming`). The third agreeing poll then
  contradicts an arm that keeps to its stall. `RunsDown` is the other half of a window:
  every step, with a poll that was read or one that was not, uses up what the
  deadlines leave, by a rank over the phases. `Agreed` needs that nothing is
  offered during a quiesce (`Offers`), or the count could stand still for a
  table that was complete when it began to.
  Of the topic `Produced`, `Reused` and `Published`, for any processes, partition
  counts, corpus, generators, depth of the gates and faults; they assume that a
  partition count, the corpus, the gates' depth and the sample `verify_corpus`
  reads are positive (the code's sample is 64). A depth is a number of places, and
  the code takes a number for the corpus. The argument is that round robin gives
  each place a `batch_id` of its own: a topic of one writer holds messages of the
  corpus, each once (`One`, `Orderly`), all of them behind what its producer has
  sent (`Writer`), so it has at most `Batches` of them, and that many only with all
  of them; a delivery that is lost leaves it short and can be made up for only by a
  second writer or a repeated send, which is why `Reused` and `Published` hold with
  lost deliveries. That also bars a second producer from adding to a topic that is
  about to be verified (`Full`). `Produced` goes the other way, since others may
  have written: what this producer sent and did not lose is there (`Sent`), all of
  the corpus at its flush (by division), and a topic of the corpus's depth has no
  room for anything else; where something was lost it goes by `One`. `Published`
  needs only the gates for what they look at, and `One` for the rest.
- **`Load_proof`.** `Dense`, for any number of threads, rate, queue bound and
  faults. The invariant `LoadInv`: a message that a living thread counted as sent
  is in its queue, in the log or among the failed (`Handed`); a thread that has
  flushed queues nothing; `stop()` has joined only such threads. An index below
  every thread's next one belongs, by division, to one thread and a place that
  thread has passed. `LossCaught` and `OnlyLoss` are about the gates, which count:
  row count, distinct and largest `batch_id` against the prefix. The lemmas say
  when such counts mean equality (a finite set of as many members as its largest
  one is the whole range), in both directions, for every table; the invariant `Verdict`
  carries what the gates were run on to the verdict. `WindsDown` is about the end of
  the load: once the flag is up, whatever a thread does, the broker answers or a panic
  cuts short leaves that thread less, from a number the queue's limit bounds (`Queued`).
- **`Ceilings_proof`.** `ProvenHeld`, `OneEnvelope` and `FiguresKept`, for any
  processes, envelopes, caps, generators, formats and figures. Figure and arm never
  meet in the code: a sweep compares a digest in a file with the digest of its
  profile, and `bring_up` reads two caps of each container back. The invariant
  `CeilingsInv` says what that is enough for: every figure measured inside carries
  a digest that gives its container the caps it was measured with (`Sound`); while
  nothing was done beside a live holder (`disturbed`), a process past the lock holds
  it, and past `bring_up` each container has the caps of that process's digest,
  which nobody changes under it (`LockedBy`); a gate only keeps figures of its
  sweep's digest (`GateOf`); and what a pass has read of the file is its last
  readable content until it writes (`PassOf`, `Last`). Two digests of equal caps
  stay apart in none of this, which is why the theorem speaks of caps and
  `Ceilings_envelope` of envelopes. The assumptions say only that a generator's
  messages have a size, and that `None`, `Torn` and `Dead` are none of the things
  they stand in for.
- **`Publication_proof`.** `NothingBarred`, `Reproduced` and `LossSeen`, for any
  checkouts, sweeps, selectors, options and faults. The first two rest on `PageInv`:
  every line of the file on main is valid (`Sound`) and the page is its site; what a
  checkout or a pull request starts from is on main (`Based`); and each line a green
  one adds is valid (`Checked`). Main can move between CI's look and the merge, so
  what CI saw is not what is merged: the invariant keeps of it only what is true of
  a line by itself, and that no `run_id` is twice on main is therefore not part of
  it. `Reproduced` needs besides that a site is a function of a file's lines, in which
  the newest repetition of a sitting is the largest of a finite set, and sittings
  are compared within their comparability group only. `LossSeen`
  rests on `KeptInv`: a record whose append returned is in its file, or a line of
  garbage is, of a box past the committed count (`BoxKeeps`); a proposal carries it
  (`Carried`); and a merge holds every line of both sides or was not green.

The library's theorems on well-founded sets (`WFMin`) are first-order facts, and a
least counterexample stands in for an induction where a proof needs one: the
largest of a finite set, what the recursive function `Added` keeps, what a sum over a
finite set is.

Only model-checked: the liveness properties (`StaleLockReclaimed`, `WindowEnds`,
`LoadEnds`, `PassEnds`, `WindowAnswered`), which with ENABLED are outside the
prover's reach. Each has a conjunct that is proved: `BudgetsRunDown`, `StopWindsDown`,
`ClimbRunsDown` and `PassRunsDown` give a rank that steps lower and nothing raises,
and `RoundAgain` one that is raised for two reasons only, so what is left to TLC is
that some step is always possible until the end, and taken. What a fold over a sequence or `SelectSeq` computes for every input
stays with TLC too: `Expand`'s order.

## Not modelled

- The insert encoders and the Avro, Arrow and Native formats: pure functions on
  bytes, held to a live server by `prove_format_lands_correctly`.
- The content of rows, a pure function of `batch_id`: the gates' ten sums and
  fingerprints over it appear as equality of generators.
- Percentiles, heap series, cost figures and their units; wording, notes, logs;
  presentation fields of descriptors (the check of hues, for instance, ignores
  that 359 and 0 are neighbours, and nothing here says so).
- Docker, Kafka, ClickHouse and AWS themselves, which appear as what they can
  answer, and the entrants' own pipelines, which appear as what they can do.
- `bench build`, `bench versions`, flag parsing, the choice of affected entrants
  in CI, the React components.
- What a window measures while its containers are recreated under it: `Ceilings`
  lets it happen and remembers only that it did (`disturbed`). Pull requests are
  merged only when their checks pass, in `Publication`.

## Plan

Built in the order of what matters most: the lock and its abstract mutex, the
sweep, the windows, the load and the gates, the ladder; then the rig, the
ceilings file, the topic, accounting, publication and descriptors. Proved so far:
every safety property that a passing run checks, and the ranks behind the liveness
properties. Left:

1. `Ceilings` composed with `Rig` and `Ladder` as the source of its figures, where
   now a figure is any rate.
2. The content of rows: the sums of `run_gates` against arms that land wrong
   values.
