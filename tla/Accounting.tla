----------------------------- MODULE Accounting -----------------------------
(***************************************************************************)
(* What an arm is charged: one cgroup sampler per container (sampler.rs,   *)
(* workload/sampler/sample.py), the arm's cost and footprint out of their  *)
(* series, each JVM's collector log (jvm.rs) and the query log of the      *)
(* shared ClickHouse (serverside.rs), in the order driver.rs reads them.   *)
(*                                                                         *)
(* Each series has its own sampler, pipe and reader thread, and each can   *)
(* start late, stop early, skip a field or lose its tail; the arm's        *)
(* figures join them. A tick is half a second.                             *)
(***************************************************************************)
EXTENDS Integers, Sequences, FiniteSets, FiniteSetsExt, Functions

CONSTANTS
  Order,      \* the arm's containers, in the order of its descriptor
  Rate,       \* CPU each of them burns per tick
  Jvms,       \* those whose descriptor names a gc_log
  Levels,     \* of anonymous memory
  Interval,   \* ticks between two rows of a sampler, and a bucket of the peak
  MaxTime,    \* bound: ticks
  MaxSpikes,  \* bound: changes of a memory level
  MaxGlitches, \* bound: unreadable rows, samplers and containers that die, caps not set
  MaxPauses,  \* bound: collections of one JVM
  MaxInserts, \* bound: inserts of the arm
  Kinds,      \* the ends an insert can come to, of EndKinds
  None        \* the absence of a figure

Boxes == Range(Order)
EndKinds == {"wrote", "silent", "buffered", "unmarked", "failed", "running"}

ASSUME AccountingAssumption ==
  /\ Order \in Seq(Boxes) /\ Order # <<>> /\ IsInjective(Order)
  /\ Rate \in [Boxes -> Nat] /\ Jvms \subseteq Boxes
  /\ Levels \subseteq Nat \ {0} /\ Kinds \subseteq EndKinds
  /\ Interval \in Nat \ {0}
  /\ {MaxTime, MaxSpikes, MaxGlitches, MaxPauses, MaxInserts} \subseteq Nat

VARIABLES
  now,       \* ticks since the containers started
  step,      \* where run_arm is: a phase, and the container it is at
  up,        \* is the container running
  anon,      \* its anonymous memory
  sampler,   \* its sampler, and the lines of it
  parts,     \* what each series came to
  gc,        \* the collector's figures of each JVM
  pauses,    \* the collections it made in its window, None beside another's log (history)
  arm,       \* the arm's cost
  inserts,   \* the inserts the server's figure is about (history)
  spare      \* spikes and glitches left

accountingVars == <<now, step, up, anon, sampler, parts, gc, pauses, arm, inserts, spare>>

UpTo(n, S) == {{}} \cup {Range(f) : f \in [1..n -> S]}
At(phase) == step.phase = phase
Enter(phase) == step' = [phase |-> phase, i |-> 1]

-----------------------------------------------------------------------------
\* The sampler's lines.

\* A row; a field that could not be read is -1, and the fields fail one by one.
Row(c) == [t |-> now, cpu |-> Rate[c] * now, anon |-> anon[c]]
Readings(c) ==
  {[row |-> Row(c), fault |-> 0],
   [row |-> [Row(c) EXCEPT !.cpu = -1], fault |-> 1],
   [row |-> [Row(c) EXCEPT !.anon = -1], fault |-> 1]}
\* (Mutant: the sentinel is summarised like a measurement.)
AnyRow(row) == TRUE
Readable(row) == row.cpu >= 0 /\ row.anon >= 0

\* The header: the caps found in the cgroup, as declared or not.
Headers == {[capped |-> TRUE, fault |-> 0], [capped |-> FALSE, fault |-> 1]}

IsRow(line) == "t" \in DOMAIN line
RowsOf(lines) == {i \in DOMAIN lines : IsRow(lines[i]) /\ Readable(lines[i])}

-----------------------------------------------------------------------------
\* Samples::summarise: None without two readable rows and a window between.
Summarise(lines) ==
  LET rows == RowsOf(lines)
      first == lines[Min(rows)]
      last == lines[Max(rows)]
  IN IF Cardinality(rows) < 2 \/ last.t <= first.t THEN None
     ELSE [from |-> first.t, to |-> last.t,
           cpu |-> Max({last.cpu - first.cpu, 0}),
           peak |-> Max({lines[i].anon : i \in rows})]

\* assert_arm_caps: the first line has arrived and says what was declared.
CapsHold(lines) == lines # <<>> /\ ~IsRow(Head(lines)) /\ Head(lines).capped

\* (Mutant: the arm's footprint is the sum of its containers' peaks.)
SummedPeak(lines) ==
  SumFunctionOnSet([c \in DOMAIN lines |-> Summarise(lines[c]).peak], DOMAIN lines)

\* A container counts with its last reading before an edge, and the arm with
\* what its containers count with.
Held(lines, edge) ==
  LET seen == {i \in RowsOf(lines) : lines[i].t < edge}
  IN IF seen = {} THEN 0 ELSE lines[Max(seen)].anon
HeldBy(lines, edge) ==
  SumFunctionOnSet([c \in DOMAIN lines |-> Held(lines[c], edge)], DOMAIN lines)

\* simultaneous_peak_anon: the most at the edge of a bucket, from the first row
\* of all to the last.
SimultaneousPeak(lines) ==
  LET times == UNION {{lines[c][i].t : i \in RowsOf(lines[c])} : c \in DOMAIN lines}
      buckets == {b \in Min(times)..Max(times) : (b - Min(times)) % Interval = 0}
  IN Max({HeldBy(lines, b + Interval) : b \in buckets})

\* SutCost::sum: CPU adds, the window is the longest.
SumCost(ps) ==
  IF \E c \in DOMAIN ps : ps[c] = None THEN None
  ELSE [cpu |-> SumFunctionOnSet([c \in DOMAIN ps |-> ps[c].cpu], DOMAIN ps),
        window |-> Max({ps[c].to - ps[c].from : c \in DOMAIN ps})]

\* Window::spanning and sampler_window_ms: from the first readable row to the
\* last, over all the containers.
Spanning(ps) == [from |-> Min({ps[c].from : c \in DOMAIN ps}),
                 to |-> Max({ps[c].to : c \in DOMAIN ps})]

-----------------------------------------------------------------------------
\* A collector's log: the init block, and for each pause its announcement and
\* the line with its duration, as they come. A file loses its beginning to
\* rotation, may end in half a line (the JVM still runs), may be another
\* program's, or absent. Nothing in it says whose log it is.

Line(kind, t) == [kind |-> kind, t |-> t]
Place(line) == CASE line.kind = "init" -> 0 [] line.kind = "start" -> 2 * line.t + 1
                 [] line.kind = "pause" -> 2 * line.t + 2
FullLog(ps) == {Line("init", 0)} \cup {Line(kind, t) : kind \in {"start", "pause"}, t \in ps}

LogFiles(ps) ==
  {{l \in FullLog(ps) : Place(l) >= k} : k \in 0..(2 * now + 2)}
  \cup {FullLog(ps) \cup {Line("torn", now)}, {}, {Line("app", 0)}, {Line("other", 0)}, None}

GcTagged(log) == {l \in log : l.kind \notin {"app", "other"}}

\* (Mutant: no proof is asked that the log begins where the JVM did.)
ReadsAnyLog(log) ==
  /\ log # None
  /\ GcTagged(log) # {}
  /\ ~\E l \in log : l.kind = "torn"

\* read_gc_log and parse_gc_log: the file is there, something in it is tagged
\* gc, every pause has its duration, and a collector initialises in it.
Reads(log) ==
  /\ log # None
  /\ GcTagged(log) # {}
  /\ ~\E l \in log : l.kind = "torn"
  /\ \E l \in log : l.kind = "init"

\* jvm::measure, bounded to [0, w) of the JVM's uptime.
GcFigure(log, w) ==
  IF Reads(log) THEN Cardinality({l \in GcTagged(log) : l.kind = "pause" /\ l.t < w}) ELSE None

-----------------------------------------------------------------------------
\* The query log. An insert has written rows and said what CPU it took,
\* written them in silence, been buffered, which the counter AsyncInsertQuery
\* tells or only the rows it did not write, failed, or is still running. What a
\* buffered one reports is the parsing.
Cpu(kind) == IF kind \in {"buffered", "unmarked"} THEN 1 ELSE 3

\* How the inserts arrive: straight, forwarded from a node of the arm, or
\* through a Distributed table of the shared server itself.
Routes == {"direct", "forwarded", "both"}
Initials(route) == CASE route = "direct" -> {TRUE} [] route = "forwarded" -> {FALSE}
                     [] route = "both" -> {TRUE, FALSE}

\* The executions the log has of an insert: [initial, ins]. Only the row of its
\* end is counted; the row of its start announces it.
QueryLog(all, route) == [initial : Initials(route), ins : all]

\* (Mutant: the predicate is dropped for a forwarding arm, not inverted.)
AttributedEither(log, w, forwarded) ==
  {q \in log : w.from <= q.ins.at /\ q.ins.at < w.to /\ (forwarded \/ q.initial)}

\* attribution_sql: inserts into the arm's tables that started in the window,
\* whenever they ended, initial queries or, for an arm that forwards, only the others.
Attributed(log, w, forwarded) ==
  {q \in log : w.from <= q.ins.at /\ q.ins.at < w.to /\ q.initial = ~forwarded}

\* serverside::summarise, over what is attributed: refused without an insert
\* that finished, with one the server marks as buffered, and without a counter.
\* One that wrote nothing and has no mark is counted (wrote_nothing) and charged
\* like any other.
ServerFigure(rows) ==
  LET finished == {q \in rows : q.ins.kind \notin {"failed", "running"}}
      told == {q \in finished : q.ins.kind # "silent"}
  IN IF told = {} \/ \E q \in finished : q.ins.kind = "buffered" THEN None
     ELSE [queries |-> Cardinality(finished),
           cpu |-> SumFunctionOnSet([q \in told |-> Cpu(q.ins.kind)], told)]

-----------------------------------------------------------------------------
NoSampler == [on |-> FALSE, due |-> 0, lines |-> <<>>]

AccountingInit ==
  /\ now = 0
  /\ step = [phase |-> "opening", i |-> 1]
  /\ up = [c \in Boxes |-> TRUE]
  /\ anon \in [Boxes -> Levels]
  /\ sampler = [c \in Boxes |-> NoSampler]
  /\ parts = [c \in Boxes |-> None]
  /\ gc = [c \in Boxes |-> None]
  /\ pauses = [c \in Boxes |-> 0]
  /\ arm = None
  /\ inserts = {}
  /\ spare = [spikes |-> MaxSpikes, faults |-> MaxGlitches]

Fault(n) == spare.faults >= n /\ spare' = [spare EXCEPT !.faults = @ - n]
Figures == <<parts, gc, pauses, arm, inserts>>

\* Refused: the samplers are dropped, the containers stopped, nothing recorded.
Discard ==
  /\ Enter("refused")
  /\ sampler' = [c \in Boxes |-> NoSampler]
  /\ UNCHANGED <<now, up, anon, spare, Figures>>

-----------------------------------------------------------------------------
\* The world: time, memory, containers that exit, samplers that die.

\* Half a second passes, in which one memory level may have changed.
Tick ==
  /\ now < MaxTime
  /\ step.phase \in {"opening", "window", "stopping", "settling"}
  /\ now' = now + 1
  /\ \/ UNCHANGED <<anon, spare>>
     \/ /\ spare.spikes > 0
        /\ \E c \in Boxes, l \in Levels :
             anon[c] # l /\ anon' = [anon EXCEPT ![c] = l]
        /\ spare' = [spare EXCEPT !.spikes = @ - 1]
  /\ UNCHANGED <<step, up, sampler, Figures>>

\* A container exits; its cgroup is gone and its sampler returns.
Die(c) ==
  /\ step.phase \in {"opening", "window", "stopping"}
  /\ up[c] /\ Fault(1)
  /\ up' = [up EXCEPT ![c] = FALSE]
  /\ sampler' = [sampler EXCEPT ![c].on = FALSE]
  /\ UNCHANGED <<now, step, anon, Figures>>

\* A sampler dies under a container that runs on; nobody looks.
SamplerDies(c) ==
  /\ sampler[c].on /\ Fault(1)
  /\ sampler' = [sampler EXCEPT ![c].on = FALSE]
  /\ UNCHANGED <<now, step, up, anon, Figures>>

\* sample.py: the header before the first row, then a row, then a sleep.
Emit(c) ==
  /\ sampler[c].on /\ now >= sampler[c].due
  /\ \E r \in Readings(c) :
       IF sampler[c].lines = <<>>
       THEN \E h \in Headers :
              /\ Fault(r.fault + h.fault)
              /\ sampler' = [sampler EXCEPT ![c].lines = <<[capped |-> h.capped], r.row>>,
                                            ![c].due = now + Interval]
       ELSE /\ Fault(r.fault)
            /\ sampler' = [sampler EXCEPT ![c].lines = Append(@, r.row),
                                          ![c].due = now + Interval]
  /\ UNCHANGED <<now, step, up, anon, Figures>>

-----------------------------------------------------------------------------
\* run_arm.

\* sample_arm: one sampler after another; a dead container's finds no cgroup.
StartSampler ==
  /\ At("opening")
  /\ sampler' = [sampler EXCEPT ![Order[step.i]].on = up[Order[step.i]],
                                ![Order[step.i]].due = now]
  /\ IF step.i < Len(Order) THEN step' = [step EXCEPT !.i = @ + 1] ELSE Enter("window")
  /\ UNCHANGED <<now, up, anon, spare, Figures>>

\* dead_container: every container is looked at before the window is closed.
Hold ==
  /\ At("window")
  /\ IF \E c \in Boxes : ~up[c] THEN Discard
     ELSE Enter("stopping") /\ UNCHANGED <<now, up, anon, sampler, spare, Figures>>

\* stop_samplers, one after another. What the reader thread has not taken from
\* the pipe by then is lost: nobody joins it.
StopSampler ==
  /\ At("stopping")
  /\ LET c == Order[step.i] IN
     \E n \in 0..Len(sampler[c].lines) :
       sampler' = [sampler EXCEPT ![c] = [NoSampler EXCEPT !.lines = SubSeq(sampler[c].lines, 1, n)]]
  /\ IF step.i < Len(Order) THEN step' = [step EXCEPT !.i = @ + 1] ELSE Enter("closed")
  /\ UNCHANGED <<now, up, anon, spare, Figures>>

\* The caps, then a summary of every container, or no measurement.
Account ==
  /\ At("closed")
  /\ IF \/ \E c \in Boxes : ~CapsHold(sampler[c].lines)
        \/ SumCost([c \in Boxes |-> Summarise(sampler[c].lines)]) = None
     THEN Discard
     ELSE /\ parts' = [c \in Boxes |-> Summarise(sampler[c].lines)]
          /\ arm' = [cost |-> SumCost(parts'), span |-> Spanning(parts'), server |-> None,
                     peak |-> SimultaneousPeak([c \in Boxes |-> sampler[c].lines])]
          /\ Enter("settling")
          /\ UNCHANGED <<now, up, anon, sampler, gc, pauses, inserts, spare>>

\* quiesce, which can find the count unreadable. Nothing after it reads more
\* of the series than Account has taken.
Settle ==
  /\ At("settling")
  /\ \/ Discard
     \/ /\ Enter("reading")
        /\ sampler' = [c \in Boxes |-> NoSampler]
        /\ UNCHANGED <<now, up, anon, spare, Figures>>

\* read_gc, container by container, while they exist; then they are removed. The
\* file is the one gc_log names, of the container's JVM or of another.
ReadGc ==
  /\ At("reading")
  /\ LET c == Order[step.i] IN
     IF c \notin Jvms THEN UNCHANGED <<gc, pauses>>
     ELSE \E ps \in UpTo(MaxPauses, 0..now), home \in BOOLEAN :
          \E log \in LogFiles(ps) :
            LET w == parts[c].to - parts[c].from
            IN /\ gc' = [gc EXCEPT ![c] = GcFigure(log, w)]
               /\ pauses' = [pauses EXCEPT ![c] = IF gc'[c] = None THEN 0
                                                 ELSE IF ~home THEN None
                                                 ELSE Cardinality({t \in ps : t < w})]
  /\ IF step.i < Len(Order) THEN step' = [step EXCEPT !.i = @ + 1] /\ UNCHANGED <<up, anon>>
     ELSE /\ Enter("removed")
          /\ up' = [c \in Boxes |-> FALSE] /\ anon' = [c \in Boxes |-> 0]
  /\ UNCHANGED <<now, sampler, parts, arm, inserts, spare>>

InsertsAround(w) ==
  [at : {w.from - 1, w.from, w.to - 1, w.to} \cap Nat, kind : Kinds]

\* measure_server_side, over all the inserts the arm made; the log's tail is
\* flushed first. A figure that is refused costs the record that figure only.
Serve ==
  /\ At("removed")
  /\ \/ UNCHANGED <<arm, inserts>>
     \/ \E all \in UpTo(MaxInserts, InsertsAround(arm.span)),
           route \in Routes, forwarded \in BOOLEAN :
          LET figure == ServerFigure(Attributed(QueryLog(all, route), arm.span, forwarded))
          IN /\ figure # None
             /\ arm' = [arm EXCEPT !.server = figure]
             /\ inserts' = all
  /\ Enter("recorded")
  /\ UNCHANGED <<now, up, anon, sampler, parts, gc, pauses, spare>>

Run == StartSampler \/ Hold \/ StopSampler \/ Account \/ Settle \/ ReadGc \/ Serve
World == Tick \/ \E c \in Boxes : Die(c) \/ SamplerDies(c) \/ Emit(c)
AccountingNext == Run \/ World
AccountingSpec == AccountingInit /\ [][AccountingNext]_accountingVars

-----------------------------------------------------------------------------
\* Properties.

\* A partial arm is not a cheap arm (SutCost::sum), and a sentinel is no
\* measurement (Sample::readable): an arm that has a cost was charged for every
\* one of its containers exactly what that container burned between its first
\* and last readable row, over a window no shorter than any of theirs.
WholeArmIsCharged ==
  arm # None =>
    /\ \A c \in Boxes : parts[c] # None /\ parts[c].to - parts[c].from \in 1..arm.cost.window
    /\ arm.cost.cpu =
         SumFunctionOnSet([c \in Boxes |-> Rate[c] * (parts[c].to - parts[c].from)], Boxes)

\* simultaneous_peak_anon: the published footprint is no more than what the
\* containers' latest readings came to at some one instant, and no less than
\* any container's own peak, whatever the skew and the holes of the series.
PeakIsOfOneInstant ==
  At("settling") =>
    LET Latest(c, t) ==
          LET lines == sampler[c].lines
              seen == {i \in RowsOf(lines) : lines[i].t <= t}
          IN IF seen = {} THEN 0 ELSE lines[Max(seen)].anon
    IN /\ \A c \in Boxes : parts[c].peak <= arm.peak
       /\ \E t \in 0..now :
            arm.peak <= SumFunctionOnSet([c \in Boxes |-> Latest(c, t)], Boxes)

\* read_gc: a collector's figure is that of every pause the JVM made in a span
\* of its uptime as long as its container's window, whenever the log is copied;
\* a log that was rotated, torn, of no collector or absent gives no figure, and
\* never a zero. Excepted is a descriptor whose gc_log names the whole log of
\* another JVM, which nothing in the code can tell.
GcIsOfItsWindow ==
  \A c \in Boxes : gc[c] # None /\ pauses[c] # None => gc[c] = pauses[c]

\* attribution_sql and serverside::summarise: however the arm's inserts reach
\* the server and whatever its descriptor says of it, a figure that is
\* published counts each insert that started in the window and has finished
\* when the log is read once and no other, rests on at least one that reported
\* its CPU, and on none the server marked as buffered. One that carries only the
\* other half of the async fingerprint is among them: AsyncIsRefused.
ServerFigureIsTheArms ==
  arm # None /\ arm.server # None =>
    LET mine == {ins \in inserts : /\ arm.span.from <= ins.at /\ ins.at < arm.span.to
                                   /\ ins.kind \notin {"failed", "running"}}
        told == {ins \in mine : ins.kind # "silent"}
    IN /\ arm.server.queries = Cardinality(mine)
       /\ arm.server.cpu = SumFunctionOnSet([ins \in told |-> Cpu(ins.kind)], told)
       /\ told # {} /\ \A ins \in mine : ins.kind # "buffered"

\* "The async fingerprint, read two ways because neither is sufficient alone"
\* (serverside.rs 909), of which the code refuses on one: a published figure rests
\* on no insert that was buffered. Accounting_async.cfg has the counterexample.
AsyncIsRefused ==
  arm # None /\ arm.server # None =>
    \A ins \in inserts :
      arm.span.from <= ins.at /\ ins.at < arm.span.to => ins.kind \notin {"buffered", "unmarked"}
=============================================================================
