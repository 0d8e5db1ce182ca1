---------------------------- MODULE Publication ----------------------------
(***************************************************************************)
(* From a repetition to the published page: what `bench run` appends and   *)
(* where, how the lines of a checkout reach the main branch, what `bench   *)
(* validate` refuses on the way, and what the site draws from the tree     *)
(* (bench.rs, select.rs, report.rs, results.rs and validate.rs under       *)
(* src/harness/src, run-bench.sh, website/plugins/bench-data/index.js).    *)
(*                                                                         *)
(* Two kinds of checkout: a contributor keeps one over several sweeps and  *)
(* commits what it holds; a cloud box is cloned for one sweep and uploads  *)
(* the lines it appended, if the sweep came to its end.                    *)
(***************************************************************************)
EXTENDS Naturals, FiniteSets, FiniteSetsExt, SequencesExt

CONSTANTS
  Sweeps,      \* invocations, numbered: an invocation id is time-ordered
  Desks,       \* checkouts of contributors
  Boxes,       \* cloud boxes
  Catalog,     \* the committed descriptors: [entrant, variant, runnable]
  Asks,        \* the selectors of a command line, [entrant, variant] each
  Star,        \* the selector part *
  Groups,      \* comparability groups: environment, harness, dataset, infra and mode
  Versions,    \* what sut.version says of an image, resolved for each repetition
  AsBuilt,     \* the one of them that the images have
  Options,     \* --reps, the group, a trigger that bars publication, a fixture environment,
               \* --knob, --fail-fast
  MaxFaults,   \* bound: writes that fail half-way, crashes, lines applied twice,
               \* tuning files moved into results/ by hand, images built anew
  Garbage      \* a line that is not one record

ASSUME PublicationAssumption ==
  /\ Options \subseteq [reps : Nat, group : Groups, bars : BOOLEAN, fixture : BOOLEAN,
                         knobs : BOOLEAN, failFast : BOOLEAN]
  /\ Sweeps \subseteq Nat /\ MaxFaults \in Nat
  /\ Desks \intersect Boxes = {}

VARIABLES
  clock,     \* records built: the timestamp of a record, and its run_id
  sweep,     \* the invocations
  checkout,  \* a file of results/ and one of tuning/ in each checkout
  pr,        \* the pull request of each checkout
  main,      \* the file on the main branch
  page,      \* the deployed site
  faults     \* left of MaxFaults

vars == <<clock, sweep, checkout, pr, main, page, faults>>

Checkouts == Desks \union Boxes
Spend(n) == faults >= n /\ faults' = faults - n

-----------------------------------------------------------------------------
\* A result file: its lines, and whether the last one has no newline yet.
Empty == [lines |-> <<>>, open |-> FALSE]
Holds(f, x) == \E i \in DOMAIN f.lines : f.lines[i] = x

\* writeln! makes two writes: the line, then the newline. What follows a line
\* without one continues it, and two records on a line parse as none.
Write(f, what, newline) ==
  [lines |-> IF f.open THEN Append(Front(f.lines), Garbage)
                       ELSE Append(f.lines, what),
   open |-> ~newline]

\* How a write ends: whole, short of the newline, or short of the record.
Writes(r) ==
  {[what |-> r, newline |-> TRUE, ok |-> TRUE, fault |-> 0],
   [what |-> r, newline |-> FALSE, ok |-> FALSE, fault |-> 1],
   [what |-> Garbage, newline |-> FALSE, ok |-> FALSE, fault |-> 1]}

-----------------------------------------------------------------------------
\* The command line.

Matches(sel, arm) ==
  /\ arm.runnable
  /\ sel.entrant \in {Star, arm.entrant}
  /\ sel.variant \in {Star, arm.variant}

\* expand: the runnable arms each selector names, each arm once, in order.
Named(sel) == SelectSeq(Catalog, LAMBDA arm : Matches(sel, arm))
Expand(ask) ==
  FoldLeft(LAMBDA out, sel :
             out \o SelectSeq(Named(sel), LAMBDA arm : ~Contains(out, arm)),
           <<>>, ask)
\* A selector that names no entrant, or matches no runnable arm, is an error.
Expands(ask) == ask # <<>> /\ \A i \in DOMAIN ask : Named(ask[i]) # <<>>

\* opts_from: an overridden knob is refused under a publishable trigger.
Accepted(o) == o.knobs => o.bars

-----------------------------------------------------------------------------
\* The site: loadRecords, summarise and latestSitting of bench-data/index.js.

\* loadRecords drops what does not parse.
Loaded(f) == {f.lines[i] : i \in DOMAIN f.lines} \ {Garbage}

CarriesMetrics(status) == status \in {"ok", "infra_bound"}

Newest(reps) == Max({r.id : r \in reps})

\* (Mutant: the newest repetition speaks for the row.)
LastStatus(reps) == (CHOOSE r \in reps : r.id = Newest(reps)).status

\* worstStatus, over the repetitions behind a row.
WorstStatus(reps) == IF \E r \in reps : r.status = "infra_bound" THEN "infra_bound" ELSE "ok"

\* A row: the repetitions with numbers of one sitting that share the axis, the arm,
\* its configuration and its version.
Counted(f) == {x \in Loaded(f) : CarriesMetrics(x.status)}
rowKey(x) == [group |-> x.group, arm |-> x.arm, version |-> x.version, knobs |-> x.knobs,
              sitting |-> x.sitting]
RowOf(f, r) ==
  LET reps == {x \in Counted(f) : rowKey(x) = rowKey(r)}
  IN [key |-> rowKey(r), group |-> r.group, arm |-> r.arm, sitting |-> r.sitting,
      reps |-> reps, ts |-> Newest(reps), status |-> WorstStatus(reps)]
Rows(f) == {RowOf(f, r) : r \in Counted(f)}

\* An attempt: the repetitions of a sitting and a group that gave no number.
AttemptOf(f, r) ==
  LET reps == {x \in Loaded(f) \ Counted(f) :
                 x.group = r.group /\ x.arm = r.arm /\ x.sitting = r.sitting}
  IN [group |-> r.group, arm |-> r.arm, sitting |-> r.sitting, reps |-> reps, ts |-> Newest(reps)]
Attempts(f) == {AttemptOf(f, r) : r \in Loaded(f) \ Counted(f)}

\* latestSitting: of each arm what its newest sitting gave, rows and attempts,
\* within a comparability group.
SameArm(x, y) == x.group = y.group /\ x.arm = y.arm
Superseded(all, x) ==
  \E y \in all :
    SameArm(x, y) /\ y.sitting # x.sitting
    /\ \A z \in all : SameArm(x, z) /\ z.sitting = x.sitting => z.ts < y.ts
Site(f) ==
  LET all == Rows(f) \union Attempts(f)
  IN [rows |-> {x \in Rows(f) : ~Superseded(all, x)},
      attempts |-> {x \in Attempts(f) : ~Superseded(all, x)}]

-----------------------------------------------------------------------------
Init ==
  /\ clock = 0
  /\ sweep = [s \in Sweeps |-> [at |-> "idle"]]
  /\ checkout = [c \in Checkouts |->
                   [base |-> Empty, results |-> Empty, tuning |-> Empty,
                    wrote |-> {}, swept |-> FALSE]]
  /\ pr = [c \in Checkouts |-> [at |-> "none"]]
  /\ main = Empty /\ page = Site(Empty)
  /\ faults = MaxFaults

Running(s) == sweep[s].at = "running"
Busy(c) == \E s \in Sweeps : Running(s) /\ sweep[s].in = c

\* cmd_run. The arm lock keeps a second sweep out of the checkout; a box is
\* cloned from the main branch for the one sweep it runs.
Start(s, c) ==
  /\ sweep[s].at = "idle" /\ ~Busy(c)
  /\ \A t \in Sweeps : t < s => sweep[t].at # "idle"
  /\ c \in Boxes => ~checkout[c].swept
  /\ \E o \in Options, ask \in Asks :
       /\ Accepted(o) /\ Expands(ask)
       /\ sweep' = [sweep EXCEPT ![s] =
                      [at |-> "running", in |-> c, opts |-> o,
                       plan |-> Expand(ask), next |-> 0]]
  /\ checkout' = [checkout EXCEPT ![c] =
                    IF c \in Boxes
                    THEN [@ EXCEPT !.base = main, !.results = main, !.swept = TRUE]
                    ELSE @]
  /\ UNCHANGED <<clock, pr, main, page, faults>>

\* Repetitions are the outer loop and arms the inner one.
Total(s) == sweep[s].opts.reps * Len(sweep[s].plan)
Arm(s) == sweep[s].plan[(sweep[s].next % Len(sweep[s].plan)) + 1]
Rep(s) == sweep[s].next \div Len(sweep[s].plan) + 1

\* run moves on after a repetition, refused or not, and ends well after the last;
\* --fail-fast ends it at the first refusal, with an exit code that is not 0.
Turn(s, refused) ==
  sweep' = [sweep EXCEPT
    ![s].next = @ + 1,
    ![s].at = IF refused /\ sweep[s].opts.failFast THEN "dead"
              ELSE IF sweep[s].next + 1 = Total(s) THEN "done" ELSE @]

\* An image that cannot be resolved is refused before there is anything to name.
RefuseUnidentified(s) ==
  /\ Running(s)
  /\ Turn(s, TRUE)
  /\ UNCHANGED <<clock, checkout, pr, main, page, faults>>

\* root_for: a trigger that bars publication has an archive of its own.
Archive(o) == IF o.bars THEN "tuning" ELSE "results"

\* measure: whatever became of an identified arm is one record, appended. An
\* append that fails is a refusal. The image can be another than it was.
Measure(s, status, version) ==
  /\ Running(s)
  /\ clock' = clock + 1
  /\ LET c == sweep[s].in
         o == sweep[s].opts
         r == [id |-> clock + 1, sitting |-> s, arm |-> Arm(s), rep |-> Rep(s), reps |-> o.reps,
               status |-> status, group |-> o.group, version |-> version, bars |-> o.bars, fixture |-> o.fixture,
               knobs |-> o.knobs]
     IN \E w \in Writes(r) :
          /\ Spend(w.fault + IF version = AsBuilt THEN 0 ELSE 1)
          /\ Turn(s, status = "failed" \/ ~w.ok)
          /\ checkout' = [checkout EXCEPT
               ![c][Archive(o)] = Write(@, w.what, w.newline),
               ![c].wrote = IF w.ok /\ ~o.bars THEN @ \union {r} ELSE @]
  /\ UNCHANGED <<pr, main, page>>

Crash(s) ==
  /\ Running(s) /\ Spend(1)
  /\ sweep' = [sweep EXCEPT ![s].at = "dead"]
  /\ UNCHANGED <<clock, checkout, pr, main, page>>

\* What root_for cannot prevent: a file moved by hand.
MoveTuning(c) ==
  /\ c \in Desks /\ ~Busy(c) /\ checkout[c].tuning # Empty
  /\ Spend(1)
  /\ checkout' = [checkout EXCEPT
       ![c].results = [lines |-> @.lines \o checkout[c].tuning.lines,
                       open |-> checkout[c].tuning.open],
       ![c].tuning = Empty]
  /\ UNCHANGED <<clock, sweep, pr, main, page>>

-----------------------------------------------------------------------------
\* To the main branch.

\* run-bench.sh: the lines past the committed count, a last one without its
\* newline counted too. The collector appends them to the file on main.
Appended(c) ==
  SubSeq(checkout[c].results.lines,
         Len(checkout[c].base.lines) + 1, Len(checkout[c].results.lines))

\* Of some lines those that a file does not hold, in their order.
Added(base, lines) ==
  LET added[n \in 0..Len(lines)] ==
        IF n = 0 THEN <<>>
        ELSE IF Holds(base, lines[n]) THEN added[n - 1]
        ELSE Append(added[n - 1], lines[n])
  IN added[Len(lines)]

\* main and the lines of a file that come to it; the last of the file may lack its
\* newline.
United(file, added) ==
  [lines |-> main.lines \o added,
   open |-> IF added = <<>> THEN main.open
            ELSE file.open /\ Last(added) = Last(file.lines)]

\* merge=union: the lines of both sides; a line both sides added can be applied
\* once or twice. (A line of garbage is in no branch that passes.)
Merges(base, file) ==
  LET more == Added(base, file.lines)
      new == Added(main, more)
  IN {[file |-> United(file, new), fault |-> 0],
      [file |-> United(file, more), fault |-> IF new = more THEN 0 ELSE 1]}

\* A contributor commits the file; a box uploads when its sweep has ended well.
Propose(c) ==
  /\ ~Busy(c) /\ pr[c].at = "none"
  /\ IF c \in Desks
     THEN /\ checkout[c].results # checkout[c].base
          /\ pr' = [pr EXCEPT ![c] = [at |-> "open", base |-> checkout[c].base,
                                      file |-> checkout[c].results,
                                      wrote |-> checkout[c].wrote]]
     ELSE /\ \E s \in Sweeps : sweep[s].at = "done" /\ sweep[s].in = c
          /\ Appended(c) # <<>>
          /\ pr' = [pr EXCEPT ![c] =
               [at |-> "open", base |-> main,
                file |-> [lines |-> main.lines \o Appended(c),
                          open |-> checkout[c].results.open],
                wrote |-> checkout[c].wrote]]
  /\ UNCHANGED <<clock, sweep, checkout, main, page, faults>>

\* (Mutant: the trigger is not looked at.)
TriggerUnread(r) == ~r.fixture /\ r.rep \in 1..r.reps

\* check_record and results_are_valid: every line parses, no run_id twice, no
\* trigger and no environment that bars publication, a repetition in its range.
RecordValid(r) == ~r.bars /\ ~r.fixture /\ r.rep \in 1..r.reps

\* (Mutant: a line that does not parse is skipped.)
ValidLeniently(f) ==
  \A i, j \in DOMAIN f.lines :
    f.lines[i] # Garbage /\ f.lines[j] # Garbage =>
      /\ RecordValid(f.lines[i])
      /\ f.lines[i].id = f.lines[j].id => i = j

Valid(f) ==
  /\ ~Holds(f, Garbage)
  /\ \A i \in DOMAIN f.lines :
       /\ RecordValid(f.lines[i])
       /\ \A j \in DOMAIN f.lines : f.lines[i].id = f.lines[j].id => i = j

\* CI runs `bench validate` on the merge of a pull request with main as it is
\* then; main can move before the merge itself.
Check(c) ==
  /\ pr[c].at = "open"
  /\ \E m \in Merges(pr[c].base, pr[c].file) :
       /\ m.fault = 0
       /\ pr' = [pr EXCEPT ![c].at = IF Valid(m.file) THEN "green" ELSE "red"]
  /\ UNCHANGED <<clock, sweep, checkout, main, page, faults>>

\* A green pull request is merged, and the push deploys the site: beside the CI
\* run of main and not after it. The contributor works on in the same checkout,
\* or brings it up to date first.
Merge(c) ==
  /\ pr[c].at = "green"
  /\ \E m \in Merges(pr[c].base, pr[c].file), pull \in BOOLEAN :
       /\ Spend(m.fault)
       /\ main' = m.file /\ page' = Site(m.file)
       /\ pull => c \in Desks /\ ~Busy(c) /\ checkout[c].results = pr[c].file
       /\ checkout' = IF pull THEN [checkout EXCEPT ![c].base = m.file,
                                                    ![c].results = m.file]
                      ELSE checkout
  /\ pr' = [pr EXCEPT ![c] = [at |-> "none"]]
  /\ UNCHANGED <<clock, sweep>>

\* A red one is closed, and its checkout thrown away.
Close(c) ==
  /\ pr[c].at = "red" /\ ~Busy(c)
  /\ pr' = [pr EXCEPT ![c] = [at |-> "none"]]
  /\ checkout' = [checkout EXCEPT ![c].base = main, ![c].results = main,
                                  ![c].wrote = {}]
  /\ UNCHANGED <<clock, sweep, main, page, faults>>

Next ==
  \/ \E s \in Sweeps, c \in Checkouts : Start(s, c)
  \/ \E s \in Sweeps :
       \/ RefuseUnidentified(s) \/ Crash(s)
       \/ \E status \in {"ok", "infra_bound", "failed"}, version \in Versions :
            Measure(s, status, version)
  \/ \E c \in Checkouts :
       MoveTuning(c) \/ Propose(c) \/ Check(c) \/ Merge(c) \/ Close(c)

Spec == Init /\ [][Next]_vars

-----------------------------------------------------------------------------
\* Nothing taken for a reason that bars publication, at a configuration no
\* descriptor declares, or on synthetic data is behind anything the site shows:
\* not through the command line, not through a file moved by hand, and not
\* through a checkout that goes on after its pull request.
NothingBarredPublished ==
  \A x \in page.rows \union page.attempts :
    \A r \in x.reps : ~r.bars /\ ~r.knobs /\ ~r.fixture

\* An arm the page ranks crossed no limit in any repetition of that sitting,
\* configuration and version that gave a number, and no later sitting of it in the
\* same comparability group is on the tree, with a number or without: "an arm ranked
\* on a reading its latest sweep could not reproduce". (A later sitting in another
\* mode or environment, or of another dataset, retires nothing.)
RankedIsReproduced ==
  \A row \in page.rows :
    LET mine == {x \in Loaded(main) : SameArm(row, x)}
        same == {x \in mine : x.sitting = row.sitting}
    IN /\ row.status = "ok" => \A x \in same : rowKey(x) = row.key => x.status # "infra_bound"
       /\ \A x \in mine : \E y \in same : x.id <= y.id

\* A record whose append returned is on the main branch once the pull request of
\* its checkout is merged: a broken line before it or after it makes validate
\* refuse the tree and never hides it. The exception is a box whose committed file
\* lacks its last newline: its first record ends up on a line that run-bench.sh
\* takes for committed, and nothing is said of that box.
LossIsSeen ==
  [][\A c \in Checkouts : pr[c].at = "green" /\ pr'[c].at = "none" =>
       \A r \in pr[c].wrote :
         Holds(main', r) \/ (c \in Boxes /\ checkout[c].base.open)]_vars

=============================================================================
