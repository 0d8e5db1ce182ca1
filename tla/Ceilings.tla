------------------------------ MODULE Ceilings ------------------------------
(***************************************************************************)
(* The committed ceilings file of one environment and the headroom gate    *)
(* that arms are held to: `bench ceiling --measure` of                     *)
(* src/harness/src/bin/bench.rs and src/harness/src/ceiling.rs, the        *)
(* environment's digest of environment.rs, infra::bring_up, and what a     *)
(* sweep of driver.rs does with the ceilings. The profile, the generator,  *)
(* the topic, the containers and the file are shared and change between    *)
(* the steps of a process. The arm lock is what ArmMutex promises, which   *)
(* ends when the lock of a live holder is given up (module ArmLock shows   *)
(* the ways); "disturbed" remembers that it was.                           *)
(***************************************************************************)
EXTENDS Integers, FiniteSets

CONSTANTS
  Procs,          \* processes of the harness
  Envelopes,      \* infra_digest values: the shapes a profile can declare
  Caps,           \* the cpus and memory each of them gives a container: a digest
                  \* also covers the broker's kind and the partitions
  Corpora,        \* versions of the generator
  Size,           \* corpus_message_bytes of each
  Formats,        \* wire formats the rig can measure
  Figures,        \* bound: rates a pass may come out with
  Achieved,       \* bound: rates an arm may reach
  MaxLaunches,    \* bound: processes started
  MaxEdits,       \* bound: edits of the profile or the generator, and removals
  MaxKills,       \* bound: kills, and locks of live holders given up
  None,           \* no entry, no file, no record, nobody
  Dead,           \* the owner a lock file names, killed
  Torn            \* a file cut off in the middle of its write

\* A figure, with who measured it and under which envelope; "under" is the one
\* the container was started from, where that can be told (history; Told).
Entries ==
  [rate : Nat, size : Nat, client : {"inside", "outside"},
   digest : {""} \union Envelopes, under : {None} \union Envelopes]

\* What a file that parses holds.
Files ==
  [consume : {None} \union Entries, ingest : [Formats -> {None} \union Entries]]

ASSUME CeilingsAssumption ==
  /\ Size \in [Corpora -> Nat \ {0}] /\ Figures \subseteq Nat /\ Achieved \subseteq Nat
  /\ MaxLaunches \in Nat /\ MaxEdits \in Nat /\ MaxKills \in Nat
  /\ None # Torn /\ {None, Torn, Dead} \intersect (Procs \union Envelopes \union Corpora) = {}
  /\ None \notin Entries \union Files /\ Torn \notin Files

VARIABLES
  profile,    \* the envelope environments/<id>.toml declares
  corpus,     \* the generator of the checkout
  running,    \* the envelope each container was started with, or None
  topic,      \* the generator whose messages the broker holds, or None
  holder,     \* whom the arm lock names
  disturbed,  \* history: something was done beside a live holder
  file,       \* the ceilings file: None, Torn or its entries
  proc,       \* the processes
  record,     \* what the arm of this very step was held to, or None
  good,       \* history: the last content of the file that parsed
  budget

world == <<profile, corpus, running, topic>>
vars == <<world, holder, disturbed, file, proc, record, good, budget>>

Containers == {"broker", "clickhouse"}
Idle == [at |-> "idle"]
Empty == [consume |-> None, ingest |-> [f \in Formats |-> None]]

\* size_differs_materially: outside five per cent, or unknown.
Differs(measured, current) ==
  \/ measured = 0 \/ current = 0
  \/ 100 * measured < 95 * current \/ 100 * measured > 105 * current

-----------------------------------------------------------------------------
\* Ceilings::gate and Ceiling::headroom.

\* Inside the bench network and under this very envelope.
Usable(e, digest) == e # None /\ e.client = "inside" /\ e.digest # "" /\ e.digest = digest

\* What of a file an arm of this corpus and envelope may be gated against. An
\* ingest ceiling is dropped for its envelope or its client alone.
Gate(f, size, digest) ==
  [consume |-> IF Usable(f.consume, digest) /\ ~Differs(f.consume.size, size)
                 THEN f.consume ELSE None,
   ingest |-> [x \in Formats |-> IF Usable(f.ingest[x], digest) THEN f.ingest[x] ELSE None],
   refused |-> \/ ~(Usable(f.consume, digest) /\ ~Differs(f.consume.size, size))
               \/ \E x \in Formats : f.ingest[x] # None /\ ~Usable(f.ingest[x], digest)]

\* The larger of the shares of the message rate and of the byte rate, against
\* HEADROOM_LIMIT.
ConsumeOver(g, arm, size) ==
  \/ 10 * arm.msgs > 7 * g.consume.rate
  \/ 10 * arm.msgs * size > 7 * g.consume.rate * g.consume.size

ConsumeHeld(g) == g.consume # None /\ g.consume.rate > 0
IngestHeld(g, arm) ==
  ~arm.transform /\ g.ingest[arm.format] # None /\ g.ingest[arm.format].rate > 0

Headroom(g, arm, size, read, under) ==
  [arm |-> arm, size |-> size, corpus |-> read, under |-> under,
   consume |-> IF ConsumeHeld(g) THEN g.consume ELSE None,
   ingest |-> IF IngestHeld(g, arm) THEN g.ingest[arm.format] ELSE None,
   bound |-> \/ ConsumeHeld(g) /\ ConsumeOver(g, arm, size)
             \/ IngestHeld(g, arm) /\ 10 * arm.rows > 7 * g.ingest[arm.format].rate,
   proven |-> ~g.refused /\ IngestHeld(g, arm)]

-----------------------------------------------------------------------------
\* Figures of an earlier harness: read through the published port, or without
\* a client, which location_named takes no differently; with an envelope or not; of
\* messages of a size no generator makes any more.
Legacy ==
  [rate : Figures \ {0}, size : {1}, client : {"outside"},
   digest : {""} \union Envelopes, under : {None}]

Init ==
  /\ profile \in Envelopes /\ corpus \in Corpora
  /\ running = [c \in Containers |-> None] /\ topic = None
  /\ holder = None /\ disturbed = FALSE
  /\ \/ file = None
     \/ \E e \in Legacy : file = [Empty EXCEPT !.consume = e]
     \/ \E e \in Legacy, x \in Formats : file = [Empty EXCEPT !.ingest[x] = e]
  /\ proc = [p \in Procs |-> Idle]
  /\ record = None
  /\ good = IF file = None THEN Empty ELSE file
  /\ budget = [launches |-> MaxLaunches, edits |-> MaxEdits, kills |-> MaxKills]

NoRecord == record' = None
Goto(p, where) == proc' = [proc EXCEPT ![p].at = where]

\* Between the lock and the exit. Dropping the lock removes the file, whosever
\* it is by then.
Inside == {p \in Procs : proc[p].at \notin {"idle", "start"}}
Exit(p) ==
  /\ proc' = [proc EXCEPT ![p] = Idle]
  /\ holder' = IF p \in Inside THEN None ELSE holder

\* Every command loads the profile, and is built from the checkout, before it
\* does anything else. Its flags are chosen where something depends on them.
LaunchPass(p) ==
  /\ proc[p] = Idle /\ budget.launches > 0
  /\ budget' = [budget EXCEPT !.launches = @ - 1]
  /\ proc' = [proc EXCEPT ![p] =
                [at |-> "start", command |-> "pass", digest |-> profile, corpus |-> corpus,
                 old |-> None, pass |-> Empty]]
  /\ NoRecord /\ UNCHANGED <<world, holder, disturbed, file, good>>

\* run(): a ceilings file that is missing or does not parse refuses the sweep;
\* the gate is resolved once, before the lock is taken.
LaunchSweep(p) ==
  /\ proc[p] = Idle /\ budget.launches > 0
  /\ budget' = [budget EXCEPT !.launches = @ - 1]
  /\ file \notin {None, Torn}
  /\ proc' = [proc EXCEPT ![p] =
                [at |-> "start", command |-> "sweep", digest |-> profile, corpus |-> corpus,
                 gate |-> Gate(file, Size[corpus], profile)]]
  /\ NoRecord /\ UNCHANGED <<world, holder, disturbed, file, good>>

\* Mutant: a ceiling pass takes no lock.
AcquireForSweep(p) ==
  /\ proc[p].at = "start"
  /\ IF proc[p].command = "pass" THEN Goto(p, "locked") /\ UNCHANGED holder
     ELSE IF holder \in {None, Dead} THEN holder' = p /\ Goto(p, "locked")
     ELSE Exit(p)
  /\ NoRecord /\ UNCHANGED <<world, disturbed, file, good, budget>>

\* ArmLock::acquire: refused while somebody alive holds it.
Acquire(p) ==
  /\ proc[p].at = "start"
  /\ IF holder \in {None, Dead} THEN holder' = p /\ Goto(p, "locked") ELSE Exit(p)
  /\ NoRecord /\ UNCHANGED <<world, disturbed, file, good, budget>>

\* Mutant: what runs is taken for what the profile declares.
CapsUnread(after, digest) == TRUE

\* assert_cap: the cpus and the memory of both containers are what the profile
\* declares. The broker's kind and the partitions are not read back.
CapsMatch(after, digest) == \A c \in Containers : Caps[after[c]][c] = Caps[digest][c]

\* bring_up: each container is reused if it runs and may be, and started from
\* the profile otherwise; a broker that is started holds no messages.
Started(reuse, digest) ==
  [c \in Containers |-> IF reuse /\ running[c] # None THEN running[c] ELSE digest]
Kept(reuse) == IF reuse /\ running["broker"] # None THEN topic ELSE None

\* A pass always reuses what runs; a sweep may have been given --fresh-infra.
BringUp(p) ==
  /\ proc[p].at = "locked"
  /\ \E reuse \in BOOLEAN :
       /\ proc[p].command = "pass" => reuse
       /\ running' = Started(reuse, proc[p].digest) /\ topic' = Kept(reuse)
       /\ IF CapsMatch(running', proc[p].digest)
            THEN Goto(p, "up") /\ UNCHANGED holder
            ELSE Exit(p)
  /\ NoRecord /\ UNCHANGED <<profile, corpus, disturbed, file, good, budget>>

-----------------------------------------------------------------------------
\* ceiling::measure: the consume pass, then each format that was asked for.

\* The envelope a container was started from, for the history of a figure or of a
\* record: once something was done beside a live holder it can change in a window.
Told(c) == IF disturbed THEN None ELSE running[c]

Entry(p, r, c, under) ==
  [rate |-> r, size |-> Size[c], client |-> "inside",
   digest |-> proc[p].digest, under |-> under]

Refuse(p) ==
  /\ proc[p].at \in {"up", "ingest"}
  /\ Exit(p)
  /\ NoRecord /\ UNCHANGED <<world, disturbed, file, good, budget>>

MeasureConsume(p) ==
  /\ proc[p].at = "up" /\ proc[p].command = "pass"
  /\ topic # None /\ ~Differs(Size[topic], Size[proc[p].corpus])
  /\ \E r \in Figures \ {0} :
       proc' = [proc EXCEPT ![p].at = "ingest",
                            ![p].pass.consume = Entry(p, r, topic, Told("broker"))]
  /\ NoRecord /\ UNCHANGED <<world, holder, disturbed, file, good, budget>>

MeasureIngest(p) ==
  /\ proc[p].at = "ingest" /\ running["clickhouse"] # None
  /\ \E x \in Formats, r \in Figures :
       /\ proc[p].pass.ingest[x] = None
       /\ proc' = [proc EXCEPT ![p].pass.ingest[x] =
                     Entry(p, r, proc[p].corpus, Told("clickhouse"))]
  /\ NoRecord /\ UNCHANGED <<world, holder, disturbed, file, good, budget>>

\* With --only, some formats are all that were asked for. Only a missing file starts
\* empty: one that does not parse is an error.
Load(p) ==
  /\ proc[p].at = "ingest" /\ \E x \in Formats : proc[p].pass.ingest[x] # None
  /\ IF file = Torn THEN Exit(p)
     ELSE /\ proc' = [proc EXCEPT ![p].at = "loaded",
                                  ![p].old = IF file = None THEN Empty ELSE file]
          /\ UNCHANGED holder
  /\ NoRecord /\ UNCHANGED <<world, disturbed, file, good, budget>>

\* Ceilings::merge: by key.
Merged(old, pass) ==
  [consume |-> pass.consume,
   ingest |-> [x \in Formats |-> IF pass.ingest[x] # None THEN pass.ingest[x] ELSE old.ingest[x]]]

\* Mutant: the file is written as it comes.
StaleNever(f, digest) == {}

\* measured_under_other_envelopes.
Stale(f, digest) ==
  {e \in {f.consume} \union {f.ingest[x] : x \in Formats} : e # None /\ e.digest # digest}

\* With --write, unless the merged file would describe two
\* envelopes. It is written in place: the old content goes before the new one is there.
SaveBegin(p) ==
  /\ proc[p].at = "loaded"
  /\ \/ /\ Stale(Merged(proc[p].old, proc[p].pass), proc[p].digest) = {}
        /\ file' = Torn /\ Goto(p, "saving") /\ UNCHANGED holder
     \/ Exit(p) /\ UNCHANGED file
  /\ NoRecord /\ UNCHANGED <<world, disturbed, good, budget>>

SaveEnd(p) ==
  /\ proc[p].at = "saving"
  /\ file' = Merged(proc[p].old, proc[p].pass)
  /\ good' = file'
  /\ Exit(p)
  /\ NoRecord /\ UNCHANGED <<world, disturbed, budget>>

-----------------------------------------------------------------------------
\* A sweep measures an arm that passes the correctness gates, which rest on the
\* topic being this generator's, and holds what it achieved to the gate.
MeasureArm(p) ==
  /\ proc[p].at = "up" /\ proc[p].command = "sweep"
  /\ topic = proc[p].corpus /\ running["clickhouse"] # None
  /\ \E x \in Formats, t \in BOOLEAN, m, r \in Achieved :
       record' = Headroom(proc[p].gate,
                          [format |-> x, transform |-> t, msgs |-> m, rows |-> r],
                          Size[topic], topic, [c \in Containers |-> Told(c)])
  /\ Exit(p)
  /\ UNCHANGED <<world, disturbed, file, good, budget>>

\* Killed by the kernel: the lock file stays, and whoever finds its owner dead
\* reclaims it.
Kill(p) ==
  /\ proc[p] # Idle /\ budget.kills > 0
  /\ budget' = [budget EXCEPT !.kills = @ - 1]
  /\ proc' = [proc EXCEPT ![p] = Idle]
  /\ holder' = IF holder = p THEN Dead ELSE holder
  /\ NoRecord /\ UNCHANGED <<world, disturbed, file, good>>

\* The lock of a live holder is given up: forced by an operator, or removed by a
\* process that took its owner for dead or raced another reclaim (module ArmLock).
GiveUp ==
  /\ holder \in Procs /\ budget.kills > 0
  /\ budget' = [budget EXCEPT !.kills = @ - 1]
  /\ holder' = None /\ disturbed' = TRUE
  /\ NoRecord /\ UNCHANGED <<world, file, proc, good>>

-----------------------------------------------------------------------------
\* Around the processes.

Edit == budget.edits > 0 /\ budget' = [budget EXCEPT !.edits = @ - 1]

EditProfile ==
  /\ Edit /\ profile' \in Envelopes \ {profile}
  /\ NoRecord /\ UNCHANGED <<corpus, running, topic, holder, disturbed, file, proc, good>>

BumpCorpus ==
  /\ Edit /\ corpus' \in Corpora \ {corpus}
  /\ NoRecord /\ UNCHANGED <<profile, running, topic, holder, disturbed, file, proc, good>>

\* "Recreate the infrastructure": an operator removes a container.
RemoveContainer ==
  /\ Edit
  /\ disturbed' = (disturbed \/ Inside # {})
  /\ \E c \in Containers :
       /\ running' = [running EXCEPT ![c] = None]
       /\ topic' = IF c = "broker" THEN None ELSE topic
  /\ NoRecord /\ UNCHANGED <<profile, corpus, holder, file, proc, good>>

\* git checkout: a torn file is put back as it was committed.
Restore ==
  /\ file = Torn /\ \A p \in Procs : proc[p].at # "saving"
  /\ file' = good
  /\ NoRecord /\ UNCHANGED <<world, holder, disturbed, proc, good, budget>>

\* prefill: brings the infrastructure up and fills an empty topic; one that
\* holds messages of another generator is reused by depth and then refused.
\* It takes no lock, and recreates the containers under whoever works on them
\* unless it is told to reuse them.
Prefill ==
  /\ \E reuse \in BOOLEAN :
       /\ disturbed' = (disturbed \/ (~reuse /\ Inside # {}))
       /\ running' = Started(reuse, profile)
       /\ topic' = IF CapsMatch(running', profile) /\ Kept(reuse) = None THEN corpus
                   ELSE Kept(reuse)
  /\ NoRecord /\ UNCHANGED <<profile, corpus, holder, file, proc, good, budget>>

Harness(p) ==
  \/ LaunchPass(p) \/ LaunchSweep(p) \/ Acquire(p) \/ BringUp(p) \/ Refuse(p)
  \/ MeasureConsume(p) \/ MeasureIngest(p) \/ Load(p) \/ SaveBegin(p) \/ SaveEnd(p)
  \/ MeasureArm(p) \/ Kill(p)

Next ==
  \/ \E p \in Procs : Harness(p)
  \/ GiveUp \/ EditProfile \/ BumpCorpus \/ RemoveContainer \/ Restore \/ Prefill

Spec == Init /\ [][Next]_vars

-----------------------------------------------------------------------------
IsFile(f) == f \notin {None, Torn}

\* "An arm that passes the checks it happens to have is not the same as an arm
\* that passes the checks the methodology promises": a record that is not
\* flagged was held to a consume and to an ingest figure, both measured from
\* inside, the consume one at messages of the arm's size, and both on a container
\* with the very cpus and memory that the arm's container had, unless one of them
\* was taken after something was done beside a live holder.
SameCaps(e, c) ==
  \/ None \in {e.under, record.under[c]}
  \/ Caps[e.under][c] = Caps[record.under[c]][c]
ProvenIsHeld ==
  record # None /\ record.proven =>
    /\ ~record.arm.transform
    /\ record.consume # None /\ record.ingest # None
    /\ \A e \in {record.consume, record.ingest} : e.client = "inside" /\ e.rate > 0
    /\ ~Differs(record.consume.size, Size[record.corpus])
    /\ SameCaps(record.consume, "broker") /\ SameCaps(record.ingest, "clickhouse")

\* "A container left running under a stale envelope still fails the run rather than
\* quietly producing a number", infra.rs 125: the broker of an arm that is not
\* flagged had the envelope of the figure it was held to, in all that a digest tells
\* apart. Ceilings_envelope.cfg has the counterexample.
ProvenUnderOneEnvelope ==
  record # None /\ record.proven /\ ~disturbed =>
    record.consume.under = record.under["broker"]

\* A file that a pass has written describes one envelope.
WrittenOfOneEnvelope ==
  [][\A p \in Procs : SaveEnd(p) =>
       Cardinality({e.digest : e \in {file'.consume} \union
                      ({file'.ingest[x] : x \in Formats} \ {None})}) = 1]_vars

\* "A pass that measured RowBinary must not delete a JSONEachRow ceiling
\* somebody else measured": a write keeps every figure of the last file that
\* could be read but the ones its pass measured, as long as nothing is done beside
\* a live holder of the lock.
NothingLost ==
  [][\A p \in Procs : SaveEnd(p) /\ ~disturbed =>
       \A x \in Formats : proc[p].pass.ingest[x] = None => file'.ingest[x] = good.ingest[x]]_vars

\* "A ceiling that does not describe the bytes the arms read ... is dropped":
\* an ingest figure an arm is held to was measured with the rows of the
\* arm's corpus, as a consume figure is with its messages.
AppliedDescribesCorpus ==
  record # None /\ record.ingest # None =>
    ~Differs(record.ingest.size, Size[record.corpus])
=============================================================================
