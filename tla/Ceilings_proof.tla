--------------------------- MODULE Ceilings_proof ---------------------------
(***************************************************************************)
(* Proofs about the ceilings file and the headroom gate, for any processes,*)
(* envelopes, generators, formats and figures, edits and kills anywhere.   *)
(***************************************************************************)
EXTENDS Ceilings, FiniteSetTheorems, TLAPS

\* A figure that was measured inside has the digest of an envelope that gives the
\* container it was measured on what it had.
Sound(c) ==
  {e \in Entries : e.client = "inside" /\ e.under # None => Caps[e.under][c] = Caps[e.digest][c]}
Positive == {e \in Sound("broker") : e.rate > 0}
Sounds == [Formats -> {None} \union Sound("clickhouse")]
SoundFiles == [consume : {None} \union Positive, ingest : Sounds]

Passes ==
  [at : {"start", "locked", "up", "ingest", "loaded", "saving"}, command : {"pass"},
   digest : Envelopes, corpus : Corpora,
   old : {None} \union SoundFiles, pass : SoundFiles]
Gates == [consume : {None} \union Positive, ingest : Sounds, refused : BOOLEAN]
SweepProcs ==
  [at : {"start", "locked", "up"}, command : {"sweep"},
   digest : Envelopes, corpus : Corpora, gate : Gates]

TypeOK ==
  /\ profile \in Envelopes /\ corpus \in Corpora
  /\ running \in [Containers -> {None} \union Envelopes]
  /\ topic \in {None} \union Corpora /\ disturbed \in BOOLEAN
  /\ file \in {None, Torn} \union SoundFiles /\ good \in SoundFiles
  /\ proc \in [Procs -> {Idle} \union Passes \union SweepProcs]

\* While nothing is done beside a live holder, a process past the lock holds it, and
\* one past bring_up runs on containers of the caps its own envelope declares.
LockedBy(p) ==
  ~disturbed =>
    /\ proc[p].at \notin {"idle", "start"} => holder = p
    /\ proc[p].at \in {"up", "ingest", "loaded", "saving"} =>
         \A c \in Containers : /\ running[c] \in Envelopes
                               /\ Caps[running[c]][c] = Caps[proc[p].digest][c]

\* What a pass has measured and what it has read of the file.
PassOf(p) ==
  /\ proc[p].at \in {"ingest", "loaded", "saving"} => proc[p].pass.consume # None
  /\ ~disturbed =>
       /\ proc[p].at = "loaded" => proc[p].old = good /\ file # Torn
       /\ proc[p].at = "saving" => proc[p].old = good /\ file = Torn
  /\ proc[p].at \in {"loaded", "saving"} => proc[p].old # None
  /\ proc[p].at = "saving" =>
       Stale(Merged(proc[p].old, proc[p].pass), proc[p].digest) = {}

\* The gate of a sweep is of its own envelope and of its own corpus.
GateFits(g, digest, size) ==
  /\ g.consume # None => Usable(g.consume, digest) /\ ~Differs(g.consume.size, size)
  /\ \A x \in Formats : g.ingest[x] # None => Usable(g.ingest[x], digest)
  /\ ~g.refused => g.consume # None
GateOf(p) ==
  proc[p] \in SweepProcs => GateFits(proc[p].gate, proc[p].digest, Size[proc[p].corpus])

\* "good" is what the file held when it could last be read.
Last ==
  /\ file = None => good = Empty
  /\ file \notin {None, Torn} => file = good

CeilingsInv ==
  /\ TypeOK /\ Last /\ ProvenIsHeld
  /\ \A p \in Procs : LockedBy(p) /\ PassOf(p) /\ GateOf(p)

-----------------------------------------------------------------------------
Own(p) == LockedBy(p) /\ PassOf(p) /\ GateOf(p)

\* What a process is, by where it stands.
LEMMA Kinds ==
  ASSUME TypeOK, NEW p \in Procs
  PROVE  /\ proc[p].at = "idle" => proc[p] = Idle
         /\ proc[p].at # "idle" => proc[p] \in Passes \/ proc[p] \in SweepProcs
         /\ proc[p].at \in {"ingest", "loaded", "saving"} => proc[p] \in Passes
         /\ proc[p] \in Passes => proc[p].command = "pass" /\ proc[p].at # "idle"
         /\ proc[p] \in SweepProcs => proc[p].command = "sweep" /\ proc[p].at # "idle"
<1>1. proc[p] \in {Idle} \union Passes \union SweepProcs
  BY DEF TypeOK
<1> QED
  BY <1>1 DEF Idle, Passes, SweepProcs

\* Nobody else is past the lock while a process holds it, or while nobody alive does.
LEMMA Alone ==
  ASSUME CeilingsInv, ~disturbed, NEW p \in Procs, NEW q \in Procs, q # p,
         holder \in {p, None, Dead}
  PROVE  proc[q].at \in {"idle", "start"}
BY CeilingsAssumption DEF CeilingsInv, LockedBy

\* A process that is not past the lock keeps its part, whatever the others do.
LEMMA Outside ==
  ASSUME TypeOK, NEW q \in Procs, Own(q), proc[q].at \in {"idle", "start"}, proc'[q] = proc[q]
  PROVE  Own(q)'
BY DEF Own, LockedBy, PassOf, GateOf

\* And any process does while lock, containers and file stand still, or once
\* something was done beside a live holder.
LEMMA Beside ==
  ASSUME NEW q \in Procs, Own(q), proc'[q] = proc[q],
         UNCHANGED <<holder, disturbed, running, file, good>>
  PROVE  Own(q)'
BY DEF Own, LockedBy, PassOf, GateOf

LEMMA Apart ==
  ASSUME NEW q \in Procs, Own(q), proc'[q] = proc[q], disturbed'
  PROVE  Own(q)'
BY DEF Own, LockedBy, PassOf, GateOf

\* Nobody's part rests on a process that leaves.
LEMMA IdleIsOwn ==
  ASSUME NEW p \in Procs, proc'[p] = Idle
  PROVE  Own(p)'
BY DEF Own, LockedBy, PassOf, GateOf, Idle, Passes, SweepProcs

\* What leaves keeps every other process as it was.
LEMMA ExitStep ==
  ASSUME CeilingsInv, NEW p \in Procs, Exit(p), NoRecord,
         UNCHANGED <<world, disturbed, file, good>>
  PROVE  CeilingsInv'
<1>1. TypeOK /\ Last /\ \A q \in Procs : Own(q)
  BY DEF CeilingsInv, Own
<1>2. TypeOK'
  BY <1>1 DEF TypeOK, Exit, world
<1>3. Last' /\ ProvenIsHeld'
  BY <1>1 DEF Last, ProvenIsHeld, NoRecord
<1>4. proc'[p] = Idle /\ \A q \in Procs \ {p} : proc'[q] = proc[q]
  BY <1>1 DEF Exit, TypeOK
<1>5. ASSUME NEW q \in Procs, q # p PROVE Own(q)'
  <2>1. CASE disturbed
    BY <1>1, <1>4, <1>5, <2>1, Apart
  <2>2. CASE ~disturbed /\ p \in Inside
    <3>1. holder = p
      BY <1>1, <2>2 DEF Inside, Own, LockedBy
    <3> QED
      BY <1>1, <1>4, <1>5, <2>2, <3>1, Alone, Outside
  <2>3. CASE p \notin Inside
    BY <1>1, <1>4, <1>5, <2>3, Beside DEF Exit, world
  <2> QED
    BY <2>1, <2>2, <2>3
<1> QED
  BY <1>1, <1>2, <1>3, <1>4, <1>5, IdleIsOwn DEF CeilingsInv, Own

-----------------------------------------------------------------------------
LEMMA FilesAreNot ==
  None \notin SoundFiles /\ Torn \notin SoundFiles /\ \A c \in Containers : None \notin Sound(c)
<1>1. SoundFiles \subseteq Files
  BY DEF SoundFiles, Sounds, Files, Positive, Sound
<1> QED
  BY <1>1, CeilingsAssumption DEF Sound

LEMMA EmptyIsSound == Empty \in SoundFiles
BY DEF Empty, SoundFiles, Sounds

LEMMA LegacyIsPositive == Legacy \subseteq Positive /\ Legacy \subseteq Sound("clickhouse")
<1> SUFFICES ASSUME NEW e \in Legacy PROVE e \in Positive /\ e \in Sound("clickhouse")
  OBVIOUS
<1>1. e \in Entries
  <2>1. 1 \in Nat /\ Figures \subseteq Nat
    BY CeilingsAssumption
  <2>2. /\ e.rate \in Figures /\ e.size = 1 /\ e.client = "outside"
        /\ e.digest \in {""} \union Envelopes /\ e.under = None
        /\ e = [rate |-> e.rate, size |-> e.size, client |-> e.client,
               digest |-> e.digest, under |-> e.under]
    BY DEF Legacy
  <2> QED
    BY <2>1, <2>2 DEF Entries
<1>2. e.client = "outside" /\ e.rate \in Nat /\ e.rate # 0
  BY CeilingsAssumption DEF Legacy
<1>3. \A n \in Nat : n # 0 => n > 0
  OBVIOUS
<1>4. e.rate > 0
  BY <1>2, <1>3, Zenon
<1> QED
  BY <1>1, <1>2, <1>4 DEF Positive, Sound

\* What a merge and a gate make of sound figures.
LEMMA MergeIsSound ==
  ASSUME NEW old \in SoundFiles, NEW pass \in SoundFiles
  PROVE  Merged(old, pass) \in SoundFiles
BY DEF Merged, SoundFiles, Sounds

LEMMA GateIsSound ==
  ASSUME NEW f \in SoundFiles, NEW digest, NEW size
  PROVE  Gate(f, size, digest) \in Gates /\ GateFits(Gate(f, size, digest), digest, size)
<1> DEFINE g == Gate(f, size, digest)
<1>1. f.consume \in {None} \union Positive /\ f.ingest \in Sounds
  BY DEF SoundFiles
<1>2. g.consume = IF Usable(f.consume, digest) /\ ~Differs(f.consume.size, size)
                    THEN f.consume ELSE None
  BY DEF Gate
<1>3. g.ingest = [x \in Formats |-> IF Usable(f.ingest[x], digest) THEN f.ingest[x] ELSE None]
  BY DEF Gate
<1>4. ~g.refused => Usable(f.consume, digest) /\ ~Differs(f.consume.size, size)
  BY DEF Gate
<1>5. g \in Gates
  <2>1. g.consume \in {None} \union Positive
    BY <1>1, <1>2
  <2>2. g.ingest \in Sounds
    BY <1>1, <1>3 DEF Sounds
  <2>3. g.refused \in BOOLEAN
    BY DEF Gate
  <2>4. g = [consume |-> g.consume, ingest |-> g.ingest, refused |-> g.refused]
    BY DEF Gate
  <2> HIDE DEF g
  <2> QED
    BY <2>1, <2>2, <2>3, <2>4 DEF Gates
<1>6. GateFits(g, digest, size)
  <2> HIDE DEF g
  <2>1. g.consume # None => Usable(g.consume, digest) /\ ~Differs(g.consume.size, size)
    BY <1>2
  <2>2. \A x \in Formats : g.ingest[x] # None => Usable(g.ingest[x], digest)
    BY <1>3
  <2>3. ~g.refused => g.consume # None
    BY <1>2, <1>4 DEF Usable
  <2> QED
    BY <2>1, <2>2, <2>3 DEF GateFits
<1> QED
  BY <1>5, <1>6

LEMMA InitInv == Init => CeilingsInv
<1> SUFFICES ASSUME Init PROVE CeilingsInv
  OBVIOUS
<1>1. file \in {None} \union SoundFiles
  <2>1. CASE file = None
    BY <2>1
  <2>2. ASSUME NEW e \in Legacy, file = [Empty EXCEPT !.consume = e] PROVE file \in SoundFiles
    BY <2>2, LegacyIsPositive DEF Empty, SoundFiles, Sounds
  <2>3. ASSUME NEW e \in Legacy, NEW x \in Formats, file = [Empty EXCEPT !.ingest[x] = e]
        PROVE  file \in SoundFiles
    BY <2>3, LegacyIsPositive DEF Empty, SoundFiles, Sounds
  <2> QED
    BY <2>1, <2>2, <2>3 DEF Init
<1>2. TypeOK
  BY <1>1, EmptyIsSound DEF Init, TypeOK
<1>3. Last /\ ProvenIsHeld
  BY DEF Init, Last, ProvenIsHeld
<1>4. ASSUME NEW p \in Procs PROVE Own(p)
  BY DEF Init, Own, LockedBy, PassOf, GateOf, Idle, Passes, SweepProcs
<1> QED
  BY <1>2, <1>3, <1>4 DEF CeilingsInv, Own

-----------------------------------------------------------------------------
LEMMA LaunchPassStep ==
  ASSUME CeilingsInv, NEW p \in Procs, LaunchPass(p) PROVE CeilingsInv'
<1>1. TypeOK /\ Last /\ \A q \in Procs : Own(q)
  BY DEF CeilingsInv, Own
<1>2. proc' = [proc EXCEPT ![p] =
                 [at |-> "start", command |-> "pass", digest |-> profile, corpus |-> corpus,
                  old |-> None, pass |-> Empty]]
  BY DEF LaunchPass
<1>3. proc'[p] = [at |-> "start", command |-> "pass", digest |-> profile, corpus |-> corpus,
                  old |-> None, pass |-> Empty]
  BY <1>1, <1>2 DEF TypeOK
<1>4. proc'[p] \in Passes
  BY <1>1, <1>3, EmptyIsSound DEF Passes, TypeOK
<1>5. UNCHANGED <<world, holder, disturbed, file, good>> /\ record' = None
  BY DEF LaunchPass, NoRecord
<1>6. TypeOK'
  BY <1>1, <1>2, <1>3, <1>4, <1>5 DEF TypeOK, world
<1>7. Last' /\ ProvenIsHeld'
  BY <1>1, <1>5 DEF Last, ProvenIsHeld
<1>8. ASSUME NEW q \in Procs PROVE Own(q)'
  <2>1. CASE q = p
    <3>1. LockedBy(p)' /\ PassOf(p)'
      BY <1>3 DEF LockedBy, PassOf, Empty
    <3>2. GateOf(p)'
      BY <1>3 DEF GateOf, SweepProcs
    <3> QED
      BY <2>1, <3>1, <3>2 DEF Own
  <2>2. CASE q # p
    BY <1>1, <1>2, <1>5, <2>2, Beside DEF TypeOK, world
  <2> QED
    BY <2>1, <2>2
<1> QED
  BY <1>6, <1>7, <1>8 DEF CeilingsInv, Own

LEMMA LaunchSweepStep ==
  ASSUME CeilingsInv, NEW p \in Procs, LaunchSweep(p) PROVE CeilingsInv'
<1>1. TypeOK /\ Last /\ \A q \in Procs : Own(q)
  BY DEF CeilingsInv, Own
<1> DEFINE gate == Gate(file, Size[corpus], profile)
<1>2. proc' = [proc EXCEPT ![p] =
                 [at |-> "start", command |-> "sweep", digest |-> profile, corpus |-> corpus,
                  gate |-> gate]]
  BY DEF LaunchSweep
<1>3. gate \in Gates /\ GateFits(gate, profile, Size[corpus])
  BY <1>1, GateIsSound DEF LaunchSweep, TypeOK
<1> HIDE DEF gate
<1>4. proc'[p] = [at |-> "start", command |-> "sweep", digest |-> profile, corpus |-> corpus,
                  gate |-> gate]
  BY <1>1, <1>2 DEF TypeOK
<1>5. proc'[p] \in SweepProcs
  BY <1>1, <1>3, <1>4 DEF SweepProcs, TypeOK
<1>6. UNCHANGED <<world, holder, disturbed, file, good>> /\ record' = None
  BY DEF LaunchSweep, NoRecord
<1>7. TypeOK'
  BY <1>1, <1>2, <1>4, <1>5, <1>6 DEF TypeOK, world
<1>8. Last' /\ ProvenIsHeld'
  BY <1>1, <1>6 DEF Last, ProvenIsHeld
<1>9. ASSUME NEW q \in Procs PROVE Own(q)'
  <2>1. CASE q = p
    <3>1. LockedBy(p)' /\ PassOf(p)'
      BY <1>4 DEF LockedBy, PassOf, Passes
    <3>2. GateOf(p)'
      BY <1>3, <1>4 DEF GateOf, GateFits
    <3> QED
      BY <2>1, <3>1, <3>2 DEF Own
  <2>2. CASE q # p
    BY <1>1, <1>2, <1>6, <2>2, Beside DEF TypeOK, world
  <2> QED
    BY <2>1, <2>2
<1> QED
  BY <1>7, <1>8, <1>9 DEF CeilingsInv, Own

\* A process inside that leaves: everybody else is before the lock, or apart.
LEMMA ExitAlone ==
  ASSUME CeilingsInv, NEW p \in Procs, Exit(p), disturbed \/ holder = p, disturbed' = disturbed
  PROVE  /\ proc' \in [Procs -> {Idle} \union Passes \union SweepProcs]
         /\ \A q \in Procs : Own(q)'
<1>1. TypeOK /\ \A q \in Procs : Own(q)
  BY DEF CeilingsInv, Own
<1>2. proc' \in [Procs -> {Idle} \union Passes \union SweepProcs]
  BY <1>1 DEF TypeOK, Exit
<1>3. proc'[p] = Idle /\ \A q \in Procs \ {p} : proc'[q] = proc[q]
  BY <1>1 DEF Exit, TypeOK
<1>4. ASSUME NEW q \in Procs, q # p PROVE Own(q)'
  BY <1>1, <1>3, <1>4, Alone, Outside, Apart
<1> QED
  BY <1>2, <1>3, <1>4, IdleIsOwn

\* One that goes on: what is left to show is its own part.
LEMMA GoAlone ==
  ASSUME CeilingsInv, NEW p \in Procs, disturbed \/ holder \in {p, None, Dead},
         disturbed' = disturbed, NEW next,
         proc' = [proc EXCEPT ![p] = next], next \in Passes \union SweepProcs, Own(p)'
  PROVE  /\ proc' \in [Procs -> {Idle} \union Passes \union SweepProcs]
         /\ \A q \in Procs : Own(q)'
<1>1. TypeOK /\ \A q \in Procs : Own(q)
  BY DEF CeilingsInv, Own
<1>2. proc' \in [Procs -> {Idle} \union Passes \union SweepProcs]
  BY <1>1 DEF TypeOK
<1>3. ASSUME NEW q \in Procs, q # p PROVE Own(q)'
  <2>1. proc'[q] = proc[q]
    BY <1>1, <1>3 DEF TypeOK
  <2> QED
    BY <1>1, <1>3, <2>1, Alone, Outside, Apart
<1> QED
  BY <1>2, <1>3

LEMMA GotoTyped ==
  ASSUME TypeOK, NEW p \in Procs, NEW where, Goto(p, where),
         \/ proc[p] \in Passes /\ where \in {"locked", "up", "ingest", "loaded", "saving"}
         \/ proc[p] \in SweepProcs /\ where \in {"locked", "up"}
  PROVE  LET next == [proc[p] EXCEPT !.at = where]
         IN  /\ proc' = [proc EXCEPT ![p] = next] /\ proc'[p] = next
             /\ next.at = where /\ next.digest = proc[p].digest
             /\ proc[p] \in Passes =>
                  /\ next \in Passes /\ next \notin SweepProcs
                  /\ next.pass = proc[p].pass /\ next.old = proc[p].old
                 
             /\ proc[p] \in SweepProcs =>
                  /\ next \in SweepProcs /\ next \notin Passes
                  /\ next.gate = proc[p].gate /\ next.corpus = proc[p].corpus
<1> DEFINE next == [proc[p] EXCEPT !.at = where]
<1>1. proc' = [proc EXCEPT ![p] = next] /\ proc'[p] = next
  BY DEF Goto, TypeOK
<1>2. CASE proc[p] \in Passes /\ where \in {"locked", "up", "ingest", "loaded", "saving"}
  BY <1>1, <1>2 DEF Passes, SweepProcs
<1>3. CASE proc[p] \in SweepProcs /\ where \in {"locked", "up"}
  BY <1>1, <1>3 DEF Passes, SweepProcs
<1> QED
  BY <1>2, <1>3

LEMMA AcquireStep ==
  ASSUME CeilingsInv, NEW p \in Procs, Acquire(p) PROVE CeilingsInv'
<1>1. TypeOK /\ Last /\ \A q \in Procs : Own(q)
  BY DEF CeilingsInv, Own
<1>2. proc[p].at = "start" /\ UNCHANGED <<world, disturbed, file, good>> /\ record' = None
  BY DEF Acquire, NoRecord
<1>3. CASE holder \in {None, Dead} /\ holder' = p /\ Goto(p, "locked")
  <2> DEFINE next == [proc[p] EXCEPT !.at = "locked"]
  <2>1. proc[p] \in Passes \/ proc[p] \in SweepProcs
    BY <1>1, <1>2, Kinds
  <2>2. /\ proc' = [proc EXCEPT ![p] = next] /\ proc'[p] = next /\ next.at = "locked"
        /\ proc[p] \in Passes =>
             next \in Passes /\ next \notin SweepProcs /\ next.pass = proc[p].pass
        /\ proc[p] \in SweepProcs =>
             /\ next \in SweepProcs /\ next \notin Passes /\ next.gate = proc[p].gate
             /\ next.corpus = proc[p].corpus /\ next.digest = proc[p].digest
    BY <1>1, <1>3, <2>1, GotoTyped
  <2> HIDE DEF next
  <2>3. Own(p)'
    BY <1>1, <1>3, <2>1, <2>2 DEF Own, LockedBy, PassOf, GateOf
  <2>4. /\ proc' \in [Procs -> {Idle} \union Passes \union SweepProcs]
        /\ \A q \in Procs : Own(q)'
    BY <1>2, <1>3, <2>1, <2>2, <2>3, GoAlone
  <2> QED
    BY <1>1, <1>2, <2>4 DEF CeilingsInv, Own, TypeOK, Last, ProvenIsHeld, world
<1>4. CASE Exit(p)
  BY <1>2, <1>4, ExitStep DEF NoRecord
<1> QED
  BY <1>3, <1>4 DEF Acquire

\* bring_up leaves every container running, and with the caps of the digest it asks
\* for if those it reads back match.
LEMMA StartedTyped ==
  ASSUME TypeOK, NEW reuse, NEW digest \in Envelopes
  PROVE  /\ Started(reuse, digest) \in [Containers -> Envelopes]
         /\ Kept(reuse) \in {None} \union Corpora
         /\ CapsMatch(Started(reuse, digest), digest) =>
              \A c \in Containers : Caps[Started(reuse, digest)[c]][c] = Caps[digest][c]
BY DEF TypeOK, Started, Kept, CapsMatch

LEMMA BringUpStep ==
  ASSUME CeilingsInv, NEW p \in Procs, BringUp(p) PROVE CeilingsInv'
<1>1. TypeOK /\ Last /\ \A q \in Procs : Own(q)
  BY DEF CeilingsInv, Own
<1>2. /\ proc[p].at = "locked" /\ UNCHANGED <<profile, corpus, disturbed, file, good>> /\ record' = None
      /\ (proc[p] \in Passes \/ proc[p] \in SweepProcs) /\ (disturbed \/ holder = p)
  BY <1>1, Kinds DEF BringUp, NoRecord, Own, LockedBy
<1>3. proc[p].digest \in Envelopes
  BY <1>2 DEF Passes, SweepProcs
<1>4. PICK reuse \in BOOLEAN :
         /\ running' = Started(reuse, proc[p].digest) /\ topic' = Kept(reuse)
         /\ \/ CapsMatch(running', proc[p].digest) /\ Goto(p, "up") /\ UNCHANGED holder
            \/ Exit(p)
  BY DEF BringUp
<1>5. /\ running' \in [Containers -> Envelopes] /\ topic' \in {None} \union Corpora
      /\ CapsMatch(running', proc[p].digest) =>
           \A c \in Containers : Caps[running'[c]][c] = Caps[proc[p].digest][c]
  BY <1>1, <1>3, <1>4, StartedTyped
<1>6. ASSUME proc' \in [Procs -> {Idle} \union Passes \union SweepProcs],
             \A q \in Procs : Own(q)'
      PROVE  CeilingsInv'
  BY <1>1, <1>2, <1>5, <1>6 DEF CeilingsInv, Own, TypeOK, Last, ProvenIsHeld
<1>7. CASE CapsMatch(running', proc[p].digest) /\ Goto(p, "up") /\ UNCHANGED holder
  <2> DEFINE next == [proc[p] EXCEPT !.at = "up"]
  <2>1. /\ proc' = [proc EXCEPT ![p] = next] /\ proc'[p] = next /\ next.at = "up"
        /\ next.digest = proc[p].digest
        /\ proc[p] \in Passes =>
             next \in Passes /\ next \notin SweepProcs /\ next.pass = proc[p].pass
        /\ proc[p] \in SweepProcs =>
             /\ next \in SweepProcs /\ next \notin Passes /\ next.gate = proc[p].gate
             /\ next.corpus = proc[p].corpus
    BY <1>1, <1>2, <1>7, GotoTyped
  <2> HIDE DEF next
  <2>2. LockedBy(p)'
    BY <1>2, <1>5, <1>7, <2>1 DEF LockedBy
  <2>3. PassOf(p)' /\ GateOf(p)'
    BY <1>1, <1>2, <2>1 DEF Own, PassOf, GateOf
  <2>4. /\ proc' \in [Procs -> {Idle} \union Passes \union SweepProcs]
        /\ \A q \in Procs : Own(q)'
    BY <1>2, <2>1, <2>2, <2>3, GoAlone DEF Own
  <2> QED
    BY <1>6, <2>4
<1>8. CASE Exit(p)
  BY <1>2, <1>6, <1>8, ExitAlone
<1> QED
  BY <1>4, <1>7, <1>8

LEMMA RefuseStep ==
  ASSUME CeilingsInv, NEW p \in Procs, Refuse(p) PROVE CeilingsInv'
BY ExitStep DEF Refuse

LEMMA KillStep ==
  ASSUME CeilingsInv, NEW p \in Procs, Kill(p) PROVE CeilingsInv'
<1>1. TypeOK /\ Last /\ \A q \in Procs : Own(q)
  BY DEF CeilingsInv, Own
<1>2. /\ UNCHANGED <<world, disturbed, file, good>> /\ record' = None
      /\ holder' = IF holder = p THEN Dead ELSE holder
  BY DEF Kill, NoRecord
<1>3. /\ proc'[p] = Idle /\ \A q \in Procs \ {p} : proc'[q] = proc[q]
      /\ proc' \in [Procs -> {Idle} \union Passes \union SweepProcs]
  BY <1>1 DEF Kill, TypeOK
<1>4. ASSUME NEW q \in Procs, q # p PROVE Own(q)'
  <2>1. CASE holder = p
    BY <1>1, <1>2, <1>3, <1>4, <2>1, Alone, Outside, Apart
  <2>2. CASE holder # p
    BY <1>1, <1>2, <1>3, <1>4, <2>2, Beside DEF world
  <2> QED
    BY <2>1, <2>2
<1> QED
  BY <1>1, <1>2, <1>3, <1>4, IdleIsOwn DEF CeilingsInv, Own, TypeOK, Last, ProvenIsHeld, world

LEMMA GiveUpStep ==
  ASSUME CeilingsInv, GiveUp PROVE CeilingsInv'
<1>1. TypeOK /\ Last /\ \A q \in Procs : Own(q)
  BY DEF CeilingsInv, Own
<1>2. UNCHANGED <<world, file, proc, good>> /\ record' = None /\ disturbed' = TRUE
  BY DEF GiveUp, NoRecord
<1>3. \A q \in Procs : Own(q)'
  BY <1>1, <1>2, Apart
<1> QED
  BY <1>1, <1>2, <1>3 DEF CeilingsInv, Own, TypeOK, Last, ProvenIsHeld, world

-----------------------------------------------------------------------------
\* What is measured inside by a process past bring_up is sound.
LEMMA EntryIsSound ==
  ASSUME TypeOK, NEW p \in Procs, LockedBy(p), proc[p].at \in {"up", "ingest"},
         NEW r \in Figures, NEW g \in Corpora, NEW c \in Containers
  PROVE  /\ Entry(p, r, g, Told(c)) \in Sound(c)
         /\ r # 0 => Entry(p, r, g, Told(c)).rate > 0
<1>1. /\ proc[p].digest \in Envelopes /\ Told(c) \in {None} \union Envelopes
      /\ Told(c) # None => Caps[Told(c)][c] = Caps[proc[p].digest][c]
  BY Kinds DEF LockedBy, Passes, SweepProcs, Told, TypeOK
<1>2. r \in Nat /\ Size[g] \in Nat
  BY CeilingsAssumption
<1>3. Entry(p, r, g, Told(c)) \in Sound(c)
  BY <1>1, <1>2 DEF Entry, Sound, Entries
<1>4. \A n \in Nat : n # 0 => n > 0
  OBVIOUS
<1>5. r # 0 => Entry(p, r, g, Told(c)).rate > 0
  <2>1. Entry(p, r, g, Told(c)).rate = r
    BY DEF Entry
  <2> QED
    BY <1>2, <1>4, <2>1, Zenon
<1> QED
  BY <1>3, <1>5

LEMMA MeasureConsumeStep ==
  ASSUME CeilingsInv, NEW p \in Procs, MeasureConsume(p) PROVE CeilingsInv'
<1>1. TypeOK /\ Last /\ \A q \in Procs : Own(q)
  BY DEF CeilingsInv, Own
<1>2. /\ proc[p].at = "up" /\ proc[p].command = "pass" /\ proc[p] \in Passes
      /\ UNCHANGED <<world, holder, disturbed, file, good>> /\ record' = None /\ topic \in Corpora
      /\ (disturbed \/ holder = p)
  BY <1>1, Kinds DEF MeasureConsume, NoRecord, TypeOK, Own, LockedBy
<1>3. PICK r \in Figures \ {0} :
        proc' = [proc EXCEPT ![p].at = "ingest",
                             ![p].pass.consume = Entry(p, r, topic, Told("broker"))]
  BY DEF MeasureConsume
<1> DEFINE e == Entry(p, r, topic, Told("broker"))
           pass == [proc[p].pass EXCEPT !.consume = e]
           next == [proc[p] EXCEPT !.at = "ingest", !.pass = pass]
<1>4. e \in Positive
  BY <1>1, <1>2, EntryIsSound DEF Own, Containers, Positive
<1>5. proc' = [proc EXCEPT ![p] = next]
  BY <1>1, <1>3 DEF TypeOK
<1> HIDE DEF e
<1>6. proc[p].pass \in SoundFiles
  BY <1>2 DEF Passes
<1>7. pass \in SoundFiles /\ pass.consume = e /\ pass.ingest = proc[p].pass.ingest
  BY <1>4, <1>6 DEF SoundFiles
<1> HIDE DEF pass
<1>8. /\ next \in Passes /\ next \notin SweepProcs /\ next.at = "ingest" /\ next.pass = pass
      /\ next.digest = proc[p].digest
  BY <1>2, <1>7 DEF Passes, SweepProcs
<1>9. proc'[p] = next
  BY <1>1, <1>5 DEF TypeOK
<1> HIDE DEF next
<1>10. Own(p)'
  <2>1. LockedBy(p)'
    BY <1>1, <1>2, <1>8, <1>9 DEF Own, LockedBy, world
  <2>2. e # None
    BY <1>4, FilesAreNot DEF Positive, Containers
  <2>3. PassOf(p)'
    BY <1>1, <1>2, <1>7, <1>8, <1>9, <2>2 DEF Own, PassOf
  <2> QED
    BY <1>8, <1>9, <2>1, <2>3 DEF Own, GateOf
<1>11. /\ proc' \in [Procs -> {Idle} \union Passes \union SweepProcs]
       /\ \A q \in Procs : Own(q)'
  BY <1>2, <1>5, <1>8, <1>10, GoAlone
<1> QED
  BY <1>1, <1>2, <1>11 DEF CeilingsInv, Own, TypeOK, Last, ProvenIsHeld, world

LEMMA MeasureIngestStep ==
  ASSUME CeilingsInv, NEW p \in Procs, MeasureIngest(p) PROVE CeilingsInv'
<1>1. TypeOK /\ Last /\ \A q \in Procs : Own(q)
  BY DEF CeilingsInv, Own
<1>2. /\ proc[p].at = "ingest" /\ proc[p] \in Passes
      /\ UNCHANGED <<world, holder, disturbed, file, good>> /\ record' = None /\ (disturbed \/ holder = p)
  BY <1>1, Kinds DEF MeasureIngest, NoRecord, Own, LockedBy
<1>3. PICK x \in Formats, r \in Figures :
        proc' = [proc EXCEPT ![p].pass.ingest[x] =
                   Entry(p, r, proc[p].corpus, Told("clickhouse"))]
  BY DEF MeasureIngest
<1> DEFINE e == Entry(p, r, proc[p].corpus, Told("clickhouse"))
           pass == [proc[p].pass EXCEPT !.ingest = [proc[p].pass.ingest EXCEPT ![x] = e]]
           next == [proc[p] EXCEPT !.pass = pass]
<1>4. e \in Sound("clickhouse")
  BY <1>1, <1>2, EntryIsSound DEF Own, Containers, Passes
<1>5. proc' = [proc EXCEPT ![p] = next]
  BY <1>1, <1>3 DEF TypeOK
<1> HIDE DEF e
<1>6. proc[p].pass \in SoundFiles
  BY <1>2 DEF Passes
<1>7. /\ pass \in SoundFiles /\ pass.consume = proc[p].pass.consume
      /\ \A y \in Formats : pass.ingest[y] = IF y = x THEN e ELSE proc[p].pass.ingest[y]
  BY <1>4, <1>6 DEF SoundFiles, Sounds
<1> HIDE DEF pass
<1>8. /\ next \in Passes /\ next \notin SweepProcs /\ next.at = "ingest" /\ next.pass = pass
      /\ next.digest = proc[p].digest
  BY <1>2, <1>7 DEF Passes, SweepProcs
<1>9. proc'[p] = next
  BY <1>1, <1>5 DEF TypeOK
<1> HIDE DEF next
<1>10. Own(p)'
  <2>1. LockedBy(p)'
    BY <1>1, <1>2, <1>8, <1>9 DEF Own, LockedBy, world
  <2>2. PassOf(p)'
    BY <1>1, <1>2, <1>7, <1>8, <1>9 DEF Own, PassOf
  <2> QED
    BY <1>8, <1>9, <2>1, <2>2 DEF Own, GateOf
<1>11. /\ proc' \in [Procs -> {Idle} \union Passes \union SweepProcs]
       /\ \A q \in Procs : Own(q)'
  BY <1>2, <1>5, <1>8, <1>10, GoAlone
<1> QED
  BY <1>1, <1>2, <1>11 DEF CeilingsInv, Own, TypeOK, Last, ProvenIsHeld, world

-----------------------------------------------------------------------------
LEMMA LoadStep ==
  ASSUME CeilingsInv, NEW p \in Procs, Load(p) PROVE CeilingsInv'
<1>1. TypeOK /\ Last /\ \A q \in Procs : Own(q)
  BY DEF CeilingsInv, Own
<1>2. /\ proc[p].at = "ingest" /\ proc[p] \in Passes
      /\ UNCHANGED <<world, disturbed, file, good>> /\ record' = None /\ (disturbed \/ holder = p)
  BY <1>1, Kinds DEF Load, NoRecord, Own, LockedBy
<1> DEFINE next == [proc[p] EXCEPT !.at = "loaded", !.old = good]
<1>3. CASE /\ file # Torn /\ holder' = holder
           /\ proc' = [proc EXCEPT ![p].at = "loaded",
                                   ![p].old = IF file = None THEN Empty ELSE file]
  <2>1. (IF file = None THEN Empty ELSE file) = good
    BY <1>1, <1>3 DEF Last
  <2>2. proc' = [proc EXCEPT ![p] = next] /\ proc'[p] = next
    BY <1>1, <1>3, <2>1 DEF TypeOK
  <2>3. /\ next \in Passes /\ next \notin SweepProcs /\ next.at = "loaded" /\ next.old = good
        /\ next.digest = proc[p].digest /\ next.pass = proc[p].pass
    BY <1>1, <1>2 DEF Passes, SweepProcs, TypeOK
  <2> HIDE DEF next
  <2>4. LockedBy(p)'
    BY <1>1, <1>2, <1>3, <2>2, <2>3 DEF Own, LockedBy, world
  <2>5. good # None
    BY <1>1, FilesAreNot DEF TypeOK
  <2>6. PassOf(p)'
    BY <1>1, <1>2, <1>3, <2>2, <2>3, <2>5 DEF Own, PassOf
  <2>7. Own(p)'
    BY <2>2, <2>3, <2>4, <2>6 DEF Own, GateOf
  <2>8. /\ proc' \in [Procs -> {Idle} \union Passes \union SweepProcs]
        /\ \A q \in Procs : Own(q)'
    BY <1>2, <2>2, <2>3, <2>7, GoAlone
  <2> QED
    BY <1>1, <1>2, <2>8 DEF CeilingsInv, Own, TypeOK, Last, ProvenIsHeld, world
<1>4. CASE Exit(p)
  BY <1>2, <1>4, ExitStep DEF NoRecord
<1> QED
  BY <1>3, <1>4 DEF Load

LEMMA SaveBeginStep ==
  ASSUME CeilingsInv, NEW p \in Procs, SaveBegin(p) PROVE CeilingsInv'
<1>1. TypeOK /\ Last /\ \A q \in Procs : Own(q)
  BY DEF CeilingsInv, Own
<1>2. /\ proc[p].at = "loaded" /\ proc[p] \in Passes
      /\ UNCHANGED <<world, disturbed, good>> /\ record' = None /\ (disturbed \/ holder = p)
  BY <1>1, Kinds DEF SaveBegin, NoRecord, Own, LockedBy
<1> DEFINE next == [proc[p] EXCEPT !.at = "saving"]
<1>3. CASE /\ Stale(Merged(proc[p].old, proc[p].pass), proc[p].digest) = {}
           /\ file' = Torn /\ Goto(p, "saving") /\ UNCHANGED holder
  <2>1. /\ proc' = [proc EXCEPT ![p] = next] /\ proc'[p] = next
        /\ next \in Passes /\ next \notin SweepProcs /\ next.at = "saving"
        /\ next.old = proc[p].old
        /\ next.digest = proc[p].digest /\ next.pass = proc[p].pass
    BY <1>1, <1>2, <1>3, GotoTyped
  <2> HIDE DEF next
  <2>2. LockedBy(p)'
    BY <1>1, <1>2, <1>3, <2>1 DEF Own, LockedBy, world
  <2>3. PassOf(p)'
    BY <1>1, <1>2, <1>3, <2>1 DEF Own, PassOf
  <2>4. Own(p)'
    BY <2>1, <2>2, <2>3 DEF Own, GateOf
  <2>5. /\ proc' \in [Procs -> {Idle} \union Passes \union SweepProcs]
        /\ \A q \in Procs : Own(q)'
    BY <1>2, <2>1, <2>4, GoAlone
  <2> QED
    BY <1>1, <1>2, <1>3, <2>5, CeilingsAssumption
    DEF CeilingsInv, Own, TypeOK, Last, ProvenIsHeld, world
<1>4. CASE Exit(p) /\ UNCHANGED file
  BY <1>2, <1>4, ExitStep DEF NoRecord
<1> QED
  BY <1>3, <1>4 DEF SaveBegin

LEMMA SaveEndStep ==
  ASSUME CeilingsInv, NEW p \in Procs, SaveEnd(p) PROVE CeilingsInv'
<1>1. TypeOK /\ \A q \in Procs : Own(q)
  BY DEF CeilingsInv, Own
<1>2. /\ proc[p].at = "saving" /\ proc[p] \in Passes /\ Exit(p)
      /\ UNCHANGED <<world, disturbed>> /\ record' = None /\ (disturbed \/ holder = p)
      /\ file' = Merged(proc[p].old, proc[p].pass) /\ good' = file' /\ proc[p].old # None
  BY <1>1, Kinds DEF SaveEnd, NoRecord, Own, LockedBy, PassOf
<1>3. good' \in SoundFiles
  BY <1>1, <1>2, MergeIsSound DEF TypeOK, Passes
<1>4. /\ proc' \in [Procs -> {Idle} \union Passes \union SweepProcs]
      /\ \A q \in Procs : Own(q)'
  BY <1>2, ExitAlone
<1> QED
  BY <1>1, <1>2, <1>3, <1>4, FilesAreNot DEF CeilingsInv, Own, TypeOK, Last, ProvenIsHeld, world

\* The record: what the arm was held to is of the envelope the containers have.
LEMMA MeasureArmStep ==
  ASSUME CeilingsInv, NEW p \in Procs, MeasureArm(p) PROVE CeilingsInv'
<1>1. TypeOK /\ Last /\ \A q \in Procs : Own(q)
  BY DEF CeilingsInv, Own
<1>2. /\ proc[p].at = "up" /\ proc[p].command = "sweep" /\ proc[p] \in SweepProcs
      /\ Exit(p) /\ UNCHANGED <<world, disturbed, file, good>> /\ (disturbed \/ holder = p)
      /\ topic = proc[p].corpus
      /\ \A c \in Containers :
           Told(c) # None => Caps[Told(c)][c] = Caps[proc[p].digest][c]
  BY <1>1, Kinds DEF MeasureArm, Own, LockedBy, Told
<1> DEFINE g == proc[p].gate
<1>3. g \in Gates /\ GateFits(g, proc[p].digest, Size[topic])
  BY <1>1, <1>2 DEF Own, GateOf, SweepProcs
<1> HIDE DEF g
<1>4. PICK x \in Formats, t \in BOOLEAN, m \in Achieved, r \in Achieved :
        record' = Headroom(g, [format |-> x, transform |-> t, msgs |-> m, rows |-> r],
                           Size[topic], topic, [c \in Containers |-> Told(c)])
  BY DEF MeasureArm, g
<1> DEFINE arm == [format |-> x, transform |-> t, msgs |-> m, rows |-> r]
<1>5. /\ record'.arm = arm /\ record'.corpus = topic /\ record'.under = [c \in Containers |-> Told(c)]
      /\ record'.consume = IF ConsumeHeld(g) THEN g.consume ELSE None
      /\ record'.ingest = IF IngestHeld(g, arm) THEN g.ingest[arm.format] ELSE None
      /\ record'.proven = (~g.refused /\ IngestHeld(g, arm))
  BY <1>4 DEF Headroom
<1>6. ASSUME ~g.refused, IngestHeld(g, arm)
      PROVE  /\ ConsumeHeld(g) /\ ~arm.transform /\ g.ingest[arm.format] # None
             /\ g.consume.client = "inside" /\ g.consume.rate > 0
             /\ g.ingest[arm.format].client = "inside" /\ g.ingest[arm.format].rate > 0
             /\ g.consume.digest = proc[p].digest /\ g.consume \in Sound("broker")
             /\ g.ingest[arm.format].digest = proc[p].digest
             /\ g.ingest[arm.format] \in Sound("clickhouse")
             /\ ~Differs(g.consume.size, Size[topic])
  <2>1. g.consume # None /\ g.consume \in Positive
    BY <1>3, <1>6 DEF GateFits, Gates
  <2>2. g.ingest[x] # None /\ g.ingest[x].rate > 0 /\ ~t
    BY <1>6 DEF IngestHeld
  <2>3. g.ingest[x] \in Sound("clickhouse")
    BY <1>3, <2>2 DEF Gates, Sounds
  <2>4. Usable(g.consume, proc[p].digest) /\ ~Differs(g.consume.size, Size[topic])
    BY <1>3, <2>1 DEF GateFits
  <2>5. Usable(g.ingest[x], proc[p].digest)
    BY <1>3, <2>2 DEF GateFits
  <2> QED
    BY <2>1, <2>2, <2>3, <2>4, <2>5 DEF ConsumeHeld, Usable, Positive
<1>7. ProvenIsHeld'
  <2>1. ASSUME NEW e, NEW c \in Containers, e \in Sound(c), e.client = "inside",
               e.digest = proc[p].digest
        PROVE  \/ None \in {e.under, record'.under[c]}
               \/ Caps[e.under][c] = Caps[record'.under[c]][c]
    BY <1>2, <1>5, <2>1 DEF Sound
  <2>2. CASE record'.proven
    <3>1. ~g.refused /\ IngestHeld(g, arm)
      BY <1>5, <2>2
    <3>2. record'.consume = g.consume /\ record'.ingest = g.ingest[arm.format]
      BY <1>5, <1>6, <3>1
    <3>3. record'.consume # None
      BY <1>6, <3>1, <3>2 DEF ConsumeHeld
    <3> HIDE DEF arm
    <3>4. SameCaps(record.consume, "broker")' /\ SameCaps(record.ingest, "clickhouse")'
      BY <1>6, <2>1, <3>1, <3>2 DEF Containers, SameCaps
    <3> QED
      BY <1>5, <1>6, <3>1, <3>2, <3>3, <3>4 DEF ProvenIsHeld
  <2> QED
    BY <2>2 DEF ProvenIsHeld
<1>8. /\ proc' \in [Procs -> {Idle} \union Passes \union SweepProcs]
      /\ \A q \in Procs : Own(q)'
  BY <1>2, ExitAlone
<1> QED
  BY <1>1, <1>2, <1>7, <1>8 DEF CeilingsInv, Own, TypeOK, Last, world

-----------------------------------------------------------------------------
\* Around the processes: an edit touches nothing they rest on, a container that goes
\* or is recreated under a process inside disturbs it, a file is restored only while
\* nobody is saving, and what is reused beside a holder is what it already runs on.
LEMMA AroundStep ==
  ASSUME CeilingsInv, EditProfile \/ BumpCorpus \/ RemoveContainer \/ Restore \/ Prefill
  PROVE  CeilingsInv'
<1>1. TypeOK /\ Last /\ \A q \in Procs : Own(q)
  BY DEF CeilingsInv, Own
<1>2. proc' = proc /\ holder' = holder /\ good' = good /\ record' = None
  BY DEF EditProfile, BumpCorpus, RemoveContainer, Restore, Prefill, NoRecord
<1>3. ProvenIsHeld'
  BY <1>2 DEF ProvenIsHeld
<1>4. ASSUME TypeOK', Last', \A q \in Procs : Own(q)' PROVE CeilingsInv'
  BY <1>3, <1>4 DEF CeilingsInv, Own
<1>5. CASE EditProfile \/ BumpCorpus
  <2>1. UNCHANGED <<holder, disturbed, running, topic, file, good, proc>>
        /\ profile' \in Envelopes /\ corpus' \in Corpora
    BY <1>1, <1>5 DEF EditProfile, BumpCorpus, TypeOK
  <2>2. \A q \in Procs : Own(q)'
    BY <1>1, <2>1, Beside
  <2> QED
    BY <1>1, <1>4, <2>1, <2>2 DEF TypeOK, Last
<1>6. ASSUME disturbed' = (disturbed \/ Inside # {}) PROVE \A q \in Procs : Own(q)'
  <2>1. CASE disturbed'
    BY <1>1, <1>2, <2>1, Apart
  <2>2. CASE ~disturbed'
    <3>1. \A q \in Procs : proc[q].at \in {"idle", "start"}
      BY <1>6, <2>2 DEF Inside
    <3> QED
      BY <1>1, <1>2, <3>1, Outside
  <2> QED
    BY <2>1, <2>2
<1>7. CASE RemoveContainer
  <2>1. /\ UNCHANGED <<profile, corpus, file>> /\ topic' \in {None} \union Corpora
        /\ running' \in [Containers -> {None} \union Envelopes] /\ disturbed' \in BOOLEAN
    BY <1>1, <1>7 DEF RemoveContainer, TypeOK
  <2>2. \A q \in Procs : Own(q)'
    BY <1>6, <1>7 DEF RemoveContainer
  <2> QED
    BY <1>1, <1>2, <1>4, <2>1, <2>2 DEF TypeOK, Last
<1>8. CASE Restore
  <2>1. file = Torn /\ file' = good /\ UNCHANGED <<world, disturbed>>
        /\ \A p \in Procs : proc[p].at # "saving"
    BY <1>8 DEF Restore
  <2>2. TypeOK' /\ Last'
    BY <1>1, <1>2, <2>1, FilesAreNot DEF TypeOK, Last, world
  <2>3. ASSUME NEW q \in Procs PROVE Own(q)'
    <3>1. CASE disturbed
      BY <1>1, <1>2, <2>1, <3>1, Apart
    <3>2. CASE ~disturbed
      <4>1. proc[q].at \notin {"loaded", "saving"}
        BY <1>1, <2>1, <3>2 DEF Own, PassOf
      <4> QED
        BY <1>1, <1>2, <2>1, <4>1 DEF Own, LockedBy, PassOf, GateOf, world
    <3> QED
      BY <3>1, <3>2
  <2> QED
    BY <1>4, <2>2, <2>3
<1>9. CASE Prefill
  <2>1. PICK reuse \in BOOLEAN :
          /\ disturbed' = (disturbed \/ (~reuse /\ Inside # {}))
          /\ running' = Started(reuse, profile)
          /\ topic' = IF CapsMatch(running', profile) /\ Kept(reuse) = None THEN corpus
                      ELSE Kept(reuse)
    BY <1>9 DEF Prefill
  <2>2. UNCHANGED <<profile, corpus, file>>
    BY <1>9 DEF Prefill
  <2>3. /\ Started(reuse, profile) \in [Containers -> Envelopes]
        /\ Kept(reuse) \in {None} \union Corpora
    BY <1>1, StartedTyped DEF TypeOK
  <2>4. TypeOK' /\ Last'
    BY <1>1, <1>2, <2>1, <2>2, <2>3 DEF TypeOK, Last
  <2>5. ASSUME NEW q \in Procs, reuse PROVE Own(q)'
    <3>1. disturbed' = disturbed
      BY <1>1, <2>1, <2>5 DEF TypeOK
    <3>2. \A c \in Containers : running[c] # None => running'[c] = running[c]
      BY <2>1, <2>5 DEF Started
    <3>3. LockedBy(q)'
      BY <1>1, <1>2, <3>1, <3>2, CeilingsAssumption DEF Own, LockedBy
    <3> QED
      BY <1>1, <1>2, <2>2, <3>1, <3>3 DEF Own, PassOf, GateOf
  <2> QED
    BY <1>4, <1>6, <2>1, <2>4, <2>5
<1> QED
  BY <1>5, <1>7, <1>8, <1>9

LEMMA Inductive == CeilingsInv /\ [Next]_vars => CeilingsInv'
<1> SUFFICES ASSUME CeilingsInv, [Next]_vars PROVE CeilingsInv'
  OBVIOUS
<1>1. ASSUME NEW p \in Procs, Harness(p) PROVE CeilingsInv'
  BY <1>1, LaunchPassStep, LaunchSweepStep, AcquireStep, BringUpStep, RefuseStep, KillStep,
     MeasureConsumeStep, MeasureIngestStep, LoadStep, SaveBeginStep, SaveEndStep, MeasureArmStep
  DEF Harness
<1>2. CASE UNCHANGED vars
  <2>1. TypeOK' /\ Last' /\ ProvenIsHeld'
    BY <1>2 DEF CeilingsInv, TypeOK, Last, ProvenIsHeld, SameCaps, vars, world
  <2>2. \A q \in Procs : Own(q)'
    BY <1>2, Beside DEF CeilingsInv, Own, vars, world
  <2> QED
    BY <2>1, <2>2 DEF CeilingsInv, Own
<1> QED
  BY <1>1, <1>2, AroundStep, GiveUpStep DEF Next

LEMMA Invariant == Spec => []CeilingsInv
BY InitInv, Inductive, PTL DEF Spec

-----------------------------------------------------------------------------
\* Whatever is edited, removed, recreated, killed or torn between a pass and the sweep
\* it gates: a record that is not flagged unproven was held to figures measured from
\* inside, on containers with the caps its own containers had (Ceilings::gate and
\* headroom, assert_cap), unless something was done beside a live holder.
THEOREM ProvenHeld == Spec => []ProvenIsHeld
<1>1. CeilingsInv => ProvenIsHeld
  BY DEF CeilingsInv
<1> QED
  BY <1>1, Invariant, PTL

\* A written file describes one envelope, however many passes of how many shapes there
\* were (measured_under_other_envelopes).
THEOREM OneEnvelope == Spec => WrittenOfOneEnvelope
<1>1. ASSUME CeilingsInv, NEW p \in Procs, SaveEnd(p)
      PROVE  Cardinality({e.digest : e \in {file'.consume} \union
                            ({file'.ingest[x] : x \in Formats} \ {None})}) = 1
  <2> DEFINE es == {file'.consume} \union ({file'.ingest[x] : x \in Formats} \ {None})
  <2>1. proc[p].at = "saving" /\ file' = Merged(proc[p].old, proc[p].pass)
    BY <1>1 DEF SaveEnd
  <2>2. /\ proc[p].pass.consume # None
        /\ Stale(Merged(proc[p].old, proc[p].pass), proc[p].digest) = {}
    BY <1>1, <2>1 DEF CeilingsInv, PassOf
  <2>3. file'.consume # None
    BY <2>1, <2>2 DEF Merged
  <2>4. \A e \in es : e.digest = proc[p].digest
    BY <2>1, <2>2, <2>3 DEF Stale
  <2>5. {e.digest : e \in es} = {proc[p].digest}
    <3> HIDE DEF es
    <3>1. file'.consume \in es
      BY DEF es
    <3> QED
      BY <2>4, <3>1
  <2> QED
    BY <2>5, FS_Singleton
<1>2. CeilingsInv /\ [Next]_vars =>
        [\A p \in Procs : SaveEnd(p) =>
           Cardinality({e.digest : e \in {file'.consume} \union
                          ({file'.ingest[x] : x \in Formats} \ {None})}) = 1]_vars
  BY <1>1
<1> QED
  BY <1>2, Invariant, PTL DEF Spec, WrittenOfOneEnvelope

\* A write keeps every figure of the last readable file but those its pass measured: no
\* kill in the middle of an earlier write and no other pass loses one, while nothing is
\* done beside a live holder (Ceilings::merge).
THEOREM FiguresKept == Spec => NothingLost
<1>1. ASSUME CeilingsInv, NEW p \in Procs, SaveEnd(p), ~disturbed,
             NEW x \in Formats, proc[p].pass.ingest[x] = None
      PROVE  file'.ingest[x] = good.ingest[x]
  <2>1. /\ proc[p].at = "saving" /\ file' = Merged(proc[p].old, proc[p].pass)
        /\ proc[p].old = good /\ proc[p] \in Passes
    BY <1>1, Kinds DEF SaveEnd, CeilingsInv, PassOf
  <2> QED
    BY <1>1, <2>1 DEF Merged
<1>2. CeilingsInv /\ [Next]_vars =>
        [\A p \in Procs : SaveEnd(p) /\ ~disturbed =>
           \A x \in Formats : proc[p].pass.ingest[x] = None => file'.ingest[x] = good.ingest[x]]_vars
  BY <1>1
<1> QED
  BY <1>2, Invariant, PTL DEF Spec, NothingLost

=============================================================================
