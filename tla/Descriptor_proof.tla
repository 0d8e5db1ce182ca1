--------------------------- MODULE Descriptor_proof ---------------------------
(***************************************************************************)
(* Proofs about descriptors, for every set of names, quantities, layouts,  *)
(* environments, knobs, rules and overrides and any number of edits: what  *)
(* validation accepts runs as it says.                                     *)
(***************************************************************************)
EXTENDS Descriptor, TLAPS

Started == {"start", "recorded"}
Planned == {"identify", "objects", "specs"} \union Started

\* The parts of the inductive invariant. What is past validation has passed it.
Accepted == stage \notin {"draft", "rejected"} => Validates(desc)

\* What is past the plan is a runnable variant under knobs that break no rule.
Chosen ==
  /\ stage \in Planned => is_runnable(desc) /\ arm \in DOMAIN desc.variants
  /\ stage \in Planned => ~unrunnable_knobs(Variant, over)

\* Nothing runs before the first container is started.
Idle == stage \in {"draft", "rejected", "loaded"} \union (Planned \ Started) => running = NoKnobs

\* The containers were given the effective knobs.
Given ==
  stage \in Started =>
    \A e \in env : e.knob \in DOMAIN Effective /\ e.text = knob_text(Effective[e.knob])

\* What runs is a declared container with caps docker took.
Runs ==
  stage \in Started =>
    \A n \in DOMAIN running : \E i \in DOMAIN desc.containers :
      /\ n = desc.containers[i].name /\ running[n] = desc.containers[i]
      /\ DockerTakes(running[n])

\* What no longer waits runs, under its name at least.
Progressed ==
  /\ stage \in Started =>
       /\ waiting \subseteq DOMAIN desc.containers
       /\ \A i \in DOMAIN desc.containers :
            i \notin waiting => desc.containers[i].name \in DOMAIN running
  /\ stage = "recorded" => waiting = {}

\* A record is written once the caps were found to hold.
Held == stage = "recorded" => CapsHold

Recorded ==
  stage = "recorded" =>
    record = [k \in {j \in DOMAIN Effective : Effective[j] # Table} |-> Effective[k]]

DescriptorInv ==
  Accepted /\ Chosen /\ Idle /\ Given /\ Runs /\ Progressed /\ Recorded /\ Held /\ ValidatedRuns

-----------------------------------------------------------------------------
\* Without an override a variant runs with the knobs that were validated.
LEMMA NoOverride ==
  ASSUME NEW v, NEW c
  PROVE  Violated(c, knobs_for(v, NoKnobs)) <=> Violated(c, v.knobs)
<1> DEFINE with == knobs_for(v, NoKnobs)
<1>1. DOMAIN with = DOMAIN v.knobs /\ \A k \in DOMAIN with : with[k] = v.knobs[k]
  BY DEF knobs_for, NoKnobs
<1> HIDE DEF with
<1>2. \A k : Integer(with, k) <=> Integer(v.knobs, k)
  BY <1>1 DEF Integer
<1>3. \A k : Integer(with, k) => with[k] = v.knobs[k]
  BY <1>1 DEF Integer
<1>4. Violated(c, with) <=> Violated(c, v.knobs)
  BY <1>2, <1>3 DEF Violated
<1> QED
  BY <1>4 DEF with

LEMMA ValidatedPlan ==
  ASSUME Validates(desc), is_runnable(desc), NEW a \in DOMAIN desc.variants
  PROVE  ~unrunnable_knobs(desc.variants[a], NoKnobs)
<1>1. \A c \in desc.constraints : ~Violated(c, desc.variants[a].knobs)
  BY DEF Validates, validate_constraints
<1>2. DOMAIN NoKnobs = {}
  BY DEF NoKnobs
<1> QED
  BY <1>1, <1>2, NoOverride DEF unrunnable_knobs

\* An override adds no knob, so what resolved for the variant's own resolves.
LEMMA TokensResolve ==
  ASSUME Validates(desc), is_runnable(desc), arm \in DOMAIN desc.variants, NEW t \in Tokens
  PROVE  Resolves(desc, t, Effective)
<1>1. Resolves(desc, t, Variant.knobs)
  BY DEF Validates, validate_env, Tokens, Variant
<1>2. DOMAIN Variant.knobs \subseteq DOMAIN Effective
  BY DEF Effective, knobs_for
<1> QED
  BY <1>1, <1>2 DEF Resolves

LEMMA ParsedContainer ==
  ASSUME Parses(desc), NEW i \in DOMAIN desc.containers
  PROVE  i \in Nat /\ desc.containers[i].name \in Names
<1> DEFINE list == desc.containers
<1>1. list \in Seq(Containers)
  BY DEF Parses
<1> HIDE DEF list
<1>2. \A j \in DOMAIN list : j \in Nat /\ list[j] \in Containers
  BY <1>1
<1>3. \A j \in DOMAIN list : list[j].name \in Names
  BY <1>2 DEF Containers
<1> QED
  BY <1>2, <1>3 DEF list

\* Where no name ends in another's, the lookup by suffix finds the container.
LEMMA DeclaredIsOwn ==
  ASSUME Parses(desc), SuffixFree, NEW i \in DOMAIN desc.containers
  PROVE  DeclaredAs(desc.containers[i].name) = desc.containers[i]
<1> DEFINE Matches(j) == <<desc.containers[j].name, desc.containers[i].name>> \in Ends
           First(j) == Matches(j) /\ \A l \in DOMAIN desc.containers : Matches(l) => j <= l
<1>1. DOMAIN desc.containers \subseteq Nat /\ desc.containers[i].name \in Names
  BY ParsedContainer
<1>2. Matches(i)
  BY <1>1, DescriptorAssumption
<1>3. \A j \in DOMAIN desc.containers : Matches(j) => j = i
  BY DEF SuffixFree
<1>4. \A j \in DOMAIN desc.containers : First(j) <=> j = i
  BY <1>1, <1>2, <1>3
<1>5. (CHOOSE j \in DOMAIN desc.containers : First(j)) = i
  BY <1>4
<1> QED
  BY <1>5 DEF DeclaredAs

LEMMA NamesDistinct ==
  ASSUME Parses(desc), SuffixFree, NEW i \in DOMAIN desc.containers,
         NEW j \in DOMAIN desc.containers, desc.containers[i].name = desc.containers[j].name
  PROVE  i = j
<1>1. desc.containers[i].name \in Names
  BY ParsedContainer
<1>2. <<desc.containers[i].name, desc.containers[j].name>> \in Ends
  BY <1>1, DescriptorAssumption
<1> QED
  BY <1>2 DEF SuffixFree

LEMMA AuthorStep ==
  ASSUME Author
  PROVE  stage' = "draft" /\ stage \in {"draft", "rejected"} /\ UNCHANGED <<launch, run>>
<1>1. \E d : Writes(d)
  BY DEF Author, WriteIdentity, WriteEnvelope, WriteEnv, WriteVariant, WriteRules
<1> QED
  BY <1>1 DEF Writes

\* A step that leaves the run's variables and its arm alone, or ends it.
LEMMA PlanStep ==
  ASSUME DescriptorInv, UNCHANGED <<desc, launch, run>>,
         stage' \notin Started, stage' = "unplanned" => over # NoKnobs,
         stage' = "panicked" => ~CapsAreTaken,
         stage' = "refused" => ~CapsAreExact \/ ~SuffixFree \/ ~PathsAreTrimmed \/ ~NoBraces,
         stage \in Planned, stage' \in Planned \union {"refused", "panicked"},
         stage' \in Planned => stage \notin Started
  PROVE  DescriptorInv'
<1>1. Accepted' /\ Chosen'
  BY DEF DescriptorInv, Accepted, Chosen, Planned, Started, is_runnable, Variant, unrunnable_knobs,
         launch
<1>2. Idle'
  BY DEF DescriptorInv, Idle, Planned, Started, run
<1>3. Given' /\ Runs' /\ Progressed' /\ Recorded' /\ Held'
  BY DEF Given, Runs, Progressed, Recorded, Held, Started
<1>4. ValidatedRuns'
  BY DEF ValidatedRuns, CapsAreTaken, CapsAreExact, SuffixFree, PathsAreTrimmed, NoBraces, Effective, Variant, launch
<1> QED
  BY <1>1, <1>2, <1>3, <1>4 DEF DescriptorInv

LEMMA LaunchStep == DescriptorInv /\ Launch => DescriptorInv'
<1> SUFFICES ASSUME DescriptorInv, Launch PROVE DescriptorInv'
  OBVIOUS
<1>1. Validates(desc) /\ is_runnable(desc) /\ arm' \in DOMAIN desc.variants /\ UNCHANGED <<desc, run>>
  BY DEF DescriptorInv, Accepted, Launch
<1>2. Accepted'
  BY <1>1 DEF Accepted
<1>3. Chosen'
  <2>1. stage' = "identify" => ~unrunnable_knobs(desc.variants[arm'], over')
    BY DEF Launch
  <2>2. stage' \in Planned => stage' = "identify"
    BY DEF Launch, Planned, Started
  <2>3. unrunnable_knobs(Variant, over)' <=> unrunnable_knobs(desc.variants[arm'], over')
    BY <1>1 DEF unrunnable_knobs, Variant
  <2> QED
    BY <1>1, <2>1, <2>2, <2>3 DEF Chosen, is_runnable
<1>4. Idle'
  BY <1>1 DEF Launch, DescriptorInv, Idle, run
<1>5. Given' /\ Runs' /\ Progressed' /\ Recorded' /\ Held'
  BY DEF Launch, Given, Runs, Progressed, Recorded, Held, Started
<1>6. ValidatedRuns'
  <2>1. CASE over' = NoKnobs
    BY <1>1, <2>1, ValidatedPlan DEF Launch, ValidatedRuns
  <2>2. CASE over' # NoKnobs
    BY <2>2 DEF Launch, ValidatedRuns
  <2> QED
    BY <2>1, <2>2
<1> QED
  BY <1>2, <1>3, <1>4, <1>5, <1>6 DEF DescriptorInv

LEMMA IdentifyStep == DescriptorInv /\ Identify => DescriptorInv'
<1> SUFFICES ASSUME DescriptorInv, Identify PROVE DescriptorInv'
  OBVIOUS
<1>1. Validates(desc) /\ is_runnable(desc)
  BY DEF Identify, DescriptorInv, Accepted, Chosen, Planned
<1>2. desc.version = "command"
  BY <1>1 DEF Validates, validate_version
<1>3. stage' = "objects" /\ UNCHANGED <<desc, launch, run>>
  BY <1>2 DEF Identify
<1> QED
  BY <1>3, PlanStep DEF Identify, Planned, Started

LEMMA ReadArmSqlStep == DescriptorInv /\ ReadArmSql => DescriptorInv'
<1> SUFFICES ASSUME DescriptorInv, ReadArmSql PROVE DescriptorInv'
  OBVIOUS
<1>1. Validates(desc) /\ is_runnable(desc)
  BY DEF ReadArmSql, DescriptorInv, Accepted, Chosen, Planned
<1>2. {desc.arm_sql, desc.arm_teardown_sql} \subseteq {"none", "file", "padded"}
  BY <1>1 DEF Validates, validate_clickhouse
<1>3. stage' = "specs" \/ (stage' = "refused" /\ ~PathsAreTrimmed)
  BY <1>2 DEF ReadArmSql, Refuse, Readable, PathsAreTrimmed
<1>4. UNCHANGED <<desc, launch, run>>
  BY DEF ReadArmSql, Refuse
<1> QED
  BY <1>3, <1>4, PlanStep DEF ReadArmSql, Planned, Started

LEMMA BuildSpecsStep == DescriptorInv /\ BuildSpecs => DescriptorInv'
<1> SUFFICES ASSUME DescriptorInv, BuildSpecs PROVE DescriptorInv'
  OBVIOUS
<1>1. Validates(desc) /\ is_runnable(desc) /\ arm \in DOMAIN desc.variants
  BY DEF BuildSpecs, DescriptorInv, Accepted, Chosen, Planned
<1>2. \A t \in Tokens : Resolves(desc, t, Effective)
  BY <1>1, TokensResolve
<1>3. CASE \E t \in Tokens : Unresolved(t)
  <2>1. PICK t \in Tokens : t.kind = "knob" /\ Effective[t.of] = Braced
    BY <1>2, <1>3 DEF Unresolved
  <2>2. ~NoBraces
    BY <1>2, <2>1 DEF Resolves, NoBraces
  <2>3. stage' = "refused" /\ UNCHANGED <<desc, launch, run>>
    BY <1>3 DEF BuildSpecs, Refuse
  <2> QED
    BY <2>2, <2>3, PlanStep DEF BuildSpecs, Planned, Started
<1>4. CASE ~\E t \in Tokens : Unresolved(t)
  <2>1. /\ env' = {[knob |-> t.of, text |-> Applied(t.of)] : t \in {u \in Tokens : u.kind = "knob"}}
        /\ waiting' = DOMAIN desc.containers /\ stage' = "start" /\ running' = running
        /\ UNCHANGED <<desc, launch>>
    BY <1>4 DEF BuildSpecs
  <2>2. Effective' = Effective /\ running = NoKnobs
    BY <2>1 DEF Effective, Variant, launch, knobs_for, BuildSpecs, DescriptorInv, Idle, Planned, Started
  <2>3. Accepted' /\ Chosen'
    BY <2>1 DEF DescriptorInv, BuildSpecs, Accepted, Chosen, Planned, Started, is_runnable, Variant,
                unrunnable_knobs, launch
  <2>4. Given'
    <3>1. \A t \in Tokens : t.kind = "knob" => t.of \in DOMAIN Effective
      BY <1>2 DEF Resolves
    <3> QED
      BY <2>1, <2>2, <3>1 DEF Given, Applied
  <2>5. Idle' /\ Runs' /\ Progressed' /\ Recorded' /\ Held' /\ ValidatedRuns'
    BY <2>1, <2>2 DEF Idle, Runs, Progressed, Recorded, Held, ValidatedRuns, NoKnobs, Planned, Started
  <2> QED
    BY <2>3, <2>4, <2>5 DEF DescriptorInv
<1> QED
  BY <1>3, <1>4

LEMMA StartContainerStep == DescriptorInv /\ StartContainer => DescriptorInv'
<1> SUFFICES ASSUME DescriptorInv, StartContainer PROVE DescriptorInv'
  OBVIOUS
<1>1. stage = "start" /\ UNCHANGED <<desc, launch, env, record>>
  BY DEF StartContainer
<1>2. PICK i \in waiting :
        IF ~DockerTakes(desc.containers[i])
          THEN stage' = "panicked" /\ UNCHANGED <<waiting, running>>
          ELSE /\ running' = [n \in DOMAIN running \union {desc.containers[i].name} |->
                                IF n = desc.containers[i].name THEN desc.containers[i]
                                                               ELSE running[n]]
               /\ waiting' = waiting \ {i} /\ UNCHANGED stage
  BY DEF StartContainer
<1>3. waiting \subseteq DOMAIN desc.containers
  BY <1>1 DEF DescriptorInv, Progressed, Started
<1> DEFINE box == desc.containers[i]
<1>4. CASE ~DockerTakes(box)
  <2>1. stage' = "panicked" /\ UNCHANGED <<desc, launch, run>>
    BY <1>1, <1>2, <1>4 DEF run
  <2>2. ~CapsAreTaken
    BY <1>3, <1>4 DEF CapsAreTaken
  <2> QED
    BY <1>1, <2>1, <2>2, PlanStep DEF Planned, Started
<1>5. CASE DockerTakes(box)
  <2>1. /\ DOMAIN running' = DOMAIN running \union {box.name}
        /\ running'[box.name] = box
        /\ \A n \in DOMAIN running \ {box.name} : running'[n] = running[n]
        /\ waiting' = waiting \ {i} /\ stage' = "start"
    BY <1>1, <1>2, <1>5
  <2>2. Effective' = Effective
    BY <1>1 DEF Effective, Variant, launch, knobs_for
  <2>3. Accepted' /\ Chosen'
    BY <1>1, <2>1 DEF DescriptorInv, Accepted, Chosen, Planned, Started, is_runnable, Variant,
                      unrunnable_knobs, launch
  <2>4. Given'
    BY <1>1, <2>1, <2>2 DEF DescriptorInv, Given, Started
  <2>5. Runs'
    BY <1>1, <1>3, <1>5, <2>1 DEF DescriptorInv, Runs, Started
  <2>6. Progressed'
    BY <1>1, <1>3, <2>1 DEF DescriptorInv, Progressed, Started
  <2>7. Idle' /\ Recorded' /\ Held' /\ ValidatedRuns'
    BY <2>1 DEF Idle, Recorded, Held, ValidatedRuns, Planned, Started
  <2> QED
    BY <2>3, <2>4, <2>5, <2>6, <2>7 DEF DescriptorInv
<1> QED
  BY <1>4, <1>5

\* The cap assertion looks for every container by its suffix, and finds the caps
\* it declares where they are applied as they are written.
LEMMA CapsHoldUnlessAmbiguous ==
  ASSUME DescriptorInv, stage = "start", SuffixFree, CapsAreExact
  PROVE  CapsHold
<1>1. Parses(desc)
  BY DEF DescriptorInv, Accepted, Validates
<1> SUFFICES ASSUME NEW n \in DOMAIN running
             PROVE  Limits(running[n]) = [cpus |-> DeclaredAs(n).cpus, memory |-> DeclaredAs(n).memory]
  BY DEF CapsHold
<1>2. PICK i \in DOMAIN desc.containers : n = desc.containers[i].name /\ running[n] = desc.containers[i]
  BY DEF DescriptorInv, Runs, Started
<1>3. DeclaredAs(n) = running[n]
  BY <1>1, <1>2, DeclaredIsOwn
<1>4. /\ {0, DockerOnly} \intersect {running[n].cpus, running[n].memory} = {}
      /\ running[n].memory = Page * (running[n].memory \div Page)
  BY <1>2 DEF CapsAreExact
<1> QED
  BY <1>3, <1>4 DEF Limits

LEMMA MeasureStep == DescriptorInv /\ Measure => DescriptorInv'
<1> SUFFICES ASSUME DescriptorInv, Measure PROVE DescriptorInv'
  OBVIOUS
<1>1. stage = "start" /\ waiting = {}
  BY DEF Measure
<1>2. CASE ~CapsHold
  <2>1. stage' = "refused" /\ UNCHANGED <<desc, launch, run>>
    BY <1>2 DEF Measure, Refuse
  <2>2. ~CapsAreExact \/ ~SuffixFree
    BY <1>1, <1>2, CapsHoldUnlessAmbiguous
  <2> QED
    BY <1>1, <2>1, <2>2, PlanStep DEF Planned, Started
<1>3. CASE CapsHold
  <2>1. /\ stage' = "recorded" /\ UNCHANGED <<desc, launch, waiting, env, running>>
        /\ record' = [k \in {j \in DOMAIN Effective : Effective[j] # Table} |-> Effective[k]]
    BY <1>3 DEF Measure
  <2>2. Effective' = Effective
    BY <2>1 DEF Effective, Variant, launch, knobs_for
  <2>3. Accepted' /\ Chosen'
    BY <1>1, <2>1 DEF DescriptorInv, Accepted, Chosen, Planned, Started, is_runnable, Variant,
                      unrunnable_knobs, launch
  <2>4. Given' /\ Recorded'
    BY <1>1, <2>1, <2>2 DEF DescriptorInv, Given, Recorded, Started
  <2>5. Runs' /\ Progressed'
    BY <1>1, <2>1 DEF DescriptorInv, Runs, Progressed, Started
  <2>6. Idle' /\ ValidatedRuns'
    BY <2>1 DEF Idle, ValidatedRuns, Planned, Started
  <2>7. Held'
    BY <1>3, <2>1 DEF Held, CapsHold, DeclaredAs
  <2> QED
    BY <2>3, <2>4, <2>5, <2>6, <2>7 DEF DescriptorInv
<1> QED
  BY <1>2, <1>3

-----------------------------------------------------------------------------
LEMMA Inductive == DescriptorInv /\ [Next]_vars => DescriptorInv'
<1> SUFFICES ASSUME DescriptorInv, [Next]_vars PROVE DescriptorInv'
  OBVIOUS
<1>1. CASE Author
  <2>1. stage' = "draft" /\ running' = NoKnobs
    BY <1>1, AuthorStep DEF DescriptorInv, Idle, run
  <2> QED
    BY <2>1 DEF DescriptorInv, Accepted, Chosen, Idle, Given, Runs, Progressed, Recorded, Held, ValidatedRuns,
                Planned, Started
<1>2. CASE Validate
  <2>1. /\ stage' \in {"loaded", "rejected"} /\ UNCHANGED <<desc, launch, run>>
        /\ stage' = "loaded" => Validates(desc)
        /\ running' = NoKnobs
    BY <1>2 DEF Validate, DescriptorInv, Idle, run
  <2>2. Accepted'
    BY <2>1 DEF Accepted
  <2> QED
    BY <2>1, <2>2 DEF DescriptorInv, Chosen, Idle, Given, Runs, Progressed, Recorded, Held, ValidatedRuns,
                      Planned, Started
<1>3. CASE Launch
  BY <1>3, LaunchStep
<1>4. CASE Identify
  BY <1>4, IdentifyStep
<1>5. CASE ReadArmSql
  BY <1>5, ReadArmSqlStep
<1>6. CASE BuildSpecs
  BY <1>6, BuildSpecsStep
<1>7. CASE StartContainer
  BY <1>7, StartContainerStep
<1>8. CASE Measure
  BY <1>8, MeasureStep
<1>9. CASE UNCHANGED vars
  <2>1. Accepted' /\ Chosen' /\ Idle'
    BY <1>9 DEF vars, launch, run, DescriptorInv, Accepted, Chosen, Idle, is_runnable, Variant,
                unrunnable_knobs
  <2>2. Given' /\ Runs' /\ Progressed' /\ Recorded' /\ Held'
    BY <1>9 DEF vars, launch, run, DescriptorInv, Given, Runs, Progressed, Recorded, Held, CapsHold,
                DeclaredAs, Effective, Variant
  <2>3. ValidatedRuns'
    BY <1>9 DEF vars, launch, run, DescriptorInv, ValidatedRuns, CapsAreTaken, CapsAreExact, SuffixFree,
                PathsAreTrimmed, NoBraces, Effective, Variant
  <2> QED
    BY <2>1, <2>2, <2>3 DEF DescriptorInv
<1> QED
  BY <1>1, <1>2, <1>3, <1>4, <1>5, <1>6, <1>7, <1>8, <1>9 DEF Next, Harness

LEMMA Invariant == Spec => []DescriptorInv
<1>1. Init => DescriptorInv
  BY DEF Init, DescriptorInv, Accepted, Chosen, Idle, Given, Runs, Progressed, Recorded, Held, ValidatedRuns,
         Planned, Started
<1> QED
  BY <1>1, Inductive, PTL DEF Spec

\* What validation accepts runs, but for a plan that an override breaks and the
\* five things validation does not look at: validate in entrant.rs against
\* what driver.rs refuses.
THEOREM ValidatedDescriptorRuns == Spec => []ValidatedRuns
<1>1. DescriptorInv => ValidatedRuns
  BY DEF DescriptorInv
<1> QED
  BY <1>1, Invariant, PTL

\* A recorded run ran in the envelope its descriptor publishes, where no
\* container's name ends in another's: validate_envelope in entrant.rs, start_sut
\* and assert_arm_caps.
THEOREM EnvelopeApplied == Spec => []EnvelopeIsApplied
<1>1. DescriptorInv => EnvelopeIsApplied
  <2> SUFFICES ASSUME DescriptorInv, stage = "recorded", SuffixFree
               PROVE  /\ \A i \in DOMAIN desc.containers :
                           /\ desc.containers[i].name \in DOMAIN running
                           /\ running[desc.containers[i].name] = desc.containers[i]
                           /\ Limits(desc.containers[i]) =
                                [cpus |-> desc.containers[i].cpus, memory |-> desc.containers[i].memory]
                      /\ \E i \in DOMAIN desc.containers :
                           /\ desc.containers[i].role = "data-plane"
                           /\ desc.memory = desc.containers[i].memory
                           /\ desc.cpus \notin Unread => desc.cpus = desc.containers[i].cpus
    BY DEF EnvelopeIsApplied
  <2>1. Validates(desc) /\ is_runnable(desc)
    BY DEF DescriptorInv, Accepted, Chosen, Planned, Started
  <2>2. ASSUME NEW i \in DOMAIN desc.containers
        PROVE  /\ desc.containers[i].name \in DOMAIN running
               /\ running[desc.containers[i].name] = desc.containers[i]
               /\ Limits(desc.containers[i]) =
                    [cpus |-> desc.containers[i].cpus, memory |-> desc.containers[i].memory]
               /\ Unread \intersect {desc.containers[i].cpus, desc.containers[i].memory} = {}
    <3> DEFINE box == desc.containers[i]
    <3>1. box.name \in DOMAIN running
      BY DEF DescriptorInv, Progressed, Started
    <3>2. PICK j \in DOMAIN desc.containers :
            /\ box.name = desc.containers[j].name
            /\ running[box.name] = desc.containers[j]
            /\ DockerTakes(running[box.name])
      BY <3>1 DEF DescriptorInv, Runs, Started
    <3>3. i = j
      BY <2>1, <3>2, NamesDistinct DEF Validates
    <3>4. DeclaredAs(box.name) = box
      BY <2>1, DeclaredIsOwn DEF Validates
    <3>5. Limits(box) = [cpus |-> box.cpus, memory |-> box.memory]
      BY <3>1, <3>2, <3>3, <3>4 DEF DescriptorInv, Held, CapsHold
    <3>6. DockerTakes(box)
      BY <3>2, <3>3
    <3>7. box.cpus # NoNumber /\ box.memory # NoNumber
      BY <3>6, DescriptorAssumption DEF DockerTakes, NoNumber, DockerOnly
    <3>8. box.cpus # DockerOnly /\ box.memory # DockerOnly
      BY <3>5 DEF Limits, DockerOnly, Other
    <3> QED
      BY <3>1, <3>2, <3>3, <3>5, <3>7, <3>8 DEF Unread
  <2>3. PICK i \in DOMAIN desc.containers :
          /\ DataPlane(desc) = {i}
          /\ desc.cpus \in Unread \/ desc.cpus = Total(desc.containers[i].cpus)
          /\ desc.memory = Total(desc.containers[i].memory)
    BY <2>1 DEF Validates, validate_envelope
  <2>4. desc.containers[i].role = "data-plane"
    BY <2>3 DEF DataPlane
  <2> QED
    BY <2>2, <2>3, <2>4 DEF Total
<1> QED
  BY <1>1, Invariant, PTL

\* A record says of every substituted knob what the containers were given, and
\* the entrant's constraints hold of what it says: knobs_for, substitute and
\* effective_knobs in driver.rs.
THEOREM KnobsAsRecorded == Spec => []RanAsRecorded
<1>1. DescriptorInv => RanAsRecorded
  <2> SUFFICES ASSUME DescriptorInv, stage = "recorded"
               PROVE  /\ \A e \in env :
                           IF e.text = <<>> THEN e.knob \notin DOMAIN record
                             ELSE e.knob \in DOMAIN record /\ e.text = <<record[e.knob]>>
                      /\ \A c \in desc.constraints : ~Violated(c, record)
    BY DEF RanAsRecorded
  <2>1. record = [k \in {j \in DOMAIN Effective : Effective[j] # Table} |-> Effective[k]]
    BY DEF DescriptorInv, Recorded
  <2>2. \A e \in env : e.knob \in DOMAIN Effective /\ e.text = knob_text(Effective[e.knob])
    BY DEF DescriptorInv, Given, Started
  <2>3. \A e \in env : IF e.text = <<>> THEN e.knob \notin DOMAIN record
                          ELSE e.knob \in DOMAIN record /\ e.text = <<record[e.knob]>>
    <3> SUFFICES ASSUME NEW e \in env
                 PROVE  IF e.text = <<>> THEN e.knob \notin DOMAIN record
                          ELSE e.knob \in DOMAIN record /\ e.text = <<record[e.knob]>>
      OBVIOUS
    <3>1. CASE Effective[e.knob] = Table
      BY <2>1, <2>2, <3>1 DEF knob_text
    <3>2. CASE Effective[e.knob] # Table
      <4>1. e.text = <<Effective[e.knob]>> /\ e.knob \in DOMAIN record
        BY <2>1, <2>2, <3>2 DEF knob_text
      <4>2. <<Effective[e.knob]>> # <<>>
        OBVIOUS
      <4> QED
        BY <2>1, <4>1, <4>2
    <3> QED
      BY <3>1, <3>2
  <2>4. \A c \in desc.constraints : ~Violated(c, Effective)
    BY DEF DescriptorInv, Chosen, Planned, Started, unrunnable_knobs, Effective
  <2>5. \A k : Integer(Effective, k) => Integer(record, k) /\ record[k] = Effective[k]
    BY <2>1 DEF Integer, IsInteger, Table
  <2>6. \A c \in desc.constraints : ~Violated(c, record)
    BY <2>4, <2>5 DEF Violated
  <2> QED
    BY <2>3, <2>6
<1> QED
  BY <1>1, Invariant, PTL
===============================================================================
