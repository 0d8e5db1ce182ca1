----------------------------- MODULE Descriptor -----------------------------
(***************************************************************************)
(* An entrant's descriptor from the author's edits through validation to   *)
(* the run it describes: src/harness/src/entrant.rs (what is refused where *)
(* it is written) and the parts of driver.rs that read the descriptor      *)
(* again (the plan, the arm's SQL, the container specs, the caps, the      *)
(* record). Everything outside the descriptor works: images are built,     *)
(* their version commands answer, docker runs what it can parse. What a    *)
(* run refuses here, it refuses for the descriptor's text.                 *)
(***************************************************************************)
EXTENDS Integers, Sequences

CONSTANTS
  Names,      \* names of containers
  Ends,       \* pairs <<m, n>>: the full name of container n ends in m
  KnobNames,
  Base,       \* the descriptor the author starts from
  Quantities, \* cpus and memory an author writes: numbers, or what is none
  Layouts,    \* container lists
  Envs,       \* values of [env]: sets of placeholders
  Knobs,      \* knob tables of a variant: functions from knob names to values
  Rules,      \* sets of [[constraints]]
  Paths,      \* values of arm_sql and arm_teardown_sql
  Overrides,  \* what --knob may say: functions like Knobs
  HostCpus,   \* cores of the host
  MinMemory,  \* the least memory docker gives a container
  Page,       \* what the kernel rounds a memory limit down to
  MaxEdits    \* bound: edits of the author

\* What is not an integer: a cpus or memory text that is no quantity, or one that
\* docker reads and the harness does not (1.5g, 1/2), a knob that is a string, a
\* string with two opening braces, a boolean, table or array.
NoNumber == -1
DockerOnly == -5
Unread == {NoNumber, DockerOnly}
Text == -2
Braced == -3
Table == -4
IsInteger(v) == v >= 0
NoName == ""

NoKnobs == [k \in {} |-> Table]

ASSUME DescriptorAssumption ==
  /\ \A n \in Names : <<n, n>> \in Ends
  /\ \A k \in Knobs \union Overrides : DOMAIN k \subseteq KnobNames
  /\ HostCpus \in Nat /\ MinMemory \in Nat /\ Page \in Nat \ {0}

VARIABLES
  desc,     \* the descriptor
  edits,    \* edits left
  stage,    \* where the descriptor, or the run that reads it, is
  arm,      \* the variant that is run
  over,     \* RunOptions::knobs
  waiting,  \* positions of the containers that are not started yet
  env,      \* what every container is given: [knob, text]
  running,  \* by container name, what docker runs under it
  record    \* the published record's knobs

launch == <<arm, over>>
run == <<waiting, env, running, record>>
vars == <<desc, edits, stage, launch, run>>

-----------------------------------------------------------------------------
\* entrant.rs: what is parsed, and what validation refuses.

Containers ==
  [role : {"data-plane", "control-plane"}, name : Names,
   cpus : Nat \union Unread, memory : Nat \union Unread]

\* toml::from_str, as far as what a run starts depends on it.
Parses(d) ==
  /\ d.containers \in Seq(Containers)
  /\ d.cpus \in Nat \union Unread /\ d.memory \in Nat \union Unread

DataPlane(d) == {i \in DOMAIN d.containers : d.containers[i].role = "data-plane"}
HasControlPlane(d) == \E i \in DOMAIN d.containers : d.containers[i].role = "control-plane"

\* filter_map: what does not parse is left out of a total.
Total(q) == IF q \in Unread THEN 0 ELSE q

\* Mutant: the first container is taken for the data plane.
TotalsOfFirst(d) ==
  /\ DataPlane(d) # {}
  /\ d.cpus \in Unread \/ d.cpus = Total(d.containers[1].cpus)
  /\ d.memory \notin Unread /\ d.memory = Total(d.containers[1].memory)

\* "The declared totals must equal what the data-plane containers actually get."
\* An [envelope].cpus that does not parse is NaN, and |sum - NaN| > EPSILON is
\* false; an [envelope].memory that does not parse is refused.
validate_envelope(d) ==
  \E i \in DOMAIN d.containers :
    /\ DataPlane(d) = {i}
    /\ d.cpus \in Unread \/ d.cpus = Total(d.containers[i].cpus)
    /\ d.memory \notin Unread /\ d.memory = Total(d.containers[i].memory)

\* A near miss of a canonical wire format is refused, a format of its own is not.
validate_variants(d) ==
  /\ \A i, j \in DOMAIN d.variants : i # j => d.variants[i].id # d.variants[j].id
  /\ \A i \in DOMAIN d.variants :
       /\ d.variants[i].wire \in {"canonical", "foreign"}
       /\ d.variants[i].unshipped => d.variants[i].approach = "stripped"
       /\ d.variants[i].default => d.variants[i].approach = "realistic"
  /\ \E i \in DOMAIN d.variants : \A j \in DOMAIN d.variants : d.variants[j].default <=> j = i

\* Placeholder::parse over placeholder_tokens: the fixed vocabulary, a knob of
\* the table it is looked up in, a declared container.
Resolves(d, token, knobs) ==
  CASE token.kind = "knob"      -> token.of \in DOMAIN knobs
    [] token.kind = "container" -> \E i \in DOMAIN d.containers : d.containers[i].name = token.of
    [] OTHER                    -> token.kind = "fixed"

\* Mutant: the entrant-wide [env] is checked for the default variant only.
EnvOfDefault(d) ==
  \A i \in DOMAIN d.variants :
    \A t \in d.variants[i].env \union IF d.variants[i].default THEN d.env ELSE {} :
      Resolves(d, t, d.variants[i].knobs)

\* The entrant-wide [env] is substituted for every variant.
validate_env(d) ==
  \A i \in DOMAIN d.variants :
    \A t \in d.env \union d.variants[i].env : Resolves(d, t, d.variants[i].knobs)

\* knob_violations: exactly one relation, and both its sides integers that are
\* stated here. "An unset knob leaves the image's own default in force".
Integer(knobs, k) == k \in DOMAIN knobs /\ IsInteger(knobs[k])
Violated(c, knobs) ==
  \/ (c.exceeds = NoName) <=> (c.at_least = NoNumber)
  \/ c.exceeds # NoName /\ ~(/\ Integer(knobs, c.knob) /\ Integer(knobs, c.exceeds)
                             /\ knobs[c.knob] > knobs[c.exceeds])
  \/ c.at_least # NoNumber /\ ~(Integer(knobs, c.knob) /\ knobs[c.knob] >= c.at_least)

validate_constraints(d) ==
  /\ \A c \in d.constraints :
       /\ c.knob # NoName /\ c.why /\ c.exceeds # c.knob
       /\ (c.exceeds = NoName) # (c.at_least = NoNumber)
  /\ \A i \in DOMAIN d.variants, c \in d.constraints : ~Violated(c, d.variants[i].knobs)

validate_deviations(d) == HasControlPlane(d) => d.discloses

\* arm_sql and arm_teardown_sql travel together, are looked up trimmed, and must
\* be files inside the entrant's directory. A table is named bare.
validate_clickhouse(d) ==
  /\ d.attribution_table \in {"none", "bare"}
  /\ d.arm_sql = "none" <=> d.arm_teardown_sql = "none"
  /\ {d.arm_sql, d.arm_teardown_sql} \subseteq {"none", "file", "padded"}

\* A strategy that is implemented, and an argv to run.
validate_version(d) == d.version = "command"

validate_guarantees(d) == d.delivery = "at-least-once"

is_runnable(d) == d.status \in {"active", "historical"}

\* load_one: a planned entrant need only say why it is one.
Validates(d) ==
  /\ Parses(d)
  /\ IF ~is_runnable(d) THEN d.planned
     ELSE /\ validate_version(d) /\ validate_guarantees(d) /\ validate_envelope(d)
          /\ validate_variants(d) /\ validate_env(d) /\ validate_constraints(d)
          /\ validate_deviations(d) /\ validate_clickhouse(d)

-----------------------------------------------------------------------------
Init ==
  /\ desc = Base /\ edits = MaxEdits /\ stage = "draft"
  /\ arm = 0 /\ over = NoKnobs
  /\ waiting = {} /\ env = {} /\ running = NoKnobs /\ record = NoKnobs

\* The author changes one declaration.
Writes(d) ==
  /\ stage \in {"draft", "rejected"} /\ edits > 0
  /\ desc' = d /\ desc' # desc
  /\ edits' = edits - 1 /\ stage' = "draft"
  /\ UNCHANGED <<launch, run>>

WriteIdentity ==
  \/ \E s \in {"active", "planned"} : Writes([desc EXCEPT !.status = s])
  \/ \E v \in {"command", "no argv", "other"} : Writes([desc EXCEPT !.version = v])
  \/ \E g \in {"at-least-once", "exactly-once"} : Writes([desc EXCEPT !.delivery = g])
  \/ Writes([desc EXCEPT !.planned = ~@])
  \/ Writes([desc EXCEPT !.discloses = ~@])

WriteEnvelope ==
  \/ \E q \in Quantities : Writes([desc EXCEPT !.cpus = q])
  \/ \E q \in Quantities : Writes([desc EXCEPT !.memory = q])
  \/ \E l \in Layouts : Writes([desc EXCEPT !.containers = l])

WriteEnv ==
  \/ \E e \in Envs : Writes([desc EXCEPT !.env = e])
  \/ \E e \in Envs, i \in DOMAIN desc.variants : Writes([desc EXCEPT !.variants[i].env = e])

WriteVariant ==
  \/ \E i \in DOMAIN desc.variants :
       \/ \E k \in Knobs : Writes([desc EXCEPT !.variants[i].knobs = k])
       \/ \E a \in {"realistic", "stripped"} : Writes([desc EXCEPT !.variants[i].approach = a])
       \/ Writes([desc EXCEPT !.variants[i].default = ~@])
       \/ Writes([desc EXCEPT !.variants[i].unshipped = ~@])
       \/ \E w \in {"near", "foreign", "none"} : Writes([desc EXCEPT !.variants[i].wire = w])
       \/ Writes([desc EXCEPT !.variants[i].id = desc.variants[1].id])
  \/ desc.variants # <<>> /\ Writes([desc EXCEPT !.variants = Tail(@)])

WriteRules ==
  \/ \E r \in Rules : Writes([desc EXCEPT !.constraints = r])
  \/ \E p \in Paths : Writes([desc EXCEPT !.arm_sql = p])
  \/ \E p \in Paths : Writes([desc EXCEPT !.arm_teardown_sql = p])
  \/ \E t \in {"bare", "padded", "qualified"} : Writes([desc EXCEPT !.attribution_table = t])

\* load_all: what `bench validate` does in CI, and every `bench run` again.
Validate ==
  /\ stage = "draft"
  /\ stage' = IF Validates(desc) THEN "loaded" ELSE "rejected"
  /\ UNCHANGED <<desc, edits, launch, run>>

-----------------------------------------------------------------------------
\* driver.rs: what a run makes of it.

\* The effective knobs, of one function for the substitution and the record.
knobs_for(v, o) ==
  [k \in DOMAIN v.knobs \union DOMAIN o |-> IF k \in DOMAIN o THEN o[k] ELSE v.knobs[k]]

unrunnable_knobs(v, o) ==
  \/ ~(DOMAIN o \subseteq DOMAIN v.knobs)
  \/ \E c \in desc.constraints : Violated(c, knobs_for(v, o))

Variant == desc.variants[arm]
Effective == knobs_for(Variant, over)
Refuse == stage' = "refused" /\ UNCHANGED <<desc, edits, launch, run>>

\* expand and assert_knobs_are_runnable, before anything is started.
Launch ==
  /\ stage = "loaded" /\ is_runnable(desc)
  /\ arm' \in DOMAIN desc.variants /\ over' \in Overrides
  /\ stage' = IF unrunnable_knobs(desc.variants[arm'], over') THEN "unplanned" ELSE "identify"
  /\ UNCHANGED <<desc, edits, run>>

\* resolve_sut: neither a version nor a commit is nobody's number.
Identify ==
  /\ stage = "identify"
  /\ IF desc.version = "command"
       THEN stage' = "objects" /\ UNCHANGED <<desc, edits, launch, run>>
       ELSE Refuse

\* read_arm_sql: the path as it is written.
Readable == {"none", "file"}
ReadArmSql ==
  /\ stage = "objects"
  /\ IF {desc.arm_sql, desc.arm_teardown_sql} \subseteq Readable
       THEN stage' = "specs" /\ UNCHANGED <<desc, edits, launch, run>>
       ELSE Refuse

\* name.ends_with(&c.name): the first container whose name the full name ends in.
DeclaredAs(n) ==
  LET Matches(i) == <<desc.containers[i].name, n>> \in Ends
      first == CHOOSE i \in DOMAIN desc.containers :
                 Matches(i) /\ \A j \in DOMAIN desc.containers : Matches(j) => i <= j
  IN desc.containers[first]

\* knob_text: integers and strings; anything else is the empty string.
knob_text(v) == IF v = Table THEN <<>> ELSE <<v>>

\* Mutant: what the variant declares, whatever this invocation overrides.
AppliedAsDeclared(k) == knob_text(Variant.knobs[k])

\* What {{knob:NAME}} becomes.
Applied(k) == knob_text(Effective[k])

\* substitute: a placeholder it cannot resolve, or a value with braces in it.
Tokens == desc.env \union Variant.env
Unresolved(t) ==
  \/ ~Resolves(desc, t, Effective)
  \/ t.kind = "knob" /\ Effective[t.of] = Braced

\* build_specs: the same environment for every container.
BuildSpecs ==
  /\ stage = "specs"
  /\ IF \E t \in Tokens : Unresolved(t)
       THEN Refuse
       ELSE /\ env' = {[knob |-> t.of, text |-> Applied(t.of)] : t \in {u \in Tokens : u.kind = "knob"}}
            /\ waiting' = DOMAIN desc.containers
            /\ stage' = "start"
            /\ UNCHANGED <<desc, edits, launch, running, record>>

\* The control plane first, else in the descriptor's order.
Control(i) == DeclaredAs(desc.containers[i].name).role = "control-plane"
Before(i, j) == IF Control(i) <=> Control(j) THEN i <= j ELSE Control(i)

\* docker run: no text for a number, no more cores than there are, no memory
\* below the minimum; 0 is no limit. A refusal is a panic.
DockerTakes(c) ==
  /\ c.cpus \in 0 .. HostCpus \union {DockerOnly}
  /\ c.memory \in {0, DockerOnly} \/ c.memory >= MinMemory

\* start_sut: removes what has the name, then runs.
StartContainer ==
  /\ stage = "start"
  /\ \E i \in waiting :
       /\ \A j \in waiting : Before(i, j)
       /\ IF ~DockerTakes(desc.containers[i])
            THEN stage' = "panicked" /\ UNCHANGED <<waiting, running>>
            ELSE /\ running' = [n \in DOMAIN running \union {desc.containers[i].name} |->
                                  IF n = desc.containers[i].name THEN desc.containers[i]
                                                                 ELSE running[n]]
                 /\ waiting' = waiting \ {i} /\ UNCHANGED stage
  /\ UNCHANGED <<desc, edits, launch, env, record>>

\* What the sampler reads back of a container, cpu.max and memory.max: Other
\* stands for "max" and for what only docker can read.
Other == -6
Limits(c) ==
  [cpus   |-> IF c.cpus \in {0, DockerOnly} THEN Other ELSE c.cpus,
   memory |-> IF c.memory \in {0, DockerOnly} THEN Other ELSE Page * (c.memory \div Page)]

\* assert_arm_caps, of every name that was sampled.
CapsHold ==
  \A n \in DOMAIN running :
    Limits(running[n]) = [cpus |-> DeclaredAs(n).cpus, memory |-> DeclaredAs(n).memory]

\* The window, the caps, and the record with the effective knobs that are
\* integers or strings.
Measure ==
  /\ stage = "start" /\ waiting = {}
  /\ IF CapsHold
       THEN /\ stage' = "recorded"
            /\ record' = [k \in {j \in DOMAIN Effective : Effective[j] # Table} |-> Effective[k]]
            /\ UNCHANGED <<desc, edits, launch, waiting, env, running>>
       ELSE Refuse

Author == WriteIdentity \/ WriteEnvelope \/ WriteEnv \/ WriteVariant \/ WriteRules
Harness == Validate \/ Launch \/ Identify \/ ReadArmSql \/ BuildSpecs \/ StartContainer \/ Measure
Next == Author \/ Harness

Spec == Init /\ [][Next]_vars

-----------------------------------------------------------------------------
\* What validation does not look at, and a run trips over.
SuffixFree ==
  \A i, j \in DOMAIN desc.containers :
    i # j => <<desc.containers[i].name, desc.containers[j].name>> \notin Ends
CapsAreTaken == \A i \in DOMAIN desc.containers : DockerTakes(desc.containers[i])
CapsAreExact ==
  \A i \in DOMAIN desc.containers :
    /\ {0, DockerOnly} \intersect {desc.containers[i].cpus, desc.containers[i].memory} = {}
    /\ desc.containers[i].memory = Page * (desc.containers[i].memory \div Page)
PathsAreTrimmed == "padded" \notin {desc.arm_sql, desc.arm_teardown_sql}
NoBraces == \A k \in DOMAIN Effective : Effective[k] # Braced

\* A run is never refused for what its descriptor says, "the most expensive
\* place to learn about a typo": what validation accepts, the plan, the SQL, the
\* specs, docker and the cap assertion accept as well, but for five things: a cap
\* docker does not take, a cap that is applied as another (0, which is no limit,
\* what only docker reads, and memory in no whole pages), a name that ends in another's, a path with
\* blanks around it, and a knob with braces in it.
ValidatedRuns ==
  /\ stage = "unplanned" => over # NoKnobs
  /\ stage = "panicked" => ~CapsAreTaken
  /\ stage = "refused" => ~CapsAreExact \/ ~SuffixFree \/ ~PathsAreTrimmed \/ ~NoBraces

\* Every container that was declared runs as it was declared, under the limits it
\* declares, and the envelope that is published is the one the data plane ran in.
EnvelopeIsApplied ==
  stage = "recorded" /\ SuffixFree =>
    /\ \A i \in DOMAIN desc.containers :
         /\ desc.containers[i].name \in DOMAIN running
         /\ running[desc.containers[i].name] = desc.containers[i]
         /\ Limits(desc.containers[i]) =
              [cpus |-> desc.containers[i].cpus, memory |-> desc.containers[i].memory]
    /\ \E i \in DOMAIN desc.containers :
         /\ desc.containers[i].role = "data-plane"
         /\ desc.memory = desc.containers[i].memory
         /\ desc.cpus \notin Unread => desc.cpus = desc.containers[i].cpus

\* What a record says of a knob is what the containers were given, override or
\* not, and the entrant's own rules hold of it.
RanAsRecorded ==
  stage = "recorded" =>
    /\ \A e \in env :
         IF e.text = <<>> THEN e.knob \notin DOMAIN record
                          ELSE e.knob \in DOMAIN record /\ e.text = <<record[e.knob]>>
    /\ \A c \in desc.constraints : ~Violated(c, record)

\* "Without this the envelope is decorative", entrant.rs 1157, of the CPUs that
\* do not parse as well; Descriptor_cpus.cfg has the counterexample.
EnvelopeIsANumber == stage = "recorded" => desc.cpus \notin Unread
=============================================================================
