------------------------------- MODULE Topic -------------------------------
(***************************************************************************)
(* The corpus on the broker: who fills the topic, who takes it for filled, *)
(* and what a drain reads from it. `bench prefill` (driver.rs and          *)
(* corpus.rs under src/harness/src, ensure_topic of kafka.rs) and the part *)
(* of a sweep that touches the topic: the depth check of run, the drain of *)
(* one arm and the gates over what it landed.                              *)
(*                                                                         *)
(* A sweep takes the arm lock (module ArmLock); a prefill does not.        *)
(***************************************************************************)
EXTENDS Integers, Sequences, FiniteSets, FiniteSetsExt, TLC

CONSTANTS
  Procs,        \* processes of the harness
  Partitions,   \* partition counts a profile can declare
  Batches,      \* --batches, the same for every process
  Gens,         \* versions of the generator
  Sample,       \* messages verify_corpus reads
  GateMax,      \* GATE_MAX_BATCHES: how far down from the last one the gates look
  MaxLaunches,  \* bound: processes started
  MaxEdits,     \* bound: edits of the profile or of the generator
  MaxFaults,    \* bound: kills, failed flushes, lost and retried sends, unread watermarks
  None          \* no record

ASSUME TopicAssumption ==
  /\ Partitions \subseteq Nat \ {0} /\ Batches \in Nat \ {0} /\ Sample \in Nat \ {0}
  /\ GateMax \in Nat \ {0}
  /\ MaxLaunches \in Nat /\ MaxEdits \in Nat /\ MaxFaults \in Nat

VARIABLES
  partitions,  \* infra.partitions of environments/<id>.toml
  gen,         \* the generator of the checkout
  topic,       \* the log of each partition, <<batch_id, generator>>; none without a topic
  doubt,       \* history of this topic: what happened to it out of the ordinary
  proc,        \* the processes
  record,      \* what the drain of this very step read, if it is published
  budget

topicVars == <<partitions, gen, topic, doubt, proc, record, budget>>

Doubts == {"writers", "retried", "lost", "unread", "recreated"}
Idle == [at |-> "idle"]
Spent(what) == budget[what] > 0 /\ budget' = [budget EXCEPT ![what] = @ - 1]

\* encode_batch and frame_confluent: every field is a function of the batch_id,
\* so a message is that and the generator it came from.
Message(i, g) == <<i, g>>

\* A topic has partitions; create_topics succeeds where there is none.
NoTopic == <<>>
Messages(t) == UNION {{t[k][j] : j \in DOMAIN t[k]} : k \in DOMAIN t}
Ids(t) == {m[1] : m \in Messages(t)}

\* topic_depth and topic_message_count: the sum over the partitions asked for;
\* a watermark that cannot be read, of a partition that is not there too, is 0.
Offsets(t, ks) == UNION {{k} \X DOMAIN t[k] : k \in ks}
Depth(t, n, unread) == Cardinality(Offsets(t, (DOMAIN t \intersect 1..n) \ unread))

\* The corpus in n partitions: every batch_id of it once, of one generator, and no more.
IsCorpus(t, n, g) ==
  /\ Len(t) = n
  /\ Messages(t) = {Message(i, g) : i \in 0..(Batches - 1)}
  /\ Depth(t, n, {}) = Batches

TopicInit ==
  /\ partitions \in Partitions /\ gen \in Gens
  /\ topic = NoTopic /\ doubt = {}
  /\ proc = [p \in Procs |-> Idle]
  /\ record = None
  /\ budget = [launch |-> MaxLaunches, edit |-> MaxEdits, fault |-> MaxFaults]

Goto(p, where) == proc' = [proc EXCEPT ![p].at = where]
Exit(p) == proc' = [proc EXCEPT ![p] = Idle]
Quiet == record' = None /\ UNCHANGED <<partitions, gen>>

\* Every read of the watermarks finds them all, or fails on some.
Misses(n) == {u \in SUBSET (1..n) : u = {} \/ budget.fault > 0}
Read(u, why) ==
  IF u = {} THEN UNCHANGED budget /\ doubt' = doubt \union why
  ELSE Spent("fault") /\ doubt' = doubt \union why \union {"unread"}

-----------------------------------------------------------------------------
\* prefill.

\* Infrastructure is brought up first; recreated, the broker holds no topic, whoever
\* has looked at the old one.
LaunchPrefill(p) ==
  /\ proc[p] = Idle /\ Spent("launch")
  /\ \E fresh \in BOOLEAN :
       /\ proc' = [proc EXCEPT ![p] =
                     [at |-> "ensure", parts |-> partitions, gen |-> gen,
                      sent |-> [k \in 1..partitions |-> 0]]]
       /\ IF fresh
            THEN /\ topic' = NoTopic
                 /\ doubt' = IF \E q \in Procs : proc[q].at \notin {"idle", "ensure", "check"}
                              THEN {"recreated"} ELSE {}
            ELSE UNCHANGED <<topic, doubt>>
  /\ Quiet

\* ensure_topic: an existing one is reused if it has the partitions asked for.
EnsureTopic(p) ==
  /\ proc[p].at = "ensure"
  /\ IF topic = NoTopic
       THEN topic' = [k \in 1..proc[p].parts |-> <<>>] /\ Goto(p, "depth")
       ELSE /\ UNCHANGED topic
            /\ IF Len(topic) = proc[p].parts THEN Goto(p, "depth") ELSE Exit(p)
  /\ UNCHANGED <<doubt, budget>> /\ Quiet

Reusable(depth) == depth = Batches

\* Somebody has written the topic, or is about to.
Written(p) ==
  \/ Messages(topic) # {}
  \/ \E q \in Procs \ {p} : proc[q].at = "produce"

\* Reused at the right depth; anything else but an empty topic is a panic.
ReadDepth(p) ==
  /\ proc[p].at = "depth"
  /\ \E u \in Misses(proc[p].parts) :
       LET depth == Depth(topic, proc[p].parts, u)
           produces == ~Reusable(depth) /\ depth = 0
       IN /\ Read(u, IF produces /\ Written(p) THEN {"writers"} ELSE {})
          /\ IF Reusable(depth) THEN Goto(p, "verify")
             ELSE IF produces THEN Goto(p, "produce") ELSE Exit(p)
  /\ UNCHANGED topic /\ Quiet

\* The batch_id partition k is to get next: round robin, not by key.
NextOf(p, k) == (k - 1) + proc[p].sent[k] * proc[p].parts

\* The producer's queues are sent partition by partition, each in order.
Deliver(p) ==
  /\ proc[p].at = "produce"
  /\ \E k \in (1..proc[p].parts) \intersect DOMAIN topic :
       /\ NextOf(p, k) < Batches
       /\ topic' = [topic EXCEPT ![k] = Append(@, Message(NextOf(p, k), proc[p].gen))]
       /\ proc' = [proc EXCEPT ![p].sent[k] = @ + 1]
  /\ UNCHANGED <<doubt, budget>> /\ Quiet

\* A delivery that fails for good, or has no partition to go to any more: the
\* producer has no delivery callback, so the message is dropped and flush succeeds.
Lose(p) ==
  /\ proc[p].at = "produce"
  /\ \E k \in 1..proc[p].parts :
       /\ NextOf(p, k) < Batches
       /\ proc' = [proc EXCEPT ![p].sent[k] = @ + 1]
       /\ IF k \in DOMAIN topic THEN Spent("fault") ELSE UNCHANGED budget
  /\ doubt' = doubt \union {"lost"}
  /\ UNCHANGED topic /\ Quiet

\* No idempotence: a send whose acknowledgement is lost is repeated.
Redeliver(p) ==
  /\ proc[p].at = "produce" /\ Spent("fault")
  /\ \E k \in (1..proc[p].parts) \intersect DOMAIN topic :
       /\ proc[p].sent[k] > 0
       /\ topic' = [topic EXCEPT
            ![k] = Append(@, Message(NextOf(p, k) - proc[p].parts, proc[p].gen))]
  /\ doubt' = doubt \union {"retried"}
  /\ UNCHANGED proc /\ Quiet

\* Mutant: what was sent has landed.
LandedAll(landed) == landed >= Batches

Landed(landed) == landed = Batches

Flushed(p) == \A k \in 1..proc[p].parts : NextOf(p, k) >= Batches

\* flush, which knows only whether the queue is empty, and the depth again.
Flush(p) ==
  /\ proc[p].at = "produce" /\ Flushed(p)
  /\ \E u \in Misses(proc[p].parts) :
       /\ Read(u, {})
       /\ IF Landed(Depth(topic, proc[p].parts, u))
            THEN Goto(p, "verify") ELSE Exit(p)
  /\ UNCHANGED topic /\ Quiet

\* Mutant: the framing is looked at, not the fields.
FieldsUnread(log, g) == TRUE

FieldsMatch(log, g) == \A j \in 1..Sample : log[j][2] = g

\* verify_corpus: the first messages of partition 0 against this generator,
\* whatever their batch_id; too few of them, or no topic, is a panic.
Verified(p) ==
  topic # NoTopic /\ Len(topic[1]) >= Sample /\ FieldsMatch(topic[1], proc[p].gen)

Verify(p) ==
  /\ proc[p].at = "verify" /\ Exit(p)
  /\ UNCHANGED <<topic, doubt, budget>> /\ Quiet

-----------------------------------------------------------------------------
\* A drain sweep of one arm.

\* Under the arm lock, so beside prefills only; --fresh-infra comes out of the
\* depth check as a refusal.
LaunchRun(p) ==
  /\ proc[p] = Idle /\ Spent("launch")
  /\ \A q \in Procs : proc[q].at \notin {"check", "drain"}
  /\ proc' = [proc EXCEPT ![p] = [at |-> "check", parts |-> partitions, gen |-> gen]]
  /\ UNCHANGED <<topic, doubt>> /\ Quiet

CheckDepth(p) ==
  /\ proc[p].at = "check"
  /\ \E u \in Misses(proc[p].parts) :
       /\ Read(u, {})
       /\ IF Depth(topic, proc[p].parts, u) = Batches
            THEN Goto(p, "drain") ELSE Exit(p)
  /\ UNCHANGED topic /\ Quiet

\* Mutant: rows are counted and not summed.
SumsUnread(read, lo, hi, g) == TRUE

\* The sums and fingerprints over the gated range are this generator's.
SumsMatch(read, lo, hi, g) == \A m \in read : m[1] \in lo..hi => m[2] = g

\* run_gates over a table of whole messages: strictly between the first and the
\* last, and no further below the last than GATE_MAX_BATCHES.
GatesPass(read, g) ==
  LET ids == {m[1] : m \in read}
      lo == Max({Min(ids) + 1, Max(ids) - GateMax})
      hi == Max(ids) - 1
  IN /\ read # {} /\ lo <= hi
     /\ lo..hi \subseteq ids
     /\ SumsMatch(read, lo, hi, g)

\* The arm lands what the whole topic holds; the drain ends at a count of rows,
\* twice landed ones included, and below it at its deadline.
Drain(p) ==
  /\ proc[p].at = "drain" /\ Exit(p)
  /\ LET read == Messages(topic)
         count == Depth(topic, Len(topic), {})
     IN record' = IF count >= Batches /\ GatesPass(read, proc[p].gen)
                    THEN [parts |-> proc[p].parts, gen |-> proc[p].gen]
                    ELSE None
  /\ UNCHANGED <<partitions, gen, topic, doubt, budget>>

-----------------------------------------------------------------------------
\* Killed, or a send or a flush that fails: what was delivered stays.
Die(p) ==
  /\ proc[p] # Idle /\ Spent("fault") /\ Exit(p)
  /\ UNCHANGED <<topic, doubt>> /\ Quiet

Edit ==
  /\ Spent("edit") /\ record' = None
  /\ \/ partitions' \in Partitions \ {partitions} /\ UNCHANGED gen
     \/ gen' \in Gens \ {gen} /\ UNCHANGED partitions
  /\ UNCHANGED <<topic, doubt, proc>>

Harness(p) ==
  \/ LaunchPrefill(p) \/ EnsureTopic(p) \/ ReadDepth(p) \/ Deliver(p) \/ Lose(p) \/ Redeliver(p)
  \/ Flush(p) \/ Verify(p) \/ LaunchRun(p) \/ CheckDepth(p) \/ Drain(p) \/ Die(p)

TopicNext == Edit \/ \E p \in Procs : Harness(p)

TopicSpec == TopicInit /\ [][TopicNext]_topicVars

-----------------------------------------------------------------------------
\* A prefill that produced and found its messages landed has left the corpus,
\* whoever else wrote meanwhile: if the watermarks could be read and the topic was
\* not recreated under anybody. A delivery that is lost is missed by the count
\* unless another process wrote or a send was repeated.
ProducedIsCorpus ==
  [][\A p \in Procs :
       /\ Flush(p) /\ proc'[p].at = "verify"
       /\ {"unread", "recreated"} \intersect doubt' = {}
       /\ "lost" \in doubt' => doubt' = {"lost"}
       => IsCorpus(topic, proc[p].parts, proc[p].gen)]_topicVars

\* "A topic of the right depth necessarily holds the right bytes": what a
\* prefill reuses and verifies is the corpus of its profile and its generator,
\* after any kill or loss, provided that one process wrote it, no send was
\* repeated, every watermark was read and it was not recreated under anybody.
ReusedIsCorpus ==
  [][\A p \in Procs :
       Verify(p) /\ Verified(p) /\ doubt \subseteq {"lost"} =>
         IsCorpus(topic, proc[p].parts, proc[p].gen)]_topicVars

\* The same sentence without those provisos, as the comment on prefill has it. False of
\* the code: two writers, or a repeated send beside a lost one, make up the depth.
RightDepthRightBytes ==
  [][\A p \in Procs :
       Verify(p) /\ Verified(p) /\ {"unread", "recreated"} \intersect doubt = {} =>
         IsCorpus(topic, proc[p].parts, proc[p].gen)]_topicVars

\* A drain is published only if the messages the gates looked at are all there and
\* of its generator; and over the whole corpus, provided that one process wrote it,
\* no send was repeated and it was not recreated under anybody. Without that, gaps
\* and foreign messages further down than GATE_MAX_BATCHES are published.
PublishedIsCorpus ==
  record # None =>
    /\ \A i \in Min(Ids(topic))..Max(Ids(topic)) :
         Min(Ids(topic)) < i /\ Max(Ids(topic)) - GateMax <= i /\ i < Max(Ids(topic)) =>
           /\ i \in Ids(topic)
           /\ \A m \in Messages(topic) : m[1] = i => m[2] = record.gen
    /\ doubt \subseteq {"unread", "lost"} =>
         IsCorpus(topic, Len(topic), record.gen)

\* "Silently accepting a mismatch is how a sweep ends up measuring one shape
\* while recording another": the partitions of a record are the topic's.
RecordedShape == record # None => record.parts = Len(topic)
=============================================================================
