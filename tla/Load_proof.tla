----------------------------- MODULE Load_proof -----------------------------
(***************************************************************************)
(* Proofs about the load generator, for any threads, rate, queue and       *)
(* faults: what it reports as delivered is on the topic without a hole; and *)
(* about the gates, for any table: they pass exactly the tables that lack  *)
(* no row of the messages they look at.                                    *)
(***************************************************************************)
EXTENDS Load, FiniteSetTheorems, TLAPS

TypeOK ==
  /\ pc \in [Slots -> {"check", "send", "flush", "done", "dead"}]
  /\ sent \in [Slots -> Nat] /\ queue \in [Slots -> SUBSET Nat]
  /\ joined \in Nat

\* A message a living thread counted as sent is queued, in the log or failed, and a
\* thread that has flushed queues none.
Handed(t) ==
  pc[t] # "dead" =>
    \A n \in Nat : n < sent[t] => First + Global(t, n) \in queue[t] \union topic \union failed
Flushed(t) == pc[t] = "done" => queue[t] = {}

\* What stop() has joined without a panic has flushed.
Joined ==
  /\ phase = "window" => joined = 0
  /\ phase = "stopping" => \A t \in Slots : t < joined => pc[t] = "done"
  /\ phase = "accepted" => failed = {} /\ \A t \in Slots : pc[t] = "done"

LoadInv == TypeOK /\ Joined /\ \A t \in Slots : Handed(t) /\ Flushed(t)

-----------------------------------------------------------------------------
\* The index of a message tells its thread and its place in that thread's order.
LEMMA Division ==
  ASSUME NEW m \in Nat, NEW T \in Nat \ {0}
  PROVE  m \div T \in Nat /\ m % T \in 0..(T - 1) /\ m = (m % T) + (m \div T) * T
OBVIOUS

LEMMA Later ==
  ASSUME NEW a \in Nat, NEW b \in Nat, NEW T \in Nat \ {0}, a * T < b * T
  PROVE  a < b
OBVIOUS

LEMMA UpcomingTyped ==
  ASSUME NEW t \in Slots, NEW n \in Nat
  PROVE  First + Global(t, n) \in Nat /\ t \in Nat
<1>1. t \in Nat /\ Threads \in Nat /\ First \in Nat
  BY LoadAssumption DEF Slots
<1>2. n * Threads \in Nat
  BY <1>1
<1> QED
  BY <1>1, <1>2 DEF Global

LEMMA InitInv == Init => LoadInv
<1> SUFFICES ASSUME Init PROVE LoadInv
  OBVIOUS
<1>1. TypeOK
  BY DEF Init, TypeOK
<1>2. Joined
  BY DEF Init, Joined
<1>3. ASSUME NEW t \in Slots PROVE Handed(t) /\ Flushed(t)
  BY DEF Init, Handed, Flushed
<1> QED
  BY <1>1, <1>2, <1>3 DEF LoadInv

-----------------------------------------------------------------------------
\* A thread that a step does not touch keeps its part while log and failures only grow.
LEMMA Untouched ==
  ASSUME NEW t \in Slots, Handed(t), Flushed(t),
         pc'[t] = pc[t], sent'[t] = sent[t], queue'[t] = queue[t],
         topic \subseteq topic', failed \subseteq failed'
  PROVE  Handed(t)' /\ Flushed(t)'
BY DEF Handed, Flushed, Global

\* A thread's own steps.
LEMMA CheckStep ==
  ASSUME LoadInv, NEW u \in Slots, CheckStop(u) PROVE LoadInv'
<1>1. TypeOK /\ Joined /\ \A t \in Slots : Handed(t) /\ Flushed(t)
  BY DEF LoadInv
<1>2. /\ pc[u] = "check" /\ UNCHANGED <<sent, queue, topic, failed, phase, joined>>
      /\ pc' = [pc EXCEPT ![u] = IF stop THEN "flush" ELSE "send"]
  BY DEF CheckStop, Goto, broker
<1>3. TypeOK'
  BY <1>1, <1>2 DEF TypeOK
<1>4. Joined'
  BY <1>1, <1>2 DEF Joined, TypeOK
<1>5. ASSUME NEW t \in Slots PROVE Handed(t)' /\ Flushed(t)'
  <2>1. CASE t = u
    BY <1>1, <1>2, <2>1 DEF Handed, Flushed, Global, TypeOK
  <2>2. CASE t # u
    BY <1>1, <1>2, <2>2, Untouched DEF TypeOK
  <2> QED
    BY <2>1, <2>2
<1> QED
  BY <1>3, <1>4, <1>5 DEF LoadInv

LEMMA SendStep ==
  ASSUME LoadInv, NEW u \in Slots, Send(u) PROVE LoadInv'
<1>1. TypeOK /\ Joined /\ \A t \in Slots : Handed(t) /\ Flushed(t)
  BY DEF LoadInv
<1>2. /\ pc[u] = "send" /\ UNCHANGED <<topic, failed, phase, joined>>
      /\ pc' = [pc EXCEPT ![u] = "check"]
      /\ \/ /\ queue' = [queue EXCEPT ![u] = queue[u] \union {Upcoming(u)}]
            /\ sent' = [sent EXCEPT ![u] = sent[u] + 1]
         \/ UNCHANGED <<queue, sent>>
  BY DEF Send, Goto, broker
<1>3. sent[u] \in Nat /\ Upcoming(u) \in Nat /\ Upcoming(u) = First + Global(u, sent[u])
  BY <1>1, UpcomingTyped DEF Upcoming, TypeOK
<1>4. TypeOK'
  BY <1>1, <1>2, <1>3 DEF TypeOK
<1>5. Joined'
  BY <1>1, <1>2 DEF Joined, TypeOK
<1>6. ASSUME NEW t \in Slots PROVE Handed(t)' /\ Flushed(t)'
  <2>1. CASE t = u /\ queue' = [queue EXCEPT ![u] = queue[u] \union {Upcoming(u)}]
                   /\ sent' = [sent EXCEPT ![u] = sent[u] + 1]
    <3>1. /\ queue'[u] = queue[u] \union {Upcoming(u)} /\ sent'[u] = sent[u] + 1
          /\ pc'[u] = "check"
      BY <1>1, <1>2, <2>1 DEF TypeOK
    <3>2. ASSUME NEW n \in Nat, n < sent[u] + 1
          PROVE  First + Global(u, n) \in queue[u] \union {Upcoming(u)} \union topic \union failed
      <4>1. n < sent[u] \/ n = sent[u]
        BY <1>3, <3>2
      <4> QED
        BY <1>1, <1>2, <1>3, <4>1 DEF Handed
    <3>3. Handed(u)'
      BY <1>2, <3>1, <3>2 DEF Handed, Global
    <3> QED
      BY <2>1, <3>1, <3>3 DEF Flushed
  <2>2. CASE t = u /\ UNCHANGED <<queue, sent>>
    BY <1>1, <1>2, <2>2 DEF Handed, Flushed, Global, TypeOK
  <2>3. CASE t # u
    BY <1>1, <1>2, <2>3, Untouched DEF TypeOK
  <2> QED
    BY <1>2, <2>1, <2>2, <2>3
<1> QED
  BY <1>4, <1>5, <1>6 DEF LoadInv

LEMMA FlushStep ==
  ASSUME LoadInv, NEW u \in Slots, Flush(u) PROVE LoadInv'
<1>1. TypeOK /\ Joined /\ \A t \in Slots : Handed(t) /\ Flushed(t)
  BY DEF LoadInv
<1>2. /\ pc[u] = "flush" /\ queue[u] = {} /\ pc' = [pc EXCEPT ![u] = "done"]
      /\ UNCHANGED <<sent, queue, topic, failed, phase, joined>>
  BY DEF Flush, Goto, broker
<1>3. TypeOK' /\ Joined'
  BY <1>1, <1>2 DEF TypeOK, Joined
<1>4. ASSUME NEW t \in Slots PROVE Handed(t)' /\ Flushed(t)'
  <2>1. CASE t = u
    BY <1>1, <1>2, <2>1 DEF Handed, Flushed, Global, TypeOK
  <2>2. CASE t # u
    BY <1>1, <1>2, <2>2, Untouched DEF TypeOK
  <2> QED
    BY <2>1, <2>2
<1> QED
  BY <1>3, <1>4 DEF LoadInv

LEMMA PanicStep ==
  ASSUME LoadInv, NEW u \in Slots, PanicThread(u) PROVE LoadInv'
<1>1. TypeOK /\ Joined /\ \A t \in Slots : Handed(t) /\ Flushed(t)
  BY DEF LoadInv
<1>2. /\ pc[u] \in {"send", "flush"} /\ pc' = [pc EXCEPT ![u] = "dead"]
      /\ queue' = [queue EXCEPT ![u] = {}]
      /\ UNCHANGED <<sent, topic, failed, phase, joined>>
  BY DEF PanicThread, Goto
<1>3. TypeOK' /\ Joined'
  BY <1>1, <1>2 DEF TypeOK, Joined
<1>4. ASSUME NEW t \in Slots PROVE Handed(t)' /\ Flushed(t)'
  <2>1. CASE t = u
    BY <1>1, <1>2, <2>1 DEF Handed, Flushed, TypeOK
  <2>2. CASE t # u
    BY <1>1, <1>2, <2>2, Untouched DEF TypeOK
  <2> QED
    BY <2>1, <2>2
<1> QED
  BY <1>3, <1>4 DEF LoadInv

\* A message that leaves the queue is in the log or among the failed.
LEMMA ReportedStep ==
  ASSUME LoadInv, NEW u \in Slots, Delivered(u) \/ Failed(u) PROVE LoadInv'
<1>1. TypeOK /\ Joined /\ \A t \in Slots : Handed(t) /\ Flushed(t)
  BY DEF LoadInv
<1>2. PICK m \in queue[u] :
        /\ queue' = [queue EXCEPT ![u] = queue[u] \ {m}]
        /\ topic \subseteq topic' /\ failed \subseteq failed' /\ m \in topic' \union failed'
        /\ UNCHANGED <<pc, sent, phase, joined>>
  BY DEF Delivered, Failed
<1>3. pc[u] # "done"
  BY <1>1, <1>2 DEF Flushed
<1>4. TypeOK'
  BY <1>1, <1>2 DEF TypeOK
<1>5. phase # "accepted"
  BY <1>1, <1>3 DEF Joined
<1>6. Joined'
  BY <1>1, <1>2, <1>5 DEF Joined
<1>7. ASSUME NEW t \in Slots PROVE Handed(t)' /\ Flushed(t)'
  <2>1. CASE t = u
    <3>1. queue'[u] = queue[u] \ {m}
      BY <1>1, <1>2 DEF TypeOK
    <3>2. Handed(u)'
      BY <1>1, <1>2, <3>1 DEF Handed, Global
    <3> QED
      BY <1>2, <1>3, <2>1, <3>2 DEF Flushed
  <2>2. CASE t # u
    BY <1>1, <1>2, <2>2, Untouched DEF TypeOK
  <2> QED
    BY <2>1, <2>2
<1> QED
  BY <1>4, <1>6, <1>7 DEF LoadInv

\* The driver's steps move no thread: stop() joins in the order of the slots.
LEMMA DriverStep ==
  ASSUME LoadInv, Tick \/ Stop \/ Drop \/ Join \/ Report \/ RunGates PROVE LoadInv'
<1>1. TypeOK /\ Joined /\ \A t \in Slots : Handed(t) /\ Flushed(t)
  BY DEF LoadInv
<1>2. UNCHANGED <<pc, sent, queue, topic, failed>>
  BY DEF Tick, Stop, Drop, Join, Report, RunGates, threads, broker
<1>3. \A t \in Slots : Handed(t)' /\ Flushed(t)'
  BY <1>1, <1>2, Untouched
<1>4. \A t \in Slots : t \in Nat /\ t < Threads
  BY LoadAssumption DEF Slots
<1>5. TypeOK' /\ Joined'
  <2>1. CASE Tick \/ Stop \/ Drop \/ RunGates
    <3>1. joined' = joined /\ (phase' = phase \/ (phase = "window" /\ phase' \in {"stopping", "dropping"}))
      <4>1. Tick \/ RunGates => joined' = joined /\ phase' = phase
        BY DEF Tick, RunGates
      <4>2. Stop \/ Drop =>
              joined' = joined /\ phase = "window" /\ phase' \in {"stopping", "dropping"}
        BY DEF Stop, Drop
      <4> QED
        BY <2>1, <4>1, <4>2
    <3>2. phase = "window" => \A t \in Slots : ~(t < joined)
      BY <1>1, <1>4 DEF Joined
    <3> QED
      BY <1>1, <1>2, <3>1, <3>2 DEF TypeOK, Joined
  <2>2. CASE Join
    <3>1. CASE pc[joined] = "done" /\ joined' = joined + 1 /\ UNCHANGED phase
      <4>1. \A t \in Slots : t < joined + 1 => t < joined \/ t = joined
        BY <1>1, <1>4 DEF TypeOK
      <4>2. phase \in {"stopping", "dropping"} /\ joined + 1 \in Nat
        BY <1>1, <2>2 DEF Join, TypeOK
      <4> QED
        BY <1>1, <1>2, <3>1, <4>1, <4>2 DEF TypeOK, Joined
    <3>2. CASE phase = "dropping" /\ joined' = joined + 1 /\ UNCHANGED phase
      BY <1>1, <1>2, <3>2 DEF TypeOK, Joined
    <3>3. CASE phase' = "panicked" /\ UNCHANGED joined
      BY <1>1, <1>2, <3>3 DEF TypeOK, Joined
    <3> QED
      BY <2>2, <3>1, <3>2, <3>3 DEF Join
  <2>3. CASE Report
    <3>1. /\ joined = Threads /\ joined' = joined /\ phase' \in {"accepted", "refused"}
          /\ phase' = "accepted" => phase = "stopping" /\ failed = {}
      BY <2>3 DEF Report
    <3> QED
      BY <1>1, <1>2, <1>4, <3>1 DEF TypeOK, Joined
  <2> QED
    BY <2>1, <2>2, <2>3
<1> QED
  BY <1>3, <1>5 DEF LoadInv

LEMMA Inductive == LoadInv /\ [Next]_vars => LoadInv'
<1> SUFFICES ASSUME LoadInv, [Next]_vars PROVE LoadInv'
  OBVIOUS
<1>1. CASE Next
  BY <1>1, CheckStep, SendStep, FlushStep, PanicStep, ReportedStep, DriverStep DEF Next, Thread
<1>2. CASE UNCHANGED vars
  <2>1. UNCHANGED <<pc, sent, queue, topic, failed, phase, joined>>
    BY <1>2 DEF vars, threads, broker
  <2>2. \A t \in Slots : Handed(t)' /\ Flushed(t)'
    BY <2>1, Untouched DEF LoadInv
  <2> QED
    BY <2>1, <2>2 DEF LoadInv, TypeOK, Joined
<1> QED
  BY <1>1, <1>2

-----------------------------------------------------------------------------
\* However the threads interleave, whatever the queue refused and whenever stop came:
\* a load that stop() accepts is on the topic without a hole below the message its
\* slowest thread would have sent next (SustainedLoad, "remains dense").
THEOREM Dense == Spec => []DenseBelowSlowest
<1>1. LoadInv => DenseBelowSlowest
  <2> SUFFICES ASSUME LoadInv, phase = "accepted", NEW m \in First..Upcoming(0),
                      \A t \in Slots : m < Upcoming(t)
               PROVE  m \in topic
    BY DEF DenseBelowSlowest
  <2> DEFINE i == m - First
             t == i % Threads
             n == i \div Threads
  <2>1. First \in Nat /\ Threads \in Nat \ {0} /\ m \in Int /\ m >= First
    BY LoadAssumption
  <2>2. i \in Nat /\ m = First + i
    BY <2>1
  <2> HIDE DEF i
  <2>3. t \in Slots /\ n \in Nat /\ i = t + n * Threads
    BY <2>1, <2>2, Division DEF Slots
  <2> HIDE DEF t, n
  <2>4. sent[t] \in Nat /\ t \in Nat
    BY <2>1, <2>3 DEF LoadInv, TypeOK, Slots
  <2>5. First + (t + n * Threads) < First + (t + sent[t] * Threads)
    BY <2>2, <2>3 DEF Upcoming, Global
  <2>6. n * Threads < sent[t] * Threads
    <3>1. n * Threads \in Nat /\ sent[t] * Threads \in Nat
      BY <2>1, <2>3, <2>4
    <3> QED
      BY <2>1, <2>4, <2>5, <3>1
  <2>7. n < sent[t]
    BY <2>1, <2>3, <2>4, <2>6, Later
  <2>8. pc[t] = "done" /\ failed = {} /\ queue[t] = {}
    BY <2>3 DEF LoadInv, Joined, Flushed
  <2>9. First + Global(t, n) \in topic
    BY <2>3, <2>7, <2>8 DEF LoadInv, Handed
  <2> QED
    BY <2>2, <2>3, <2>9 DEF Global
<1>2. Spec => []LoadInv
  BY InitInv, Inductive, PTL DEF Spec
<1> QED
  BY <1>1, <1>2, PTL

-----------------------------------------------------------------------------
(* The gates, as counts of a finite table.                                 *)

\* Among the subsets of a finite set there is one with no other below it.
Least(T, C) == T \in C /\ \A U \in C : U \subseteq T => U = T

LEMMA Minimal ==
  ASSUME NEW S, IsFiniteSet(S), NEW C, C \subseteq SUBSET S, C # {}
  PROVE  \E T : Least(T, C)
<1>1. C \subseteq FiniteSubsetsOf(S)
  BY FS_FiniteSubsetsOfFinite
<1>2. PICK T \in C : \A U \in C : <<U, T>> \notin StrictSubsetOrdering(S)
  BY <1>1, FS_StrictSubsetOrderingWellFounded, WFMin
<1>3. ASSUME NEW U \in C, U \subseteq T PROVE U = T
  BY <1>2, <1>3 DEF StrictSubsetOrdering
<1>4. Least(T, C)
  BY <1>3 DEF Least
<1> QED
  BY <1>4

\* A finite, non-empty set of numbers has a smallest and a largest member.
Bounded(T) == (\E x \in T : \A y \in T : x <= y) /\ (\E x \in T : \A y \in T : x >= y)

LEMMA AddBounded ==
  ASSUME NEW T \in SUBSET Nat, NEW x \in T, T = {x} \/ Bounded(T \ {x})
  PROVE  Bounded(T)
<1>1. CASE T = {x}
  BY <1>1 DEF Bounded
<1>2. CASE Bounded(T \ {x})
  <2>1. PICK a \in T \ {x}, b \in T \ {x} : \A y \in T \ {x} : a <= y /\ b >= y
    BY <1>2 DEF Bounded
  <2>2. \A y \in T : (x <= a => x <= y) /\ (a <= x => a <= y)
    BY <2>1
  <2>3. \A y \in T : (x >= b => x >= y) /\ (b >= x => b >= y)
    BY <2>1
  <2>4. (x <= a \/ a <= x) /\ (x >= b \/ b >= x)
    OBVIOUS
  <2> QED
    BY <2>1, <2>2, <2>3, <2>4 DEF Bounded
<1> QED
  BY <1>1, <1>2

LEMMA FiniteIsBounded ==
  ASSUME NEW S \in SUBSET Nat, IsFiniteSet(S), S # {}
  PROVE  Bounded(S)
<1> DEFINE C == {T \in SUBSET S : T # {} /\ ~Bounded(T)}
<1>1. ASSUME C # {} PROVE FALSE
  <2>1. C \subseteq SUBSET S
    OBVIOUS
  <2>2. PICK T : Least(T, C)
    <3> HIDE DEF C
    <3> QED
      BY <1>1, <2>1, Minimal
  <2>3. T \in SUBSET S /\ T # {} /\ ~Bounded(T)
    BY <2>2 DEF Least
  <2>4. PICK x \in T : TRUE
    BY <2>3
  <2>5. T \ {x} \notin C
    BY <2>2, <2>4 DEF Least
  <2>6. T = {x} \/ Bounded(T \ {x})
    BY <2>3, <2>4, <2>5
  <2> QED
    BY <2>3, <2>4, <2>6, AddBounded
<1> QED
  BY <1>1

LEMMA Extremes ==
  ASSUME NEW S \in SUBSET Nat, IsFiniteSet(S), S # {}
  PROVE  /\ Min(S) \in S /\ \A y \in S : Min(S) <= y
         /\ Max(S) \in S /\ \A y \in S : Max(S) >= y
<1>1. Bounded(S)
  BY FiniteIsBounded
<1>2. Min(S) \in S /\ \A y \in S : Min(S) <= y
  BY <1>1 DEF Bounded, Min
<1>3. Max(S) \in S /\ \A y \in S : Max(S) >= y
  BY <1>1 DEF Bounded, Max
<1> QED
  BY <1>2, <1>3

\* A table of whole rows of some messages, and the range the gates look at.
Tables == {rows \in SUBSET (Nat \X Seqs) : IsFiniteSet(rows)}
Wanted(rows) == (lo(rows)..(hi(rows) - 1)) \X Seqs

LEMMA IdsTyped ==
  ASSUME NEW rows \in Tables
  PROVE  Ids(rows) \in SUBSET Nat /\ IsFiniteSet(Ids(rows)) /\ (rows # {} => Ids(rows) # {})
<1>1. \A r \in rows : r \in Nat \X Seqs
  BY DEF Tables
<1>2. Ids(rows) \in SUBSET Nat
  BY <1>1 DEF Ids
<1>3. IsFiniteSet(Ids(rows))
  <2>1. IsFiniteSet(rows)
    BY DEF Tables
  <2> DEFINE f == [r \in rows |-> r[1]]
  <2>2. f \in Surjection(rows, Ids(rows))
    BY DEF Surjection, Ids
  <2> QED
    BY <2>1, <2>2, FS_Surjection
<1> QED
  BY <1>2, <1>3 DEF Ids

\* The range starts above the first message and ends below the last.
LEMMA GatedRange ==
  ASSUME NEW rows \in Tables, ~Narrow(rows)
  PROVE  /\ lo(rows) \in Nat /\ hi(rows) \in Nat /\ min_batch(rows) \in Nat
         /\ min_batch(rows) + 1 <= lo(rows) /\ lo(rows) < hi(rows)
         /\ hi(rows) = max_batch(rows)
<1>1. rows # {}
  BY DEF Narrow, min_batch, max_batch
<1>2. Ids(rows) \in SUBSET Nat /\ IsFiniteSet(Ids(rows)) /\ Ids(rows) # {}
  BY <1>1, IdsTyped
<1>3. min_batch(rows) \in Nat /\ max_batch(rows) \in Nat
  BY <1>1, <1>2, Extremes DEF min_batch, max_batch
<1>4. max_batch(rows) > min_batch(rows) + 1
  BY <1>3 DEF Narrow
<1>5. MaxBatches \in Nat \ {0}
  BY GatesAssumption
<1> DEFINE a == min_batch(rows)
           b == max_batch(rows)
<1>6. lo(rows) = IF a + 1 > (IF b > MaxBatches THEN b - MaxBatches ELSE 0)
                   THEN a + 1 ELSE IF b > MaxBatches THEN b - MaxBatches ELSE 0
  BY DEF lo, hi
<1>7. a \in Nat /\ b \in Nat /\ b > a + 1 /\ hi(rows) = b
  BY <1>3, <1>4 DEF hi
<1> HIDE DEF a, b
<1>8. lo(rows) \in Nat /\ a + 1 <= lo(rows) /\ lo(rows) < b
  BY <1>5, <1>6, <1>7
<1> QED
  BY <1>7, <1>8 DEF a, b

LEMMA SpanSize ==
  ASSUME NEW a \in Nat, NEW b \in Nat, a < b
  PROVE  IsFiniteSet(a..(b - 1)) /\ Cardinality(a..(b - 1)) = b - a
<1>1. b - 1 \in Int /\ ~(a > b - 1) /\ (b - 1) - a + 1 = b - a
  OBVIOUS
<1> QED
  BY <1>1, FS_Interval

LEMMA WantedSize ==
  ASSUME NEW rows \in Tables, ~Narrow(rows)
  PROVE  /\ IsFiniteSet(Wanted(rows))
         /\ Cardinality(Wanted(rows)) = (hi(rows) - lo(rows)) * Cardinality(Seqs)
         /\ Gated(rows) \subseteq Wanted(rows)
<1>1. lo(rows) \in Nat /\ hi(rows) \in Nat /\ lo(rows) < hi(rows)
  BY GatedRange
<1> DEFINE ms == lo(rows)..(hi(rows) - 1)
<1>2. IsFiniteSet(ms) /\ Cardinality(ms) = hi(rows) - lo(rows)
  BY <1>1, SpanSize
<1>3. IsFiniteSet(Seqs)
  BY GatesAssumption
<1>4. IsFiniteSet(Wanted(rows)) /\ Cardinality(Wanted(rows)) = Cardinality(ms) * Cardinality(Seqs)
  BY <1>2, <1>3, FS_Product DEF Wanted
<1>5. ASSUME NEW r \in Gated(rows) PROVE r \in Wanted(rows)
  <2>1. r \in Nat \X Seqs /\ lo(rows) <= r[1] /\ r[1] < hi(rows)
    BY DEF Gated, Tables
  <2>2. r[1] \in lo(rows)..(hi(rows) - 1)
    BY <1>1, <2>1
  <2> QED
    BY <2>1, <2>2 DEF Wanted
<1> QED
  BY <1>2, <1>4, <1>5

\* Counting the distinct rows of the range is as good as looking for each of them, and a
\* count of the messages adds nothing to it.
LEMMA GateIsExact ==
  ASSUME NEW rows \in Tables, NEW twice, ~Narrow(rows)
  PROVE  passed(rows, twice) <=> Complete(rows)
<1>1. /\ IsFiniteSet(Wanted(rows)) /\ Gated(rows) \in SUBSET Wanted(rows)
      /\ Cardinality(Wanted(rows)) = (hi(rows) - lo(rows)) * Cardinality(Seqs)
  BY WantedSize
<1>2. lo(rows) \in Nat /\ hi(rows) \in Nat /\ lo(rows) < hi(rows)
  BY GatedRange
<1>3. ASSUME passed(rows, twice) PROVE Complete(rows)
  <2>1. Gated(rows) = Wanted(rows)
    BY <1>1, <1>3, FS_Subset DEF passed, rows_match
  <2> QED
    BY <2>1 DEF Complete, Wanted, Gated
<1>4. ASSUME Complete(rows) PROVE passed(rows, twice)
  <2>1. Gated(rows) = Wanted(rows)
    <3>1. ASSUME NEW r \in Wanted(rows) PROVE r \in Gated(rows)
      <4>1. r[1] \in lo(rows)..(hi(rows) - 1) /\ r[2] \in Seqs /\ r = <<r[1], r[2]>>
        BY DEF Wanted
      <4>2. r \in rows
        BY <1>4, <4>1 DEF Complete
      <4>3. lo(rows) <= r[1] /\ r[1] < hi(rows)
        BY <1>2, <4>1
      <4> QED
        BY <4>2, <4>3 DEF Gated
    <3> QED
      BY <1>1, <3>1
  <2>2. Ids(Gated(rows)) = lo(rows)..(hi(rows) - 1)
    <3>1. PICK s \in Seqs : TRUE
      BY GatesAssumption
    <3>2. ASSUME NEW m \in lo(rows)..(hi(rows) - 1) PROVE m \in Ids(Wanted(rows))
      <4>1. <<m, s>> \in Wanted(rows)
        BY DEF Wanted
      <4> QED
        BY <4>1 DEF Ids
    <3>3. ASSUME NEW m \in Ids(Wanted(rows)) PROVE m \in lo(rows)..(hi(rows) - 1)
      BY DEF Ids, Wanted
    <3> QED
      BY <2>1, <3>2, <3>3
  <2>3. contiguous(rows)
    BY <1>2, <2>2, SpanSize DEF contiguous
  <2> QED
    BY <1>1, <2>1, <2>3 DEF passed, rows_match
<1> QED
  BY <1>3, <1>4

LEMMA InteriorIsWhole ==
  ASSUME NEW rows \in Tables, ~Narrow(rows), Interior(rows) \subseteq rows
  PROVE  Complete(rows)
<1>1. /\ lo(rows) \in Nat /\ hi(rows) \in Nat /\ min_batch(rows) \in Nat
      /\ min_batch(rows) + 1 <= lo(rows) /\ hi(rows) = max_batch(rows)
  BY GatedRange
<1>2. ASSUME NEW m \in lo(rows)..(hi(rows) - 1), NEW s \in Seqs PROVE <<m, s>> \in rows
  <2>1. m \in (min_batch(rows) + 1)..(max_batch(rows) - 1)
    BY <1>1
  <2> QED
    BY <2>1 DEF Interior
<1> QED
  BY <1>2 DEF Complete

-----------------------------------------------------------------------------
\* The verdict stays that of the table the gates looked at: a finite part of the log's
\* rows, so that the counts are counts.
Verdict ==
  /\ topic \in SUBSET Nat /\ IsFiniteSet(topic)
  /\ gate \in {"passed", "failed"} =>
       /\ table \in Tables /\ ~Narrow(table)
       /\ gate = "passed" <=> passed(table, again)

LEMMA LogStep ==
  ASSUME LoadInv, Verdict, NEW u \in Slots, Delivered(u) \/ Failed(u) PROVE Verdict'
<1>1. queue[u] \subseteq Nat
  BY DEF LoadInv, TypeOK
<1>2. PICK m \in queue[u] : topic' \in {topic, topic \union {m}}
  BY DEF Delivered, Failed
<1>3. UNCHANGED arm
  BY DEF Delivered, Failed
<1>4. IsFiniteSet(topic \union {m})
  BY FS_AddElement DEF Verdict
<1>5. topic' \in SUBSET Nat /\ IsFiniteSet(topic')
  BY <1>1, <1>2, <1>4 DEF Verdict
<1> QED
  BY <1>3, <1>5 DEF Verdict, arm

LEMMA GatesStep ==
  ASSUME Verdict, RunGates PROVE Verdict'
<1> DEFINE rows == topic \X Seqs
<1>1. topic' = topic
  BY DEF RunGates, broker
<1>2. PICK missing : table' = rows \ missing
  BY DEF RunGates
<1>3. gate' = IF Narrow(table') THEN "narrow"
              ELSE IF passed(table', again') THEN "passed" ELSE "failed"
  BY DEF RunGates
<1>4. IsFiniteSet(rows)
  BY GatesAssumption, FS_Product DEF Verdict
<1>5. IsFiniteSet(rows \ missing)
  BY <1>4, FS_Difference
<1>6. rows \ missing \in SUBSET (Nat \X Seqs)
  BY DEF Verdict
<1>7. table' \in Tables
  BY <1>2, <1>5, <1>6 DEF Tables
<1> HIDE DEF rows
<1>8. gate' \in {"passed", "failed"} =>
        ~Narrow(table') /\ (gate' = "passed" <=> passed(table', again'))
  BY <1>3
<1> QED
  BY <1>1, <1>7, <1>8 DEF Verdict

LEMMA VerdictKept == LoadInv /\ Verdict /\ [Next]_vars => Verdict'
<1> SUFFICES ASSUME LoadInv, Verdict, [Next]_vars PROVE Verdict'
  OBVIOUS
<1>1. ASSUME UNCHANGED <<topic, arm>> PROVE Verdict'
  BY <1>1 DEF Verdict, arm
<1>2. ASSUME NEW u \in Slots, Thread(u) \/ PanicThread(u) PROVE UNCHANGED <<topic, arm>>
  BY <1>2 DEF Thread, CheckStop, Send, Flush, PanicThread, broker
<1>3. Tick \/ Stop \/ Drop \/ Join \/ Report => UNCHANGED <<topic, arm>>
  BY DEF Tick, Stop, Drop, Join, Report, broker
<1>4. UNCHANGED vars => UNCHANGED <<topic, arm>>
  BY DEF vars, broker
<1> QED
  BY <1>1, <1>2, <1>3, <1>4, LogStep, GatesStep DEF Next

LEMMA VerdictHolds == Spec => []Verdict
<1>1. Init => Verdict
  BY FS_EmptySet DEF Init, Verdict
<1>2. Spec => []LoadInv
  BY InitInv, Inductive, PTL DEF Spec
<1> QED
  BY <1>1, <1>2, VerdictKept, PTL DEF Spec

\* Whatever rows the table lacks and however many others it holds twice: the gates that
\* pass it have found it whole (run_gates, "a duplicate cannot mask a loss").
THEOREM LossCaught == Spec => []LossIsCaught
<1>1. Verdict => LossIsCaught
  BY GateIsExact DEF Verdict, LossIsCaught
<1> QED
  BY <1>1, VerdictHolds, PTL

\* What they fail lacks a row strictly between its first and its last message: neither
\* duplicates nor the half-landed messages at the ends are held against an arm.
THEOREM OnlyLoss == Spec => []OnlyLossFails
<1>1. Verdict => OnlyLossFails
  BY GateIsExact, InteriorIsWhole DEF Verdict, OnlyLossFails
<1> QED
  BY <1>1, VerdictHolds, PTL

-----------------------------------------------------------------------------
(* What keeps stop() and the drop from waiting for ever.                   *)

\* A producer's queue stays within its limit.
Queued == \A t \in Slots : IsFiniteSet(queue[t]) /\ Cardinality(queue[t]) \in 0..QueueMax

\* What a thread has left, by where it is.
LeftByPlace ==
  \A t \in Slots :
    /\ pc[t] = "send" => ThreadLeft(t) = Cardinality(queue[t]) + 4
    /\ pc[t] = "check" => ThreadLeft(t) = Cardinality(queue[t]) + 2
    /\ pc[t] = "flush" => ThreadLeft(t) = Cardinality(queue[t]) + 1
    /\ pc[t] \in {"done", "dead"} => ThreadLeft(t) = Cardinality(queue[t]) + 0

LEMMA LeftAt == LeftByPlace
  BY DEF LeftByPlace, ThreadLeft

\* One step of thread u, as what it does to u's place and to u's queue.
Moves(u, from, to) == pc[u] = from /\ pc' = [pc EXCEPT ![u] = to]
QueueOf(u, Q) == queue' = [queue EXCEPT ![u] = Q]

ThreadMoves(u) ==
  \/ Moves(u, "check", IF stop THEN "flush" ELSE "send") /\ queue' = queue
  \/ /\ Moves(u, "send", "check")
     /\ \/ queue' = queue
        \/ Cardinality(queue[u]) < QueueMax /\ QueueOf(u, queue[u] \union {Upcoming(u)})
  \/ Moves(u, "flush", "done") /\ queue' = queue
  \/ \E from \in {"send", "flush"} : Moves(u, from, "dead") /\ QueueOf(u, {})
  \/ pc' = pc /\ \E m \in queue[u] : QueueOf(u, queue[u] \ {m})

\* Every step is one thread's, or leaves all of them as they are.
LEMMA StepMoves ==
  ASSUME [Next]_vars
  PROVE  (pc' = pc /\ queue' = queue) \/ \E u \in Slots : ThreadMoves(u)
<1> USE DEF ThreadMoves, Moves, QueueOf, Goto
<1>1. ASSUME NEW u \in Slots, CheckStop(u) PROVE ThreadMoves(u)
  BY <1>1 DEF CheckStop
<1>2. ASSUME NEW u \in Slots, Send(u) PROVE ThreadMoves(u)
  BY <1>2 DEF Send
<1>3. ASSUME NEW u \in Slots, Flush(u) PROVE ThreadMoves(u)
  BY <1>3 DEF Flush
<1>4. ASSUME NEW u \in Slots, PanicThread(u) PROVE ThreadMoves(u)
  BY <1>4 DEF PanicThread
<1>5. ASSUME NEW u \in Slots, Delivered(u) PROVE ThreadMoves(u)
  BY <1>5 DEF Delivered
<1>6. ASSUME NEW u \in Slots, Failed(u) PROVE ThreadMoves(u)
  BY <1>6 DEF Failed
<1>7. ASSUME Tick \/ Stop \/ Drop \/ Join \/ Report \/ RunGates PROVE pc' = pc /\ queue' = queue
  BY <1>7 DEF Tick, Stop, Drop, Join, Report, RunGates, threads
<1>8. ASSUME UNCHANGED vars PROVE pc' = pc /\ queue' = queue
  BY <1>8 DEF vars, threads
<1> QED
  BY <1>1, <1>2, <1>3, <1>4, <1>5, <1>6, <1>7, <1>8 DEF Next, Thread

\* What a change of the queue does to its size.
LEMMA Grown ==
  ASSUME NEW Q, IsFiniteSet(Q), NEW m
  PROVE  /\ IsFiniteSet(Q \union {m})
         /\ Cardinality(Q \union {m}) \in {Cardinality(Q), Cardinality(Q) + 1}
BY FS_AddElement

LEMMA Shrunk ==
  ASSUME NEW Q, IsFiniteSet(Q), NEW m \in Q
  PROVE  IsFiniteSet(Q \ {m}) /\ Cardinality(Q \ {m}) = Cardinality(Q) - 1
BY FS_RemoveElement

\* A queue after a step: the one before, emptied, one shorter, or one longer where it
\* had room.
SizeAfter(u) ==
  LET before == Cardinality(queue[u])
      after == Cardinality(queue'[u])
  IN  \/ after = before \/ after = 0 \/ after = before - 1
      \/ before < QueueMax /\ after = before + 1

LEMMA QueueAfter ==
  ASSUME TypeOK, Queued, NEW u \in Slots, ThreadMoves(u)
  PROVE  IsFiniteSet(queue'[u]) /\ SizeAfter(u)
<1>1. IsFiniteSet(queue[u]) /\ queue \in [Slots -> SUBSET Nat]
  BY DEF Queued, TypeOK
<1>2. CASE queue' = queue
  BY <1>1, <1>2 DEF SizeAfter
<1>3. CASE QueueOf(u, {})
  <2>1. queue'[u] = {}
    BY <1>1, <1>3 DEF QueueOf
  <2> QED
    BY <2>1, FS_EmptySet DEF SizeAfter
<1>4. CASE \E m \in queue[u] : QueueOf(u, queue[u] \ {m})
  <2>1. PICK m \in queue[u] : queue'[u] = queue[u] \ {m}
    BY <1>1, <1>4 DEF QueueOf
  <2> QED
    BY <1>1, <2>1, Shrunk DEF SizeAfter
<1>5. CASE Cardinality(queue[u]) < QueueMax /\ QueueOf(u, queue[u] \union {Upcoming(u)})
  <2>1. queue'[u] = queue[u] \union {Upcoming(u)}
    BY <1>1, <1>5 DEF QueueOf
  <2>2. /\ IsFiniteSet(queue[u] \union {Upcoming(u)})
        /\ Cardinality(queue[u] \union {Upcoming(u)}) \in {Cardinality(queue[u]), Cardinality(queue[u]) + 1}
    BY <1>1, Grown
  <2> QED
    BY <1>5, <2>1, <2>2 DEF SizeAfter
<1> QED
  BY <1>2, <1>3, <1>4, <1>5 DEF ThreadMoves

\* The other threads stay as they are.
LEMMA OthersStay ==
  ASSUME TypeOK, NEW u \in Slots, ThreadMoves(u), NEW t \in Slots, t # u
  PROVE  pc'[t] = pc[t] /\ queue'[t] = queue[t]
BY DEF ThreadMoves, Moves, QueueOf, TypeOK

LEMMA BoundedInit == Init => Queued
<1> SUFFICES ASSUME Init PROVE Queued
  OBVIOUS
<1>1. \A t \in Slots : queue[t] = {}
  BY DEF Init
<1>2. 0 \in 0..QueueMax
  BY LoadAssumption
<1> QED
  BY <1>1, <1>2, FS_EmptySet DEF Queued

LEMMA BoundedStep == TypeOK /\ Queued /\ [Next]_vars => Queued'
<1> SUFFICES ASSUME TypeOK, Queued, [Next]_vars, NEW t \in Slots
             PROVE  IsFiniteSet(queue'[t]) /\ Cardinality(queue'[t]) \in 0..QueueMax
  BY DEF Queued
<1>1. CASE pc' = pc /\ queue' = queue
  BY <1>1 DEF Queued
<1>2. ASSUME NEW u \in Slots, ThreadMoves(u)
      PROVE  IsFiniteSet(queue'[t]) /\ Cardinality(queue'[t]) \in 0..QueueMax
  <2>1. CASE t = u
    <3>1. IsFiniteSet(queue'[t]) /\ SizeAfter(t)
      BY <1>2, <2>1, QueueAfter
    <3>2. QueueMax \in Nat /\ Cardinality(queue[t]) \in 0..QueueMax /\ Cardinality(queue'[t]) \in Nat
      BY <3>1, LoadAssumption, FS_CardinalityType DEF Queued
    <3>3. PICK b \in 0..QueueMax, a \in Nat : b = Cardinality(queue[t]) /\ a = Cardinality(queue'[t])
      BY <3>2
    <3>4. a = b \/ a = 0 \/ a = b - 1 \/ (b < QueueMax /\ a = b + 1)
      BY <3>1, <3>3 DEF SizeAfter
    <3>5. a \in 0..QueueMax
      BY <3>2, <3>4
    <3> QED
      BY <3>1, <3>3, <3>5
  <2>2. CASE t # u
    BY <1>2, <2>2, OthersStay DEF Queued
  <2> QED
    BY <2>1, <2>2
<1> QED
  BY <1>1, <1>2, StepMoves

\* With the flag up a step of a thread leaves it less.
LEMMA LessLeft ==
  ASSUME TypeOK, Queued, Queued', LeftByPlace, LeftByPlace', stop,
         NEW u \in Slots, ThreadMoves(u), <<pc[u], queue[u]>>' # <<pc[u], queue[u]>>
  PROVE  ThreadLeft(u)' < ThreadLeft(u)
<1>1. PICK b \in Nat, a \in Nat : b = Cardinality(queue[u]) /\ a = Cardinality(queue'[u])
  BY FS_CardinalityType DEF Queued
<1>2. pc \in [Slots -> {"check", "send", "flush", "done", "dead"}] /\ queue \in [Slots -> SUBSET Nat]
  BY DEF TypeOK
<1>3. CASE Moves(u, "check", "flush") /\ queue' = queue
  <2>1. ThreadLeft(u) = b + 2 /\ ThreadLeft(u)' = b + 1
    BY <1>1, <1>2, <1>3 DEF Moves, LeftByPlace
  <2> QED
    BY <2>1
<1>4. CASE Moves(u, "send", "check")
  <2>1. a \in {b, b + 1}
    <3>1. CASE queue' = queue
      BY <1>1, <3>1
    <3>2. CASE QueueOf(u, queue[u] \union {Upcoming(u)})
      BY <1>1, <1>2, <3>2, Grown DEF QueueOf, Queued
    <3> QED
      BY <1>2, <1>4, <3>1, <3>2 DEF ThreadMoves, Moves
  <2>2. ThreadLeft(u) = b + 4 /\ ThreadLeft(u)' = a + 2
    BY <1>1, <1>2, <1>4 DEF Moves, LeftByPlace
  <2>3. a + 2 < b + 4
    BY <2>1
  <2> QED
    BY <2>2, <2>3
<1>5. CASE Moves(u, "flush", "done") /\ queue' = queue
  <2>1. ThreadLeft(u) = b + 1 /\ ThreadLeft(u)' = b + 0
    BY <1>1, <1>2, <1>5 DEF Moves, LeftByPlace
  <2> QED
    BY <2>1
<1>6. ASSUME NEW from \in {"send", "flush"}, Moves(u, from, "dead"), QueueOf(u, {})
      PROVE  ThreadLeft(u)' < ThreadLeft(u)
  <2>1. a = 0
    BY <1>1, <1>2, <1>6, FS_EmptySet DEF QueueOf
  <2>2. ThreadLeft(u)' = a + 0
    BY <1>1, <1>2, <1>6 DEF Moves, LeftByPlace
  <2>3. ThreadLeft(u) \in {b + 4, b + 1}
    BY <1>1, <1>6 DEF Moves, LeftByPlace
  <2>4. 0 < b + 4 /\ 0 < b + 1
    OBVIOUS
  <2> QED
    BY <2>1, <2>2, <2>3, <2>4
<1>7. ASSUME pc' = pc, NEW m \in queue[u], QueueOf(u, queue[u] \ {m})
      PROVE  ThreadLeft(u)' < ThreadLeft(u)
  <2>1. a = b - 1
    BY <1>1, <1>2, <1>7, Shrunk DEF QueueOf, Queued
  <2>2. PICK k \in Nat : ThreadLeft(u) = b + k /\ ThreadLeft(u)' = a + k
    BY <1>1, <1>2, <1>7 DEF LeftByPlace
  <2>3. a + k < b + k
    BY <2>1
  <2> QED
    BY <2>2, <2>3
<1> QED
  BY <1>3, <1>4, <1>5, <1>6, <1>7 DEF ThreadMoves

\* What is left is a number, and has its bound.
LEMMA LeftIsBounded ==
  ASSUME TypeOK, Queued, LeftByPlace, NEW t \in Slots
  PROVE  ThreadLeft(t) \in 0..(QueueMax + 4)
<1>1. PICK b \in 0..QueueMax : b = Cardinality(queue[t])
  BY DEF Queued
<1>2. pc[t] \in {"check", "send", "flush", "done", "dead"}
  BY DEF TypeOK
<1>3. PICK k \in 0..4 : ThreadLeft(t) = b + k
  BY <1>1, <1>2 DEF LeftByPlace
<1>4. b + k \in 0..(QueueMax + 4)
  BY LoadAssumption
<1> QED
  BY <1>3, <1>4

\* Once the flag is up no thread can keep stop() or the drop waiting for ever: each of
\* its steps, each report of the broker and each panic leaves it less, from a number
\* that the limit of its queue bounds (SustainedLoad, the loop on `stop_thread`).
THEOREM WindsDown == Spec => StopWindsDown
<1> DEFINE Capped == \A t \in Slots : ThreadLeft(t) \in 0..(QueueMax + 4)
           Down == stop => \A t \in Slots : <<pc[t], queue[t]>>' # <<pc[t], queue[t]>> =>
                     ThreadLeft(t)' < ThreadLeft(t)
<1>1. LoadInv => TypeOK
  BY DEF LoadInv
<1>2. TypeOK /\ Queued /\ LeftByPlace => Capped
  BY LeftIsBounded
<1>3. TypeOK /\ Queued /\ Queued' /\ LeftByPlace /\ LeftByPlace' /\ [Next]_vars => Down
  <2> SUFFICES ASSUME TypeOK, Queued, Queued', LeftByPlace, LeftByPlace', [Next]_vars, stop,
                      NEW t \in Slots, <<pc[t], queue[t]>>' # <<pc[t], queue[t]>>
               PROVE  ThreadLeft(t)' < ThreadLeft(t)
    OBVIOUS
  <2>1. PICK u \in Slots : ThreadMoves(u)
    BY StepMoves
  <2>2. t = u
    BY <2>1, OthersStay
  <2> QED
    BY <2>1, <2>2, LessLeft
<1> HIDE DEF Capped, Down
<1>4. Spec => []LoadInv
  BY InitInv, Inductive, PTL DEF Spec
<1>5. Spec => []Queued
  BY <1>1, <1>4, BoundedInit, BoundedStep, PTL DEF Spec
<1>6. Spec => []Capped /\ [][Down]_vars
  BY <1>1, <1>2, <1>3, <1>4, <1>5, LeftAt, PTL DEF Spec
<1> QED
  BY <1>6, PTL DEF StopWindsDown, Capped, Down

=============================================================================
