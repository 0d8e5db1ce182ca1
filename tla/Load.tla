--------------------------------- MODULE Load ---------------------------------
(***************************************************************************)
(* The sustained load generator (SustainedLoad of src/harness/src/         *)
(* corpus.rs), the way the driver stops or drops it, and the correctness   *)
(* gates (run_gates) on the table of the arm that was offered the load.    *)
(*                                                                         *)
(* Thread `slot` of `Threads` sends the global indices slot, slot+Threads, *)
(* slot+2*Threads, ... each when it is due. A message is in its thread's   *)
(* producer queue until the broker acknowledges or refuses it. The arm     *)
(* under test is external: its table is any part of the topic's rows, some *)
(* of them twice.                                                          *)
(***************************************************************************)
EXTENDS Gates

CONSTANTS
  Threads,    \* producer threads
  First,      \* first_batch_id
  Unit, Rate, \* ticks in a second, messages in a second
  QueueMax,   \* messages a producer's queue holds
  Horizon,    \* bound: ticks in a repetition
  MaxFaults,  \* bound: failed deliveries and panics
  MaxMissing, \* bound: rows of the topic that are not in the table
  MaxAgain    \* bound: rows that are in the table twice

ASSUME LoadAssumption ==
  /\ Threads \in Nat \ {0} /\ First \in Nat
  /\ Unit \in Nat \ {0} /\ Rate \in Nat \ {0} /\ QueueMax \in Nat \ {0}
  /\ Horizon \in Nat /\ MaxFaults \in Nat /\ MaxMissing \in Nat /\ MaxAgain \in Nat

VARIABLES
  clock,     \* ticks since the shared origin
  stop,      \* the AtomicBool
  pc, sent, elapsed,  \* of each thread
  queue,     \* of each thread: messages enqueued and not yet reported on
  topic,     \* messages in the log
  failed,    \* messages whose delivery failed
  phase,     \* of the driver: holding the window, then stop() or drop
  joined,    \* threads joined so far, in the order of their slots
  faults,
  table, again, gate  \* rows in the table, those in it twice, the verdict

threads == <<pc, sent, elapsed, queue>>
broker == <<topic, failed, faults>>
arm == <<table, again, gate>>
vars == <<clock, stop, threads, broker, phase, joined, arm>>

Slots == 0..(Threads - 1)
Ended == {"accepted", "refused", "panicked"}

\* The index of the n-th message of thread t.
Global(t, n) == t + n * Threads

\* sustained_due_us
Due(n) == (n * Unit) \div Rate

Upcoming(t) == First + Global(t, sent[t])

Init ==
  /\ clock = 0 /\ stop = FALSE
  /\ pc = [t \in Slots |-> "check"]
  /\ sent = [t \in Slots |-> 0] /\ elapsed = [t \in Slots |-> 0]
  /\ queue = [t \in Slots |-> {}]
  /\ topic = {} /\ failed = {} /\ faults = 0
  /\ phase = "window" /\ joined = 0
  /\ table = {} /\ again = {} /\ gate = "none"

Tick ==
  /\ clock < Horizon
  /\ clock' = clock + 1
  /\ UNCHANGED <<stop, threads, broker, phase, joined, arm>>

-----------------------------------------------------------------------------
\* A producer thread.

Goto(t, at) == pc' = [pc EXCEPT ![t] = at]

\* Mutant: the flag is looked at only by a thread that has nothing in flight.
CheckWhenIdle(t) ==
  /\ pc[t] = "check"
  /\ Goto(t, IF stop /\ queue[t] = {} THEN "flush" ELSE "send")
  /\ elapsed' = IF stop THEN [elapsed EXCEPT ![t] = clock] ELSE elapsed
  /\ UNCHANGED <<clock, stop, sent, queue, broker, phase, joined, arm>>

\* `while !stop_thread.load(..)`: elapsed_s is read when the loop ends, before
\* the flush.
CheckStop(t) ==
  /\ pc[t] = "check"
  /\ Goto(t, IF stop THEN "flush" ELSE "send")
  /\ elapsed' = IF stop THEN [elapsed EXCEPT ![t] = clock] ELSE elapsed
  /\ UNCHANGED <<clock, stop, sent, queue, broker, phase, joined, arm>>

\* Mutant: a message the full queue did not take is counted as sent.
SendDropsFull(t) ==
  /\ pc[t] = "send"
  /\ Goto(t, "check")
  /\ IF clock >= Due(Global(t, sent[t]))
       THEN /\ queue' = IF Cardinality(queue[t]) < QueueMax
                          THEN [queue EXCEPT ![t] = @ \union {Upcoming(t)}] ELSE queue
            /\ sent' = [sent EXCEPT ![t] = @ + 1]
       ELSE UNCHANGED <<queue, sent>>
  /\ UNCHANGED <<clock, stop, elapsed, broker, phase, joined, arm>>

\* One pass of the loop: wait when ahead of schedule, enqueue, or find the
\* queue full and come back to the same message.
Send(t) ==
  /\ pc[t] = "send"
  /\ Goto(t, "check")
  /\ IF clock >= Due(Global(t, sent[t])) /\ Cardinality(queue[t]) < QueueMax
       THEN /\ queue' = [queue EXCEPT ![t] = @ \union {Upcoming(t)}]
            /\ sent' = [sent EXCEPT ![t] = @ + 1]
       ELSE UNCHANGED <<queue, sent>>
  /\ UNCHANGED <<clock, stop, elapsed, broker, phase, joined, arm>>

\* producer.flush: returns when every message has been reported on.
Flush(t) ==
  /\ pc[t] = "flush" /\ queue[t] = {}
  /\ Goto(t, "done")
  /\ UNCHANGED <<clock, stop, sent, elapsed, queue, broker, phase, joined, arm>>

\* A send that fails otherwise, or a flush that takes longer than its minute.
\* What the producer still holds goes with it.
PanicThread(t) ==
  /\ \/ pc[t] = "send" /\ clock >= Due(Global(t, sent[t]))
     \/ pc[t] = "flush" /\ queue[t] # {}
  /\ faults < MaxFaults /\ faults' = faults + 1
  /\ Goto(t, "dead")
  /\ queue' = [queue EXCEPT ![t] = {}]
  /\ UNCHANGED <<clock, stop, sent, elapsed, topic, failed, phase, joined, arm>>

\* DeliveryCounter::delivery. Idempotence: at most once in the log.
Delivered(t) ==
  \E m \in queue[t] :
    /\ queue' = [queue EXCEPT ![t] = @ \ {m}]
    /\ topic' = topic \union {m}
    /\ UNCHANGED <<clock, stop, pc, sent, elapsed, failed, faults, phase, joined, arm>>

\* A failed delivery may be in the log all the same: the acknowledgement can
\* be what was lost.
Failed(t) ==
  /\ faults < MaxFaults /\ faults' = faults + 1
  /\ \E m \in queue[t] :
       /\ queue' = [queue EXCEPT ![t] = @ \ {m}]
       /\ failed' = failed \union {m}
       /\ topic' \in {topic, topic \union {m}}
  /\ UNCHANGED <<clock, stop, pc, sent, elapsed, phase, joined, arm>>

Thread(t) == CheckStop(t) \/ Send(t) \/ Flush(t)

-----------------------------------------------------------------------------
\* The driver.

\* Mutant: the flag is never raised.
StopForgotten ==
  /\ phase = "window"
  /\ phase' = "stopping"
  /\ UNCHANGED <<clock, stop, threads, broker, joined, arm>>

\* load.stop() at the end of the window.
Stop ==
  /\ phase = "window"
  /\ stop' = TRUE /\ phase' = "stopping"
  /\ UNCHANGED <<clock, threads, broker, joined, arm>>

\* Drop for SustainedLoad: the hold gave the repetition up.
Drop ==
  /\ phase = "window"
  /\ stop' = TRUE /\ phase' = "dropping"
  /\ UNCHANGED <<clock, threads, broker, joined, arm>>

\* stop() unwraps what each join returns; the handles after the one that
\* panicked are detached. Drop ignores it.
Join ==
  /\ phase \in {"stopping", "dropping"} /\ joined < Threads
  /\ \/ pc[joined] = "done" /\ joined' = joined + 1 /\ UNCHANGED phase
     \/ pc[joined] = "dead" /\ phase = "dropping" /\ joined' = joined + 1 /\ UNCHANGED phase
     \/ pc[joined] = "dead" /\ phase = "stopping" /\ phase' = "panicked" /\ UNCHANGED joined
  /\ UNCHANGED <<clock, stop, threads, broker, arm>>

\* achieved_share >= OFFERED_RATE_MIN_SHARE, over the slowest thread's time.
OnSchedule ==
  LET total == MapThenSumSet(LAMBDA t : sent[t], Slots)
      seconds == Max({elapsed[t] : t \in Slots})
  IN 100 * total * Unit >= 99 * Rate * seconds

\* The report: hold_sustained_window refuses undelivered messages and an
\* offered rate that fell short.
Report ==
  /\ phase \in {"stopping", "dropping"} /\ joined = Threads
  /\ phase' = IF phase = "stopping" /\ failed = {} /\ OnSchedule
                THEN "accepted" ELSE "refused"
  /\ UNCHANGED <<clock, stop, threads, broker, joined, arm>>

-----------------------------------------------------------------------------
\* The arm's table, whatever the arm did, and the gates' verdict on it.
RunGates ==
  /\ phase = "accepted" /\ gate = "none"
  /\ LET rows == topic \X Seqs IN
       \E k \in 0..MaxMissing, j \in 0..MaxAgain :
         \E missing \in kSubset(k, rows) :
           /\ table' = rows \ missing
           /\ again' \in kSubset(j, table')
  /\ gate' = IF Narrow(table') THEN "narrow"
             ELSE IF passed(table', again') THEN "passed" ELSE "failed"
  /\ UNCHANGED <<clock, stop, threads, broker, phase, joined>>

Next ==
  \/ Tick
  \/ \E t \in Slots : Thread(t) \/ PanicThread(t) \/ Delivered(t) \/ Failed(t)
  \/ Stop \/ Drop \/ Join \/ Report
  \/ RunGates

\* Each thread is scheduled, the client reports on every message it took, and
\* the driver goes on joining. The broker need not accept a message, and the
\* window need not end.
Fairness ==
  /\ \A t \in Slots : WF_vars(Thread(t)) /\ WF_vars(Delivered(t) \/ Failed(t))
  /\ WF_vars(Join) /\ WF_vars(Report)

Spec == Init /\ [][Next]_vars /\ Fairness

-----------------------------------------------------------------------------
\* Holes are left only above the message that the slowest thread would have
\* sent next: the stride is exact as far as every thread has gone.
DenseBelowSlowest ==
  phase = "accepted" =>
    \A m \in First..Upcoming(0) : (\A t \in Slots : m < Upcoming(t)) => m \in topic

\* A gate passes only what is whole: counting identities is as good as looking
\* for every row, and rows that are there twice hide nothing.
LossIsCaught == gate = "passed" => Complete(table)

\* A gate fails only for a row strictly inside the range that the table lacks:
\* neither duplicates nor half-landed first and last messages fail it.
OnlyLossFails == gate = "failed" => ~(Interior(table) \subseteq table)

\* "batch_id therefore remains dense across the whole generator, which the
\* correctness gate's contiguity test depends on": an arm that lands every row
\* it was offered is never told that it lost some.
WholeArmIsSpared == gate = "failed" => table # topic \X Seqs

\* What a thread has left to do once the flag is up: one more send at the most, a
\* report for each message of its queue, its flush.
ThreadLeft(t) ==
  Cardinality(queue[t]) + (CASE pc[t] = "send" -> 4 [] pc[t] = "check" -> 2
                             [] pc[t] = "flush" -> 1 [] OTHER -> 0)

\* What keeps stop() and the drop from waiting for ever: the queue has its limit, and
\* once the flag is up nothing a thread does, the broker answers or a panic ends adds
\* to what is left of it, whichever thread has filled its queue and is coming back to
\* the same message.
StopWindsDown ==
  /\ [](\A t \in Slots : ThreadLeft(t) \in 0..(QueueMax + 4))
  /\ [][stop => \A t \in Slots : <<pc[t], queue[t]>>' # <<pc[t], queue[t]>> =>
          ThreadLeft(t)' < ThreadLeft(t)]_vars

\* stop() and the drop return, or panic: every thread winds down, and none keeps them
\* waiting.
LoadEnds == StopWindsDown /\ (phase \in {"stopping", "dropping"} ~> phase \in Ended)
=============================================================================
