------------------------------- MODULE MCRig --------------------------------
(***************************************************************************)
(* The rig with what none of its processes keeps: when a worker's own      *)
(* clock was started, as seconds since the first one's was.                *)
(***************************************************************************)
EXTENDS Rig

VARIABLE behind   \* seconds of the window already gone when a worker began

spanVars == <<rigVars, behind>>

SpanInit == RigInit /\ behind = [w \in Workers |-> 0]

\* A worker begins after everything the others have already been timed for.
Gone == {0} \union {behind[v] + clock[v] : v \in {u \in Workers : at[u] \notin {"early", "ready"}}}

SpanNext ==
  /\ RigNext
  /\ behind' = [w \in Workers |->
       CASE prog = "run" /\ prog' = "barrier" -> 0
         [] at[w] = "ready" /\ at'[w] = "work" -> CHOOSE t \in Gone : \A s \in Gone : s <= t
         [] OTHER -> behind[w]]

\* Fairness is RigSpec's.
SpanSpec ==
  /\ SpanInit /\ [][SpanNext]_spanVars
  /\ WF_rigVars(Program) /\ WF_rigVars(Read \/ ReadEof) /\ WF_rigVars(WorkerStep)

\* The seconds a figure is divided by are those its messages took: no worker was still
\* counting later than that after the first one began. "dividing by a shorter denominator
\* than the aggregate actually took would overstate the ceiling" (fetcher.rs 753-754).
LongestCoversAll ==
  line # <<>> /\ line[1] = "OK" /\ line[2] > 0 =>
    \A w \in Workers : behind[w] + clock[w] <= line[3]
=============================================================================
