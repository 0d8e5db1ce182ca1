------------------------------ MODULE ArmMutex ------------------------------
(***************************************************************************)
(* What the cross-arm lock of src/harness/src/sampler.rs promises: one     *)
(* process at a time measures arms against the shared Redpanda and         *)
(* ClickHouse, until the lock of a live holder is given up: forced by an   *)
(* operator (FORCE_UNLOCK=1), taken from a holder that a probe called      *)
(* dead, or removed by a reclaim that had read another file. Nothing is    *)
(* promised after that.                                                    *)
(***************************************************************************)
CONSTANT Procs

VARIABLES
  holders,     \* the processes that have the right to run an arm
  overridden   \* whether the lock of a live holder has been given up

vars == <<holders, overridden>>

Init ==
  /\ holders = {}
  /\ overridden = FALSE

Take(p) ==
  /\ p \notin holders
  /\ ~overridden => holders = {}
  /\ holders' = holders \union {p}
  /\ UNCHANGED overridden

\* A holder leaves by dropping the lock or by dying.
Leave(p) ==
  /\ p \in holders
  /\ holders' = holders \ {p}
  /\ UNCHANGED overridden

Override ==
  /\ overridden' = TRUE
  /\ UNCHANGED holders

Next ==
  \/ \E p \in Procs : Take(p) \/ Leave(p)
  \/ Override

Spec == Init /\ [][Next]_vars
=============================================================================
