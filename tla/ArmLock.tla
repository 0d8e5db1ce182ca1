------------------------------ MODULE ArmLock -------------------------------
(***************************************************************************)
(* The cross-arm advisory lock (ArmLock in src/harness/src/sampler.rs):    *)
(* the steps of `acquire` and `drop`, one file-system call or one probe    *)
(* each, run by processes that may be killed at any step and whose calls   *)
(* may fail.                                                               *)
(*                                                                         *)
(* A process is its pid, so a second launch of a process is a reused pid.  *)
(* The lock file is an inode: the process that created it and whether that *)
(* process has written its pid into it yet.                                *)
(***************************************************************************)
EXTENDS Naturals

CONSTANTS
  Procs,       \* pids
  Forcers,     \* those whose environment has FORCE_UNLOCK=1
  Guests,      \* those of a second user, whom the first one may not signal
  Sticky,      \* whether the directory of LOCK_PATH lets only a file's owner remove it
  Overlap,     \* whether two processes may be inside `acquire` at once
  MaxCrashes,  \* bound: how many processes are killed in a behaviour
  MaxFaults,   \* bound: how many calls fail for want of a resource
  NoFile, NoPid

ASSUME LockAssumption ==
  /\ Forcers \subseteq Procs /\ Guests \subseteq Procs
  /\ Overlap \in BOOLEAN /\ Sticky \in BOOLEAN
  /\ MaxCrashes \in Nat /\ MaxFaults \in Nat
  /\ NoFile \notin [pid : Procs, written : BOOLEAN]
  /\ NoPid \notin Procs

VARIABLES
  file,        \* the file at LOCK_PATH
  pc,          \* where each process is
  seen,        \* the pid each process parsed out of the file it read
  crashes,     \* processes killed so far
  faults,      \* calls that have failed so far
  behind,      \* history: those for whom LOCK_PATH is no longer the file they read
  amiss        \* history: why the lock of a live owner was given up

vars == <<file, pc, seen, crashes, faults, behind, amiss>>

Acquiring == {"force", "open", "write", "read", "probe", "reclaim"}
Stages == Acquiring \union {"gone", "hold", "exiting"}
Files == [pid : Procs, written : BOOLEAN]

SameUser(p, q) == p \in Guests <=> q \in Guests
MayUnlink(p, q) == Sticky => SameUser(p, q)

\* `kill -0`: another user's process answers EPERM, which is no success either.
pid_alive(p, q) == SameUser(p, q) /\ pc[q] # "gone"

\* Between its `create_new` and its `drop` a process counts on the file.
Owns(p) == pc[p] \in {"write", "hold"}
Owned == file # NoFile /\ Owns(file.pid)

Held == {p \in Procs : pc[p] = "hold"}

Init ==
  /\ file = NoFile
  /\ pc = [p \in Procs |-> "gone"]
  /\ seen = [p \in Procs |-> NoPid]
  /\ crashes = 0 /\ faults = 0
  /\ behind = Procs
  /\ amiss = {}

Goto(p, from, to) ==
  /\ pc[p] = from
  /\ pc' = [pc EXCEPT ![p] = to]

\* No descriptor, no process to fork, a full disk.
Fault == faults < MaxFaults /\ faults' = faults + 1

Blame(cause, holds) == amiss' = IF holds THEN amiss \union {cause} ELSE amiss

\* remove_file takes the path, whatever file is there by now, and its error is
\* ignored: a file of another user in a sticky directory stays.
Unlink(p) ==
  \/ /\ file # NoFile => MayUnlink(p, file.pid)
     /\ file' = NoFile /\ behind' = Procs
     /\ UNCHANGED faults
  \/ /\ file # NoFile
     /\ IF MayUnlink(p, file.pid) THEN Fault ELSE UNCHANGED faults
     /\ UNCHANGED <<file, behind>>

-----------------------------------------------------------------------------
\* A run is started. Without Overlap, whoever starts runs waits until the
\* previous one has been through `acquire`, with whatever outcome.
Launch(p) ==
  /\ ~Overlap => \A q \in Procs : pc[q] \notin Acquiring
  /\ Goto(p, "gone", IF p \in Forcers THEN "force" ELSE "open")
  /\ UNCHANGED <<file, seen, crashes, faults, behind, amiss>>

ForceUnlock(p) ==
  /\ Goto(p, "force", "open")
  /\ Unlink(p)
  /\ Blame("forced", Owned /\ file' = NoFile)
  /\ UNCHANGED <<seen, crashes>>

\* Mutant: File::create, which opens and truncates a file that exists.
CreateTruncates(p) ==
  /\ Goto(p, "open", "write")
  /\ file' = [pid |-> p, written |-> FALSE]
  /\ UNCHANGED <<seen, crashes, faults, behind, amiss>>

CreateNew(p) ==
  /\ Goto(p, "open", "write")
  /\ file = NoFile
  /\ file' = [pid |-> p, written |-> FALSE]
  /\ UNCHANGED <<seen, crashes, faults, behind, amiss>>

AlreadyExists(p) ==
  /\ Goto(p, "open", "read")
  /\ file # NoFile
  /\ UNCHANGED <<file, seen, crashes, faults, behind, amiss>>

\* Any other error of the open refuses the caller.
CannotOpen(p) ==
  /\ Goto(p, "open", "exiting")
  /\ Fault
  /\ UNCHANGED <<file, seen, crashes, behind, amiss>>

\* The write goes to the open descriptor: it reaches the path only if the
\* path still names the file this process created. Its error is ignored.
WritePid(p) ==
  /\ Goto(p, "write", "hold")
  /\ \/ /\ file' = IF file # NoFile /\ file.pid = p
                     THEN [file EXCEPT !.written = TRUE] ELSE file
        /\ UNCHANGED faults
     \/ Fault /\ UNCHANGED file
  /\ UNCHANGED <<seen, crashes, behind, amiss>>

\* A file that has gone, that cannot be read or that holds no pid yet names no
\* holder, and a process that reads no pid is refused.
ReadHolder(p) ==
  /\ \/ /\ Goto(p, "read", "probe")
        /\ file # NoFile /\ file.written
        /\ seen' = [seen EXCEPT ![p] = file.pid]
        /\ behind' = behind \ {p}
        /\ UNCHANGED faults
     \/ /\ Goto(p, "read", "exiting")
        /\ IF file # NoFile /\ file.written THEN Fault ELSE UNCHANGED faults
        /\ UNCHANGED <<seen, behind>>
  /\ UNCHANGED <<file, crashes, amiss>>

\* Mutant: every recorded holder is taken for a dead one.
ProbeSkipped(p) ==
  /\ Goto(p, "probe", "reclaim")
  /\ UNCHANGED <<file, seen, crashes, faults, behind, amiss>>

\* A holder that answers refuses the caller; one that does not, and one that no
\* `kill` could be spawned for, is dead.
Probe(p) ==
  /\ \/ /\ Goto(p, "probe", IF pid_alive(p, seen[p]) THEN "exiting" ELSE "reclaim")
        /\ UNCHANGED faults
     \/ Goto(p, "probe", "reclaim") /\ Fault
  /\ Blame("erred", pc'[p] = "reclaim" /\ Owns(seen[p]))
  /\ UNCHANGED <<file, seen, crashes, behind>>

\* Mutant: the retry forgets to remove the stale file.
RemoveNothing(p) ==
  /\ Goto(p, "reclaim", "open")
  /\ seen' = [seen EXCEPT ![p] = NoPid]
  /\ UNCHANGED <<file, crashes, faults, behind, amiss>>

\* The loop is entered again whether or not the removal worked.
RemoveStale(p) ==
  /\ Goto(p, "reclaim", "open")
  /\ Unlink(p)
  /\ Blame("raced", p \in behind /\ Owned /\ file' = NoFile)
  /\ seen' = [seen EXCEPT ![p] = NoPid]
  /\ UNCHANGED crashes

\* Drop: as unconditional as the reclaim.
Release(p) ==
  /\ Goto(p, "hold", "exiting")
  /\ Unlink(p)
  /\ UNCHANGED <<seen, crashes, amiss>>

Exit(p) ==
  /\ Goto(p, "exiting", "gone")
  /\ seen' = [seen EXCEPT ![p] = NoPid]
  /\ UNCHANGED <<file, crashes, faults, behind, amiss>>

\* SIGKILL, the OOM killer, a lost instance: no destructor runs.
Crash(p) ==
  /\ crashes < MaxCrashes
  /\ pc[p] # "gone"
  /\ pc' = [pc EXCEPT ![p] = "gone"]
  /\ seen' = [seen EXCEPT ![p] = NoPid]
  /\ crashes' = crashes + 1
  /\ UNCHANGED <<file, faults, behind, amiss>>

Step(p) ==
  \/ ForceUnlock(p) \/ CreateNew(p) \/ AlreadyExists(p) \/ CannotOpen(p) \/ WritePid(p)
  \/ ReadHolder(p) \/ Probe(p) \/ RemoveStale(p) \/ Release(p) \/ Exit(p)

Next == \E p \in Procs : Launch(p) \/ Step(p) \/ Crash(p)

\* A user of whom nothing runs starts a run sooner or later.
LaunchOf(user) == (\A p \in user : pc[p] = "gone") /\ \E p \in user : Launch(p)

\* A process that is not killed keeps running, no arm runs forever, and each user
\* goes on starting runs, of whichever of his pids.
Fairness ==
  /\ \A p \in Procs : WF_vars(Step(p))
  /\ \A user \in {Guests, Procs \ Guests} : WF_vars(LaunchOf(user))

Spec == Init /\ [][Next]_vars /\ Fairness

-----------------------------------------------------------------------------
TypeOK ==
  /\ file \in Files \union {NoFile}
  /\ pc \in [Procs -> Stages]
  /\ seen \in [Procs -> Procs \union {NoPid}]
  /\ crashes \in 0..MaxCrashes /\ faults \in 0..MaxFaults
  /\ behind \subseteq Procs
  /\ amiss \subseteq {"forced", "erred", "raced"}

\* "Exclusive right to run one arm against the shared infrastructure": two
\* processes never hold the lock together, whatever was killed and whichever
\* stale locks were reclaimed, unless FORCE_UNLOCK took it from a live owner.
MutualExclusion ==
  "forced" \notin amiss => \A p, q \in Procs : pc[p] = "hold" /\ pc[q] = "hold" => p = q

\* Nobody but the owner removes or replaces the lock of a live owner, however
\* many are inside `acquire`, killed or short of a call, but for three reasons: an
\* operator forced it, a probe called an owner dead (another user's, or with no
\* `kill` to be had), or the file had changed hands between the read and the removal.
LockNotTaken ==
  [][\A p \in Procs :
       amiss' = {} /\ Owns(p) /\ Owns(p)' =>
         file # NoFile /\ file.pid = p /\ file' # NoFile /\ file'.pid = p]_vars

\* The calls a process has before it, until it is refused or has been through its
\* arms: one that finds no file is past the reclaim.
CallsLeft(p) ==
  CASE pc[p] = "force"   -> 9
    [] pc[p] = "open"    -> IF file = NoFile THEN 4 ELSE 8
    [] pc[p] = "read"    -> 7
    [] pc[p] = "probe"   -> 6
    [] pc[p] = "reclaim" -> 5
    [] pc[p] = "write"   -> 3
    [] pc[p] = "hold"    -> 2
    [] pc[p] = "exiting" -> 1
    [] pc[p] = "gone"    -> 0

Descends(p) ==
  CallsLeft(p)' <= CallsLeft(p) /\ (Step(p) => CallsLeft(p)' < CallsLeft(p))

\* The loop of `acquire` has no bound of its own: what sends a process round it
\* again is a removal that failed, or a lock that another took in the meantime.
RoundAgain ==
  [][\A p \in Procs : pc[p] # "gone" =>
       \/ Descends(p)
       \/ RemoveStale(p) /\ file' # NoFile
       \/ \E q \in Procs \ {p} : CreateNew(q)]_vars

\* "a crashed run must not block the suite forever", for a process that died
\* after it wrote its pid and whose pid is not reused, if anybody else may remove
\* its file.
StaleLockReclaimed ==
  /\ RoundAgain
  /\ \A p \in {q \in Procs : \E r \in Procs \ {q} : MayUnlink(r, q)} :
       (file = [pid |-> p, written |-> TRUE] /\ [](pc[p] = "gone"))
         ~> (file # [pid |-> p, written |-> TRUE])

\* The same sentence as the comment states it: for a process that died at any
\* point after it created the file.
CrashNeverBlocks ==
  \A p \in Procs :
    (file \in [pid : {p}, written : BOOLEAN] /\ [](pc[p] = "gone"))
      ~> (file \notin [pid : {p}, written : BOOLEAN])

\* "Take the lock, or return the current holder's description": whoever calls
\* `acquire` gets one or the other.
AcquireReturns ==
  \A p \in Procs : pc[p] \in Acquiring ~> pc[p] \notin Acquiring

\* Seen from outside, the lock is ArmMutex up to the first of the three reasons: the
\* calls inside `acquire` are invisible, the pid write grants the right, drop and
\* death give it back.
Mutex == INSTANCE ArmMutex WITH holders <- Held, overridden <- amiss # {}
ImplementsMutex == Mutex!Spec

-----------------------------------------------------------------------------
\* The inductive invariant. An owner's file is there and is its own; a process
\* that has read a file and for whom the path still names it knows whose it is;
\* and what it is about to remove has no owner.
OwnerHasFile ==
  \A p \in Procs : Owns(p) => file # NoFile /\ file.pid = p

SeenWhileProbing ==
  \A p \in Procs :
    pc[p] \in {"probe", "reclaim"} =>
      /\ seen[p] \in Procs
      /\ p \notin behind => file # NoFile /\ file.pid = seen[p]

ReclaimIsStale ==
  \A p \in Procs : pc[p] = "reclaim" /\ p \notin behind => ~Owned

LockInv ==
  /\ SeenWhileProbing
  /\ amiss = {} => OwnerHasFile /\ ReclaimIsStale

\* With serial launches there is no race: one process at a time is inside
\* `acquire`, so no file comes to be where the one it read has gone.
Serial ==
  \A p, q \in Procs : pc[p] \in Acquiring /\ pc[q] \in Acquiring => p = q

SerialInv ==
  /\ Serial
  /\ \A p \in Procs : pc[p] \in {"probe", "reclaim"} /\ p \in behind => file = NoFile
  /\ "raced" \notin amiss
=============================================================================
