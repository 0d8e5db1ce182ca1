--------------------------- MODULE ArmLock_proof ----------------------------
(***************************************************************************)
(* Proofs about ArmLock for every set of processes, users and forcers, any *)
(* number of kills and of failing calls, in a sticky directory or not, and *)
(* however many processes are inside `acquire` at once. What overlapping   *)
(* launches are needed for is the race alone (SerialNeverRaces).           *)
(***************************************************************************)
EXTENDS ArmLock, TLAPS

-----------------------------------------------------------------------------
(* Type correctness.                                                       *)

LEMMA TypeInit == Init => TypeOK
<1> SUFFICES ASSUME Init PROVE TypeOK
  OBVIOUS
<1>1. crashes \in 0..MaxCrashes /\ faults \in 0..MaxFaults
  BY LockAssumption DEF LockAssumption, Init
<1> QED  BY <1>1 DEF Init, TypeOK, Stages

\* What a removal leaves: no file, and nobody's reading is of the path any more; or
\* everything as it was.
LEMMA Unlinked ==
  ASSUME TypeOK, NEW p \in Procs, Unlink(p)
  PROVE  /\ faults' \in 0..MaxFaults
         /\ \/ file' = NoFile /\ behind' = Procs
            \/ file # NoFile /\ UNCHANGED <<file, behind>>
  BY LockAssumption DEF LockAssumption, TypeOK, Unlink, Fault

LEMMA FaultTyped == TypeOK /\ Fault => faults' \in 0..MaxFaults
  BY LockAssumption DEF LockAssumption, TypeOK, Fault

LEMMA Blamed ==
  ASSUME TypeOK, NEW cause \in {"forced", "erred", "raced"}, NEW holds, Blame(cause, holds)
  PROVE  /\ amiss' \subseteq {"forced", "erred", "raced"}
         /\ amiss' = {} => amiss = {} /\ ~holds
  BY DEF TypeOK, Blame

LEMMA TypeStep == TypeOK /\ [Next]_vars => TypeOK'
<1> SUFFICES ASSUME TypeOK, [Next]_vars PROVE TypeOK'
  OBVIOUS
<1> USE DEF Goto
<1>1. CASE UNCHANGED vars
  BY <1>1 DEF vars, TypeOK
<1>2. ASSUME NEW p \in Procs, Launch(p) PROVE TypeOK'
  BY <1>2 DEF Launch, TypeOK, Stages, Acquiring
<1>3. ASSUME NEW p \in Procs, Step(p) PROVE TypeOK'
  <2>1. CASE ForceUnlock(p)
    <3>1. amiss' \subseteq {"forced", "erred", "raced"}
      BY <2>1, Blamed DEF ForceUnlock
    <3> QED  BY <2>1, <3>1, Unlinked DEF ForceUnlock, TypeOK, Stages, Acquiring
  <2>2. CASE CreateNew(p)  BY <2>2 DEF CreateNew, TypeOK, Files, Stages, Acquiring
  <2>3. CASE AlreadyExists(p)  BY <2>3 DEF AlreadyExists, TypeOK, Stages, Acquiring
  <2>4. CASE CannotOpen(p)  BY <2>4, FaultTyped DEF CannotOpen, TypeOK, Stages
  <2>5. CASE WritePid(p)
    <3>1. faults' \in 0..MaxFaults
      BY <2>5, FaultTyped DEF WritePid, TypeOK
    <3>2. file' \in Files \union {NoFile}
      BY <2>5 DEF WritePid, TypeOK, Files
    <3> QED  BY <2>5, <3>1, <3>2 DEF WritePid, TypeOK, Stages
  <2>6. CASE ReadHolder(p)
    <3>1. faults' \in 0..MaxFaults
      BY <2>6, FaultTyped DEF ReadHolder, TypeOK
    <3>2. seen' \in [Procs -> Procs \union {NoPid}]
      BY <2>6 DEF ReadHolder, TypeOK, Files
    <3> QED  BY <2>6, <3>1, <3>2 DEF ReadHolder, TypeOK, Stages, Acquiring
  <2>7. CASE Probe(p)
    <3>1. faults' \in 0..MaxFaults
      BY <2>7, FaultTyped DEF Probe, TypeOK
    <3>2. amiss' \subseteq {"forced", "erred", "raced"}
      BY <2>7, Blamed DEF Probe
    <3> QED  BY <2>7, <3>1, <3>2 DEF Probe, TypeOK, Stages, Acquiring
  <2>8. CASE RemoveStale(p)
    <3>1. amiss' \subseteq {"forced", "erred", "raced"}
      BY <2>8, Blamed DEF RemoveStale
    <3> QED  BY <2>8, <3>1, Unlinked DEF RemoveStale, TypeOK, Stages, Acquiring
  <2>9. CASE Release(p)
    BY <2>9, Unlinked DEF Release, TypeOK, Stages
  <2>10. CASE Exit(p)  BY <2>10 DEF Exit, TypeOK, Stages
  <2> QED
    BY <1>3, <2>1, <2>2, <2>3, <2>4, <2>5, <2>6, <2>7, <2>8, <2>9, <2>10 DEF Step
<1>4. ASSUME NEW p \in Procs, Crash(p) PROVE TypeOK'
  BY <1>4, LockAssumption DEF LockAssumption, Crash, TypeOK, Stages
<1> QED  BY <1>1, <1>2, <1>3, <1>4 DEF Next

\* The lock's variables keep their types: a stage of `acquire`, a file with a
\* known creator, and no more kills and failures than their bounds.
THEOREM TypeCorrect == Spec => []TypeOK
  BY TypeInit, TypeStep, PTL DEF Spec

-----------------------------------------------------------------------------
(* The inductive invariant LockInv.                                        *)

LEMMA LockInvInit == Init => LockInv
  BY DEF Init, LockInv, SeenWhileProbing, OwnerHasFile, ReclaimIsStale, Owns

\* A step after which the path is empty keeps it, if no owner is left.
LEMMA EmptyPath ==
  ASSUME SeenWhileProbing, file' = NoFile, behind' = Procs,
         amiss' = {} => \A q \in Procs : ~Owns(q)',
         \A q \in Procs : pc'[q] \in {"probe", "reclaim"} =>
                             pc'[q] = pc[q] /\ seen'[q] = seen[q]
  PROVE  LockInv'
  BY DEF SeenWhileProbing, LockInv, OwnerHasFile, ReclaimIsStale, Owns

\* A step that leaves the path, and makes nobody an owner, keeps it if whoever is
\* about to remove has something stale before it.
LEMMA SamePath ==
  ASSUME LockInv, UNCHANGED <<file, behind>>, amiss' = {} => amiss = {},
         \A q \in Procs : Owns(q)' => Owns(q),
         \A q \in Procs : pc'[q] \in {"probe", "reclaim"} =>
                             pc[q] \in {"probe", "reclaim"} /\ seen'[q] = seen[q],
         \A q \in Procs : amiss' = {} /\ pc'[q] = "reclaim" /\ q \notin behind =>
                             pc[q] = "reclaim" \/ ~Owned,
         file # NoFile => file.pid \in Procs
  PROVE  LockInv'
<1>1. SeenWhileProbing'
  BY DEF LockInv, SeenWhileProbing
<1>2. ASSUME amiss' = {} PROVE OwnerHasFile' /\ ReclaimIsStale'
  <2>1. OwnerHasFile'
    BY <1>2 DEF LockInv, OwnerHasFile
  <2>2. Owned' => Owned
    BY DEF Owned
  <2> QED  BY <1>2, <2>1, <2>2 DEF LockInv, ReclaimIsStale
<1> QED  BY <1>1, <1>2 DEF LockInv

LEMMA LockInvStep ==
  ASSUME TypeOK, LockInv, [Next]_vars
  PROVE  LockInv'
<1> DEFINE Freed == file' = NoFile /\ behind' = Procs
           Left == file # NoFile /\ UNCHANGED <<file, behind>>
<1>1. pc \in [Procs -> Stages] /\ seen \in [Procs -> Procs \union {NoPid}]
  BY DEF TypeOK
<1>2. SeenWhileProbing
  BY DEF LockInv
<1>3. file # NoFile => file.pid \in Procs
  BY DEF TypeOK, Files
<1> USE <1>1 DEF Goto
<1>4. CASE UNCHANGED vars
  BY <1>3, <1>4, SamePath DEF vars, Owns
<1>5. ASSUME NEW p \in Procs, Launch(p) PROVE LockInv'
  BY <1>3, <1>5, SamePath DEF Launch, Owns
<1>6. ASSUME NEW p \in Procs, Step(p) PROVE LockInv'
  <2>1. CASE ForceUnlock(p)
    <3>1. Freed \/ Left
      BY <2>1, Unlinked DEF ForceUnlock
    <3>2. amiss' = {} => amiss = {} /\ ~(Owned /\ file' = NoFile)
      BY <2>1, Blamed DEF ForceUnlock
    <3>3. CASE Freed
      <4>1. amiss' = {} => \A q \in Procs : ~Owns(q)'
        BY <2>1, <3>2, <3>3 DEF ForceUnlock, LockInv, OwnerHasFile, Owned, Owns
      <4> QED  BY <1>2, <2>1, <3>3, <4>1, EmptyPath DEF ForceUnlock
    <3>4. CASE Left
      BY <1>3, <2>1, <3>2, <3>4, SamePath DEF ForceUnlock, Owns
    <3> QED  BY <3>1, <3>3, <3>4
  <2>2. CASE CreateNew(p)
    <3>1. file' = [pid |-> p, written |-> FALSE] /\ file' # NoFile
      <4>1. file' = [pid |-> p, written |-> FALSE]
        BY <2>2 DEF CreateNew
      <4>2. file' \in [pid : Procs, written : BOOLEAN]
        BY <4>1
      <4> QED  BY <4>1, <4>2, LockAssumption DEF LockAssumption
    <3>2. \A q \in Procs : pc[q] \in {"probe", "reclaim"} => q \in behind
      BY <1>2, <2>2 DEF CreateNew, SeenWhileProbing
    <3>3. \A q \in Procs : pc'[q] \in {"probe", "reclaim"} => pc'[q] = pc[q]
      BY <2>2 DEF CreateNew
    <3>4. SeenWhileProbing' /\ ReclaimIsStale'
      BY <1>2, <2>2, <3>2, <3>3 DEF CreateNew, SeenWhileProbing, ReclaimIsStale
    <3>5. ASSUME amiss' = {} PROVE OwnerHasFile'
      <4>1. \A q \in Procs : ~Owns(q)
        BY <2>2, <3>5 DEF CreateNew, LockInv, OwnerHasFile
      <4>2. \A q \in Procs : Owns(q)' => q = p
        BY <2>2, <4>1 DEF CreateNew, Owns
      <4> QED  BY <3>1, <4>2 DEF OwnerHasFile
    <3> QED  BY <3>4, <3>5 DEF LockInv
  <2>3. CASE AlreadyExists(p)
    BY <1>3, <2>3, SamePath DEF AlreadyExists, Owns
  <2>4. CASE CannotOpen(p)
    BY <1>3, <2>4, SamePath DEF CannotOpen, Owns
  <2>5. CASE WritePid(p)
    <3>1. (file' = NoFile <=> file = NoFile) /\ (file # NoFile => file'.pid = file.pid)
      <4>1. ASSUME file # NoFile PROVE [file EXCEPT !.written = TRUE] \in Files
        BY <4>1 DEF TypeOK, Files
      <4>2. ASSUME file # NoFile PROVE [file EXCEPT !.written = TRUE].pid = file.pid
        BY <4>2 DEF TypeOK, Files
      <4> QED  BY <2>5, <4>1, <4>2, LockAssumption DEF WritePid, LockAssumption, Files
    <3>2. UNCHANGED <<seen, behind, amiss>> /\ (\A q \in Procs : Owns(q)' <=> Owns(q))
      BY <2>5 DEF WritePid, Owns
    <3>3. \A q \in Procs : pc'[q] \in {"probe", "reclaim"} => pc'[q] = pc[q]
      BY <2>5 DEF WritePid
    <3>4. SeenWhileProbing'
      BY <1>2, <3>1, <3>2, <3>3 DEF SeenWhileProbing
    <3>5. ASSUME amiss' = {} PROVE OwnerHasFile' /\ ReclaimIsStale'
      <4>1. OwnerHasFile /\ ReclaimIsStale
        BY <3>2, <3>5 DEF LockInv
      <4>2. Owned' => Owned
        BY <1>3, <3>1, <3>2 DEF Owned
      <4> QED  BY <3>1, <3>2, <3>3, <4>1, <4>2 DEF OwnerHasFile, ReclaimIsStale
    <3> QED  BY <3>4, <3>5 DEF LockInv
  <2>6. CASE ReadHolder(p)
    <3>1. CASE pc'[p] = "exiting"
      BY <1>3, <2>6, <3>1, SamePath DEF ReadHolder, Owns
    <3>2. CASE pc'[p] = "probe"
      <4>1. /\ file # NoFile /\ file' = file /\ amiss' = amiss
            /\ seen' = [seen EXCEPT ![p] = file.pid] /\ behind' = behind \ {p}
            /\ pc' = [pc EXCEPT ![p] = "probe"] /\ pc[p] = "read"
        BY <2>6, <3>2 DEF ReadHolder
      <4>2. SeenWhileProbing'
        BY <1>2, <1>3, <4>1 DEF SeenWhileProbing
      <4>3. Owned' = Owned /\ \A q \in Procs : Owns(q)' = Owns(q)
        BY <1>3, <4>1 DEF Owned, Owns
      <4>4. ASSUME amiss' = {} PROVE OwnerHasFile' /\ ReclaimIsStale'
        BY <4>1, <4>3, <4>4 DEF LockInv, OwnerHasFile, ReclaimIsStale
      <4> QED  BY <4>2, <4>4 DEF LockInv
    <3> QED  BY <2>6, <3>1, <3>2 DEF ReadHolder
  <2>7. CASE Probe(p)
    <3>1. amiss' = {} => amiss = {} /\ ~(pc'[p] = "reclaim" /\ Owns(seen[p]))
      BY <2>7, Blamed DEF Probe
    <3>2. p \notin behind => file # NoFile /\ file.pid = seen[p]
      BY <1>2, <2>7 DEF Probe, SeenWhileProbing
    <3>3. amiss' = {} /\ pc'[p] = "reclaim" /\ p \notin behind => ~Owned
      BY <3>1, <3>2 DEF Owned
    <3> QED  BY <1>3, <2>7, <3>1, <3>3, SamePath DEF Probe, Owns
  <2>8. CASE RemoveStale(p)
    <3>1. Freed \/ Left
      BY <2>8, Unlinked DEF RemoveStale
    <3>2. amiss' = {} => amiss = {} /\ ~(p \in behind /\ Owned /\ file' = NoFile)
      BY <2>8, Blamed DEF RemoveStale
    <3>3. CASE Freed
      <4>1. amiss' = {} => ~Owned /\ OwnerHasFile
        BY <2>8, <3>2, <3>3 DEF RemoveStale, LockInv, ReclaimIsStale
      <4>2. amiss' = {} => \A q \in Procs : ~Owns(q)'
        BY <2>8, <4>1 DEF RemoveStale, OwnerHasFile, Owned, Owns
      <4> QED  BY <1>2, <2>8, <3>3, <4>2, EmptyPath DEF RemoveStale
    <3>4. CASE Left
      BY <1>3, <2>8, <3>2, <3>4, SamePath DEF RemoveStale, Owns
    <3> QED  BY <3>1, <3>3, <3>4
  <2>9. CASE Release(p)
    <3>1. Freed \/ Left
      BY <2>9, Unlinked DEF Release
    <3>2. CASE Freed
      <4>1. amiss' = {} => \A q \in Procs : Owns(q) => q = p
        BY <2>9 DEF Release, LockInv, OwnerHasFile, Owns
      <4>2. amiss' = {} => \A q \in Procs : ~Owns(q)'
        BY <2>9, <4>1 DEF Release, Owns
      <4> QED  BY <1>2, <2>9, <3>2, <4>2, EmptyPath DEF Release
    <3>3. CASE Left
      BY <1>3, <2>9, <3>3, SamePath DEF Release, Owns
    <3> QED  BY <3>1, <3>2, <3>3
  <2>10. CASE Exit(p)
    BY <1>3, <2>10, SamePath DEF Exit, Owns
  <2> QED
    BY <1>6, <2>1, <2>2, <2>3, <2>4, <2>5, <2>6, <2>7, <2>8, <2>9, <2>10 DEF Step
<1>7. ASSUME NEW p \in Procs, Crash(p) PROVE LockInv'
  BY <1>3, <1>7, SamePath DEF Crash, Owns
<1> QED  BY <1>4, <1>5, <1>6, <1>7 DEF Next

LEMMA LockInvariant == Spec => []LockInv
  BY LockInvInit, LockInvStep, TypeCorrect, PTL DEF Spec

-----------------------------------------------------------------------------
(* Refinement: every step of the lock is a step of ArmMutex or a stutter.  *)

LEMMA MutexStep ==
  ASSUME TypeOK, LockInv, [Next]_vars
  PROVE  [Mutex!Next]_(Mutex!vars)
<1>1. pc \in [Procs -> Stages]
  BY DEF TypeOK
<1>2. ASSUME Held' = Held, amiss # {} => amiss' # {} PROVE [Mutex!Next]_(Mutex!vars)
  BY <1>2 DEF Mutex!vars, Mutex!Next, Mutex!Override
<1>3. ASSUME NEW p \in Held, Held' = Held \ {p}, amiss' = amiss PROVE Mutex!Next
  BY <1>3 DEF Held, Mutex!Next, Mutex!Leave
<1> USE <1>1 DEF Goto, Held
<1>4. CASE UNCHANGED vars
  BY <1>2, <1>4 DEF vars
<1>5. ASSUME NEW p \in Procs, Launch(p) PROVE [Mutex!Next]_(Mutex!vars)
  BY <1>2, <1>5 DEF Launch
<1>6. ASSUME NEW p \in Procs, Step(p) PROVE [Mutex!Next]_(Mutex!vars)
  <2>1. CASE ForceUnlock(p)
    BY <1>2, <2>1 DEF ForceUnlock, Blame
  <2>2. CASE CreateNew(p)  BY <1>2, <2>2 DEF CreateNew
  <2>3. CASE AlreadyExists(p)  BY <1>2, <2>3 DEF AlreadyExists
  <2>4. CASE CannotOpen(p)  BY <1>2, <2>4 DEF CannotOpen
  <2>5. CASE WritePid(p)
    <3>1. Held' = Held \union {p} /\ p \notin Held /\ amiss' = amiss
      BY <2>5 DEF WritePid
    <3>2. amiss = {} => Held = {}
      BY <2>5 DEF WritePid, LockInv, OwnerHasFile, Owns
    <3> QED  BY <3>1, <3>2 DEF Mutex!Next, Mutex!Take
  <2>6. CASE ReadHolder(p)  BY <1>2, <2>6 DEF ReadHolder
  <2>7. CASE Probe(p)  BY <1>2, <2>7 DEF Probe, Blame
  <2>8. CASE RemoveStale(p)  BY <1>2, <2>8 DEF RemoveStale, Blame
  <2>9. CASE Release(p)
    <3>1. Held' = Held \ {p} /\ p \in Held /\ amiss' = amiss
      BY <2>9 DEF Release
    <3> QED  BY <1>3, <3>1
  <2>10. CASE Exit(p)  BY <1>2, <2>10 DEF Exit
  <2> QED
    BY <1>6, <2>1, <2>2, <2>3, <2>4, <2>5, <2>6, <2>7, <2>8, <2>9, <2>10 DEF Step
<1>7. ASSUME NEW p \in Procs, Crash(p) PROVE [Mutex!Next]_(Mutex!vars)
  <2>1. CASE p \in Held
    <3>1. Held' = Held \ {p} /\ amiss' = amiss
      BY <1>7, <2>1 DEF Crash
    <3> QED  BY <1>3, <2>1, <3>1
  <2>2. CASE p \notin Held
    <3>1. Held' = Held /\ amiss' = amiss
      BY <1>7, <2>2 DEF Crash
    <3> QED  BY <1>2, <3>1
  <2> QED  BY <2>1, <2>2
<1> QED  BY <1>4, <1>5, <1>6, <1>7 DEF Next

\* The lock implements the abstract mutual exclusion, with overlapping launches,
\* kills, failing calls and two users, up to the first lock that was given up.
THEOREM Implements == Spec => ImplementsMutex
<1>1. Init => Mutex!Init
  BY DEF Init, Mutex!Init, Held
<1>2. TypeOK /\ LockInv /\ [Next]_vars => [Mutex!Next]_(Mutex!vars)
  BY MutexStep
<1> QED
  BY <1>1, <1>2, LockInvariant, TypeCorrect, PTL DEF Spec, ImplementsMutex, Mutex!Spec

-----------------------------------------------------------------------------
(* The two unconditional remove_file calls and the live owner's file.      *)

\* What is amiss stays so.
LEMMA AmissStays ==
  ASSUME [Next]_vars, amiss' = {}
  PROVE  amiss = {}
  BY DEF Next, Launch, Step, ForceUnlock, CreateNew, AlreadyExists, CannotOpen, WritePid,
         ReadHolder, Probe, RemoveStale, Release, Exit, Crash, Blame, vars

\* Nobody but the owner removes or replaces the lock of a live owner, unless it was
\* forced, its owner was called dead, or the path changed hands under a reclaim.
THEOREM NotTaken == Spec => LockNotTaken
<1> DEFINE Kept == \A p \in Procs :
             amiss' = {} /\ Owns(p) /\ Owns(p)' =>
               file # NoFile /\ file.pid = p /\ file' # NoFile /\ file'.pid = p
<1>1. LockInv /\ LockInv' /\ [Next]_vars => Kept
  <2> SUFFICES ASSUME LockInv, LockInv', [Next]_vars, NEW p \in Procs,
                      amiss' = {}, Owns(p), Owns(p)'
               PROVE  file # NoFile /\ file.pid = p /\ file' # NoFile /\ file'.pid = p
    OBVIOUS
  <2>1. amiss = {}
    BY AmissStays
  <2>2. OwnerHasFile /\ OwnerHasFile'
    BY <2>1 DEF LockInv
  <2> QED  BY <2>2 DEF OwnerHasFile
<1> QED  BY <1>1, LockInvariant, PTL DEF Spec, LockNotTaken

-----------------------------------------------------------------------------
(* Serial launches: no race.                                               *)

LEMMA SerialStep ==
  ASSUME ~Overlap, TypeOK, SerialInv, [Next]_vars
  PROVE  SerialInv'
<1> DEFINE Behind(q) == pc[q] \in {"probe", "reclaim"} /\ q \in behind => file = NoFile
<1>1. pc \in [Procs -> Stages] /\ Serial /\ "raced" \notin amiss /\ \A q \in Procs : Behind(q)
  BY DEF TypeOK, SerialInv
<1> USE DEF Goto
<1>2. CASE UNCHANGED vars
  BY <1>2 DEF vars, SerialInv, Serial
<1>3. ASSUME NEW p \in Procs, Launch(p) PROVE SerialInv'
  BY <1>1, <1>3 DEF Launch, SerialInv, Serial, Acquiring
<1>4. ASSUME NEW p \in Procs, Step(p) PROVE SerialInv'
  <2>1. \A q \in Procs : (pc'[q] \in Acquiring => pc[q] \in Acquiring) /\ (q # p => pc'[q] = pc[q])
    BY <1>1, <1>4 DEF Step, ForceUnlock, CreateNew, AlreadyExists, CannotOpen, WritePid,
                      ReadHolder, Probe, RemoveStale, Release, Exit, Acquiring
  <2>2. Serial'
    BY <1>1, <2>1 DEF Serial
  <2>3. "raced" \notin amiss'
    <3>1. CASE RemoveStale(p)
      <4>1. p \in behind => ~Owned
        BY <1>1, <3>1 DEF RemoveStale, Owned
      <4> QED  BY <1>1, <3>1, <4>1 DEF RemoveStale, Blame
    <3>2. CASE ~RemoveStale(p)
      BY <1>1, <1>4, <3>2 DEF Step, ForceUnlock, CreateNew, AlreadyExists, CannotOpen,
                      WritePid, ReadHolder, Probe, Release, Exit, Blame
    <3> QED  BY <3>1, <3>2
  <2>4. ASSUME NEW q \in Procs, pc'[q] \in {"probe", "reclaim"}, q \in behind' PROVE file' = NoFile
    <3>1. CASE CreateNew(p)
      <4>1. q # p /\ pc[q] \in Acquiring /\ pc[p] \in Acquiring
        BY <1>1, <2>1, <2>4, <3>1 DEF CreateNew, Acquiring
      <4> QED  BY <1>1, <4>1 DEF Serial
    <3>2. CASE WritePid(p)
      BY <1>1, <2>1, <2>4, <3>2 DEF WritePid
    <3>3. CASE ReadHolder(p)
      <4>1. \/ q # p /\ pc[q] \in Acquiring /\ pc[p] \in Acquiring
            \/ q \in behind /\ pc'[q] = pc[q]
        BY <1>1, <2>1, <2>4, <3>3 DEF ReadHolder, Acquiring
      <4> QED  BY <1>1, <2>4, <3>3, <4>1 DEF Serial, ReadHolder
    <3>4. CASE ForceUnlock(p) \/ RemoveStale(p) \/ Release(p)
      <4>1. file' = NoFile \/ UNCHANGED <<file, behind>>
        BY <3>4, Unlinked DEF ForceUnlock, RemoveStale, Release
      <4>2. pc'[q] = pc[q]
        BY <1>1, <2>4, <3>4 DEF ForceUnlock, RemoveStale, Release
      <4> QED  BY <1>1, <2>4, <4>1, <4>2
    <3>5. CASE Probe(p)
      <4>1. UNCHANGED <<file, behind>> /\ pc[q] \in {"probe", "reclaim"}
        BY <1>1, <2>1, <2>4, <3>5 DEF Probe
      <4> QED  BY <1>1, <2>4, <4>1
    <3>6. CASE AlreadyExists(p) \/ CannotOpen(p) \/ Exit(p)
      <4>1. UNCHANGED <<file, behind>> /\ pc'[q] = pc[q]
        BY <1>1, <2>1, <2>4, <3>6 DEF AlreadyExists, CannotOpen, Exit
      <4> QED  BY <1>1, <2>4, <4>1
    <3> QED  BY <1>4, <3>1, <3>2, <3>3, <3>4, <3>5, <3>6 DEF Step
  <2> QED  BY <2>2, <2>3, <2>4 DEF SerialInv
<1>5. ASSUME NEW p \in Procs, Crash(p) PROVE SerialInv'
  <2>1. \A q \in Procs : pc'[q] = pc[q] \/ pc'[q] = "gone"
    BY <1>1, <1>5 DEF Crash
  <2> QED  BY <1>1, <1>5, <2>1 DEF Crash, SerialInv, Serial, Acquiring
<1> QED  BY <1>2, <1>3, <1>4, <1>5 DEF Next

\* What serial launches buy: no reclaim ever meets another file than the one its
\* process read, so that only force and a probe that errs take a live lock.
THEOREM SerialNeverRaces == ~Overlap /\ Spec => []("raced" \notin amiss)
<1>1. Init => SerialInv
  BY DEF Init, SerialInv, Serial, Acquiring
<1>2. SerialInv => "raced" \notin amiss
  BY DEF SerialInv
<1>3. TypeOK /\ SerialInv /\ ~Overlap /\ [Next]_vars => SerialInv'
  BY SerialStep
<1>4. CASE ~Overlap
  BY <1>1, <1>2, <1>3, <1>4, TypeCorrect, PTL DEF Spec
<1> QED  BY <1>4

-----------------------------------------------------------------------------
(* The retry of `acquire` ends: a rank for the calls a process has left.   *)

\* What is left at each stage, for a process and the file it would find.
LeftByStage ==
  \A p \in Procs :
    /\ pc[p] = "force" => CallsLeft(p) = 9
    /\ pc[p] = "open" /\ file = NoFile => CallsLeft(p) = 4
    /\ pc[p] = "open" /\ file # NoFile => CallsLeft(p) = 8
    /\ pc[p] = "read" => CallsLeft(p) = 7
    /\ pc[p] = "probe" => CallsLeft(p) = 6
    /\ pc[p] = "reclaim" => CallsLeft(p) = 5
    /\ pc[p] = "write" => CallsLeft(p) = 3
    /\ pc[p] = "hold" => CallsLeft(p) = 2
    /\ pc[p] = "exiting" => CallsLeft(p) = 1
    /\ pc[p] = "gone" => CallsLeft(p) = 0

LEMMA LeftAt == TypeOK => LeftByStage
<1> SUFFICES ASSUME NEW p \in Procs
             PROVE  LeftByStage!(p)
  BY DEF LeftByStage
<1>1. pc[p] = "force" => CallsLeft(p) = 9  BY DEF CallsLeft
<1>2. pc[p] = "open" /\ file = NoFile => CallsLeft(p) = 4  BY DEF CallsLeft
<1>3. pc[p] = "open" /\ file # NoFile => CallsLeft(p) = 8  BY DEF CallsLeft
<1>4. pc[p] = "read" => CallsLeft(p) = 7  BY DEF CallsLeft
<1>5. pc[p] = "probe" => CallsLeft(p) = 6  BY DEF CallsLeft
<1>6. pc[p] = "reclaim" => CallsLeft(p) = 5  BY DEF CallsLeft
<1>7. pc[p] = "write" => CallsLeft(p) = 3  BY DEF CallsLeft
<1>8. pc[p] = "hold" => CallsLeft(p) = 2  BY DEF CallsLeft
<1>9. pc[p] = "exiting" => CallsLeft(p) = 1  BY DEF CallsLeft
<1>10. pc[p] = "gone" => CallsLeft(p) = 0  BY DEF CallsLeft
<1> QED
  BY <1>1, <1>2, <1>3, <1>4, <1>5, <1>6, <1>7, <1>8, <1>9, <1>10

\* A process that stays where it is has no more calls left than it had, unless it
\* stands at the `create_new` and a file comes to be there.
LEMMA StandsStill ==
  ASSUME TypeOK, LeftByStage, LeftByStage', NEW p \in Procs,
         pc'[p] = pc[p], pc[p] = "open" => file' = NoFile \/ file # NoFile
  PROVE  CallsLeft(p)' <= CallsLeft(p)
<1> USE DEF LeftByStage
<1>1. CASE pc[p] = "open" /\ file = NoFile
  <2>1. CallsLeft(p)' = 4  BY <1>1
  <2>2. CallsLeft(p) = 4  BY <1>1
  <2> QED  BY <2>1, <2>2
<1>2. CASE pc[p] = "open" /\ file # NoFile
  <2>1. CallsLeft(p)' = 4 \/ CallsLeft(p)' = 8  BY <1>2
  <2>2. CallsLeft(p) = 8  BY <1>2
  <2> QED  BY <2>1, <2>2
<1>3. CASE pc[p] # "open"
  <2>1. pc[p] \in {"force", "read", "probe", "reclaim", "write", "hold", "exiting", "gone"}
    BY <1>3 DEF TypeOK, Stages, Acquiring
  <2>2. PICK n \in 0..9 : CallsLeft(p) = n /\ CallsLeft(p)' = n
    BY <2>1
  <2>3. n <= n
    OBVIOUS
  <2> QED  BY <2>2, <2>3
<1> QED  BY <1>1, <1>2, <1>3

\* Every call of a process leaves it fewer, but a removal that failed.
LEMMA CallsDescend ==
  ASSUME TypeOK, LeftByStage, LeftByStage', NEW p \in Procs, Step(p),
         ~(RemoveStale(p) /\ file' # NoFile)
  PROVE  CallsLeft(p)' < CallsLeft(p)
<1> DEFINE From(b, m) == CallsLeft(p) = m /\ CallsLeft(p)' = b
<1>1. pc \in [Procs -> Stages]  BY DEF TypeOK
<1> USE <1>1 DEF LeftByStage, Goto
<1>2. CASE ForceUnlock(p)
  <2>1. From(4, 9) \/ From(8, 9)  BY <1>2 DEF ForceUnlock
  <2> QED  BY <2>1
<1>3. CASE CreateNew(p)
  <2>1. From(3, 4)  BY <1>3 DEF CreateNew
  <2> QED  BY <2>1
<1>4. CASE AlreadyExists(p)
  <2>1. From(7, 8)  BY <1>4 DEF AlreadyExists
  <2> QED  BY <2>1
<1>5. CASE CannotOpen(p)
  <2>1. From(1, 4) \/ From(1, 8)  BY <1>5 DEF CannotOpen
  <2> QED  BY <2>1
<1>6. CASE WritePid(p)
  <2>1. From(2, 3)  BY <1>6 DEF WritePid
  <2> QED  BY <2>1
<1>7. CASE ReadHolder(p)
  <2>1. From(6, 7) \/ From(1, 7)  BY <1>7 DEF ReadHolder
  <2> QED  BY <2>1
<1>8. CASE Probe(p)
  <2>1. From(1, 6) \/ From(5, 6)  BY <1>8 DEF Probe
  <2> QED  BY <2>1
<1>9. CASE RemoveStale(p)
  <2>1. From(4, 5)  BY <1>9 DEF RemoveStale
  <2> QED  BY <2>1
<1>10. CASE Release(p)
  <2>1. From(1, 2)  BY <1>10 DEF Release
  <2> QED  BY <2>1
<1>11. CASE Exit(p)
  <2>1. From(0, 1)  BY <1>11 DEF Exit
  <2> QED  BY <2>1
<1> QED  BY <1>2, <1>3, <1>4, <1>5, <1>6, <1>7, <1>8, <1>9, <1>10, <1>11 DEF Step

\* Nobody else adds to the calls of a process but one that creates the file.
LEMMA OthersLeave ==
  ASSUME TypeOK, LeftByStage, LeftByStage', NEW p \in Procs, pc[p] # "gone",
         NEW q \in Procs, q # p, Launch(q) \/ Step(q), ~CreateNew(q)
  PROVE  CallsLeft(p)' <= CallsLeft(p)
<1>1. pc'[p] = pc[p]
  BY DEF TypeOK, Goto, Launch, Step, ForceUnlock, CreateNew, AlreadyExists, CannotOpen,
         WritePid, ReadHolder, Probe, RemoveStale, Release, Exit
<1>2. file' = NoFile \/ file # NoFile
  BY DEF Launch, Step, ForceUnlock, AlreadyExists, CannotOpen, WritePid, ReadHolder,
         Probe, RemoveStale, Release, Exit, Unlink
<1> QED  BY <1>1, <1>2, StandsStill

LEMMA RoundStep ==
  ASSUME TypeOK, LeftByStage, LeftByStage', Next, NEW p \in Procs, pc[p] # "gone",
         ~(RemoveStale(p) /\ file' # NoFile), \A q \in Procs \ {p} : ~CreateNew(q)
  PROVE  Descends(p)
<1>1. PICK m \in 0..9 : CallsLeft(p) = m
  BY DEF LeftByStage, TypeOK, Stages, Acquiring
<1>2. ASSUME Step(p) PROVE CallsLeft(p)' < CallsLeft(p)
  BY <1>2, CallsDescend
<1>3. PICK q \in Procs : Launch(q) \/ Step(q) \/ Crash(q)
  BY DEF Next
<1>4. CallsLeft(p)' <= CallsLeft(p)
  <2>1. CASE (Launch(q) \/ Step(q)) /\ q # p
    BY <2>1, OthersLeave
  <2>2. CASE Step(q) /\ q = p
    <3>1. PICK n \in Nat : CallsLeft(p)' = n
      <4>1. CallsLeft(p)' \in 0..9
        BY <2>2 DEF LeftByStage, TypeOK, Goto, Stages, Acquiring, Step, ForceUnlock, CreateNew,
                    AlreadyExists, CannotOpen, WritePid, ReadHolder, Probe, RemoveStale,
                    Release, Exit
      <4> QED  BY <4>1
    <3>2. CallsLeft(p)' < CallsLeft(p)
      BY <1>2, <2>2
    <3> QED  BY <1>1, <3>1, <3>2
  <2>3. CASE Launch(q) /\ q = p
    BY <2>3 DEF Launch, Goto
  <2>4. CASE Crash(q)
    <3>1. file' = file /\ pc' = [pc EXCEPT ![q] = "gone"]
      BY <2>4 DEF Crash
    <3>2. CASE q # p
      <4>1. pc'[p] = pc[p]
        BY <3>1, <3>2 DEF TypeOK
      <4> QED  BY <3>1, <4>1, StandsStill
    <3>3. CASE q = p
      <4>1. CallsLeft(p)' = 0
        BY <3>1, <3>3 DEF TypeOK, LeftByStage
      <4> QED  BY <1>1, <4>1
    <3> QED  BY <3>2, <3>3
  <2> QED  BY <1>3, <2>1, <2>2, <2>3, <2>4
<1> QED  BY <1>2, <1>4 DEF Descends

\* What sends a process round the loop of `acquire` again is a removal that failed or
\* another that has taken the lock: nothing else that it or the others do, or die of.
THEOREM Retries == Spec => RoundAgain
<1> DEFINE Fewer == \A p \in Procs : pc[p] # "gone" =>
             \/ Descends(p)
             \/ RemoveStale(p) /\ file' # NoFile
             \/ \E q \in Procs \ {p} : CreateNew(q)
<1>1. LeftByStage /\ LeftByStage' /\ TypeOK /\ [Next]_vars => Fewer \/ UNCHANGED vars
  BY RoundStep
<1>2. TypeOK => LeftByStage
  BY LeftAt
<1> HIDE DEF Fewer
<1>3. Spec => [][Fewer]_vars
  BY <1>1, <1>2, TypeCorrect, PTL DEF Spec
<1> QED  BY <1>3, PTL DEF RoundAgain, Fewer

=============================================================================
