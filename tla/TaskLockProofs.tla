----------------------------- MODULE TaskLockProofs -----------------------------
(***************************************************************************)
(* Proofs about TaskLock, for any sets of processes.  The invariant that   *)
(* carries them says what a descriptor that may lock or has locked refers  *)
(* to:                                                                     *)
(*   - whoever is about to flock, or owns a flock, has a descriptor open;  *)
(*   - no two owners have the same inode open (that is what flock gives);  *)
(*   - until a discard unlinks the file, every open descriptor is that of  *)
(*     the one inode the path names (that is what the protocol gives).     *)
(* Mutual exclusion follows from the last two together, and the refinement *)
(* of TaskMutex from mutual exclusion.  After an unlink the owners have    *)
(* inodes of their own, of which there are no more than unlinks and one.   *)
(***************************************************************************)
EXTENDS TaskLock, FunctionTheorems, FiniteSetTheorems, TLAPS

\* Only a caller of AcquireLock writes metadata.
WritersLock == \A p \in Proc : pc[p] \in {"truncate", "write"} => p \in Locker

\* A flock is tried through an open descriptor.
TriesOpenFile == \A p \in Proc : pc[p] \in {"flock", "pflock"} => fd[p] # 0

\* The owners are those between the flock call and the close.
OwnersOpen ==
  /\ \A p \in Proc : p \in holds <=> pc[p] \in {"truncate", "write", "held", "pheld"}
  /\ \A p \in holds : fd[p] # 0

\* flock: two owners never share an inode.
OwnersApart == \A p, q \in holds : fd[p] = fd[q] => p = q

\* Before a discard there is one inode, the one the path names.
OneInode == Undiscarded => \A p \in Proc : fd[p] \in {0, path}

\* Before a discard the directory stays once it was ensured, and writeHolder
\* writes into the file it truncated.
WritesInPlace ==
  Undiscarded =>
    \A p \in Proc :
      /\ pc[p] \in {"open", "flock", "truncate", "write", "held"} => dir
      /\ pc[p] = "write" => wfd[p] = path

IInv == /\ TypeOK /\ WritersLock /\ TriesOpenFile /\ OwnersOpen /\ OwnersApart
        /\ OneInode /\ WritesInPlace /\ MetadataNamesHolder

--------------------------------------------------------------------------------
LEMMA InitIInv == Init => IInv
<1> SUFFICES ASSUME Init PROVE IInv
  OBVIOUS
<1>1. TypeOK
  BY DEF Init, TypeOK, PCs, Stopped, Taking, Locker, Proc
<1>2. \A p \in Proc : fd[p] = 0 /\ pc[p] \in {"start", "idle"}
  BY DEF Init
<1>3. WritersLock /\ TriesOpenFile
  BY <1>2 DEF WritersLock, TriesOpenFile
<1>4. OwnersOpen /\ OwnersApart
  BY <1>2 DEF Init, OwnersOpen, OwnersApart
<1>5. OneInode /\ WritesInPlace /\ MetadataNamesHolder
  BY <1>2 DEF Init, OneInode, WritesInPlace, MetadataNamesHolder
<1> QED
  BY <1>1, <1>3, <1>4, <1>5 DEF IInv

\* Every step keeps the types, given who may write metadata.
LEMMA TypeStep ==
  ASSUME TypeOK, WritersLock, NEW p \in Proc,
         \/ AcquireLock(p) \/ TryAcquireForReap(p) \/ TakeoverIfHeld(p) \/ RemoveDir(p)
         \/ Launch(p) \/ UpdatePhase(p) \/ Release(p) \/ StartProbe(p) \/ Crash(p)
  PROVE  TypeOK'
<1> USE RolesAssumption DEF TypeOK, PCs, Stopped, Taking, Locker, Proc, Prober, Goto, file, Close
<1>1. CASE AcquireLock(p)
  <2>1. CASE EnsureDir(p)
    BY <2>1 DEF EnsureDir
  <2>2. CASE OpenLock(p)
    BY <2>2 DEF OpenLock, OpenOrCreate
  <2>3. CASE FlockAcquired(p)
    BY <2>3 DEF FlockAcquired
  <2>4. CASE FlockContended(p)
    BY <2>4 DEF FlockContended
  <2>5. CASE ReadHolder(p)
    BY <2>5 DEF ReadHolder
  <2>6. CASE TruncateHolder(p)
    BY <2>6 DEF TruncateHolder, OpenOrCreate
  <2>7. CASE WriteHolder(p)
    BY <2>7 DEF WriteHolder, WritersLock
  <2> QED
    BY <1>1, <2>1, <2>2, <2>3, <2>4, <2>5, <2>6, <2>7 DEF AcquireLock
<1>2. CASE TryAcquireForReap(p)
  <2>1. CASE StatLock(p)
    BY <2>1 DEF StatLock, Between
  <2>2. CASE OpenProbe(p)
    BY <2>2 DEF OpenProbe
  <2>3. CASE ProbeAcquired(p)
    BY <2>3 DEF ProbeAcquired
  <2>4. CASE ProbeContended(p)
    BY <2>4 DEF ProbeContended, Between
  <2>5. CASE ReleaseProbe(p)
    BY <2>5 DEF ReleaseProbe
  <2> QED
    BY <1>2, <2>1, <2>2, <2>3, <2>4, <2>5 DEF TryAcquireForReap
<1>3. CASE TakeoverIfHeld(p)
  <2>1. CASE Terminate(p)
    BY <2>1 DEF Terminate
  <2>2. CASE Escalate(p)
    BY <2>2 DEF Escalate
  <2>3. CASE WaitDeadline(p)
    BY <2>3 DEF WaitDeadline
  <2>4. CASE InlineDone(p)
    BY <2>4 DEF InlineDone
  <2>5. CASE \E q \in Orch : SpawnInline(p, q)
    BY <2>5 DEF SpawnInline
  <2> QED
    BY <1>3, <2>1, <2>2, <2>3, <2>4, <2>5 DEF TakeoverIfHeld
<1>4. CASE RemoveDir(p)
  <2>1. CASE StartDiscard(p)
    BY <2>1 DEF StartDiscard
  <2>2. CASE UnlinkLock(p)
    BY <2>2 DEF UnlinkLock
  <2>3. CASE RemoveTaskDir(p)
    BY <2>3 DEF RemoveTaskDir
  <2> QED
    BY <1>4, <2>1, <2>2, <2>3 DEF RemoveDir
<1>5. CASE Launch(p)
  BY <1>5 DEF Launch
<1>6. CASE UpdatePhase(p)
  BY <1>6 DEF UpdatePhase
<1>7. CASE Release(p)
  BY <1>7 DEF Release
<1>8. CASE StartProbe(p)
  BY <1>8 DEF StartProbe
<1>9. CASE Crash(p)
  BY <1>9 DEF Crash
<1> QED
  BY <1>1, <1>2, <1>3, <1>4, <1>5, <1>6, <1>7, <1>8, <1>9

--------------------------------------------------------------------------------
\* A descriptor that is opened, locked or closed keeps the owners apart, and
\* the name bound to the one inode.
LEMMA AcquireStep ==
  ASSUME IInv, NEW p \in Proc, AcquireLock(p)
  PROVE  /\ WritersLock' /\ TriesOpenFile' /\ OwnersOpen' /\ OwnersApart'
         /\ OneInode' /\ WritesInPlace' /\ MetadataNamesHolder'
<1> USE RolesAssumption DEF IInv, TypeOK, WritersLock, TriesOpenFile, OwnersOpen, OwnersApart,
         OneInode, WritesInPlace, MetadataNamesHolder, Undiscarded, Goto, file
<1>1. CASE EnsureDir(p)
  BY <1>1 DEF EnsureDir, Locker, Prober, Proc
<1>2. CASE OpenLock(p)
  BY <1>2 DEF OpenLock, OpenOrCreate, Locker, Proc
<1>3. CASE FlockAcquired(p)
  BY <1>3 DEF FlockAcquired, FlockFree, Locker, Proc
<1>4. CASE FlockContended(p)
  BY <1>4 DEF FlockContended, Locker, Proc
<1>5. CASE ReadHolder(p)
  BY <1>5 DEF ReadHolder, Locker, Proc
<1>6. CASE TruncateHolder(p)
  BY <1>6 DEF TruncateHolder, OpenOrCreate, Locker, Proc
<1>7. CASE WriteHolder(p)
  BY <1>7 DEF WriteHolder, Locker, Proc
<1> QED
  BY <1>1, <1>2, <1>3, <1>4, <1>5, <1>6, <1>7 DEF AcquireLock

LEMMA ProbeStep ==
  ASSUME IInv, NEW p \in Proc, TryAcquireForReap(p) \/ StartProbe(p)
  PROVE  /\ WritersLock' /\ TriesOpenFile' /\ OwnersOpen' /\ OwnersApart'
         /\ OneInode' /\ WritesInPlace' /\ MetadataNamesHolder'
<1> USE RolesAssumption DEF IInv, TypeOK, WritersLock, TriesOpenFile, OwnersOpen, OwnersApart,
         OneInode, WritesInPlace, MetadataNamesHolder, Undiscarded, Goto, file, Between
<1>1. CASE StatLock(p)
  BY <1>1 DEF StatLock, Prober, Locker, Proc
<1>2. CASE OpenProbe(p)
  BY <1>2 DEF OpenProbe, Prober, Locker, Proc
<1>3. CASE ProbeAcquired(p)
  BY <1>3 DEF ProbeAcquired, FlockFree, Prober, Locker, Proc
<1>4. CASE ProbeContended(p)
  BY <1>4 DEF ProbeContended, Prober, Locker, Proc
<1>5. CASE ReleaseProbe(p)
  BY <1>5 DEF ReleaseProbe, Close, Prober, Locker, Proc
<1>6. CASE StartProbe(p)
  BY <1>6 DEF StartProbe, Prober, Locker, Proc
<1> QED
  BY <1>1, <1>2, <1>3, <1>4, <1>5, <1>6 DEF TryAcquireForReap

LEMMA OtherStep ==
  ASSUME IInv, NEW p \in Proc,
         \/ TakeoverIfHeld(p) \/ RemoveDir(p) \/ Launch(p) \/ UpdatePhase(p)
         \/ Release(p) \/ Crash(p)
  PROVE  /\ WritersLock' /\ TriesOpenFile' /\ OwnersOpen' /\ OwnersApart'
         /\ OneInode' /\ WritesInPlace' /\ MetadataNamesHolder'
<1> USE RolesAssumption DEF IInv, TypeOK, WritersLock, TriesOpenFile, OwnersOpen, OwnersApart,
         OneInode, WritesInPlace, MetadataNamesHolder, Undiscarded, Goto, file
<1>1. CASE Terminate(p)
  BY <1>1 DEF Terminate, Close, Locker, Proc
<1>2. CASE Escalate(p)
  BY <1>2 DEF Escalate, Close, IsAlive, Locker, Proc
<1>3. CASE WaitDeadline(p)
  BY <1>3 DEF WaitDeadline, Locker, Proc
<1>4. CASE InlineDone(p)
  BY <1>4 DEF InlineDone, Locker, Proc
<1>5. CASE \E q \in Orch : SpawnInline(p, q)
  BY <1>5 DEF SpawnInline, Locker, Proc
<1>6. CASE StartDiscard(p)
  BY <1>6 DEF StartDiscard, Locker, Proc
<1>7. CASE UnlinkLock(p)
  BY <1>7 DEF UnlinkLock, Locker, Proc
<1>8. CASE RemoveTaskDir(p)
  BY <1>8 DEF RemoveTaskDir, Locker, Proc
<1>9. CASE Launch(p)
  BY <1>9 DEF Launch, Locker, Proc
<1>10. CASE UpdatePhase(p)
  BY <1>10 DEF UpdatePhase, Locker, Proc
<1>11. CASE Release(p)
  BY <1>11 DEF Release, Close, Locker, Proc
<1>12. CASE Crash(p)
  BY <1>12 DEF Crash, Close, Locker, Proc
<1> QED
  BY <1>1, <1>2, <1>3, <1>4, <1>5, <1>6, <1>7, <1>8, <1>9, <1>10, <1>11, <1>12
     DEF TakeoverIfHeld, RemoveDir

--------------------------------------------------------------------------------
LEMMA Inductive == Spec => []IInv
<1>1. Init => IInv
  BY InitIInv
<1>2. IInv /\ [Next]_vars => IInv'
  <2> SUFFICES ASSUME IInv, [Next]_vars PROVE IInv'
    OBVIOUS
  <2>1. CASE Next
    <3> PICK p \in Proc :
          \/ AcquireLock(p) \/ TryAcquireForReap(p) \/ TakeoverIfHeld(p) \/ RemoveDir(p)
          \/ Launch(p) \/ UpdatePhase(p) \/ Release(p) \/ StartProbe(p) \/ Crash(p)
      BY <2>1 DEF Next
    <3>1. TypeOK'
      BY TypeStep DEF IInv
    <3>2. /\ WritersLock' /\ TriesOpenFile' /\ OwnersOpen' /\ OwnersApart'
          /\ OneInode' /\ WritesInPlace' /\ MetadataNamesHolder'
      BY AcquireStep, ProbeStep, OtherStep
    <3> QED
      BY <3>1, <3>2 DEF IInv
  <2>2. CASE UNCHANGED vars
    BY <2>2 DEF vars, IInv, TypeOK, WritersLock, TriesOpenFile, OwnersOpen, OwnersApart,
                OneInode, WritesInPlace, MetadataNamesHolder, Undiscarded
  <2> QED
    BY <2>1, <2>2
<1> QED
  BY <1>1, <1>2, PTL DEF Spec

\* Every reachable state is well typed.
THEOREM TypeCorrect == Spec => []TypeOK
<1>1. IInv => TypeOK
  BY DEF IInv
<1> QED
  BY Inductive, <1>1, PTL

LEMMA InvExclusive == IInv => ExclusiveUntilDiscard
BY DEF IInv, TypeOK, OwnersOpen, OwnersApart, OneInode, ExclusiveUntilDiscard, AtMostOneHolder

\* Until a discard unlinks the lock file nobody shares the lock, whatever
\* acquires, takes over, probes, rewrites metadata and crashes.
THEOREM Exclusive == Spec => []ExclusiveUntilDiscard
BY Inductive, InvExclusive, PTL

\* Between two rewrites the metadata of the lock file names its holder.
THEOREM HolderNamed == Spec => []MetadataNamesHolder
<1>1. IInv => MetadataNamesHolder
  BY DEF IInv
<1> QED
  BY Inductive, <1>1, PTL

--------------------------------------------------------------------------------
\* Only a release makes a takeover go on, its own.
LEMMA SpawnAfterRelease ==
  ASSUME TypeOK, Next, NEW r \in Resumer, pc[r] # "spawn", pc'[r] = "spawn"
  PROVE  pc[r] \in {"held", "pheld"}
<1> USE DEF TypeOK, Goto
<1> r \in Proc
  BY DEF Proc
<1> PICK p \in Proc :
      \/ AcquireLock(p) \/ TryAcquireForReap(p) \/ TakeoverIfHeld(p) \/ RemoveDir(p)
      \/ Launch(p) \/ UpdatePhase(p) \/ Release(p) \/ StartProbe(p) \/ Crash(p)
  BY DEF Next
<1>1. CASE AcquireLock(p)
  BY <1>1 DEF AcquireLock, EnsureDir, OpenLock, FlockAcquired, FlockContended, ReadHolder,
              TruncateHolder, WriteHolder
<1>2. CASE TryAcquireForReap(p) \/ StartProbe(p)
  BY <1>2 DEF TryAcquireForReap, StatLock, OpenProbe, ProbeAcquired, ProbeContended,
              ReleaseProbe, StartProbe, Between
<1>3. CASE TakeoverIfHeld(p)
  BY <1>3 DEF TakeoverIfHeld, Terminate, Escalate, WaitDeadline, InlineDone, SpawnInline
<1>4. CASE RemoveDir(p)
  BY <1>4 DEF RemoveDir, StartDiscard, UnlinkLock, RemoveTaskDir
<1>5. CASE Launch(p) \/ UpdatePhase(p) \/ Release(p) \/ Crash(p)
  BY <1>5 DEF Launch, UpdatePhase, Release, Crash
<1> QED
  BY <1>1, <1>2, <1>3, <1>4, <1>5

\* A takeover spawns its orchestrator only when the task was locked by nobody
\* but itself.
THEOREM SpawnsFree == Spec => SpawnsIntoFreeTask
<1>1. ASSUME IInv, [Next]_vars
      PROVE  [\A r \in Resumer :
                (pc[r] # "spawn" /\ pc'[r] = "spawn" /\ Undiscarded) => holds \subseteq {r}]_vars
  <2> SUFFICES ASSUME Next, NEW r \in Resumer, pc[r] # "spawn", pc'[r] = "spawn", Undiscarded
               PROVE  holds \subseteq {r}
    BY <1>1
  <2>1. r \in holds
    BY <1>1, SpawnAfterRelease DEF IInv, OwnersOpen, Proc
  <2> QED
    BY <1>1, <2>1, InvExclusive DEF ExclusiveUntilDiscard, AtMostOneHolder
<1> QED
  BY Inductive, <1>1, PTL DEF Spec, SpawnsIntoFreeTask

--------------------------------------------------------------------------------
\* Where nothing is discarded, a step leaves the owner alone, gives a free lock
\* to one process or takes it from its owner.
LEMMA OwnerStep ==
  ASSUME Discarder = {}, IInv, [Next]_vars
  PROVE  \/ holds' = holds
         \/ \E p \in Proc : holds = {} /\ holds' = {p}
         \/ \E p \in Proc : holds = {p} /\ holds' = {}
<1>1. Undiscarded
  BY DEF Undiscarded
<1>2. /\ \A q \in holds : holds = {q}
      /\ holds \subseteq Proc
  BY <1>1, InvExclusive DEF ExclusiveUntilDiscard, AtMostOneHolder, IInv, TypeOK
<1>3. ASSUME NEW p \in Proc, Close(p)
      PROVE  holds' = holds \/ (holds = {p} /\ holds' = {})
  BY <1>2, <1>3 DEF Close
<1>4. ASSUME NEW p \in Proc, FlockAcquired(p) \/ ProbeAcquired(p)
      PROVE  holds = {} /\ holds' = {p}
  <2>1. fd[p] = path
    BY <1>1, <1>4 DEF FlockAcquired, ProbeAcquired, Goto, IInv, OneInode, TriesOpenFile
  <2>2. \A q \in holds : fd[q] = path
    BY <1>1, <1>2 DEF IInv, OneInode, OwnersOpen
  <2> QED
    BY <1>4, <2>1, <2>2 DEF FlockAcquired, ProbeAcquired, FlockFree
<1>5. CASE Next
  <2> PICK p \in Proc :
        \/ AcquireLock(p) \/ TryAcquireForReap(p) \/ TakeoverIfHeld(p) \/ RemoveDir(p)
        \/ Launch(p) \/ UpdatePhase(p) \/ Release(p) \/ StartProbe(p) \/ Crash(p)
    BY <1>5 DEF Next
  <2>1. CASE AcquireLock(p)
    BY <2>1, <1>4 DEF AcquireLock, EnsureDir, OpenLock, FlockContended, ReadHolder,
                      TruncateHolder, WriteHolder
  <2>2. CASE TryAcquireForReap(p) \/ StartProbe(p)
    BY <2>2, <1>3, <1>4 DEF TryAcquireForReap, StatLock, OpenProbe, ProbeContended,
                            ReleaseProbe, StartProbe
  <2>3. CASE TakeoverIfHeld(p)
    <3>1. CASE Terminate(p)
      <4>1. CASE holds' = holds
        BY <4>1
      <4>2. CASE seen[p] \in Resumer /\ Close(seen[p])
        BY <4>2, <1>3 DEF Proc
      <4> QED
        BY <3>1, <4>1, <4>2 DEF Terminate
    <3>2. CASE Escalate(p)
      <4>1. CASE holds' = holds
        BY <4>1
      <4>2. CASE seen[p] \in Proc /\ Close(seen[p])
        BY <4>2, <1>3
      <4> QED
        BY <3>2, <4>1, <4>2 DEF Escalate, IsAlive
    <3>3. CASE WaitDeadline(p) \/ InlineDone(p) \/ \E q \in Orch : SpawnInline(p, q)
      BY <3>3 DEF WaitDeadline, InlineDone, SpawnInline
    <3> QED
      BY <2>3, <3>1, <3>2, <3>3 DEF TakeoverIfHeld
  <2>4. CASE RemoveDir(p)
    BY <2>4 DEF RemoveDir, StartDiscard, UnlinkLock, RemoveTaskDir
  <2>5. CASE Launch(p) \/ UpdatePhase(p) \/ Release(p) \/ Crash(p)
    BY <2>5, <1>3 DEF Launch, UpdatePhase, Release, Crash
  <2> QED
    BY <2>1, <2>2, <2>3, <2>4, <2>5
<1>6. CASE UNCHANGED vars
  BY <1>6 DEF vars
<1> QED
  BY <1>5, <1>6

\* Without discards the flock protocol implements the abstract lock.
THEOREM Refinement == ASSUME Discarder = {} PROVE Spec => ImplementsMutex
<1> DEFINE owner == IF holds = {} THEN Nobody ELSE CHOOSE p \in holds : TRUE
<1>1. Init => owner = Nobody
  BY DEF Init
<1>2. IInv /\ [Next]_vars => [Mutex!Next]_owner
  <2> SUFFICES ASSUME IInv, [Next]_vars PROVE [Mutex!Next]_owner
    OBVIOUS
  <2>1. CASE holds' = holds
    BY <2>1
  <2>2. ASSUME NEW p \in Proc, holds = {}, holds' = {p}
        PROVE  Mutex!Acquire(p)
    BY <2>2 DEF Mutex!Acquire
  <2>3. ASSUME NEW p \in Proc, holds = {p}, holds' = {}
        PROVE  Mutex!Release(p)
    BY <2>3 DEF Mutex!Release
  <2> QED
    BY <2>1, <2>2, <2>3, OwnerStep DEF Mutex!Next
<1> QED
  BY Inductive, <1>1, <1>2, PTL DEF Spec, ImplementsMutex, Mutex!Spec, Mutex!Init

--------------------------------------------------------------------------------
(* How many may own the lock: owners have different inodes open, and there  *)
(* are no more inodes than unlinked ones and the one the path names.        *)

\* The discards that have got as far as unlinking the lock file, or died.
Unlinkers == {d \in Discarder : pc[d] \notin {"idle", "rm"}}

Named == IF path = 0 THEN 0 ELSE 1

\* Inodes are numbered as they are created, and each but the one the path names
\* was unlinked by a discard of its own.
InodesCounted ==
  /\ path <= created /\ \A p \in Proc : fd[p] <= created
  /\ created <= Cardinality(Unlinkers) + Named

\* A discard that unlinked the file never goes back.
LEMMA UnlinkersStay ==
  ASSUME TypeOK, WritersLock, [Next]_vars PROVE Unlinkers \subseteq Unlinkers'
<1> USE RolesAssumption DEF TypeOK, WritersLock, Goto, Unlinkers, Proc, Locker, Prober
<1> SUFFICES ASSUME NEW d \in Discarder, pc[d] \notin {"idle", "rm"}
             PROVE  pc'[d] \notin {"idle", "rm"}
  OBVIOUS
<1>1. CASE UNCHANGED vars
  BY <1>1 DEF vars
<1>2. CASE Next
  <2> PICK p \in Proc :
        \/ AcquireLock(p) \/ TryAcquireForReap(p) \/ TakeoverIfHeld(p) \/ RemoveDir(p)
        \/ Launch(p) \/ UpdatePhase(p) \/ Release(p) \/ StartProbe(p) \/ Crash(p)
    BY <1>2 DEF Next
  <2>1. CASE AcquireLock(p)
    BY <2>1 DEF AcquireLock, EnsureDir, OpenLock, FlockAcquired, FlockContended, ReadHolder,
                TruncateHolder, WriteHolder
  <2>2. CASE TryAcquireForReap(p) \/ StartProbe(p)
    BY <2>2 DEF TryAcquireForReap, StatLock, OpenProbe, ProbeAcquired, ProbeContended,
                ReleaseProbe, StartProbe, Between
  <2>3. CASE TakeoverIfHeld(p)
    BY <2>3 DEF TakeoverIfHeld, Terminate, Escalate, WaitDeadline, InlineDone, SpawnInline
  <2>4. CASE RemoveDir(p)
    BY <2>4 DEF RemoveDir, StartDiscard, UnlinkLock, RemoveTaskDir
  <2>5. CASE Launch(p) \/ UpdatePhase(p) \/ Release(p) \/ Crash(p)
    BY <2>5 DEF Launch, UpdatePhase, Release, Crash
  <2> QED
    BY <2>1, <2>2, <2>3, <2>4, <2>5
<1> QED
  BY <1>1, <1>2

\* Opening creates an inode only when the name is free; a name gets free only
\* by an unlink.
LEMMA InodeStep ==
  ASSUME TypeOK, WritersLock, InodesCounted, [Next]_vars
  PROVE  /\ path' <= created' /\ \A p \in Proc : fd'[p] <= created'
         /\ \/ created' = created /\ (path' = path \/ \E d \in Discarder : UnlinkLock(d))
            \/ path = 0 /\ path' = created + 1 /\ created' = created + 1
<1> USE RolesAssumption DEF TypeOK, InodesCounted, Goto, Close, file
<1>1. CASE UNCHANGED vars
  BY <1>1 DEF vars
<1>2. CASE Next
  <2> PICK p \in Proc :
        \/ AcquireLock(p) \/ TryAcquireForReap(p) \/ TakeoverIfHeld(p) \/ RemoveDir(p)
        \/ Launch(p) \/ UpdatePhase(p) \/ Release(p) \/ StartProbe(p) \/ Crash(p)
    BY <1>2 DEF Next
  <2>1. CASE EnsureDir(p) \/ FlockAcquired(p) \/ FlockContended(p) \/ ReadHolder(p)
             \/ WriteHolder(p)
    BY <2>1 DEF EnsureDir, FlockAcquired, FlockContended, ReadHolder, WriteHolder
  <2>2. CASE OpenLock(p)
    BY <2>2 DEF OpenLock, OpenOrCreate
  <2>3. CASE TruncateHolder(p)
    BY <2>3 DEF TruncateHolder, OpenOrCreate
  <2>4. CASE TryAcquireForReap(p) \/ StartProbe(p)
    BY <2>4 DEF TryAcquireForReap, StatLock, OpenProbe, ProbeAcquired, ProbeContended,
                ReleaseProbe, StartProbe, Between
  <2>5. CASE TakeoverIfHeld(p)
    BY <2>5 DEF TakeoverIfHeld, Terminate, Escalate, WaitDeadline, InlineDone, SpawnInline
  <2>6. CASE StartDiscard(p) \/ RemoveTaskDir(p)
    BY <2>6 DEF StartDiscard, RemoveTaskDir
  <2>7. CASE UnlinkLock(p)
    <3>1. p \in Discarder
      BY <2>7 DEF UnlinkLock
    <3>2. /\ path' = 0 /\ created' = created /\ fd' = fd
      BY <2>7 DEF UnlinkLock
    <3>3. path' <= created' /\ \A q \in Proc : fd'[q] <= created'
      BY <3>2
    <3> QED
      BY <2>7, <3>1, <3>2, <3>3
  <2>8. CASE Launch(p) \/ UpdatePhase(p) \/ Release(p) \/ Crash(p)
    BY <2>8 DEF Launch, UpdatePhase, Release, Crash
  <2> QED
    BY <2>1, <2>2, <2>3, <2>4, <2>5, <2>6, <2>7, <2>8 DEF AcquireLock, RemoveDir
<1> QED
  BY <1>1, <1>2

LEMMA InodesStep ==
  ASSUME IsFiniteSet(Discarder), TypeOK, WritersLock, InodesCounted, [Next]_vars
  PROVE  InodesCounted'
<1>1. /\ IsFiniteSet(Unlinkers') /\ IsFiniteSet(Unlinkers)
      /\ Cardinality(Unlinkers) \in Nat /\ Cardinality(Unlinkers') \in Nat
      /\ Cardinality(Unlinkers) <= Cardinality(Unlinkers')
  <2>1. IsFiniteSet(Unlinkers')
    BY FS_Subset DEF Unlinkers
  <2> QED
    BY <2>1, UnlinkersStay, FS_Subset, FS_CardinalityType
<1>2. ASSUME NEW d \in Discarder, UnlinkLock(d)
      PROVE  Cardinality(Unlinkers) + 1 <= Cardinality(Unlinkers')
  <2>1. d \notin Unlinkers /\ d \in Unlinkers'
    BY <1>2 DEF UnlinkLock, Goto, Unlinkers, TypeOK, Proc
  <2>2. Unlinkers # Unlinkers' /\ Unlinkers \subseteq Unlinkers'
    BY <2>1, UnlinkersStay
  <2>3. Cardinality(Unlinkers) # Cardinality(Unlinkers')
    BY <1>1, <2>2, FS_Subset
  <2> QED
    BY <1>1, <2>3
<1>3. created' <= Cardinality(Unlinkers') + Named'
  <2>1. path \in Nat /\ created \in Nat
    BY DEF TypeOK
  <2>2. CASE created' = created /\ path' = path
    BY <1>1, <2>1, <2>2 DEF InodesCounted, Named
  <2>3. ASSUME NEW d \in Discarder, UnlinkLock(d), created' = created
        PROVE  created' <= Cardinality(Unlinkers') + Named'
    BY <1>1, <1>2, <2>1, <2>3 DEF InodesCounted, Named, UnlinkLock
  <2>4. CASE path = 0 /\ path' = created + 1 /\ created' = created + 1
    BY <1>1, <2>1, <2>4 DEF InodesCounted, Named
  <2> QED
    BY <2>2, <2>3, <2>4, InodeStep
<1> QED
  BY <1>3, InodeStep DEF InodesCounted

LEMMA InodesInit == ASSUME Init PROVE InodesCounted
<1>1. Unlinkers = {}
  BY RolesAssumption DEF Init, Unlinkers, Proc
<1>2. Cardinality(Unlinkers) = 0
  BY <1>1, FS_EmptySet
<1> QED
  BY <1>2 DEF Init, InodesCounted, Named

\* However many processes lock, take over, crash and discard in whatever
\* order, there is at most one owner more than discards that unlinked the file.
THEOREM HoldersBounded ==
  ASSUME IsFiniteSet(Discarder) PROVE Spec => []HoldersBoundedByDiscards
<1>1. ASSUME IInv, InodesCounted PROVE HoldersBoundedByDiscards
  <2> DEFINE f == [p \in holds |-> fd[p]]
  <2>1. IsFiniteSet(Unlinkers) /\ Cardinality(Unlinkers) \in Nat
    BY FS_Subset, FS_CardinalityType DEF Unlinkers
  <2>2. created \in Nat /\ \A p \in holds : fd[p] \in 1 .. created
    BY <1>1 DEF IInv, TypeOK, OwnersOpen, InodesCounted
  <2>3. f \in Injection(holds, 1 .. created)
    BY <1>1, <2>2, Fun_IsInj DEF IInv, OwnersApart, Injection, IsInjective
  <2>4. IsFiniteSet(1 .. created) /\ Cardinality(1 .. created) = created
    BY <2>2, FS_Interval
  <2>5. IsFiniteSet(holds) /\ Cardinality(holds) <= created
    BY <2>3, <2>4, FS_Injection
  <2>6. Cardinality(holds) \in Nat
    BY <2>5, FS_CardinalityType
  <2>7. created <= 1 + Cardinality(Unlinkers)
    BY <1>1, <2>1, <2>2 DEF InodesCounted, Named
  <2> QED
    BY <2>1, <2>2, <2>5, <2>6, <2>7 DEF HoldersBoundedByDiscards, Unlinkers
<1>2. IInv /\ InodesCounted /\ [Next]_vars => InodesCounted'
  BY InodesStep DEF IInv
<1> QED
  BY Inductive, InodesInit, <1>1, <1>2, PTL DEF Spec
================================================================================
