-------------------------------- MODULE TaskLock --------------------------------
(***************************************************************************)
(* The advisory lock of one task: the flock on <task dir>/.lock and the    *)
(* holder metadata kept in the same file (internal/store/tasks/lock.go),   *)
(* with every kind of process that touches it:                             *)
(*   Orch       `j tasks orchestrate`: AcquireLock, UpdatePhase, Release   *)
(*   Resumer    `j tasks resume-*`: takeoverIfHeld, then an inline Orch    *)
(*   Reaper     `j tasks`: TryAcquireForReap, Release, over and over       *)
(*   Discarder  `j tasks discard`: RemoveDir, which unlinks the lock file  *)
(* A flock belongs to an inode, the protocol names a path: inodes are      *)
(* therefore numbered, and unlinking the path while somebody holds the     *)
(* lock is a step like any other.                                          *)
(***************************************************************************)
EXTENDS Naturals, FiniteSets

CONSTANTS Orch, Resumer, Reaper, Discarder, Nobody

Locker == Orch \cup Resumer               \* callers of AcquireLock
Prober == Resumer \cup Reaper             \* callers of TryAcquireForReap
Proc == Orch \cup Resumer \cup Reaper \cup Discarder

ASSUME RolesAssumption ==
  /\ Nobody \notin Proc
  /\ Orch \cap (Resumer \cup Reaper \cup Discarder) = {}
  /\ Resumer \cap (Reaper \cup Discarder) = {}
  /\ Reaper \cap Discarder = {}

VARIABLES
  dir,      \* does the task directory exist?
  path,     \* inode the name .lock refers to, 0 when there is no such file
  created,  \* number of lock inodes created so far
  meta,     \* pid stored in the file at path, Nobody when it has no valid TOML
  pc,       \* where each process is
  fd,       \* inode of the descriptor passed to flock, 0 when closed
  wfd,      \* inode of the descriptor writeHolder has open, 0 when closed
  holds,    \* processes whose descriptor owns the flock of its inode
  seen,     \* per Resumer: the pid read from the metadata on contention
  child     \* per Resumer: the orchestrator it runs inline

file == <<dir, path, created, meta>>
vars == <<dir, path, created, meta, pc, fd, wfd, holds, seen, child>>

Stopped == {"idle", "exit", "dead"}
Taking  == {"terminate", "grace", "wait", "probe", "stat", "popen", "pflock", "pheld"}
PCs == Stopped \cup Taking \cup
       {"start", "open", "flock", "contended", "truncate", "write", "held",
        "spawn", "inline", "rm", "rmdir"}

TypeOK ==
  /\ dir \in BOOLEAN
  /\ path \in Nat /\ created \in Nat
  /\ meta \in Locker \cup {Nobody}
  /\ pc \in [Proc -> PCs]
  /\ fd \in [Proc -> Nat] /\ wfd \in [Proc -> Nat]
  /\ holds \in SUBSET Proc
  /\ seen \in [Resumer -> Locker \cup {Nobody}]
  /\ child \in [Resumer -> Orch \cup {Nobody}]

Init ==
  /\ dir = FALSE /\ path = 0 /\ created = 0 /\ meta = Nobody
  /\ pc = [p \in Proc |-> IF p \in Resumer THEN "start" ELSE "idle"]
  /\ fd = [p \in Proc |-> 0] /\ wfd = [p \in Proc |-> 0]
  /\ holds = {}
  /\ seen = [r \in Resumer |-> Nobody]
  /\ child = [r \in Resumer |-> Nobody]

Goto(p, from, to) == pc[p] = from /\ pc' = [pc EXCEPT ![p] = to]

\* run.IsAlive: pid 0 is never alive.
IsAlive(p) == p \in Proc /\ pc[p] \notin Stopped

\* flock(LOCK_EX|LOCK_NB) through p's descriptor would succeed.
FlockFree(p) == \A q \in holds : fd[q] # fd[p]

\* LOCK_UN and close, or the kernel closing what a dead process had open.
Close(p) ==
  /\ holds' = holds \ {p}
  /\ fd' = [fd EXCEPT ![p] = 0]
  /\ wfd' = [wfd EXCEPT ![p] = 0]

\* open(O_CREATE) of the lock file: a missing name gets a fresh inode.
OpenOrCreate ==
  IF path = 0 THEN path' = created + 1 /\ created' = created + 1
              ELSE UNCHANGED <<path, created>>

--------------------------------------------------------------------------------
(* AcquireLock *)

\* `j tasks start` / `continue` spawn an orchestrator.
Launch(p) ==
  /\ p \in Orch
  /\ Goto(p, "idle", "start")
  /\ UNCHANGED <<file, fd, wfd, holds, seen, child>>

EnsureDir(p) ==
  /\ dir' = TRUE
  /\ \/ p \in Locker /\ Goto(p, "start", "open")
     \/ p \in Prober /\ Goto(p, "probe", "stat")
  /\ UNCHANGED <<path, created, meta, fd, wfd, holds, seen, child>>

\* Mutant: the lock file is opened with O_TRUNC.
OpenLock_truncating(p) ==
  /\ p \in Locker /\ dir
  /\ Goto(p, "open", "flock")
  /\ OpenOrCreate
  /\ fd' = [fd EXCEPT ![p] = path']
  /\ meta' = Nobody
  /\ UNCHANGED <<dir, wfd, holds, seen, child>>

\* The directory may have been removed again: ENOENT, and the command fails.
OpenLock(p) ==
  /\ p \in Locker
  /\ IF dir
       THEN /\ Goto(p, "open", "flock")
            /\ OpenOrCreate
            /\ fd' = [fd EXCEPT ![p] = path']
       ELSE /\ Goto(p, "open", "exit")
            /\ UNCHANGED <<path, created, fd>>
  /\ UNCHANGED <<dir, meta, wfd, holds, seen, child>>

\* Mutant: LOCK_SH instead of LOCK_EX.
FlockAcquired_shared(p) ==
  /\ p \in Locker
  /\ Goto(p, "flock", "truncate")
  /\ holds' = holds \cup {p}
  /\ UNCHANGED <<file, fd, wfd, seen, child>>

FlockAcquired(p) ==
  /\ p \in Locker
  /\ Goto(p, "flock", "truncate")
  /\ FlockFree(p)
  /\ holds' = holds \cup {p}
  /\ UNCHANGED <<file, fd, wfd, seen, child>>

FlockContended(p) ==
  /\ p \in Locker
  /\ Goto(p, "flock", "contended")
  /\ ~FlockFree(p)
  /\ UNCHANGED <<file, fd, wfd, holds, seen, child>>

\* readHolder reads the file the path names now; a missing or torn file gives
\* the zero Holder.  An orchestrator reports the contention and exits, a
\* resume command goes on to take the task over.
ReadHolder(p) ==
  /\ p \in Locker
  /\ Goto(p, "contended", IF p \in Resumer THEN "terminate" ELSE "exit")
  /\ fd' = [fd EXCEPT ![p] = 0]
  /\ seen' = [r \in Resumer |-> IF r = p THEN meta ELSE seen[r]]
  /\ UNCHANGED <<file, wfd, holds, child>>

\* Mutant: the metadata is written to a new file that is renamed over the old.
TruncateHolder_renaming(p) ==
  /\ dir
  /\ Goto(p, "truncate", "write")
  /\ path' = created + 1 /\ created' = created + 1
  /\ meta' = Nobody
  /\ wfd' = [wfd EXCEPT ![p] = path']
  /\ UNCHANGED <<dir, fd, holds, seen, child>>

\* writeHolder is os.WriteFile on the path: first open with O_CREATE|O_TRUNC
\* (its error is ignored) ...
TruncateHolder(p) ==
  /\ IF dir
       THEN /\ Goto(p, "truncate", "write")
            /\ OpenOrCreate
            /\ meta' = Nobody
            /\ wfd' = [wfd EXCEPT ![p] = path']
       ELSE /\ Goto(p, "truncate", "held")
            /\ UNCHANGED <<path, created, meta, wfd>>
  /\ UNCHANGED <<dir, fd, holds, seen, child>>

\* ... then the write, to the inode opened above.
WriteHolder(p) ==
  /\ Goto(p, "write", "held")
  /\ meta' = IF wfd[p] = path THEN p ELSE meta
  /\ wfd' = [wfd EXCEPT ![p] = 0]
  /\ UNCHANGED <<dir, path, created, fd, holds, seen, child>>

\* The phase tagger rewrites the metadata each time a phase starts.
UpdatePhase(p) ==
  /\ p \in Orch
  /\ Goto(p, "held", "truncate")
  /\ UNCHANGED <<file, fd, wfd, holds, seen, child>>

\* An orchestrator releases at the end of its run; a takeover that met no
\* contention gives the lock back at once.
Release(p) ==
  /\ p \in Locker
  /\ Goto(p, "held", IF p \in Resumer THEN "spawn" ELSE "exit")
  /\ Close(p)
  /\ UNCHANGED <<file, seen, child>>

--------------------------------------------------------------------------------
(* TryAcquireForReap: called by the reaper and by waitLockReleased *)

\* Where a prober is between two probes.
Between(p) == IF p \in Reaper THEN "idle" ELSE "wait"

StartProbe(p) ==
  /\ p \in Prober
  /\ Goto(p, Between(p), "probe")
  /\ UNCHANGED <<file, fd, wfd, holds, seen, child>>

StatLock(p) ==
  /\ p \in Prober
  /\ Goto(p, "stat", IF path = 0 THEN Between(p) ELSE "popen")
  /\ UNCHANGED <<file, fd, wfd, holds, seen, child>>

\* Opened without O_CREATE: a file unlinked since the stat is an error, which
\* the reaper skips over and which ends a takeover.
OpenProbe(p) ==
  /\ p \in Prober
  /\ Goto(p, "popen", IF path # 0 THEN "pflock"
                      ELSE IF p \in Reaper THEN "idle" ELSE "exit")
  /\ fd' = [fd EXCEPT ![p] = path]
  /\ UNCHANGED <<file, wfd, holds, seen, child>>

\* Mutant: the probe writes its own metadata, as AcquireLock does.
ProbeAcquired_stamping(p) ==
  /\ p \in Prober
  /\ Goto(p, "pflock", "pheld")
  /\ FlockFree(p)
  /\ holds' = holds \cup {p}
  /\ meta' = p
  /\ UNCHANGED <<dir, path, created, fd, wfd, seen, child>>

ProbeAcquired(p) ==
  /\ p \in Prober
  /\ Goto(p, "pflock", "pheld")
  /\ FlockFree(p)
  /\ holds' = holds \cup {p}
  /\ UNCHANGED <<file, fd, wfd, seen, child>>

ProbeContended(p) ==
  /\ p \in Prober
  /\ Goto(p, "pflock", Between(p))
  /\ ~FlockFree(p)
  /\ fd' = [fd EXCEPT ![p] = 0]
  /\ UNCHANGED <<file, wfd, holds, seen, child>>

ReleaseProbe(p) ==
  /\ p \in Prober
  /\ Goto(p, "pheld", IF p \in Reaper THEN "idle" ELSE "spawn")
  /\ Close(p)
  /\ UNCHANGED <<file, seen, child>>

--------------------------------------------------------------------------------
(* takeoverIfHeld *)

\* run.Terminate: nothing to do for pid 0 or a process that is gone; otherwise
\* SIGTERM, which an orchestrator handles once it has the lock (before that it
\* may die of it: Crash) and a resume command always dies of.
Terminate(r) ==
  /\ r \in Resumer
  /\ pc[r] = "terminate"
  /\ \/ /\ ~IsAlive(seen[r])
        /\ pc' = [pc EXCEPT ![r] = "wait"]
        /\ UNCHANGED <<fd, wfd, holds>>
     \/ /\ seen[r] \in Orch /\ IsAlive(seen[r])
        /\ pc' = [pc EXCEPT ![r] = "grace"]
        /\ UNCHANGED <<fd, wfd, holds>>
     \/ /\ seen[r] \in Resumer /\ IsAlive(seen[r])
        /\ pc' = [pc EXCEPT ![r] = "grace", ![seen[r]] = "dead"]
        /\ Close(seen[r])
  /\ UNCHANGED <<file, seen, child>>

\* WaitForExit saw the process go, or the grace is over and SIGKILL is sent.
Escalate(r) ==
  /\ r \in Resumer
  /\ pc[r] = "grace"
  /\ IF IsAlive(seen[r])
       THEN /\ pc' = [pc EXCEPT ![r] = "wait", ![seen[r]] = "dead"]
            /\ Close(seen[r])
       ELSE /\ pc' = [pc EXCEPT ![r] = "wait"]
            /\ UNCHANGED <<fd, wfd, holds>>
  /\ UNCHANGED <<file, seen, child>>

\* Mutants: after the deadline the takeover goes on / the deadline is not kept.
WaitDeadline_proceeding(r) ==
  /\ r \in Resumer
  /\ Goto(r, "wait", "spawn")
  /\ UNCHANGED <<file, fd, wfd, holds, seen, child>>

WaitDeadline_never(r) ==
  /\ FALSE
  /\ UNCHANGED vars

\* waitLockReleased gives up after two graces.
WaitDeadline(r) ==
  /\ r \in Resumer
  /\ Goto(r, "wait", "exit")
  /\ UNCHANGED <<file, fd, wfd, holds, seen, child>>

\* runInlineOrchestrator: re-exec `j tasks orchestrate` ...
SpawnInline(r, q) ==
  /\ r \in Resumer /\ q \in Orch
  /\ pc[r] = "spawn" /\ pc[q] = "idle"
  /\ pc' = [pc EXCEPT ![r] = "inline", ![q] = "start"]
  /\ child' = [child EXCEPT ![r] = q]
  /\ UNCHANGED <<file, fd, wfd, holds, seen>>

\* ... and wait for it.
InlineDone(r) ==
  /\ r \in Resumer
  /\ Goto(r, "inline", "exit")
  /\ ~IsAlive(child[r])
  /\ UNCHANGED <<file, fd, wfd, holds, seen, child>>

--------------------------------------------------------------------------------
(* RemoveDir of a discard, and crashes *)

StartDiscard(d) ==
  /\ d \in Discarder
  /\ dir
  /\ Goto(d, "idle", "rm")
  /\ UNCHANGED <<file, fd, wfd, holds, seen, child>>

UnlinkLock(d) ==
  /\ d \in Discarder
  /\ Goto(d, "rm", "rmdir")
  /\ path' = 0 /\ meta' = Nobody
  /\ UNCHANGED <<dir, created, fd, wfd, holds, seen, child>>

\* The final rmdir fails when a lock file was created since: the discard ends
\* in an error and the directory stays.
RemoveTaskDir(d) ==
  /\ d \in Discarder
  /\ Goto(d, "rmdir", "exit")
  /\ dir' = (dir /\ path # 0)
  /\ UNCHANGED <<path, created, meta, fd, wfd, holds, seen, child>>

\* Any process may be killed at any point.
Crash(p) ==
  /\ IsAlive(p)
  /\ pc' = [pc EXCEPT ![p] = "dead"]
  /\ Close(p)
  /\ UNCHANGED <<file, seen, child>>

--------------------------------------------------------------------------------
AcquireLock(p) == EnsureDir(p) \/ OpenLock(p) \/ FlockAcquired(p)
                  \/ FlockContended(p) \/ ReadHolder(p)
                  \/ TruncateHolder(p) \/ WriteHolder(p)
TryAcquireForReap(p) == StatLock(p) \/ OpenProbe(p) \/ ProbeAcquired(p)
                        \/ ProbeContended(p) \/ ReleaseProbe(p)
TakeoverIfHeld(r) == Terminate(r) \/ Escalate(r) \/ WaitDeadline(r)
                     \/ InlineDone(r) \/ \E q \in Orch : SpawnInline(r, q)
RemoveDir(d) == StartDiscard(d) \/ UnlinkLock(d) \/ RemoveTaskDir(d)

Next ==
  \E p \in Proc : \/ AcquireLock(p) \/ TryAcquireForReap(p)
                  \/ TakeoverIfHeld(p) \/ RemoveDir(p)
                  \/ Launch(p) \/ UpdatePhase(p) \/ Release(p)
                  \/ StartProbe(p) \/ Crash(p)

Spec == Init /\ [][Next]_vars

\* A resume command keeps running until it ends; the deadline is looked at on
\* every round of the polling loop, so it cannot be missed for ever.  Nothing
\* is assumed of the holder, which may well never release.
Fairness ==
  \A r \in Resumer :
    /\ WF_vars(AcquireLock(r) \/ TryAcquireForReap(r) \/ Terminate(r)
               \/ Escalate(r) \/ StartProbe(r) \/ WaitDeadline(r))
    /\ SF_vars(WaitDeadline(r))

FairSpec == Spec /\ Fairness

--------------------------------------------------------------------------------
(* Properties *)

\* Two processes never own the lock of the task at the same time.  A discard
\* breaks it: it unlinks the file under the holder, and the next AcquireLock
\* locks a new inode.
AtMostOneHolder == \A p, q \in holds : p = q

\* No discard has got as far as unlinking the lock file.
Undiscarded == \A d \in Discarder : pc[d] \in {"idle", "rm"}

\* What is left of mutual exclusion: until a discard unlinks the file, whatever
\* crashes, takeovers, probes and metadata rewrites come in between, nobody
\* shares the lock.  It rests on .lock staying one inode for its whole life.
ExclusiveUntilDiscard == Undiscarded => AtMostOneHolder

\* Each discard can add at most one extra owner, the one it unlinked the file
\* under.
HoldersBoundedByDiscards ==
  Cardinality(holds) <= 1 + Cardinality({d \in Discarder : pc[d] \notin {"idle", "rm"}})

\* Once AcquireLock or UpdatePhase has returned, and until the next rewrite,
\* the metadata names the holder: what a takeover reads then is the process to
\* terminate.  Contenders open the same file and must leave its contents alone.
MetadataNamesHolder ==
  Undiscarded => \A p \in holds : pc[p] = "held" => meta = p

\* A takeover goes on to spawn its orchestrator only from a state in which
\* nobody else owns the lock: "so callers do not spawn into a still-locked
\* task" (resume_shared.go:99-100).
SpawnsIntoFreeTask ==
  [][\A r \in Resumer :
        (pc[r] # "spawn" /\ pc'[r] = "spawn" /\ Undiscarded) => holds \subseteq {r}]_vars

\* A takeover comes to an end even when the holder cannot be identified and
\* never releases: waitLockReleased has a deadline.
TakeoverEnds == \A r \in Resumer : pc[r] = "terminate" ~> pc[r] \notin Taking

\* The lock as its callers see it.
Mutex == INSTANCE TaskMutex
         WITH owner <- IF holds = {} THEN Nobody ELSE CHOOSE p \in holds : TRUE
\* Without discards the protocol implements the abstract lock.
ImplementsMutex == Mutex!Spec
================================================================================
