------------------------------ MODULE TaskLifecycle ------------------------------
(***************************************************************************)
(* The life of one task: its row (task.toml), the files agents leave in    *)
(* its directory, and the processes that read and write them:              *)
(*   Orch    `j tasks orchestrate`: takes the lock, runs the phases, each  *)
(*           one a read of the row, a begin write of the row as it was     *)
(*           read, a coding agent, a finish write of that copy             *)
(*   cli     the user's `j tasks start | continue | resume-* | discard`    *)
(*   Reaper  `j tasks`, which finalises rows nobody works on               *)
(* and the coding agents themselves, processes of their own that survive   *)
(* an orchestrator that is killed.  The lock is the abstract TaskMutex.    *)
(***************************************************************************)
EXTENDS TaskFSM, Naturals, Sequences, FiniteSets

CONSTANTS
  Orch,                  \* orchestrator processes, each launched at most once
  Reaper,                \* `j tasks` processes
  Nobody,
  MaxIterations,         \* verify turns before the fix loop gives up
  PlanRequiresApproval,  \* the project setting
  Commands               \* what happens in this instance (see AllCommands)

AllCommands == {"start", "override", "detach", "replan", "continue", "resume",
                "discard", "kill"}

ASSUME LifecycleAssumption ==
  /\ Nobody \notin Orch \cup Reaper /\ Orch \cap Reaper = {}
  /\ MaxIterations \in Nat \ {0}
  /\ PlanRequiresApproval \in BOOLEAN
  /\ Commands \subseteq AllCommands

VARIABLES
  row,      \* what task.toml holds
  files,    \* plan: plan.md exists, clar: clarification.md exists,
            \* pass: the last line of verifier_findings.md is VERDICT: PASS
  lockFile, \* .lock exists
  owner,    \* who has the lock
  orch,     \* per orchestrator: pc, the phases still to run, its copy of the
            \* row, the verify turn, the outcome of the phase
  orphans,  \* agents that outlived their orchestrator: <<orchestrator, phase>>
  cli,      \* the user's command: the step it is at and the one after it, the row
            \* it read, the phases of the orchestrator it will launch
  reaper    \* per reaper: pc and row it listed

vars == <<row, files, lockFile, owner, orch, orphans, cli, reaper>>

Phases == {"plan", "work", "verify"}

NoRow == [status |-> New, sess |-> {}, ended |-> {}, worked |-> FALSE, done |-> FALSE]

\* status, the phases with a resume session, the end times as their order (the
\* pairs <<p, q>> of phases that have one, p's not after q's), WorkBeginAt set,
\* DoneAt set.
Rows == [status : Statuses \cup {New}, sess : SUBSET Phases,
         ended : SUBSET (Phases \X Phases), worked : BOOLEAN, done : BOOLEAN]

Full     == <<"plan", "work", "guard", "verify">>
FromWork == <<"work", "guard", "verify">>
Chains   == {Full, FromWork, <<"plan">>, <<"work">>, <<"verify">>}
Todos    == {<<>>, <<"guard", "verify">>} \cup Chains

OrchPCs == {"idle", "lock", "next", "begin", "agent", "judge", "fix", "finish",
            "stamp", "release", "done", "dead", "panic"}
Running == OrchPCs \ {"idle", "done", "dead", "panic"}

\* The steps of the user's commands.
Steps == {"none", "spawn", "persist", "stamp", "stampw", "dispatch", "takeover",
          "wait", "delete", "rmdir"}

IdleOrch == [pc |-> "idle", todo |-> <<>>, task |-> NoRow, turn |-> 0,
             outcome |-> "none"]
IdleCli == [step |-> "none", next |-> "none", task |-> NoRow, todo |-> <<>>]
IdleReaper == [pc |-> "idle", task |-> NoRow]

TypeOK ==
  /\ row \in Rows
  /\ files \in [plan : BOOLEAN, clar : BOOLEAN, pass : BOOLEAN]
  /\ lockFile \in BOOLEAN
  /\ owner \in Orch \cup Reaper \cup {Nobody}
  /\ orch \in [Orch -> [pc : OrchPCs, todo : Todos, task : Rows, turn : 0..MaxIterations,
                        outcome : {"none", "error", "pass", "fail"}]]
  /\ orphans \subseteq Orch \X Phases
  /\ cli \in [step : Steps, next : Steps, task : Rows, todo : Todos]
  /\ reaper \in [Reaper -> [pc : {"idle", "listed", "probed", "reap"}, task : Rows]]

Init ==
  /\ row = NoRow
  /\ files = [plan |-> FALSE, clar |-> FALSE, pass |-> FALSE]
  /\ lockFile = FALSE /\ owner = Nobody
  /\ orch = [o \in Orch |-> IdleOrch]
  /\ orphans = {}
  /\ cli = IdleCli
  /\ reaper = [k \in Reaper |-> IdleReaper]

Lock == INSTANCE TaskMutex WITH Proc <- Orch \cup Reaper

--------------------------------------------------------------------------------
(* Rows *)

Stamped(t, e) ==
  LET to == Apply(t.status, e)
  IN  [t EXCEPT !.status = to, !.done = @ \/ to = "completed"]

\* Mutant: the copy is written although the transition is illegal.
ApplyAndPersist_always(t, e) == row' = IF Legal(t.status, e) THEN Stamped(t, e) ELSE t

\* ApplyAndPersist[Warn] of event e to the copy t: the copy afterwards, and
\* the row on disk.  An illegal transition leaves both untouched.
Applied(t, e) == IF Legal(t.status, e) THEN Stamped(t, e) ELSE t
ApplyAndPersist(t, e) == row' = IF Legal(t.status, e) THEN Stamped(t, e) ELSE row

\* The phase's EndAt is cleared / set to now.
Cleared(t, p) == [t EXCEPT !.ended = {e \in @ : e[1] # p /\ e[2] # p}]
Ended(t, p) == [Cleared(t, p) EXCEPT !.ended = @ \cup {<<p, p>>} \cup {<<e[1], p>> : e \in @}]

\* The phase with the latest EndAt, else the last phase with a session.
latestPhase(t) ==
  LET last == {p \in Phases : <<p, p>> \in t.ended /\ \A e \in t.ended : <<e[1], p>> \in t.ended}
  IN
  IF last # {} THEN CHOOSE p \in last : TRUE
  ELSE IF "verify" \in t.sess THEN "verify"
  ELSE IF "work" \in t.sess THEN "work"
  ELSE IF "plan" \in t.sess THEN "plan"
  ELSE "none"

--------------------------------------------------------------------------------
(* j tasks orchestrate *)

Step(o, from, new) == orch[o].pc = from /\ orch' = [orch EXCEPT ![o] = new]

AcquireLock(o) ==
  /\ Step(o, "lock", [orch[o] EXCEPT !.pc = "next"])
  /\ Lock!Acquire(o)
  /\ lockFile' = TRUE
  /\ UNCHANGED <<row, files, orphans, cli, reaper>>

Contended(o) ==
  /\ Step(o, "lock", [IdleOrch EXCEPT !.pc = "done"])
  /\ owner # Nobody
  /\ UNCHANGED <<row, files, lockFile, owner, orphans, cli, reaper>>

Phase(o) == IF orch[o].todo = <<>> THEN "none" ELSE Head(orch[o].todo)

AtPhase(o, p) == orch[o].pc = "next" /\ Phase(o) = p

Unresolvable(o) ==
  \/ row = NoRow
  \/ Phase(o) = "work" /\ ~files.plan
  \/ Phase(o) = "verify" /\ "verify" \notin row.sess /\ (~files.plan \/ ~row.worked)

\* ResolvePlanTask, ResolveWorkPlan, ResolveVerifyTask: the phase reads the row.
Resolve(o) ==
  /\ orch[o].pc = "next" /\ Phase(o) \in Phases
  /\ ~Unresolvable(o)
  /\ orch' = [orch EXCEPT ![o].pc = "begin", ![o].task = row]
  /\ UNCHANGED <<row, files, lockFile, owner, orphans, cli, reaper>>

\* The phase cannot even begin: the row or plan.md is missing, no worker was
\* ever recorded to fix findings, or no agent can be picked (the planner's before
\* the row is read, the others' after).  The error ends the chain.
ResolveFails(o) ==
  /\ \/ orch[o].pc = "next" /\ Phase(o) \in Phases /\ (Unresolvable(o) \/ Phase(o) = "plan")
     \/ orch[o].pc = "begin" /\ Phase(o) # "plan"
  /\ orch' = [orch EXCEPT ![o].pc = "release", ![o].task = NoRow]
  /\ UNCHANGED <<row, files, lockFile, owner, orphans, cli, reaper>>

\* Between the read and the begin write the agent is picked and may be asked for
\* a session id: the copy is what the begin writes go by.
AtBegin(o, p) == orch[o].pc = "begin" /\ Phase(o) = p

\* The agent is started with the lifecycle's copy of the row.
StartAgent(o, t, turn) ==
  /\ orch' = [orch EXCEPT ![o].pc = "agent", ![o].task = t, ![o].turn = turn]
  /\ UNCHANGED <<files, lockFile, owner, orphans, cli, reaper>>

\* BeginPlanResume does not swallow the illegal transition.
BeginPlanResume(o) ==
  /\ AtBegin(o, "plan") /\ "plan" \in orch[o].task.sess
  /\ IF Legal(orch[o].task.status, "PlanResume")
       THEN LET t == Stamped([Cleared(orch[o].task, "plan") EXCEPT !.done = FALSE],
                             "PlanResume")
            IN  row' = t /\ StartAgent(o, t, 0)
       ELSE /\ orch' = [orch EXCEPT ![o] = [IdleOrch EXCEPT !.pc = "panic"]]
            /\ owner' = IF owner = o THEN Nobody ELSE owner
            /\ UNCHANGED <<row, files, lockFile, orphans, cli, reaper>>

\* id: what NewResumeID returned (a backend may only know it later: Capture).
BeginPlan(o) ==
  /\ AtBegin(o, "plan") /\ "plan" \notin orch[o].task.sess
  /\ \E id \in {{}, {"plan"}} :
       LET existing == [orch[o].task EXCEPT !.sess = @ \cup id]
           restart  == [Cleared(existing, "plan") EXCEPT !.done = FALSE]
       IN  IF orch[o].task.status = "planning"
             THEN row' = existing /\ StartAgent(o, existing, 0)
             ELSE /\ ApplyAndPersist(restart, "PlanRestart")
                  /\ StartAgent(o, Applied(restart, "PlanRestart"), 0)

BeginWork(o) ==
  /\ AtBegin(o, "work")
  /\ \E id \in {{}, {"work"}} :
       LET resume == "work" \in orch[o].task.sess
           e == IF resume THEN "WorkResume" ELSE "WorkRestart"
           t == [Cleared(orch[o].task, "work") EXCEPT !.done = FALSE, !.worked = TRUE,
                                                      !.sess = @ \cup id]
       IN  /\ resume => id = {}
           /\ ApplyAndPersist(t, e)
           /\ StartAgent(o, Applied(t, e), 0)

\* Mutant: DoneAt is not cleared.
BeginVerify_keepsDone(o) ==
  /\ AtBegin(o, "verify")
  /\ \E id \in {{}, {"verify"}} :
       LET resume == "verify" \in orch[o].task.sess
           e == IF resume THEN "VerifyResume" ELSE "VerifyBegin"
           t == [Cleared(orch[o].task, "verify") EXCEPT !.sess = @ \cup id]
       IN  /\ resume => id = {}
           /\ ApplyAndPersist(t, e)
           /\ StartAgent(o, Applied(t, e), IF resume THEN MaxIterations ELSE 1)

\* A row with a verify session gets one resumed turn, without the fix loop.
BeginVerify(o) ==
  /\ AtBegin(o, "verify")
  /\ \E id \in {{}, {"verify"}} :
       LET resume == "verify" \in orch[o].task.sess
           e == IF resume THEN "VerifyResume" ELSE "VerifyBegin"
           t == [Cleared(orch[o].task, "verify") EXCEPT !.done = FALSE, !.sess = @ \cup id]
       IN  /\ resume => id = {}
           /\ ApplyAndPersist(t, e)
           /\ StartAgent(o, Applied(t, e), IF resume THEN MaxIterations ELSE 1)

\* Mutant: the status is not looked at.
VerifyGuard_open(o) ==
  /\ AtPhase(o, "guard")
  /\ orch' = [orch EXCEPT ![o].todo = Tail(@)]
  /\ UNCHANGED <<row, files, lockFile, owner, orphans, cli, reaper>>

\* skipVerifyOnClarification: the row as it is now decides.
VerifyGuard(o) ==
  /\ AtPhase(o, "guard")
  /\ orch' = [orch EXCEPT ![o].todo = IF row.status = "needs-clarification"
                                        THEN <<>> ELSE Tail(@)]
  /\ UNCHANGED <<row, files, lockFile, owner, orphans, cli, reaper>>

\* RecordResumeSession: the id shows up while the first turn runs, and the
\* whole copy of the row is written.
Capture(o) ==
  /\ orch[o].pc = "agent" /\ orch[o].turn <= 1
  /\ Phase(o) \notin orch[o].task.sess
  /\ LET t == [orch[o].task EXCEPT !.sess = @ \cup {Phase(o)}]
     IN  row' = t /\ orch' = [orch EXCEPT ![o].task = t]
  /\ UNCHANGED <<files, lockFile, owner, orphans, cli, reaper>>

\* The agent the orchestrator waits for, if any: the worker's during a fix turn.
Agent(o) == CASE orch[o].pc = "agent" -> {<<o, Phase(o)>>}
              [] orch[o].pc = "fix" -> {<<o, "work">>}
              [] OTHER -> {}

\* What an agent of phase p may leave behind: the planner a plan, the verifier
\* a verdict, any of them a question (or the removal of the answered one).
AgentWrites(p) ==
  \E plan, clar, pass \in BOOLEAN :
    /\ files' = [plan |-> plan, clar |-> clar, pass |-> pass]
    /\ IF p = "plan" THEN files.plan => plan ELSE plan = files.plan
    /\ p = "verify" \/ pass = files.pass

AgentExits(o) ==
  /\ orch[o].pc = "agent"
  /\ AgentWrites(Phase(o))
  /\ orch' = [orch EXCEPT ![o].pc = IF Phase(o) = "verify" THEN "judge" ELSE "finish"]
  /\ UNCHANGED <<row, lockFile, owner, orphans, cli, reaper>>

\* Mutant: the agent of a cancelled context is left running.
AgentFails_detached(o) ==
  /\ orch[o].pc \in {"agent", "fix"}
  /\ orch' = [orch EXCEPT ![o].pc = "finish", ![o].outcome = "error"]
  /\ orphans' = orphans \cup Agent(o)
  /\ UNCHANGED <<row, files, lockFile, owner, cli, reaper>>

\* The agent did not start, or the context was cancelled (which kills it).
AgentFails(o) ==
  /\ orch[o].pc \in {"agent", "fix"}
  /\ orch' = [orch EXCEPT ![o].pc = "finish", ![o].outcome = "error"]
  /\ UNCHANGED <<row, files, lockFile, owner, orphans, cli, reaper>>

\* Mutant: one fix turn too many.
Judge_offByOne(o) ==
  /\ orch[o].pc = "judge"
  /\ orch' = [orch EXCEPT ![o] =
       IF files.pass THEN [@ EXCEPT !.pc = "finish", !.outcome = "pass"]
       ELSE IF @.turn > MaxIterations THEN [@ EXCEPT !.pc = "finish", !.outcome = "fail"]
       ELSE [@ EXCEPT !.pc = "fix"]]
  /\ UNCHANGED <<row, files, lockFile, owner, orphans, cli, reaper>>

\* finishVerifyIteration
Judge(o) ==
  /\ orch[o].pc = "judge"
  /\ orch' = [orch EXCEPT ![o] =
       IF files.pass THEN [@ EXCEPT !.pc = "finish", !.outcome = "pass"]
       ELSE IF @.turn = MaxIterations THEN [@ EXCEPT !.pc = "finish", !.outcome = "fail"]
       ELSE [@ EXCEPT !.pc = "fix"]]
  /\ UNCHANGED <<row, files, lockFile, owner, orphans, cli, reaper>>

\* Mutant: the fix loop does not count.
FixExits_uncounted(o) ==
  /\ orch[o].pc = "fix"
  /\ AgentWrites("work")
  /\ orch' = [orch EXCEPT ![o].pc = "agent"]
  /\ UNCHANGED <<row, lockFile, owner, orphans, cli, reaper>>

FixExits(o) ==
  /\ orch[o].pc = "fix"
  /\ AgentWrites("work")
  /\ orch' = [orch EXCEPT ![o].pc = "agent", ![o].turn = @ + 1]
  /\ UNCHANGED <<row, lockFile, owner, orphans, cli, reaper>>

PlanFinishEvent(err) ==
  IF err THEN "PlanError"
  ELSE IF files.clar THEN "PlanNeedsClarification"
  ELSE IF PlanRequiresApproval THEN "PlanAwaitApproval" ELSE "PlanDone"

WorkFinishEvent(err) ==
  IF err THEN "WorkError"
  ELSE IF files.clar THEN "WorkNeedsClarification" ELSE "WorkDone"

VerifyFinishEvent(outcome) ==
  IF outcome = "error" THEN "VerifyError"
  ELSE IF files.clar THEN "VerifyNeedsClarification"
  ELSE IF outcome = "pass" THEN "VerifyPass" ELSE "VerifyFail"

\* Mutant: the phase's end time is not recorded.
Finish_unstamped(o) ==
  /\ orch[o].pc = "finish"
  /\ LET err == orch[o].outcome = "error"
         e == CASE Phase(o) = "plan"   -> PlanFinishEvent(err)
                [] Phase(o) = "work"   -> WorkFinishEvent(err)
                [] Phase(o) = "verify" -> VerifyFinishEvent(orch[o].outcome)
     IN  /\ ApplyAndPersist(orch[o].task, e)
         /\ orch' = [orch EXCEPT ![o].pc = IF err THEN "release" ELSE "next",
                                 ![o].todo = Tail(@), ![o].task = NoRow,
                                 ![o].turn = 0, ![o].outcome = "none"]
  /\ UNCHANGED <<files, lockFile, owner, orphans, cli, reaper>>

\* The end of a phase: stamp the copy, write it, go on unless it failed.
Finish(o) ==
  /\ orch[o].pc = "finish"
  /\ LET err == orch[o].outcome = "error"
         e == CASE Phase(o) = "plan"   -> PlanFinishEvent(err)
                [] Phase(o) = "work"   -> WorkFinishEvent(err)
                [] Phase(o) = "verify" -> VerifyFinishEvent(orch[o].outcome)
     IN  /\ ApplyAndPersist(Ended(orch[o].task, Phase(o)), e)
         /\ orch' = [orch EXCEPT ![o].pc = IF err THEN "release" ELSE "next",
                                 ![o].todo = Tail(@), ![o].task = NoRow,
                                 ![o].turn = 0, ![o].outcome = "none"]
  /\ UNCHANGED <<files, lockFile, owner, orphans, cli, reaper>>

\* finaliseVerifyFailIfStuck, after the last phase: GetTask ...
FinaliseRead(o) ==
  /\ AtPhase(o, "none")
  /\ orch' = [orch EXCEPT ![o].pc = IF row = NoRow THEN "release" ELSE "stamp",
                          ![o].task = row]
  /\ UNCHANGED <<row, files, lockFile, owner, orphans, cli, reaper>>

\* ... and VerifyStuck, legal only from verifying.
FinaliseWrite(o) ==
  /\ Step(o, "stamp", [orch[o] EXCEPT !.pc = "release", !.task = NoRow])
  /\ ApplyAndPersist(orch[o].task, "VerifyStuck")
  /\ UNCHANGED <<files, lockFile, owner, orphans, cli, reaper>>

\* After a discard the descriptor may be that of an unlinked file.
ReleaseLock(o) ==
  /\ Step(o, "release", [IdleOrch EXCEPT !.pc = "done"])
  /\ owner' = IF owner = o THEN Nobody ELSE owner
  /\ UNCHANGED <<row, files, lockFile, orphans, cli, reaper>>

Dies(o) ==
  /\ orch' = [orch EXCEPT ![o] = [IdleOrch EXCEPT !.pc = "dead"]]
  /\ owner' = IF owner = o THEN Nobody ELSE owner
  /\ orphans' = orphans \cup Agent(o)
  /\ UNCHANGED <<row, files, lockFile>>

Kill(o) ==
  /\ "kill" \in Commands
  /\ orch[o].pc \in Running
  /\ Dies(o)
  /\ UNCHANGED <<cli, reaper>>

\* Agents run in a session of their own and go on without their parent.
OrphanExits(a) ==
  /\ a \in orphans
  /\ orphans' = orphans \ {a}
  /\ AgentWrites(a[2])
  /\ UNCHANGED <<row, lockFile, owner, orch, cli, reaper>>

--------------------------------------------------------------------------------
(* The user's commands, one at a time *)

Command(c) == c \in Commands /\ cli = IdleCli

\* A command that goes on with `first` and then `last`, and launches an
\* orchestrator for the phases todo when one of them is spawn.
Run(first, last, todo) ==
  cli' = [step |-> first, next |-> last, task |-> NoRow, todo |-> todo]

RunDetached(last, todo) == "detach" \in Commands /\ Run("spawn", last, todo)

PlanChain(gate) == IF gate THEN <<"plan">> ELSE Full

\* A new task: the inline start writes the row and launches, the detached one
\* launches and writes.
Start ==
  /\ Command("start")
  /\ \A o \in Orch : orch[o] = IdleOrch
  /\ \E gate \in {PlanRequiresApproval} \cup (IF "override" \in Commands THEN BOOLEAN ELSE {}) :
       \/ Run("persist", "spawn", PlanChain(gate))
       \/ RunDetached("persist", PlanChain(gate))
  /\ UNCHANGED <<row, files, lockFile, owner, orch, orphans, reaper>>

\* `start --from-task` with --yes or a confirmed override: any status.
Replan ==
  /\ Command("replan")
  /\ row # NoRow
  /\ Run("stamp", "spawn", <<"plan">>) \/ RunDetached("stamp", <<"plan">>)
  /\ UNCHANGED <<row, files, lockFile, owner, orch, orphans, reaper>>

Continue ==
  /\ Command("continue")
  /\ row # NoRow
  /\ cli' = [IdleCli EXCEPT !.step = "dispatch", !.task = row]
  /\ UNCHANGED <<row, files, lockFile, owner, orch, orphans, reaper>>

At(step) == cli.step = step

ResumeChain(p) == CASE p = "verify" -> <<"verify">>
                    [] p = "work" -> FromWork
                    [] p = "plan" -> PlanChain(PlanRequiresApproval)

\* dispatchByStatus, on the row read before.
DispatchPlanApprove ==
  /\ At("dispatch") /\ cli.task.status = "plan-pending-approval"
  /\ ApplyAndPersist(cli.task, "PlanApprove")
  /\ Run("spawn", "none", FromWork) \/ RunDetached("stamp", FromWork)
  /\ UNCHANGED <<files, lockFile, owner, orch, orphans, reaper>>

DispatchClarification ==
  /\ At("dispatch") /\ cli.task.status = "needs-clarification"
  /\ LET p == latestPhase(cli.task) IN
       /\ p # "none"
       /\ ApplyAndPersist(cli.task, CASE p = "verify" -> "VerifyResume"
                                     [] p = "work" -> "WorkResume"
                                     [] p = "plan" -> "PlanResume")
       /\ Run("spawn", "none", ResumeChain(p))
  /\ UNCHANGED <<files, lockFile, owner, orch, orphans, reaper>>

Dispatch ==
  /\ At("dispatch")
  /\ LET st == cli.task.status
         p == latestPhase(cli.task) IN
     \/ /\ st = "plan-done"
        /\ Run("spawn", "none", FromWork) \/ RunDetached("stamp", FromWork)
     \/ st = "work-done" /\ Run("spawn", "stamp", <<"verify">>)
     \/ st = "verifying" /\ Run("spawn", "none", <<"verify">>)
     \/ st = "help" /\ p # "none" /\ Run("spawn", "none", ResumeChain(p))
     \/ /\ \/ st \in {"planning", "working", "failed", "completed"}
           \/ st \in {"help", "needs-clarification"} /\ p = "none"
        /\ cli' = IdleCli
  /\ UNCHANGED <<row, files, lockFile, owner, orch, orphans, reaper>>

\* resume-plan, resume-work, resume-verify: a session, and the gate.
Resume(p) ==
  /\ Command("resume")
  /\ p \in row.sess
  /\ p \in {"work", "verify"} => files.plan
  /\ p = "verify" => row.worked \/ "work" \in row.sess
  /\ Run("takeover", "spawn", <<p>>)
  /\ UNCHANGED <<row, files, lockFile, owner, orch, orphans, reaper>>

Discard ==
  /\ Command("discard")
  /\ row # NoRow
  /\ Run("delete", "rmdir", <<>>)
  /\ UNCHANGED <<row, files, lockFile, owner, orch, orphans, reaper>>

Done == cli' = IF cli.next = "none" THEN IdleCli
               ELSE [cli EXCEPT !.step = cli.next, !.next = "none", !.task = NoRow]

PersistStartRow ==
  /\ At("persist") /\ Done
  /\ row' = Stamped(NoRow, "PlanBegin")
  /\ UNCHANGED <<files, lockFile, owner, orch, orphans, reaper>>

Spawn(o) ==
  /\ At("spawn") /\ Done
  /\ Step(o, "idle", [IdleOrch EXCEPT !.pc = "lock", !.todo = cli.todo])
  /\ UNCHANGED <<row, files, lockFile, owner, orphans, reaper>>

\* stampSpawnOnRow reads the row and writes it back with the log path.
StampRead ==
  /\ At("stamp")
  /\ IF row = NoRow THEN Done
     ELSE cli' = [cli EXCEPT !.step = "stampw", !.task = row]
  /\ UNCHANGED <<row, files, lockFile, owner, orch, orphans, reaper>>

StampWrite ==
  /\ At("stampw") /\ Done
  /\ row' = cli.task
  /\ UNCHANGED <<files, lockFile, owner, orch, orphans, reaper>>

\* takeoverIfHeld: AcquireLock and Release, or SIGTERM and wait.  An
\* orchestrator ends its phase in AgentFails when its context is cancelled.
Takeover ==
  /\ At("takeover")
  /\ IF owner = Nobody THEN Done ELSE cli' = [cli EXCEPT !.step = "wait"]
  /\ lockFile' = TRUE
  /\ UNCHANGED <<row, files, owner, orch, orphans, reaper>>

TakeoverDrained ==
  /\ At("wait") /\ Done
  /\ owner = Nobody
  /\ UNCHANGED <<row, files, lockFile, owner, orch, orphans, reaper>>

\* Mutant: the lock is broken without killing its holder.
TakeoverKill_breaking(o) ==
  /\ At("wait")
  /\ owner = o
  /\ owner' = Nobody
  /\ UNCHANGED <<row, files, lockFile, orch, orphans, cli, reaper>>

\* The grace is over: SIGKILL.
TakeoverKill(o) ==
  /\ At("wait")
  /\ owner = o
  /\ Dies(o)
  /\ UNCHANGED <<cli, reaper>>

TakeoverGivesUp ==
  /\ At("wait")
  /\ cli' = IdleCli
  /\ UNCHANGED <<row, files, lockFile, owner, orch, orphans, reaper>>

DeleteTask ==
  /\ At("delete") /\ Done
  /\ row' = NoRow
  /\ UNCHANGED <<files, lockFile, owner, orch, orphans, reaper>>

\* The lock file goes too: whoever holds the unlinked one is no longer in
\* anybody's way.
RemoveDir ==
  /\ At("rmdir") /\ Done
  /\ row' = NoRow
  /\ files' = [plan |-> FALSE, clar |-> FALSE, pass |-> FALSE]
  /\ lockFile' = FALSE
  /\ owner' = Nobody
  /\ UNCHANGED <<orch, orphans, reaper>>

--------------------------------------------------------------------------------
(* `j tasks` *)

Reaped(k, new) == reaper' = [reaper EXCEPT ![k] = new]

\* Mutant: maybeReap has no case for working rows.
ListTasks_planning(k) ==
  /\ reaper[k].pc = "idle"
  /\ row.status = "planning"
  /\ Reaped(k, [pc |-> "listed", task |-> row])
  /\ UNCHANGED <<row, files, lockFile, owner, orch, orphans, cli>>

ListTasks(k) ==
  /\ reaper[k].pc = "idle"
  /\ row.status \in {"planning", "working"}
  /\ Reaped(k, [pc |-> "listed", task |-> row])
  /\ UNCHANGED <<row, files, lockFile, owner, orch, orphans, cli>>

ProbeAcquired(k) ==
  /\ reaper[k].pc = "listed"
  /\ lockFile
  /\ Lock!Acquire(k)
  /\ Reaped(k, [reaper[k] EXCEPT !.pc = "probed"])
  /\ UNCHANGED <<row, files, lockFile, orch, orphans, cli>>

ProbeRefused(k) ==
  /\ reaper[k].pc = "listed"
  /\ ~lockFile \/ owner # Nobody
  /\ Reaped(k, IdleReaper)
  /\ UNCHANGED <<row, files, lockFile, owner, orch, orphans, cli>>

\* The probe is released before the row is finalised.
ReleaseProbe(k) ==
  /\ reaper[k].pc = "probed"
  /\ owner' = IF owner = k THEN Nobody ELSE owner
  /\ Reaped(k, [reaper[k] EXCEPT !.pc = "reap"])
  /\ UNCHANGED <<row, files, lockFile, orch, orphans, cli>>

\* reqs: requirements.md can be read.
PlanReapEvent(reqs) == IF files.clar THEN "ReaperPlanNeedsClarification"
                       ELSE IF ~reqs \/ ~files.plan THEN "ReaperPlanFail"
                       ELSE IF PlanRequiresApproval THEN "ReaperPlanAwaitApproval"
                       ELSE "ReaperPlanDone"

WorkReapEvent == IF files.clar THEN "ReaperWorkNeedsClarification" ELSE "ReaperWorkDone"

FinalisePlanReap(k) ==
  /\ reaper[k].pc = "reap" /\ reaper[k].task.status = "planning"
  /\ \E reqs \in BOOLEAN :
       ApplyAndPersist(Ended(reaper[k].task, "plan"), PlanReapEvent(reqs))
  /\ Reaped(k, IdleReaper)
  /\ UNCHANGED <<files, lockFile, owner, orch, orphans, cli>>

FinaliseWorkReap(k) ==
  /\ reaper[k].pc = "reap" /\ reaper[k].task.status = "working"
  /\ ApplyAndPersist(Ended(reaper[k].task, "work"), WorkReapEvent)
  /\ Reaped(k, IdleReaper)
  /\ UNCHANGED <<files, lockFile, owner, orch, orphans, cli>>

--------------------------------------------------------------------------------
Orchestrate(o) ==
  \/ AcquireLock(o) \/ Contended(o) \/ Resolve(o) \/ ResolveFails(o)
  \/ BeginPlanResume(o) \/ BeginPlan(o) \/ BeginWork(o) \/ BeginVerify(o)
  \/ VerifyGuard(o) \/ AgentExits(o) \/ AgentFails(o) \/ Judge(o) \/ FixExits(o)
  \/ Finish(o) \/ FinaliseRead(o) \/ FinaliseWrite(o) \/ ReleaseLock(o)

Issue ==
  \/ Start \/ Replan \/ Continue \/ Discard
  \/ \E p \in Phases : Resume(p)

Carry ==
  \/ DispatchPlanApprove \/ DispatchClarification \/ Dispatch
  \/ PersistStartRow \/ StampRead \/ StampWrite
  \/ Takeover \/ TakeoverDrained \/ TakeoverGivesUp
  \/ DeleteTask \/ RemoveDir
  \/ \E o \in Orch : Spawn(o) \/ TakeoverKill(o)

Reap(k) ==
  \/ ListTasks(k) \/ ProbeAcquired(k) \/ ProbeRefused(k) \/ ReleaseProbe(k)
  \/ FinalisePlanReap(k) \/ FinaliseWorkReap(k)

Next ==
  \/ \E o \in Orch : Orchestrate(o) \/ Capture(o) \/ Kill(o)
  \/ \E a \in orphans : OrphanExits(a)
  \/ Issue \/ Carry
  \/ \E k \in Reaper : Reap(k)

Spec == Init /\ [][Next]_vars

\* The scheduler runs every orchestrator, and agents exit (the code has no
\* timeout for them).  Nothing is promised of Capture, the user or kills.
OrchFairness == \A o \in Orch : WF_vars(Orchestrate(o))
\* A watching `j tasks` refreshes on every tick.
ReapFairness == \A k \in Reaper : WF_vars(Reap(k))
FairSpec == Spec /\ OrchFairness /\ ReapFairness

--------------------------------------------------------------------------------
(* Properties *)

Working(o, p) == orch[o].pc = "agent" /\ Phase(o) = p

\* However tasks are started, resumed and taken over, the agents at work on one
\* task, those that outlived their orchestrator included, are one and at most
\* one more for every orchestrator that was killed: a cancelled phase leaves no
\* agent behind, and the phases of live orchestrators never overlap.
Agents == orphans \cup UNION {Agent(o) : o \in Orch}
AgentsBounded ==
  Cardinality(Agents) <= 1 + Cardinality({o \in Orch : orch[o].pc = "dead"})

\* DoneAt "records a successful completion" (apply_persist.go:65-68): however
\* a completed task is restarted, resumed or re-planned, no later row keeps it.
DoneMeansCompleted == row.done => row.status = "completed"

\* Whatever asks the user for help can be continued: dispatchClarification and
\* dispatchHelp always find a phase to resume.
AlwaysResumable ==
  row.status \in {"needs-clarification", "help"} => latestPhase(row) # "none"

\* The phase `continue` would resume is the one that asked: it does not change
\* while the question is open.
AskerKept ==
  [][(row.status = "needs-clarification" /\ row'.status = "needs-clarification")
       => latestPhase(row') = latestPhase(row)]_vars

\* Every change of the status on disk is an edge of the transition table, "the
\* single source of truth" (fsm.go:5): no read-modify-write of the row undoes
\* another one.
StatusFollowsTable ==
  [][row'.status # row.status =>
        \E t \in transitions : t.From = row.status /\ t.To = row'.status]_vars

\* "the verifier does NOT run on the same orchestrator invocation" when the
\* worker asked a question (verify_guard.go:12-17), or any other time one is open.
VerifierWaitsForAnswer ==
  row.status = "needs-clarification" => \A o \in Orch : ~Working(o, "verify")

\* An orchestrator that got the lock or was refused it comes to an end,
\* whatever the verdicts are.
OrchEnds ==
  \A o \in Orch : (orch[o].pc \in Running) ~> (orch[o].pc \in {"done", "dead", "panic"})

NobodyWorks == \A o \in Orch : orch[o].pc \notin Running

\* The row of an orchestrator that died in a planning or working phase is
\* finalised by `j tasks`, unless someone goes on with the task.
InFlightReaped ==
  (row.status \in {"planning", "working"} /\ NobodyWorks /\ lockFile)
    ~> (row.status \notin {"planning", "working"} \/ ~NobodyWorks \/ ~lockFile)

--------------------------------------------------------------------------------
(* What comments and documents say and the code does not do *)

\* "only entries whose per-task lock file is no longer held are touched"
\* (cmd.go:82-83).
ReapsOnlyUnheld ==
  [][(\E k \in Reaper : reaper[k].pc = "reap" /\ reaper'[k].pc = "idle" /\ row' # row)
        => owner = Nobody]_vars

\* "PASS finalises the task as `completed`" (status.go:12-14).
PassCompletes ==
  [][\A o \in Orch :
        (orch[o].pc = "finish" /\ orch'[o].pc = "next" /\ Phase(o) = "verify"
           /\ orch[o].outcome = "pass" /\ ~files.clar) => row'.status = "completed"]_vars

\* `resume-plan` "resumes the prior agent session when one exists"
\* (README.md:66): it does not crash.
NoPanic == \A o \in Orch : orch[o].pc # "panic"

\* plan-pending-approval: "the planner finished but the user hasn't approved yet"
\* (status.go:17-18): no worker runs on such a row.
PlanGate ==
  row.status = "plan-pending-approval" => \A o \in Orch : ~Working(o, "work")
================================================================================
