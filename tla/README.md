# Verification of `j`

`j` drives coding agents (cursor, codex, claude, deepseek) through the life of a
task: a planner writes `plan.md`, a worker carries it out, a verifier judges the
result and has it fixed until it passes. There is no server. Every command is a
process of its own, and all of them share a directory per task,
`.j/tasks/<id>/`, which holds the row (`task.toml`), an advisory lock (`.lock`)
and the files the agents leave (`requirements.md`, `plan.md`,
`clarification.md`, `verifier_findings.md`). What can go wrong is therefore what
several processes can do to one directory, and what they tell the services
outside: this project models those processes, the lock between them, the status
machine they move the row along, the conversations they hold with their agents,
and what they read from GitHub and write to Linear.

Paths below are relative to `src/internal/`.

## Inventory

| Component | State | Operations | Correct when |
|---|---|---|---|
| Task lock (`store/tasks/lock.go`, `dir.go`, `cli/tasks/resume_shared.go`) | the file `.lock`: inode, flock, metadata | AcquireLock, UpdatePhase, Release, TryAcquireForReap, takeover, RemoveDir | one owner; the metadata names it; a takeover ends, and ends in a free task |
| Status machine (`store/tasks/fsm.go`) | none: a table | Apply | closed over the statuses |
| Task rows (`store/tasks/task.go`, `apply_persist.go`) | `task.toml` | GetTask, PutTask (rename over), DeleteTask, ApplyAndPersist | nobody's write undoes another's |
| Phase lifecycles (`lifecycle/plan.go`, `work.go`, `verify.go`) | a copy of the row, for the length of a phase | Begin (restart, resume, existing), RecordResumeSession, Finish | begin and end of a phase are recorded |
| Orchestrator (`lifecycle/orchestrator`) | the phases left to run | runForTask, the clarification guard, finaliseVerifyFailIfStuck | it stops where the user has to act; it ends |
| Planner, worker, verifier (`agents/`) | the turn of the verify-fix loop | resolve, begin, run the agent, judge | bounded turns; the verdict reaches the row |
| Commands (`cli/tasks`) | the row as read | start, continue, resume-plan/-work/-verify, discard, orchestrate | whatever asks for the user can be continued |
| Reaper (`cli/tasks/reap.go`) | the row as listed | maybeReap | rows left in flight are finalised, others left alone |
| Resume-id capture (`coding-agents/resume.go`, `watch.go`, the backends' `capture.go`) | a watcher per agent; the sessions in the backends' stores | scan, watch, record | the id recorded is that of the agent's own session; the search ends |
| Agent sessions (`agents/*/run.go`, `loop.go`, `resume.go`, the backends) | the row's session and tool per phase; agents alive | NewResumeID, resume or restart, the verify-fix loop | a session stays with its backend, is begun once, and nothing is read under its writer |
| Code review (`store/codereview`, `cli/tasks/code_review*.go`, `resolver/code_review.go`) | rounds: review.toml, plan.md, clarification.md | ResolveOrAllocate, fetch, plan, validate | reviews do not disturb each other; no feedback is lost; a question is found again |
| Pull-request fetch (`tools/github`) | the pages read so far | FetchPR, fetchPaged, collectItems | complete, in order, once each; ends |
| Linear synchronisation (`lifecycle/linear_*.go`) | the remote issue: workflow state, title | hooks on transitions, request by request | mirrors the row, keeps people's words, pages the owner, never holds up a task |
| Settings, preflight, init (`store/settings.go`, `cli/settings`, `cli/preflight`) | layered buckets | get, set, reset | the right layer wins |
| Log formatting, logins and model lists, prompts, terminal UI | none that is shared | | |

Interaction is by shared files only, except that `start`, `continue` and
`resume-*` launch `j tasks orchestrate` as a child (detached, or inline and
waited for), that an orchestrator starts the agents (each in a session of its
own, `util/run/spawn.go`), and that a takeover signals the pid it read from the
lock file.

Hard behaviour: a path-based protocol on an inode-based lock; the row is written
whole, from copies that may be hours old, by processes that do not all hold the
lock; orchestrators die while their agents live on; illegal transitions are
mostly swallowed, and the phase then runs unrecorded. `PROJECT.json` lists these
hazards one by one at their lines.

## Modules

    TaskMutex                 the lock as its callers see it
      ^ implemented by             ^ used by
    TaskLock                  TaskLifecycle  ->  TaskFSM
      ^ proved about: TaskLockProofs        ^ proved about: TaskLifecycleProofs,
      ^ instances: MCTaskLock                 TaskRowProofs, TaskStatusProofs
                                            ^ instances: MCTaskLifecycle

    CodeReview  (CodeReviewProofs, MCCodeReview)   reads what PRFetch yields
    PRFetch  (PRFetchProofs, MCPRFetch)            one fetch of a pull request
    LinearSync -> TaskFSM  (LinearSyncProofs, MCLinearSync)  announces the row's transitions
    AgentSession  (AgentSessionProofs, MCAgentSession)       one phase's agents in detail

**TaskMutex**. One variable, `owner`; `Acquire` and `Release` (of the owner,
also by its death).

**TaskLock** models the protocol at the granularity of system calls.
`dir`, `path`, `created` and `meta` are the file system (directory, inode behind
the name `.lock`, how many inodes there have been, the pid in the file); `fd`,
`wfd`, `holds` are descriptors and flocks; `pc` is where each process is.
Actions are the calls in their order: `EnsureDir`, `OpenLock`,
`FlockAcquired | FlockContended`, `TruncateHolder`, `WriteHolder` (the two
halves of `os.WriteFile`) for AcquireLock, `StatLock`, `OpenProbe`,
`ProbeAcquired | ProbeContended`, `ReleaseProbe` for TryAcquireForReap,
`Terminate`, `Escalate`, `WaitDeadline`, `SpawnInline`, `InlineDone` for a
takeover, `StartDiscard`, `UnlinkLock`, `RemoveTaskDir` for RemoveDir, and
`Crash` of anybody at any time. Orchestrators, resume commands, reapers and
discards are four sets of processes. A process is its pid; pids are not reused.

**TaskFSM** is the transition table and Apply, constant level.

**TaskLifecycle** is the life of one task. `row` is `task.toml` reduced to what
decides anything: the status, the phases that have a resume session, the phases
with an end time in the order of these times, whether the worker was ever begun
(`WorkBeginAt`, which the verifier's choice of a fix agent needs) and `DoneAt`.
`files` are plan.md, clarification.md and the verdict of verifier_findings.md.
An orchestrator runs

    lock -> next -> begin -> (Begin*) agent -> [judge -> fix -> agent ...] -> finish
         -> next -> ... -> final GetTask and VerifyStuck -> release -> done

where `Resolve` reads the row, and `Begin*` is one action per lifecycle
(BeginPlanResume, BeginPlan for both the restart and the existing row, BeginWork,
BeginVerify), each of which applies the event to what was read, writes that back
and starts the agent. The two are apart because the code picks the agent in
between and may wait for its `NewResumeID` (`agents/worker/run.go:95-126`, which
shells out for cursor): whoever writes the row without the lock can do so there.
`ResolveFails` is every way in which a phase ends before its begin. `orch[o].task`
is the copy that the code keeps, and `Capture` and `Finish` write that copy too,
not the row. What the agent did becomes visible in one step when it exits
(`AgentWrites`, external: any legal combination of plan, question and verdict,
including an old question or verdict left in place). `Kill` ends an orchestrator
anywhere; its agent becomes an orphan (`orphans`, by orchestrator and phase) that
still writes later.

The user's commands run one at a time, as the step they are at and the one after
it (`cli.step`, `cli.next`), so that a read of the row and the write that follows are
separate: `continue` reads the row, and `Dispatch*` acts on what it read;
`stampSpawnOnRow` is `StampRead` and `StampWrite`; `discard` is `DeleteTask` and
`RemoveDir`; a detached `start` launches before it persists, an inline one
after. The reaper lists, probes, releases the probe, and writes the row it
listed; a planning row without plan.md or requirements.md becomes `help`.

Abstractions in TaskLifecycle: the lock is TaskMutex (justified by the refinement below; when the
lock file is unlinked, its holder simply no longer owns anything); the takeover's
AcquireLock and immediate Release are one step, its SIGTERM is `AgentFails` (the
cancelled context ends the agent), its SIGKILL `TakeoverKill`; timestamps are
their order; a phase end repeated by a stale copy keeps that copy's order;
failing reads and writes of the disk, prompts and pickers (they only decide
whether a command goes on) are left out; the choice of the tool is in
AgentSession, Linear in LinearSync.
Two user commands at the same instant are not modelled; a command and any number
of orchestrators and reapers are.

**CodeReview** models `j code-review`: commands race for the task's flock
(`AcquireLock`, against orchestrators too), resolve or allocate a round, fetch
into it or load what it holds, start the planner, wait and validate.
`rounds[n]` is the directory of round n: review.toml (the ids it lists, whether
one is listed twice, whether items are decided, the decision), plan.md and
clarification.md. `fetched[n]` remembers what GitHub sent. A planner is external
and may rewrite review.toml in any way, write the plan or a question, in any
order; it outlives a command that is killed (`Kill`), as the child of a review
installs no signal handler. `OrchestratorAcquires`, `OrchestratorEnds` and `Reap`
are what a review sees of the rest of the system: a busy row, which may or may
not have got a pull request when it is released. One round's items are abstract
ids; `Invented` is one that GitHub never sent.

**PRFetch** models the GraphQL fetch of a pull request that is being written
meanwhile. GitHub is external: the posts (in the conversation, as review threads,
as comments inside a thread, as reviews) are a set, whose ids are the order of
creation, and people post, delete, or close or hide the pull request at any time.
A page of a connection is the oldest nodes behind the cursor, in order (`After`,
`Oldest`, `InOrder`), with the cursor and the hasNextPage that GitHub computes. The code's part is the viewer lookup, the first page with
its state guard, the pagination loop of each of the three connections in turn
(`NextPage`, `Drained`), and `Collect`: dropping J's replies, marking the comments
they answer, and listing what is left in the order in which the code visits it
(the conversation, each thread, the reviews). A thread's inner comments are
fetched up to a cap (`InnerCap`), which the code never pages beyond. The first
page of a pull request the token may not see is an error; a follow-up page of one
that became so comes back null, which the extractors of `fetchRemaining` take for
an empty last page (`Null`): the connection ends there, the fetch goes on and
succeeds, and `cut` remembers the connection for the properties. Bodies,
authors and line numbers are the kind of a post: comment, J's reply, a look-alike
by somebody else, blank.

**LinearSync** unfolds `Notify`: a process that has persisted a transition sends
the requests of its four hooks in order (`script`), each answered, refused or
overtaken by its hook's deadline; a request given up on may still take effect
(`late`, `Land`). Several processes do so at once, die in the middle, and people
rename the issue (`Rename`). A title is a sequence of `Tokens` (marks, spaces,
words), so that `stripStatusPrefix` is what the code computes. Bodies of comments
and descriptions are not told apart; what matters of them is whether they are
sent.

**AgentSession** is about the conversation of each phase. `sessions` are all
sessions of all backends in order of creation, which is how the capture orders
them by timestamp; `row` has tool and session per phase; `agents` are the
processes ever started, with the flag each backend put on the command line
(`ClaudeRun` and so on: begin one's own, begin under this uuid, resume).
The orchestrator runs

    Begin* -> spawn -> (watch <-> probe) -> wait -> finish [-> fixwait -> spawn ...]

with cancellation (SIGTERM, `ContextKills`) and `Kill` anywhere, after which its
agent goes on. The begin writes tool and session, unless the status does not
allow a new session's transition (only warned about); then the row learns them from
the watcher's record or the end of the phase (`Finishes`), which both write the
lifecycle's copy, or never. A session store's file exists before its record can
be read (`Opens`, `WritesMeta`). Tools change between phases. What the phase writes about
its status is in TaskLifecycle, whose `Capture` is `Record` seen from the row.

## Runs

All runs are exhaustive for their instance. `CHECK_DEADLOCK FALSE` everywhere:
processes run once, and a system that has nothing left to run has stopped.

| Run | Instance | Checks |
|---|---|---|
| takeover | TaskLock, 2 orchestrators, 2 resume commands, 1 reaper; 233k states | TypeOK; MetadataNamesHolder; SpawnsIntoFreeTask; ImplementsMutex |
| lock_discard | TaskLock, 2 orchestrators, 1 resume command, 1 discard; fairness; 52k | ExclusiveUntilDiscard; HoldersBoundedByDiscards; TakeoverEnds |
| locked | TaskLifecycle, 3 orchestrators, 2 verify turns, resume with takeover, kills; 206k | StatusFollowsTable; AskerKept; VerifierWaitsForAnswer |
| commands | TaskLifecycle, 3 orchestrators, approval on, start, re-plan, continue, resume with takeover, kills; 911k | TypeOK; AgentsBounded; AlwaysResumable |
| discard_done | TaskLifecycle, 2 orchestrators, start, resume, discard at any time; 607k | DoneMeansCompleted |
| reap | TaskLifecycle, 2 orchestrators, 1 reaper, 2 verify turns, kills; fairness; 262k | OrchEnds; InFlightReaped |
| review | CodeReview, 2 commands, 1 comment and an invented one, 2 rounds, an orchestrator, kills, surviving planners; 3.5M | TypeOK; FreshRoundUndisturbed; FreshRoundWhole; QuestionFoundByNext |
| fetch | PRFetch, pages of 1, up to 3 posts, 2 deletions, inner cap 2, null pages; fairness; 267k | TypeOK; FetchComplete; ItemsOnceInOrder; AnsweredAreMarked; FetchEnds |
| sync | LinearSync, 2 writers, 2 transitions, 1 rename; fairness; 496k, the longest run, just under three minutes | TypeOK; Mirrors; WordsKept; OwnerPaged; NotifyEnds |
| session | AgentSession, claude and codex, 3 agents, 1 stop or unrecorded begin, 2 verify turns; fairness; 643k | TypeOK; SessionStaysWithItsTool; BoundOnce; WritersGone; CapturesOwnSession; WatchEnds |
| lost_verdict, lost_feedback | the smallest instance that shows it | one property each, violated: see Findings |

Why the bounds are enough. In TaskLock two orchestrators and two resume commands
give a holder, a contender, a takeover and a takeover of the takeover (a resume
command can be the holder that another one terminates). In TaskLifecycle three
orchestrators are three visits to the row: one leaves it in a status, the second
moves it, the third meets what both left, while a stale write of the command is
still to come. `locked` (with one verify turn) and `commands` (without
re-planning) were also run once with four orchestrators, 0.9 and 6.1 million
states, with the same result. Two
verify turns are the least for which a fix turn happens and the loop's bound
matters; runs in which the loop plays no part have one. Symmetry is used over
orchestrators, resume commands and reapers in safety runs only.

In CodeReview two commands are an interrupted review and its successor, two
rounds the interrupted one and the next; one comment can be kept, dropped, doubled
or replaced by an invented one. In PRFetch pages of one post put every pair of
neighbours on two pages, the hardest case for cursors and for the reply that marks
its predecessor; three posts are a first page and two more, before or during the
fetch, or a thread with as many comments as come with it. The safety invariants
were also run once on four posts (`MCPRFetch_four_posts.cfg`), where a thread may
have a comment beyond the cap, with the same result.
In LinearSync two processes with one transition each are an earlier announcement
and a later one, in every interleaving of their requests. In AgentSession
`MaxEarlier < MaxAgents` makes the last phase begin with agents to spare: one
agent of an earlier run, a turn and its fix turn, or a verifier's turn with an
orphan beside it; the instance has one backend that names its session
beforehand and one that does not (the same bounds with cursor and deepseek were
run once, with the same result). The theorems of the next section
remove these bounds for every safety and action property of the runs; they
remain for the liveness properties.

Which writers a property assumes is part of the run. `StatusFollowsTable` holds
as long as everybody who writes the row holds the lock (`locked`) and fails once
a detached `continue` stamps the row (`MCTaskLifecycle_lost_update.cfg`);
`AgentsBounded` holds without discards, and `MCTaskLock_two_owners.cfg` shows why
not with them. What `AgentsBounded` counts are agents, orphans included: each
orchestrator that dies may leave one behind, which works on beside its
successor's, and that is all that ever overlaps.

Fairness. *Orchestrators* (`WF` on each one's next step): they are processes
that the scheduler runs, and the steps between two agents do not wait for
anything. The step `agent -> judge/finish` is included, so `OrchEnds` assumes
that agents exit: the code has no timeout for them, and what it promises is that
`j` itself adds no endless loop. *Reaper* (`WF`): `j tasks` in watch mode lists
again on every tick. *Takeover* (`WF` on its steps, `SF` on the deadline): the
deadline is compared with the clock on every round of the polling loop. *Fetch* (`WF` on
the client's own steps): a request gets an answer or an error. The client sets no
timeout, so this is assumed and named as a hazard. *Linear hooks* (`WF` on
`Deadline` only): nothing obliges Linear to answer, the hook's context expires.
*Agent session* (`WF` on the orchestrator's steps together): its goroutines run;
agents may hang for ever, which is why `WatchEnds` is about agents that have
exited or have written their session. Nothing
is assumed of the user, of kills, of the session capture, or, in TaskLock, of the
holder, who may never let go.

## Proofs

Every invariant and every action property that a passing run checks is also a
theorem, for every value of the constants. What is left to TLC is the end of this
section.

`TaskLockProofs` proves about TaskLock, for any sets of processes (the only
assumption is that the four roles are disjoint, `RolesAssumption`):

| Theorem | Statement |
|---|---|
| TypeCorrect | `Spec => []TypeOK` |
| Exclusive | `Spec => []ExclusiveUntilDiscard`: one owner until a discard unlinks the file |
| HolderNamed | `Spec => []MetadataNamesHolder` |
| SpawnsFree | `Spec => SpawnsIntoFreeTask` (an action property) |
| Refinement | without discards, `Spec => ImplementsMutex` |
| HoldersBounded | for finitely many discards, `Spec => []HoldersBoundedByDiscards` |

Mutual exclusion is not inductive: nothing in "one owner" says what an open
descriptor refers to. The invariant `IInv` adds that the owners are exactly the
processes between a successful flock and the close and have a descriptor open
(`OwnersOpen`, `TriesOpenFile`), that no two owners share an inode (`OwnersApart`:
what flock gives), and that before a discard every open descriptor is that of the
one inode behind the path (`OneInode`: what the protocol gives, because no step
but the unlink ever replaces the file). Exclusion is the conjunction of the last
two. `WritesInPlace` carries the metadata: what a holder writes goes to the file
the path names. The induction has one step per action, grouped into the lemmas
TypeStep, AcquireStep, ProbeStep and OtherStep. SpawnAfterRelease and OwnerStep
show the action property and the step simulation of the refinement from `IInv`.
*Bound on the owners*: they have different inodes open (`OwnersApart`), and
`InodesCounted` says that there are no more inodes than discards that unlinked one
(`Unlinkers`) and the one the path names; so the owners inject into a set of that
size.

`TaskLifecycleProofs` proves about TaskLifecycle, for any numbers of
orchestrators and reapers, any `MaxIterations`, both settings of the approval and
any set of commands (`LifecycleAssumption`: the processes are distinct, at least
one verify turn):

| Theorem | Statement |
|---|---|
| TypeCorrect | `Spec => []TypeOK` |
| DoneCorrect | `Spec => []DoneMeansCompleted` |
| AgentsBoundedCorrect | without discards, for finitely many orchestrators, `Spec => []AgentsBounded` |

None of the three is inductive. *Types* need `AtWork`: an orchestrator with an
agent has a phase at the head of its chain, and one that fixes has turns left;
without it nothing bounds the turn that FixExits increments. *DoneAt* needs the
same fact about every copy of the row (`DoneInv`): an orchestrator, the command and
each reaper may write back what they read long ago. The only events that an old,
completed copy could be stamped with are those that end a phase, and none of them
is legal from `completed` (`CompletedIsClosed`); those that are legal from it
(restarts and resumes) are applied to copies whose DoneAt was cleared, or which
wait for an answer. *The bound on the agents* needs `OwnInv`: whoever is between
AcquireLock and ReleaseLock owns the task, so one agent at most has an orchestrator;
and `OrphanInv`: every other agent's orchestrator is dead and left no second one, so
that the orphans inject into the dead. `TypeStep`, `DoneStep`, `OwnNext` and the lemmas on
`OrphanInv` prove them inductive, with a lemma per process and a step per action.

`TaskRowProofs` proves one more thing under the same assumptions:

| Theorem | Statement |
|---|---|
| ResumableCorrect | `Spec => []AlwaysResumable`: a row that asks for the user names a phase to resume |

A phase's Finish sets its end before it stamps the status, so what it writes names
that phase (`EndedHelped`), and the events of everybody else never lead to a
status that asks (`OtherHelped`). What remains are copies that are written back
as they were read, and `HelpInv` carries the fact in them: the row, the copy the
command holds, and the one an orchestrator's VerifyStuck stamps.

`TaskStatusProofs` is about a task whose row is written under the lock only:

| Theorem | Statement, under `RowUnderLock` |
|---|---|
| StatusCorrect | `Spec => StatusFollowsTable`: every change of the status is an edge of the table |
| AskerCorrect | `Spec => AskerKept`: an open question keeps its asker |
| VerifierCorrect | `Spec => []VerifierWaitsForAnswer` |

`RowUnderLock` allows no reaper and the commands start, override, resume and kill:
a new task, its resumes with their takeovers, and deaths at any moment, for any
number of orchestrators, any bound on the fix loop and both approval settings.
The hypothesis is needed. `continue`, start --from-task, discard and the
reapers write the row without the lock, and with `continue` alone TLC violates
each of the three on the instance of `lost_verdict`. The induction is about the
relation of the copies to the row. A copy read but not yet begun with is the row
(`OrchLocked`). `Fresh`: the copy an orchestrator will write
has the row's status and all of its sessions. `Ready` and `Runs`: what an
orchestrator has before it in each place, so that no Begin is illegal where it would be
swallowed, and a question is open beside a worker only, after a planner that left
a plan as well (the guard stands before the verifier only, see Divergences).
`CliLocked`: what a command is about to launch. And until the first
orchestrator begins, it is alone (`Quiet`). `OrchKeepsLocked` moves the
row for all of them; that the others are in no phase meanwhile is `OwnInv` again.

`CodeReviewProofs` proves about CodeReview, for any commands, any feedback and
any bound on the rounds (`NamesAssumption`: the names that stand for nobody are no
commands):

| Theorem | Statement |
|---|---|
| TypeCorrect | `Spec => []TypeOK`, with the flock's exclusion |
| FreshRoundsApart | `Spec => []FreshRoundUndisturbed` |
| FreshRoundsWhole | `Spec => FreshRoundWhole` |
| QuestionsFound | `Spec => QuestionFoundByNext` |

The strengthening is what a command's locals are: a round number is kept for as
long as a planner may write there (`LocalsOK`), a child on a fresh round measures
it by what was fetched for it (`SnapIsFetched`), and a child inside the flock is on
the latest round (`OnLatest`). With them allocation goes past every number any
planner alive can have. Nothing of the kind holds for a resumed round, which is
where `lost_feedback` and the two planners under Divergences come from.

`AgentSessionProofs` proves about AgentSession, for any backends, any number of
agents, earlier runs, stops, unrecorded begins and iterations (`Bounds`):

| Theorem | Statement |
|---|---|
| TypeCorrect | `Spec => []TypeOK` |
| SessionStays | `Spec => []SessionStaysWithItsTool` |
| ReadsAfterWriters | `Spec => []WritersGone` |
| BindsAreUnique | `Spec => []BoundOnce` |
| CapturesOwn | `Spec => CapturesOwnSession` |

Three arguments meet in one invariant. *Tools*: what the row and the locals name
next to a tool is that tool's session (`NamedByTool`); the planner is excepted,
whose tool may change under its session. *Alone*: a phase that found nobody
alive has at most its current agent (`AtMostCurrent`), none of the steps that
start one comes before the last has gone, and so everything created since the
phase began is that agent's (`OnlyOwnSessions`) and nobody is left when the
artefacts are read. *Binding*: a uuid just minted is named by no agent
(`Unbound`), and from its first start on every other agent that names it resumes
it (`Bound`). `ReservedKept` is the heart of the last one: an agent that was told
to resume a session that does not exist yet is refused. Each part has one lemma
for all steps; `Beginnings`, `PhaseKept`, `SessionsKept` and `AgentsKept` say once
what a step may do to the locals, the sessions and the agents.

`LinearSyncProofs` proves about LinearSync, for any writers, events, titles and
bounds (`SyncAssumption`: the task begins in statuses of the table, and titles are
made of tokens that include the marks and the space):

| Theorem | Statement |
|---|---|
| SyncTypeCorrect | `Spec => []TypeOK` |
| PagedCorrect | `Spec => []OwnerPaged` |
| WordsCorrect | `Spec => []WordsKept` |
| MirrorsCorrect | `Spec => []Mirrors` |

*Types* say that a script begins each hook with the request that reads
(`ReadFirst`), or a title could be written that was never read. *Paging*: a page
that is due is still in the script, was asked for, or was given up on
(`PagedInv`). *Words*: the title on the issue, every title about to be marked and
every title a lost update may still write are the words people gave, behind at
most one mark (`WordsInv`); marking again changes only the mark (`Redecorated`).
That rests on two lemmas about `stripStatusPrefix`: what it returns begins with
no mark (`StripWords`), and it undoes every prefix (`StripPrefixed`). *Mirrors*:
while nothing disturbs the last transition's hooks, every request that sets a
state or a title is for the row's status, and what is not right on Linear
yet is still to be sent (`MirrorInv`). `NotifyScript` says once what a
transition's script may contain, `Shortens` what any step does to a script.

`PRFetchProofs` proves about PRFetch, for any page size, any inner cap and any
number of posts and deletions (`PageAssumption`: pages and caps are positive):

| Theorem | Statement |
|---|---|
| FetchTypeCorrect | `Spec => []TypeOK` |
| CompleteCorrect | `Spec => []FetchComplete`: nothing that was there and stayed is missing, but in a connection a null page cut short |
| ItemsCorrect | `Spec => []ItemsOnceInOrder` |
| AnswersCorrect | `Spec => []AnsweredAreMarked`, with the same exception |

The invariant `FetchInv` has three parts. *GitHub*: an id names one post for ever
(`IdsOnce`), a comment is younger than its thread (`ThreadsHold`), nothing older
than the posts of the first page appears later (`BeganIsPast`). *The loop*: what is
fetched of a connection is in order and not behind the cursor (`GotInOrder`), and a
post that was there at the beginning is either at or before the cursor and
fetched, or behind it with `more` set (`GotNodes`, `GotComments`); a connection that
a null page cut short has nothing more to fetch (`CutIsDrained`), and these facts
are about the others. *The order of the connections* (`DrainedInTurn`). FetchComplete is the moment at which
`more` is false everywhere. `ListingExists` makes the listing of a finite set well
defined, `PageIs` says what a page holds, `ItemsAre` which fetched comment each
item stands for. `FetchInv` was checked by TLC on three posts before it was proved.

Facts about all numbers that need an induction (a least element, a listing of a
finite set) are proved from a smallest member, by the well-founded orders of the library
(`LeastExists`, `SmallestExists`), since its induction theorems take an operator.

Only model-checked are the liveness properties, which the prover does not handle:
`TakeoverEnds`, `OrchEnds`, `InFlightReaped`, `FetchEnds`, `NotifyEnds` and
`WatchEnds`. They hold for the instances of their runs.

## Findings

Each one is a violation run whose trace TLC prints.

* **lost_verdict**. `continue` answers the worker's question before the
  orchestrator's guard has read the row; the verifier then begins from
  `working`, which is illegal and swallowed, and its PASS is dropped
  (`lifecycle/verify.go:35`).
* **lost_feedback**. A resumed review validates against a snapshot of the file
  that the earlier planner left, so feedback lost in the first session is not
  missed in the second (`cli/tasks/code_review_child.go:114`).

## Divergences

Disagreements between the code and what it says of itself. The first seven can be
seen with TLC as well: `tlc -config MCx_name.cfg MCx` prints the trace.

* `MCTaskLock_two_owners.cfg`. `RemoveDir` unlinks `.lock` without taking it; the
  next orchestrator locks a fresh inode, and two own the task
  (`store/tasks/dir.go:134`, against `lock.go:16-18`).
* `MCTaskLifecycle_stale_reap.cfg`. `maybeReap` releases its probe and then writes
  the row it had listed, over the row of an orchestrator that has started since
  (`cli/tasks/reap.go:42`, against `cmd.go:82-83`).
* `MCTaskLifecycle_panic.cfg`. `resume-plan` after an orchestrator died in its work
  phase panics in BeginPlanResume (`lifecycle/plan.go:128`).
* `MCTaskLifecycle_override.cfg`. `start --plan-requires-approval=false` builds the
  full chain, the planner's Finish reads the project setting: the worker runs on
  a row that waits for approval (`lifecycle/plan.go:250`).
* `MCTaskLifecycle_lost_update.cfg`. `stampSpawnOnRow` undoes the begin of the
  orchestrator it has just launched: `working` goes back to `plan-done`
  (`cli/tasks/continue_dispatch.go:68`).
* `MCCodeReview_two_planners.cfg`. A takeover's SIGTERM kills the child of a review,
  which installs no handler; its planner writes on while the next review resumes
  the same round (`cli/tasks/code_review_child.go:166-172` says it cannot).

* `MCPRFetch_hidden.cfg`. A pull request that becomes inaccessible between two
  pages is null in the next answer; the extractors have no check for it, the
  page decodes to an empty last one, and the fetch succeeds with the rest missing
  (`tools/github/fetch.go:74-97`, against `fetch.go:8-11`, "until every connection is
  drained"; the first page is checked at `fetch.go:58`).

The others were seen while reading:

* The diagram in `store/tasks/fsm.go:8-69` "mirrors" the table but lacks ten of
  its edges, all of them restarts, resumes or begins of a phase out of order.
* In the full chain the guard stands before the verifier only: a planner that
  writes both a plan and a question is followed by the worker.
* Between the flock and the metadata rewrite a contender reads the previous
  holder's pid (`store/tasks/lock.go:110-124`). If that was a resume command that
  waits for its inline orchestrator, the takeover terminates the wrong process.
* A `verifying` row whose orchestrator died is never reaped: `maybeReap` has
  cases for planning and working only, although the table has an event for it.
* An orchestrator that starts during the reaper's momentary probe is refused with
  "task already in use".
* Agents survive a killed orchestrator while its lock is free: the next one
  starts an agent beside the orphan.
* An orchestrator still running when its task is discarded recreates the row
  with its next write (`PutTask` makes the directory).
* `util/run/terminate.go:16-18` says that EPERM is bubbled up; it is swallowed.
* A `clarification.md` or a PASS in `verifier_findings.md` from an earlier turn is
  never removed by `j` and counts again unless the agent removes it.
* `util/run/spawn.go:37-43` says that Spawn does not bind the child's life to
  ctx; `exec.CommandContext` kills it on cancellation.
* A settled review round whose `clarification.md` is still there is resumed by
  the next review: ValidateRound asks for its presence in one case only.
* `http.DefaultClient` has no timeout, and a review holds the task's flock while
  it waits for GitHub.
* A team without a workflow state of the expected name gets no page at all, for
  the hook returns at the lookup (`lifecycle/linear_state_sync.go:80`), and a title
  update may overwrite a rename made while it was under way
  (`linear_title_sync.go:42`; `crossed` in LinearSync).
* A planner is resumed with the tool selected now and the session of the tool
  selected then (`agents/planner/run.go:152-170`), which `worker/run.go:67-72`
  calls impossible for a worker.
* The agent of a killed orchestrator may create its session after the next
  phase has begun, and is then captured as that phase's (`turn.alone` in
  AgentSession). The watcher's tick scans before it asks whether the agent lives
  (`coding-agents/watch.go:47-56`): a session written in between is missed.
* `CaptureAndSaveResumeID` is "the shared post-run capture step for every
  plan/work/verify call site" (`coding-agents/resume.go:80-84`), and nothing but
  tests calls it: interactive runs capture nothing.
* claude's uuid is in the row before the session exists; when the start fails,
  every later run resumes a session that never was.

## Not modelled

Settings, preflight and init (layered buckets of files, no concurrency beyond a
last write that wins), the wire format, sorting and summaries of rows, the
watcher that quits an interactive agent (`lifecycle/tuiquit`), the backends' logins,
model lists, other arguments and stream formatters, log files, encoding of
HTTP requests, parsing of Linear identifiers. Prompts, the terminal UI, shell
completion and the entry point keep no state worth a model. Reuse of pids is left
out: it would need an allocator outside this code.

## Plan

Done: TaskMutex, TaskLock, TaskFSM, TaskLifecycle, CodeReview, PRFetch,
LinearSync, AgentSession, and the proofs of all their safety and action
properties. Left, in this order:

1. The composition of AgentSession with TaskLifecycle: an abstract phase (begun,
   ended once, session learned in between) that both implement.
2. `Settings` (`store/settings.go`, `cli/settings`, `cli/preflight`): layers, reset,
   the checks before a run.
3. `Quit` (`lifecycle/tuiquit`): the watcher's race with a normal exit.
4. Pure algorithms against reference definitions: SortTasks, the wire format's
   round trip, URL and identifier parsing.
