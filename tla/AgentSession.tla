---------------------------- MODULE AgentSession ----------------------------
(***************************************************************************)
(* The conversation a phase holds with its coding agent: how the session   *)
(* id of `j`'s planner, worker and verifier is chosen, given to the        *)
(* backend, found again on disk and kept in the task row, so that a later  *)
(* run can continue the conversation.                                      *)
(*                                                                         *)
(* One task, one orchestrator at a time (TaskLock gives it the row); each  *)
(* agent is a process of its own session (setsid), so it outlives an       *)
(* orchestrator that is killed.  The backends differ in who names the      *)
(* session: claude is told a uuid minted by j (--session-id), cursor is    *)
(* asked for a chat before the run, codex and deepseek choose for          *)
(* themselves and write the id to a store kept under the task directory,   *)
(* where a watcher looks for it while the agent lives.                     *)
(*                                                                         *)
(* A session is its position in `sessions`, the order of creation that     *)
(* the timestamps of the stores give; 0 is the empty id.                   *)
(***************************************************************************)
EXTENDS Naturals, Sequences

CONSTANTS
    Tools,         \* the backends in use
    Modes,         \* values of --interactive a planner or worker is given
    MaxAgents,     \* bound: agents ever started
    MaxEarlier,    \* bound: of these, started when the last phase begins
    MaxMishaps,    \* bound: orchestrators stopped, and begins not recorded
    MaxIterations  \* task.max_iterations: rounds of the verify loop

Scoped == {"codex", "deepseek"}    \* id found on disk
Phases == {"plan", "work", "verify"}

ASSUME Bounds ==
    /\ Tools \subseteq Scoped \cup {"claude", "cursor"}
    /\ Modes \subseteq BOOLEAN /\ MaxMishaps \in Nat
    /\ MaxAgents \in Nat /\ MaxEarlier \in Nat /\ MaxEarlier < MaxAgents
    /\ MaxIterations \in Nat \ {0}

VARIABLES
    pc,         \* where the orchestrator is; "idle" when none runs
    turn,       \* its locals: phase, session, flags of the request
    row,        \* the task row's tool and resume session of each phase
    sessions,   \* every session any backend has, oldest first
    agents,     \* every agent process ever started, oldest first
    cancelled,  \* SIGTERM arrived: the orchestrator's ctx is done
    mishaps     \* orchestrators stopped, begins not recorded: for MaxMishaps

vars == <<pc, turn, row, sessions, agents, cancelled, mishaps>>

Ids == 0..Len(sessions)     \* none, or a session that was minted or created
Turn == [phase: Phases, tool: Tools, id: Ids, resume: BOOLEAN,
         interactive: BOOLEAN, since: Ids, left: 0..MaxIterations,
         alone: BOOLEAN]
Session == [tool: Tools, turn: 0..MaxAgents,
            state: {"reserved", "partial", "live"}]
Process == [tool: Tools, phase: Phases, id: Ids, flag: {"new", "resume", "bind"},
            session: Ids, state: {"starting", "working"}]
NoTurn == [phase |-> "none"]
Gone == [state |-> "gone"]

\* Every variable has its type: an id the row, the orchestrator or an agent
\* holds is that of a session that was minted or created.
TypeOK ==
    /\ pc \in {"idle", "spawn", "watch", "probe", "wait", "finish", "fixwait"}
    /\ turn \in Turn \cup {NoTurn}
    /\ turn = NoTurn <=> pc = "idle"
    /\ row \in [Phases -> [tool: Tools \cup {"none"}, id: Ids]]
    /\ sessions \in Seq(Session)
    /\ agents \in Seq(Process \cup {Gone}) /\ Len(agents) <= MaxAgents
    /\ cancelled \in BOOLEAN /\ mishaps \in 0..MaxMishaps

\* A new task, or one that was planned and worked on before: its worker's
\* session is in the row, or was never learned.
Init ==
    /\ pc = "idle" /\ turn = NoTurn
    /\ agents = <<>> /\ cancelled = FALSE /\ mishaps = 0
    /\ \/ /\ row = [p \in Phases |-> [tool |-> "none", id |-> 0]]
          /\ sessions = <<>>
       \/ \E t \in Tools, known \in {0, 1} :
             /\ t = "claude" => known = 1
             /\ row = [p \in Phases |->
                         IF p = "verify" THEN [tool |-> "none", id |-> 0]
                         ELSE [tool |-> t, id |-> IF p = "work" THEN known ELSE 0]]
             /\ sessions = <<[tool |-> t, turn |-> 0, state |-> "live"]>>

Alive == {n \in DOMAIN agents : agents[n] # Gone}
Current == Len(agents)              \* the agent the orchestrator waits for
Exited == Current \notin Alive      \* ~run.IsAlive(pid)

-----------------------------------------------------------------------------
(* Beginning a phase                                                       *)

Fresh(t, state) ==
    Append(sessions, [tool |-> t, turn |-> Current + 1, state |-> state])

\* What Agent.NewResumeID leaves: claude mints a uuid no session has yet,
\* cursor creates an empty chat or fails (a warning), codex and deepseek
\* cannot name a session beforehand.
ClaudeMints == {"reserved"}
CreateChatID == {"live", "failed"}
Minted(t) == CASE t = "claude" -> ClaudeMints
               [] t = "cursor" -> CreateChatID
               [] OTHER        -> {"failed"}

\* The id a phase begins with, and the sessions there are then.
NewResumeID_invented(t) ==
    {<<Len(sessions) + 1, IF state = "failed" THEN sessions ELSE Fresh(t, state)>> :
        state \in Minted(t)}
NewResumeID(t) ==
    {IF state = "failed" THEN <<0, sessions>>
     ELSE <<Len(sessions) + 1, Fresh(t, state)>> : state \in Minted(t)}

Mishap == mishaps < MaxMishaps /\ mishaps' = mishaps + 1

\* The row with the tool and the session of the lifecycle's copy.
Recorded(p, t, id) == [row EXCEPT ![p] = [tool |-> t, id |-> id]]

\* The row is written (Begin*Restart, Begin*Resume, BeginPlanExisting), or, of
\* a status that does not allow a new session's transition, it is not, which
\* is only warned about.  The clock is read: sessions as old as `since` are
\* not this phase's.
Begin(p, t, id, resume, interactive, left, after) ==
    /\ pc' = "spawn"
    /\ turn' = [phase |-> p, tool |-> t, id |-> id, resume |-> resume,
                interactive |-> interactive, since |-> Len(after),
                left |-> left, alone |-> Alive = {}]
    /\ \/ row' = Recorded(p, t, id) /\ UNCHANGED mishaps
       \/ ~resume /\ UNCHANGED row /\ Mishap
    /\ sessions' = after
    /\ UNCHANGED <<agents, cancelled>>

Idle == pc = "idle" /\ Current <= MaxEarlier

\* resolver.Agent takes --tool or else the bucket's tool, which may have been
\* changed since the last phase: any tool.  A refused login ends the phase
\* before it has touched the row, which is no step.
FreshOf(p, t, interactive, left) ==
    \E new \in NewResumeID(t) :
        Begin(p, t, new[1], FALSE, interactive, left, new[2])

Resumed(p, t, interactive) ==
    Begin(p, t, row[p].id, TRUE, interactive, 0, sessions)

\* planner.Execute: the selected tool even when the row has a session.
BeginPlan(t, interactive) ==
    /\ Idle
    /\ IF row["plan"].id # 0 THEN Resumed("plan", t, interactive)
                             ELSE FreshOf("plan", t, interactive, 0)

\* resolveWorker: a row with a session pins its tool (WorkTool).
BeginWork_unpinned(t, interactive) ==
    /\ Idle /\ row["plan"].tool # "none"
    /\ IF row["work"].id # 0
       THEN Resumed("work", t, interactive)
       ELSE FreshOf("work", t, interactive, 0)
BeginWork(t, interactive) ==
    /\ Idle /\ row["plan"].tool # "none"
    /\ IF row["work"].id # 0
       THEN t = row["work"].tool /\ Resumed("work", t, interactive)
       ELSE FreshOf("work", t, interactive, 0)

\* verifier's dispatchShellOut: a row with a session goes to RunResume, one
\* interactive turn with the row's tool; any other to Run, the headless loop
\* of at most MaxIterations turns.
BeginVerify(t) ==
    /\ Idle /\ row["work"].tool # "none"
    /\ IF row["verify"].id # 0
       THEN t = row["verify"].tool /\ Resumed("verify", t, TRUE)
       ELSE FreshOf("verify", t, FALSE, MaxIterations - 1)

-----------------------------------------------------------------------------
(* One turn: start the agent, learn its session, wait for it               *)

Goto(next) == pc' = next /\ UNCHANGED <<turn, row, sessions,
                                        agents, cancelled, mishaps>>

\* The session on the command line each backend builds for Plan, Work and
\* Verify, interactive or headless: only claude's tells a first run (bind)
\* from a later one; the others resume whatever id they are given.
ClaudeRun(id, resume) == IF id = 0 THEN "new" ELSE IF resume THEN "resume" ELSE "bind"
CodexRun(id)          == IF id = 0 THEN "new" ELSE "resume"
CursorRun(id)         == IF id = 0 THEN "new" ELSE "resume"
DeepseekRun(id)       == IF id = 0 THEN "new" ELSE "resume"

Started(t, p, id, resume) ==
    LET flag == CASE t = "claude"   -> ClaudeRun(id, resume)
                  [] t = "codex"    -> CodexRun(id)
                  [] t = "cursor"   -> CursorRun(id)
                  [] t = "deepseek" -> DeepseekRun(id)
    IN  agents' = Append(agents, [tool |-> t, phase |-> p, id |-> id,
                             flag |-> flag, session |-> 0, state |-> "starting"])

\* CaptureAndSaveProcessResumeID has something to look for: a headless agent
\* (a pid), no id yet, a backend that implements ResumeIDCapturer, and not a
\* later iteration of the loop.
Captures == /\ ~turn.interactive /\ turn.id = 0
            /\ turn.tool \in Scoped /\ ~turn.resume

\* Agent.Plan / Work / Verify; a cancelled ctx starts nothing.  A watcher
\* that cannot be made gives up the search after the first look.
Spawn ==
    /\ pc = "spawn" /\ ~cancelled
    /\ Started(turn.tool, turn.phase, turn.id, turn.resume)
    /\ pc' \in IF Captures THEN {"watch", "wait"} ELSE {"wait"}
    /\ UNCHANGED <<turn, row, sessions, cancelled, mishaps>>

End == /\ pc' = "idle" /\ turn' = NoTurn /\ cancelled' = FALSE
       /\ UNCHANGED <<sessions, agents>>

\* Lifecycle.Finish writes the copy, if its status allows that, with what the
\* begin may not have recorded (TaskLifecycle has the rest of the row).
Finishes == /\ End /\ UNCHANGED mishaps
            /\ row' \in {row, Recorded(turn.phase, turn.tool, turn.id)}

\* The scoped home, the log or the binary is missing.
SpawnFails == pc = "spawn" /\ Finishes

\* A session can be read once its record has been written.
decodeSession(s) == sessions[s].state = "live"

\* scanSessions: the readable sessions of this backend's store that are not
\* older than the phase.
Matches_unfiltered == {s \in DOMAIN sessions : /\ sessions[s].tool = turn.tool
                                               /\ decodeSession(s)}
Matches == {s \in DOMAIN sessions : /\ sessions[s].tool = turn.tool
                                    /\ decodeSession(s)
                                    /\ s > turn.since}

\* RecordResumeSession with the newest of them, then WaitForExit.
Record ==
    /\ \E s \in Matches : /\ \A r \in Matches : r <= s
                          /\ turn' = [turn EXCEPT !.id = s]
                          /\ row' = Recorded(turn.phase, turn.tool, s)
    /\ pc' = "wait"
    /\ UNCHANGED <<sessions, agents, cancelled, mishaps>>

\* The look before the watch and every filesystem event only scan; a scan
\* that finds nothing changes nothing.
Scan == pc = "watch" /\ Record

\* The ticker looks, then asks whether the agent is alive: two steps.
Tick == pc = "watch" /\ (Record \/ (Matches = {} /\ Goto("probe")))
Probe_stuck == pc = "probe" /\ Goto("watch")
Probe == pc = "probe" /\ Goto(IF Exited THEN "wait" ELSE "watch")

WatchCancelled == pc = "watch" /\ cancelled /\ Goto("wait")

AfterWait(resume) ==
    /\ pc' = IF pc = "fixwait" THEN "spawn" ELSE "finish"
    /\ turn' = [turn EXCEPT !.resume = resume]
    /\ UNCHANGED <<row, sessions, agents, cancelled, mishaps>>

\* run.WaitForExit, or the end of an interactive run; after a fix turn the
\* verifier goes on in its own session.
Waiting == pc \in {"wait", "fixwait"}
WaitForExit_early == /\ Waiting /\ (Exited \/ turn.id # 0)
                     /\ AfterWait(turn.resume \/ pc = "fixwait")
WaitForExit_fresh == Waiting /\ Exited /\ AfterWait(turn.resume)
WaitForExit == /\ Waiting /\ Exited
               /\ AfterWait(turn.resume \/ pc = "fixwait")

\* ctx.Err(): a headless wait is given up at once, an interactive one when
\* the terminated child is gone.
WaitCancelled ==
    /\ Waiting /\ cancelled
    /\ turn.interactive => Exited
    /\ Finishes

\* Also after the last verdict, and when the fix turn cannot be started.
Finish == pc = "finish" /\ Finishes

\* finishVerifyIteration: a verdict that is not PASS goes to the worker while
\* an iteration is left.  runFixTurn continues the row's worker session, or,
\* when that was never learned, begins another one.
Fix ==
    /\ pc = "finish" /\ ~cancelled
    /\ turn.phase = "verify" /\ turn.left > 0 /\ Current + 2 <= MaxAgents
    /\ Started(row["work"].tool, "work", row["work"].id, TRUE)
    /\ pc' = "fixwait" /\ turn' = [turn EXCEPT !.left = @ - 1]
    /\ UNCHANGED <<row, sessions, cancelled, mishaps>>

-----------------------------------------------------------------------------
(* The orchestrator is stopped                                             *)

Stop == pc # "idle" /\ Mishap

Cancel == /\ Stop /\ cancelled' = TRUE
          /\ UNCHANGED <<pc, turn, row, sessions, agents>>

Leave(n) == agents' = [agents EXCEPT ![n] = Gone]

\* exec.CommandContext kills the child of a cancelled ctx, if its goroutine
\* runs before the process ends.
ContextKills ==
    /\ cancelled /\ Current \in Alive
    /\ pc \in {"watch", "probe", "wait", "fixwait"}
    /\ Leave(Current)
    /\ UNCHANGED <<pc, turn, row, sessions, cancelled, mishaps>>

\* SIGKILL, or a crash: the agent is left alone.
Kill == Stop /\ End /\ UNCHANGED row

-----------------------------------------------------------------------------
(* The agent (external)                                                    *)

\* With no id the agent begins a session; codex and deepseek create its file
\* first and write the record that names it afterwards.
Opens(n) ==
    /\ agents[n].state = "starting" /\ agents[n].id = 0
    /\ sessions' = Append(sessions,
           [tool |-> agents[n].tool, turn |-> n,
            state |-> IF agents[n].tool \in Scoped THEN "partial" ELSE "live"])
    /\ agents' = [agents EXCEPT ![n].state = "working",
                                ![n].session = Len(sessions) + 1]
    /\ UNCHANGED <<pc, turn, row, cancelled, mishaps>>

\* With an id it continues that session, and claude, unless told to resume,
\* begins the session of that uuid.  Another backend's id, a uuid no session
\* has, or for --session-id one that a session has, is refused.
Accepts(a) ==
    /\ sessions[a.id].tool = a.tool
    /\ a.tool = "claude" => (a.flag = "resume" <=> sessions[a.id].state = "live")

Joins(n) ==
    /\ agents[n].state = "starting" /\ agents[n].id # 0
    /\ IF Accepts(agents[n])
       THEN /\ sessions' = [sessions EXCEPT ![agents[n].id].state = "live"]
            /\ agents' = [agents EXCEPT ![n].state = "working",
                                        ![n].session = agents[n].id]
       ELSE Leave(n) /\ UNCHANGED sessions
    /\ UNCHANGED <<pc, turn, row, cancelled, mishaps>>

WritesMeta(n) ==
    /\ agents[n].state = "working"
    /\ sessions[agents[n].session].state = "partial"
    /\ sessions' = [sessions EXCEPT ![agents[n].session].state = "live"]
    /\ UNCHANGED <<pc, turn, row, agents, cancelled, mishaps>>

Exits(n) == /\ n \in Alive /\ Leave(n)
            /\ UNCHANGED <<pc, turn, row, sessions, cancelled, mishaps>>

-----------------------------------------------------------------------------
Commands ==
    \/ \E t \in Tools, i \in Modes : BeginPlan(t, i) \/ BeginWork(t, i)
    \/ \E t \in Tools : BeginVerify(t)

Orchestrator ==
    \/ Spawn \/ SpawnFails \/ Scan \/ Tick \/ Probe \/ WatchCancelled
    \/ WaitForExit \/ WaitCancelled \/ Finish \/ Fix

Agent(n) == Opens(n) \/ Joins(n) \/ WritesMeta(n) \/ Exits(n)

Next ==
    \/ Commands \/ Orchestrator \/ Cancel \/ ContextKills \/ Kill
    \/ \E n \in DOMAIN agents : Agent(n)

\* The orchestrator's goroutines run while it does; an agent may run, or
\* hang, for ever.
Spec == Init /\ [][Next]_vars /\ WF_vars(Orchestrator)

-----------------------------------------------------------------------------
(* Properties                                                              *)

\* The session found on disk is the one of the agent just started, whatever
\* other sessions the task has had: unless an agent of a killed orchestrator
\* still ran when the phase began, the watcher never records a session of
\* another turn or phase.
CapturesOwnSession ==
    [][\A p \in Phases :
          row'[p].id # row[p].id /\ pc = "watch" /\ turn.alone
          => p = turn.phase /\ sessions[row'[p].id].turn = Current]_vars

\* Work, fix and verify turns never hand a backend the session of another
\* one, although the settings change under a task ("resuming a claude
\* session in cursor is impossible").
SessionStaysWithItsTool ==
    \A n \in Alive :
        agents[n].phase # "plan" /\ agents[n].id # 0
        => sessions[agents[n].id].tool = agents[n].tool

\* claude is never told to begin (--session-id) a session that exists or that
\* another agent was told to begin: over all runs, crashes and iterations of
\* the verify loop one turn binds the uuid and every other one resumes it.
BoundOnce ==
    \A n \in Alive :
        agents[n].flag = "bind"
        => \/ agents[n].state = "working"
           \/ /\ sessions[agents[n].id].state = "reserved"
              /\ \A m \in Alive \ {n} : agents[m].id = agents[n].id
                                        => agents[m].flag = "resume"

\* When a phase reads the plan, the findings or the verdict, nobody is left
\* to write them: no agent of this phase, of an earlier iteration or of a fix
\* turn is alive, unless one was left over when the phase began.
WritersGone ==
    pc = "finish" /\ turn.alone => Alive = {}

\* The search for the id ends once the agent has died or has written its
\* session, even if no filesystem event ever arrives.
Watching == pc \in {"watch", "probe"}
Settled == Exited \/ (agents[Current].session # 0
                    /\ sessions[agents[Current].session].state = "live")
WatchEnds == (Watching /\ Settled) ~> ~Watching
=============================================================================
