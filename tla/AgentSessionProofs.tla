------------------------- MODULE AgentSessionProofs -------------------------
(***************************************************************************)
(* Proofs about AgentSession, for any backends and any number of agents,   *)
(* earlier runs, mishaps and iterations.  The arguments meet in one          *)
(* inductive invariant: what the row and the orchestrator's locals name is *)
(* of their tool; a phase that found nobody alive owns whatever is created *)
(* after it began; a uuid is bound by the one agent it was minted for.     *)
(***************************************************************************)
EXTENDS AgentSession, TLAPS

\* The locals fit the row: a verifier has a worker to fix findings, and a
\* start still fits the bound.
LocalsOK ==
    /\ pc # "idle" /\ turn.phase = "verify" => row["work"].tool # "none"
    /\ pc \in {"spawn", "fixwait"} => Len(agents) < MaxAgents
    /\ \A n \in Alive : agents[n].state = "working" => agents[n].session # 0

\* Worker's and verifier's sessions in the row and in the locals are of the
\* tool named next to them.
NamedByTool ==
    /\ \A p \in {"work", "verify"} :
          row[p].id # 0 => sessions[row[p].id].tool = row[p].tool
    /\ pc # "idle" /\ turn.phase # "plan" /\ turn.id # 0
          => sessions[turn.id].tool = turn.tool

\* A phase that began with nobody alive has at most one agent at any time.
AtMostCurrent ==
    pc # "idle" /\ turn.alone =>
        /\ pc = "spawn" => Alive = {}
        /\ Alive \subseteq {Current}

\* ... so what is created while its session is looked for is its agent's.
OnlyOwnSessions ==
    pc # "idle" /\ turn.alone =>
        /\ pc = "spawn" /\ ~turn.resume => Len(sessions) = turn.since
        /\ pc \in {"watch", "probe"} =>
              \A s \in DOMAIN sessions : s > turn.since => sessions[s].turn = Current

\* A minted uuid is nobody's before its first agent starts, and its first
\* agent is the only one that does not resume it.
Bound(n) ==
    /\ agents[n].tool = "claude" /\ agents[n].id # 0
    /\ sessions[agents[n].id].tool = "claude"
    /\ \/ agents[n].state = "working"
       \/ /\ sessions[agents[n].id].state = "reserved"
          /\ \A m \in Alive \ {n} : agents[m].id = agents[n].id
                                    => agents[m].flag = "resume"
Unbound ==
    /\ sessions[turn.id].tool = "claude" /\ sessions[turn.id].state = "reserved"
    /\ \A m \in Alive : agents[m].id # turn.id
BindsOnce ==
    /\ \A n \in Alive : agents[n].flag = "bind" => Bound(n)
    /\ pc = "spawn" /\ turn.tool = "claude" /\ turn.id # 0 /\ ~turn.resume => Unbound

IInv == /\ TypeOK /\ LocalsOK /\ NamedByTool /\ SessionStaysWithItsTool
        /\ WritersGone /\ AtMostCurrent /\ OnlyOwnSessions /\ BindsOnce

-----------------------------------------------------------------------------
(* The steps, by what they change                                          *)

\* A phase begins in one of three ways: with the row's session, with no
\* session yet, or with one that was just minted.
Resumes(p, t, i) == /\ Resumed(p, t, i) /\ row[p].id # 0
                    /\ p # "plan" => t = row[p].tool
Mints(p, t, i, left) ==
    \E st \in {"reserved", "live"} :
        /\ t = "claude" => st = "reserved"
        /\ Begin(p, t, Len(sessions) + 1, FALSE, i, left, Fresh(t, st))
Starts(p, t, i, left) ==
    /\ Idle /\ (p = "verify" => row["work"].tool # "none")
    /\ \/ Resumes(p, t, i)
       \/ Begin(p, t, 0, FALSE, i, left, sessions)
       \/ Mints(p, t, i, left)

LEMMA Beginnings ==
    ASSUME TypeOK, Commands
    PROVE  \E p \in Phases, t \in Tools, i \in BOOLEAN, left \in 0..MaxIterations :
             Starts(p, t, i, left)
<1> USE Bounds
<1>1. \A p \in Phases, t \in Tools, i \in BOOLEAN, left \in 0..MaxIterations :
        FreshOf(p, t, i, left) =>
          Begin(p, t, 0, FALSE, i, left, sessions) \/ Mints(p, t, i, left)
  <2> SUFFICES ASSUME NEW p \in Phases, NEW t \in Tools, NEW i \in BOOLEAN,
                      NEW left \in 0..MaxIterations, FreshOf(p, t, i, left)
               PROVE  Begin(p, t, 0, FALSE, i, left, sessions) \/ Mints(p, t, i, left)
    OBVIOUS
  <2>1. PICK new \in NewResumeID(t) : Begin(p, t, new[1], FALSE, i, left, new[2])
    BY DEF FreshOf
  <2>2. PICK st \in Minted(t) :
          new = IF st = "failed" THEN <<0, sessions>>
                ELSE <<Len(sessions) + 1, Fresh(t, st)>>
    BY <2>1 DEF NewResumeID
  <2>3. /\ st \in {"reserved", "live", "failed"}
        /\ t = "claude" => st = "reserved"
    BY <2>2 DEF Minted, ClaudeMints, CreateChatID
  <2>4. CASE st = "failed"
    BY <2>1, <2>2, <2>4
  <2>5. CASE st # "failed"
    <3>1. new[1] = Len(sessions) + 1 /\ new[2] = Fresh(t, st)
      BY <2>2, <2>5
    <3> QED
      BY <2>1, <2>3, <2>5, <3>1 DEF Mints
  <2> QED
    BY <2>4, <2>5
<1>2. ASSUME NEW t \in Tools, NEW i \in Modes, BeginPlan(t, i)
      PROVE  /\ Idle
             /\ \/ Resumed("plan", t, i) /\ row["plan"].id # 0
                \/ FreshOf("plan", t, i, 0)
  BY <1>2 DEF BeginPlan
<1>3. ASSUME NEW t \in Tools, NEW i \in Modes, BeginWork(t, i)
      PROVE  Idle /\ (\/ Resumed("work", t, i) /\ row["work"].id # 0 /\ t = row["work"].tool
                      \/ FreshOf("work", t, i, 0))
  BY <1>3 DEF BeginWork
<1>4. ASSUME NEW t \in Tools, BeginVerify(t)
      PROVE  /\ Idle /\ row["work"].tool # "none"
             /\ \/ Resumed("verify", t, TRUE) /\ row["verify"].id # 0 /\ t = row["verify"].tool
                \/ FreshOf("verify", t, FALSE, MaxIterations - 1)
  BY <1>4 DEF BeginVerify
<1>5. /\ Modes \subseteq BOOLEAN /\ 0 \in 0..MaxIterations
      /\ MaxIterations - 1 \in 0..MaxIterations
      /\ "plan" \in Phases /\ "work" \in Phases /\ "verify" \in Phases
  BY DEF Phases
<1>6. ASSUME NEW t \in Tools, NEW i \in Modes, BeginPlan(t, i)
      PROVE  Starts("plan", t, i, 0)
  <2>1. i \in BOOLEAN
    BY <1>5
  <2>2. CASE Resumed("plan", t, i) /\ row["plan"].id # 0
    BY <1>2, <1>6, <2>2 DEF Starts, Resumes
  <2>3. CASE FreshOf("plan", t, i, 0)
    BY <1>1, <1>2, <1>5, <1>6, <2>1, <2>3 DEF Starts
  <2> QED
    BY <1>2, <1>6, <2>2, <2>3
<1>7. ASSUME NEW t \in Tools, NEW i \in Modes, BeginWork(t, i)
      PROVE  Starts("work", t, i, 0)
  <2>1. i \in BOOLEAN
    BY <1>5
  <2>2. CASE Resumed("work", t, i) /\ row["work"].id # 0 /\ t = row["work"].tool
    BY <1>3, <1>7, <2>2 DEF Starts, Resumes
  <2>3. CASE FreshOf("work", t, i, 0)
    BY <1>1, <1>3, <1>5, <1>7, <2>1, <2>3 DEF Starts
  <2> QED
    BY <1>3, <1>7, <2>2, <2>3
<1>8. ASSUME NEW t \in Tools, BeginVerify(t)
      PROVE  \E i \in BOOLEAN, left \in 0..MaxIterations : Starts("verify", t, i, left)
  <2>1. CASE Resumed("verify", t, TRUE) /\ row["verify"].id # 0 /\ t = row["verify"].tool
    BY <1>4, <1>5, <1>8, <2>1 DEF Starts, Resumes
  <2>2. CASE FreshOf("verify", t, FALSE, MaxIterations - 1)
    <3>1. Starts("verify", t, FALSE, MaxIterations - 1)
      BY <1>1, <1>4, <1>5, <1>8, <2>2 DEF Starts
    <3> QED
      BY <3>1, <1>5
  <2> QED
    BY <1>4, <1>8, <2>1, <2>2
<1> QED
  BY <1>5, <1>6, <1>7, <1>8 DEF Commands

\* What a step may do to the sessions: add one, or complete one.
LEMMA SessionsKept ==
    ASSUME TypeOK, LocalsOK, Next
    PROVE  /\ sessions' \in Seq(Session) /\ Len(sessions) <= Len(sessions')
           /\ \A s \in DOMAIN sessions : /\ sessions'[s].tool = sessions[s].tool
                                         /\ sessions'[s].turn = sessions[s].turn
<1> USE Bounds
<1> DEFINE Kept == /\ sessions' \in Seq(Session) /\ Len(sessions) <= Len(sessions')
                   /\ \A s \in DOMAIN sessions :
                        /\ sessions'[s].tool = sessions[s].tool
                        /\ sessions'[s].turn = sessions[s].turn
<1>1. sessions \in Seq(Session) /\ agents \in Seq(Process \cup {Gone})
      /\ Len(agents) <= MaxAgents /\ Len(agents) \in Nat
  BY DEF TypeOK
<1>2. CASE UNCHANGED sessions
  BY <1>1, <1>2
<1>3. CASE \E t \in Session : sessions' = Append(sessions, t)
  BY <1>1, <1>3
<1>4. CASE \E s \in DOMAIN sessions : sessions' = [sessions EXCEPT ![s].state = "live"]
  <2>1. PICK s \in DOMAIN sessions : sessions' = [sessions EXCEPT ![s].state = "live"]
    BY <1>4
  <2> DEFINE r == sessions[s]
  <2>2. [r EXCEPT !.state = "live"] \in Session
    <3>1. r \in Session
      BY <1>1, <2>1
    <3> QED
      BY <3>1 DEF Session
  <2>3. sessions' = [sessions EXCEPT ![s] = [r EXCEPT !.state = "live"]]
    BY <2>1
  <2>4. sessions' \in Seq(Session) /\ Len(sessions') = Len(sessions)
    BY <1>1, <2>1, <2>2, <2>3
  <2>5. \A q \in DOMAIN sessions : /\ sessions'[q].tool = sessions[q].tool
                                   /\ sessions'[q].turn = sessions[q].turn
    BY <1>1, <2>1
  <2> QED
    BY <2>4, <2>5, <1>1
<1>5. CASE Commands
  <2>1. PICK p \in Phases, t \in Tools, i \in BOOLEAN, left \in 0..MaxIterations :
          Starts(p, t, i, left)
    BY <1>5, Beginnings
  <2>2. Current + 1 \in 0..MaxAgents
    BY <1>1, <2>1 DEF Starts, Idle, Current
  <2>3. \A st \in {"reserved", "live"} :
           [tool |-> t, turn |-> Current + 1, state |-> st] \in Session
    BY <2>2 DEF Session
  <2>4. UNCHANGED sessions \/ \E u \in Session : sessions' = Append(sessions, u)
    BY <2>1, <2>3 DEF Starts, Resumes, Mints, Resumed, Begin, Fresh
  <2> QED
    BY <2>4, <1>2, <1>3
<1>6. CASE Orchestrator \/ Cancel \/ ContextKills \/ Kill
  <2>1. UNCHANGED sessions
    BY <1>6 DEF Orchestrator, Spawn, SpawnFails, Scan, Tick, Probe, WatchCancelled, WaitForExit,
       WaitCancelled, Finish, Finishes, Fix, Cancel, ContextKills, Kill, End, Record, Goto, AfterWait
  <2> QED
    BY <2>1, <1>2
<1>7. ASSUME NEW n \in DOMAIN agents, Agent(n) PROVE Kept
  <2>1. CASE Opens(n)
    <3>1. agents[n] \in Process
      <4>1. agents[n] \in Process \cup {Gone} /\ agents[n].state = "starting"
        BY <1>1, <1>7, <2>1 DEF Opens
      <4> QED
        BY <4>1 DEF Gone
    <3>2. n \in 0..MaxAgents /\ agents[n].tool \in Tools
      BY <1>1, <1>7, <3>1 DEF Process
    <3>3. [tool |-> agents[n].tool, turn |-> n,
           state |-> IF agents[n].tool \in Scoped THEN "partial" ELSE "live"] \in Session
      BY <3>2 DEF Session
    <3> QED
      BY <2>1, <3>3, <1>3 DEF Opens
  <2>2. CASE Joins(n)
    <3>1. agents[n] \in Process
      <4>1. agents[n] \in Process \cup {Gone} /\ agents[n].state = "starting"
        BY <1>1, <1>7, <2>2 DEF Joins
      <4> QED
        BY <4>1 DEF Gone
    <3>2. agents[n].id \in DOMAIN sessions
      BY <1>1, <2>2, <3>1 DEF Joins, Process, Ids
    <3> QED
      BY <2>2, <3>2, <1>2, <1>4 DEF Joins
  <2>3. CASE WritesMeta(n)
    <3>1. agents[n] \in Process
      <4>1. agents[n] \in Process \cup {Gone} /\ agents[n].state = "working"
        BY <1>1, <1>7, <2>3 DEF WritesMeta
      <4> QED
        BY <4>1 DEF Gone
    <3>2. agents[n].session \in DOMAIN sessions
      BY <1>1, <1>7, <2>3, <3>1 DEF WritesMeta, Process, Ids, LocalsOK, Alive, Gone
    <3> QED
      BY <2>3, <3>2, <1>4 DEF WritesMeta
  <2>4. CASE Exits(n)
    BY <2>4, <1>2 DEF Exits
  <2> QED
    BY <1>7, <2>1, <2>2, <2>3, <2>4 DEF Agent
<1> QED
  BY <1>5, <1>6, <1>7 DEF Next

\* An agent that has not gone is a process.
LEMMA Processes ==
    ASSUME TypeOK
    PROVE  /\ \A n \in Alive : n \in DOMAIN agents /\ agents[n] \in Process
           /\ \A n \in DOMAIN agents :
                agents[n].state \in {"starting", "working"} => n \in Alive
<1>1. agents \in Seq(Process \cup {Gone})
  BY DEF TypeOK
<1>2. ASSUME NEW n \in Alive PROVE n \in DOMAIN agents /\ agents[n] \in Process
  BY <1>1, <1>2 DEF Alive
<1>3. ASSUME NEW n \in DOMAIN agents, agents[n].state \in {"starting", "working"}
      PROVE  n \in Alive
  BY <1>3 DEF Alive, Gone
<1> QED
  BY <1>2, <1>3

\* Who an agent is stays as it is, and only Spawn and Fix start one.
SameAgent(n) ==
    /\ agents'[n].tool = agents[n].tool /\ agents'[n].phase = agents[n].phase
    /\ agents'[n].id = agents[n].id /\ agents'[n].flag = agents[n].flag
    /\ agents[n].state = "working" => agents'[n].state = "working"
Starting(n) == n = Len(agents) + 1 /\ (Spawn \/ Fix)

LEMMA AgentsKept ==
    ASSUME TypeOK, LocalsOK, Next
    PROVE  /\ agents' \in Seq(Process' \cup {Gone})
           /\ Len(agents') \in {Len(agents), Len(agents) + 1}
           /\ Len(agents') = Len(agents) + 1 => Spawn \/ Fix
           /\ \A n \in Alive' : (n \in Alive /\ SameAgent(n)) \/ Starting(n)
<1> USE Bounds
<1> DEFINE Kept == /\ agents' \in Seq(Process' \cup {Gone})
                   /\ Len(agents') \in {Len(agents), Len(agents) + 1}
                   /\ Len(agents') = Len(agents) + 1 => Spawn \/ Fix
                   /\ \A n \in Alive' : (n \in Alive /\ SameAgent(n)) \/ Starting(n)
<1>1. agents \in Seq(Process \cup {Gone}) /\ sessions \in Seq(Session)
  BY DEF TypeOK
<1>2. Ids \subseteq Ids' /\ Process \subseteq Process'
  <2>1. Len(sessions) \in Nat /\ Len(sessions') \in Nat /\ Len(sessions) <= Len(sessions')
    BY <1>1, SessionsKept
  <2>2. Ids \subseteq Ids'
    BY <2>1 DEF Ids
  <2> QED
    BY <2>2 DEF Process
<1>3. agents \in Seq(Process' \cup {Gone})
  BY <1>1, <1>2
<1>4. CASE UNCHANGED agents
  <2>1. \A n \in Alive' : n \in Alive /\ SameAgent(n)
    BY <1>4 DEF Alive, SameAgent
  <2> QED
    BY <1>1, <1>3, <1>4, <2>1
<1>5. ASSUME NEW n \in DOMAIN agents, Leave(n) PROVE Kept
  <2>1. agents' = [agents EXCEPT ![n] = Gone]
    BY <1>5 DEF Leave
  <2>2. agents' \in Seq(Process' \cup {Gone}) /\ Len(agents') = Len(agents)
    BY <1>3, <1>5, <2>1
  <2>3. \A m \in Alive' : m \in Alive /\ SameAgent(m)
    BY <1>1, <1>5, <2>1 DEF Alive, SameAgent
  <2> QED
    BY <1>1, <2>2, <2>3
<1>6. ASSUME NEW t \in Tools, NEW p \in Phases, NEW id \in Ids, NEW resume \in BOOLEAN,
             Started(t, p, id, resume), Spawn \/ Fix
      PROVE  Kept
  <2>1. PICK flag \in {"new", "resume", "bind"} :
          agents' = Append(agents, [tool |-> t, phase |-> p, id |-> id, flag |-> flag,
                                    session |-> 0, state |-> "starting"])
    BY <1>6 DEF Started, ClaudeRun, CodexRun, CursorRun, DeepseekRun, Scoped
  <2>2. [tool |-> t, phase |-> p, id |-> id, flag |-> flag,
         session |-> 0, state |-> "starting"] \in Process
    BY <1>1 DEF Process, Ids
  <2>3. agents' \in Seq(Process' \cup {Gone}) /\ Len(agents') = Len(agents) + 1
    BY <1>2, <1>3, <2>1, <2>2
  <2>4. \A n \in Alive' : (n \in Alive /\ SameAgent(n)) \/ n = Len(agents) + 1
    BY <1>1, <2>1 DEF Alive, SameAgent
  <2> QED
    BY <1>1, <1>6, <2>3, <2>4 DEF Starting
<1>7. CASE Commands
  <2>1. UNCHANGED agents
    BY <1>7, Beginnings DEF Starts, Resumes, Mints, Resumed, Begin
  <2> QED
    BY <1>4, <2>1
<1>8. CASE Spawn
  <2>1. turn \in Turn
    BY <1>8 DEF TypeOK, Spawn
  <2>2. turn.tool \in Tools /\ turn.phase \in Phases /\ turn.id \in Ids /\ turn.resume \in BOOLEAN
    BY <2>1 DEF Turn
  <2> QED
    BY <1>6, <1>8, <2>2 DEF Spawn
<1>9. CASE Fix
  <2>1. turn.phase = "verify" /\ pc # "idle" /\ row \in [Phases -> [tool: Tools \cup {"none"}, id: Ids]]
    BY <1>9 DEF TypeOK, Fix
  <2>2. row["work"].tool \in Tools /\ row["work"].id \in Ids /\ "work" \in Phases /\ TRUE \in BOOLEAN
    BY <2>1 DEF LocalsOK, Phases
  <2> QED
    BY <1>6, <1>9, <2>2 DEF Fix
<1>10. CASE Orchestrator /\ ~Spawn /\ ~Fix
  <2>1. UNCHANGED agents
    BY <1>10 DEF Orchestrator, SpawnFails, Scan, Tick, Probe, WatchCancelled, WaitForExit,
       WaitCancelled, Finish, Finishes, End, Record, Goto, AfterWait
  <2> QED
    BY <1>4, <2>1
<1>11. CASE Cancel \/ Kill
  <2>1. UNCHANGED agents
    BY <1>11 DEF Cancel, Kill, End
  <2> QED
    BY <1>4, <2>1
<1>12. CASE ContextKills
  <2>1. Current \in DOMAIN agents
    BY <1>12 DEF ContextKills, Alive
  <2> QED
    BY <1>5, <1>12, <2>1 DEF ContextKills
<1>13. ASSUME NEW n \in DOMAIN agents, Agent(n) PROVE Kept
  <2>1. ASSUME NEW id \in Ids', n \in Alive,
               agents' = [agents EXCEPT ![n].state = "working", ![n].session = id]
        PROVE  Kept
    <3> DEFINE b == agents[n]
    <3>1. b \in Process'
      BY <1>2, <2>1, Processes
    <3>2. [b EXCEPT !.state = "working", !.session = id] \in Process'
      BY <2>1, <3>1 DEF Process
    <3>3. agents' = [agents EXCEPT ![n] = [b EXCEPT !.state = "working", !.session = id]]
      BY <2>1
    <3>4. agents' \in Seq(Process' \cup {Gone}) /\ Len(agents') = Len(agents)
      BY <1>3, <1>13, <3>2, <3>3
    <3>5. ASSUME NEW m \in Alive' PROVE m \in Alive /\ SameAgent(m)
      <4>1. m \in DOMAIN agents
        BY <1>1, <2>1, <3>5 DEF Alive
      <4>2. CASE m = n
        <5>1. b \in Process
          BY <2>1, Processes
        <5> QED
          BY <2>1, <3>3, <4>1, <4>2, <5>1 DEF SameAgent, Process
      <4>3. CASE m # n
        BY <1>1, <2>1, <3>5, <4>1, <4>3 DEF Alive, SameAgent
      <4> QED
        BY <4>2, <4>3
    <3> QED
      BY <1>1, <3>4, <3>5
  <2>2. CASE Opens(n)
    <3>1. Len(sessions) + 1 \in Ids'
      BY <1>1, <2>2 DEF Opens, Ids
    <3> QED
      BY <1>13, <2>1, <2>2, <3>1, Processes DEF Opens
  <2>3. CASE Joins(n)
    <3>1. n \in Alive /\ agents[n].id \in Ids'
      BY <1>2, <1>13, <2>3, Processes DEF Joins, Process
    <3> QED
      BY <1>5, <1>13, <2>1, <2>3, <3>1 DEF Joins
  <2>4. CASE WritesMeta(n)
    BY <1>4, <2>4 DEF WritesMeta
  <2>5. CASE Exits(n)
    BY <1>5, <1>13, <2>5 DEF Exits
  <2> QED
    BY <1>13, <2>2, <2>3, <2>4, <2>5 DEF Agent
<1> QED
  BY <1>7, <1>8, <1>9, <1>10, <1>11, <1>12, <1>13 DEF Next

\* Every id stays one.
LEMMA IdsGrow ==
    ASSUME TypeOK, LocalsOK, Next
    PROVE  /\ Len(sessions) \in Nat /\ Len(sessions') \in Nat
           /\ Ids \subseteq Ids' /\ Turn \subseteq Turn'
<1>1. sessions \in Seq(Session) /\ sessions' \in Seq(Session)
      /\ Len(sessions) <= Len(sessions')
  BY SessionsKept DEF TypeOK
<1>2. Len(sessions) \in Nat /\ Len(sessions') \in Nat
  BY <1>1
<1>3. Ids \subseteq Ids'
  BY <1>1, <1>2 DEF Ids
<1> QED
  BY <1>2, <1>3 DEF Turn

\* The row has the tool and the session of a phase, or is as it was.
Saved(p, t, id) == row' \in {row, Recorded(p, t, id)}

\* What a phase begins with.
LEMMA Begun ==
    ASSUME TypeOK, LocalsOK, Next,
           NEW p \in Phases, NEW t \in Tools, NEW i \in BOOLEAN,
           NEW left \in 0..MaxIterations, Starts(p, t, i, left)
    PROVE  /\ pc = "idle" /\ pc' = "spawn" /\ UNCHANGED <<agents, cancelled>>
           /\ UNCHANGED mishaps \/ Mishap
           /\ turn' \in Turn' /\ turn'.phase = p /\ turn'.tool = t
           /\ turn'.alone = (Alive = {}) /\ turn'.since = Len(sessions')
           /\ Saved(p, t, turn'.id)
           /\ turn'.id \in Ids' /\ turn' # NoTurn
<1> USE Bounds
<1>1. PICK id \in Ids', resume \in BOOLEAN, rounds \in 0..MaxIterations :
        Begin(p, t, id, resume, i, rounds, sessions')
  <2>1. CASE Resumes(p, t, i)
    <3>1. row[p].id \in Ids'
      BY <2>1, IdsGrow DEF TypeOK
    <3>2. Begin(p, t, row[p].id, TRUE, i, 0, sessions') /\ UNCHANGED sessions
      BY <2>1 DEF Resumes, Resumed, Begin
    <3>3. 0 \in 0..MaxIterations
      OBVIOUS
    <3> QED
      BY <3>1, <3>2, <3>3
  <2>2. CASE Begin(p, t, 0, FALSE, i, left, sessions)
    <3>1. 0 \in Ids' /\ FALSE \in BOOLEAN
      BY IdsGrow DEF Ids
    <3>2. Begin(p, t, 0, FALSE, i, left, sessions')
      BY <2>2 DEF Begin
    <3> QED
      BY <3>1, <3>2
  <2>3. CASE Mints(p, t, i, left)
    <3>1. PICK st \in {"reserved", "live"} :
            Begin(p, t, Len(sessions) + 1, FALSE, i, left, Fresh(t, st))
      BY <2>3 DEF Mints
    <3>2. sessions \in Seq(Session) /\ sessions' = Fresh(t, st)
      BY <3>1 DEF Begin, TypeOK
    <3>3. Len(sessions') = Len(sessions) + 1
      BY <3>2 DEF Fresh
    <3>4. Len(sessions) + 1 \in Ids' /\ FALSE \in BOOLEAN
      BY <3>3, IdsGrow DEF Ids
    <3>5. Begin(p, t, Len(sessions) + 1, FALSE, i, left, sessions')
      BY <3>1, <3>2 DEF Begin
    <3> QED
      BY <3>4, <3>5
  <2> QED
    BY <2>1, <2>2, <2>3 DEF Starts
<1>2. Len(sessions') \in Ids'
  BY IdsGrow DEF Ids
<1>3. turn' \in Turn'
  BY <1>1, <1>2 DEF Begin, Turn
<1> QED
  BY <1>1, <1>3 DEF Begin, Starts, Idle, NoTurn, Turn, Saved

\* Afterwards only the watcher and the end of the phase write the row, and the
\* phase stays the same.
SamePhase ==
    /\ pc # "idle" /\ pc' # "idle" /\ turn' \in Turn'
    /\ turn'.phase = turn.phase /\ turn'.tool = turn.tool /\ turn'.id = turn.id
    /\ turn'.since = turn.since /\ turn'.alone = turn.alone

Ending ==
    /\ pc \in {"spawn", "wait", "fixwait", "finish"} /\ pc' = "idle" /\ turn' = NoTurn
    /\ Saved(turn.phase, turn.tool, turn.id)

LEMMA PhaseKept ==
    ASSUME TypeOK, LocalsOK, Next
    PROVE  \/ Commands
           \/ pc = "watch" /\ Record
           \/ Ending
           \/ UNCHANGED row /\ pc' = "idle" /\ turn' = NoTurn
           \/ UNCHANGED row /\ SamePhase
           \/ UNCHANGED <<row, turn, pc>>
<1> USE Bounds
<1> DEFINE Kept == \/ Commands
                   \/ pc = "watch" /\ Record
                   \/ Ending
                   \/ UNCHANGED row /\ pc' = "idle" /\ turn' = NoTurn
                   \/ UNCHANGED row /\ SamePhase
                   \/ UNCHANGED <<row, turn, pc>>
<1>1. pc # "idle" => turn \in Turn /\ turn \in Turn'
  BY IdsGrow DEF TypeOK
<1>2. CASE SpawnFails \/ WaitCancelled \/ Finish \/ Kill
  BY <1>2 DEF SpawnFails, WaitCancelled, Finish, Finishes, Waiting, Ending, Kill, End, Saved
<1>3. CASE Spawn \/ Probe \/ WatchCancelled
  <2>1. pc # "idle" /\ pc' # "idle" /\ UNCHANGED <<turn, row>>
    BY <1>3 DEF Spawn, Probe, WatchCancelled, Goto
  <2> QED
    BY <1>1, <2>1 DEF SamePhase
<1>4. CASE Scan \/ Tick
  <2>1. CASE Record
    BY <1>4, <2>1 DEF Scan, Tick
  <2>2. CASE ~Record
    <3>1. pc # "idle" /\ pc' # "idle" /\ UNCHANGED <<turn, row>>
      BY <1>4, <2>2 DEF Scan, Tick, Goto
    <3> QED
      BY <1>1, <3>1 DEF SamePhase
  <2> QED
    BY <2>1, <2>2
<1>5. CASE WaitForExit
  <2>1. pc \in {"wait", "fixwait"} /\ pc' # "idle" /\ UNCHANGED row
        /\ turn' = [turn EXCEPT !.resume = turn.resume \/ pc = "fixwait"]
    BY <1>5 DEF WaitForExit, Waiting, AfterWait
  <2>2. turn \in Turn /\ turn \in Turn'
    BY <1>1, <2>1
  <2>3. (turn.resume \/ pc = "fixwait") \in BOOLEAN
    OBVIOUS
  <2>4. turn' \in Turn'
    BY <2>1, <2>2 DEF Turn
  <2>5. turn'.phase = turn.phase /\ turn'.tool = turn.tool /\ turn'.id = turn.id
        /\ turn'.since = turn.since /\ turn'.alone = turn.alone
    BY <2>1, <2>2 DEF Turn
  <2> QED
    BY <2>1, <2>4, <2>5 DEF SamePhase
<1>6. CASE Fix
  <2>1. pc = "finish" /\ pc' = "fixwait" /\ UNCHANGED row
        /\ turn' = [turn EXCEPT !.left = turn.left - 1] /\ turn.left > 0
    BY <1>6 DEF Fix
  <2>2. turn \in Turn /\ turn \in Turn'
    BY <1>1, <2>1
  <2>3. turn.left - 1 \in 0..MaxIterations
    BY <2>1, <2>2 DEF Turn
  <2>4. turn' \in Turn'
    BY <2>1, <2>2, <2>3 DEF Turn
  <2>5. turn'.phase = turn.phase /\ turn'.tool = turn.tool /\ turn'.id = turn.id
        /\ turn'.since = turn.since /\ turn'.alone = turn.alone
    BY <2>1, <2>2 DEF Turn
  <2> QED
    BY <2>1, <2>4, <2>5 DEF SamePhase
<1>7. CASE Cancel \/ ContextKills
  BY <1>7 DEF Cancel, ContextKills
<1>8. ASSUME NEW n \in DOMAIN agents, Agent(n) PROVE Kept
  BY <1>8 DEF Agent, Opens, Joins, WritesMeta, Exits
<1> QED
  BY <1>2, <1>3, <1>4, <1>5, <1>6, <1>7, <1>8 DEF Next, Orchestrator

\* What the watcher records is a session of the phase's tool, newer than it.
LEMMA WatcherRecords ==
    ASSUME TypeOK, pc = "watch", Record
    PROVE  /\ pc' = "wait" /\ UNCHANGED <<sessions, agents, cancelled, mishaps>>
           /\ turn \in Turn /\ turn'.id \in DOMAIN sessions /\ turn'.id > turn.since
           /\ sessions[turn'.id].tool = turn.tool
           /\ turn' = [turn EXCEPT !.id = turn'.id]
           /\ Saved(turn.phase, turn.tool, turn'.id)
<1>1. turn \in Turn
  BY DEF TypeOK
<1>2. PICK s \in Matches : /\ turn' = [turn EXCEPT !.id = s]
                           /\ Saved(turn.phase, turn.tool, s)
  BY DEF Record, Saved
<1>3. turn'.id = s
  BY <1>1, <1>2 DEF Turn
<1> QED
  BY <1>1, <1>2, <1>3 DEF Record, Matches

-----------------------------------------------------------------------------
(* The parts of the invariant, step by step                                *)

LEMMA TypeStep == TypeOK /\ LocalsOK /\ Next => TypeOK'
<1> SUFFICES ASSUME TypeOK, LocalsOK, Next PROVE TypeOK'
  OBVIOUS
<1> USE Bounds
<1>1. row \in [Phases -> [tool: Tools \cup {"none"}, id: Ids']]
  <2>1. row \in [Phases -> [tool: Tools \cup {"none"}, id: Ids]] /\ Ids \subseteq Ids'
    BY IdsGrow DEF TypeOK
  <2>2. [tool: Tools \cup {"none"}, id: Ids] \subseteq [tool: Tools \cup {"none"}, id: Ids']
    BY <2>1
  <2> QED
    BY <2>1, <2>2
<1>2. /\ sessions' \in Seq(Session) /\ agents' \in Seq(Process' \cup {Gone})
  BY SessionsKept, AgentsKept
<1>3. Len(agents') <= MaxAgents
  <2>1. Len(agents) \in Nat /\ Len(agents) <= MaxAgents
    BY DEF TypeOK
  <2>2. CASE Spawn
    BY <2>1, <2>2, AgentsKept DEF LocalsOK, Spawn
  <2>3. CASE Fix
    BY <2>1, <2>3, AgentsKept DEF Fix, Current
  <2>4. CASE ~(Spawn \/ Fix)
    BY <2>1, <2>4, AgentsKept
  <2> QED
    BY <2>2, <2>3, <2>4
<1>4. /\ pc' \in {"idle", "spawn", "watch", "probe", "wait", "finish", "fixwait"}
      /\ cancelled' \in BOOLEAN /\ mishaps' \in 0..MaxMishaps
  <2>1. /\ pc \in {"idle", "spawn", "watch", "probe", "wait", "finish", "fixwait"}
        /\ cancelled \in BOOLEAN /\ mishaps \in 0..MaxMishaps
    BY DEF TypeOK
  <2>2. CASE Commands
    <3>1. pc' = "spawn" \/ pc' = pc
      BY <2>2, Beginnings, Begun
    <3>2. /\ cancelled' \in BOOLEAN
          /\ UNCHANGED mishaps \/ (mishaps < MaxMishaps /\ mishaps' = mishaps + 1)
      BY <2>1, <2>2, Beginnings, Begun DEF Mishap
    <3>3. mishaps \in 0..MaxMishaps /\ MaxMishaps \in Nat
      BY <2>1
    <3> QED
      BY <2>1, <3>1, <3>2, <3>3
  <2>3. CASE Orchestrator
    BY <2>1, <2>3 DEF Orchestrator, Spawn, SpawnFails, Scan, Tick, Probe, WatchCancelled,
       WaitForExit, WaitCancelled, Finish, Finishes, Fix, End, Record, Goto, AfterWait
  <2>4. CASE Cancel \/ Kill \/ ContextKills
    <3>1. /\ pc' \in {pc, "idle"} /\ cancelled' \in BOOLEAN
          /\ UNCHANGED mishaps \/ (mishaps < MaxMishaps /\ mishaps' = mishaps + 1)
      BY <2>1, <2>4 DEF Cancel, Kill, ContextKills, Stop, End, Mishap
    <3>2. mishaps \in 0..MaxMishaps /\ MaxMishaps \in Nat
      BY <2>1
    <3> QED
      BY <2>1, <3>1, <3>2
  <2>5. ASSUME NEW n \in DOMAIN agents, Agent(n) PROVE UNCHANGED <<pc, cancelled, mishaps>>
    BY <2>5 DEF Agent, Opens, Joins, WritesMeta, Exits
  <2> QED
    BY <2>1, <2>2, <2>3, <2>4, <2>5 DEF Next
<1>5. /\ row' \in [Phases -> [tool: Tools \cup {"none"}, id: Ids']]
      /\ turn' \in Turn' \cup {NoTurn} /\ (turn' = NoTurn <=> pc' = "idle")
  <2> DEFINE Good == /\ row' \in [Phases -> [tool: Tools \cup {"none"}, id: Ids']]
                     /\ turn' \in Turn' \cup {NoTurn} /\ (turn' = NoTurn <=> pc' = "idle")
  <2>1. NoTurn \notin Turn /\ NoTurn \notin Turn'
    BY DEF NoTurn, Turn, Phases
  <2>2. ASSUME NEW p \in Phases, NEW t \in Tools, NEW i \in BOOLEAN,
               NEW left \in 0..MaxIterations, Starts(p, t, i, left)
        PROVE  Good
    <3>1. /\ Saved(p, t, turn'.id)
          /\ turn'.id \in Ids' /\ turn' \in Turn' /\ turn' # NoTurn /\ pc' = "spawn"
      BY <2>2, Begun
    <3> QED
      BY <1>1, <3>1 DEF Saved, Recorded
  <2>3. CASE pc = "watch" /\ Record
    <3>1. /\ turn \in Turn /\ turn'.id \in DOMAIN sessions /\ pc' = "wait"
          /\ turn' = [turn EXCEPT !.id = turn'.id]
          /\ Saved(turn.phase, turn.tool, turn'.id)
      BY <2>3, WatcherRecords
    <3>2. turn'.id \in Ids' /\ turn \in Turn'
      BY <3>1, IdsGrow DEF Ids, TypeOK
    <3>3. turn' \in Turn'
      BY <3>1, <3>2 DEF Turn
    <3>4. turn.phase \in Phases /\ turn.tool \in Tools
      BY <3>1 DEF Turn
    <3>5. row' \in [Phases -> [tool: Tools \cup {"none"}, id: Ids']]
      BY <1>1, <3>1, <3>2, <3>4 DEF Saved, Recorded
    <3> QED
      BY <2>1, <3>1, <3>3, <3>5
  <2>4. CASE UNCHANGED row /\ pc' = "idle" /\ turn' = NoTurn
    BY <1>1, <2>4
  <2>5. CASE UNCHANGED row /\ SamePhase
    BY <1>1, <2>1, <2>5 DEF SamePhase
  <2>6. CASE UNCHANGED <<row, turn, pc>>
    BY <1>1, <2>6, IdsGrow DEF TypeOK
  <2>7. CASE Ending
    <3>1. turn \in Turn'
      BY <2>7, IdsGrow DEF Ending, TypeOK
    <3>2. turn.phase \in Phases /\ turn.tool \in Tools /\ turn.id \in Ids'
      BY <3>1 DEF Turn
    <3> QED
      BY <1>1, <2>7, <3>2 DEF Ending, Saved, Recorded
  <2> QED
    BY <2>2, <2>3, <2>4, <2>5, <2>6, <2>7, PhaseKept, Beginnings
<1> QED
  BY <1>2, <1>3, <1>4, <1>5 DEF TypeOK

LEMMA LocalsStep == TypeOK /\ LocalsOK /\ Next => LocalsOK'
<1> SUFFICES ASSUME TypeOK, LocalsOK, Next PROVE LocalsOK'
  OBVIOUS
<1> USE Bounds
<1>1. row \in [Phases -> [tool: Tools \cup {"none"}, id: Ids]] /\ "none" \notin Tools
      /\ {"plan", "work", "verify"} = Phases
  BY DEF TypeOK, Scoped, Phases
<1>2. pc' # "idle" /\ turn'.phase = "verify" => row'["work"].tool # "none"
  <2> DEFINE Good == pc' # "idle" /\ turn'.phase = "verify" => row'["work"].tool # "none"
  <2>1. ASSUME NEW p \in Phases, NEW t \in Tools, NEW i \in BOOLEAN,
               NEW left \in 0..MaxIterations, Starts(p, t, i, left)
        PROVE  Good
    <3>1. Saved(p, t, turn'.id) /\ turn'.phase = p
      BY <2>1, Begun
    <3>2. p = "verify" => row["work"].tool # "none"
      BY <2>1 DEF Starts
    <3> QED
      BY <1>1, <3>1, <3>2 DEF Saved, Recorded
  <2>2. CASE pc = "watch" /\ Record
    <3>1. turn'.phase = turn.phase /\ Saved(turn.phase, turn.tool, turn'.id)
      <4>1. /\ turn \in Turn /\ turn' = [turn EXCEPT !.id = turn'.id]
            /\ Saved(turn.phase, turn.tool, turn'.id)
        BY <2>2, WatcherRecords
      <4> QED
        BY <4>1 DEF Turn
    <3>2. turn.phase = "verify" => row'["work"] = row["work"]
      BY <1>1, <3>1 DEF Saved, Recorded
    <3> QED
      BY <2>2, <3>1, <3>2 DEF LocalsOK
  <2>3. CASE UNCHANGED row /\ pc' = "idle" /\ turn' = NoTurn
    BY <2>3
  <2>4. CASE UNCHANGED row /\ SamePhase
    BY <2>4 DEF SamePhase, LocalsOK
  <2>5. CASE UNCHANGED <<row, turn, pc>>
    BY <2>5 DEF LocalsOK
  <2>6. CASE Ending
    BY <2>6 DEF Ending
  <2> QED
    BY <2>1, <2>2, <2>3, <2>4, <2>5, <2>6, PhaseKept, Beginnings
<1>3. pc' \in {"spawn", "fixwait"} => Len(agents') < MaxAgents
  <2>1. Len(agents) \in Nat /\ Len(agents) <= MaxAgents /\ MaxAgents \in Nat
        /\ MaxEarlier \in Nat /\ MaxEarlier < MaxAgents
    BY DEF TypeOK
  <2>2. ASSUME NEW p \in Phases, NEW t \in Tools, NEW i \in BOOLEAN,
               NEW left \in 0..MaxIterations, Starts(p, t, i, left)
        PROVE  Len(agents') < MaxAgents
    <3>1. UNCHANGED agents /\ Len(agents) <= MaxEarlier
      BY <2>2, Begun DEF Starts, Idle, Current
    <3> QED
      BY <2>1, <3>1
  <2>3. CASE Fix
    BY <2>1, <2>3, AgentsKept DEF Fix, Current
  <2>4. CASE Spawn
    BY <2>4 DEF Spawn
  <2>5. CASE ~Fix /\ ~Spawn
    <3>1. Len(agents') = Len(agents)
      BY <2>5, AgentsKept
    <3>2. CASE Orchestrator
      <4>1. pc' \in {"spawn", "fixwait"} => pc = "fixwait"
        BY <2>5, <3>2 DEF Orchestrator, SpawnFails, Scan, Tick, Probe, WatchCancelled,
           WaitForExit, WaitCancelled, Finish, Finishes, End, Record, Goto, AfterWait
      <4> QED
        BY <3>1, <4>1 DEF LocalsOK
    <3>3. CASE Cancel \/ ContextKills \/ Kill
      BY <3>1, <3>3 DEF LocalsOK, Cancel, ContextKills, Kill, End
    <3>4. ASSUME NEW n \in DOMAIN agents, Agent(n) PROVE UNCHANGED pc
      BY <3>4 DEF Agent, Opens, Joins, WritesMeta, Exits
    <3> QED
      BY <2>2, <3>1, <3>2, <3>3, <3>4, Beginnings DEF LocalsOK, Next
  <2> QED
    BY <2>3, <2>4, <2>5
<1>4. \A n \in Alive' : agents'[n].state = "working" => agents'[n].session # 0
  <2> DEFINE Good == \A n \in Alive' : agents'[n].state = "working" => agents'[n].session # 0
  <2>1. agents \in Seq(Process \cup {Gone}) /\ sessions \in Seq(Session)
    BY DEF TypeOK
  <2>2. ASSUME NEW n \in DOMAIN agents, Leave(n) PROVE Good
    BY <2>1, <2>2 DEF Leave, Alive, LocalsOK
  <2>3. CASE UNCHANGED agents
    BY <2>3 DEF Alive, LocalsOK
  <2>4. CASE Spawn \/ Fix
    <3>1. PICK a : agents' = Append(agents, a) /\ a.state = "starting"
      BY <2>4 DEF Spawn, Fix, Started
    <3> QED
      BY <2>1, <3>1 DEF Alive, LocalsOK
  <2>5. ASSUME NEW n \in DOMAIN agents, NEW id \in Nat, id # 0,
               agents' = [agents EXCEPT ![n].state = "working", ![n].session = id], n \in Alive
        PROVE  Good
    <3>1. agents[n] \in Process
      BY <2>5, Processes
    <3>2. agents' = [agents EXCEPT ![n] = [agents[n] EXCEPT !.state = "working", !.session = id]]
      BY <2>5
    <3>3. agents'[n].session = id
      <4>1. agents'[n] = [agents[n] EXCEPT !.state = "working", !.session = id]
        BY <2>1, <2>5, <3>2
      <4> QED
        BY <3>1, <4>1 DEF Process
    <3>4. \A m \in DOMAIN agents \ {n} : agents'[m] = agents[m]
      BY <2>1, <2>5
    <3> QED
      BY <2>1, <2>5, <3>3, <3>4 DEF Alive, LocalsOK
  <2>6. ASSUME NEW n \in DOMAIN agents, Agent(n) PROVE Good
    <3>1. CASE Opens(n)
      <4>1. /\ n \in Alive /\ Len(sessions) + 1 \in Nat /\ Len(sessions) + 1 # 0
            /\ agents' = [agents EXCEPT ![n].state = "working",
                                        ![n].session = Len(sessions) + 1]
        BY <2>1, <2>6, <3>1, Processes DEF Opens
      <4> QED
        BY <2>5, <4>1
    <3>2. CASE Joins(n)
      <4>1. n \in Alive /\ agents[n].id \in Nat /\ agents[n].id # 0
        BY <2>1, <2>6, <3>2, Processes DEF Joins, Process, Ids
      <4> QED
        BY <2>2, <2>5, <2>6, <3>2, <4>1 DEF Joins
    <3>3. CASE WritesMeta(n) \/ Exits(n)
      BY <2>2, <2>3, <2>6, <3>3 DEF WritesMeta, Exits
    <3> QED
      BY <2>6, <3>1, <3>2, <3>3 DEF Agent
  <2>7. CASE Commands
    BY <2>3, <2>7, Beginnings, Begun
  <2>8. CASE Orchestrator /\ ~Spawn /\ ~Fix
    <3>1. UNCHANGED agents
      BY <2>8 DEF Orchestrator, SpawnFails, Scan, Tick, Probe, WatchCancelled, WaitForExit,
         WaitCancelled, Finish, Finishes, End, Record, Goto, AfterWait
    <3> QED
      BY <2>3, <3>1
  <2>9. CASE Cancel \/ Kill \/ ContextKills
    BY <2>2, <2>3, <2>9 DEF Cancel, Kill, ContextKills, End, Alive
  <2> QED
    BY <2>4, <2>6, <2>7, <2>8, <2>9 DEF Next
<1> QED
  BY <1>2, <1>3, <1>4 DEF LocalsOK

LEMMA NamedStep == TypeOK /\ LocalsOK /\ NamedByTool /\ Next => NamedByTool'
<1> SUFFICES ASSUME TypeOK, LocalsOK, NamedByTool, Next PROVE NamedByTool'
  OBVIOUS
<1>1. /\ row \in [Phases -> [tool: Tools \cup {"none"}, id: Ids]]
      /\ pc # "idle" => turn \in Turn
      /\ {"plan", "work", "verify"} = Phases
  BY DEF TypeOK, Phases
<1>2. \A s \in Ids : s # 0 => sessions'[s].tool = sessions[s].tool
  BY SessionsKept, IdsGrow DEF Ids, TypeOK
<1>3. ASSUME NEW p \in Phases, NEW t \in Tools, NEW i \in BOOLEAN,
             NEW left \in 0..MaxIterations, Starts(p, t, i, left)
      PROVE  NamedByTool'
  <2>1. Saved(p, t, turn'.id) /\ turn'.phase = p /\ turn'.tool = t
    BY <1>3, Begun
  <2>2. p # "plan" /\ turn'.id # 0 => sessions'[turn'.id].tool = t
    <3>1. CASE Resumes(p, t, i)
      <4>1. turn'.id = row[p].id /\ (p # "plan" => t = row[p].tool)
        BY <3>1 DEF Resumes, Resumed, Begin
      <4> QED
        BY <1>1, <1>2, <4>1 DEF NamedByTool
    <3>2. CASE Begin(p, t, 0, FALSE, i, left, sessions)
      BY <3>2 DEF Begin
    <3>3. CASE Mints(p, t, i, left)
      <4>1. PICK st \in {"reserved", "live"} :
              Begin(p, t, Len(sessions) + 1, FALSE, i, left, Fresh(t, st))
        BY <3>3 DEF Mints
      <4>2. turn'.id = Len(sessions) + 1 /\ sessions \in Seq(Session)
            /\ sessions' = Append(sessions, [tool |-> t, turn |-> Current + 1, state |-> st])
        BY <4>1 DEF Begin, Fresh, TypeOK
      <4> QED
        BY <4>2
    <3> QED
      BY <1>3, <3>1, <3>2, <3>3 DEF Starts
  <2> QED
    BY <1>1, <1>2, <2>1, <2>2 DEF NamedByTool, Saved, Recorded
<1>4. CASE pc = "watch" /\ Record
  <2>1. /\ UNCHANGED sessions
        /\ turn \in Turn /\ turn'.id \in DOMAIN sessions
        /\ sessions[turn'.id].tool = turn.tool
        /\ turn' = [turn EXCEPT !.id = turn'.id]
        /\ Saved(turn.phase, turn.tool, turn'.id)
    BY <1>4, WatcherRecords
  <2>2. turn.phase \in Phases /\ turn'.tool = turn.tool /\ turn'.phase = turn.phase
    BY <2>1 DEF Turn
  <2>3. \A p \in Phases : \/ row'[p] = row[p]
                          \/ p = turn.phase /\ row'[p] = [tool |-> turn.tool, id |-> turn'.id]
    BY <1>1, <2>1, <2>2 DEF Saved, Recorded
  <2> QED
    BY <1>1, <2>1, <2>2, <2>3 DEF NamedByTool
<1>5. CASE UNCHANGED row /\ pc' = "idle" /\ turn' = NoTurn
  BY <1>1, <1>2, <1>5 DEF NamedByTool
<1>6. CASE UNCHANGED row /\ SamePhase
  <2>1. turn.id \in Ids
    BY <1>1, <1>6 DEF SamePhase, Turn
  <2> QED
    BY <1>1, <1>2, <1>6, <2>1 DEF NamedByTool, SamePhase
<1>7. CASE UNCHANGED <<row, turn, pc>>
  <2>1. pc # "idle" => turn.id \in Ids
    BY <1>1 DEF Turn
  <2> QED
    BY <1>1, <1>2, <1>7, <2>1 DEF NamedByTool
<1>8. CASE Ending
  <2>1. turn.phase \in Phases /\ turn.id \in Ids /\ pc # "idle"
    BY <1>1, <1>8 DEF Ending, Turn
  <2>2. \A p \in Phases : \/ row'[p] = row[p]
                          \/ p = turn.phase /\ row'[p] = [tool |-> turn.tool, id |-> turn.id]
    BY <1>1, <1>8, <2>1 DEF Ending, Saved, Recorded
  <2> QED
    BY <1>1, <1>2, <1>8, <2>1, <2>2 DEF NamedByTool, Ending
<1> QED
  BY <1>3, <1>4, <1>5, <1>6, <1>7, <1>8, PhaseKept, Beginnings

\* The agent that was just started.
LEMMA NewAgent ==
    ASSUME TypeOK, NEW t \in Tools, NEW p, NEW id, NEW resume \in BOOLEAN,
           Started(t, p, id, resume)
    PROVE  /\ Len(agents) \in Nat /\ Len(agents') = Len(agents) + 1
           /\ \A n \in DOMAIN agents : agents'[n] = agents[n]
           /\ agents'[Len(agents) + 1].tool = t /\ agents'[Len(agents) + 1].phase = p
           /\ agents'[Len(agents) + 1].id = id
           /\ agents'[Len(agents) + 1].state = "starting"
           /\ agents'[Len(agents) + 1].flag = "bind" <=> t = "claude" /\ id # 0 /\ ~resume
           /\ agents'[Len(agents) + 1].flag # "bind" /\ id # 0
                => agents'[Len(agents) + 1].flag = "resume"
<1> USE Bounds
<1>1. agents \in Seq(Process \cup {Gone})
  BY DEF TypeOK
<1>2. t \in {"claude", "codex", "cursor", "deepseek"}
  BY DEF Scoped
<1> DEFINE flag == CASE t = "claude"   -> ClaudeRun(id, resume)
                     [] t = "codex"    -> CodexRun(id)
                     [] t = "cursor"   -> CursorRun(id)
                     [] t = "deepseek" -> DeepseekRun(id)
<1>3. agents' = Append(agents, [tool |-> t, phase |-> p, id |-> id,
                  flag |-> flag, session |-> 0, state |-> "starting"])
  BY DEF Started
<1>4. /\ flag = "bind" <=> t = "claude" /\ id # 0 /\ ~resume
      /\ flag # "bind" /\ id # 0 => flag = "resume"
  BY <1>2 DEF ClaudeRun, CodexRun, CursorRun, DeepseekRun
<1> HIDE DEF flag
<1> QED
  BY <1>1, <1>3, <1>4

LEMMA StaysStep ==
    TypeOK /\ LocalsOK /\ NamedByTool /\ SessionStaysWithItsTool /\ Next
    => SessionStaysWithItsTool'
<1> SUFFICES ASSUME TypeOK, LocalsOK, NamedByTool, SessionStaysWithItsTool, Next,
                    NEW n \in Alive', agents'[n].phase # "plan", agents'[n].id # 0
             PROVE  sessions'[agents'[n].id].tool = agents'[n].tool
  BY DEF SessionStaysWithItsTool
<1>1. \A s \in Ids : s # 0 => sessions'[s].tool = sessions[s].tool
  BY SessionsKept, IdsGrow DEF Ids, TypeOK
<1>2. CASE n \in Alive /\ SameAgent(n)
  <2>1. agents[n].id \in Ids
    BY <1>2, Processes DEF Process
  <2> QED
    BY <1>1, <1>2, <2>1 DEF SameAgent, SessionStaysWithItsTool
<1>3. CASE n = Len(agents) + 1 /\ Spawn
  <2>1. turn \in Turn /\ pc # "idle"
    BY <1>3 DEF Spawn, TypeOK
  <2>2. turn.tool \in Tools /\ turn.id \in Ids /\ turn.resume \in BOOLEAN
    BY <2>1 DEF Turn
  <2>3. /\ agents'[n].tool = turn.tool /\ agents'[n].phase = turn.phase
        /\ agents'[n].id = turn.id
    BY <1>3, <2>2, NewAgent DEF Spawn
  <2> QED
    BY <1>1, <2>1, <2>2, <2>3 DEF NamedByTool
<1>4. CASE n = Len(agents) + 1 /\ Fix
  <2>1. /\ row \in [Phases -> [tool: Tools \cup {"none"}, id: Ids]] /\ "work" \in Phases
        /\ pc # "idle" /\ turn.phase = "verify"
    BY <1>4 DEF Fix, TypeOK, Phases
  <2>2. row["work"].tool \in Tools /\ row["work"].id \in Ids
    BY <2>1 DEF LocalsOK
  <2>3. /\ agents'[n].tool = row["work"].tool /\ agents'[n].id = row["work"].id
    BY <1>4, <2>2, NewAgent DEF Fix
  <2> QED
    BY <1>1, <2>2, <2>3 DEF NamedByTool
<1> QED
  BY <1>2, <1>3, <1>4, AgentsKept DEF Starting

\* Without a start nobody comes to life.
LEMMA Fewer ==
    ASSUME TypeOK, LocalsOK, Next, ~Spawn, ~Fix
    PROVE  Alive' \subseteq Alive /\ Current' = Current
BY AgentsKept DEF Starting, Current

\* Where the orchestrator is after a step that is not its own.
LEMMA Elsewhere ==
    ASSUME Next, ~Orchestrator, ~Commands
    PROVE  UNCHANGED <<pc, turn, row>> \/ pc' = "idle"
BY DEF Next, Cancel, Kill, ContextKills, End, Agent, Opens, Joins, WritesMeta, Exits

LEMMA AloneStep ==
    TypeOK /\ LocalsOK /\ AtMostCurrent /\ WritersGone /\ Next
    => AtMostCurrent' /\ WritersGone'
<1> SUFFICES ASSUME TypeOK, LocalsOK, AtMostCurrent, WritersGone, Next
             PROVE  AtMostCurrent' /\ WritersGone'
  OBVIOUS
<1>1. ASSUME NEW p \in Phases, NEW t \in Tools, NEW i \in BOOLEAN,
             NEW left \in 0..MaxIterations, Starts(p, t, i, left)
      PROVE  AtMostCurrent' /\ WritersGone'
  <2>1. pc' = "spawn" /\ UNCHANGED agents /\ turn'.alone = (Alive = {})
    BY <1>1, Begun
  <2> QED
    BY <2>1 DEF AtMostCurrent, WritersGone, Alive
<1>2. CASE Spawn
  <2>1. pc' \in {"watch", "wait"} /\ pc = "spawn" /\ UNCHANGED turn
    BY <1>2 DEF Spawn
  <2>2. turn.tool \in Tools /\ turn.resume \in BOOLEAN
    BY <2>1 DEF TypeOK, Turn
  <2>3. Len(agents') = Len(agents) + 1
    BY <1>2, <2>2, NewAgent DEF Spawn
  <2>4. Alive' \subseteq Alive \cup {Len(agents) + 1}
    BY AgentsKept DEF Starting
  <2> QED
    BY <2>1, <2>3, <2>4 DEF AtMostCurrent, WritersGone, Current
<1>3. CASE Fix
  <2>1. pc' = "fixwait" /\ pc = "finish" /\ turn' = [turn EXCEPT !.left = turn.left - 1]
    BY <1>3 DEF Fix
  <2>2. turn \in Turn /\ turn'.alone = turn.alone
    BY <2>1 DEF TypeOK, Turn
  <2>3. turn.phase = "verify"
    BY <1>3 DEF Fix
  <2>4. row["work"].tool \in Tools
    BY <2>1, <2>3 DEF TypeOK, LocalsOK, Phases
  <2>5. Len(agents') = Len(agents) + 1
    BY <1>3, <2>4, NewAgent DEF Fix
  <2>6. Alive' \subseteq Alive \cup {Len(agents) + 1}
    BY AgentsKept DEF Starting
  <2> QED
    BY <2>1, <2>2, <2>5, <2>6 DEF AtMostCurrent, WritersGone, Current
<1>4. CASE WaitForExit
  <2>1. /\ pc \in {"wait", "fixwait"} /\ Current \notin Alive
        /\ UNCHANGED agents /\ turn'.alone = turn.alone
    <3>1. /\ pc \in {"wait", "fixwait"} /\ Current \notin Alive /\ UNCHANGED agents
          /\ turn' = [turn EXCEPT !.resume = turn.resume \/ pc = "fixwait"]
      BY <1>4 DEF WaitForExit, Waiting, Exited, AfterWait
    <3>2. turn \in Turn
      BY <3>1 DEF TypeOK
    <3> QED
      BY <3>1, <3>2 DEF Turn
  <2>2. turn.alone => Alive = {}
    BY <2>1 DEF AtMostCurrent
  <2> QED
    BY <2>1, <2>2 DEF AtMostCurrent, WritersGone, Alive
<1>5. CASE Scan \/ Tick \/ Probe \/ WatchCancelled \/ SpawnFails \/ WaitCancelled \/ Finish
  <2>1. UNCHANGED agents
    BY <1>5 DEF Scan, Tick, Probe, WatchCancelled, SpawnFails, WaitCancelled, Finish, Finishes, End,
       Record, Goto
  <2>2. CASE pc' = "idle"
    BY <2>2 DEF AtMostCurrent, WritersGone
  <2>3. CASE pc' # "idle"
    <3>1. pc' \in {"watch", "probe", "wait"} /\ pc \in {"watch", "probe"}
      BY <1>5, <2>3 DEF Scan, Tick, Probe, WatchCancelled, SpawnFails, WaitCancelled, Finish,
         Finishes, End, Record, Goto
    <3>2. turn'.alone = turn.alone
      <4>1. CASE UNCHANGED turn
        BY <4>1
      <4>2. CASE ~UNCHANGED turn
        <5>1. pc = "watch" /\ Record
          BY <1>5, <2>3, <4>2 DEF Scan, Tick, Probe, WatchCancelled, SpawnFails,
             WaitCancelled, Finish, Finishes, End, Goto
        <5> QED
          BY <5>1, WatcherRecords DEF Turn
      <4> QED
        BY <4>1, <4>2
    <3> QED
      BY <2>1, <3>1, <3>2 DEF AtMostCurrent, WritersGone, Alive, Current
  <2> QED
    BY <2>2, <2>3
<1>6. CASE ~Orchestrator /\ ~Commands
  <2>1. Alive' \subseteq Alive /\ Current' = Current
    BY <1>6, Fewer DEF Orchestrator
  <2> QED
    BY <1>6, <2>1, Elsewhere DEF AtMostCurrent, WritersGone
<1> QED
  BY <1>1, <1>2, <1>3, <1>4, <1>5, <1>6, Beginnings DEF Orchestrator

LEMMA OwnStep ==
    TypeOK /\ LocalsOK /\ AtMostCurrent /\ OnlyOwnSessions /\ Next => OnlyOwnSessions'
<1> SUFFICES ASSUME TypeOK, LocalsOK, AtMostCurrent, OnlyOwnSessions, Next
             PROVE  OnlyOwnSessions'
  OBVIOUS
<1>1. sessions \in Seq(Session) /\ Len(sessions) \in Nat
  BY DEF TypeOK
<1>2. ASSUME NEW p \in Phases, NEW t \in Tools, NEW i \in BOOLEAN,
             NEW left \in 0..MaxIterations, Starts(p, t, i, left)
      PROVE  OnlyOwnSessions'
  BY <1>2, Begun DEF OnlyOwnSessions
<1>3. CASE Spawn
  <2>1. pc = "spawn" /\ UNCHANGED <<turn, sessions>> /\ pc' \in {"watch", "wait"}
        /\ (pc' = "watch" => ~turn.resume)
    BY <1>3 DEF Spawn, Captures
  <2>2. turn.alone /\ pc' = "watch" => Len(sessions) = turn.since
    BY <2>1 DEF OnlyOwnSessions
  <2> QED
    BY <1>1, <2>1, <2>2 DEF OnlyOwnSessions
<1>4. CASE WaitForExit
  <2>1. /\ pc \in {"wait", "fixwait"} /\ pc' = IF pc = "fixwait" THEN "spawn" ELSE "finish"
        /\ turn' = [turn EXCEPT !.resume = turn.resume \/ pc = "fixwait"]
    BY <1>4 DEF WaitForExit, Waiting, AfterWait
  <2>2. turn \in Turn
    BY <2>1 DEF TypeOK
  <2>3. pc' = "spawn" => turn'.resume
    BY <2>1, <2>2 DEF Turn
  <2> QED
    BY <2>1, <2>3 DEF OnlyOwnSessions
<1>5. CASE Fix
  BY <1>5 DEF Fix, OnlyOwnSessions
<1>6. CASE Scan \/ Tick \/ Probe \/ WatchCancelled \/ SpawnFails \/ WaitCancelled \/ Finish
  <2>1. UNCHANGED <<sessions, agents>> /\ pc' # "spawn"
        /\ (pc' \in {"watch", "probe"} => pc \in {"watch", "probe"} /\ UNCHANGED turn)
    BY <1>6 DEF Scan, Tick, Probe, WatchCancelled, SpawnFails, WaitCancelled, Finish, Finishes, End,
       Record, Goto
  <2> QED
    BY <2>1 DEF OnlyOwnSessions, Current
<1>7. CASE Cancel \/ Kill \/ ContextKills
  <2>1. /\ UNCHANGED sessions
        /\ UNCHANGED <<pc, turn>> \/ pc' = "idle"
    BY <1>7 DEF Cancel, Kill, ContextKills, End
  <2>2. Current' = Current
    BY <1>7, AgentsKept DEF Cancel, Kill, ContextKills, End, Spawn, Fix, Current, Stop
  <2> QED
    BY <2>1, <2>2 DEF OnlyOwnSessions
<1>8. ASSUME NEW n \in DOMAIN agents, Agent(n) PROVE OnlyOwnSessions'
  <2>1. n \in Alive
    BY <1>8, Processes DEF Agent, Opens, Joins, WritesMeta, Exits, LocalsOK
  <2>2. UNCHANGED <<pc, turn>> /\ pc' = pc
    BY <1>8 DEF Agent, Opens, Joins, WritesMeta, Exits
  <2>3. CASE pc \in {"watch", "probe"} /\ turn.alone
    <3>1. n = Current /\ Len(agents') = Len(agents)
      BY <2>1, <2>2, <2>3, AgentsKept DEF AtMostCurrent, Spawn, Fix
    <3>2. ASSUME NEW s \in DOMAIN sessions', s > turn.since PROVE sessions'[s].turn = Current
      <4>1. CASE s \in DOMAIN sessions
        BY <2>3, <3>2, <4>1, SessionsKept DEF OnlyOwnSessions
      <4>2. CASE s \notin DOMAIN sessions
        <5>1. CASE Opens(n)
          <6>1. PICK st : sessions' = Append(sessions, [tool |-> agents[n].tool, turn |-> n,
                                                        state |-> st])
            BY <5>1 DEF Opens
          <6> QED
            BY <1>1, <3>1, <3>2, <4>2, <6>1
        <5>2. CASE Joins(n) \/ WritesMeta(n) \/ Exits(n)
          <6>1. DOMAIN sessions' = DOMAIN sessions
            BY <1>1, <5>2 DEF Joins, WritesMeta, Exits
          <6> QED
            BY <3>2, <4>2, <6>1
        <5> QED
          BY <1>8, <5>1, <5>2 DEF Agent
      <4> QED
        BY <4>1, <4>2
    <3> QED
      BY <2>2, <2>3, <3>1, <3>2 DEF OnlyOwnSessions, Current
  <2>4. CASE ~(pc \in {"watch", "probe"} /\ turn.alone)
    <3>1. CASE pc = "spawn" /\ turn.alone
      BY <2>1, <3>1 DEF AtMostCurrent
    <3> QED
      BY <2>2, <2>4, <3>1 DEF OnlyOwnSessions
  <2> QED
    BY <2>3, <2>4
<1> QED
  BY <1>2, <1>3, <1>4, <1>5, <1>6, <1>7, <1>8, Beginnings DEF Next, Orchestrator

\* A minted uuid that nobody uses stays minted: an agent that names it is
\* refused unless it is the one that was told to begin it.
LEMMA ReservedKept ==
    ASSUME TypeOK, LocalsOK, Next, NEW s \in DOMAIN sessions,
           sessions[s].tool = "claude", sessions[s].state = "reserved",
           \A n \in DOMAIN agents : n \in Alive /\ agents[n].id = s /\ Joins(n)
                                    => agents[n].flag = "resume"
    PROVE  sessions'[s].tool = "claude" /\ sessions'[s].state = "reserved"
<1> USE Bounds
<1>1. sessions \in Seq(Session) /\ sessions'[s].tool = "claude"
  BY SessionsKept DEF TypeOK
<1>2. CASE UNCHANGED sessions
  BY <1>1, <1>2
<1>3. CASE \E a : sessions' = Append(sessions, a)
  BY <1>1, <1>3
<1>4. ASSUME NEW r \in DOMAIN sessions, r # s,
             sessions' = [sessions EXCEPT ![r].state = "live"]
      PROVE  sessions'[s].state = "reserved"
  BY <1>1, <1>4
<1>5. CASE Commands
  <2>1. PICK p \in Phases, t \in Tools, i \in BOOLEAN, left \in 0..MaxIterations :
          Starts(p, t, i, left)
    BY <1>5, Beginnings
  <2>2. UNCHANGED sessions \/ \E a : sessions' = Append(sessions, a)
    BY <2>1 DEF Starts, Resumes, Mints, Resumed, Begin, Fresh
  <2> QED
    BY <1>2, <1>3, <2>2
<1>6. CASE Orchestrator \/ Cancel \/ ContextKills \/ Kill
  <2>1. UNCHANGED sessions
    BY <1>6 DEF Orchestrator, Spawn, SpawnFails, Scan, Tick, Probe, WatchCancelled, WaitForExit,
       WaitCancelled, Finish, Finishes, Fix, Cancel, ContextKills, Kill, End, Record, Goto, AfterWait
  <2> QED
    BY <1>2, <2>1
<1>7. ASSUME NEW n \in DOMAIN agents, Agent(n) PROVE sessions'[s].state = "reserved"
  <2>1. n \in Alive /\ agents[n] \in Process
    BY <1>7, Processes DEF Agent, Opens, Joins, WritesMeta, Exits
  <2>2. CASE Opens(n)
    BY <1>3, <2>2 DEF Opens
  <2>3. CASE Joins(n)
    <3>1. CASE UNCHANGED sessions
      BY <1>2, <3>1
    <3>2. CASE ~UNCHANGED sessions
      <4>1. Accepts(agents[n]) /\ sessions' = [sessions EXCEPT ![agents[n].id].state = "live"]
            /\ agents[n].id # 0
        BY <2>3, <3>2 DEF Joins
      <4>2. agents[n].id # s
        BY <2>1, <2>3, <4>1 DEF Accepts
      <4>3. agents[n].id \in DOMAIN sessions
        BY <1>1, <2>1, <4>1 DEF Process, Ids
      <4> QED
        BY <1>4, <4>1, <4>2, <4>3
    <3> QED
      BY <3>1, <3>2
  <2>4. CASE WritesMeta(n)
    <3>1. agents[n].session \in DOMAIN sessions /\ agents[n].session # s
      BY <1>1, <2>1, <2>4 DEF WritesMeta, Process, Ids, LocalsOK
    <3> QED
      BY <1>4, <2>4, <3>1 DEF WritesMeta
  <2>5. CASE Exits(n)
    BY <1>2, <2>5 DEF Exits
  <2> QED
    BY <1>7, <2>2, <2>3, <2>4, <2>5 DEF Agent
<1> QED
  BY <1>1, <1>5, <1>6, <1>7 DEF Next

LEMMA BindsStep ==
    TypeOK /\ LocalsOK /\ BindsOnce /\ Next => BindsOnce'
<1> SUFFICES ASSUME TypeOK, LocalsOK, BindsOnce, Next PROVE BindsOnce'
  OBVIOUS
<1>1. /\ sessions \in Seq(Session) /\ agents \in Seq(Process \cup {Gone})
      /\ pc # "idle" => turn \in Turn
  BY DEF TypeOK
<1>2. ASSUME NEW s \in DOMAIN sessions PROVE sessions'[s].tool = sessions[s].tool
  BY SessionsKept
\* What the agent that is being started is told.
<1>3. ASSUME Spawn \/ Fix
      PROVE  /\ agents'[Len(agents) + 1].flag = "bind" =>
                  /\ Spawn /\ agents'[Len(agents) + 1].tool = "claude"
                  /\ agents'[Len(agents) + 1].id = turn.id /\ turn.id # 0 /\ Unbound
             /\ agents'[Len(agents) + 1].id # 0 /\ agents'[Len(agents) + 1].flag # "bind"
                  => agents'[Len(agents) + 1].flag = "resume"
             /\ agents'[Len(agents) + 1].state = "starting"
  <2>1. CASE Spawn
    <3>1. turn.tool \in Tools /\ turn.resume \in BOOLEAN /\ pc = "spawn"
      BY <1>1, <2>1 DEF Spawn, Turn
    <3> QED
      BY <2>1, <3>1, NewAgent DEF Spawn, BindsOnce
  <2>2. CASE Fix
    <3>1. row["work"].tool \in Tools
      BY <2>2 DEF Fix, TypeOK, LocalsOK, Phases
    <3> QED
      BY <2>2, <3>1, NewAgent DEF Fix
  <2> QED
    BY <1>3, <2>1, <2>2
<1>4. ASSUME NEW n \in Alive', agents'[n].flag = "bind" PROVE Bound(n)'
  <2>1. CASE Starting(n)
    <3>1. /\ n = Len(agents) + 1 /\ Spawn /\ agents'[n].tool = "claude"
          /\ agents'[n].id = turn.id /\ turn.id # 0 /\ Unbound /\ UNCHANGED sessions
      BY <1>3, <1>4, <2>1 DEF Starting, Spawn
    <3>2. ASSUME NEW m \in Alive' \ {n} PROVE agents'[m].id # agents'[n].id
      <4>1. m \in Alive /\ SameAgent(m)
        BY <3>1, <3>2, AgentsKept DEF Starting
      <4> QED
        BY <3>1, <4>1 DEF SameAgent, Unbound
    <3> QED
      BY <3>1, <3>2 DEF Bound, Unbound
  <2>2. CASE n \in Alive /\ SameAgent(n)
    <3> DEFINE s == agents[n].id
    <3>1. Bound(n) /\ agents[n] \in Process
      BY <1>4, <2>2, Processes DEF BindsOnce, SameAgent
    <3>2. s \in DOMAIN sessions /\ s # 0 /\ sessions[s].tool = "claude"
      BY <1>1, <3>1 DEF Bound, Process, Ids
    <3>3. sessions'[s].tool = "claude" /\ agents'[n].tool = "claude" /\ agents'[n].id = s
      BY <1>2, <2>2, <3>1, <3>2 DEF SameAgent, Bound
    <3>4. CASE agents[n].state = "working"
      BY <2>2, <3>2, <3>3, <3>4 DEF Bound, SameAgent
    <3>5. CASE agents[n].state # "working" /\ Joins(n)
      <4>1. n \in DOMAIN agents
        BY <2>2, Processes
      <4>2. ~Leave(n)
        BY <1>1, <1>4, <4>1 DEF Leave, Alive
      <4>3. agents' = [agents EXCEPT ![n].state = "working", ![n].session = agents[n].id]
        BY <3>5, <4>2 DEF Joins
      <4>4. agents'[n] = [agents[n] EXCEPT !.state = "working", !.session = agents[n].id]
        BY <1>1, <4>1, <4>3
      <4>5. agents'[n].state = "working"
        BY <3>1, <4>4 DEF Process
      <4> QED
        BY <3>2, <3>3, <4>5 DEF Bound
    <3>6. CASE agents[n].state # "working" /\ ~Joins(n)
      <4>1. /\ sessions[s].state = "reserved"
            /\ \A m \in Alive \ {n} : agents[m].id = s => agents[m].flag = "resume"
        BY <3>1, <3>6 DEF Bound
      <4>2. sessions'[s].state = "reserved"
        BY <3>2, <3>6, <4>1, ReservedKept
      <4>3. ASSUME NEW m \in Alive' \ {n}, agents'[m].id = s PROVE agents'[m].flag = "resume"
        <5>1. CASE m \in Alive /\ SameAgent(m)
          BY <4>1, <4>3, <5>1 DEF SameAgent
        <5>2. CASE Starting(m)
          <6>1. agents'[m].flag # "bind"
            BY <1>3, <2>2, <4>3, <5>2 DEF Starting, Unbound
          <6> QED
            BY <1>3, <3>2, <4>3, <5>2, <6>1 DEF Starting
        <5> QED
          BY <5>1, <5>2, AgentsKept
      <4> QED
        BY <3>2, <3>3, <4>2, <4>3 DEF Bound
    <3> QED
      BY <3>4, <3>5, <3>6
  <2> QED
    BY <2>1, <2>2, AgentsKept
<1>5. ASSUME pc' = "spawn", turn'.tool = "claude", turn'.id # 0, ~turn'.resume
      PROVE  Unbound'
  <2>1. ASSUME NEW p \in Phases, NEW t \in Tools, NEW i \in BOOLEAN,
               NEW left \in 0..MaxIterations, Starts(p, t, i, left)
        PROVE  Unbound'
    <3>1. Mints(p, t, i, left)
      BY <1>5, <2>1 DEF Starts, Resumes, Resumed, Begin
    <3>2. PICK st \in {"reserved", "live"} :
            /\ t = "claude" => st = "reserved"
            /\ Begin(p, t, Len(sessions) + 1, FALSE, i, left, Fresh(t, st))
      BY <3>1 DEF Mints
    <3>3. /\ turn'.id = Len(sessions) + 1 /\ turn'.tool = t /\ UNCHANGED agents
          /\ sessions' = Append(sessions, [tool |-> t, turn |-> Current + 1, state |-> st])
      BY <3>2 DEF Begin, Fresh
    <3>4. sessions'[turn'.id].tool = "claude" /\ sessions'[turn'.id].state = "reserved"
      BY <1>1, <1>5, <3>2, <3>3
    <3>5. \A m \in Alive' : agents'[m].id # turn'.id
      <4>1. ASSUME NEW m \in Alive PROVE agents[m].id # Len(sessions) + 1
        <5>1. agents[m].id \in 0..Len(sessions) /\ Len(sessions) \in Nat
          BY <1>1, <4>1, Processes DEF Process, Ids
        <5> QED
          BY <5>1
      <4> QED
        BY <3>3, <4>1 DEF Alive
    <3> QED
      BY <3>4, <3>5 DEF Unbound
  <2>2. CASE Orchestrator
    <3>1. WaitForExit /\ pc = "fixwait"
      BY <1>5, <2>2 DEF Orchestrator, Spawn, SpawnFails, Scan, Tick, Probe, WatchCancelled,
         WaitForExit, WaitCancelled, Finish, Finishes, Fix, End, Record, Goto, AfterWait, Waiting
    <3>2. turn' = [turn EXCEPT !.resume = turn.resume \/ pc = "fixwait"]
      BY <3>1 DEF WaitForExit, AfterWait
    <3>3. turn \in Turn
      BY <1>1, <3>1
    <3> QED
      BY <1>5, <3>1, <3>2, <3>3 DEF Turn
  <2>3. CASE ~Orchestrator /\ ~Commands
    <3>1. UNCHANGED <<pc, turn>>
      BY <1>5, <2>3, Elsewhere
    <3>2. Unbound /\ turn \in Turn
      BY <1>1, <1>5, <3>1 DEF BindsOnce
    <3>3. turn.id \in DOMAIN sessions
      BY <1>1, <1>5, <3>1, <3>2 DEF Turn, Ids
    <3>4. sessions'[turn.id].tool = "claude" /\ sessions'[turn.id].state = "reserved"
      BY <3>2, <3>3, ReservedKept DEF Unbound
    <3>5. ASSUME NEW m \in Alive' PROVE agents'[m].id # turn.id
      <4>1. m \in Alive /\ SameAgent(m)
        BY <2>3, <3>5, AgentsKept DEF Starting, Orchestrator
      <4> QED
        BY <3>2, <4>1 DEF SameAgent, Unbound
    <3> QED
      BY <3>1, <3>4, <3>5 DEF Unbound
  <2> QED
    BY <2>1, <2>2, <2>3, Beginnings
<1> QED
  BY <1>4, <1>5 DEF BindsOnce

-----------------------------------------------------------------------------
(* The invariant and what follows from it                                  *)

LEMMA InitIInv == Init => IInv
<1> SUFFICES ASSUME Init PROVE IInv
  OBVIOUS
<1> USE Bounds
<1>1. pc = "idle" /\ turn = NoTurn /\ agents = <<>> /\ cancelled = FALSE /\ mishaps = 0
  BY DEF Init
<1>2. Alive = {}
  BY <1>1 DEF Alive
<1>3. /\ sessions \in Seq(Session)
      /\ row \in [Phases -> [tool: Tools \cup {"none"}, id: Ids]]
      /\ \A p \in {"work", "verify"} :
            row[p].id # 0 => sessions[row[p].id].tool = row[p].tool
  <2>1. CASE /\ row = [p \in Phases |-> [tool |-> "none", id |-> 0]] /\ sessions = <<>>
    BY <2>1 DEF Ids, Phases
  <2>2. ASSUME NEW t \in Tools, NEW known \in {0, 1},
               row = [p \in Phases |-> IF p = "verify" THEN [tool |-> "none", id |-> 0]
                        ELSE [tool |-> t, id |-> IF p = "work" THEN known ELSE 0]],
               sessions = <<[tool |-> t, turn |-> 0, state |-> "live"]>>
        PROVE  /\ sessions \in Seq(Session)
               /\ row \in [Phases -> [tool: Tools \cup {"none"}, id: Ids]]
               /\ \A p \in {"work", "verify"} :
                     row[p].id # 0 => sessions[row[p].id].tool = row[p].tool
    <3>1. [tool |-> t, turn |-> 0, state |-> "live"] \in Session
      BY DEF Session
    <3>2. sessions \in Seq(Session) /\ Len(sessions) = 1 /\ sessions[1].tool = t
      BY <2>2, <3>1
    <3> QED
      BY <2>2, <3>2 DEF Ids, Phases
  <2> QED
    BY <2>1, <2>2 DEF Init
<1>4. TypeOK
  <2>1. agents \in Seq(Process \cup {Gone}) /\ Len(agents) = 0
    BY <1>1
  <2>2. turn = NoTurn <=> pc = "idle"
    BY <1>1
  <2>3. cancelled \in BOOLEAN
    BY <1>1
  <2>4. mishaps \in 0..MaxMishaps /\ 0 <= MaxAgents
    BY <1>1
  <2> QED
    BY <1>1, <1>3, <2>1, <2>2, <2>3, <2>4 DEF TypeOK
<1> QED
  BY <1>1, <1>2, <1>3, <1>4 DEF IInv, LocalsOK, NamedByTool, SessionStaysWithItsTool,
     WritersGone, AtMostCurrent, OnlyOwnSessions, BindsOnce

LEMMA StepIInv == IInv /\ [Next]_vars => IInv'
<1> SUFFICES ASSUME IInv, [Next]_vars PROVE IInv'
  OBVIOUS
<1>1. CASE Next
  BY <1>1, TypeStep, LocalsStep, NamedStep, StaysStep, AloneStep, OwnStep, BindsStep DEF IInv
<1>2. CASE UNCHANGED vars
  BY <1>2 DEF vars, IInv, TypeOK, Turn, Session, Process, Ids, LocalsOK, NamedByTool, Alive,
     SessionStaysWithItsTool, WritersGone, AtMostCurrent, Current, OnlyOwnSessions, BindsOnce,
     Bound, Unbound
<1> QED
  BY <1>1, <1>2

LEMMA Inductive == Spec => []IInv
BY InitIInv, StepIInv, PTL DEF Spec

\* Every reachable state is well typed; an id in the row or in an agent's
\* hands is always one that was minted or created.
THEOREM TypeCorrect == Spec => []TypeOK
<1>1. IInv => TypeOK
  BY DEF IInv
<1> QED
  BY <1>1, Inductive, PTL

\* No worker, fix turn or verifier is handed the session of another backend,
\* in whatever order phases run and however often the settings change.
THEOREM SessionStays == Spec => []SessionStaysWithItsTool
<1>1. IInv => SessionStaysWithItsTool
  BY DEF IInv
<1> QED
  BY <1>1, Inductive, PTL

\* The loop reads an agent's artefacts when that agent is gone, for any
\* number of iterations.
THEOREM ReadsAfterWriters == Spec => []WritersGone
<1>1. IInv => WritersGone
  BY DEF IInv
<1> QED
  BY <1>1, Inductive, PTL

\* A uuid that claude is told to begin is begun once.
THEOREM BindsAreUnique == Spec => []BoundOnce
<1>1. IInv => BoundOnce
  BY DEF IInv, BindsOnce, Bound, BoundOnce
<1> QED
  BY <1>1, Inductive, PTL

\* What the watcher writes into the row is the session of the agent it
\* watches, for any store of sessions and any number of earlier phases.
THEOREM CapturesOwn == Spec => CapturesOwnSession
<1> DEFINE Own == \A p \in Phases :
                    row'[p].id # row[p].id /\ pc = "watch" /\ turn.alone
                    => p = turn.phase /\ sessions[row'[p].id].turn = Current
<1>1. IInv /\ [Next]_vars => [Own]_vars
  <2> SUFFICES ASSUME IInv, Next, NEW p \in Phases, row'[p].id # row[p].id,
                      pc = "watch", turn.alone
               PROVE  p = turn.phase /\ sessions[row'[p].id].turn = Current
    BY DEF vars
  <2>1. TypeOK /\ LocalsOK /\ OnlyOwnSessions
    BY DEF IInv
  <2>2. pc = "watch" /\ Record
    <3>1. ~Commands
      BY DEF Commands, BeginPlan, BeginWork, BeginVerify, Idle
    <3> QED
      BY <2>1, <3>1, PhaseKept DEF Ending
  <2>3. /\ turn \in Turn /\ turn'.id \in DOMAIN sessions /\ turn'.id > turn.since
        /\ Saved(turn.phase, turn.tool, turn'.id)
    BY <2>1, <2>2, WatcherRecords
  <2>4. sessions[turn'.id].turn = Current
    BY <2>1, <2>3 DEF OnlyOwnSessions
  <2>5. /\ row \in [Phases -> [tool: Tools \cup {"none"}, id: Ids]]
        /\ turn.phase \in Phases
    BY <2>1, <2>3 DEF TypeOK, Turn
  <2>6. row'[p].id = IF p = turn.phase THEN turn'.id ELSE row[p].id
    BY <2>3, <2>5 DEF Saved, Recorded
  <2> QED
    BY <2>4, <2>6
<1> QED
  BY <1>1, Inductive, PTL DEF Spec, CapturesOwnSession
=============================================================================
