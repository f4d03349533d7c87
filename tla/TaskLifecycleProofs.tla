--------------------------- MODULE TaskLifecycleProofs ---------------------------
(***************************************************************************)
(* Theorems about TaskLifecycle, for every number of orchestrators and     *)
(* reapers, every bound on the fix loop and every set of commands:         *)
(*   TypeCorrect      the state stays in its types                         *)
(*   DoneCorrect      DoneAt is set on completed rows only                 *)
(*   AgentsBoundedCorrect  on a task nobody discards, one agent and one    *)
(*                    more for every orchestrator that was killed          *)
(* Each rests on inductive invariants (TypeInv, DoneInv, OwnInv with       *)
(* OrphanInv), proved process by process: Orchestrate, Capture, kills, the *)
(* user's commands, the reapers, the orphaned agents.                      *)
(***************************************************************************)
EXTENDS TaskLifecycle, SequenceTheorems, FiniteSetTheorems, TLAPS

(* Rows *)

\* What Apply, a stamped copy and the end of a phase return.
LEMMA TransitionsTyped == \A t \in transitions : t.To \in Statuses
BY DEF transitions, Edges, Statuses, Restartable

\* Legal and Apply by the edges of the table.
LEMMA LegalEdge ==
  ASSUME NEW s, NEW e
  PROVE  Legal(s, e) <=> \E t \in transitions : t.From = s /\ t.Event = e
<1> DEFINE D == {<<t.From, t.Event>> : t \in transitions}
<1>1. DOMAIN Target = D
  BY DEF Target
<1>2. <<s, e>> \in D <=> \E t \in transitions : t.From = s /\ t.Event = e
  OBVIOUS
<1> QED
  BY <1>1, <1>2 DEF Legal

LEMMA ApplyEdge ==
  ASSUME NEW s, NEW e, Legal(s, e)
  PROVE  \E t \in transitions : t.From = s /\ t.Event = e /\ Apply(s, e) = t.To
<1> DEFINE k == <<s, e>>
           Edge(t) == t \in transitions /\ t.From = k[1] /\ t.Event = k[2]
<1>1. k \in {<<t.From, t.Event>> : t \in transitions}
  BY DEF Legal, Target
<1>2. Target[k] = (CHOOSE t \in transitions : t.From = k[1] /\ t.Event = k[2]).To
  BY <1>1 DEF Target
<1>3. PICK t : Edge(t)
  BY <1>1
<1>4. Edge(CHOOSE u : Edge(u))
  BY <1>3
<1> QED
  BY <1>2, <1>4 DEF Apply

LEMMA ApplyTyped ==
  ASSUME NEW s, NEW e, Legal(s, e) PROVE Apply(s, e) \in Statuses
BY ApplyEdge, TransitionsTyped

LEMMA StampedTyped ==
  ASSUME NEW t \in Rows, NEW e, Legal(t.status, e) PROVE Stamped(t, e) \in Rows
BY ApplyTyped DEF Rows, Stamped

LEMMA EndedTyped ==
  ASSUME NEW t \in Rows, NEW p \in Phases PROVE Cleared(t, p) \in Rows /\ Ended(t, p) \in Rows
<1> DEFINE rest == {e \in t.ended : e[1] # p /\ e[2] # p}
           all == rest \cup {<<p, p>>} \cup {<<e[1], p>> : e \in rest}
<1>1. t.ended \subseteq Phases \X Phases /\ rest \subseteq Phases \X Phases
  BY DEF Rows
<1>2. all \subseteq Phases \X Phases
  BY <1>1
<1>3. Cleared(t, p) = [t EXCEPT !.ended = rest]
  BY DEF Cleared
<1>4. Cleared(t, p) \in Rows /\ Cleared(t, p).ended = rest
  BY <1>1, <1>3 DEF Rows
<1>5. Ended(t, p) = [Cleared(t, p) EXCEPT !.ended = all]
  BY <1>4 DEF Ended
<1> QED
  BY <1>2, <1>4, <1>5 DEF Rows

LEMMA AppliedTyped ==
  ASSUME NEW t \in Rows, NEW e PROVE Applied(t, e) \in Rows
BY StampedTyped DEF Applied

\* The phases left of a chain are a chain.
LEMMA TailTodo ==
  ASSUME NEW s \in Todos, s # <<>> PROVE Tail(s) \in Todos
<1>1. s \in {<<"guard", "verify">>, Full, FromWork, <<"plan">>, <<"work">>, <<"verify">>}
  BY DEF Todos, Chains
<1>2. CASE s = Full
  <2>1. Tail(s) = FromWork
    BY <1>2 DEF Full, FromWork
  <2> QED
    BY <2>1 DEF Todos, Chains
<1>3. CASE s = FromWork
  <2>1. Tail(s) = <<"guard", "verify">>
    BY <1>3 DEF FromWork
  <2> QED
    BY <2>1 DEF Todos, Chains
<1>4. CASE s = <<"guard", "verify">>
  <2>1. Tail(s) = <<"verify">>
    BY <1>4
  <2> QED
    BY <2>1 DEF Todos, Chains
<1>5. ASSUME NEW p \in Phases, s = <<p>> PROVE Tail(s) \in Todos
  <2>1. s \in Seq(Phases) /\ Len(s) = 1
    BY <1>5
  <2>2. Tail(s) \in Seq(Phases) /\ Len(Tail(s)) = 0
    BY <2>1, HeadTailProperties
  <2>3. Tail(s) = <<>>
    BY <2>2, EmptySeq
  <2> QED
    BY <2>3 DEF Todos, Chains
<1> QED
  BY <1>1, <1>2, <1>3, <1>4, <1>5 DEF Phases

LEMMA NoRowTyped == NoRow \in Rows
BY DEF NoRow, Rows

LEMMA NewBegins == Legal(New, "PlanBegin")
<1> DEFINE t == [From |-> New, Event |-> "PlanBegin", To |-> "planning"]
<1>1. t \in Edges({New}, "planning", {"PlanBegin"})
  BY DEF Edges
<1>2. t \in transitions
  BY <1>1 DEF transitions
<1> QED
  BY <1>2, LegalEdge

--------------------------------------------------------------------------------
(* Types *)

\* The records of orch.
Copies == [pc : OrchPCs, todo : Todos, task : Rows, turn : 0..MaxIterations,
           outcome : {"none", "error", "pass", "fail"}]

\* An orchestrator that begins a phase, runs an agent, judges it or ends its phase has a phase at
\* the head of its chain, and one that fixes has a verify turn left.  Capture,
\* Finish and FixExits keep their types only because of this.
AtWork ==
  \A o \in Orch :
    /\ orch[o].pc \in {"begin", "agent", "judge", "fix", "finish"} => Phase(o) \in Phases
    /\ orch[o].pc = "fix" => orch[o].turn # MaxIterations

CliType == [step : Steps, next : Steps, task : Rows, todo : Todos]

TypeInv == TypeOK /\ AtWork


LEMMA TypeInit == Init => TypeInv
<1> SUFFICES ASSUME Init PROVE TypeInv
  OBVIOUS
<1>1. IdleOrch \in Copies /\ IdleOrch.pc = "idle"
  BY LifecycleAssumption, NoRowTyped DEF IdleOrch, Copies, OrchPCs, Todos
<1>2. IdleCli \in [step : Steps, next : Steps, task : Rows, todo : Todos]
  BY NoRowTyped DEF IdleCli, Steps, Todos
<1>3. orch \in [Orch -> Copies]
  BY <1>1 DEF Init
<1>4. \A o \in Orch : orch[o].pc = "idle"
  BY <1>1 DEF Init
<1>5. reaper \in [Reaper -> [pc : {"idle", "listed", "probed", "reap"}, task : Rows]]
  BY NoRowTyped DEF Init, IdleReaper
<1>6. TypeOK
  BY <1>2, <1>3, <1>5, NoRowTyped DEF Init, TypeOK, Copies
<1>7. AtWork
  BY <1>4 DEF AtWork
<1> QED
  BY <1>6, <1>7 DEF TypeInv

\* The variables several processes write.
Shared ==
  /\ row \in Rows
  /\ files \in [plan : BOOLEAN, clar : BOOLEAN, pass : BOOLEAN]
  /\ lockFile \in BOOLEAN
  /\ owner \in Orch \cup Reaper \cup {Nobody}
  /\ orphans \subseteq Orch \X Phases

\* AtWork of one record.
AtWorkIn(c) ==
  /\ c.pc \in {"begin", "agent", "judge", "fix", "finish"}
       => c.todo # <<>> /\ Head(c.todo) \in Phases
  /\ c.pc = "fix" => c.turn # MaxIterations

LEMMA TypeParts ==
  ASSUME TypeInv
  PROVE  /\ Shared
         /\ \A o \in Orch : orch[o] \in Copies /\ AtWorkIn(orch[o])
         /\ cli \in CliType
         /\ reaper \in [Reaper -> [pc : {"idle", "listed", "probed", "reap"}, task : Rows]]
BY DEF TypeInv, TypeOK, AtWork, Shared, AtWorkIn, Copies, CliType, Phase, Phases

\* A step of one orchestrator that leaves it in the record c.
LEMMA OrchStep ==
  ASSUME TypeInv, NEW o \in Orch, NEW c \in Copies, AtWorkIn(c),
         orch' = [orch EXCEPT ![o] = c], Shared', cli' \in CliType, UNCHANGED reaper
  PROVE  TypeInv'
<1>1. orch \in [Orch -> Copies]
  BY DEF TypeInv, TypeOK, Copies
<1>2. \A q \in Orch : orch'[q] = IF q = o THEN c ELSE orch[q]
  BY <1>1
<1>3. orch' \in [Orch -> Copies]
  BY <1>1, <1>2
<1>4. TypeOK'
  BY <1>3 DEF TypeInv, TypeOK, Copies, Shared, CliType
<1>5. AtWork'
  BY <1>2 DEF TypeInv, AtWork, AtWorkIn, Phase
<1> QED
  BY <1>4, <1>5 DEF TypeInv


LEMMA RowUpdates ==
  ASSUME NEW t \in Rows
  PROVE  /\ [t EXCEPT !.done = FALSE] \in Rows
         /\ \A id \in SUBSET Phases : [t EXCEPT !.sess = @ \cup id] \in Rows
BY DEF Rows

\* The step of every Begin action.
LEMMA StartStep ==
  ASSUME TypeInv, NEW o \in Orch, NEW t \in Rows, NEW n \in 0..MaxIterations,
         orch[o].pc = "begin", StartAgent(o, t, n), row' \in Rows
  PROVE  TypeInv'
<1> DEFINE c == [orch[o] EXCEPT !.pc = "agent", !.task = t, !.turn = n]
<1>1. orch[o] \in Copies /\ AtWorkIn(orch[o]) /\ Shared /\ cli \in CliType
  BY TypeParts
<1>2. c \in Copies /\ AtWorkIn(c)
  BY <1>1 DEF Copies, AtWorkIn, OrchPCs
<1>3. orch' = [orch EXCEPT ![o] = c] /\ Shared' /\ cli' \in CliType /\ UNCHANGED reaper
  BY <1>1 DEF StartAgent, Shared
<1> QED
  BY <1>2, <1>3, OrchStep

LEMMA OrchestrateTyped ==
  ASSUME TypeInv, NEW o \in Orch, Orchestrate(o) PROVE TypeInv'
<1>a. Shared /\ orch[o] \in Copies /\ AtWorkIn(orch[o]) /\ cli \in CliType /\ <<>> \in Todos
  BY TypeParts DEF Todos
<1>b. IdleOrch \in Copies /\ IdleOrch.pc = "idle"
  BY LifecycleAssumption, NoRowTyped DEF IdleOrch, Copies, OrchPCs, Todos
<1>1. CASE AcquireLock(o)
  <2> DEFINE c == [orch[o] EXCEPT !.pc = "next"]
  <2>1. c \in Copies /\ AtWorkIn(c)
    BY <1>1, <1>a, <1>b, LifecycleAssumption, NoRowTyped
       DEF AcquireLock, Step, Lock!Acquire, Copies, AtWorkIn, Shared, OrchPCs
  <2>2. orch' = [orch EXCEPT ![o] = c]
    BY <1>1 DEF AcquireLock, Step, Lock!Acquire
  <2>3. Shared' /\ cli' \in CliType /\ UNCHANGED reaper
    BY <1>1, <1>a, LifecycleAssumption, NoRowTyped
       DEF AcquireLock, Step, Lock!Acquire, Shared, Copies
  <2> QED
    BY <2>1, <2>2, <2>3, OrchStep
<1>2. CASE Contended(o)
  <2> DEFINE c == [IdleOrch EXCEPT !.pc = "done"]
  <2>1. c \in Copies /\ AtWorkIn(c)
    BY <1>2, <1>a, <1>b, LifecycleAssumption, NoRowTyped
       DEF Contended, Step, Copies, AtWorkIn, Shared, OrchPCs
  <2>2. orch' = [orch EXCEPT ![o] = c]
    BY <1>2 DEF Contended, Step
  <2>3. Shared' /\ cli' \in CliType /\ UNCHANGED reaper
    BY <1>2, <1>a, LifecycleAssumption, NoRowTyped DEF Contended, Step, Shared, Copies
  <2> QED
    BY <2>1, <2>2, <2>3, OrchStep
<1>3. CASE ResolveFails(o)
  <2> DEFINE c == [orch[o] EXCEPT !.pc = "release", !.task = NoRow]
  <2>1. c \in Copies /\ AtWorkIn(c)
    BY <1>a, NoRowTyped DEF Copies, AtWorkIn, OrchPCs
  <2>2. orch' = [orch EXCEPT ![o] = c]
    BY <1>3 DEF ResolveFails
  <2>3. Shared' /\ cli' \in CliType /\ UNCHANGED reaper
    BY <1>3, <1>a DEF ResolveFails, Shared
  <2> QED
    BY <2>1, <2>2, <2>3, OrchStep
<1>17. CASE Resolve(o)
  <2> DEFINE c == [orch[o] EXCEPT !.pc = "begin", !.task = row]
  <2>1. c \in Copies /\ AtWorkIn(c)
    BY <1>17, <1>a DEF Resolve, Phase, Phases, Copies, AtWorkIn, Shared, OrchPCs
  <2>2. orch' = [orch EXCEPT ![o] = c]
    BY <1>17 DEF Resolve
  <2>3. Shared' /\ cli' \in CliType /\ UNCHANGED reaper
    BY <1>17, <1>a DEF Resolve, Shared
  <2> QED
    BY <2>1, <2>2, <2>3, OrchStep
<1>4. CASE VerifyGuard(o)
  <2> DEFINE c == [orch[o] EXCEPT !.todo = IF row.status = "needs-clarification"
                                             THEN <<>> ELSE Tail(@)]
  <2>1. c \in Copies /\ AtWorkIn(c)
    BY <1>4, <1>a, <1>b, TailTodo, LifecycleAssumption, NoRowTyped
       DEF VerifyGuard, AtPhase, Phase, Copies, AtWorkIn, Shared, OrchPCs
  <2>2. orch' = [orch EXCEPT ![o] = c]
    BY <1>4 DEF VerifyGuard, AtPhase, Phase
  <2>3. Shared' /\ cli' \in CliType /\ UNCHANGED reaper
    BY <1>4, <1>a, TailTodo, LifecycleAssumption, NoRowTyped
       DEF VerifyGuard, AtPhase, Phase, Shared, Copies
  <2> QED
    BY <2>1, <2>2, <2>3, OrchStep
<1>5. CASE AgentExits(o)
  <2> DEFINE c == [orch[o] EXCEPT !.pc = IF Phase(o) = "verify" THEN "judge" ELSE "finish"]
  <2>1. c \in Copies /\ AtWorkIn(c)
    BY <1>5, <1>a, <1>b, LifecycleAssumption, NoRowTyped
       DEF AgentExits, AgentWrites, Phase, Copies, AtWorkIn, Shared, OrchPCs
  <2>2. orch' = [orch EXCEPT ![o] = c]
    BY <1>5 DEF AgentExits, AgentWrites, Phase
  <2>3. Shared' /\ cli' \in CliType /\ UNCHANGED reaper
    BY <1>5, <1>a, LifecycleAssumption, NoRowTyped
       DEF AgentExits, AgentWrites, Phase, Shared, Copies
  <2> QED
    BY <2>1, <2>2, <2>3, OrchStep
<1>6. CASE AgentFails(o)
  <2> DEFINE c == [orch[o] EXCEPT !.pc = "finish", !.outcome = "error"]
  <2>1. c \in Copies /\ AtWorkIn(c)
    BY <1>6, <1>a, <1>b, LifecycleAssumption, NoRowTyped
       DEF AgentFails, Phase, Copies, AtWorkIn, Shared, OrchPCs
  <2>2. orch' = [orch EXCEPT ![o] = c]
    BY <1>6 DEF AgentFails, Phase
  <2>3. Shared' /\ cli' \in CliType /\ UNCHANGED reaper
    BY <1>6, <1>a, LifecycleAssumption, NoRowTyped DEF AgentFails, Phase, Shared, Copies
  <2> QED
    BY <2>1, <2>2, <2>3, OrchStep
<1>7. CASE Judge(o)
  <2> DEFINE c == IF files.pass THEN [orch[o] EXCEPT !.pc = "finish", !.outcome = "pass"]
               ELSE IF orch[o].turn = MaxIterations THEN [orch[o] EXCEPT !.pc = "finish", !.outcome = "fail"]
               ELSE [orch[o] EXCEPT !.pc = "fix"]
  <2>1. c \in Copies /\ AtWorkIn(c)
    BY <1>7, <1>a, <1>b, LifecycleAssumption, NoRowTyped
       DEF Judge, Phase, Copies, AtWorkIn, Shared, OrchPCs
  <2>2. orch' = [orch EXCEPT ![o] = c]
    BY <1>7 DEF Judge, Phase
  <2>3. Shared' /\ cli' \in CliType /\ UNCHANGED reaper
    BY <1>7, <1>a, LifecycleAssumption, NoRowTyped DEF Judge, Phase, Shared, Copies
  <2> QED
    BY <2>1, <2>2, <2>3, OrchStep
<1>8. CASE FixExits(o)
  <2> DEFINE c == [orch[o] EXCEPT !.pc = "agent", !.turn = @ + 1]
  <2>0. orch[o].turn + 1 \in 0..MaxIterations
    BY <1>8, <1>a, LifecycleAssumption DEF FixExits, Copies, AtWorkIn
  <2>1. c \in Copies /\ AtWorkIn(c)
    BY <1>8, <1>a, <2>0 DEF FixExits, Copies, AtWorkIn, OrchPCs
  <2>2. orch' = [orch EXCEPT ![o] = c]
    BY <1>8 DEF FixExits, AgentWrites
  <2>3. Shared' /\ cli' \in CliType /\ UNCHANGED reaper
    BY <1>8, <1>a, LifecycleAssumption, NoRowTyped
       DEF FixExits, AgentWrites, Shared, Copies
  <2> QED
    BY <2>1, <2>2, <2>3, OrchStep
<1>9. CASE FinaliseRead(o)
  <2> DEFINE c == [orch[o] EXCEPT !.pc = IF row = NoRow THEN "release" ELSE "stamp", !.task = row]
  <2>1. c \in Copies /\ AtWorkIn(c)
    BY <1>9, <1>a, <1>b, LifecycleAssumption, NoRowTyped
       DEF FinaliseRead, AtPhase, Copies, AtWorkIn, Shared, OrchPCs
  <2>2. orch' = [orch EXCEPT ![o] = c]
    BY <1>9 DEF FinaliseRead, AtPhase
  <2>3. Shared' /\ cli' \in CliType /\ UNCHANGED reaper
    BY <1>9, <1>a, LifecycleAssumption, NoRowTyped
       DEF FinaliseRead, AtPhase, Shared, Copies
  <2> QED
    BY <2>1, <2>2, <2>3, OrchStep
<1>10. CASE FinaliseWrite(o)
  <2> DEFINE c == [orch[o] EXCEPT !.pc = "release", !.task = NoRow]
  <2>1. c \in Copies /\ AtWorkIn(c)
    BY <1>10, <1>a, <1>b, AppliedTyped, LifecycleAssumption, NoRowTyped
       DEF FinaliseWrite, Step, ApplyAndPersist, Applied, Copies, AtWorkIn, Shared,
           OrchPCs
  <2>2. orch' = [orch EXCEPT ![o] = c]
    BY <1>10 DEF FinaliseWrite, Step, ApplyAndPersist, Applied
  <2>3. Shared' /\ cli' \in CliType /\ UNCHANGED reaper
    BY <1>10, <1>a, AppliedTyped, LifecycleAssumption, NoRowTyped
       DEF FinaliseWrite, Step, ApplyAndPersist, Applied, Shared, Copies
  <2> QED
    BY <2>1, <2>2, <2>3, OrchStep
<1>11. CASE ReleaseLock(o)
  <2> DEFINE c == [IdleOrch EXCEPT !.pc = "done"]
  <2>1. c \in Copies /\ AtWorkIn(c)
    BY <1>11, <1>a, <1>b, LifecycleAssumption, NoRowTyped
       DEF ReleaseLock, Step, Copies, AtWorkIn, Shared, OrchPCs
  <2>2. orch' = [orch EXCEPT ![o] = c]
    BY <1>11 DEF ReleaseLock, Step
  <2>3. Shared' /\ cli' \in CliType /\ UNCHANGED reaper
    BY <1>11, <1>a, LifecycleAssumption, NoRowTyped DEF ReleaseLock, Step, Shared, Copies
  <2> QED
    BY <2>1, <2>2, <2>3, OrchStep
<1>12. CASE BeginPlanResume(o)
  <2> DEFINE t == Stamped([Cleared(orch[o].task, "plan") EXCEPT !.done = FALSE], "PlanResume")
             c == [IdleOrch EXCEPT !.pc = "panic"]
  <2>1. "plan" \in Phases /\ 0 \in 0..MaxIterations
    BY LifecycleAssumption DEF Phases
  <2>2. [Cleared(orch[o].task, "plan") EXCEPT !.done = FALSE] \in Rows
    BY <1>a, <2>1, EndedTyped, RowUpdates DEF Copies
  <2>3. [Cleared(orch[o].task, "plan") EXCEPT !.done = FALSE].status = orch[o].task.status
    BY <1>a DEF Cleared, Copies, Rows
  <2>4. CASE Legal(orch[o].task.status, "PlanResume")
    <3>1. t \in Rows
      BY <2>2, <2>3, <2>4, StampedTyped
    <3>2. orch[o].pc = "begin" /\ Phase(o) = "plan" /\ row' = t /\ StartAgent(o, t, 0)
      BY <1>12, <2>4 DEF BeginPlanResume, AtBegin
    <3> QED
      BY <2>1, <3>1, <3>2, StartStep
  <2>5. CASE ~Legal(orch[o].task.status, "PlanResume")
    <3>1. c \in Copies /\ AtWorkIn(c)
      BY <1>b DEF Copies, AtWorkIn, OrchPCs
    <3>2. orch' = [orch EXCEPT ![o] = c] /\ Shared' /\ cli' \in CliType /\ UNCHANGED reaper
      BY <1>12, <1>a, <2>5 DEF BeginPlanResume, Shared
    <3> QED
      BY <3>1, <3>2, OrchStep
  <2> QED
    BY <2>4, <2>5
<1>13. CASE BeginPlan(o)
  <2>1. "plan" \in Phases /\ 0 \in 0..MaxIterations
    BY LifecycleAssumption DEF Phases
  <2>2. PICK id \in {{}, {"plan"}} :
          LET existing == [orch[o].task EXCEPT !.sess = @ \cup id]
              restart  == [Cleared(existing, "plan") EXCEPT !.done = FALSE]
          IN  IF orch[o].task.status = "planning"
                THEN row' = existing /\ StartAgent(o, existing, 0)
                ELSE /\ ApplyAndPersist(restart, "PlanRestart")
                     /\ StartAgent(o, Applied(restart, "PlanRestart"), 0)
    BY <1>13 DEF BeginPlan
  <2> DEFINE existing == [orch[o].task EXCEPT !.sess = @ \cup id]
             restart  == [Cleared(existing, "plan") EXCEPT !.done = FALSE]
  <2>3. existing \in Rows /\ restart \in Rows
    BY <1>a, <2>1, EndedTyped, RowUpdates DEF Copies
  <2>4. orch[o].pc = "begin" /\ Phase(o) = "plan"
    BY <1>13 DEF BeginPlan, AtBegin
  <2>5. CASE orch[o].task.status = "planning"
    BY <2>1, <2>2, <2>3, <2>4, <2>5, StartStep
  <2>6. CASE orch[o].task.status # "planning"
    <3>1. Applied(restart, "PlanRestart") \in Rows /\ row' \in Rows
      BY <1>a, <2>2, <2>3, <2>6, AppliedTyped, StampedTyped DEF ApplyAndPersist, Shared
    <3> QED
      BY <2>1, <2>2, <2>4, <2>6, <3>1, StartStep
  <2> QED
    BY <2>5, <2>6
<1>14. CASE BeginWork(o)
  <2>1. "work" \in Phases /\ 0 \in 0..MaxIterations
    BY LifecycleAssumption DEF Phases
  <2>2. PICK id \in {{}, {"work"}} :
          LET resume == "work" \in orch[o].task.sess
              e == IF resume THEN "WorkResume" ELSE "WorkRestart"
              t == [Cleared(orch[o].task, "work") EXCEPT !.done = FALSE, !.worked = TRUE,
                                                !.sess = @ \cup id]
          IN  ApplyAndPersist(t, e) /\ StartAgent(o, Applied(t, e), 0)
    BY <1>14 DEF BeginWork
  <2> DEFINE e == IF "work" \in orch[o].task.sess THEN "WorkResume" ELSE "WorkRestart"
             t == [Cleared(orch[o].task, "work") EXCEPT !.done = FALSE, !.worked = TRUE,
                                               !.sess = @ \cup id]
  <2>3. t \in Rows
    BY <1>a, <2>1, EndedTyped DEF Copies, Rows
  <2>4. Applied(t, e) \in Rows /\ row' \in Rows
    BY <1>a, <2>2, <2>3, AppliedTyped, StampedTyped DEF ApplyAndPersist, Shared
  <2>5. orch[o].pc = "begin" /\ Phase(o) = "work" /\ StartAgent(o, Applied(t, e), 0)
    BY <1>14, <2>2 DEF BeginWork, AtBegin
  <2> QED
    BY <2>1, <2>4, <2>5, StartStep
<1>15. CASE BeginVerify(o)
  <2> DEFINE n == IF "verify" \in orch[o].task.sess THEN MaxIterations ELSE 1
  <2>1. "verify" \in Phases /\ n \in 0..MaxIterations
    BY LifecycleAssumption DEF Phases
  <2>2. PICK id \in {{}, {"verify"}} :
          LET resume == "verify" \in orch[o].task.sess
              e == IF resume THEN "VerifyResume" ELSE "VerifyBegin"
              t == [Cleared(orch[o].task, "verify") EXCEPT !.done = FALSE, !.sess = @ \cup id]
          IN  /\ ApplyAndPersist(t, e)
              /\ StartAgent(o, Applied(t, e), IF resume THEN MaxIterations ELSE 1)
    BY <1>15 DEF BeginVerify
  <2> DEFINE e == IF "verify" \in orch[o].task.sess THEN "VerifyResume" ELSE "VerifyBegin"
             t == [Cleared(orch[o].task, "verify") EXCEPT !.done = FALSE, !.sess = @ \cup id]
  <2>3. t \in Rows
    BY <1>a, <2>1, EndedTyped DEF Copies, Rows
  <2>4. Applied(t, e) \in Rows /\ row' \in Rows
    BY <1>a, <2>2, <2>3, AppliedTyped, StampedTyped DEF ApplyAndPersist, Shared
  <2>5. orch[o].pc = "begin" /\ Phase(o) = "verify" /\ StartAgent(o, Applied(t, e), n)
    BY <1>15, <2>2 DEF BeginVerify, AtBegin
  <2> QED
    BY <2>1, <2>4, <2>5, StartStep
<1>16. CASE Finish(o)
  <2> DEFINE err == orch[o].outcome = "error"
             c == [orch[o] EXCEPT !.pc = IF err THEN "release" ELSE "next",
                                  !.todo = Tail(@), !.task = NoRow, !.turn = 0,
                                  !.outcome = "none"]
             t == Ended(orch[o].task, Phase(o))
  <2>1. Phase(o) \in Phases /\ orch[o].todo # <<>>
    BY <1>16, <1>a DEF Finish, AtWorkIn, Phase
  <2>0. Tail(orch[o].todo) \in Todos /\ 0 \in 0..MaxIterations
    BY <1>a, <2>1, TailTodo, LifecycleAssumption DEF Copies
  <2>2. c \in Copies /\ AtWorkIn(c)
    BY <1>a, <2>0, NoRowTyped DEF Copies, AtWorkIn, OrchPCs
  <2>3. t \in Rows
    BY <1>a, <2>1, EndedTyped DEF Copies
  <2>4. PICK e : ApplyAndPersist(t, e)
    BY <1>16 DEF Finish
  <2>5. row' \in Rows
    BY <1>a, <2>3, <2>4, StampedTyped DEF ApplyAndPersist, Shared
  <2>6. orch' = [orch EXCEPT ![o] = c] /\ Shared' /\ cli' \in CliType /\ UNCHANGED reaper
    BY <1>16, <1>a, <2>5 DEF Finish, Shared
  <2> QED
    BY <2>2, <2>6, OrchStep
<1> QED
  BY <1>1, <1>2, <1>3, <1>4, <1>5, <1>6, <1>7, <1>8, <1>9, <1>10, <1>11, <1>12,
     <1>13, <1>14, <1>15, <1>16, <1>17 DEF Orchestrate

LEMMA CaptureTyped ==
  ASSUME TypeInv, NEW o \in Orch, Capture(o) PROVE TypeInv'
<1> DEFINE t == [orch[o].task EXCEPT !.sess = @ \cup {Phase(o)}]
           c == [orch[o] EXCEPT !.task = t]
<1>1. Shared /\ orch[o] \in Copies /\ AtWorkIn(orch[o]) /\ cli \in CliType
  BY TypeParts
<1>2. Phase(o) \in Phases
  BY <1>1 DEF Capture, AtWorkIn, Phase
<1>3. t \in Rows
  BY <1>1, <1>2, RowUpdates DEF Copies
<1>4. c \in Copies /\ AtWorkIn(c)
  BY <1>1, <1>3 DEF Copies, AtWorkIn
<1>5. orch' = [orch EXCEPT ![o] = c] /\ Shared' /\ cli' \in CliType /\ UNCHANGED reaper
  BY <1>1, <1>3 DEF Capture, Shared
<1> QED
  BY <1>4, <1>5, OrchStep

LEMMA DiesTyped ==
  ASSUME TypeInv, NEW o \in Orch, Dies(o), UNCHANGED <<cli, reaper>> PROVE TypeInv'
<1> DEFINE c == [IdleOrch EXCEPT !.pc = "dead"]
<1>1. Shared /\ orch[o] \in Copies /\ AtWorkIn(orch[o]) /\ cli \in CliType
  BY TypeParts
<1>2. c \in Copies /\ AtWorkIn(c)
  BY LifecycleAssumption, NoRowTyped DEF IdleOrch, Copies, AtWorkIn, OrchPCs, Todos
<1>3. orphans' \subseteq Orch \X Phases
  BY <1>1 DEF Dies, Agent, Shared, AtWorkIn, Phase, Phases
<1>4. orch' = [orch EXCEPT ![o] = c] /\ Shared'
  BY <1>1, <1>3 DEF Dies, Shared
<1> QED
  BY <1>1, <1>2, <1>4, OrchStep

\* A step of the user's command, or of nobody: no orchestrator moves.
LEMMA CliStep ==
  ASSUME TypeInv, cli' \in CliType, Shared', UNCHANGED <<orch, reaper>> PROVE TypeInv'
<1>1. TypeOK'
  BY DEF TypeInv, TypeOK, Shared, CliType
<1>2. AtWork'
  BY DEF TypeInv, AtWork, Phase
<1> QED
  BY <1>1, <1>2 DEF TypeInv

LEMMA OrphanTyped ==
  ASSUME TypeInv, NEW a \in orphans, OrphanExits(a) PROVE TypeInv'
<1>1. Shared /\ cli \in CliType
  BY TypeParts
<1>2. cli' \in CliType /\ Shared' /\ UNCHANGED <<orch, reaper>>
  BY <1>1 DEF OrphanExits, AgentWrites, Shared
<1> QED
  BY <1>2, CliStep

LEMMA ChainsTyped ==
  /\ \A gate : PlanChain(gate) \in Todos
  /\ \A p \in Phases : ResumeChain(p) \in Todos /\ <<p>> \in Todos
  /\ FromWork \in Todos /\ <<>> \in Todos
BY DEF PlanChain, ResumeChain, Todos, Chains, Phases

LEMMA RunTyped ==
  ASSUME NEW f \in Steps, NEW l \in Steps, NEW s \in Todos, Run(f, l, s)
  PROVE  cli' \in CliType
BY NoRowTyped DEF Run, CliType

LEMMA IssueTyped == ASSUME TypeInv, Issue PROVE TypeInv'
<1>1. Shared /\ cli \in CliType
  BY TypeParts
<1>2. CASE Start
  <2>1. PICK gate : \/ Run("persist", "spawn", PlanChain(gate))
                    \/ Run("spawn", "persist", PlanChain(gate))
    BY <1>2 DEF Start, RunDetached
  <2>2. cli' \in CliType
    BY <2>1, ChainsTyped, RunTyped DEF Steps
  <2> QED
    BY <1>1, <1>2, <2>2, CliStep DEF Start, Shared
<1>3. CASE Replan
  <2>1. cli' \in CliType
    BY <1>3, ChainsTyped, RunTyped DEF Replan, RunDetached, Steps, Phases
  <2> QED
    BY <1>1, <1>3, <2>1, CliStep DEF Replan, Shared
<1>4. CASE Continue
  <2>1. cli' \in CliType
    BY <1>1, <1>4, ChainsTyped DEF Continue, IdleCli, CliType, Steps, Shared
  <2> QED
    BY <1>1, <1>4, <2>1, CliStep DEF Continue, Shared
<1>5. CASE Discard
  <2>1. cli' \in CliType
    BY <1>5, ChainsTyped, RunTyped DEF Discard, Steps
  <2> QED
    BY <1>1, <1>5, <2>1, CliStep DEF Discard, Shared
<1>6. ASSUME NEW p \in Phases, Resume(p) PROVE TypeInv'
  <2>1. cli' \in CliType
    BY <1>6, ChainsTyped, RunTyped DEF Resume, Steps
  <2> QED
    BY <1>1, <1>6, <2>1, CliStep DEF Resume, Shared
<1> QED
  BY <1>2, <1>3, <1>4, <1>5, <1>6 DEF Issue

LEMMA DoneTyped == ASSUME cli \in CliType, Done PROVE cli' \in CliType
BY NoRowTyped, ChainsTyped DEF Done, CliType, IdleCli, Steps

LEMMA LatestPhase ==
  ASSUME NEW t \in Rows, latestPhase(t) # "none" PROVE latestPhase(t) \in Phases
BY DEF latestPhase, Phases

LEMMA CarryTyped == ASSUME TypeInv, Carry PROVE TypeInv'
<1>a. Shared /\ cli \in CliType /\ cli.task \in Rows
  BY TypeParts DEF CliType
<1>b. IdleCli \in CliType
  BY NoRowTyped, ChainsTyped DEF IdleCli, CliType, Steps
<1>1. CASE DispatchPlanApprove
  <2>1. cli' \in CliType
    BY <1>1, ChainsTyped, RunTyped DEF DispatchPlanApprove, RunDetached, Steps
  <2>2. row' \in Rows
    BY <1>1, <1>a, StampedTyped DEF DispatchPlanApprove, ApplyAndPersist, Shared
  <2> QED
    BY <1>1, <1>a, <2>1, <2>2, CliStep DEF DispatchPlanApprove, Shared
<1>2. CASE DispatchClarification
  <2> DEFINE p == latestPhase(cli.task)
  <2>1. Run("spawn", "none", ResumeChain(p)) /\ p # "none"
    BY <1>2 DEF DispatchClarification
  <2>2. cli' \in CliType
    BY <1>a, <2>1, LatestPhase, ChainsTyped, RunTyped DEF Steps
  <2>3. PICK e : ApplyAndPersist(cli.task, e)
    BY <1>2 DEF DispatchClarification
  <2>4. row' \in Rows
    BY <1>a, <2>3, StampedTyped DEF ApplyAndPersist, Shared
  <2> QED
    BY <1>2, <1>a, <2>2, <2>4, CliStep DEF DispatchClarification, Shared
<1>3. CASE Dispatch
  <2> DEFINE p == latestPhase(cli.task)
  <2>1. \/ \E f, l \in Steps, s \in Todos : Run(f, l, s)
        \/ p # "none" /\ Run("spawn", "none", ResumeChain(p))
        \/ cli' = IdleCli
    BY <1>3, ChainsTyped DEF Dispatch, RunDetached, Steps, Phases
  <2>2. cli' \in CliType
    BY <1>a, <1>b, <2>1, LatestPhase, ChainsTyped, RunTyped DEF Steps
  <2> QED
    BY <1>3, <1>a, <2>2, CliStep DEF Dispatch, Shared
<1>5. CASE PersistStartRow
  <2>1. row' \in Rows
    BY <1>5, NewBegins, NoRowTyped, StampedTyped DEF PersistStartRow, NoRow
  <2>2. cli' \in CliType
    BY <1>5, <1>a, DoneTyped DEF PersistStartRow
  <2> QED
    BY <1>5, <1>a, <2>1, <2>2, CliStep DEF PersistStartRow, Shared
<1>6. CASE StampRead
  <2>1. cli' \in CliType
    BY <1>6, <1>a, DoneTyped DEF StampRead, CliType, Steps, Shared
  <2> QED
    BY <1>6, <1>a, <2>1, CliStep DEF StampRead, Shared
<1>7. CASE StampWrite
  <2>1. cli' \in CliType
    BY <1>7, <1>a, DoneTyped DEF StampWrite
  <2> QED
    BY <1>7, <1>a, <2>1, CliStep DEF StampWrite, Shared
<1>8. CASE Takeover
  <2>1. cli' \in CliType
    BY <1>8, <1>a, DoneTyped DEF Takeover, CliType, Steps
  <2> QED
    BY <1>8, <1>a, <2>1, CliStep DEF Takeover, Shared
<1>9. CASE TakeoverDrained
  <2>1. cli' \in CliType
    BY <1>9, <1>a, DoneTyped DEF TakeoverDrained
  <2> QED
    BY <1>9, <1>a, <2>1, CliStep DEF TakeoverDrained, Shared
<1>10. CASE TakeoverGivesUp
  BY <1>10, <1>a, <1>b, CliStep DEF TakeoverGivesUp, Shared
<1>11. CASE DeleteTask
  <2>1. cli' \in CliType
    BY <1>11, <1>a, DoneTyped DEF DeleteTask
  <2> QED
    BY <1>11, <1>a, <2>1, NoRowTyped, CliStep DEF DeleteTask, Shared
<1>12. CASE RemoveDir
  <2>1. cli' \in CliType
    BY <1>12, <1>a, DoneTyped DEF RemoveDir
  <2> QED
    BY <1>12, <1>a, <2>1, NoRowTyped, CliStep DEF RemoveDir, Shared
<1>13. ASSUME NEW o \in Orch, Spawn(o) PROVE TypeInv'
  <2> DEFINE c == [IdleOrch EXCEPT !.pc = "lock", !.todo = cli.todo]
  <2>0. 0 \in 0..MaxIterations /\ cli.todo \in Todos
    BY <1>a, LifecycleAssumption DEF CliType
  <2>1. c \in Copies /\ AtWorkIn(c)
    BY <2>0, NoRowTyped DEF IdleOrch, Copies, AtWorkIn, OrchPCs
  <2>2. cli' \in CliType
    BY <1>13, <1>a, DoneTyped DEF Spawn
  <2>3. orch' = [orch EXCEPT ![o] = c] /\ Shared' /\ UNCHANGED reaper
    BY <1>13, <1>a DEF Spawn, Step, Shared
  <2> QED
    BY <2>1, <2>2, <2>3, OrchStep
<1>14. ASSUME NEW o \in Orch, TakeoverKill(o) PROVE TypeInv'
  BY <1>14, DiesTyped DEF TakeoverKill
<1> QED
  BY <1>1, <1>2, <1>3, <1>5, <1>6, <1>7, <1>8, <1>9, <1>10, <1>11, <1>12, <1>13, <1>14
     DEF Carry

LEMMA ReapTyped == ASSUME TypeInv, NEW k \in Reaper, Reap(k) PROVE TypeInv'
<1> DEFINE R == [pc : {"idle", "listed", "probed", "reap"}, task : Rows]
<1>1. Shared /\ cli \in CliType /\ reaper \in [Reaper -> R] /\ IdleReaper \in R
  BY TypeParts, NoRowTyped DEF IdleReaper
<1>2. Shared'
  <2>1. CASE ListTasks(k) \/ ProbeAcquired(k) \/ ProbeRefused(k) \/ ReleaseProbe(k)
    BY <1>1, <2>1
       DEF ListTasks, ProbeAcquired, ProbeRefused, ReleaseProbe, Lock!Acquire, Shared
  <2>2. CASE FinalisePlanReap(k) \/ FinaliseWorkReap(k)
    <3>1. \E p \in Phases : \E e : ApplyAndPersist(Ended(reaper[k].task, p), e)
      <4>1. "plan" \in Phases /\ "work" \in Phases
        BY DEF Phases
      <4>2. CASE FinalisePlanReap(k)
        BY <4>1, <4>2 DEF FinalisePlanReap
      <4>3. CASE FinaliseWorkReap(k)
        BY <4>1, <4>3 DEF FinaliseWorkReap
      <4> QED
        BY <2>2, <4>2, <4>3
    <3>2. row' \in Rows
      BY <1>1, <3>1, EndedTyped, StampedTyped DEF ApplyAndPersist, Shared
    <3> QED
      BY <1>1, <2>2, <3>2 DEF FinalisePlanReap, FinaliseWorkReap, Shared
  <2> QED
    BY <2>1, <2>2 DEF Reap
<1>3. reaper' \in [Reaper -> R] /\ UNCHANGED <<orch, cli>>
  BY <1>1
     DEF Reap, ListTasks, ProbeAcquired, ProbeRefused, ReleaseProbe, FinalisePlanReap,
              FinaliseWorkReap, Reaped, Shared
<1>4. TypeOK'
  BY <1>2, <1>3 DEF TypeInv, TypeOK, Shared
<1>5. AtWork'
  BY <1>3 DEF TypeInv, AtWork, Phase
<1> QED
  BY <1>4, <1>5 DEF TypeInv

LEMMA TypeStep == TypeInv /\ [Next]_vars => TypeInv'
<1> SUFFICES ASSUME TypeInv, [Next]_vars PROVE TypeInv'
  OBVIOUS
<1>1. ASSUME NEW o \in Orch, Kill(o) PROVE TypeInv'
  BY <1>1, DiesTyped DEF Kill
<1>2. CASE UNCHANGED vars
  BY <1>2 DEF vars, TypeInv, TypeOK, AtWork, Phase
<1> QED
  BY <1>1, <1>2, OrchestrateTyped, CaptureTyped, OrphanTyped, IssueTyped, CarryTyped,
     ReapTyped DEF Next

\* The state stays in its types: in particular a status on disk is always one of
\* the ten of status.go, and a verify turn never passes MaxIterations.
THEOREM TypeCorrect == Spec => []TypeOK
<1>1. TypeInv => TypeOK
  BY DEF TypeInv
<1> QED
  BY <1>1, TypeInit, TypeStep, PTL DEF Spec

--------------------------------------------------------------------------------
(* DoneAt *)

Good(t) == t.done => t.status = "completed"

\* DoneMeansCompleted alone is not inductive: a copy of the row that some process
\* read earlier comes back to disk as a whole (StampWrite, Finish, FinaliseWrite,
\* the reapers).  Every copy has to satisfy it.
DoneInv ==
  /\ Good(row) /\ Good(cli.task)
  /\ \A o \in Orch : Good(orch[o].task)
  /\ \A k \in Reaper : Good(reaper[k].task)

\* The events that end a phase or approve a plan: none is legal on a completed row.
Closing == {"PlanDone", "PlanAwaitApproval", "PlanError", "PlanNeedsClarification",
            "PlanApprove", "WorkDone", "WorkError", "WorkNeedsClarification",
            "VerifyPass", "VerifyFail", "VerifyError", "VerifyNeedsClarification",
            "VerifyStuck", "ReaperPlanDone", "ReaperPlanAwaitApproval", "ReaperPlanFail",
            "ReaperPlanNeedsClarification", "ReaperWorkDone", "ReaperWorkNeedsClarification"}

LEMMA CompletedIsClosed == \A e \in Closing : ~Legal("completed", e)
<1>1. \A t \in transitions : t.From = "completed" =>
        t.Event \in {"PlanRestart", "WorkRestart", "VerifyRestart",
                     "PlanResume", "WorkResume", "VerifyResume"}
  BY DEF transitions, Edges, Restartable, New
<1> QED
  BY <1>1, LegalEdge DEF Closing

LEMMA NoRowGood == Good(NoRow)
BY DEF Good, NoRow

LEMMA StampedGood ==
  ASSUME NEW t \in Rows, NEW e, Good(t), Legal(t.status, e), ~t.done \/ e \in Closing
  PROVE  Good(Stamped(t, e))
<1>1. ~t.done
  BY CompletedIsClosed DEF Good
<1> QED
  BY <1>1 DEF Stamped, Good, Rows

LEMMA AppliedGood ==
  ASSUME NEW t \in Rows, NEW e, Good(t), ~t.done \/ e \in Closing
  PROVE  Good(Applied(t, e))
BY StampedGood DEF Applied

LEMMA PersistedGood ==
  ASSUME NEW t \in Rows, NEW e, Good(t), ~t.done \/ e \in Closing, Good(row),
         ApplyAndPersist(t, e)
  PROVE  Good(row')
BY StampedGood DEF ApplyAndPersist

LEMMA EndedGood ==
  ASSUME NEW t \in Rows, NEW p \in Phases, Good(t) PROVE Good(Ended(t, p))
BY DEF Ended, Cleared, Good, Rows

LEMMA DoneInit == Init => DoneInv
BY NoRowGood DEF Init, DoneInv, IdleCli, IdleOrch, IdleReaper

LEMMA OrchKeepsGood ==
  ASSUME TypeInv, DoneInv, NEW o \in Orch, NEW c, orch' = [orch EXCEPT ![o] = c],
         Good(c.task), Good(row'), Good(cli'.task), UNCHANGED reaper
  PROVE  DoneInv'
<1>1. \A q \in Orch : orch'[q] = IF q = o THEN c ELSE orch[q]
  BY DEF TypeInv, TypeOK
<1> QED
  BY <1>1 DEF DoneInv

LEMMA OrchestrateGood ==
  ASSUME TypeInv, DoneInv, NEW o \in Orch, Orchestrate(o) PROVE DoneInv'
<1>a. row \in Rows /\ Good(row) /\ orch[o] \in Copies /\ Good(orch[o].task) /\ Good(cli.task)
  BY TypeParts DEF DoneInv, Shared
<1>b. IdleOrch.task = NoRow /\ IdleOrch \in Copies
  BY LifecycleAssumption, NoRowTyped DEF IdleOrch, Copies, OrchPCs, Todos
<1>1. CASE AcquireLock(o) \/ VerifyGuard(o) \/ AgentExits(o) \/ AgentFails(o)
           \/ Judge(o) \/ FixExits(o)
  <2>1. \A q \in Orch : orch'[q].task = orch[q].task
    <3>0. orch \in [Orch -> Copies]
      BY DEF TypeInv, TypeOK, Copies
    <3>1. CASE AcquireLock(o)
      BY <3>0, <3>1 DEF AcquireLock, Step, Copies
    <3>3. CASE VerifyGuard(o)
      BY <3>0, <3>3 DEF VerifyGuard, Step, Copies
    <3>4. CASE AgentExits(o)
      BY <3>0, <3>4 DEF AgentExits, Step, Copies
    <3>5. CASE AgentFails(o)
      BY <3>0, <3>5 DEF AgentFails, Step, Copies
    <3>6. CASE Judge(o)
      BY <3>0, <3>6 DEF Judge, Step, Copies
    <3>7. CASE FixExits(o)
      BY <3>0, <3>7 DEF FixExits, Step, Copies
    <3> QED
      BY <1>1, <3>1, <3>3, <3>4, <3>5, <3>6, <3>7
  <2>2. UNCHANGED <<row, cli, reaper>>
    BY <1>1
       DEF AcquireLock, VerifyGuard, AgentExits, AgentFails, Judge, FixExits
  <2> QED
    BY <2>1, <2>2 DEF DoneInv
<1>2. CASE Contended(o) \/ ReleaseLock(o)
  <2> DEFINE c == [IdleOrch EXCEPT !.pc = "done"]
  <2>1. Good(c.task)
    BY <1>b, NoRowGood DEF Copies
  <2> QED
    BY <1>2, <1>a, <2>1, OrchKeepsGood DEF Contended, ReleaseLock, Step
<1>3. CASE BeginPlanResume(o)
  <2> DEFINE u == [Cleared(orch[o].task, "plan") EXCEPT !.done = FALSE]
             c == [IdleOrch EXCEPT !.pc = "panic"]
  <2>1. u \in Rows /\ ~u.done /\ Good(u) /\ u.status = orch[o].task.status
    BY <1>a DEF Cleared, Copies, Rows, Good
  <2>2. CASE Legal(orch[o].task.status, "PlanResume")
    <3> DEFINE t == Stamped(u, "PlanResume")
               d == [orch[o] EXCEPT !.pc = "agent", !.task = t, !.turn = 0]
    <3>1. Good(t) /\ d.task = t
      BY <1>a, <2>1, <2>2, StampedGood DEF Copies
    <3>2. orch' = [orch EXCEPT ![o] = d] /\ row' = t /\ UNCHANGED <<cli, reaper>>
      BY <1>3, <2>2 DEF BeginPlanResume, StartAgent
    <3> QED
      BY <1>a, <3>1, <3>2, OrchKeepsGood
  <2>3. CASE ~Legal(orch[o].task.status, "PlanResume")
    <3>1. Good(c.task)
      BY <1>b, NoRowGood DEF Copies
    <3> QED
      BY <1>3, <1>a, <2>3, <3>1, OrchKeepsGood DEF BeginPlanResume
  <2> QED
    BY <2>2, <2>3
<1>4. CASE BeginPlan(o) /\ orch[o].task.status = "planning"
  <2>1. PICK id : row' = [orch[o].task EXCEPT !.sess = @ \cup id]
                  /\ StartAgent(o, [orch[o].task EXCEPT !.sess = @ \cup id], 0)
    BY <1>4 DEF BeginPlan
  <2> DEFINE c == [orch[o] EXCEPT !.pc = "agent", !.task = row', !.turn = 0]
  <2>2. Good(row') /\ c.task = row'
    BY <1>a, <2>1 DEF Good, Rows, Copies
  <2>3. orch' = [orch EXCEPT ![o] = c] /\ UNCHANGED <<cli, reaper>>
    BY <2>1 DEF StartAgent
  <2> QED
    BY <1>a, <2>2, <2>3, OrchKeepsGood
<1>5. CASE (BeginPlan(o) /\ orch[o].task.status # "planning") \/ BeginWork(o) \/ BeginVerify(o)
  <2>1. PICK t, e, n : /\ t \in Rows /\ ~t.done
                       /\ ApplyAndPersist(t, e) /\ StartAgent(o, Applied(t, e), n)
    <3>1. CASE BeginPlan(o) /\ orch[o].task.status # "planning"
      <4>1. PICK id \in SUBSET Phases :
              LET t == [Cleared([orch[o].task EXCEPT !.sess = @ \cup id], "plan") EXCEPT !.done = FALSE]
              IN  ApplyAndPersist(t, "PlanRestart") /\ StartAgent(o, Applied(t, "PlanRestart"), 0)
        BY <3>1 DEF BeginPlan, Phases
      <4> DEFINE t == [Cleared([orch[o].task EXCEPT !.sess = @ \cup id], "plan") EXCEPT !.done = FALSE]
      <4>2. t \in Rows /\ ~t.done
        BY <1>a DEF Cleared, Copies, Rows
      <4> QED
        BY <4>1, <4>2
    <3>2. CASE BeginWork(o)
      <4> DEFINE e == IF "work" \in orch[o].task.sess THEN "WorkResume" ELSE "WorkRestart"
      <4>1. PICK id \in SUBSET Phases :
              LET t == [Cleared(orch[o].task, "work") EXCEPT !.done = FALSE, !.worked = TRUE,
                                                    !.sess = @ \cup id]
              IN  ApplyAndPersist(t, e) /\ StartAgent(o, Applied(t, e), 0)
        BY <3>2 DEF BeginWork, Phases
      <4> DEFINE t == [Cleared(orch[o].task, "work") EXCEPT !.done = FALSE, !.worked = TRUE,
                                                   !.sess = @ \cup id]
      <4>2. t \in Rows /\ ~t.done
        BY <1>a DEF Cleared, Copies, Rows
      <4> QED
        BY <4>1, <4>2
    <3>3. CASE BeginVerify(o)
      <4> DEFINE e == IF "verify" \in orch[o].task.sess THEN "VerifyResume" ELSE "VerifyBegin"
                 n == IF "verify" \in orch[o].task.sess THEN MaxIterations ELSE 1
      <4>1. PICK id \in SUBSET Phases :
              LET t == [Cleared(orch[o].task, "verify") EXCEPT !.done = FALSE, !.sess = @ \cup id]
              IN  ApplyAndPersist(t, e) /\ StartAgent(o, Applied(t, e), n)
        BY <3>3 DEF BeginVerify, Phases
      <4> DEFINE t == [Cleared(orch[o].task, "verify") EXCEPT !.done = FALSE, !.sess = @ \cup id]
      <4>2. t \in Rows /\ ~t.done
        BY <1>a DEF Cleared, Copies, Rows
      <4> QED
        BY <4>1, <4>2
    <3> QED
      BY <1>5, <3>1, <3>2, <3>3
  <2> DEFINE c == [orch[o] EXCEPT !.pc = "agent", !.task = Applied(t, e), !.turn = n]
  <2>2. Good(t)
    BY <2>1 DEF Good
  <2>3. Good(row') /\ Good(Applied(t, e)) /\ c.task = Applied(t, e)
    BY <1>a, <2>1, <2>2, PersistedGood, AppliedGood DEF Copies
  <2>4. orch' = [orch EXCEPT ![o] = c] /\ UNCHANGED <<cli, reaper>>
    BY <2>1 DEF StartAgent
  <2> QED
    BY <1>a, <2>3, <2>4, OrchKeepsGood
<1>6. CASE Finish(o)
  <2> DEFINE t == Ended(orch[o].task, Phase(o))
             c == [orch[o] EXCEPT
                     !.pc = IF orch[o].outcome = "error" THEN "release" ELSE "next",
                     !.todo = Tail(@), !.task = NoRow, !.turn = 0, !.outcome = "none"]
  <2>1. Phase(o) \in Phases
    BY <1>6, TypeParts DEF Finish, AtWorkIn, Phase
  <2>2. t \in Rows /\ Good(t)
    BY <1>a, <2>1, EndedTyped, EndedGood DEF Copies
  <2>3. PICK e \in Closing : ApplyAndPersist(t, e)
    BY <1>6, <2>1
       DEF Finish, PlanFinishEvent, WorkFinishEvent, VerifyFinishEvent, Closing, Phases
  <2>4. Good(row')
    BY <1>a, <2>2, <2>3, PersistedGood
  <2>5. Good(c.task)
    BY <1>a, NoRowGood DEF Copies
  <2>6. orch' = [orch EXCEPT ![o] = c] /\ UNCHANGED <<cli, reaper>>
    BY <1>6 DEF Finish
  <2> QED
    BY <1>a, <2>4, <2>5, <2>6, OrchKeepsGood
<1>7. CASE FinaliseRead(o)
  <2> DEFINE c == [orch[o] EXCEPT !.pc = IF row = NoRow THEN "release" ELSE "stamp", !.task = row]
  <2>1. Good(c.task)
    BY <1>a DEF Copies
  <2> QED
    BY <1>7, <1>a, <2>1, OrchKeepsGood DEF FinaliseRead
<1>8. CASE FinaliseWrite(o)
  <2> DEFINE c == [orch[o] EXCEPT !.pc = "release", !.task = NoRow]
  <2>1. Good(c.task)
    BY <1>a, NoRowGood DEF Copies
  <2>2. Good(row')
    BY <1>8, <1>a, PersistedGood DEF FinaliseWrite, Closing, Copies
  <2> QED
    BY <1>8, <1>a, <2>1, <2>2, OrchKeepsGood DEF FinaliseWrite, Step
<1>9. CASE Resolve(o)
  <2> DEFINE c == [orch[o] EXCEPT !.pc = "begin", !.task = row]
  <2>1. Good(c.task)
    BY <1>a DEF Copies
  <2> QED
    BY <1>9, <1>a, <2>1, OrchKeepsGood DEF Resolve
<1>10. CASE ResolveFails(o)
  <2> DEFINE c == [orch[o] EXCEPT !.pc = "release", !.task = NoRow]
  <2>1. Good(c.task)
    BY <1>a, NoRowGood DEF Copies
  <2> QED
    BY <1>10, <1>a, <2>1, OrchKeepsGood DEF ResolveFails
<1> QED
  BY <1>1, <1>2, <1>3, <1>4, <1>5, <1>6, <1>7, <1>8, <1>9, <1>10 DEF Orchestrate

LEMMA CliGood ==
  ASSUME TypeInv, DoneInv, Issue \/ Carry PROVE DoneInv'
<1>a. cli \in CliType /\ Good(row) /\ Good(cli.task) /\ Good(NoRow) /\ Good(IdleCli.task)
  BY TypeParts, NoRowGood DEF DoneInv, IdleCli
<1>b. \A f, l, s : Run(f, l, s) => Good(cli'.task)
  BY NoRowGood DEF Run
<1>c. Done => Good(cli'.task)
  BY <1>a DEF Done, CliType
<1>1. Good(cli'.task)
  <2>1. CASE Issue
    BY <1>a, <1>b, <2>1
       DEF Issue, Start, Replan, Continue, Discard, Resume, RunDetached, IdleCli
  <2>2. CASE Carry
    BY <1>a, <1>b, <1>c, <2>2
       DEF Carry, DispatchPlanApprove, DispatchClarification, Dispatch,
       RunDetached, PersistStartRow, StampRead, StampWrite, Takeover, TakeoverDrained,
       TakeoverGivesUp, DeleteTask, RemoveDir, Spawn, TakeoverKill, CliType
  <2> QED
    BY <2>1, <2>2
<1>2. Good(row')
  <2>1. CASE DispatchPlanApprove
    BY <1>a, <2>1, PersistedGood DEF DispatchPlanApprove, Closing, CliType
  <2>2. CASE DispatchClarification
    BY <1>a, <2>2, PersistedGood DEF DispatchClarification, CliType, Good
  <2>3. CASE PersistStartRow
    BY <1>a, <2>3, NewBegins, NoRowTyped, StampedGood DEF PersistStartRow, NoRow
  <2>4. CASE ~(DispatchPlanApprove \/ DispatchClarification \/ PersistStartRow)
    BY <1>a, <2>4 DEF Issue, Carry, Start, Replan, Continue, Discard, Resume, Dispatch,
       StampRead, StampWrite, Takeover, TakeoverDrained, TakeoverGivesUp, DeleteTask, RemoveDir,
       Spawn, TakeoverKill, Dies
  <2> QED
    BY <2>1, <2>2, <2>3, <2>4
<1>3. UNCHANGED reaper
  BY DEF Issue, Carry, Start, Replan, Continue, Discard, Resume, DispatchPlanApprove,
     DispatchClarification, Dispatch, PersistStartRow, StampRead, StampWrite, Takeover,
     TakeoverDrained, TakeoverGivesUp, DeleteTask, RemoveDir, Spawn, TakeoverKill
<1>4. \A o \in Orch : Good(orch'[o].task)
  <2>1. ASSUME NEW o \in Orch, Spawn(o) \/ TakeoverKill(o) PROVE DoneInv'
    <3>1. PICK c : orch' = [orch EXCEPT ![o] = c] /\ c.task = NoRow
      <4>1. CASE Spawn(o)
        <5> DEFINE c == [IdleOrch EXCEPT !.pc = "lock", !.todo = cli.todo]
        <5>1. orch' = [orch EXCEPT ![o] = c] /\ c.task = NoRow
          BY <4>1 DEF Spawn, Step, IdleOrch
        <5> QED
          BY <5>1
      <4>2. CASE TakeoverKill(o)
        <5> DEFINE c == [IdleOrch EXCEPT !.pc = "dead"]
        <5>1. orch' = [orch EXCEPT ![o] = c] /\ c.task = NoRow
          BY <4>2 DEF TakeoverKill, Dies, IdleOrch
        <5> QED
          BY <5>1
      <4> QED
        BY <2>1, <4>1, <4>2
    <3> QED
      BY <1>1, <1>2, <1>3, <1>a, <3>1, OrchKeepsGood
  <2>2. CASE ~\E o \in Orch : Spawn(o) \/ TakeoverKill(o)
    <3>1. UNCHANGED orch
      BY <2>2
         DEF Issue, Carry, Start, Replan, Continue, Discard, Resume,
             DispatchPlanApprove,
         DispatchClarification, Dispatch, PersistStartRow, StampRead, StampWrite, Takeover,
         TakeoverDrained, TakeoverGivesUp, DeleteTask, RemoveDir
    <3> QED
      BY <3>1 DEF DoneInv
  <2> QED
    BY <2>1, <2>2 DEF DoneInv
<1> QED
  BY <1>1, <1>2, <1>3, <1>4 DEF DoneInv

LEMMA ReapGood ==
  ASSUME TypeInv, DoneInv, NEW k \in Reaper, Reap(k) PROVE DoneInv'
<1>a. Good(row) /\ Good(NoRow) /\ Good(reaper[k].task) /\ reaper[k].task \in Rows
      /\ Good(IdleReaper.task)
  BY TypeParts, NoRowGood DEF DoneInv, IdleReaper
<1>1. Good(row')
  <2>1. CASE FinalisePlanReap(k)
    <3>1. PICK e \in Closing : ApplyAndPersist(Ended(reaper[k].task, "plan"), e)
      BY <2>1 DEF FinalisePlanReap, PlanReapEvent, Closing
    <3> QED
      BY <1>a, <3>1, EndedTyped, EndedGood, PersistedGood DEF Phases
  <2>2. CASE FinaliseWorkReap(k)
    <3>1. PICK e \in Closing : ApplyAndPersist(Ended(reaper[k].task, "work"), e)
      BY <2>2 DEF FinaliseWorkReap, WorkReapEvent, Closing
    <3> QED
      BY <1>a, <3>1, EndedTyped, EndedGood, PersistedGood DEF Phases
  <2> QED
    BY <1>a, <2>1, <2>2 DEF Reap, ListTasks, ProbeAcquired, ProbeRefused, ReleaseProbe
<1>2. PICK new : Reaped(k, new) /\ Good(new.task)
  BY <1>a, TypeParts DEF Reap, ListTasks, ProbeAcquired, ProbeRefused, ReleaseProbe,
     FinalisePlanReap, FinaliseWorkReap
<1>3. \A q \in Reaper : Good(reaper'[q].task)
  BY <1>2 DEF Reaped, DoneInv, TypeInv, TypeOK
<1>4. UNCHANGED <<orch, cli>>
  BY DEF Reap, ListTasks, ProbeAcquired, ProbeRefused, ReleaseProbe, FinalisePlanReap,
     FinaliseWorkReap
<1> QED
  BY <1>1, <1>3, <1>4 DEF DoneInv

LEMMA DoneStep == TypeInv /\ DoneInv /\ [Next]_vars => DoneInv'
<1> SUFFICES ASSUME TypeInv, DoneInv, [Next]_vars PROVE DoneInv'
  OBVIOUS
<1>1. ASSUME NEW o \in Orch, Capture(o) PROVE DoneInv'
  <2> DEFINE t == [orch[o].task EXCEPT !.sess = @ \cup {Phase(o)}]
             c == [orch[o] EXCEPT !.task = t]
  <2>1. orch[o] \in Copies /\ Good(orch[o].task) /\ Good(cli.task)
    BY TypeParts DEF DoneInv
  <2>2. Good(t) /\ c.task = t
    BY <2>1 DEF Good, Copies, Rows
  <2>3. orch' = [orch EXCEPT ![o] = c] /\ row' = t /\ UNCHANGED <<cli, reaper>>
    BY <1>1 DEF Capture
  <2> QED
    BY <2>1, <2>2, <2>3, OrchKeepsGood
<1>2. ASSUME NEW o \in Orch, Kill(o) PROVE DoneInv'
  <2> DEFINE c == [IdleOrch EXCEPT !.pc = "dead"]
  <2>1. orch' = [orch EXCEPT ![o] = c] /\ c.task = NoRow
    BY <1>2 DEF Kill, Dies, IdleOrch
  <2>2. UNCHANGED <<row, cli, reaper>>
    BY <1>2 DEF Kill, Dies
  <2> QED
    BY <2>1, <2>2, NoRowGood, OrchKeepsGood DEF DoneInv
<1>3. ASSUME NEW a \in orphans, OrphanExits(a) PROVE DoneInv'
  BY <1>3 DEF OrphanExits, DoneInv
<1>4. CASE UNCHANGED vars
  BY <1>4 DEF vars, DoneInv
<1> QED
  BY <1>1, <1>2, <1>3, <1>4, OrchestrateGood, CliGood, ReapGood DEF Next

\* DoneAt "records a successful completion" (apply_persist.go:65-68), whatever
\* stale copies of the row the processes write back, discards and kills included.
THEOREM DoneCorrect == Spec => []DoneMeansCompleted
<1>1. DoneInv => DoneMeansCompleted
  BY DEF DoneInv, Good, DoneMeansCompleted
<1> QED
  BY <1>1, TypeInit, TypeStep, DoneInit, DoneStep, PTL DEF Spec

--------------------------------------------------------------------------------
(* Who works *)

\* Where an orchestrator has the lock.
Holding == {"next", "begin", "agent", "judge", "fix", "finish", "stamp", "release"}

\* The command is not a discard, the one command that takes the lock file away
\* from its holder.
NoDelete(c) == c.step \notin {"delete", "rmdir"} /\ c.next \notin {"delete", "rmdir"}

\* Who works owns the task, from AcquireLock to ReleaseLock.
OwnInv ==
  /\ \A o \in Orch : orch[o].pc \in Holding => owner = o
  /\ NoDelete(cli)

LEMMA OwnInit == Init => OwnInv
BY DEF Init, OwnInv, IdleOrch, IdleCli, Holding, NoDelete

LEMMA CliNoDelete ==
  ASSUME cli \in CliType, NoDelete(cli)
  PROVE  /\ Done => NoDelete(cli')
         /\ NoDelete(IdleCli)
         /\ \A f, l \in Steps \ {"delete", "rmdir"} : \A s : Run(f, l, s) => NoDelete(cli')
         /\ \A st \in Steps \ {"delete", "rmdir"} : \A t :
              /\ NoDelete([cli EXCEPT !.step = st])
              /\ NoDelete([cli EXCEPT !.step = st, !.task = t])
              /\ NoDelete([IdleCli EXCEPT !.step = st, !.task = t])
<1>1. NoDelete(IdleCli)
  BY DEF NoDelete, IdleCli
<1>2. ASSUME Done PROVE NoDelete(cli')
  <2>1. CASE cli.next = "none"
    BY <1>1, <1>2, <2>1 DEF Done
  <2>2. CASE cli.next # "none"
    BY <1>2, <2>2 DEF Done, NoDelete, CliType
  <2> QED
    BY <2>1, <2>2
<1>3. ASSUME NEW st \in Steps \ {"delete", "rmdir"}, NEW t
      PROVE  /\ NoDelete([cli EXCEPT !.step = st]) /\ NoDelete([cli EXCEPT !.step = st, !.task = t])
             /\ NoDelete([IdleCli EXCEPT !.step = st, !.task = t])
  BY <1>3 DEF NoDelete, IdleCli, CliType
<1>4. ASSUME NEW f \in Steps \ {"delete", "rmdir"}, NEW l \in Steps \ {"delete", "rmdir"}, NEW s,
             Run(f, l, s)
      PROVE  NoDelete(cli')
  BY <1>4 DEF Run, NoDelete
<1> QED
  BY <1>1, <1>2, <1>3, <1>4

\* A step of one orchestrator that leaves it in the record c.
LEMMA OwnStep ==
  ASSUME TypeInv, OwnInv, NEW o \in Orch, NEW c, orch' = [orch EXCEPT ![o] = c],
         c.pc \in Holding => owner' = o,
         owner' = owner \/ owner \in {o, Nobody},
         cli' = cli \/ Done \/ cli' = IdleCli
  PROVE  OwnInv'
<1>1. \A q \in Orch : orch'[q] = IF q = o THEN c ELSE orch[q]
  BY DEF TypeInv, TypeOK
<1>2. NoDelete(cli')
  BY TypeParts, CliNoDelete DEF OwnInv
<1>3. \A q \in Orch : orch'[q].pc \in Holding => owner' = q
  BY <1>1, LifecycleAssumption DEF OwnInv
<1> QED
  BY <1>2, <1>3 DEF OwnInv

LEMMA OrchestrateOwns ==
  ASSUME TypeInv, OwnInv, NEW o \in Orch, Orchestrate(o) PROVE OwnInv'
<1>a. orch[o] \in Copies /\ IdleOrch.pc = "idle" /\ (orch[o].pc \in Holding => owner = o)
  BY TypeParts DEF IdleOrch, OwnInv
<1>1. CASE AcquireLock(o)
  BY <1>1, OwnStep DEF AcquireLock, Step, Lock!Acquire
<1>2. CASE Contended(o) \/ ReleaseLock(o)
  <2> DEFINE c == [IdleOrch EXCEPT !.pc = "done"]
  <2>1. c.pc \notin Holding
    BY DEF IdleOrch, Holding
  <2>2. orch' = [orch EXCEPT ![o] = c] /\ UNCHANGED cli
    BY <1>2 DEF Contended, ReleaseLock, Step
  <2>3. owner' = owner \/ owner = o
    BY <1>2 DEF Contended, ReleaseLock
  <2> QED
    BY <2>1, <2>2, <2>3, OwnStep
<1>3. CASE BeginPlanResume(o) /\ ~Legal(orch[o].task.status, "PlanResume")
  <2> DEFINE c == [IdleOrch EXCEPT !.pc = "panic"]
  <2>1. c.pc \notin Holding
    BY DEF IdleOrch, Holding
  <2>2. orch' = [orch EXCEPT ![o] = c] /\ UNCHANGED cli /\ (owner' = owner \/ owner = o)
    BY <1>3 DEF BeginPlanResume
  <2> QED
    BY <2>1, <2>2, OwnStep
<1>4. CASE \/ Resolve(o) \/ ResolveFails(o) \/ VerifyGuard(o) \/ AgentExits(o) \/ AgentFails(o) \/ Judge(o)
           \/ FixExits(o) \/ Finish(o) \/ FinaliseRead(o) \/ FinaliseWrite(o)
  <2>1. orch[o].pc \in Holding /\ UNCHANGED <<owner, cli>>
    BY <1>4
       DEF Resolve, ResolveFails, VerifyGuard, AtPhase, AgentExits, AgentFails, Judge, FixExits,
       Finish, FinaliseRead, FinaliseWrite, Step, Holding
  <2>2. PICK c : orch' = [orch EXCEPT ![o] = c]
    BY <1>4
       DEF Resolve, ResolveFails, VerifyGuard, AtPhase, AgentExits, AgentFails, Judge, FixExits,
       Finish, FinaliseRead, FinaliseWrite, Step
  <2> QED
    BY <1>a, <2>1, <2>2, OwnStep
<1>5. CASE \/ BeginPlan(o) \/ BeginWork(o) \/ BeginVerify(o)
           \/ BeginPlanResume(o) /\ Legal(orch[o].task.status, "PlanResume")
  <2>1. PICK t, n : StartAgent(o, t, n)
    BY <1>5 DEF BeginPlanResume, BeginPlan, BeginWork, BeginVerify
  <2>2. orch[o].pc \in Holding
    BY <1>5 DEF BeginPlanResume, BeginPlan, BeginWork, BeginVerify, AtBegin, Holding
  <2> DEFINE c == [orch[o] EXCEPT !.pc = "agent", !.task = t, !.turn = n]
  <2>3. orch' = [orch EXCEPT ![o] = c] /\ UNCHANGED <<owner, cli>>
    BY <2>1 DEF StartAgent
  <2> QED
    BY <1>a, <2>2, <2>3, OwnStep
<1> QED
  BY <1>1, <1>2, <1>3, <1>4, <1>5 DEF Orchestrate

LEMMA DiesOwns ==
  ASSUME TypeInv, OwnInv, NEW o \in Orch, Dies(o), UNCHANGED cli PROVE OwnInv'
<1> DEFINE c == [IdleOrch EXCEPT !.pc = "dead"]
<1>1. c.pc \notin Holding
  BY DEF IdleOrch, Holding
<1>2. orch' = [orch EXCEPT ![o] = c] /\ (owner' = owner \/ owner = o)
  BY DEF Dies
<1> QED
  BY <1>1, <1>2, OwnStep

LEMMA CliOwns ==
  ASSUME TypeInv, OwnInv, "discard" \notin Commands, Issue \/ Carry PROVE OwnInv'
<1>a. cli \in CliType /\ NoDelete(cli)
  BY TypeParts DEF OwnInv
<1>1. ASSUME NEW o \in Orch, Spawn(o) PROVE OwnInv'
  <2> DEFINE c == [IdleOrch EXCEPT !.pc = "lock", !.todo = cli.todo]
  <2>1. c.pc \notin Holding
    BY DEF IdleOrch, Holding
  <2> QED
    BY <1>1, <2>1, OwnStep DEF Spawn, Step
<1>2. ASSUME NEW o \in Orch, TakeoverKill(o) PROVE OwnInv'
  BY <1>2, DiesOwns DEF TakeoverKill
<1>3. CASE Issue
  <2>1. ~Discard
    BY DEF Discard, Command
  <2>2. UNCHANGED <<orch, owner>>
    BY <1>3, <2>1 DEF Issue, Start, Replan, Continue, Resume
  <2>3. NoDelete(cli')
    <3>0. "dispatch" \in Steps \ {"delete", "rmdir"}
      BY DEF Steps
    <3>1. CASE Start
      BY <1>a, <3>1, CliNoDelete DEF Start, RunDetached, Steps
    <3>2. CASE Replan
      BY <1>a, <3>2, CliNoDelete DEF Replan, RunDetached, Steps
    <3>3. CASE Continue
      BY <1>a, <3>0, <3>3, CliNoDelete DEF Continue
    <3>4. ASSUME NEW p \in Phases, Resume(p) PROVE NoDelete(cli')
      BY <1>a, <3>4, CliNoDelete DEF Resume, Steps
    <3> QED
      BY <1>3, <2>1, <3>1, <3>2, <3>3, <3>4 DEF Issue
  <2> QED
    BY <2>2, <2>3 DEF OwnInv
<1>4. CASE Carry /\ ~\E o \in Orch : Spawn(o) \/ TakeoverKill(o)
  <2>1. ~DeleteTask /\ ~RemoveDir
    BY DEF DeleteTask, RemoveDir, At, OwnInv, NoDelete
  <2>2. UNCHANGED <<orch, owner>>
    BY <1>4, <2>1 DEF Carry, DispatchPlanApprove, DispatchClarification, Dispatch,
       PersistStartRow, StampRead, StampWrite, Takeover, TakeoverDrained, TakeoverGivesUp
  <2>3. NoDelete(cli')
    <3>0. {"stampw", "wait"} \subseteq Steps \ {"delete", "rmdir"}
      BY DEF Steps
    <3>1. CASE DispatchPlanApprove
      BY <1>a, <3>1, CliNoDelete DEF DispatchPlanApprove, RunDetached, Steps
    <3>2. CASE DispatchClarification
      BY <1>a, <3>2, CliNoDelete DEF DispatchClarification, Steps
    <3>3. CASE Dispatch
      BY <1>a, <3>3, CliNoDelete DEF Dispatch, RunDetached, Steps
    <3>4. CASE StampRead
      <4>1. NoDelete([cli EXCEPT !.step = "stampw", !.task = row])
        BY <1>a, <3>0, CliNoDelete
      <4> QED
        BY <1>a, <3>4, <4>1, CliNoDelete DEF StampRead
    <3>5. CASE Takeover
      BY <1>a, <3>0, <3>5, CliNoDelete DEF Takeover
    <3>6. CASE PersistStartRow \/ StampWrite \/ TakeoverDrained \/ TakeoverGivesUp
      BY <1>a, <3>6, CliNoDelete
         DEF PersistStartRow, StampWrite, TakeoverDrained, TakeoverGivesUp
    <3> QED
      BY <1>4, <2>1, <3>1, <3>2, <3>3, <3>4, <3>5, <3>6 DEF Carry
  <2> QED
    BY <2>2, <2>3 DEF OwnInv
<1> QED
  BY <1>1, <1>2, <1>3, <1>4

LEMMA ReapOwns ==
  ASSUME TypeInv, OwnInv, NEW k \in Reaper, Reap(k) PROVE OwnInv'
<1>1. UNCHANGED <<orch, cli>>
  BY DEF Reap, ListTasks, ProbeAcquired, ProbeRefused, ReleaseProbe, FinalisePlanReap,
     FinaliseWorkReap
<1>2. owner' = owner \/ owner \in {k, Nobody}
  BY DEF Reap, ListTasks, ProbeAcquired, ProbeRefused, ReleaseProbe, FinalisePlanReap,
     FinaliseWorkReap, Lock!Acquire
<1> QED
  BY <1>1, <1>2, LifecycleAssumption DEF OwnInv

LEMMA OwnNext ==
  "discard" \notin Commands /\ TypeInv /\ OwnInv /\ [Next]_vars => OwnInv'
<1> SUFFICES ASSUME "discard" \notin Commands, TypeInv, OwnInv, [Next]_vars PROVE OwnInv'
  OBVIOUS
<1>1. ASSUME NEW o \in Orch, Capture(o) PROVE OwnInv'
  <2> DEFINE t == [orch[o].task EXCEPT !.sess = @ \cup {Phase(o)}]
             c == [orch[o] EXCEPT !.task = t]
  <2>1. orch' = [orch EXCEPT ![o] = c] /\ UNCHANGED <<owner, cli>> /\ orch[o].pc = "agent"
    BY <1>1 DEF Capture
  <2> QED
    BY <2>1, OwnStep DEF OwnInv, Holding
<1>2. ASSUME NEW o \in Orch, Kill(o) PROVE OwnInv'
  BY <1>2, DiesOwns DEF Kill
<1>3. ASSUME NEW a \in orphans, OrphanExits(a) PROVE OwnInv'
  BY <1>3 DEF OrphanExits, OwnInv
<1>4. CASE UNCHANGED vars
  BY <1>4 DEF vars, OwnInv
<1> QED
  BY <1>1, <1>2, <1>3, <1>4, OrchestrateOwns, CliOwns, ReapOwns DEF Next

\* An agent outlives its orchestrator only when that one is killed, and each one
\* leaves at most one behind.
OrphanInv ==
  /\ \A a \in orphans : orch[a[1]].pc = "dead"
  /\ \A a, b \in orphans : a[1] = b[1] => a = b

LEMMA OrphanInit == Init => OrphanInv
BY DEF Init, OrphanInv

LEMMA AgentIs ==
  ASSUME NEW o, NEW a \in Agent(o)
  PROVE  a[1] = o /\ orch[o].pc \in {"agent", "fix"} /\ \A b \in Agent(o) : b = a
BY DEF Agent

\* A step of an orchestrator that was not dead, or of none.
LEMMA OrphansKept ==
  ASSUME TypeInv, OrphanInv, NEW o \in Orch, NEW c, orch[o].pc # "dead",
         orch' = [orch EXCEPT ![o] = c], UNCHANGED orphans
  PROVE  OrphanInv'
<1>1. \A q \in Orch : orch'[q] = IF q = o THEN c ELSE orch[q]
  BY DEF TypeInv, TypeOK
<1>2. \A a \in orphans : a[1] \in Orch
  BY DEF TypeInv, TypeOK
<1> QED
  BY <1>1, <1>2 DEF OrphanInv

LEMMA DiesOrphans ==
  ASSUME TypeInv, OrphanInv, NEW o \in Orch, Dies(o) PROVE OrphanInv'
<1>1. /\ orch' = [orch EXCEPT ![o] = [IdleOrch EXCEPT !.pc = "dead"]]
      /\ orphans' = orphans \cup Agent(o)
  BY DEF Dies
<1>2. \A q \in Orch : orch'[q] = IF q = o THEN [IdleOrch EXCEPT !.pc = "dead"] ELSE orch[q]
  BY <1>1 DEF TypeInv, TypeOK
<1>3. orch'[o].pc = "dead"
  BY <1>2 DEF IdleOrch
<1>4. \A a \in orphans : a[1] \in Orch
  BY DEF TypeInv, TypeOK
<1>5. \A a \in orphans, b \in Agent(o) : a[1] # b[1]
  BY AgentIs DEF OrphanInv
<1>6. \A a \in orphans' : orch'[a[1]].pc = "dead"
  BY <1>1, <1>2, <1>3, <1>4, AgentIs DEF OrphanInv
<1>7. \A a, b \in orphans' : a[1] = b[1] => a = b
  BY <1>1, <1>5, AgentIs DEF OrphanInv
<1> QED
  BY <1>6, <1>7 DEF OrphanInv

LEMMA OrchestrateOrphans ==
  ASSUME TypeInv, OrphanInv, NEW o \in Orch, Orchestrate(o) PROVE OrphanInv'
<1>1. CASE AcquireLock(o) \/ Contended(o) \/ ReleaseLock(o) \/ FinaliseWrite(o)
  BY <1>1, OrphansKept DEF AcquireLock, Contended, ReleaseLock, FinaliseWrite, Step
<1>2. CASE \/ Resolve(o) \/ ResolveFails(o) \/ VerifyGuard(o) \/ AgentExits(o) \/ AgentFails(o)
           \/ Judge(o) \/ FixExits(o) \/ Finish(o) \/ FinaliseRead(o)
  <2>1. orch[o].pc # "dead" /\ UNCHANGED orphans
    BY <1>2
       DEF Resolve, ResolveFails, VerifyGuard, AtPhase, AgentExits, AgentFails, Judge, FixExits,
           Finish, FinaliseRead
  <2>2. PICK c : orch' = [orch EXCEPT ![o] = c]
    BY <1>2
       DEF Resolve, ResolveFails, VerifyGuard, AtPhase, AgentExits, AgentFails, Judge, FixExits,
           Finish, FinaliseRead
  <2> QED
    BY <2>1, <2>2, OrphansKept
<1>3. CASE BeginPlanResume(o) \/ BeginPlan(o) \/ BeginWork(o) \/ BeginVerify(o)
  <2>1. orch[o].pc # "dead" /\ UNCHANGED orphans
    BY <1>3 DEF BeginPlanResume, BeginPlan, BeginWork, BeginVerify, AtBegin, StartAgent
  <2>2. \/ \E t, n : StartAgent(o, t, n)
        \/ orch' = [orch EXCEPT ![o] = [IdleOrch EXCEPT !.pc = "panic"]]
    BY <1>3 DEF BeginPlanResume, BeginPlan, BeginWork, BeginVerify
  <2>3. PICK c : orch' = [orch EXCEPT ![o] = c]
    BY <2>2 DEF StartAgent
  <2> QED
    BY <2>1, <2>3, OrphansKept
<1> QED
  BY <1>1, <1>2, <1>3 DEF Orchestrate

LEMMA OrphansStill ==
  ASSUME OrphanInv, UNCHANGED orch, orphans' \subseteq orphans PROVE OrphanInv'
BY DEF OrphanInv

LEMMA CliOrphans ==
  ASSUME TypeInv, OrphanInv, Issue \/ Carry PROVE OrphanInv'
<1>1. ASSUME NEW o \in Orch, Spawn(o) PROVE OrphanInv'
  BY <1>1, OrphansKept DEF Spawn, Step
<1>2. ASSUME NEW o \in Orch, TakeoverKill(o) PROVE OrphanInv'
  BY <1>2, DiesOrphans DEF TakeoverKill
<1>3. CASE ~\E o \in Orch : Spawn(o) \/ TakeoverKill(o)
  <2>1. UNCHANGED <<orch, orphans>>
    BY <1>3
       DEF Issue, Carry, Start, Replan, Continue, Discard, Resume, DispatchPlanApprove,
           DispatchClarification, Dispatch, PersistStartRow, StampRead, StampWrite, Takeover,
           TakeoverDrained, TakeoverGivesUp, DeleteTask, RemoveDir
  <2> QED
    BY <2>1, OrphansStill
<1> QED
  BY <1>1, <1>2, <1>3

LEMMA OrphanStep == TypeInv /\ OrphanInv /\ [Next]_vars => OrphanInv'
<1> SUFFICES ASSUME TypeInv, OrphanInv, [Next]_vars PROVE OrphanInv'
  OBVIOUS
<1>1. ASSUME NEW o \in Orch, Capture(o) PROVE OrphanInv'
  BY <1>1, OrphansKept DEF Capture
<1>2. ASSUME NEW o \in Orch, Kill(o) PROVE OrphanInv'
  BY <1>2, DiesOrphans DEF Kill
<1>3. ASSUME NEW a \in orphans, OrphanExits(a) PROVE OrphanInv'
  BY <1>3, OrphansStill DEF OrphanExits
<1>4. ASSUME NEW k \in Reaper, Reap(k) PROVE OrphanInv'
  BY <1>4, OrphansStill
     DEF Reap, ListTasks, ProbeAcquired, ProbeRefused, ReleaseProbe, FinalisePlanReap,
         FinaliseWorkReap
<1>5. CASE UNCHANGED vars
  BY <1>5, OrphansStill DEF vars
<1> QED
  BY <1>1, <1>2, <1>3, <1>4, <1>5, OrchestrateOrphans, CliOrphans DEF Next

\* The agents of live orchestrators are the owner's one; the others map to
\* distinct dead orchestrators.
LEMMA Bounded ==
  ASSUME IsFiniteSet(Orch), TypeInv, OwnInv, OrphanInv PROVE AgentsBounded
<1> DEFINE Live == UNION {Agent(o) : o \in Orch}
           Dead == {o \in Orch : orch[o].pc = "dead"}
           f == [a \in orphans |-> a[1]]
<1>1. IsFiniteSet(Live) /\ Cardinality(Live) <= 1
  <2>1. CASE Live = {}
    BY <2>1, FS_EmptySet
  <2>2. CASE Live # {}
    <3>1. PICK o \in Orch : Agent(o) # {}
      BY <2>2
    <3>2. PICK a : a \in Agent(o)
      BY <3>1
    <3>3. \A q \in Orch : Agent(q) # {} => q = o
      BY <3>2, AgentIs DEF OwnInv, Holding
    <3>4. Live = {a}
      BY <3>2, <3>3, AgentIs
    <3> QED
      BY <3>4, FS_Singleton
  <2> QED
    BY <2>1, <2>2
<1>2. IsFiniteSet(Dead)
  BY FS_Subset
<1>3. f \in [orphans -> Dead]
  BY DEF TypeInv, TypeOK, OrphanInv
<1>4. \A a, b \in orphans : f[a] = f[b] => a = b
  BY DEF OrphanInv
<1>5. IsFiniteSet(orphans) /\ Cardinality(orphans) <= Cardinality(Dead)
  <2>1. f \in Injection(orphans, Dead)
    BY <1>3, <1>4 DEF Injection, IsInjective
  <2> QED
    BY <1>2, <2>1, FS_Injection
<1>6. Cardinality(orphans \cup Live) =
        Cardinality(orphans) + Cardinality(Live) - Cardinality(orphans \cap Live)
  BY <1>1, <1>5, FS_Union
<1>7. IsFiniteSet(orphans \cap Live)
  BY <1>1, FS_Subset
<1>8. /\ Cardinality(orphans) \in Nat /\ Cardinality(Live) \in Nat /\ Cardinality(Dead) \in Nat
      /\ Cardinality(orphans \cap Live) \in Nat
  BY <1>1, <1>2, <1>5, <1>7, FS_CardinalityType
<1>9. Cardinality(orphans \cup Live) <= 1 + Cardinality(Dead)
  BY <1>1, <1>5, <1>6, <1>8
<1> QED
  BY <1>9 DEF AgentsBounded, Agents

\* The agents at work on a task that is not discarded, orphans included, are at
\* most one more than the orchestrators that were killed, through contention,
\* takeovers (SIGTERM, then SIGKILL), kills and the reapers' probes (lock.go,
\* takeover.go).  With a discard it does not hold: RemoveDir unlinks the lock file.
THEOREM AgentsBoundedCorrect ==
  ASSUME "discard" \notin Commands, IsFiniteSet(Orch) PROVE Spec => []AgentsBounded
<1>1. TypeInv /\ OwnInv /\ [Next]_vars => OwnInv'
  BY OwnNext
<1>2. TypeInv /\ OwnInv /\ OrphanInv => AgentsBounded
  BY Bounded
<1> QED
  BY <1>1, <1>2, TypeInit, TypeStep, OwnInit, OrphanInit, OrphanStep, PTL DEF Spec
================================================================================
