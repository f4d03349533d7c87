----------------------------- MODULE TaskRowProofs -----------------------------
(***************************************************************************)
(* More theorems about TaskLifecycle: what the row says to `continue`.     *)
(*   ResumableCorrect  a row that asks for help names a phase to resume,   *)
(*                     for every set of commands and any processes         *)
(***************************************************************************)
EXTENDS TaskLifecycleProofs

InFlight == {"planning", "working", "verifying"}

Asks == {"needs-clarification", "help"}

\* The events that begin a phase, and where they lead.
Beginning == {"PlanRestart", "PlanResume", "WorkRestart", "WorkResume", "VerifyBegin",
              "VerifyResume"}

LEMMA BeginningLeads ==
  ASSUME NEW s, NEW e \in Beginning, Legal(s, e)
  PROVE  Apply(s, e) \in InFlight
<1>1. \A t \in transitions : t.Event \in Beginning => t.To \in InFlight
  BY DEF transitions, Edges, Restartable, New, Beginning, InFlight
<1> QED
  BY <1>1, ApplyEdge

\* A legal event moves a copy along an edge of the table.
LEMMA StampedEdge ==
  ASSUME NEW t \in Rows, NEW e, Legal(t.status, e)
  PROVE  /\ Stamped(t, e) \in Rows /\ Stamped(t, e).status = Apply(t.status, e)
         /\ Stamped(t, e).sess = t.sess /\ Stamped(t, e).ended = t.ended
         /\ \E x \in transitions : x.From = t.status /\ x.To = Apply(t.status, e)
<1>1. Stamped(t, e) \in Rows
  BY StampedTyped
<1> QED
  BY <1>1, ApplyEdge DEF Stamped, Rows

--------------------------------------------------------------------------------
(* The phase that ended last *)

\* The phase that has just ended is the latest, whatever ended before.
LEMMA EndedIsLatest ==
  ASSUME NEW t \in Rows, NEW p \in Phases
  PROVE  latestPhase(Ended(t, p)) = p
<1> DEFINE rest == {e \in t.ended : e[1] # p /\ e[2] # p}
           all == rest \cup {<<p, p>>} \cup {<<e[1], p>> : e \in rest}
           last == {q \in Phases : <<q, q>> \in all /\ \A e \in all : <<e[1], q>> \in all}
<1>1. Cleared(t, p) = [t EXCEPT !.ended = rest]
  BY DEF Cleared
<1>2. Cleared(t, p).ended = rest
  BY <1>1 DEF Rows
<1>3. Ended(t, p).ended = all
  BY <1>1, <1>2 DEF Ended, Rows
<1>4. p \in last
  <2>1. \A e \in all : <<e[1], p>> \in all
    OBVIOUS
  <2> QED
    BY <2>1
<1>5. \A q \in last : q = p
  <2> SUFFICES ASSUME NEW q \in last, q # p PROVE FALSE
    OBVIOUS
  <2>1. <<p, q>> \in all
    <3>1. <<p, p>>[1] = p
      OBVIOUS
    <3> QED
      BY <3>1
  <2> QED
    BY <2>1
<1>6. last = {p}
  BY <1>4, <1>5
<1> QED
  BY <1>3, <1>6 DEF latestPhase

\* A session is enough for a phase to resume.
LEMMA SessionResumable ==
  ASSUME NEW t \in Rows, t.sess # {} PROVE latestPhase(t) # "none"
<1>1. \A S : (\A q \in S : q \in Phases) /\ S # {} => (CHOOSE q : q \in S) \in Phases
  OBVIOUS
<1>2. \A q \in Phases : q # "none"
  BY DEF Phases
<1>3. t.sess \subseteq Phases
  BY DEF Rows
<1> QED
  BY <1>1, <1>2, <1>3 DEF latestPhase, Phases

LEMMA SamePhases ==
  ASSUME NEW t, NEW u, t.ended = u.ended, t.sess = u.sess
  PROVE  latestPhase(t) = latestPhase(u)
BY DEF latestPhase

--------------------------------------------------------------------------------
(* What the steps that write the row do to it *)

\* u is what becomes of the copy c of the row when a phase begins with it: it
\* keeps its sessions, and either it is in flight and on disk, or (the event was
\* illegal) the disk keeps what it had, and u the status.
Begun(c, u) ==
  /\ u \in Rows /\ c.sess \subseteq u.sess
  /\ \/ row' = row /\ u.status = c.status
     \/ /\ row' = u /\ u.status \in InFlight
        /\ u.status = c.status \/ \E x \in transitions : x.From = c.status /\ x.To = u.status

\* The step of a Begin that applies e to t, made from the copy c.
LEMMA BegunBy ==
  ASSUME NEW c, NEW t \in Rows, NEW e \in Beginning, t.status = c.status,
         c.sess \subseteq t.sess, ApplyAndPersist(t, e)
  PROVE  Begun(c, Applied(t, e))
<1>1. CASE Legal(t.status, e)
  <2>1. Applied(t, e) = Stamped(t, e) /\ row' = Stamped(t, e)
    BY <1>1 DEF Applied, ApplyAndPersist
  <2> QED
    BY <1>1, <2>1, StampedEdge, BeginningLeads DEF Begun
<1>2. CASE ~Legal(t.status, e)
  BY <1>2 DEF Applied, ApplyAndPersist, Begun
<1> QED
  BY <1>1, <1>2

\* A row that waits for an answer no longer does when the event is legal there.
LEMMA BegunAnswers ==
  ASSUME NEW t \in Rows, NEW e \in Beginning, ApplyAndPersist(t, e),
         row.status = "needs-clarification" => Legal(t.status, e)
  PROVE  row'.status # "needs-clarification"
<1>1. CASE Legal(t.status, e)
  <2>1. row' = Stamped(t, e) /\ Stamped(t, e).status = Apply(t.status, e)
    BY <1>1, StampedEdge DEF ApplyAndPersist
  <2>2. Apply(t.status, e) \in InFlight
    BY <1>1, BeginningLeads
  <2> QED
    BY <2>1, <2>2 DEF InFlight
<1>2. CASE ~Legal(t.status, e)
  BY <1>2 DEF ApplyAndPersist
<1> QED
  BY <1>1, <1>2

LEMMA ResumeAnswers ==
  \A e \in {"WorkResume", "VerifyResume"} : Legal("needs-clarification", e)
<1> DEFINE w == [From |-> "needs-clarification", Event |-> "WorkResume", To |-> "working"]
           v == [From |-> "needs-clarification", Event |-> "VerifyResume", To |-> "verifying"]
<1>1. /\ w \in Edges({"working", "needs-clarification"} \cup Restartable, "working", {"WorkResume"})
      /\ v \in Edges({"plan-done", "verifying", "needs-clarification"} \cup Restartable,
                     "verifying", {"VerifyResume"})
  BY DEF Edges
<1>2. w \in transitions /\ v \in transitions
  BY <1>1 DEF transitions
<1> QED
  BY <1>2, LegalEdge

LEMMA PlanBegun ==
  ASSUME TypeInv, NEW o \in Orch, BeginPlan(o)
  PROVE  \E u : /\ Begun(orch[o].task, u) /\ StartAgent(o, u, 0)
                /\ orch[o].task.status = "planning" =>
                     u.ended = orch[o].task.ended /\ u.status = orch[o].task.status
<1>1. orch[o].task \in Rows
  BY TypeParts DEF Copies
<1>2. PICK id \in {{}, {"plan"}} :
        LET existing == [orch[o].task EXCEPT !.sess = @ \cup id]
            restart  == [Cleared(existing, "plan") EXCEPT !.done = FALSE]
        IN  IF orch[o].task.status = "planning"
              THEN row' = existing /\ StartAgent(o, existing, 0)
              ELSE /\ ApplyAndPersist(restart, "PlanRestart")
                   /\ StartAgent(o, Applied(restart, "PlanRestart"), 0)
  BY DEF BeginPlan
<1> DEFINE existing == [orch[o].task EXCEPT !.sess = @ \cup id]
           restart  == [Cleared(existing, "plan") EXCEPT !.done = FALSE]
<1>3. /\ existing \in Rows /\ existing.status = orch[o].task.status /\ orch[o].task.sess \subseteq existing.sess
      /\ restart \in Rows /\ restart.status = orch[o].task.status /\ orch[o].task.sess \subseteq restart.sess
      /\ existing.ended = orch[o].task.ended
  BY <1>1 DEF Rows, Phases, Cleared
<1>4. CASE orch[o].task.status = "planning"
  <2>1. Begun(orch[o].task, existing)
    BY <1>2, <1>3, <1>4 DEF Begun, InFlight
  <2> QED
    BY <1>2, <1>3, <1>4, <2>1
<1>5. CASE orch[o].task.status # "planning"
  <2>1. Begun(orch[o].task, Applied(restart, "PlanRestart"))
    BY <1>1, <1>2, <1>3, <1>5, BegunBy DEF Beginning
  <2> QED
    BY <1>2, <1>5, <2>1
<1> QED
  BY <1>4, <1>5

LEMMA PlanResumed ==
  ASSUME TypeInv, NEW o \in Orch, BeginPlanResume(o), Legal(orch[o].task.status, "PlanResume")
  PROVE  (\E u : Begun(orch[o].task, u) /\ StartAgent(o, u, 0)) /\ row'.status # "needs-clarification"
<1> DEFINE t == [Cleared(orch[o].task, "plan") EXCEPT !.done = FALSE]
<1>1. orch[o].task \in Rows
  BY TypeParts DEF Copies
<1>2. t \in Rows /\ t.status = orch[o].task.status /\ orch[o].task.sess \subseteq t.sess
  BY <1>1 DEF Rows, Cleared
<1>3. row' = Stamped(t, "PlanResume") /\ StartAgent(o, Stamped(t, "PlanResume"), 0)
  BY DEF BeginPlanResume
<1>4. ApplyAndPersist(t, "PlanResume") /\ Applied(t, "PlanResume") = Stamped(t, "PlanResume")
  BY <1>2, <1>3 DEF ApplyAndPersist, Applied
<1>5. row'.status # "needs-clarification"
  <2>1. Legal(t.status, "PlanResume") /\ "PlanResume" \in Beginning
    BY <1>2 DEF Beginning
  <2> HIDE DEF t
  <2> QED
    BY <1>2, <1>4, <2>1, BegunAnswers
<1> QED
  BY <1>1, <1>2, <1>3, <1>4, <1>5, BegunBy DEF Beginning

\* The work phase keeps the end times of the others in its copy.
LEMMA WorkBegun ==
  ASSUME TypeInv, NEW o \in Orch, BeginWork(o)
  PROVE  /\ \E u : /\ Begun(orch[o].task, u) /\ StartAgent(o, u, 0)
                   /\ u.ended = {e \in orch[o].task.ended : e[1] # "work" /\ e[2] # "work"}
         /\ orch[o].task = row /\ "work" \in row.sess => row'.status # "needs-clarification"
<1> DEFINE e == IF "work" \in orch[o].task.sess THEN "WorkResume" ELSE "WorkRestart"
<1>1. orch[o].task \in Rows
  BY TypeParts DEF Copies
<1>2. PICK id \in {{}, {"work"}} :
        LET t == [Cleared(orch[o].task, "work") EXCEPT !.done = FALSE, !.worked = TRUE,
                                              !.sess = @ \cup id]
        IN  ApplyAndPersist(t, e) /\ StartAgent(o, Applied(t, e), 0)
  BY DEF BeginWork
<1> DEFINE t == [Cleared(orch[o].task, "work") EXCEPT !.done = FALSE, !.worked = TRUE,
                                             !.sess = @ \cup id]
<1>3. /\ t \in Rows /\ t.status = orch[o].task.status /\ orch[o].task.sess \subseteq t.sess
      /\ t.ended = {x \in orch[o].task.ended : x[1] # "work" /\ x[2] # "work"}
  BY <1>1 DEF Rows, Phases, Cleared
<1>4. Begun(orch[o].task, Applied(t, e))
  BY <1>1, <1>2, <1>3, BegunBy DEF Beginning
<1>5. Applied(t, e).ended = t.ended
  BY <1>3, StampedEdge DEF Applied
<1>6. ASSUME orch[o].task = row, "work" \in row.sess PROVE row'.status # "needs-clarification"
  <2>1. e = "WorkResume" /\ e \in Beginning
    BY <1>6 DEF Beginning
  <2>2. row.status = "needs-clarification" => Legal(t.status, e)
    BY <1>3, <1>6, <2>1, ResumeAnswers
  <2>3. ApplyAndPersist(t, e)
    BY <1>2
  <2> HIDE DEF t, e
  <2> QED
    BY <1>3, <2>1, <2>2, <2>3, BegunAnswers
<1> QED
  BY <1>2, <1>3, <1>4, <1>5, <1>6

\* A verifier never begins on a row that waits for an answer, unless the event
\* that begins it is illegal: then there was no session.
LEMMA VerifyBegun ==
  ASSUME TypeInv, NEW o \in Orch, BeginVerify(o)
  PROVE  /\ \E u : \E n \in 0..MaxIterations : Begun(orch[o].task, u) /\ StartAgent(o, u, n)
         /\ /\ orch[o].task = row
            /\ "verify" \in row.sess \/ row.status # "needs-clarification"
            => row'.status # "needs-clarification"
<1> DEFINE e == IF "verify" \in orch[o].task.sess THEN "VerifyResume" ELSE "VerifyBegin"
           n == IF "verify" \in orch[o].task.sess THEN MaxIterations ELSE 1
<1>1. orch[o].task \in Rows /\ n \in 0..MaxIterations
  BY TypeParts, LifecycleAssumption DEF Copies
<1>2. PICK id \in {{}, {"verify"}} :
        LET t == [Cleared(orch[o].task, "verify") EXCEPT !.done = FALSE, !.sess = @ \cup id]
        IN  ApplyAndPersist(t, e) /\ StartAgent(o, Applied(t, e), n)
  BY DEF BeginVerify
<1> DEFINE t == [Cleared(orch[o].task, "verify") EXCEPT !.done = FALSE, !.sess = @ \cup id]
<1>3. t \in Rows /\ t.status = orch[o].task.status /\ orch[o].task.sess \subseteq t.sess
  BY <1>1 DEF Rows, Phases, Cleared
<1>4. Begun(orch[o].task, Applied(t, e))
  BY <1>1, <1>2, <1>3, BegunBy DEF Beginning
<1>5. ASSUME orch[o].task = row, "verify" \in row.sess \/ row.status # "needs-clarification"
      PROVE  row'.status # "needs-clarification"
  <2>1. row.status = "needs-clarification" => Legal(t.status, e)
    BY <1>3, <1>5, ResumeAnswers
  <2>2. e \in Beginning
    BY DEF Beginning
  <2>3. ApplyAndPersist(t, e)
    BY <1>2
  <2> HIDE DEF t, e
  <2> QED
    BY <1>3, <2>1, <2>2, <2>3, BegunAnswers
<1> QED
  BY <1>1, <1>2, <1>4, <1>5

--------------------------------------------------------------------------------
(* What asks for help can be resumed *)

Helped(t) == t.status \in Asks => latestPhase(t) # "none"

\* The copies that are written back as they were read: what the command read
\* (StampWrite, the dispatch) and what the end of an orchestrator read.
HelpInv ==
  /\ Helped(row) /\ Helped(cli.task)
  /\ \A o \in Orch : orch[o].pc = "stamp" => Helped(orch[o].task)

LEMMA NoRowHelped == Helped(NoRow)
BY DEF Helped, NoRow, Asks, New

LEMMA InFlightHelped == \A t : t.status \in InFlight => Helped(t)
BY DEF Helped, InFlight, Asks

\* A phase that ended may ask for anything.
LEMMA EndedHelped ==
  ASSUME NEW t \in Rows, NEW p \in Phases, NEW e, Helped(row), ApplyAndPersist(Ended(t, p), e)
  PROVE  Helped(row')
<1> DEFINE u == Ended(t, p)
<1>1. u \in Rows /\ latestPhase(u) = p
  BY EndedTyped, EndedIsLatest
<1>2. CASE Legal(u.status, e)
  <2> HIDE DEF u
  <2>1. latestPhase(Stamped(u, e)) = latestPhase(u)
    BY <1>1, <1>2, StampedEdge, SamePhases
  <2>2. row' = Stamped(u, e)
    BY <1>2 DEF ApplyAndPersist, u
  <2> QED
    BY <1>1, <2>1, <2>2 DEF Helped, Phases
<1>3. CASE ~Legal(u.status, e)
  BY <1>3 DEF ApplyAndPersist
<1> QED
  BY <1>2, <1>3

\* The events the commands and the end of an orchestrator apply ask for nothing.
LEMMA OtherHelped ==
  ASSUME NEW t \in Rows, NEW e \in Beginning \cup {"PlanApprove", "VerifyStuck", "PlanBegin"},
         Helped(row), ApplyAndPersist(t, e)
  PROVE  Helped(row')
<1>1. CASE Legal(t.status, e)
  <2>1. \A x \in transitions :
          x.Event \in Beginning \cup {"PlanApprove", "VerifyStuck", "PlanBegin"} => x.To \notin Asks
    BY DEF transitions, Edges, Restartable, New, Beginning, Asks
  <2>2. Apply(t.status, e) \notin Asks
    BY <1>1, <2>1, ApplyEdge
  <2> QED
    BY <1>1, <2>2, StampedEdge DEF ApplyAndPersist, Helped
<1>2. CASE ~Legal(t.status, e)
  BY <1>2 DEF ApplyAndPersist
<1> QED
  BY <1>1, <1>2

LEMMA HelpInit == Init => HelpInv
BY NoRowHelped DEF Init, HelpInv, IdleCli, IdleOrch

LEMMA OrchKeepsHelp ==
  ASSUME TypeInv, HelpInv, NEW o \in Orch, NEW c, orch' = [orch EXCEPT ![o] = c],
         c.pc = "stamp" => Helped(c.task), Helped(row'), Helped(cli'.task)
  PROVE  HelpInv'
<1>1. \A q \in Orch : orch'[q] = IF q = o THEN c ELSE orch[q]
  BY DEF TypeInv, TypeOK
<1> QED
  BY <1>1 DEF HelpInv

LEMMA OrchestrateHelps ==
  ASSUME TypeInv, HelpInv, NEW o \in Orch, Orchestrate(o) \/ Capture(o) PROVE HelpInv'
<1>a. row \in Rows /\ Helped(row) /\ Helped(cli.task) /\ orch[o] \in Copies
  BY TypeParts DEF HelpInv, Shared
<1>1. CASE \/ AcquireLock(o) \/ Resolve(o) \/ ResolveFails(o) \/ VerifyGuard(o)
           \/ AgentExits(o) \/ AgentFails(o) \/ Judge(o) \/ FixExits(o)
  <2>1. UNCHANGED <<row, cli>>
    BY <1>1
       DEF AcquireLock, Resolve, ResolveFails, VerifyGuard, AgentExits, AgentFails, Judge,
           FixExits
  <2> DEFINE A(c) == orch' = [orch EXCEPT ![o] = c] /\ c.pc # "stamp"
             o1 == [orch[o] EXCEPT !.pc = "next"]
             o2 == [orch[o] EXCEPT !.pc = "release", !.task = NoRow]
             o3 == [orch[o] EXCEPT !.todo = IF row.status = "needs-clarification"
                                              THEN <<>> ELSE Tail(@)]
             o4 == [orch[o] EXCEPT !.pc = IF Phase(o) = "verify" THEN "judge" ELSE "finish"]
             o5 == [orch[o] EXCEPT !.pc = "finish", !.outcome = "error"]
             o6 == IF files.pass THEN [orch[o] EXCEPT !.pc = "finish", !.outcome = "pass"]
                   ELSE IF orch[o].turn = MaxIterations
                     THEN [orch[o] EXCEPT !.pc = "finish", !.outcome = "fail"]
                   ELSE [orch[o] EXCEPT !.pc = "fix"]
             o7 == [orch[o] EXCEPT !.pc = "agent", !.turn = @ + 1]
             o8 == [orch[o] EXCEPT !.pc = "begin", !.task = row]
  <2>2. AcquireLock(o) => A(o1)
    BY <1>a DEF AcquireLock, Step, Copies
  <2>3. ResolveFails(o) => A(o2)
    BY <1>a DEF ResolveFails, Copies
  <2>4. VerifyGuard(o) => A(o3)
    BY <1>a DEF VerifyGuard, AtPhase, Copies
  <2>5. AgentExits(o) => A(o4)
    BY <1>a DEF AgentExits, Copies
  <2>6. AgentFails(o) => A(o5)
    BY <1>a DEF AgentFails, Copies
  <2>7. Judge(o) => A(o6)
    BY <1>a DEF Judge, Copies
  <2>8. FixExits(o) => A(o7)
    BY <1>a DEF FixExits, Copies
  <2>9. Resolve(o) => A(o8)
    BY <1>a DEF Resolve, Copies
  <2>10. \E c : A(c)
    <3> HIDE DEF A
    <3> QED
      BY <1>1, <2>2, <2>3, <2>4, <2>5, <2>6, <2>7, <2>8, <2>9
  <2> QED
    BY <1>a, <2>1, <2>10, OrchKeepsHelp
<1>2. CASE \/ Contended(o) \/ ReleaseLock(o)
           \/ BeginPlanResume(o) /\ ~Legal(orch[o].task.status, "PlanResume")
  <2>1. PICK pc \in {"done", "panic"} : orch' = [orch EXCEPT ![o] = [IdleOrch EXCEPT !.pc = pc]]
    BY <1>2 DEF Contended, ReleaseLock, BeginPlanResume, Step
  <2> DEFINE c == [IdleOrch EXCEPT !.pc = pc]
  <2>2. c.pc # "stamp"
    BY DEF IdleOrch
  <2>3. UNCHANGED <<row, cli>>
    BY <1>2 DEF Contended, ReleaseLock, BeginPlanResume
  <2> HIDE DEF c
  <2> QED
    BY <1>a, <2>1, <2>2, <2>3, OrchKeepsHelp DEF c
<1>3. CASE \/ BeginPlan(o) \/ BeginWork(o) \/ BeginVerify(o)
           \/ BeginPlanResume(o) /\ Legal(orch[o].task.status, "PlanResume")
  <2>1. PICK u, n : Begun(orch[o].task, u) /\ StartAgent(o, u, n)
    BY <1>3, PlanBegun, PlanResumed, WorkBegun, VerifyBegun
  <2>2. Helped(row')
    BY <1>a, <2>1, InFlightHelped DEF Begun
  <2> DEFINE c == [orch[o] EXCEPT !.pc = "agent", !.task = u, !.turn = n]
  <2>3. c.pc # "stamp" /\ orch' = [orch EXCEPT ![o] = c] /\ UNCHANGED cli
    BY <1>a, <2>1 DEF StartAgent, Copies
  <2> QED
    BY <1>a, <2>2, <2>3, OrchKeepsHelp
<1>4. CASE Finish(o)
  <2>1. Phase(o) \in Phases
    BY <1>4, TypeParts DEF Finish, AtWorkIn, Phase
  <2>2. PICK e : ApplyAndPersist(Ended(orch[o].task, Phase(o)), e)
    BY <1>4 DEF Finish
  <2>3. Helped(row')
    BY <1>a, <2>1, <2>2, EndedHelped DEF Copies
  <2> DEFINE c == [orch[o] EXCEPT !.pc = IF orch[o].outcome = "error" THEN "release" ELSE "next",
                                  !.todo = Tail(@), !.task = NoRow, !.turn = 0,
                                  !.outcome = "none"]
  <2>4. orch' = [orch EXCEPT ![o] = c] /\ c.pc # "stamp" /\ UNCHANGED cli
    BY <1>4, <1>a DEF Finish, Copies
  <2> HIDE DEF c
  <2> QED
    BY <1>a, <2>3, <2>4, OrchKeepsHelp
<1>5. CASE FinaliseRead(o)
  <2> DEFINE c == [orch[o] EXCEPT !.pc = IF row = NoRow THEN "release" ELSE "stamp", !.task = row]
  <2>1. Helped(c.task)
    BY <1>a DEF Copies
  <2>2. orch' = [orch EXCEPT ![o] = c] /\ UNCHANGED <<row, cli>>
    BY <1>5, <1>a DEF FinaliseRead, Copies
  <2> HIDE DEF c
  <2> QED
    BY <1>a, <2>1, <2>2, OrchKeepsHelp
<1>6. CASE FinaliseWrite(o)
  <2> DEFINE c == [orch[o] EXCEPT !.pc = "release", !.task = NoRow]
  <2>1. c.pc # "stamp"
    BY <1>a DEF Copies
  <2>2. Helped(row')
    BY <1>6, <1>a, OtherHelped DEF FinaliseWrite, Copies
  <2> QED
    BY <1>6, <1>a, <2>1, <2>2, OrchKeepsHelp DEF FinaliseWrite, Step
<1>7. CASE Capture(o)
  <2> DEFINE t == [orch[o].task EXCEPT !.sess = @ \cup {Phase(o)}]
             c == [orch[o] EXCEPT !.task = t]
  <2>1. Phase(o) \in Phases
    BY <1>7, TypeParts DEF Capture, AtWorkIn, Phase
  <2>2. t \in Rows /\ t.sess # {}
    BY <1>a, <2>1 DEF Copies, Rows
  <2>3. Helped(t)
    BY <2>2, SessionResumable DEF Helped
  <2>4. c.pc # "stamp" /\ row' = t /\ UNCHANGED cli /\ orch' = [orch EXCEPT ![o] = c]
    BY <1>7, <1>a DEF Capture, Copies
  <2> QED
    BY <1>a, <2>3, <2>4, OrchKeepsHelp
<1> QED
  BY <1>1, <1>2, <1>3, <1>4, <1>5, <1>6, <1>7 DEF Orchestrate

LEMMA CliHelps ==
  ASSUME TypeInv, HelpInv, Issue \/ Carry PROVE HelpInv'
<1>a. /\ cli \in CliType /\ row \in Rows /\ Helped(row) /\ Helped(cli.task)
      /\ Helped(NoRow) /\ Helped(IdleCli.task)
  BY TypeParts, NoRowHelped DEF HelpInv, IdleCli, Shared
<1>b. \A f, l, s : Run(f, l, s) => Helped(cli'.task)
  BY NoRowHelped DEF Run
<1>c. Done => Helped(cli'.task)
  BY <1>a DEF Done, CliType
<1>1. Helped(cli'.task)
  <2>1. CASE Issue
    BY <1>a, <1>b, <2>1
       DEF Issue, Start, Replan, Continue, Discard, Resume, RunDetached, IdleCli
  <2>2. CASE Carry
    BY <1>a, <1>b, <1>c, <2>2
       DEF Carry, DispatchPlanApprove, DispatchClarification, Dispatch,
       RunDetached, PersistStartRow, StampRead, StampWrite, Takeover, TakeoverDrained,
       TakeoverGivesUp, DeleteTask, RemoveDir, Spawn, TakeoverKill, CliType
  <2> QED
    BY <2>1, <2>2
<1>2. Helped(row')
  <2>1. CASE DispatchPlanApprove
    BY <1>a, <2>1, OtherHelped DEF DispatchPlanApprove, CliType
  <2>2. CASE DispatchClarification
    <3>1. PICK e \in Beginning : ApplyAndPersist(cli.task, e)
      BY <1>a, <2>2, LatestPhase DEF DispatchClarification, Beginning, CliType, Phases
    <3> QED
      BY <1>a, <3>1, OtherHelped DEF CliType
  <2>3. CASE PersistStartRow
    <3>1. ApplyAndPersist(NoRow, "PlanBegin")
      BY <2>3, NewBegins DEF PersistStartRow, ApplyAndPersist, NoRow
    <3> QED
      BY <1>a, <3>1, NoRowTyped, OtherHelped
  <2>4. CASE ~(DispatchPlanApprove \/ DispatchClarification \/ PersistStartRow)
    BY <1>a, <2>4 DEF Issue, Carry, Start, Replan, Continue, Discard, Resume, Dispatch,
       StampRead, StampWrite, Takeover, TakeoverDrained, TakeoverGivesUp, DeleteTask, RemoveDir,
       Spawn, TakeoverKill, Dies
  <2> QED
    BY <2>1, <2>2, <2>3, <2>4
<1>3. ASSUME NEW o \in Orch, Spawn(o) \/ TakeoverKill(o) PROVE HelpInv'
  <2>1. PICK c : orch' = [orch EXCEPT ![o] = c] /\ c.pc # "stamp"
    <3>1. CASE Spawn(o)
      <4> DEFINE c == [IdleOrch EXCEPT !.pc = "lock", !.todo = cli.todo]
      <4>1. orch' = [orch EXCEPT ![o] = c] /\ c.pc # "stamp"
        BY <3>1 DEF Spawn, Step, IdleOrch
      <4> QED
        BY <4>1
    <3>2. CASE TakeoverKill(o)
      <4> DEFINE c == [IdleOrch EXCEPT !.pc = "dead"]
      <4>1. orch' = [orch EXCEPT ![o] = c] /\ c.pc # "stamp"
        BY <3>2 DEF TakeoverKill, Dies, IdleOrch
      <4> QED
        BY <4>1
    <3> QED
      BY <1>3, <3>1, <3>2
  <2> QED
    BY <1>1, <1>2, <2>1, OrchKeepsHelp
<1>4. CASE ~\E o \in Orch : Spawn(o) \/ TakeoverKill(o)
  <2>1. UNCHANGED orch
    BY <1>4
       DEF Issue, Carry, Start, Replan, Continue, Discard, Resume, DispatchPlanApprove,
           DispatchClarification, Dispatch, PersistStartRow, StampRead, StampWrite, Takeover,
           TakeoverDrained, TakeoverGivesUp, DeleteTask, RemoveDir
  <2> QED
    BY <1>1, <1>2, <2>1 DEF HelpInv
<1> QED
  BY <1>3, <1>4

LEMMA ReapHelps ==
  ASSUME TypeInv, HelpInv, NEW k \in Reaper, Reap(k) PROVE HelpInv'
<1>a. Helped(row) /\ reaper[k].task \in Rows
  BY TypeParts DEF HelpInv
<1>1. Helped(row')
  <2>1. CASE FinalisePlanReap(k)
    BY <1>a, <2>1, EndedHelped DEF FinalisePlanReap, Phases
  <2>2. CASE FinaliseWorkReap(k)
    BY <1>a, <2>2, EndedHelped DEF FinaliseWorkReap, Phases
  <2> QED
    BY <1>a, <2>1, <2>2 DEF Reap, ListTasks, ProbeAcquired, ProbeRefused, ReleaseProbe
<1>2. UNCHANGED <<orch, cli>>
  BY DEF Reap, ListTasks, ProbeAcquired, ProbeRefused, ReleaseProbe, FinalisePlanReap,
     FinaliseWorkReap
<1> QED
  BY <1>1, <1>2 DEF HelpInv

LEMMA HelpStep == TypeInv /\ HelpInv /\ [Next]_vars => HelpInv'
<1> SUFFICES ASSUME TypeInv, HelpInv, [Next]_vars PROVE HelpInv'
  OBVIOUS
<1>1. ASSUME NEW o \in Orch, Kill(o) PROVE HelpInv'
  <2> DEFINE c == [IdleOrch EXCEPT !.pc = "dead"]
  <2>1. orch' = [orch EXCEPT ![o] = c] /\ c.pc # "stamp"
    BY <1>1 DEF Kill, Dies, IdleOrch
  <2>2. UNCHANGED <<row, cli>>
    BY <1>1 DEF Kill, Dies
  <2> QED
    BY <2>1, <2>2, OrchKeepsHelp DEF HelpInv
<1>2. ASSUME NEW a \in orphans, OrphanExits(a) PROVE HelpInv'
  BY <1>2 DEF OrphanExits, HelpInv
<1>3. CASE UNCHANGED vars
  BY <1>3 DEF vars, HelpInv
<1> QED
  BY <1>1, <1>2, <1>3, OrchestrateHelps, CliHelps, ReapHelps DEF Next

\* A row that asks the user for something always names the phase that `continue`
\* will resume (dispatchClarification, dispatchHelp: newestResumablePhase), whatever
\* commands, reapers, kills and discards wrote it, and from however old a copy.
THEOREM ResumableCorrect == Spec => []AlwaysResumable
<1>1. HelpInv => AlwaysResumable
  BY DEF HelpInv, Helped, Asks, AlwaysResumable
<1> QED
  BY <1>1, TypeInit, TypeStep, HelpInit, HelpStep, PTL DEF Spec

================================================================================
