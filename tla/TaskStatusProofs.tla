---------------------------- MODULE TaskStatusProofs ----------------------------
(***************************************************************************)
(* Theorems about a task whose row is only written under the lock: new     *)
(* tasks and resumes with their takeovers and kills, any number of         *)
(* orchestrators, any bound on the fix loop, both approval settings.       *)
(*   StatusCorrect    every change of the status is an edge of the table   *)
(*   AskerCorrect     an open question keeps its asker                     *)
(*   VerifierCorrect  no verifier runs while a question is open            *)
(* The reapers, `continue`, start --from-task and discard write the row    *)
(* without the lock.  With `continue` none of the three holds any more:    *)
(* TLC violates each of them on the instance of the run lost_verdict.      *)
(***************************************************************************)
EXTENDS TaskRowProofs

RowUnderLock ==
  Reaper = {} /\ Commands \subseteq {"start", "override", "resume", "kill"}

\* The row of a new task.
First == Stamped(NoRow, "PlanBegin")

FirstChains == {<<"plan">>, Full}

Asking(r) == r.status = "needs-clarification"

\* Where an orchestrator has a copy of the row that it will write.
Copying == {"agent", "judge", "fix", "finish", "stamp"}

Waiting == {"lock", "next", "begin"}
InPhase == {"agent", "judge", "fix", "finish"}

Quiet == \A o \in Orch : orch[o] = IdleOrch

\* A chain of resume-*: one phase that has a session.
Resumes(r, todo) == \E p \in r.sess : todo = <<p>>

\* The chain of the start.
Starts(r, todo) == todo \in FirstChains /\ r = First

\* The phases an orchestrator in c has before it, as the row is: those it was
\* launched for, or what is left of a start's chain.
Ready(r, c) ==
  \/ Starts(r, c.todo) \/ Resumes(r, c.todo)
  \/ c.pc # "lock" /\ \/ c.todo = FromWork /\ r.ended = {<<"plan", "plan">>}
                      \/ c.todo \in {<<>>, <<"guard", "verify">>}
                      \/ c.todo = <<"verify">> /\ ~Asking(r)

\* The phase it is in.  Only a worker may run on an open question: the planner's,
\* which the chain of a start does not wait for.
Runs(r, c) ==
  \/ c.todo = <<"plan">> /\ ~Asking(r)
  \/ c.todo = Full /\ r.status = "planning" /\ c.task.ended = {}
  \/ /\ c.todo \in {<<"work">>, FromWork}
     /\ Asking(r) => c.task.ended = {<<"plan", "plan">>} /\ r.ended = {<<"plan", "plan">>}
  \/ c.todo = <<"verify">> /\ ~Asking(r)

\* Its copy has the status of the row and every session of it.
Fresh(r, c) == c.task.status = r.status /\ r.sess \subseteq c.task.sess

\* What holds of an orchestrator in the record c when the row is r.
OrchLocked(r, c) ==
  /\ c.pc \in Copying => Fresh(r, c)
  /\ c.pc \in Waiting => Ready(r, c)
  /\ c.pc = "begin" => c.task = r
  /\ c.pc \in InPhase => Runs(r, c)

\* The user's command, and what it will launch.
CliLocked ==
  \/ cli = IdleCli
  \/ /\ cli.step = "persist" /\ cli.next = "spawn" /\ cli.todo \in FirstChains
     /\ row = NoRow /\ Quiet
  \/ cli.step \in {"takeover", "wait"} /\ cli.next = "spawn" /\ Resumes(row, cli.todo)
  \/ /\ cli.step = "spawn" /\ cli.next = "none"
     /\ Resumes(row, cli.todo) \/ (Starts(row, cli.todo) /\ Quiet)

\* Until the first orchestrator begins to plan it is alone.
LockedInv ==
  /\ CliLocked
  /\ Quiet => row = NoRow \/ cli.step = "spawn"
  /\ \A o \in Orch : OrchLocked(row, orch[o])
  /\ \A o, q \in Orch :
       orch[o].pc \in Waiting /\ Starts(row, orch[o].todo) /\ q # o => orch[q] = IdleOrch

LEMMA FirstRow ==
  /\ First \in Rows /\ First.status = "planning" /\ First.sess = {} /\ First.ended = {}
  /\ First # NoRow
<1>1. \A x \in transitions : x.From = New /\ x.Event = "PlanBegin" => x.To = "planning"
  BY DEF transitions, Edges, Restartable, New
<1>2. Apply(New, "PlanBegin") = "planning"
  BY <1>1, NewBegins, ApplyEdge
<1>3. NoRow \in Rows /\ NoRow.status = New /\ NoRow.sess = {} /\ NoRow.ended = {}
  BY NoRowTyped DEF NoRow
<1>4. First \in Rows /\ First.status = "planning" /\ First.sess = {} /\ First.ended = {}
  BY <1>2, <1>3, NewBegins, StampedEdge DEF First
<1> QED
  BY <1>3, <1>4 DEF New

LEMMA LockedInit == Init => LockedInv
BY DEF Init, LockedInv, CliLocked, OrchLocked, Quiet, IdleOrch, IdleCli, Copying, Waiting, InPhase

\* The chains, and what they leave when a phase is done.
LEMMA ChainTails ==
  /\ Tail(Full) = FromWork /\ Tail(FromWork) = <<"guard", "verify">>
  /\ Tail(<<"guard", "verify">>) = <<"verify">>
  /\ \A p : Tail(<<p>>) = <<>>
<1>1. \A p : Tail(<<p>>) = <<>>
  <2> TAKE p
  <2>1. <<p>> \in Seq({p}) /\ Len(<<p>>) = 1
    OBVIOUS
  <2>2. Tail(<<p>>) \in Seq({p}) /\ Len(Tail(<<p>>)) = 0
    BY <2>1, HeadTailProperties
  <2> QED
    BY <2>2, EmptySeq
<1> QED
  BY <1>1 DEF Full, FromWork

\* A step of one orchestrator, neither idle before nor after, that leaves it in c.
LEMMA OrchKeepsLocked ==
  ASSUME TypeInv, OwnInv, LockedInv, row' \in Rows,
         NEW o \in Orch, NEW c, orch' = [orch EXCEPT ![o] = c],
         orch[o].pc # "idle", c.pc # "idle", UNCHANGED cli,
         row' = row \/ (orch[o].pc \in Holding /\ row.sess \subseteq row'.sess),
         OrchLocked(row', c),
         c.pc \in Waiting /\ Starts(row', c.todo)
           => orch[o].pc \in Waiting /\ Starts(row, orch[o].todo)
  PROVE  LockedInv'
<1>1. \A q \in Orch : orch'[q] = IF q = o THEN c ELSE orch[q]
  BY DEF TypeInv, TypeOK
<1>2. ~Quiet /\ ~Quiet' /\ IdleOrch.pc = "idle"
  BY <1>1 DEF Quiet, IdleOrch
<1>3. row.sess \subseteq row'.sess
  OBVIOUS
<1>4. CliLocked'
  BY <1>2, <1>3 DEF LockedInv, CliLocked, Resumes
<1>5. \A q \in Orch : q # o /\ orch[q].pc \in Waiting => ~Starts(row, orch[q].todo)
  BY <1>2 DEF LockedInv
<1>6. ASSUME NEW q \in Orch, q # o, row' # row
      PROVE  orch[q].pc \notin Holding
  BY <1>6 DEF OwnInv
<1>7. ASSUME NEW q \in Orch, q # o PROVE OrchLocked(row', orch[q])
  <2>1. CASE row' = row
    BY <2>1 DEF LockedInv
  <2>2. CASE row' # row
    <3>1. orch[q].pc \notin Holding
      BY <1>6, <1>7, <2>2
    <3>2. orch[q].pc \notin Copying /\ orch[q].pc \notin InPhase
          /\ orch[q].pc \notin {"next", "begin"}
      BY <3>1 DEF Holding, Copying, InPhase
    <3>3. orch[q].pc \in Waiting => Resumes(row, orch[q].todo)
      BY <1>5, <1>7, <3>2 DEF LockedInv, OrchLocked, Ready, Waiting
    <3> QED
      BY <1>3, <3>2, <3>3 DEF OrchLocked, Ready, Resumes, Waiting
  <2> QED
    BY <2>1, <2>2
<1>8. ASSUME NEW p \in Orch, NEW q \in Orch, q # p,
             orch'[p].pc \in Waiting, Starts(row', orch'[p].todo)
      PROVE  orch'[q] = IdleOrch
  <2>1. CASE p = o
    BY <1>1, <1>8, <2>1 DEF LockedInv
  <2>2. CASE p # o
    <3>1. orch[p].pc \in Waiting /\ ~Starts(row, orch[p].todo) /\ Starts(row', orch[p].todo)
      BY <1>1, <1>5, <1>8, <2>2
    <3>2. row' # row
      BY <3>1
    <3>3. orch[p].pc \notin Holding
      BY <1>6, <2>2, <3>2
    <3>4. Resumes(row, orch[p].todo)
      BY <3>1, <3>3 DEF LockedInv, OrchLocked, Ready, Holding, Waiting
    <3> QED
      BY <1>3, <3>1, <3>4, FirstRow DEF Resumes, Starts
  <2> QED
    BY <2>1, <2>2
<1> QED
  BY <1>1, <1>2, <1>4, <1>7, <1>8 DEF LockedInv

--------------------------------------------------------------------------------
(* The steps of an orchestrator *)

\* The step that begins a phase with the copy u.
LEMMA BegunLocked ==
  ASSUME TypeInv, OwnInv, LockedInv, NEW o \in Orch, orch[o].pc = "begin",
         NEW u, NEW n, Begun(orch[o].task, u), StartAgent(o, u, n),
         Runs(row', [orch[o] EXCEPT !.pc = "agent", !.task = u, !.turn = n])
  PROVE  LockedInv'
<1> DEFINE c == [orch[o] EXCEPT !.pc = "agent", !.task = u, !.turn = n]
<1>1. orch[o] \in Copies /\ row \in Rows
  BY TypeParts DEF Shared
<1>2. c.pc = "agent" /\ c.task = u
  BY <1>1 DEF Copies
<1>3. Fresh(row', c) /\ row.sess \subseteq row'.sess /\ row' \in Rows
  <2>1. orch[o].task = row
    BY DEF LockedInv, OrchLocked
  <2> QED
    BY <1>1, <1>2, <2>1 DEF Begun, Fresh
<1>4. OrchLocked(row', c)
  BY <1>2, <1>3 DEF OrchLocked, Copying, Waiting, InPhase
<1>5. orch' = [orch EXCEPT ![o] = c] /\ UNCHANGED cli
  BY DEF StartAgent
<1> HIDE DEF c
<1> QED
  BY <1>2, <1>3, <1>4, <1>5, OrchKeepsLocked DEF Waiting, Holding

LEMMA BeginLocked ==
  ASSUME TypeInv, OwnInv, LockedInv, NEW o \in Orch,
         \/ BeginPlan(o) \/ BeginWork(o) \/ BeginVerify(o)
         \/ BeginPlanResume(o) /\ Legal(orch[o].task.status, "PlanResume")
  PROVE  LockedInv'
<1>a. /\ orch[o] \in Copies /\ row \in Rows /\ orch[o].pc = "begin"
      /\ Ready(row, orch[o]) /\ orch[o].task = row
  BY TypeParts DEF Shared, BeginPlan, BeginWork, BeginVerify, BeginPlanResume, AtBegin,
     LockedInv, OrchLocked, Waiting
<1>b. \A p \in Phases : AtBegin(o, p) => Head(orch[o].todo) = p /\ orch[o].todo # <<>>
  BY DEF AtBegin, Phase, Phases
<1>c. \A u, n : LET c == [orch[o] EXCEPT !.pc = "agent", !.task = u, !.turn = n]
                IN  c.todo = orch[o].todo /\ c.task = u
  BY <1>a DEF Copies
<1>1. CASE BeginPlan(o)
  <2>1. "plan" \notin row.sess /\ Head(orch[o].todo) = "plan" /\ orch[o].todo # <<>>
    BY <1>1, <1>a, <1>b DEF BeginPlan, Phases
  <2>2. Starts(row, orch[o].todo)
    BY <1>a, <2>1 DEF Ready, Resumes, FromWork
  <2>3. row.status = "planning" /\ row.ended = {}
    BY <2>2, FirstRow DEF Starts
  <2>4. PICK u : Begun(row, u) /\ StartAgent(o, u, 0) /\ u.ended = {} /\ u.status = "planning"
    BY <1>1, <1>a, <2>3, PlanBegun
  <2>5. Runs(row', [orch[o] EXCEPT !.pc = "agent", !.task = u, !.turn = 0])
    BY <1>c, <2>2, <2>4 DEF Runs, Begun, Starts, FirstChains, Asking
  <2> QED
    BY <1>a, <2>4, <2>5, BegunLocked
<1>2. CASE BeginPlanResume(o) /\ Legal(orch[o].task.status, "PlanResume")
  <2>1. "plan" \in row.sess /\ Head(orch[o].todo) = "plan" /\ orch[o].todo # <<>>
    BY <1>2, <1>a, <1>b DEF BeginPlanResume, Phases
  <2>2. orch[o].todo = <<"plan">>
    BY <1>a, <2>1, FirstRow DEF Ready, Resumes, Starts, FromWork
  <2>3. PICK u : Begun(row, u) /\ StartAgent(o, u, 0)
    BY <1>2, <1>a, PlanResumed
  <2>4. ~Asking(row')
    BY <1>2, PlanResumed DEF Asking
  <2>5. Runs(row', [orch[o] EXCEPT !.pc = "agent", !.task = u, !.turn = 0])
    BY <1>c, <2>2, <2>4 DEF Runs
  <2> QED
    BY <1>a, <2>3, <2>5, BegunLocked
<1>3. CASE BeginWork(o)
  <2>1. Head(orch[o].todo) = "work" /\ orch[o].todo # <<>>
    BY <1>3, <1>b DEF BeginWork, Phases
  <2>2. \/ orch[o].todo = <<"work">> /\ "work" \in row.sess
        \/ orch[o].todo = FromWork /\ row.ended = {<<"plan", "plan">>}
    BY <1>a, <2>1 DEF Ready, Resumes, Starts, FirstChains, Full
  <2>3. PICK u : /\ Begun(row, u) /\ StartAgent(o, u, 0)
                 /\ u.ended = {e \in row.ended : e[1] # "work" /\ e[2] # "work"}
    BY <1>3, <1>a, WorkBegun
  <2>4. row.ended = {<<"plan", "plan">>} => u.ended = {<<"plan", "plan">>}
    BY <2>3
  <2>5. Asking(row') => row.ended = {<<"plan", "plan">>} /\ row' = row
    BY <1>3, <1>a, <2>2, <2>3, WorkBegun DEF Asking, Begun, InFlight
  <2>6. Runs(row', [orch[o] EXCEPT !.pc = "agent", !.task = u, !.turn = 0])
    BY <1>c, <2>2, <2>4, <2>5 DEF Runs
  <2> QED
    BY <1>a, <2>3, <2>6, BegunLocked
<1>4. CASE BeginVerify(o)
  <2>1. Head(orch[o].todo) = "verify" /\ orch[o].todo # <<>>
    BY <1>4, <1>b DEF BeginVerify, Phases
  <2>2. orch[o].todo = <<"verify">> /\ ("verify" \in row.sess \/ ~Asking(row))
    BY <1>a, <2>1 DEF Ready, Resumes, Starts, FirstChains, Full, FromWork
  <2>3. PICK u : \E n \in 0..MaxIterations : Begun(row, u) /\ StartAgent(o, u, n)
    BY <1>4, <1>a, VerifyBegun
  <2>4. PICK n \in 0..MaxIterations : Begun(row, u) /\ StartAgent(o, u, n)
    BY <2>3
  <2>5. ~Asking(row')
    BY <1>4, <1>a, <2>2, VerifyBegun DEF Asking
  <2>6. Runs(row', [orch[o] EXCEPT !.pc = "agent", !.task = u, !.turn = n])
    BY <1>c, <2>2, <2>5 DEF Runs
  <2> QED
    BY <1>a, <2>4, <2>6, BegunLocked
<1> QED
  BY <1>1, <1>2, <1>3, <1>4

\* The steps that leave the row alone.
LEMMA LockLocked ==
  ASSUME TypeInv, OwnInv, LockedInv, NEW o \in Orch,
         \/ AcquireLock(o) \/ Resolve(o) \/ ResolveFails(o) \/ VerifyGuard(o) \/ FinaliseRead(o)
         \/ Contended(o) \/ ReleaseLock(o)
         \/ BeginPlanResume(o) /\ ~Legal(orch[o].task.status, "PlanResume")
  PROVE  LockedInv'
<1>a. orch[o] \in Copies /\ row \in Rows /\ OrchLocked(row, orch[o])
  BY TypeParts DEF Shared, LockedInv
<1>1. CASE AcquireLock(o)
  <2> DEFINE c == [orch[o] EXCEPT !.pc = "next"]
  <2>1. c.pc = "next" /\ c.todo = orch[o].todo /\ c.task = orch[o].task
    BY <1>a DEF Copies
  <2>2. orch[o].pc = "lock" /\ orch' = [orch EXCEPT ![o] = c] /\ UNCHANGED <<row, cli>>
    BY <1>1 DEF AcquireLock, Step
  <2> HIDE DEF c
  <2>3. Ready(row, c)
    BY <1>a, <2>1, <2>2 DEF OrchLocked, Ready, Waiting
  <2>4. OrchLocked(row, c)
    BY <2>1, <2>3 DEF OrchLocked, Copying, InPhase
  <2> QED
    BY <1>a, <2>1, <2>2, <2>4, OrchKeepsLocked DEF Waiting
<1>2. CASE ResolveFails(o)
  <2> DEFINE c == [orch[o] EXCEPT !.pc = "release", !.task = NoRow]
  <2>1. c.pc = "release"
    BY <1>a DEF Copies
  <2>2. /\ orch[o].pc \in {"next", "begin"} /\ orch' = [orch EXCEPT ![o] = c]
        /\ UNCHANGED <<row, cli>>
    BY <1>2 DEF ResolveFails
  <2> HIDE DEF c
  <2> QED
    BY <1>a, <2>1, <2>2, OrchKeepsLocked DEF OrchLocked, Copying, InPhase, Waiting
<1>3. CASE VerifyGuard(o)
  <2> DEFINE c == [orch[o] EXCEPT !.todo = IF Asking(row) THEN <<>> ELSE Tail(@)]
  <2>1. /\ orch[o].pc = "next" /\ orch' = [orch EXCEPT ![o] = c] /\ UNCHANGED <<row, cli>>
        /\ orch[o].todo # <<>> /\ Head(orch[o].todo) = "guard"
    BY <1>3 DEF VerifyGuard, AtPhase, Phase, Asking
  <2>2. orch[o].todo = <<"guard", "verify">>
    BY <1>a, <2>1 DEF OrchLocked, Ready, Resumes, Starts, FirstChains, Waiting, Full, FromWork,
       Rows, Phases
  <2>3. c.pc = "next" /\ c.todo = IF Asking(row) THEN <<>> ELSE <<"verify">>
    BY <1>a, <2>1, <2>2, ChainTails DEF Copies
  <2> HIDE DEF c
  <2>4. OrchLocked(row, c)
    BY <2>3 DEF OrchLocked, Ready, Copying, InPhase
  <2>5. ~Starts(row, c.todo)
    BY <2>3 DEF Starts, FirstChains, Full
  <2> QED
    BY <1>a, <2>1, <2>3, <2>4, <2>5, OrchKeepsLocked
<1>4. CASE FinaliseRead(o)
  <2> DEFINE c == [orch[o] EXCEPT !.pc = IF row = NoRow THEN "release" ELSE "stamp", !.task = row]
  <2>1. c.pc \in {"release", "stamp"} /\ c.task = row
    BY <1>a DEF Copies
  <2>2. orch[o].pc = "next" /\ orch' = [orch EXCEPT ![o] = c] /\ UNCHANGED <<row, cli>>
    BY <1>4 DEF FinaliseRead, AtPhase
  <2> HIDE DEF c
  <2> QED
    BY <1>a, <2>1, <2>2, OrchKeepsLocked DEF OrchLocked, Fresh, InPhase, Waiting
<1>5. CASE \/ Contended(o) \/ ReleaseLock(o)
           \/ BeginPlanResume(o) /\ ~Legal(orch[o].task.status, "PlanResume")
  <2>1. PICK pc \in {"done", "panic"} : orch' = [orch EXCEPT ![o] = [IdleOrch EXCEPT !.pc = pc]]
    BY <1>5 DEF Contended, ReleaseLock, BeginPlanResume, Step
  <2> DEFINE c == [IdleOrch EXCEPT !.pc = pc]
  <2>2. c.pc \in {"done", "panic"}
    BY DEF IdleOrch
  <2>3. UNCHANGED <<row, cli>> /\ orch[o].pc # "idle"
    BY <1>5 DEF Contended, ReleaseLock, BeginPlanResume, Step, AtBegin
  <2> HIDE DEF c
  <2> QED
    BY <1>a, <2>1, <2>2, <2>3, OrchKeepsLocked DEF c, OrchLocked, Copying, InPhase, Waiting
<1>6. CASE Resolve(o)
  <2> DEFINE c == [orch[o] EXCEPT !.pc = "begin", !.task = row]
  <2>1. c.pc = "begin" /\ c.todo = orch[o].todo /\ c.task = row
    BY <1>a DEF Copies
  <2>2. orch[o].pc = "next" /\ orch' = [orch EXCEPT ![o] = c] /\ UNCHANGED <<row, cli>>
    BY <1>6 DEF Resolve
  <2> HIDE DEF c
  <2>3. Ready(row, c)
    BY <1>a, <2>1, <2>2 DEF OrchLocked, Ready, Waiting
  <2>4. OrchLocked(row, c)
    BY <2>1, <2>3 DEF OrchLocked, Copying, InPhase
  <2> QED
    BY <1>a, <2>1, <2>2, <2>4, OrchKeepsLocked DEF Waiting
<1> QED
  BY <1>1, <1>2, <1>3, <1>4, <1>5, <1>6

\* The turns of a phase keep its copy of the row.
LEMMA TurnLocked ==
  ASSUME TypeInv, OwnInv, LockedInv, NEW o \in Orch,
         AgentExits(o) \/ AgentFails(o) \/ Judge(o) \/ FixExits(o)
  PROVE  LockedInv'
<1>a. orch[o] \in Copies /\ row \in Rows /\ OrchLocked(row, orch[o])
  BY TypeParts DEF Shared, LockedInv
<1>1. orch[o].pc \in {"agent", "judge", "fix"} /\ UNCHANGED <<row, cli>>
  BY DEF AgentExits, AgentFails, Judge, FixExits
<1> DEFINE Turned(c) == /\ orch' = [orch EXCEPT ![o] = c] /\ c.pc \in InPhase
                        /\ c.todo = orch[o].todo /\ c.task = orch[o].task
           o1 == [orch[o] EXCEPT !.pc = IF Phase(o) = "verify" THEN "judge" ELSE "finish"]
           o2 == [orch[o] EXCEPT !.pc = "finish", !.outcome = "error"]
           o3 == IF files.pass THEN [orch[o] EXCEPT !.pc = "finish", !.outcome = "pass"]
                 ELSE IF orch[o].turn = MaxIterations
                   THEN [orch[o] EXCEPT !.pc = "finish", !.outcome = "fail"]
                 ELSE [orch[o] EXCEPT !.pc = "fix"]
           o4 == [orch[o] EXCEPT !.pc = "agent", !.turn = @ + 1]
<1>2. \E c : Turned(c)
  <2>1. AgentExits(o) => Turned(o1)
    BY <1>a DEF AgentExits, Copies, InPhase
  <2>2. AgentFails(o) => Turned(o2)
    BY <1>a DEF AgentFails, Copies, InPhase
  <2>3. Judge(o) => Turned(o3)
    BY <1>a DEF Judge, Copies, InPhase
  <2>4. FixExits(o) => Turned(o4)
    BY <1>a DEF FixExits, Copies, InPhase
  <2> HIDE DEF Turned
  <2> QED
    BY <2>1, <2>2, <2>3, <2>4
<1>3. PICK c : Turned(c)
  BY <1>2
<1>4. OrchLocked(row, c) /\ c.pc \notin Waiting /\ c.pc # "idle"
  BY <1>a, <1>1, <1>3 DEF OrchLocked, Fresh, Runs, Copying, InPhase, Waiting
<1> QED
  BY <1>a, <1>1, <1>3, <1>4, OrchKeepsLocked

\* A copy that is fresh is written: the row keeps its sessions, and its status
\* follows the table.
LEMMA FreshWritten ==
  ASSUME row \in Rows, NEW t \in Rows, NEW e, t.status = row.status, row.sess \subseteq t.sess,
         ApplyAndPersist(t, e)
  PROVE  /\ row' \in Rows /\ row.sess \subseteq row'.sess
         /\ row' = row \/ \E x \in transitions : x.From = row.status /\ x.To = row'.status
<1>1. CASE Legal(t.status, e)
  BY <1>1, StampedEdge DEF ApplyAndPersist
<1>2. CASE ~Legal(t.status, e)
  BY <1>2 DEF ApplyAndPersist
<1> QED
  BY <1>1, <1>2

\* The planner's end time becomes the only one.
LEMMA FirstEnd ==
  ASSUME NEW t \in Rows, t.ended = {} PROVE Ended(t, "plan").ended = {<<"plan", "plan">>}
<1>1. Cleared(t, "plan") \in Rows /\ Cleared(t, "plan").ended = {}
  BY DEF Cleared, Rows
<1> QED
  BY <1>1 DEF Ended, Rows

LEMMA EndedKeeps ==
  ASSUME NEW t \in Rows, NEW p \in Phases
  PROVE  /\ Ended(t, p) \in Rows /\ Ended(t, p).status = t.status
         /\ Ended(t, p).sess = t.sess
<1>1. Cleared(t, p) \in Rows /\ Cleared(t, p).status = t.status /\ Cleared(t, p).sess = t.sess
  <2>1. Cleared(t, p) \in Rows
    BY EndedTyped
  <2> QED
    BY <2>1 DEF Cleared, Rows
<1>2. Ended(t, p) \in Rows
  BY EndedTyped
<1>3. \A r \in Rows : \A s : [r EXCEPT !.ended = s].status = r.status
                           /\ [r EXCEPT !.ended = s].sess = r.sess
  BY DEF Rows
<1> QED
  BY <1>1, <1>2, <1>3 DEF Ended

\* A planner's end is always legal.
LEMMA PlanEnds == \A err \in BOOLEAN : Legal("planning", PlanFinishEvent(err))
<1>1. \A e \in {"PlanError", "PlanNeedsClarification", "PlanAwaitApproval", "PlanDone"} :
        \E s : [From |-> "planning", Event |-> e, To |-> s] \in transitions
  <2> DEFINE x(e, s) == [From |-> "planning", Event |-> e, To |-> s]
  <2>1. x("PlanError", "help") \in Edges({"planning"}, "help",
                                         {"PlanError", "PlanQuit", "ReaperPlanFail"})
    BY DEF Edges
  <2>2. x("PlanNeedsClarification", "needs-clarification")
          \in Edges({"planning"}, "needs-clarification",
                    {"PlanNeedsClarification", "ReaperPlanNeedsClarification"})
    BY DEF Edges
  <2>3. x("PlanAwaitApproval", "plan-pending-approval")
          \in Edges({"planning"}, "plan-pending-approval",
                    {"PlanAwaitApproval", "ReaperPlanAwaitApproval"})
    BY DEF Edges
  <2>4. x("PlanDone", "plan-done") \in Edges({"planning"}, "plan-done",
                                             {"PlanDone", "ReaperPlanDone"})
    BY DEF Edges
  <2>5. /\ x("PlanError", "help") \in transitions
        /\ x("PlanNeedsClarification", "needs-clarification") \in transitions
        /\ x("PlanAwaitApproval", "plan-pending-approval") \in transitions
        /\ x("PlanDone", "plan-done") \in transitions
    <3> HIDE DEF x
    <3> QED
      BY <2>1, <2>2, <2>3, <2>4 DEF transitions
  <2> QED
    BY <2>5
<1>2. \A err \in BOOLEAN :
        PlanFinishEvent(err) \in {"PlanError", "PlanNeedsClarification", "PlanAwaitApproval",
                                  "PlanDone"}
  BY DEF PlanFinishEvent
<1> QED
  BY <1>1, <1>2, LegalEdge

LEMMA FinishLocked ==
  ASSUME TypeInv, OwnInv, LockedInv, NEW o \in Orch, Finish(o) PROVE LockedInv'
<1> DEFINE t == Ended(orch[o].task, Phase(o))
           err == orch[o].outcome = "error"
           c == [orch[o] EXCEPT !.pc = IF err THEN "release" ELSE "next", !.todo = Tail(@),
                                !.task = NoRow, !.turn = 0, !.outcome = "none"]
<1>a. /\ orch[o] \in Copies /\ row \in Rows /\ orch[o].pc = "finish"
      /\ Fresh(row, orch[o]) /\ Runs(row, orch[o])
      /\ Phase(o) \in Phases /\ orch[o].task \in Rows
  BY TypeParts DEF Shared, LockedInv, OrchLocked, Finish, Copying, InPhase, AtWorkIn, Phase, Copies
<1>b. t \in Rows /\ t.status = row.status /\ row.sess \subseteq t.sess
  BY <1>a, EndedKeeps DEF Fresh
<1>1. PICK e : /\ ApplyAndPersist(t, e)
               /\ Phase(o) = "plan" => e = PlanFinishEvent(err)
  BY DEF Finish
<1>2. row' \in Rows /\ row.sess \subseteq row'.sess
  BY <1>a, <1>b, <1>1, FreshWritten
<1>3. /\ c.pc \in {"release", "next"} /\ c.todo = Tail(orch[o].todo)
      /\ orch' = [orch EXCEPT ![o] = c] /\ UNCHANGED cli
  BY <1>a DEF Finish, Copies
<1>4. orch[o].todo = Full => row'.ended = {<<"plan", "plan">>}
  <2> SUFFICES ASSUME orch[o].todo = Full PROVE row'.ended = {<<"plan", "plan">>}
    OBVIOUS
  <2>1. Phase(o) = "plan" /\ row.status = "planning" /\ orch[o].task.ended = {}
    BY <1>a DEF Phase, Full, Runs, FromWork
  <2>2. Legal(t.status, e) /\ t.ended = {<<"plan", "plan">>}
    BY <1>a, <1>b, <1>1, <2>1, PlanEnds, FirstEnd
  <2>3. row' = Stamped(t, e)
    BY <1>1, <2>2 DEF ApplyAndPersist
  <2> HIDE DEF t
  <2> QED
    BY <1>b, <2>2, <2>3, StampedEdge
<1>5. orch[o].todo \in {<<"plan">>, <<"work">>, <<"verify">>, Full, FromWork}
  BY <1>a DEF Runs
<1> HIDE DEF c
<1>6. OrchLocked(row', c) /\ c.todo \notin FirstChains
  <2>1. \/ orch[o].todo = Full /\ c.todo = FromWork
        \/ c.todo = <<>> \/ c.todo = <<"guard", "verify">>
    BY <1>3, <1>5, ChainTails
  <2>2. c.todo \notin FirstChains
    BY <2>1 DEF FirstChains, Full, FromWork
  <2>3. c.pc = "next" => Ready(row', c)
    BY <1>4, <2>1 DEF Ready
  <2> QED
    BY <1>3, <2>2, <2>3 DEF OrchLocked, Copying, InPhase, Waiting
<1> QED
  BY <1>a, <1>2, <1>3, <1>6, OrchKeepsLocked DEF Starts, Holding

LEMMA OrchestrateLocked ==
  ASSUME TypeInv, OwnInv, LockedInv, NEW o \in Orch, Orchestrate(o) \/ Capture(o)
  PROVE  LockedInv'
<1>a. orch[o] \in Copies /\ row \in Rows /\ OrchLocked(row, orch[o])
  BY TypeParts DEF Shared, LockedInv
<1>1. CASE FinaliseWrite(o)
  <2> DEFINE c == [orch[o] EXCEPT !.pc = "release", !.task = NoRow]
  <2>1. c.pc = "release"
    BY <1>a DEF Copies
  <2>2. /\ orch[o].pc = "stamp" /\ orch' = [orch EXCEPT ![o] = c] /\ UNCHANGED cli
        /\ ApplyAndPersist(orch[o].task, "VerifyStuck")
    BY <1>1 DEF FinaliseWrite, Step
  <2>3. row' \in Rows /\ row.sess \subseteq row'.sess
    BY <1>a, <2>2, FreshWritten DEF OrchLocked, Copying, Fresh, Copies
  <2> HIDE DEF c
  <2> QED
    BY <2>1, <2>2, <2>3, OrchKeepsLocked
       DEF OrchLocked, Copying, InPhase, Waiting, Holding
<1>2. CASE Capture(o)
  <2> DEFINE t == [orch[o].task EXCEPT !.sess = @ \cup {Phase(o)}]
             c == [orch[o] EXCEPT !.task = t]
  <2>1. /\ orch[o].pc = "agent" /\ orch' = [orch EXCEPT ![o] = c] /\ row' = t /\ UNCHANGED cli
        /\ Phase(o) \in Phases
    BY <1>2, TypeParts DEF Capture, AtWorkIn, Phase
  <2>2. /\ t \in Rows /\ t.status = row.status /\ row.sess \subseteq t.sess
        /\ t.ended = orch[o].task.ended
    BY <1>a, <2>1 DEF OrchLocked, Copying, Fresh, Copies, Rows
  <2>3. c.pc = "agent" /\ c.todo = orch[o].todo /\ c.task = t
    BY <1>a, <2>1 DEF Copies
  <2>4. Runs(t, c)
    BY <1>a, <2>1, <2>2, <2>3 DEF OrchLocked, InPhase, Runs, Asking
  <2> HIDE DEF c, t
  <2>5. OrchLocked(row', c)
    BY <2>1, <2>3, <2>4 DEF OrchLocked, Fresh, Waiting
  <2> QED
    BY <2>1, <2>2, <2>3, <2>5, OrchKeepsLocked DEF Waiting, Holding
<1> QED
  BY <1>1, <1>2, BeginLocked, LockLocked, TurnLocked, FinishLocked DEF Orchestrate

LEMMA DiesLocked ==
  ASSUME TypeInv, OwnInv, LockedInv, NEW o \in Orch, Dies(o), orch[o].pc # "idle", UNCHANGED cli
  PROVE  LockedInv'
<1> DEFINE c == [IdleOrch EXCEPT !.pc = "dead"]
<1>1. c.pc = "dead"
  BY DEF IdleOrch
<1>2. orch' = [orch EXCEPT ![o] = c] /\ UNCHANGED row /\ row \in Rows
  BY TypeParts DEF Dies, Shared
<1> HIDE DEF c
<1> QED
  BY <1>1, <1>2, OrchKeepsLocked DEF OrchLocked, Copying, InPhase, Waiting

--------------------------------------------------------------------------------
(* The steps of the user *)

LEMMA IssueLocked ==
  ASSUME TypeInv, LockedInv, RowUnderLock, Issue PROVE LockedInv'
<1>1. ~Replan /\ ~Continue /\ ~Discard
  BY DEF RowUnderLock, Replan, Continue, Discard, Command
<1>2. UNCHANGED <<row, orch>> /\ cli = IdleCli /\ IdleCli.step = "none"
  BY <1>1 DEF Issue, Start, Resume, Command, IdleCli
<1>3. Quiet => row = NoRow
  BY <1>2 DEF LockedInv
<1>4. CASE Start
  <2>1. ~("detach" \in Commands) /\ Quiet
    BY <1>4 DEF RowUnderLock, Start, Quiet
  <2>2. PICK gate : Run("persist", "spawn", PlanChain(gate))
    BY <1>4, <2>1 DEF Start, RunDetached
  <2>3. cli'.step = "persist" /\ cli'.next = "spawn" /\ cli'.todo \in FirstChains
    BY <2>2 DEF Run, PlanChain, FirstChains
  <2> QED
    BY <1>2, <1>3, <2>1, <2>3 DEF LockedInv, CliLocked, Quiet
<1>5. ASSUME NEW p \in Phases, Resume(p) PROVE LockedInv'
  <2>1. cli'.step = "takeover" /\ cli'.next = "spawn" /\ Resumes(row, cli'.todo)
    BY <1>5 DEF Resume, Run, Resumes
  <2> QED
    BY <1>2, <1>3, <2>1 DEF LockedInv, CliLocked, Quiet
<1> QED
  BY <1>1, <1>4, <1>5 DEF Issue

\* The start's row is written before there is an orchestrator.
LEMMA PersistLocked ==
  ASSUME TypeInv, LockedInv, PersistStartRow
  PROVE  LockedInv' /\ row = NoRow /\ row' = First
<1>1. /\ cli.step = "persist" /\ cli.next = "spawn" /\ cli.todo \in FirstChains
      /\ row = NoRow /\ Quiet /\ cli \in CliType
  BY TypeParts DEF LockedInv, CliLocked, PersistStartRow, At, IdleCli
<1>2. cli'.step = "spawn" /\ cli'.next = "none" /\ cli'.todo = cli.todo
  BY <1>1 DEF PersistStartRow, Done, CliType
<1>3. row' = First /\ UNCHANGED orch
  BY DEF PersistStartRow, First
<1>4. \A o \in Orch : orch'[o].pc = "idle"
  BY <1>1, <1>3 DEF Quiet, IdleOrch
<1> QED
  BY <1>1, <1>2, <1>3, <1>4
     DEF LockedInv, CliLocked, OrchLocked, Starts, Quiet, Copying, Waiting, InPhase

LEMMA SpawnLocked ==
  ASSUME TypeInv, LockedInv, NEW o \in Orch, Spawn(o) PROVE LockedInv'
<1> DEFINE c == [IdleOrch EXCEPT !.pc = "lock", !.todo = cli.todo]
<1>1. c.pc = "lock" /\ c.todo = cli.todo /\ IdleOrch.pc = "idle"
  BY DEF IdleOrch
<1>2. orch' = [orch EXCEPT ![o] = c] /\ UNCHANGED row /\ cli.step = "spawn"
  BY DEF Spawn, Step, At
<1> HIDE DEF c
<1>3. \A q \in Orch : orch'[q] = IF q = o THEN c ELSE orch[q]
  BY <1>2 DEF TypeInv, TypeOK
<1>4. /\ cli.next = "none" /\ row \in Rows
      /\ Resumes(row, cli.todo) \/ (Starts(row, cli.todo) /\ Quiet)
  BY <1>2, TypeParts DEF LockedInv, CliLocked, IdleCli, Shared
<1>5. cli' = IdleCli
  BY <1>4 DEF Spawn, Done
<1>6. OrchLocked(row, c)
  BY <1>1, <1>4 DEF OrchLocked, Ready, Copying, InPhase
<1>7. row = First => Quiet
  BY <1>4, FirstRow DEF Resumes
<1>8. ~Quiet'
  BY <1>1, <1>3 DEF Quiet
<1>9. ASSUME NEW p \in Orch, NEW q \in Orch, q # p,
             orch'[p].pc \in Waiting, Starts(row', orch'[p].todo)
      PROVE  orch'[q] = IdleOrch
  <2>1. Quiet
    BY <1>2, <1>7, <1>9 DEF Starts
  <2>2. p = o
    BY <1>1, <1>3, <1>9, <2>1 DEF Quiet, Waiting
  <2> QED
    BY <1>3, <1>9, <2>1, <2>2 DEF Quiet
<1> QED
  BY <1>2, <1>3, <1>5, <1>6, <1>8, <1>9 DEF LockedInv, CliLocked

LEMMA CarryLocked ==
  ASSUME TypeInv, OwnInv, LockedInv, Carry PROVE LockedInv'
<1>a. cli \in CliType /\ row \in Rows /\ IdleCli.step = "none"
  BY TypeParts DEF Shared, IdleCli
<1>b. cli.step \in {"none", "persist", "takeover", "wait", "spawn"}
  BY <1>a DEF LockedInv, CliLocked
<1>1. /\ ~DispatchPlanApprove /\ ~DispatchClarification /\ ~Dispatch
      /\ ~StampRead /\ ~StampWrite /\ ~DeleteTask /\ ~RemoveDir
  BY <1>b DEF DispatchPlanApprove, DispatchClarification, Dispatch, StampRead, StampWrite,
     DeleteTask, RemoveDir, At
<1>2. CASE Takeover \/ TakeoverDrained \/ TakeoverGivesUp
  <2>1. cli.step \in {"takeover", "wait"} /\ UNCHANGED <<row, orch>>
    BY <1>2 DEF Takeover, TakeoverDrained, TakeoverGivesUp, At
  <2>2. cli.next = "spawn" /\ Resumes(row, cli.todo)
    BY <1>a, <2>1 DEF LockedInv, CliLocked
  <2>3. row # NoRow /\ ~Quiet
    <3>1. row # NoRow
      BY <2>2 DEF Resumes, NoRow
    <3> QED
      BY <2>1, <3>1 DEF LockedInv
  <2>4. \/ cli' = IdleCli
        \/ cli'.step = "wait" /\ cli'.next = "spawn" /\ cli'.todo = cli.todo
        \/ cli'.step = "spawn" /\ cli'.next = "none" /\ cli'.todo = cli.todo
    BY <1>a, <1>2, <2>2 DEF Takeover, TakeoverDrained, TakeoverGivesUp, Done, CliType
  <2> QED
    BY <2>1, <2>2, <2>3, <2>4 DEF LockedInv, CliLocked, Quiet
<1>3. ASSUME NEW o \in Orch, TakeoverKill(o) PROVE LockedInv'
  <2> DEFINE c == [IdleOrch EXCEPT !.pc = "dead"]
  <2>1. cli.step = "wait" /\ orch' = [orch EXCEPT ![o] = c] /\ UNCHANGED <<row, cli>>
    BY <1>3 DEF TakeoverKill, At, Dies
  <2>2. c.pc = "dead" /\ IdleOrch.pc = "idle"
    BY DEF IdleOrch
  <2> HIDE DEF c
  <2>3. \A q \in Orch : orch'[q] = IF q = o THEN c ELSE orch[q]
    BY <2>1 DEF TypeInv, TypeOK
  <2>4. cli.next = "spawn" /\ Resumes(row, cli.todo)
    BY <1>a, <2>1 DEF LockedInv, CliLocked
  <2>5. CliLocked' /\ row # First
    BY <2>1, <2>4, FirstRow DEF CliLocked, Resumes
  <2>6. ~Quiet' /\ OrchLocked(row, c)
    BY <2>2, <2>3 DEF Quiet, OrchLocked, Copying, InPhase, Waiting
  <2> QED
    BY <2>1, <2>3, <2>5, <2>6 DEF LockedInv, Starts
<1> QED
  BY <1>1, <1>2, <1>3, PersistLocked, SpawnLocked DEF Carry

LEMMA LockedStep ==
  RowUnderLock /\ TypeInv /\ OwnInv /\ LockedInv /\ [Next]_vars => LockedInv'
<1> SUFFICES ASSUME RowUnderLock, TypeInv, OwnInv, LockedInv, [Next]_vars PROVE LockedInv'
  OBVIOUS
<1>1. ASSUME NEW o \in Orch, Kill(o) PROVE LockedInv'
  BY <1>1, DiesLocked DEF Kill, Running
<1>2. ASSUME NEW a \in orphans, OrphanExits(a) PROVE LockedInv'
  BY <1>2 DEF OrphanExits, LockedInv, CliLocked, Quiet
<1>3. CASE UNCHANGED vars
  BY <1>3 DEF vars, LockedInv, CliLocked, Quiet
<1>4. ASSUME NEW k \in Reaper PROVE FALSE
  BY <1>4 DEF RowUnderLock
<1> QED
  BY <1>1, <1>2, <1>3, <1>4, OrchestrateLocked, IssueLocked, CarryLocked DEF Next

--------------------------------------------------------------------------------
(* Theorems *)

\* Every reachable state satisfies the three invariants.
LEMMA AllLocked ==
  ASSUME RowUnderLock PROVE Spec => [](TypeInv /\ OwnInv /\ LockedInv)
<1>1. "discard" \notin Commands
  BY DEF RowUnderLock
<1>2. TypeInv /\ OwnInv /\ [Next]_vars => OwnInv'
  BY <1>1, OwnNext
<1>3. TypeInv /\ OwnInv /\ LockedInv /\ [Next]_vars => LockedInv'
  BY LockedStep
<1> QED
  BY <1>2, <1>3, TypeInit, TypeStep, OwnInit, LockedInit, PTL DEF Spec

\* "the verifier does NOT run on the same orchestrator invocation" when the worker
\* asked a question (verify_guard.go:12-17): of all the orchestrators of a task, none
\* has a verifier running while a question is open.
THEOREM VerifierCorrect == ASSUME RowUnderLock PROVE Spec => []VerifierWaitsForAnswer
<1>1. LockedInv => VerifierWaitsForAnswer
  <2> SUFFICES ASSUME LockedInv, Asking(row), NEW o \in Orch, Working(o, "verify") PROVE FALSE
    BY DEF VerifierWaitsForAnswer, Asking
  <2>1. Runs(row, orch[o]) /\ orch[o].todo # <<>> /\ Head(orch[o].todo) = "verify"
    BY DEF LockedInv, OrchLocked, InPhase, Working, Phase
  <2> QED
    BY <2>1 DEF Runs, Full, FromWork, Asking
<1> QED
  BY <1>1, AllLocked, PTL

Along == \E x \in transitions : x.From = row.status /\ x.To = row'.status

Asked == Asking(row) /\ Asking(row')

\* What a step does to the row: nothing, an edge of the table, or it keeps a status
\* that is not an open question, or it records a session and keeps the asker.
Moves ==
  \/ row' = row \/ Along
  \/ row'.status = row.status /\ (Asking(row) => latestPhase(row') = latestPhase(row))

\* The planner's end decides, whatever sessions there are.
LEMMA PlanAsked ==
  ASSUME NEW t, NEW u, t.ended = {<<"plan", "plan">>}, u.ended = {<<"plan", "plan">>}
  PROVE  latestPhase(t) = latestPhase(u)
<1> DEFINE last(r) == {p \in Phases : <<p, p>> \in r.ended /\ \A e \in r.ended : <<e[1], p>> \in r.ended}
<1>1. last(t) = {"plan"} /\ last(u) = {"plan"}
  BY DEF Phases
<1> QED
  BY <1>1 DEF latestPhase

LEMMA OrchestrateMoves ==
  ASSUME TypeInv, OwnInv, LockedInv, NEW o \in Orch, Orchestrate(o) \/ Capture(o) PROVE Moves
<1>a. orch[o] \in Copies /\ row \in Rows /\ OrchLocked(row, orch[o])
  BY TypeParts DEF Shared, LockedInv
<1>1. CASE \/ BeginPlan(o) \/ BeginWork(o) \/ BeginVerify(o)
           \/ BeginPlanResume(o) /\ Legal(orch[o].task.status, "PlanResume")
  <2>1. orch[o].task = row
    BY <1>1, <1>a DEF BeginPlan, BeginWork, BeginVerify, BeginPlanResume, AtBegin, OrchLocked
  <2>2. \E u : Begun(row, u)
    BY <1>1, <2>1, PlanBegun, PlanResumed, WorkBegun, VerifyBegun
  <2> QED
    BY <2>2 DEF Begun, Moves, Along, InFlight, Asking
<1>2. CASE Finish(o)
  <2>1. PICK e : ApplyAndPersist(Ended(orch[o].task, Phase(o)), e)
    BY <1>2 DEF Finish
  <2>2. Phase(o) \in Phases /\ Fresh(row, orch[o]) /\ orch[o].task \in Rows
    BY <1>2, <1>a, TypeParts DEF Finish, AtWorkIn, Phase, OrchLocked, Copying, Copies
  <2> QED
    BY <1>a, <2>1, <2>2, EndedKeeps, FreshWritten DEF Fresh, Moves, Along
<1>3. CASE FinaliseWrite(o)
  <2>1. Fresh(row, orch[o]) /\ orch[o].task \in Rows /\ ApplyAndPersist(orch[o].task, "VerifyStuck")
    BY <1>3, <1>a DEF FinaliseWrite, Step, OrchLocked, Copying, Copies
  <2> QED
    BY <1>a, <2>1, FreshWritten DEF Fresh, Moves, Along
<1>4. CASE Capture(o)
  <2> DEFINE t == [orch[o].task EXCEPT !.sess = @ \cup {Phase(o)}]
  <2>1. row' = t /\ Fresh(row, orch[o]) /\ Runs(row, orch[o]) /\ orch[o].task \in Rows
    BY <1>4, <1>a DEF Capture, OrchLocked, Copying, InPhase, Copies
  <2>2. t.status = row.status /\ t.ended = orch[o].task.ended
    BY <2>1 DEF Fresh, Rows
  <2>3. Asking(row) => orch[o].task.ended = {<<"plan", "plan">>} /\ row.ended = {<<"plan", "plan">>}
    BY <2>1 DEF Runs, Asking
  <2> HIDE DEF t
  <2> QED
    BY <2>1, <2>2, <2>3, PlanAsked DEF Moves
<1> QED
  BY <1>1, <1>2, <1>3, <1>4
     DEF Orchestrate, Moves, AcquireLock, Contended, Resolve, ResolveFails, BeginPlanResume, VerifyGuard,
         AgentExits, AgentFails, Judge, FixExits, FinaliseRead, ReleaseLock

LEMMA StepMoves ==
  RowUnderLock /\ TypeInv /\ OwnInv /\ LockedInv /\ [Next]_vars => Moves
<1> SUFFICES ASSUME RowUnderLock, TypeInv, OwnInv, LockedInv, [Next]_vars PROVE Moves
  OBVIOUS
<1>1. CASE Issue
  BY <1>1 DEF RowUnderLock, Issue, Start, Replan, Continue, Discard, Resume, Moves
<1>2. CASE Carry
  <2>1. CASE PersistStartRow
    <3>1. row = NoRow /\ row' = Stamped(NoRow, "PlanBegin") /\ NoRow.status = New
      BY <2>1, PersistLocked DEF First, NoRow
    <3>2. Along
      BY <3>1, NoRowTyped, NewBegins, StampedEdge DEF Along
    <3> QED
      BY <3>2 DEF Moves
  <2>2. cli.step \in {"none", "persist", "takeover", "wait", "spawn"}
    BY DEF LockedInv, CliLocked, IdleCli
  <2> QED
    BY <1>2, <2>1, <2>2 DEF Carry, DispatchPlanApprove, DispatchClarification, Dispatch, At,
       StampRead, StampWrite, Takeover, TakeoverDrained, TakeoverGivesUp, DeleteTask, RemoveDir,
       Spawn, TakeoverKill, Dies, Moves
<1>3. ASSUME NEW o \in Orch, Kill(o) PROVE Moves
  BY <1>3 DEF Kill, Dies, Moves
<1>4. ASSUME NEW a \in orphans, OrphanExits(a) PROVE Moves
  BY <1>4 DEF OrphanExits, Moves
<1>5. CASE UNCHANGED vars
  BY <1>5 DEF vars, Moves
<1>6. ASSUME NEW k \in Reaper PROVE FALSE
  BY <1>6 DEF RowUnderLock
<1> QED
  BY <1>1, <1>2, <1>3, <1>4, <1>5, <1>6, OrchestrateMoves DEF Next

\* "the single source of truth" (fsm.go:5): whatever copies the orchestrators of a task
\* write back, through takeovers and kills, the status on disk only ever moves along
\* an edge of the transition table.
THEOREM StatusCorrect == ASSUME RowUnderLock PROVE Spec => StatusFollowsTable
<1>1. Moves => (row'.status # row.status =>
                  \E t \in transitions : t.From = row.status /\ t.To = row'.status)
  BY DEF Moves, Along
<1> QED
  BY <1>1, StepMoves, AllLocked, PTL DEF Spec, StatusFollowsTable

\* The phase that `continue` resumes (newestResumablePhase) is the one whose agent asked:
\* it stays the same for as long as the question is open.
THEOREM AskerCorrect == ASSUME RowUnderLock PROVE Spec => AskerKept
<1>1. Along => ~Asked
  BY DEF Along, Asked, Asking, transitions, Edges, Restartable, New
<1>2. Moves => (row.status = "needs-clarification" /\ row'.status = "needs-clarification"
                  => latestPhase(row') = latestPhase(row))
  BY <1>1 DEF Moves, Asked, Asking
<1> QED
  BY <1>2, StepMoves, AllLocked, PTL DEF Spec, AskerKept

================================================================================
