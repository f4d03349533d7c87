------------------------------ MODULE CodeReview ------------------------------
(***************************************************************************)
(* `j tasks code-review`: review rounds of a task's pull request.          *)
(*                                                                         *)
(* A command checks the task, forks a child, and the child, under the      *)
(* task's flock, resumes the latest round when that round asked a question *)
(* (clarification.md exists) or allocates the next one, fetches the pull   *)
(* request's feedback into review.toml, runs the planner on it, waits for  *)
(* the planner and validates what it left.                                 *)
(*                                                                         *)
(* The planner is a coding agent, a process of its own: it may write its   *)
(* round's files in any order and in any number of steps, well or badly,   *)
(* and it survives the child that started it, for nothing in this child    *)
(* forwards a signal.                                                      *)
(***************************************************************************)
EXTENDS Naturals, Sequences, FiniteSets

CONSTANTS Command,     \* running `j tasks code-review` processes
          Feedback,    \* source ids of the comments of the pull request
          Invented,    \* a source id that GitHub never returned
          NoOne,       \* nobody holds the lock
          Orchestrator,\* the task's orchestrator, as a holder of the lock
          NoFile,      \* review.toml is missing or does not parse
          MaxRounds    \* bound on round-N directories

ASSUME RoundsAssumption == MaxRounds \in Nat \ {0}
ASSUME NamesAssumption == /\ Invented \notin Feedback
                          /\ NoOne \notin Command
                          /\ Orchestrator \notin Command \union {NoOne}

VARIABLES row,      \* what the guard reads of the task's row
          lock,     \* holder of the task's flock
          rounds,   \* code-reviews/round-N: review.toml, plan.md, clarification.md
          pc,       \* where each command is
          rd,       \* the round of each command (0: none yet)
          resumed,  \* whether that round was resumed
          snap,     \* originalIDs, the validator's snapshot
          planner,  \* the planner process each command started
          fetched   \* history: the ids GitHub returned for each round

vars == <<row, lock, rounds, pc, rd, resumed, snap, planner, fetched>>

-----------------------------------------------------------------------------
(* Data.                                                                    *)

Ids == Feedback \union {Invented}

TopDecisions == {"changes_needed", "no_changes_needed", "clarification_needed"}

\* Of the items the validator reads the ids, whether one occurs twice, and
\* whether some item is invalid ("bad"), none is accepted ("plain") or some
\* item is ("accepted").
ReviewFile == [decision : TopDecisions \union {"unset"}, ids : SUBSET Ids,
               twice : BOOLEAN, verdicts : {"bad", "plain", "accepted"}]

\* clarification.md as the checks tell it apart; of plan.md they tell whether
\* there is a non-empty one.
Content == {"none", "empty", "text"}

Round == [toml : ReviewFile \union {NoFile}, plan : BOOLEAN, clar : Content]

EmptyRound == [toml |-> NoFile, plan |-> FALSE, clar |-> "none"]

\* What FetchAndWriteReview saves: every fetched item, nothing decided.
Fetched(ids) == [decision |-> "unset", ids |-> ids, twice |-> FALSE,
                 verdicts |-> IF ids = {} THEN "plain" ELSE "bad"]

\* "valid" is a child that ended with a valid round, "idle" one that did not.
Ended == {"idle", "valid"}

Pcs == Ended \union {"spawned", "locked", "allocated", "prepared", "waiting",
                     "validating"}

Inside == {c \in Command : pc[c] \notin Ended \union {"spawned"}}

Planners == {"none", "running", "orphan"}

TypeOK ==
  /\ row \in [pr : BOOLEAN, busy : BOOLEAN]
  /\ lock \in Command \union {NoOne, Orchestrator}
  /\ rounds \in Seq(Round) /\ Len(rounds) <= MaxRounds
  /\ pc \in [Command -> Pcs]
  /\ rd \in [Command -> 0 .. Len(rounds)]
  /\ resumed \in [Command -> BOOLEAN]
  /\ snap \in [Command -> SUBSET Ids]
  /\ planner \in [Command -> Planners]
  /\ fetched \in Seq(SUBSET Feedback) /\ Len(fetched) = Len(rounds)
  /\ \A c \in Command : /\ c \in Inside => lock = c
                        /\ pc[c] = "waiting" => planner[c] \in {"none", "running"}
                        /\ planner[c] = "running" => pc[c] = "waiting"
                        /\ planner[c] # "none" => rd[c] > 0

Init ==
  /\ row \in [pr : BOOLEAN, busy : {FALSE}]
  /\ lock = NoOne
  /\ rounds = <<>>
  /\ pc = [c \in Command |-> "idle"]
  /\ rd = [c \in Command |-> 0]
  /\ resumed = [c \in Command |-> FALSE]
  /\ snap = [c \in Command |-> {}]
  /\ planner = [c \in Command |-> "none"]
  /\ fetched = <<>>

-----------------------------------------------------------------------------
(* The parent process.                                                      *)

\* A review needs a pull request and a task nobody is planning, working on
\* or verifying.
GuardCodeReviewTask == row.pr /\ ~row.busy

\* The parent checks the row it read without the lock and spawns the child;
\* its other refusals (no such task, no token) leave nothing behind.  A slot
\* is reused once the planner of its previous review is gone.
Start(c) ==
  /\ pc[c] \in Ended /\ planner[c] = "none"
  /\ GuardCodeReviewTask
  /\ pc' = [pc EXCEPT ![c] = "spawned"]
  /\ UNCHANGED <<row, lock, rounds, rd, resumed, snap, planner, fetched>>

-----------------------------------------------------------------------------
(* The child process.                                                       *)

\* The deferred Release, on every way out of the child; its local variables
\* are gone, but for the round number while its planner lives on.
Return(c, end) ==
  /\ pc' = [pc EXCEPT ![c] = end]
  /\ lock' = IF lock = c THEN NoOne ELSE lock
  /\ rd' = [rd EXCEPT ![c] = IF planner[c] = "none" THEN 0 ELSE @]
  /\ resumed' = [resumed EXCEPT ![c] = FALSE]
  /\ snap' = [snap EXCEPT ![c] = {}]

\* The lock left out: two children may be inside at once.
AcquireLock_blind(c) ==
  /\ pc[c] = "spawned"
  /\ pc' = [pc EXCEPT ![c] = "locked"] /\ lock' = c
  /\ UNCHANGED <<row, rounds, rd, resumed, snap, planner, fetched>>

\* AcquireLock: a contended lock ends the child.
AcquireLock(c) ==
  /\ pc[c] = "spawned"
  /\ IF lock = NoOne
       THEN /\ lock' = c /\ pc' = [pc EXCEPT ![c] = "locked"]
            /\ UNCHANGED <<rd, resumed, snap>>
       ELSE Return(c, "idle")
  /\ UNCHANGED <<row, rounds, planner, fetched>>

HasClarification(n) == rounds[n].clar # "none"

\* The latest round is used again when it has no plan yet.
ResolveOrAllocate_reusing(c) ==
  LET latest == Len(rounds)
      use == IF latest > 0 /\ ~rounds[latest].plan
               THEN latest ELSE latest + 1 IN
  /\ pc[c] = "locked" /\ use <= MaxRounds
  /\ pc' = [pc EXCEPT ![c] = "allocated"]
  /\ rounds' = IF use > latest THEN Append(rounds, EmptyRound) ELSE rounds
  /\ fetched' = IF use > latest THEN Append(fetched, {}) ELSE fetched
  /\ rd' = [rd EXCEPT ![c] = use]
  /\ resumed' = [resumed EXCEPT
                   ![c] = latest > 0 /\ use = latest /\ HasClarification(use)]
  /\ UNCHANGED <<row, lock, snap, planner>>

\* ResolveOrAllocate after the second look at the row, now under the lock.
ResolveOrAllocate(c) ==
  LET latest == Len(rounds) IN
  /\ pc[c] = "locked"
  /\ IF ~GuardCodeReviewTask
       THEN Return(c, "idle") /\ UNCHANGED <<rounds, fetched>>
       ELSE /\ pc' = [pc EXCEPT ![c] = "allocated"]
            /\ UNCHANGED <<lock, snap>>
            /\ IF latest > 0 /\ HasClarification(latest)
                 THEN /\ rd' = [rd EXCEPT ![c] = latest]
                      /\ resumed' = [resumed EXCEPT ![c] = TRUE]
                      /\ UNCHANGED <<rounds, fetched>>
                 ELSE /\ latest < MaxRounds
                      /\ rounds' = Append(rounds, EmptyRound)
                      /\ fetched' = Append(fetched, {})
                      /\ rd' = [rd EXCEPT ![c] = latest + 1]
                      /\ UNCHANGED resumed
  /\ UNCHANGED <<row, planner>>

\* prepareRoundReview of a fresh round: fetch and save.
FetchAndWriteReview(c) ==
  /\ pc[c] = "allocated" /\ ~resumed[c]
  /\ \E ids \in SUBSET Feedback :
       /\ rounds' = [rounds EXCEPT ![rd[c]].toml = Fetched(ids)]
       /\ fetched' = [fetched EXCEPT ![rd[c]] = ids]
       /\ snap' = [snap EXCEPT ![c] = ids]
  /\ pc' = [pc EXCEPT ![c] = "prepared"]
  /\ UNCHANGED <<row, lock, rd, resumed, planner>>

\* ... or the URL does not parse, GitHub fails, or the file cannot be
\* written: the allocated directory stays, empty.
FetchFails(c) ==
  /\ pc[c] = "allocated" /\ ~resumed[c]
  /\ Return(c, "idle")
  /\ UNCHANGED <<row, rounds, planner, fetched>>

\* prepareRoundReview of a resumed round: the file as the last planner left
\* it is what this validation will be measured against.
LoadReview(c) ==
  LET toml == rounds[rd[c]].toml IN
  /\ pc[c] = "allocated" /\ resumed[c]
  /\ IF toml = NoFile
       THEN Return(c, "idle")
       ELSE /\ snap' = [snap EXCEPT ![c] = toml.ids]
            /\ pc' = [pc EXCEPT ![c] = "prepared"]
            /\ UNCHANGED <<lock, rd, resumed>>
  /\ UNCHANGED <<row, rounds, planner, fetched>>

\* runCodeReviewPlanner: the planner is spawned, or there is no agent, it
\* does not review, or its binary does not start.
StartPlanner(c) ==
  /\ pc[c] = "prepared"
  /\ \/ /\ planner' = [planner EXCEPT ![c] = "running"]
        /\ pc' = [pc EXCEPT ![c] = "waiting"]
        /\ UNCHANGED <<lock, rd, resumed, snap>>
     \/ Return(c, "idle") /\ UNCHANGED planner
  /\ UNCHANGED <<row, rounds, fetched>>

\* waitOrTerminate: WaitForExit returns once the planner is gone.
PlannerGone(c) ==
  /\ pc[c] = "waiting" /\ planner[c] = "none"
  /\ pc' = [pc EXCEPT ![c] = "validating"]
  /\ UNCHANGED <<row, lock, rounds, rd, resumed, snap, planner, fetched>>

\* Set membership without the count of each id.
ValidatePost_membership(f, original) ==
  /\ f.decision \in TopDecisions
  /\ f.ids = original
  /\ f.verdicts # "bad"

\* Every snapshot id exactly once, none invented, a decision, valid items.
ValidatePost(f, original) ==
  /\ f.decision \in TopDecisions
  /\ f.ids = original
  /\ ~f.twice
  /\ f.verdicts # "bad"

\* The decision believed without its clarification.md.
ValidateRound_trusting(r, original) ==
  /\ r.toml # NoFile
  /\ ValidatePost(r.toml, original)
  /\ r.toml.decision = "changes_needed"
       => r.toml.verdicts = "accepted" /\ r.plan

\* ... and the files the decision calls for.
ValidateRound(r, original) ==
  /\ r.toml # NoFile
  /\ ValidatePost(r.toml, original)
  /\ r.toml.decision = "changes_needed"
       => r.toml.verdicts = "accepted" /\ r.plan
  /\ r.toml.decision = "clarification_needed" => r.clar = "text"

\* ValidateReviewRound, then the deferred Release.
Validate(c) ==
  /\ pc[c] = "validating"
  /\ Return(c, IF ValidateRound(rounds[rd[c]], snap[c]) THEN "valid" ELSE "idle")
  /\ UNCHANGED <<row, rounds, planner, fetched>>

\* A resume command takes the lock over, or the child dies by itself: SIGTERM
\* has its default effect here, the kernel drops the flock, and the planner
\* lives on.
Kill(c) ==
  /\ pc[c] \notin Ended
  /\ Return(c, "idle")
  /\ planner' = [planner EXCEPT ![c] = IF @ = "running" THEN "orphan" ELSE @]
  /\ UNCHANGED <<row, rounds, fetched>>

-----------------------------------------------------------------------------
(* The planner process of a command: the files of its round.                *)

Alive(c) == planner[c] # "none"

\* What a planner may leave in review.toml: the items it found, decided, or
\* with one of them lost, invented or written twice.
Rewrites(f) ==
  LET Decided(d, ids, b, v) ==
        [decision |-> d, ids |-> ids, twice |-> b, verdicts |-> v]
  IN  {Decided(d, f.ids, FALSE, "plain") : d \in TopDecisions}
        \union {Decided("changes_needed", f.ids, FALSE,
                        IF f.ids = {} THEN "plain" ELSE "accepted"),
                Decided("no_changes_needed", f.ids, f.ids # {}, "plain"),
                Decided("no_changes_needed", f.ids \union {Invented}, FALSE, "plain")}
        \union {Decided("no_changes_needed", f.ids \ {i}, FALSE, "plain") : i \in f.ids}

\* The rewrite may leave no readable file at all.
Rewrite(c) ==
  LET n == rd[c] IN
  /\ Alive(c) /\ rounds[n].toml # NoFile
  /\ \E f \in Rewrites(rounds[n].toml) \union {NoFile} :
       rounds' = [rounds EXCEPT ![n].toml = f]
  /\ UNCHANGED <<row, lock, pc, rd, resumed, snap, planner, fetched>>

\* A plan.md with something in it.
WritePlan(c) ==
  /\ Alive(c)
  /\ rounds' = [rounds EXCEPT ![rd[c]].plan = TRUE]
  /\ UNCHANGED <<row, lock, pc, rd, resumed, snap, planner, fetched>>

\* The planner asks, or reads the answer and deletes the file.
Clarify(c) ==
  /\ Alive(c)
  /\ \E t \in Content : rounds' = [rounds EXCEPT ![rd[c]].clar = t]
  /\ UNCHANGED <<row, lock, pc, rd, resumed, snap, planner, fetched>>

PlannerExits(c) ==
  /\ Alive(c)
  /\ planner' = [planner EXCEPT ![c] = "none"]
  /\ rd' = [rd EXCEPT ![c] = IF pc[c] \in Ended THEN 0 ELSE @]
  /\ UNCHANGED <<row, lock, rounds, pc, resumed, snap, fetched>>

-----------------------------------------------------------------------------
(* The rest of the task.                                                    *)

\* An orchestrator takes the lock and moves the row to planning, working or
\* verifying; it ends with or without a final status and with or without
\* having opened a pull request.
OrchestratorAcquires ==
  /\ lock = NoOne
  /\ lock' = Orchestrator
  /\ row' = [row EXCEPT !.busy = TRUE]
  /\ UNCHANGED <<rounds, pc, rd, resumed, snap, planner, fetched>>

OrchestratorEnds ==
  /\ lock = Orchestrator
  /\ lock' = NoOne
  /\ \E pr \in {row.pr, TRUE}, b \in BOOLEAN : row' = [pr |-> pr, busy |-> b]
  /\ UNCHANGED <<rounds, pc, rd, resumed, snap, planner, fetched>>

\* A reaper finalises a row left busy by a dead orchestrator.
Reap ==
  /\ lock = NoOne /\ row.busy
  /\ row' = [row EXCEPT !.busy = FALSE]
  /\ UNCHANGED <<lock, rounds, pc, rd, resumed, snap, planner, fetched>>

Child(c) == \/ AcquireLock(c) \/ ResolveOrAllocate(c)
            \/ FetchAndWriteReview(c) \/ FetchFails(c) \/ LoadReview(c)
            \/ StartPlanner(c) \/ PlannerGone(c) \/ Validate(c)

Agent(c) == Rewrite(c) \/ WritePlan(c) \/ Clarify(c) \/ PlannerExits(c)

Next == \/ \E c \in Command : Start(c) \/ Child(c) \/ Kill(c) \/ Agent(c)
        \/ OrchestratorAcquires \/ OrchestratorEnds \/ Reap

Spec == Init /\ [][Next]_vars

-----------------------------------------------------------------------------
(* Properties.                                                              *)

\* The planner a review started on a fresh round is the only process writing
\* in that round's directory, whatever planners the killed reviews before it
\* left behind: a fresh round never has the number of an earlier one
\* (ResolveOrAllocate under the flock, round.go).
FreshRoundUndisturbed ==
  \A c, d \in Command :
    (c # d /\ c \in Inside /\ rd[c] > 0 /\ ~resumed[c] /\ Alive(d))
      => rd[d] # rd[c]

\* A review that ends well on a fresh round ends with every comment GitHub
\* returned in review.toml, once each, and nothing else (ValidatePost).
Whole(n) == rounds[n].toml.ids = fetched[n] /\ ~rounds[n].toml.twice

FreshRoundWhole ==
  [][\A c \in Command :
       (pc[c] # "valid" /\ pc'[c] = "valid" /\ ~resumed[c]) => Whole(rd[c])]_vars

\* A review that ends well with a question ends on the latest round and leaves
\* the question there, where the next review looks for it (ValidateRound under
\* the flock, ResolveOrAllocate).
QuestionFoundByNext ==
  [][\A c \in Command :
       (/\ pc[c] # "valid" /\ pc'[c] = "valid"
        /\ rounds[rd[c]].toml.decision = "clarification_needed")
         => rd[c] = Len(rounds) /\ HasClarification(rd[c])]_vars

\* The same as FreshRoundWhole for every review, resumed ones too.
\* validate.go:30-31: "every original source_id is still present exactly once".
FeedbackNeverLost ==
  [][\A c \in Command :
       (pc[c] # "valid" /\ pc'[c] = "valid") => Whole(rd[c])]_vars

\* A planner still writing in a round is alone in it, as the comment on
\* waitOrTerminate (code_review_child.go:166-172) says of a later review and
\* the planner of an earlier one.
OnePlannerPerRound ==
  \A c, d \in Command : c # d /\ Alive(c) /\ Alive(d) => rd[c] # rd[d]
=============================================================================
