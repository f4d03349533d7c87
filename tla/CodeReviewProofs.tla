--------------------------- MODULE CodeReviewProofs ---------------------------
(***************************************************************************)
(* Proofs about CodeReview, for any number of commands, comments and       *)
(* rounds.  A fresh round is numbered past every earlier one while the     *)
(* flock is held, so whatever planners earlier reviews left behind write   *)
(* in other rounds; and what a fresh round's file is validated against is  *)
(* what GitHub returned for that round.  Both need to know what a          *)
(* command's local variables are between its reviews.                      *)
(***************************************************************************)
EXTENDS CodeReview, TLAPS

\* A child has a planner only once it has started one, and a round only once
\* it resolved one; a round number outlives the child while its planner does.
LocalsOK ==
  \A c \in Command :
    /\ pc[c] \in {"spawned", "locked", "allocated", "prepared"} => planner[c] = "none"
    /\ pc[c] \in {"spawned", "locked"} => rd[c] = 0
    /\ pc[c] \in {"allocated", "prepared", "waiting", "validating"} => rd[c] > 0
    /\ pc[c] \in Ended /\ planner[c] = "none" => rd[c] = 0
    /\ pc[c] \in {"idle", "valid", "spawned", "locked"} => ~resumed[c]

\* A child on a fresh round measures it by what was fetched for it.
SnapIsFetched ==
  \A c \in Command :
    pc[c] \in {"prepared", "waiting", "validating"} /\ ~resumed[c]
      => snap[c] = fetched[rd[c]]

\* While a child has the flock nobody else adds a round.
OnLatest == \A c \in Command : c \in Inside /\ rd[c] > 0 => rd[c] = Len(rounds)

IInv == TypeOK /\ LocalsOK /\ FreshRoundUndisturbed /\ SnapIsFetched /\ OnLatest

--------------------------------------------------------------------------------
LEMMA InitIInv == Init => IInv
<1> SUFFICES ASSUME Init PROVE IInv
  OBVIOUS
<1> USE NamesAssumption, RoundsAssumption
<1>1. TypeOK
  <2>1. /\ rounds \in Seq(Round) /\ Len(rounds) = 0
        /\ fetched \in Seq(SUBSET Feedback) /\ Len(fetched) = 0
    BY DEF Init
  <2>2. /\ pc \in [Command -> Pcs] /\ planner \in [Command -> Planners]
        /\ rd \in [Command -> 0 .. Len(rounds)]
        /\ resumed \in [Command -> BOOLEAN] /\ snap \in [Command -> SUBSET Ids]
    BY <2>1 DEF Init, Pcs, Ended, Planners
  <2>3. \A c \in Command : pc[c] = "idle" /\ planner[c] = "none" /\ c \notin Inside
    BY DEF Init, Inside, Ended
  <2>4. row \in [pr : BOOLEAN, busy : BOOLEAN] /\ lock \in Command \union {NoOne, Orchestrator}
    BY DEF Init
  <2> QED
    BY <2>1, <2>2, <2>3, <2>4 DEF TypeOK
<1>2. LocalsOK /\ FreshRoundUndisturbed /\ SnapIsFetched /\ OnLatest
  BY DEF Init, LocalsOK, FreshRoundUndisturbed, SnapIsFetched, OnLatest, Ended, Inside, Alive
<1> QED
  BY <1>1, <1>2 DEF IInv

\* A planner leaves a review.toml of the right shape, or none.
LEMMA RewritesType ==
  ASSUME NEW f \in ReviewFile PROVE Rewrites(f) \subseteq ReviewFile
<1>1. f.ids \in SUBSET Ids /\ f.ids \union {Invented} \in SUBSET Ids
  BY DEF ReviewFile, Ids
<1>2. \A i \in f.ids : f.ids \ {i} \in SUBSET Ids
  BY <1>1
<1>3. \A d \in TopDecisions, ids \in SUBSET Ids, b \in BOOLEAN,
         v \in {"bad", "plain", "accepted"} :
        [decision |-> d, ids |-> ids, twice |-> b, verdicts |-> v] \in ReviewFile
  BY DEF ReviewFile
<1>4. "changes_needed" \in TopDecisions /\ "no_changes_needed" \in TopDecisions
  BY DEF TopDecisions
<1> SUFFICES ASSUME NEW g \in Rewrites(f) PROVE g \in ReviewFile
  OBVIOUS
<1>5. \E d \in TopDecisions, ids \in SUBSET Ids, b \in BOOLEAN,
         v \in {"bad", "plain", "accepted"} :
        g = [decision |-> d, ids |-> ids, twice |-> b, verdicts |-> v]
  <2>1. CASE \E d \in TopDecisions :
               g = [decision |-> d, ids |-> f.ids, twice |-> FALSE, verdicts |-> "plain"]
    BY <2>1, <1>1
  <2>2. CASE \E v \in {"plain", "accepted"} :
               g = [decision |-> "changes_needed", ids |-> f.ids, twice |-> FALSE,
                    verdicts |-> v]
    BY <2>2, <1>1, <1>4
  <2>3. CASE \E b \in BOOLEAN :
               g = [decision |-> "no_changes_needed", ids |-> f.ids, twice |-> b,
                    verdicts |-> "plain"]
    BY <2>3, <1>1, <1>4
  <2>4. CASE \E ids \in {f.ids \union {Invented}} \union {f.ids \ {i} : i \in f.ids} :
               g = [decision |-> "no_changes_needed", ids |-> ids, twice |-> FALSE,
                    verdicts |-> "plain"]
    BY <2>4, <1>1, <1>2, <1>4
  <2>5. \/ \E d \in TopDecisions :
             g = [decision |-> d, ids |-> f.ids, twice |-> FALSE, verdicts |-> "plain"]
        \/ g = [decision |-> "changes_needed", ids |-> f.ids, twice |-> FALSE,
                verdicts |-> IF f.ids = {} THEN "plain" ELSE "accepted"]
        \/ g = [decision |-> "no_changes_needed", ids |-> f.ids, twice |-> f.ids # {},
                verdicts |-> "plain"]
        \/ g = [decision |-> "no_changes_needed", ids |-> f.ids \union {Invented},
                twice |-> FALSE, verdicts |-> "plain"]
        \/ \E i \in f.ids :
             g = [decision |-> "no_changes_needed", ids |-> f.ids \ {i},
                  twice |-> FALSE, verdicts |-> "plain"]
    BY Zenon DEF Rewrites
  <2> QED
    BY <2>1, <2>2, <2>3, <2>4, <2>5
<1> QED
  BY <1>3, <1>5

\* The same for every file a planner leaves in a round.
LEMMA RoundFields ==
  ASSUME NEW r \in Round
  PROVE  /\ \A f \in ReviewFile \union {NoFile} : [r EXCEPT !.toml = f] \in Round
         /\ [r EXCEPT !.plan = TRUE] \in Round
         /\ \A t \in Content : [r EXCEPT !.clar = t] \in Round
         /\ r.toml \in ReviewFile \union {NoFile}
BY DEF Round

\* The fetched items make a review.toml.
LEMMA FetchedType ==
  ASSUME NEW ids \in SUBSET Feedback PROVE Fetched(ids) \in ReviewFile
<1>1. ids \in SUBSET Ids
  BY DEF Ids
<1> QED
  BY <1>1 DEF Fetched, ReviewFile

\* Changing one field of one round leaves a sequence of as many rounds.
LEMMA RoundUpdate ==
  ASSUME NEW s \in Seq(Round), NEW n \in 1 .. Len(s), NEW r \in Round
  PROVE  /\ [s EXCEPT ![n] = r] \in Seq(Round)
         /\ Len([s EXCEPT ![n] = r]) = Len(s)
OBVIOUS

\* The rounds and the local variables keep their types.
LEMMA TypeStep ==
  ASSUME TypeOK, LocalsOK, NEW c \in Command,
         Start(c) \/ Child(c) \/ Kill(c) \/ Agent(c)
  PROVE  TypeOK'
<1> USE NamesAssumption, RoundsAssumption
<1> DEFINE Rounds == rounds \in Seq(Round) /\ Len(rounds) <= MaxRounds
           Rest == /\ row \in [pr : BOOLEAN, busy : BOOLEAN]
                   /\ lock \in Command \union {NoOne, Orchestrator}
                   /\ pc \in [Command -> Pcs]
                   /\ rd \in [Command -> 0 .. Len(rounds)]
                   /\ resumed \in [Command -> BOOLEAN]
                   /\ snap \in [Command -> SUBSET Ids]
                   /\ planner \in [Command -> Planners]
                   /\ fetched \in Seq(SUBSET Feedback) /\ Len(fetched) = Len(rounds)
           Control == \A d \in Command :
                        /\ d \in Inside => lock = d
                        /\ pc[d] = "waiting" => planner[d] \in {"none", "running"}
                        /\ planner[d] = "running" => pc[d] = "waiting"
                        /\ planner[d] # "none" => rd[d] > 0
<1>0. Rounds /\ Rest /\ Control /\ Len(rounds) \in Nat
  BY DEF TypeOK
<1>rng. 0 \in 0 .. Len(rounds) /\ Len(rounds) \in 0 .. Len(rounds)
  BY <1>0
<1>rec. \A n \in 1 .. Len(rounds) : rounds[n] \in Round
  BY <1>0
<1>ret. ASSUME NEW end \in Ended, Return(c, end)
        PROVE  /\ lock' \in Command \union {NoOne, Orchestrator}
               /\ pc' \in [Command -> Pcs]
               /\ rd' \in [Command -> 0 .. Len(rounds)]
               /\ resumed' \in [Command -> BOOLEAN]
               /\ snap' \in [Command -> SUBSET Ids]
  BY <1>0, <1>rng, <1>ret DEF Return, Pcs
<1> SUFFICES Rounds' /\ Rest' /\ Control'
  BY DEF TypeOK
<1>1. CASE Start(c)
  <2>1. Rounds' /\ Rest'
    BY <1>0, <1>1 DEF Start, Pcs, Ended
  <2>2. Control'
    BY <1>0, <1>1 DEF Start, Pcs, Ended, Inside
  <2> QED
    BY <2>1, <2>2
<1>2. CASE AcquireLock(c)
  <2>1. Rounds' /\ Rest'
    BY <1>0, <1>2, <1>ret DEF AcquireLock, Pcs, Ended
  <2>2. Control'
    BY <1>0, <1>2 DEF AcquireLock, Return, Pcs, Ended, Inside, LocalsOK
  <2> QED
    BY <2>1, <2>2
<1>3. CASE ResolveOrAllocate(c)
  <2>1. CASE ~GuardCodeReviewTask
    <3>1. Rounds' /\ Rest'
      BY <1>0, <1>3, <2>1, <1>ret DEF ResolveOrAllocate, Ended
    <3>2. Control'
      BY <1>0, <1>3, <2>1 DEF ResolveOrAllocate, Return, Pcs, Ended, Inside, LocalsOK
    <3> QED
      BY <3>1, <3>2
  <2>2. CASE GuardCodeReviewTask /\ Len(rounds) > 0 /\ HasClarification(Len(rounds))
    <3>0. /\ rd' = [rd EXCEPT ![c] = Len(rounds)]
          /\ resumed' = [resumed EXCEPT ![c] = TRUE]
          /\ pc' = [pc EXCEPT ![c] = "allocated"]
          /\ UNCHANGED <<row, lock, rounds, snap, planner, fetched>>
      BY <1>3, <2>2 DEF ResolveOrAllocate
    <3>1. Rounds' /\ Rest'
      BY <1>0, <1>rng, <3>0 DEF Pcs
    <3>2. Control'
      BY <1>0, <1>3, <2>2 DEF ResolveOrAllocate, Pcs, Ended, Inside
    <3> QED
      BY <3>1, <3>2
  <2>3. CASE GuardCodeReviewTask /\ ~(Len(rounds) > 0 /\ HasClarification(Len(rounds)))
    <3>1. /\ rounds' = Append(rounds, EmptyRound) /\ Len(rounds) < MaxRounds
          /\ fetched' = Append(fetched, {})
          /\ rd' = [rd EXCEPT ![c] = Len(rounds) + 1]
          /\ pc[c] = "locked" /\ pc' = [pc EXCEPT ![c] = "allocated"]
          /\ UNCHANGED <<row, lock, resumed, snap, planner>>
      BY <1>3, <2>3 DEF ResolveOrAllocate
    <3>2. EmptyRound \in Round
      BY DEF EmptyRound, Round, Content
    <3>3. rounds' \in Seq(Round) /\ Len(rounds') = Len(rounds) + 1
      BY <1>0, <3>1, <3>2
    <3>4. fetched' \in Seq(SUBSET Feedback) /\ Len(fetched') = Len(rounds')
      BY <1>0, <3>1, <3>3
    <3>5. Rounds' /\ Rest'
      BY <1>0, <3>1, <3>3, <3>4 DEF Pcs
    <3>6. Control'
      BY <1>0, <3>1 DEF Inside, Pcs, Ended
    <3> QED
      BY <3>5, <3>6
  <2> QED
    BY <2>1, <2>2, <2>3
<1>4. CASE FetchAndWriteReview(c)
  <2>0. PICK ids \in SUBSET Feedback :
          /\ rounds' = [rounds EXCEPT ![rd[c]].toml = Fetched(ids)]
          /\ fetched' = [fetched EXCEPT ![rd[c]] = ids]
          /\ snap' = [snap EXCEPT ![c] = ids]
    BY <1>4 DEF FetchAndWriteReview
  <2>1. rd[c] \in 1 .. Len(rounds)
    BY <1>0, <1>4 DEF FetchAndWriteReview, LocalsOK
  <2>2. [rounds[rd[c]] EXCEPT !.toml = Fetched(ids)] \in Round
    BY <1>rec, <2>1, FetchedType, RoundFields
  <2>3. rounds' \in Seq(Round) /\ Len(rounds') = Len(rounds)
    BY <1>0, <2>0, <2>1, <2>2, RoundUpdate
  <2>4. Rounds' /\ Rest'
    BY <1>0, <1>4, <2>0, <2>1, <2>3 DEF FetchAndWriteReview, Pcs, Ids
  <2>5. Control'
    BY <1>0, <1>4 DEF FetchAndWriteReview, Inside, Pcs, Ended
  <2> QED
    BY <2>4, <2>5
<1>5. CASE FetchFails(c)
  BY <1>0, <1>5 DEF FetchFails, Return, Pcs, Ended, Inside, LocalsOK
<1>6. CASE LoadReview(c)
  <2>1. rd[c] \in 1 .. Len(rounds)
    BY <1>0, <1>6 DEF LoadReview, LocalsOK
  <2>2. rounds[rd[c]].toml # NoFile => rounds[rd[c]].toml.ids \in SUBSET Ids
    <3>1. rounds[rd[c]].toml \in ReviewFile \union {NoFile}
      BY <1>rec, <2>1, RoundFields
    <3> QED
      BY <3>1 DEF ReviewFile
  <2>3. Rounds' /\ Rest'
    BY <1>0, <1>6, <2>2, <1>ret DEF LoadReview, Pcs, Ended
  <2>4. Control'
    BY <1>0, <1>6 DEF LoadReview, Return, Pcs, Ended, Inside, LocalsOK
  <2> QED
    BY <2>3, <2>4
<1>7. CASE StartPlanner(c)
  <2>1. Rounds' /\ Rest'
    BY <1>0, <1>7, <1>ret DEF StartPlanner, Pcs, Ended, Planners
  <2>2. Control'
    BY <1>0, <1>7 DEF StartPlanner, Return, Pcs, Ended, Planners, Inside, LocalsOK
  <2> QED
    BY <2>1, <2>2
<1>8. CASE PlannerGone(c)
  BY <1>0, <1>8 DEF PlannerGone, Pcs, Ended, Inside
<1>9. CASE Validate(c)
  <2>1. Rounds' /\ Rest'
    BY <1>0, <1>9 DEF Validate, Return, Pcs, Ended
  <2>2. Control'
    BY <1>0, <1>9 DEF Validate, Return, Pcs, Ended, Inside
  <2> QED
    BY <2>1, <2>2
<1>10. CASE Kill(c)
  <2>1. Rounds' /\ Rest'
    BY <1>0, <1>10 DEF Kill, Return, Pcs, Ended, Planners
  <2>2. Control'
    BY <1>0, <1>10 DEF Kill, Return, Pcs, Ended, Inside, Planners
  <2> QED
    BY <2>1, <2>2
<1>11. CASE Rewrite(c) \/ WritePlan(c) \/ Clarify(c)
  <2>1. rd[c] \in 1 .. Len(rounds)
    BY <1>0, <1>11 DEF Rewrite, WritePlan, Clarify, Alive
  <2>2. \E r \in Round : rounds' = [rounds EXCEPT ![rd[c]] = r]
    <3>1. CASE Rewrite(c)
      <4>1. rounds[rd[c]].toml \in ReviewFile
        BY <1>rec, <2>1, <3>1, RoundFields DEF Rewrite
      <4>2. PICK f \in ReviewFile \union {NoFile} :
              rounds' = [rounds EXCEPT ![rd[c]].toml = f]
        BY <3>1, <4>1, RewritesType DEF Rewrite
      <4>3. [rounds[rd[c]] EXCEPT !.toml = f] \in Round
        BY <1>rec, <2>1, RoundFields
      <4> QED
        BY <4>2, <4>3
    <3>2. CASE WritePlan(c)
      <4>1. [rounds[rd[c]] EXCEPT !.plan = TRUE] \in Round
        BY <1>rec, <2>1, RoundFields
      <4> QED
        BY <3>2, <4>1 DEF WritePlan
    <3>3. CASE Clarify(c)
      <4>1. PICK t \in Content : rounds' = [rounds EXCEPT ![rd[c]].clar = t]
        BY <3>3 DEF Clarify
      <4>2. [rounds[rd[c]] EXCEPT !.clar = t] \in Round
        BY <1>rec, <2>1, RoundFields
      <4> QED
        BY <4>1, <4>2
    <3> QED
      BY <1>11, <3>1, <3>2, <3>3
  <2>3. rounds' \in Seq(Round) /\ Len(rounds') = Len(rounds)
    BY <1>0, <2>1, <2>2, RoundUpdate
  <2>4. UNCHANGED <<row, lock, pc, rd, resumed, snap, planner, fetched>>
    BY <1>11 DEF Rewrite, WritePlan, Clarify
  <2> QED
    BY <1>0, <2>3, <2>4 DEF Inside
<1>12. CASE PlannerExits(c)
  <2>1. Rounds' /\ Rest'
    BY <1>0, <1>12 DEF PlannerExits, Planners
  <2>2. Control'
    BY <1>0, <1>12 DEF PlannerExits, Inside
  <2> QED
    BY <2>1, <2>2
<1> QED
  BY <1>1, <1>2, <1>3, <1>4, <1>5, <1>6, <1>7, <1>8, <1>9, <1>10, <1>11, <1>12
  DEF Child, Agent

\* Every step of a command leaves the local variables as they should be.
LEMMA LocalsStep ==
  ASSUME TypeOK, LocalsOK, NEW c \in Command,
         Start(c) \/ Child(c) \/ Kill(c) \/ Agent(c)
  PROVE  LocalsOK'
<1> USE DEF LocalsOK, Ended
<1>0. /\ pc \in [Command -> Pcs] /\ planner \in [Command -> Planners]
      /\ rd \in [Command -> 0 .. Len(rounds)] /\ resumed \in [Command -> BOOLEAN]
      /\ Len(rounds) \in Nat
      /\ \A d \in Command : /\ pc[d] = "waiting" => planner[d] \in {"none", "running"}
                            /\ planner[d] = "running" => pc[d] = "waiting"
                            /\ planner[d] # "none" => rd[d] > 0
  BY DEF TypeOK
<1>1. CASE Start(c)
  BY <1>0, <1>1 DEF Start
<1>2. CASE AcquireLock(c)
  BY <1>0, <1>2 DEF AcquireLock, Return
<1>3. CASE ResolveOrAllocate(c)
  BY <1>0, <1>3 DEF ResolveOrAllocate, Return
<1>4. CASE FetchAndWriteReview(c)
  BY <1>0, <1>4 DEF FetchAndWriteReview
<1>5. CASE FetchFails(c)
  BY <1>0, <1>5 DEF FetchFails, Return
<1>6. CASE LoadReview(c)
  BY <1>0, <1>6 DEF LoadReview, Return
<1>7. CASE StartPlanner(c)
  BY <1>0, <1>7 DEF StartPlanner, Return
<1>8. CASE PlannerGone(c)
  BY <1>0, <1>8 DEF PlannerGone
<1>9. CASE Validate(c)
  BY <1>0, <1>9 DEF Validate, Return
<1>10. CASE Kill(c)
  BY <1>0, <1>10 DEF Kill, Return
<1>11. CASE Rewrite(c) \/ WritePlan(c) \/ Clarify(c)
  BY <1>0, <1>11 DEF Rewrite, WritePlan, Clarify
<1>12. CASE PlannerExits(c)
  BY <1>0, <1>12 DEF PlannerExits
<1> QED
  BY <1>1, <1>2, <1>3, <1>4, <1>5, <1>6, <1>7, <1>8, <1>9, <1>10, <1>11, <1>12
  DEF Child, Agent

\* At most one command is between the flock and its release.
LEMMA OneInside ==
  ASSUME TypeOK, NEW c \in Command, NEW d \in Command, c \in Inside, d \in Inside
  PROVE  c = d
BY DEF TypeOK

\* No step puts two writers in a fresh round: a child that allocates is past
\* every round number in use, and a planner starts only in the child's own.
LEMMA FreshStep ==
  ASSUME TypeOK, LocalsOK, FreshRoundUndisturbed, NEW c \in Command,
         Start(c) \/ Child(c) \/ Kill(c) \/ Agent(c)
  PROVE  FreshRoundUndisturbed'
<1> USE DEF LocalsOK, Ended, Inside, Alive
<1>0. /\ pc \in [Command -> Pcs] /\ planner \in [Command -> Planners]
      /\ rd \in [Command -> 0 .. Len(rounds)] /\ resumed \in [Command -> BOOLEAN]
      /\ Len(rounds) \in Nat
      /\ \A d \in Command : d \in Inside => lock = d
  BY DEF TypeOK
<1>f. \A x, y \in Command :
        (x # y /\ x \in Inside /\ rd[x] > 0 /\ ~resumed[x] /\ planner[y] # "none")
          => rd[y] # rd[x]
  BY DEF FreshRoundUndisturbed
<1> SUFFICES ASSUME NEW x \in Command, NEW y \in Command, x # y, x \in Inside',
                    rd'[x] > 0, ~resumed'[x], planner'[y] # "none"
             PROVE  rd'[y] # rd'[x]
  BY DEF FreshRoundUndisturbed
<1>1. CASE Start(c)
  BY <1>0, <1>1, <1>f DEF Start
<1>2. CASE AcquireLock(c)
  BY <1>0, <1>2, <1>f DEF AcquireLock, Return
<1>3. CASE ResolveOrAllocate(c)
  BY <1>0, <1>3, <1>f DEF ResolveOrAllocate, Return
<1>4. CASE FetchAndWriteReview(c)
  BY <1>0, <1>4, <1>f DEF FetchAndWriteReview
<1>5. CASE FetchFails(c)
  BY <1>0, <1>5, <1>f DEF FetchFails, Return
<1>6. CASE LoadReview(c)
  BY <1>0, <1>6, <1>f DEF LoadReview, Return
<1>7. CASE StartPlanner(c)
  BY <1>0, <1>7, <1>f DEF StartPlanner, Return
<1>8. CASE PlannerGone(c)
  BY <1>0, <1>8, <1>f DEF PlannerGone
<1>9. CASE Validate(c)
  BY <1>0, <1>9, <1>f DEF Validate, Return
<1>10. CASE Kill(c)
  BY <1>0, <1>10, <1>f DEF Kill, Return
<1>11. CASE Rewrite(c) \/ WritePlan(c) \/ Clarify(c)
  BY <1>0, <1>11, <1>f DEF Rewrite, WritePlan, Clarify
<1>12. CASE PlannerExits(c)
  BY <1>0, <1>12, <1>f DEF PlannerExits
<1> QED
  BY <1>1, <1>2, <1>3, <1>4, <1>5, <1>6, <1>7, <1>8, <1>9, <1>10, <1>11, <1>12
  DEF Child, Agent

\* The snapshot of a child on a fresh round stays what was fetched for it.
LEMMA SnapStep ==
  ASSUME TypeOK, LocalsOK, SnapIsFetched, NEW c \in Command,
         Start(c) \/ Child(c) \/ Kill(c) \/ Agent(c)
  PROVE  SnapIsFetched'
<1> USE DEF LocalsOK, Ended, Inside
<1>0. /\ pc \in [Command -> Pcs] /\ snap \in [Command -> SUBSET Ids]
      /\ rd \in [Command -> 0 .. Len(rounds)] /\ resumed \in [Command -> BOOLEAN]
      /\ fetched \in Seq(SUBSET Feedback) /\ Len(fetched) = Len(rounds)
      /\ Len(rounds) \in Nat
      /\ \A d \in Command : d \in Inside => lock = d
  BY DEF TypeOK
<1>f. \A x \in Command :
        pc[x] \in {"prepared", "waiting", "validating"} /\ ~resumed[x]
          => snap[x] = fetched[rd[x]]
  BY DEF SnapIsFetched
<1> SUFFICES ASSUME NEW x \in Command, pc'[x] \in {"prepared", "waiting", "validating"},
                    ~resumed'[x]
             PROVE  snap'[x] = fetched'[rd'[x]]
  BY DEF SnapIsFetched
<1>1. CASE Start(c)
  BY <1>0, <1>1, <1>f DEF Start
<1>2. CASE AcquireLock(c)
  BY <1>0, <1>2, <1>f DEF AcquireLock, Return
<1>3. CASE ResolveOrAllocate(c)
  BY <1>0, <1>3, <1>f DEF ResolveOrAllocate, Return
<1>4. CASE FetchAndWriteReview(c)
  <2>1. rd[c] \in 1 .. Len(fetched)
    BY <1>0, <1>4 DEF FetchAndWriteReview
  <2>2. x = c
    BY <1>0, <1>4 DEF FetchAndWriteReview
  <2> QED
    BY <1>0, <1>4, <2>1, <2>2 DEF FetchAndWriteReview
<1>5. CASE FetchFails(c)
  BY <1>0, <1>5, <1>f DEF FetchFails, Return
<1>6. CASE LoadReview(c)
  BY <1>0, <1>6, <1>f DEF LoadReview, Return
<1>7. CASE StartPlanner(c)
  BY <1>0, <1>7, <1>f DEF StartPlanner, Return
<1>8. CASE PlannerGone(c)
  BY <1>0, <1>8, <1>f DEF PlannerGone
<1>9. CASE Validate(c)
  BY <1>0, <1>9, <1>f DEF Validate, Return
<1>10. CASE Kill(c)
  BY <1>0, <1>10, <1>f DEF Kill, Return
<1>11. CASE Rewrite(c) \/ WritePlan(c) \/ Clarify(c)
  BY <1>0, <1>11, <1>f DEF Rewrite, WritePlan, Clarify
<1>12. CASE PlannerExits(c)
  BY <1>0, <1>12, <1>f DEF PlannerExits
<1> QED
  BY <1>1, <1>2, <1>3, <1>4, <1>5, <1>6, <1>7, <1>8, <1>9, <1>10, <1>11, <1>12
  DEF Child, Agent

\* A child inside works on the latest round: nobody else can add one.
LEMMA LatestStep ==
  ASSUME TypeOK, LocalsOK, OnLatest, NEW c \in Command,
         Start(c) \/ Child(c) \/ Kill(c) \/ Agent(c)
  PROVE  OnLatest'
<1> USE DEF LocalsOK, Ended, Inside
<1>0. /\ pc \in [Command -> Pcs] /\ rd \in [Command -> 0 .. Len(rounds)]
      /\ rounds \in Seq(Round) /\ Len(rounds) \in Nat
      /\ \A d \in Command : d \in Inside => lock = d
  BY DEF TypeOK
<1>f. \A x \in Command : x \in Inside /\ rd[x] > 0 => rd[x] = Len(rounds)
  BY DEF OnLatest
<1> SUFFICES ASSUME NEW x \in Command, x \in Inside', rd'[x] > 0
             PROVE  rd'[x] = Len(rounds')
  BY DEF OnLatest
<1>1. CASE Start(c)
  BY <1>0, <1>1, <1>f DEF Start
<1>2. CASE AcquireLock(c)
  BY <1>0, <1>2, <1>f DEF AcquireLock, Return
<1>3. CASE ResolveOrAllocate(c)
  BY <1>0, <1>3, <1>f DEF ResolveOrAllocate, Return
<1>4. CASE FetchAndWriteReview(c)
  BY <1>0, <1>4, <1>f DEF FetchAndWriteReview
<1>5. CASE FetchFails(c)
  BY <1>0, <1>5, <1>f DEF FetchFails, Return
<1>6. CASE LoadReview(c)
  BY <1>0, <1>6, <1>f DEF LoadReview, Return
<1>7. CASE StartPlanner(c)
  BY <1>0, <1>7, <1>f DEF StartPlanner, Return
<1>8. CASE PlannerGone(c)
  BY <1>0, <1>8, <1>f DEF PlannerGone
<1>9. CASE Validate(c)
  BY <1>0, <1>9, <1>f DEF Validate, Return
<1>10. CASE Kill(c)
  BY <1>0, <1>10, <1>f DEF Kill, Return
<1>11. CASE Rewrite(c) \/ WritePlan(c) \/ Clarify(c)
  BY <1>0, <1>11, <1>f DEF Rewrite, WritePlan, Clarify
<1>12. CASE PlannerExits(c)
  BY <1>0, <1>12, <1>f DEF PlannerExits
<1> QED
  BY <1>1, <1>2, <1>3, <1>4, <1>5, <1>6, <1>7, <1>8, <1>9, <1>10, <1>11, <1>12
  DEF Child, Agent

\* The rest of the task touches the lock only where no child has it.
LEMMA OtherStep ==
  ASSUME IInv, OrchestratorAcquires \/ OrchestratorEnds \/ Reap
  PROVE  IInv'
<1>1. /\ UNCHANGED <<rounds, pc, rd, resumed, snap, planner, fetched>>
      /\ lock' \in {NoOne, Orchestrator} /\ (lock' = lock \/ lock \in {NoOne, Orchestrator})
      /\ row' \in [pr : BOOLEAN, busy : BOOLEAN]
  <2>0. row \in [pr : BOOLEAN, busy : BOOLEAN]
    BY DEF IInv, TypeOK
  <2>1. CASE OrchestratorAcquires
    BY <2>0, <2>1 DEF OrchestratorAcquires
  <2>2. CASE OrchestratorEnds
    <3>1. PICK pr \in {row.pr, TRUE}, b \in BOOLEAN : row' = [pr |-> pr, busy |-> b]
      BY <2>2 DEF OrchestratorEnds
    <3>2. pr \in BOOLEAN
      BY <2>0, <3>1
    <3>3. row' \in [pr : BOOLEAN, busy : BOOLEAN]
      BY <3>1, <3>2
    <3> QED
      BY <2>2, <3>3 DEF OrchestratorEnds
  <2>3. CASE Reap
    BY <2>0, <2>3 DEF Reap
  <2> QED
    BY <2>1, <2>2, <2>3
<1>2. TypeOK'
  BY <1>1, NamesAssumption DEF IInv, TypeOK, Inside
<1>3. LocalsOK' /\ FreshRoundUndisturbed' /\ SnapIsFetched' /\ OnLatest'
  BY <1>1 DEF IInv, LocalsOK, FreshRoundUndisturbed, SnapIsFetched, OnLatest, Inside, Alive
<1> QED
  BY <1>2, <1>3 DEF IInv

LEMMA NextIInv == IInv /\ [Next]_vars => IInv'
<1> SUFFICES ASSUME IInv, [Next]_vars PROVE IInv'
  OBVIOUS
<1>1. ASSUME NEW c \in Command, Start(c) \/ Child(c) \/ Kill(c) \/ Agent(c)
      PROVE  IInv'
  BY <1>1, TypeStep, LocalsStep, FreshStep, SnapStep, LatestStep DEF IInv
<1>2. CASE OrchestratorAcquires \/ OrchestratorEnds \/ Reap
  BY <1>2, OtherStep
<1>3. CASE UNCHANGED vars
  BY <1>3 DEF vars, IInv, TypeOK, LocalsOK, FreshRoundUndisturbed, SnapIsFetched,
              OnLatest, Inside, Alive
<1> QED
  BY <1>1, <1>2, <1>3 DEF Next

\* The inductive invariant holds in every reachable state.
THEOREM Inductive == Spec => []IInv
<1> QED
  BY InitIInv, NextIInv, PTL DEF Spec

\* Every variable keeps its type, and only the holder of the flock is inside.
THEOREM TypeCorrect == Spec => []TypeOK
<1>1. IInv => TypeOK
  BY DEF IInv
<1> QED
  BY <1>1, Inductive, PTL

\* However many reviews are killed, and whatever planners they leave running,
\* a fresh round has one writer (ResolveOrAllocate under the flock).
THEOREM FreshRoundsApart == Spec => []FreshRoundUndisturbed
<1>1. IInv => FreshRoundUndisturbed
  BY DEF IInv
<1> QED
  BY <1>1, Inductive, PTL

\* A review ends well by its validation and by nothing else.
LEMMA ValidStep ==
  ASSUME IInv, [Next]_vars, NEW c \in Command, pc[c] # "valid", pc'[c] = "valid"
  PROVE  Validate(c) /\ ValidateRound(rounds[rd[c]], snap[c])
<1>0. pc \in [Command -> Pcs]
  BY DEF IInv, TypeOK
<1>1. CASE UNCHANGED pc
  BY <1>1
<1>2. CASE \E d \in Command : Validate(d)
  BY <1>2, <1>0 DEF Validate, Return
<1>3. ASSUME NEW d \in Command,
             \/ Start(d) \/ AcquireLock(d) \/ ResolveOrAllocate(d)
             \/ FetchAndWriteReview(d) \/ FetchFails(d) \/ LoadReview(d)
             \/ StartPlanner(d) \/ PlannerGone(d) \/ Kill(d)
      PROVE  FALSE
  BY <1>3, <1>0 DEF Start, AcquireLock, ResolveOrAllocate, FetchAndWriteReview,
     FetchFails, LoadReview, StartPlanner, PlannerGone, Kill, Return
<1> QED
  BY <1>1, <1>2, <1>3 DEF Next, Child, Agent, vars, Rewrite, WritePlan, Clarify,
     PlannerExits, OrchestratorAcquires, OrchestratorEnds, Reap

\* A valid fresh round holds every fetched comment once (ValidatePost against
\* the snapshot of prepareRoundReview).
THEOREM FreshRoundsWhole == Spec => FreshRoundWhole
<1>1. ASSUME IInv, [Next]_vars
      PROVE  \A c \in Command :
               (pc[c] # "valid" /\ pc'[c] = "valid" /\ ~resumed[c]) => Whole(rd[c])
  <2> SUFFICES ASSUME NEW c \in Command, pc[c] # "valid", pc'[c] = "valid", ~resumed[c]
               PROVE  Whole(rd[c])
    OBVIOUS
  <2>1. Validate(c) /\ ValidateRound(rounds[rd[c]], snap[c])
    BY <1>1, ValidStep
  <2>2. snap[c] = fetched[rd[c]]
    BY <1>1, <2>1 DEF IInv, SnapIsFetched, Validate
  <2> QED
    BY <2>1, <2>2 DEF ValidateRound, ValidatePost, Whole
<1> QED
  BY <1>1, Inductive, PTL DEF Spec, FreshRoundWhole

\* A review that ends with a question leaves it on the latest round, for any
\* number of reviews and whatever earlier planners still write.
THEOREM QuestionsFound == Spec => QuestionFoundByNext
<1>1. ASSUME IInv, [Next]_vars
      PROVE  \A c \in Command :
               (/\ pc[c] # "valid" /\ pc'[c] = "valid"
                /\ rounds[rd[c]].toml.decision = "clarification_needed")
                 => rd[c] = Len(rounds) /\ HasClarification(rd[c])
  <2> SUFFICES ASSUME NEW c \in Command, pc[c] # "valid", pc'[c] = "valid",
                      rounds[rd[c]].toml.decision = "clarification_needed"
               PROVE  rd[c] = Len(rounds) /\ HasClarification(rd[c])
    OBVIOUS
  <2>1. Validate(c) /\ ValidateRound(rounds[rd[c]], snap[c])
    BY <1>1, ValidStep
  <2>2. c \in Inside /\ rd[c] > 0
    BY <1>1, <2>1 DEF Validate, Inside, Ended, IInv, LocalsOK
  <2> QED
    BY <1>1, <2>1, <2>2 DEF IInv, OnLatest, ValidateRound, HasClarification
<1> QED
  BY <1>1, Inductive, PTL DEF Spec, QuestionFoundByNext
=============================================================================
