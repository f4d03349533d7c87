------------------------------ MODULE LinearSync ------------------------------
(***************************************************************************)
(* Mirroring a task's status onto its Linear issue.                        *)
(*                                                                         *)
(* Every process that moves the task (orchestrator, start, continue,       *)
(* reaper) persists the row and then runs the hooks in order: push the     *)
(* plan, move the issue's workflow state and page the owner, mark the      *)
(* title, push the verifier's findings.  A hook looks the issue up, sends  *)
(* its requests one after the other without a retry, and has 30 seconds    *)
(* for all of them.  Several processes may be inside their hooks at once,  *)
(* each may die there, and people edit the issue meanwhile.                *)
(*                                                                         *)
(* Linear is modelled from how the hooks use it.  A request the client     *)
(* gave up on may still be carried out, at any later time.                 *)
(***************************************************************************)
EXTENDS Naturals, Sequences, TaskFSM

CONSTANTS Writer,      \* processes that move the task
          Starts,      \* statuses the task may begin in
          Events,      \* events considered
          Tokens,      \* what titles are made of: marks, spaces, words
          Titles,      \* titles people give, as sequences of tokens
          MaxFires,    \* bound on transitions
          MaxRenames   \* bound on renames of the issue

VARIABLES status,   \* the row's status
          t,        \* each process's copy of it ("new": none)
          script,   \* requests each process has still to send, by hook
          tr,       \* the transition it is announcing
          seen,     \* run.issue.Title of its title hook
          issue,    \* state and title on Linear
          late,     \* requests given up on that may still be carried out
          fires, renames, \* transitions and renames so far
          named,    \* history: the title people gave last
          crossed,  \* history: a rename met a title update under way
          calm,     \* history: nothing disturbed the last transition's hooks
          paged,    \* history: Linear was asked to page the owner, per process
          excused   \* history: a lookup failed or time ran out before the page

process == <<status, t, script, tr, seen>>
linear  == <<issue, late>>
history == <<named, crossed, calm, paged, excused>>
vars    == <<process, linear, fires, renames, history>>

-----------------------------------------------------------------------------
(* The title.  Tokens: "!" and "o" for the two marks, "_" for a space, any  *)
(* other one for words.                                                     *)

Space == "_"

prefixFor(s) ==
  CASE s \in {"needs-clarification", "failed", "help"} -> <<"!", Space>>
    [] s = "plan-pending-approval" -> <<"o", Space>>
    [] OTHER -> <<>>

Marks == {"!", "o"}

ASSUME SyncAssumption ==
  /\ Starts \subseteq Statuses
  /\ Marks \union {Space} \subseteq Tokens /\ Titles \subseteq Seq(Tokens)
  /\ MaxFires \in Nat /\ MaxRenames \in Nat

\* Only marks and spaces, up to i.
Leading(s, i) == \A j \in 1 .. i : s[j] \in Marks \union {Space}

LeadingMarks(s) == {i \in DOMAIN s : s[i] \in Marks /\ Leading(s, i)}

\* Where the words begin: behind the last mark that only marks and spaces
\* precede, and behind one space next to it.
WordsFrom(s) ==
  LET marks == LeadingMarks(s)
      lastMark == IF marks = {} THEN 0 ELSE CHOOSE i \in marks : \A j \in marks : j <= i
  IN  IF marks # {} /\ lastMark < Len(s) /\ s[lastMark + 1] = Space
        THEN lastMark + 2 ELSE lastMark + 1

\* One mark, and only at the very beginning.
stripStatusPrefix_once(s) ==
  IF s # <<>> /\ Head(s) \in Marks
    THEN SubSeq(s, IF Len(s) > 1 /\ s[2] = Space THEN 3 ELSE 2, Len(s)) ELSE s

stripStatusPrefix(s) == SubSeq(s, WordsFrom(s), Len(s))

\* The old mark left in place when the status calls for none.
decorateTitle_keeping(current, s) ==
  IF prefixFor(s) = <<>> THEN current ELSE prefixFor(s) \o stripStatusPrefix(current)

decorateTitle(current, s) == prefixFor(s) \o stripStatusPrefix(current)

-----------------------------------------------------------------------------
(* The requests of a transition's hooks, by hook and in order.              *)

WorkflowStates == {"Todo", "In Progress", "In Review"}

\* stateSyncTable: the statuses with a workflow state, and those that page.
stateName(s) ==
  CASE s \in {"planning", "plan-done", "plan-pending-approval"} -> "Todo"
    [] s \in {"working", "verifying", "needs-clarification"} -> "In Progress"
    [] s = "completed" -> "In Review"
    [] OTHER -> "unmapped"

pings(s) == s \in {"plan-done", "plan-pending-approval", "completed"}

isPlanSuccessEvent(e) ==
  e \in {"PlanDone", "PlanAwaitApproval", "ReaperPlanDone", "ReaperPlanAwaitApproval"}

Terminal(e) == e \in {"VerifyPass", "VerifyFail", "VerifyStuck"}

Hook(h, reqs) == [i \in DOMAIN reqs |-> [hook |-> h, req |-> reqs[i]]]

\* The files a hook needs and what the row holds: requirements.md and plan.md,
\* a clarification.md with a question, verifier_findings.md, a pull request.
Files == SUBSET {"plan", "clarification", "findings", "pr"}

linearPushHook(x, files) ==
  IF isPlanSuccessEvent(x.Event) /\ x.To \in {"plan-done", "plan-pending-approval"}
       /\ "plan" \in files
    THEN Hook("push", <<"issue", "description", "plan">>) ELSE <<>>

followUp(x, files) ==
  CASE x.To = "needs-clarification" ->
         (IF "clarification" \in files THEN <<"clarification">> ELSE <<>>) \o <<"remind">>
    [] x.To = "verifying" /\ x.Event = "VerifyBegin" /\ "pr" \in files -> <<"pr", "remind">>
    [] OTHER -> IF pings(x.To) THEN <<"remind">> ELSE <<>>

linearStateSyncHook(x, files) ==
  IF stateName(x.To) = "unmapped" THEN <<>>
  ELSE Hook("state", <<"issue", "states", "state">> \o followUp(x, files))

\* The title written without reading it.
linearTitleSyncHook_unread == Hook("title", <<"title">>)

linearTitleSyncHook == Hook("title", <<"issue", "title">>)

pushFindings(files) ==
  IF "findings" \in files THEN Hook("verify", <<"issue", "comment">>) ELSE <<>>

linearVerifyPushHook(x, files) == IF Terminal(x.Event) THEN pushFindings(files) ELSE <<>>

Notify(x, files) ==
  linearPushHook(x, files) \o linearStateSyncHook(x, files)
    \o linearTitleSyncHook \o linearVerifyPushHook(x, files)

\* Every failed request ends its hook.
Lookups_all == {"issue", "states", "state", "description"}

\* The requests whose failure ends a hook; the others are only warned about.
Lookups == {"issue", "states"}

\* The requests that are left when h, the hook under way, ends early: from the
\* first one of another hook on.
WithoutHook(s, h) ==
  LET others == {i \in DOMAIN s : s[i].hook # h}
      next == CHOOSE i \in others : \A j \in others : i <= j
  IN  IF others = {} THEN <<>> ELSE SubSeq(s, next, Len(s))

Idle(w) == script[w] = <<>>
-----------------------------------------------------------------------------
(* The processes, of a task that was created before.                        *)

\* A process reads the row; an orchestrator keeps its copy.
Load(w) ==
  /\ Idle(w) /\ t[w] # status
  /\ t' = [t EXCEPT ![w] = status]
  /\ UNCHANGED <<status, script, tr, seen, linear, fires, renames, history>>

\* ApplyAndPersist: apply to the copy, write the row, start the hooks.
ApplyAndPersist(w) ==
  /\ Idle(w) /\ t[w] # New /\ fires < MaxFires
  /\ \E x \in transitions, files \in Files :
       /\ x.From = t[w] /\ x.Event \in Events
       /\ status' = x.To
       /\ t' = [t EXCEPT ![w] = x.To]
       /\ tr' = [tr EXCEPT ![w] = x]
       /\ script' = [script EXCEPT ![w] = Notify(x, files)]
  /\ fires' = fires + 1
  /\ calm' = (late = {} /\ \A v \in Writer : Idle(v))
  /\ paged' = [paged EXCEPT ![w] = FALSE]
  /\ excused' = [excused EXCEPT ![w] = FALSE]
  /\ UNCHANGED <<seen, linear, renames, named, crossed>>

\* PushVerifyIterationFinding, after a verdict FAIL of an iteration.
PushVerifyIterationFinding(w) ==
  /\ Idle(w) /\ t[w] = "verifying" /\ fires < MaxFires
  /\ \E files \in Files : script' = [script EXCEPT ![w] = pushFindings(files)]
  /\ tr' = [tr EXCEPT ![w] = [From |-> "verifying", Event |-> "iteration",
                              To |-> "verifying"]]
  /\ fires' = fires + 1
  /\ UNCHANGED <<status, t, seen, linear, renames, history>>

\* What a request does on Linear, with the value it carries.
Effect(r, w) ==
  CASE r.req = "state" -> [what |-> "state", to |-> <<stateName(tr[w].To)>>]
    [] r.req = "title" -> [what |-> "title", to |-> decorateTitle(seen[w], tr[w].To)]
    [] OTHER -> [what |-> "other", to |-> <<>>]

After(e) ==
  CASE e.what = "state" -> [issue EXCEPT !.state = e.to[1]]
    [] e.what = "title" -> [issue EXCEPT !.title = e.to]
    [] OTHER -> issue

\* Linear carries the request out and says so.  A title that is as it should
\* be is not sent.
Answered(w) ==
  /\ ~Idle(w)
  /\ LET r == Head(script[w])
         read == r = [hook |-> "title", req |-> "issue"]
         right == decorateTitle(issue.title, tr[w].To) = issue.title IN
     /\ issue' = After(Effect(r, w))
     /\ seen' = [seen EXCEPT ![w] = IF read /\ ~right THEN issue.title ELSE <<>>]
     /\ script' = [script EXCEPT ![w] =
          IF read /\ right THEN WithoutHook(@, "title") ELSE Tail(@)]
     /\ paged' = [paged EXCEPT ![w] = @ \/ r.req = "remind"]
  /\ UNCHANGED <<status, t, tr, late, fires, renames, named, crossed, calm, excused>>

\* The key is missing, Linear or the network refuses the request, or the team
\* has no workflow state of that name.
Refused(w) ==
  /\ ~Idle(w)
  /\ LET r == Head(script[w]) IN
     /\ script' = [script EXCEPT ![w] =
          IF r.req \in Lookups THEN WithoutHook(@, r.hook) ELSE Tail(@)]
     /\ paged' = [paged EXCEPT ![w] = @ \/ r.req = "remind"]
     /\ excused' = [excused EXCEPT ![w] =
          @ \/ (r.hook = "state" /\ r.req \in {"issue", "states"})]
  /\ calm' = FALSE
  /\ seen' = [seen EXCEPT ![w] = <<>>]
  /\ UNCHANGED <<status, t, tr, linear, fires, renames, named, crossed>>

\* No deadline: a request that gets no answer is waited for.
Deadline_none(w) == FALSE /\ UNCHANGED vars

\* The hook's context expires: the request under way may still be carried out,
\* the ones behind it are not sent.
Deadline(w) ==
  /\ ~Idle(w)
  /\ LET r == Head(script[w])
         e == Effect(r, w) IN
     /\ script' = [script EXCEPT ![w] = WithoutHook(@, r.hook)]
     /\ late' = IF e.what = "other" THEN late ELSE late \union {e}
     /\ excused' = [excused EXCEPT ![w] = @ \/ r.hook = "state"]
  /\ calm' = FALSE
  /\ seen' = [seen EXCEPT ![w] = <<>>]
  /\ UNCHANGED <<status, t, tr, issue, fires, renames, named, crossed, paged>>

\* The process is killed, with or without the request it was sending.
Kill(w) ==
  /\ ~Idle(w)
  /\ LET e == Effect(Head(script[w]), w) IN
       late' = IF e.what = "other" THEN late ELSE late \union {e}
  /\ script' = [script EXCEPT ![w] = <<>>]
  /\ t' = [t EXCEPT ![w] = New]
  /\ seen' = [seen EXCEPT ![w] = <<>>]
  /\ excused' = [excused EXCEPT ![w] = TRUE]
  /\ calm' = FALSE
  /\ UNCHANGED <<status, tr, issue, fires, renames, named, crossed, paged>>

-----------------------------------------------------------------------------
(* Linear and the people using it.                                          *)

\* A request given up on is carried out after all, or never.
Land ==
  /\ \E e \in late : /\ late' = late \ {e}
                     /\ issue' \in {issue, After(e)}
  /\ UNCHANGED <<process, fires, renames, history>>

UpdatingTitle(w) == ~Idle(w) /\ Head(script[w]).req = "title"

\* Somebody renames the issue.
Rename ==
  /\ renames < MaxRenames
  /\ \E x \in Titles \ {issue.title} : issue' = [issue EXCEPT !.title = x] /\ named' = x
  /\ crossed' = \/ crossed
                \/ \E w \in Writer : UpdatingTitle(w)
                \/ \E e \in late : e.what = "title"
  /\ renames' = renames + 1
  /\ calm' = FALSE
  /\ UNCHANGED <<process, late, fires, paged, excused>>

-----------------------------------------------------------------------------
Read == [hook |-> "title", req |-> "issue"]
Write == [hook |-> "title", req |-> "title"]

Requests ==
  {[hook |-> "push", req |-> x] : x \in {"issue", "description", "plan"}}
    \union {[hook |-> "state", req |-> x] :
             x \in {"issue", "states", "state", "clarification", "pr", "remind"}}
    \union {Read, Write}
    \union {[hook |-> "verify", req |-> x] : x \in {"issue", "comment"}}

Updates == [what : {"state"}, to : {<<n>> : n \in WorkflowStates}]
             \union [what : {"title"}, to : Seq(Tokens)]

\* A title is only sent right after it was read.
ReadFirst(s) == \A i \in 2 .. Len(s) : s[i] = Write => s[i - 1] = Read

EventNames == {x.Event : x \in transitions} \union {"none", "iteration"}

TypeOK ==
  /\ status \in Statuses
  /\ t \in [Writer -> Statuses \union {New}]
  /\ script \in [Writer -> Seq(Requests)]
  /\ tr \in [Writer -> [From : Statuses \union {New}, Event : EventNames,
                       To : Statuses \union {New}]]
  /\ seen \in [Writer -> Seq(Tokens)]
  /\ issue \in [state : WorkflowStates \union {"Backlog"}, title : Seq(Tokens)]
  /\ late \in SUBSET Updates
  /\ fires \in 0 .. MaxFires /\ renames \in 0 .. MaxRenames
  /\ named \in Seq(Tokens)
  /\ crossed \in BOOLEAN /\ calm \in BOOLEAN
  /\ paged \in [Writer -> BOOLEAN] /\ excused \in [Writer -> BOOLEAN]
  /\ \A w \in Writer : /\ ReadFirst(script[w])
                       /\ ~Idle(w) => tr[w].To \in Statuses
                       /\ \A i \in DOMAIN script[w] : script[w][i].hook = "state"
                            => stateName(tr[w].To) \in WorkflowStates

Init ==
  /\ status \in Starts
  /\ t = [w \in Writer |-> New]
  /\ script = [w \in Writer |-> <<>>]
  /\ tr = [w \in Writer |-> [From |-> New, Event |-> "none", To |-> New]]
  /\ seen = [w \in Writer |-> <<>>]
  /\ \E x \in Titles : issue = [state |-> "Backlog", title |-> x] /\ named = x
  /\ late = {}
  /\ fires = 0 /\ renames = 0
  /\ crossed = FALSE /\ calm = FALSE
  /\ paged = [w \in Writer |-> FALSE]
  /\ excused = [w \in Writer |-> FALSE]

Next == \/ \E w \in Writer : \/ Load(w) \/ ApplyAndPersist(w)
                             \/ PushVerifyIterationFinding(w)
                             \/ Answered(w) \/ Refused(w) \/ Deadline(w) \/ Kill(w)
        \/ Land \/ Rename

\* Nothing obliges Linear to answer; the deadline passes.
Spec == Init /\ [][Next]_vars /\ \A w \in Writer : WF_vars(Deadline(w))

-----------------------------------------------------------------------------
(* Properties.                                                              *)

\* A transition whose hooks ran alone, with every request answered and no
\* rename in between, leaves the issue in the state and with the mark of the row,
\* whatever earlier hooks, late requests and people left there.
Mirrors ==
  (calm /\ \A w \in Writer : Idle(w)) =>
    /\ stateName(status) # "unmapped" => issue.state = stateName(status)
    /\ issue.title = prefixFor(status) \o stripStatusPrefix(issue.title)

\* However many processes mark the title at once, and in whatever order late
\* updates land, the issue's title is the one people gave it or its words behind
\* at most one mark, unless a rename met an update under way
\* (linearTitleSyncHook reads, then writes): what is dropped before the words is
\* marks and spaces only, and no mark leads what is kept.
Words(x) ==
  {SubSeq(x, i, Len(x)) :
     i \in {j \in 1 .. Len(x) + 1 : /\ Leading(x, j - 1)
                                  /\ \A k \in LeadingMarks(x) : k < j}}

WordsKept ==
  (~crossed /\ issue.title # named) =>
    \E s \in Statuses, y \in Words(named) : issue.title = prefixFor(s) \o y

\* Once the hooks of a transition that calls for a human are through, Linear
\* was asked to page the owner, whatever became of the requests before, unless
\* the issue or its team's states could not be looked up, time ran out, or the
\* process died (linearStateSyncHook: failures of issueUpdate or of the
\* comment do not prevent the reminder).
Attention == {"plan-done", "plan-pending-approval", "completed", "needs-clarification"}

OwnerPaged ==
  \A w \in Writer :
    (Idle(w) /\ tr[w].To \in Attention) => paged[w] \/ excused[w]

\* The hooks of a transition end although Linear may never answer
\* (linearHookTimeout): they never hold up an orchestrator or its lock for good.
NotifyEnds == \A w \in Writer : ~Idle(w) ~> Idle(w)
=============================================================================
