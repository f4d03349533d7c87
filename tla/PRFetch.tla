------------------------------- MODULE PRFetch -------------------------------
(***************************************************************************)
(* Fetching a pull request's feedback from GitHub for a review round.      *)
(*                                                                         *)
(* The client asks who it is, asks for the first page of the pull request  *)
(* with the first page of each of its three connections (conversation,     *)
(* review threads, reviews), drains one connection after the other by      *)
(* cursor, and flattens what it has into items.  J's own replies are not   *)
(* items: they mark the comment right before them as answered.  Meanwhile  *)
(* people post and delete, and every request may fail.                     *)
(*                                                                         *)
(* GitHub is modelled from how the client uses it: a connection lists its  *)
(* nodes in creation order, and a page starts behind its cursor.           *)
(***************************************************************************)
EXTENDS Naturals, Sequences, FiniteSets

CONSTANTS PageSize,   \* nodes of one page
          InnerCap,   \* comments of a thread that come with the thread
          MaxPosts,   \* bound on comments, threads and reviews ever posted
          MaxDeletes  \* bound on deletions

ASSUME PageAssumption ==
  /\ PageSize \in Nat \ {0} /\ InnerCap \in Nat \ {0}
  /\ MaxPosts \in Nat /\ MaxDeletes \in Nat

VARIABLES pr,      \* the pull request on GitHub
          posts,   \* everything posted and not deleted, with ids in creation order
          nextId,  \* the id the next post gets
          deletes, \* deletions so far
          pc,      \* where the client is
          viewer,  \* Client.viewer: memoised login
          got,     \* nodes fetched so far, per connection
          cursor,  \* endCursor of each connection
          more,    \* hasNextPage of each connection
          items,   \* FetchResult.Items
          began,   \* history: the posts when the first page was asked for
          cut      \* history: connections a page of which came back null

server == <<pr, posts, nextId, deletes>>
fetch  == <<viewer, got, cursor, more, items, began, cut>>
vars   == <<server, pc, fetch>>

-----------------------------------------------------------------------------
(* GitHub.                                                                  *)

Connections == {"conv", "threads", "reviews"}

\* A post is a node of a connection or, with a thread's id, a comment in that
\* thread.  What the client tells apart in a body: an ordinary text, one that
\* quotes J's marker, one J posted as a reply, and none at all.
Kinds == {"text", "quote", "jreply", "blank"}

Post == [id : 1 .. MaxPosts, conn : Connections \union {"inner"},
         thread : 0 .. MaxPosts, kind : Kinds]

\* The elements of a finite set in the order R.
Ordered(S, R) ==
  CHOOSE s \in [1 .. Cardinality(S) -> S] :
    /\ \A x \in S : \E i \in DOMAIN s : s[i] = x
    /\ \A i, j \in DOMAIN s : i < j => <<s[i], s[j]>> \in R

InOrder(S) == Ordered(S, {x \in S \X S : x[1].id < x[2].id})

Oldest(S, n) == {p \in S : Cardinality({q \in S : q.id < p.id}) < n}

Inner(t) == {p \in posts : p.conn = "inner" /\ p.thread = t}

After(c, id) == {p \in posts : p.conn = c /\ p.id > id}

\* A page of a connection; a thread comes with the head of its comments.
Page(c, id) ==
  LET nodes == InOrder(Oldest(After(c, id), PageSize))
  IN  [i \in DOMAIN nodes |->
         [node |-> nodes[i], inner |-> IF c = "threads"
            THEN InOrder(Oldest(Inner(nodes[i].id), InnerCap)) ELSE <<>>]]

HasNextPage(c, id) == Cardinality(After(c, id)) > PageSize

\* Opaque to the client; the empty string is 0.
EndCursor(c, id) == LET page == Page(c, id)
                    IN  IF page = <<>> THEN id ELSE page[Len(page)].node.id

Open == pr = "open"

\* guardState refuses a pull request that is closed, merged or a draft ("shut");
\* one the token may not see (any more) is null in every answer.
PullRequests == {"open", "shut", "hidden"}

Ended == {"done", "failed"}

Publish(c, t, k) ==
  /\ nextId <= MaxPosts
  /\ posts' = posts \union {[id |-> nextId, conn |-> c, thread |-> t, kind |-> k]}
  /\ nextId' = nextId + 1
  /\ UNCHANGED <<pr, deletes, pc, fetch>>

\* Somebody comments, opens a thread, answers in one, or reviews.
SomebodyPosts ==
  /\ pc \notin Ended
  /\ \/ \E k \in {"text", "quote", "jreply"} : Publish("conv", 0, k)
     \/ Publish("threads", 0, "text")
     \/ \E p \in posts, k \in {"text", "jreply"} :
          p.conn = "threads" /\ Publish("inner", p.id, k)
     \/ \E k \in {"text", "blank"} : Publish("reviews", 0, k)

\* A comment is deleted, a thread with all of its comments.
SomebodyDeletes ==
  /\ pc \notin Ended /\ deletes < MaxDeletes
  /\ \E p \in posts : posts' = {q \in posts : q.id # p.id /\ q.thread # p.id}
  /\ deletes' = deletes + 1
  /\ UNCHANGED <<pr, nextId, pc, fetch>>

\* The pull request is closed, reopened, made a draft, becomes inaccessible or
\* accessible again.
StateChanges ==
  /\ pc \notin Ended
  /\ pr' \in PullRequests \ {pr}
  /\ UNCHANGED <<posts, nextId, deletes, pc, fetch>>

-----------------------------------------------------------------------------
(* The client.                                                              *)

Fail == /\ pc' = "failed"
        /\ UNCHANGED <<server, fetch>>

\* Every request may be refused, time out or come back as an error, and the
\* first error ends the fetch with nothing.
RequestFails == pc \notin Ended /\ Fail

\* ParseURL: only https://github.com/<owner>/<repo>/pull(s)/<number> gives a
\* reference.
ParseURL ==
  /\ pc = "url"
  /\ \E accepted \in BOOLEAN :
       IF accepted THEN pc' = "viewer" /\ UNCHANGED <<server, fetch>> ELSE Fail

\* Viewer: the login decides whose marked comments are J's.  It may be empty.
Viewer ==
  /\ pc = "viewer"
  /\ viewer' \in {"known", "unknown"}
  /\ pc' = "first"
  /\ UNCHANGED <<server, got, cursor, more, items, began, cut>>

\* The follow-up pages are asked for without the first page's cursor.
FirstPage_uncursored ==
  /\ pc = "first"
  /\ IF ~Open THEN Fail
     ELSE /\ got' = [c \in Connections |-> Page(c, 0)]
          /\ cursor' = [c \in Connections |-> 0]
          /\ more' = [c \in Connections |-> HasNextPage(c, 0)]
          /\ began' = posts
          /\ pc' = "conv"
          /\ UNCHANGED <<server, viewer, items, cut>>

\* fetchPRFirstPage and guardState.
FirstPage ==
  /\ pc = "first"
  /\ IF ~Open THEN Fail
     ELSE /\ got' = [c \in Connections |-> Page(c, 0)]
          /\ cursor' = [c \in Connections |-> EndCursor(c, 0)]
          /\ more' = [c \in Connections |-> HasNextPage(c, 0)]
          /\ began' = posts
          /\ pc' = "conv"
          /\ UNCHANGED <<server, viewer, items, cut>>

\* The zero value of a response: no nodes and no further page.
Null(c) ==
  /\ cursor' = [cursor EXCEPT ![c] = 0]
  /\ more' = [more EXCEPT ![c] = FALSE]
  /\ cut' = cut \union {c}
  /\ UNCHANGED <<server, pc, viewer, got, items, began>>

\* The page asked for again: the cursor stays that of the first page.
NextPage_stuck(c) ==
  /\ pc = c /\ more[c]
  /\ IF pr = "hidden" THEN Null(c)
     ELSE /\ got' = [got EXCEPT ![c] = @ \o Page(c, cursor[c])]
          /\ more' = [more EXCEPT ![c] = HasNextPage(c, cursor[c])]
          /\ UNCHANGED <<server, pc, viewer, cursor, items, began, cut>>

\* The page information of the first page believed to the end.
NextPage_endless(c) ==
  /\ pc = c /\ more[c]
  /\ got' = [got EXCEPT ![c] = @ \o Page(c, cursor[c])]
  /\ cursor' = [cursor EXCEPT ![c] = EndCursor(c, cursor[c])]
  /\ UNCHANGED <<server, pc, viewer, more, items, began, cut>>

\* One follow-up request of fetchPaged.  Unlike fetchPRFirstPage nobody asks
\* whether the pull request was null: that decodes to an empty last page.
NextPage(c) ==
  /\ pc = c /\ more[c]
  /\ IF pr = "hidden" THEN Null(c)
     ELSE /\ got' = [got EXCEPT ![c] = @ \o Page(c, cursor[c])]
          /\ cursor' = [cursor EXCEPT ![c] = EndCursor(c, cursor[c])]
          /\ more' = [more EXCEPT ![c] = HasNextPage(c, cursor[c])]
          /\ UNCHANGED <<server, pc, viewer, items, began, cut>>

\* Drained: on to the next connection.
Drained ==
  /\ pc \in {"conv", "threads"} /\ ~more[pc]
  /\ pc' = IF pc = "conv" THEN "threads" ELSE "reviews"
  /\ UNCHANGED <<server, fetch>>

-----------------------------------------------------------------------------
(* collectItems.                                                            *)

\* The marker alone.
IsReply_marker(p, login) == login = "known" /\ p.kind \in {"jreply", "quote"}

\* Marker and author, never the marker alone.
IsReply(p, login) == login = "known" /\ p.kind = "jreply"

\* The lists the items come from, in this order: the conversation, the comments
\* of each thread, the reviews.
Lists == {<<1, 1>>, <<3, 1>>} \union {<<2, i>> : i \in DOMAIN got["threads"]}

Column(c) == [i \in DOMAIN got[c] |-> got[c][i].node]

List(l) == CASE l[1] = 1 -> Column("conv")
             [] l[1] = 2 -> got["threads"][l[2]].inner
             [] OTHER -> Column("reviews")

\* J's own replies are no items, nor are reviews without a text.
Wanted(l, p) == ~IsReply(p, viewer) /\ (l[1] = 3 => p.kind # "blank")

Places == UNION {{<<l[1], l[2], j>> : j \in {i \in DOMAIN List(l) : Wanted(l, List(l)[i])}} :
                   l \in Lists}

Before(x, y) ==
  \/ x[1] < y[1]
  \/ x[1] = y[1] /\ x[2] < y[2]
  \/ x[1] = y[1] /\ x[2] = y[2] /\ x[3] < y[3]

\* Replies looked for on the first page only.
Marked_firstPage(s, j) == j < PageSize /\ j < Len(s) /\ IsReply(s[j + 1], viewer)

\* A comment is marked when the next one of its list is J's reply.
Marked(s, j) == j < Len(s) /\ IsReply(s[j + 1], viewer)

Item(x) ==
  LET s == List(<<x[1], x[2]>>)
      p == s[x[3]]
  IN  [id |-> p.id, conn |-> p.conn, thread |-> p.thread,
       hasJReply |-> x[1] # 3 /\ Marked(s, x[3])]

CollectItems ==
  LET places == Ordered(Places, {x \in Places \X Places : Before(x[1], x[2])})
  IN  [n \in DOMAIN places |-> Item(places[n])]

Collect ==
  /\ pc = "reviews" /\ ~more["reviews"]
  /\ items' = CollectItems
  /\ pc' = "done"
  /\ UNCHANGED <<server, viewer, got, cursor, more, began, cut>>

-----------------------------------------------------------------------------
\* Every variable has its type, and where there is more to fetch there is a
\* cursor to go on from.
TypeOK ==
  /\ pr \in PullRequests
  /\ posts \subseteq Post
  /\ nextId \in 1 .. MaxPosts + 1 /\ deletes \in 0 .. MaxDeletes
  /\ pc \in {"url", "viewer", "first"} \union Connections \union Ended
  /\ viewer \in {"unasked", "known", "unknown"}
  /\ got \in [Connections -> Seq([node : Post, inner : Seq(Post)])]
  /\ cursor \in [Connections -> 0 .. MaxPosts]
  /\ more \in [Connections -> BOOLEAN]
  /\ items \in Seq([id : 1 .. MaxPosts, conn : Connections \union {"inner"},
                    thread : 0 .. MaxPosts, hasJReply : BOOLEAN])
  /\ began \subseteq Post
  /\ cut \subseteq Connections
  /\ \A c \in Connections : more[c] => cursor[c] > 0

Init ==
  /\ pr \in PullRequests
  /\ posts = {} /\ nextId = 1 /\ deletes = 0
  /\ pc = "url"
  /\ viewer = "unasked"
  /\ got = [c \in Connections |-> <<>>]
  /\ cursor = [c \in Connections |-> 0]
  /\ more = [c \in Connections |-> FALSE]
  /\ items = <<>>
  /\ began = {}
  /\ cut = {}

FetchPR == \/ ParseURL \/ Viewer \/ FirstPage \/ Drained \/ Collect
           \/ \E c \in Connections : NextPage(c)

Next == FetchPR \/ RequestFails \/ SomebodyPosts \/ SomebodyDeletes \/ StateChanges

Spec == Init /\ [][Next]_vars /\ WF_vars(FetchPR)

-----------------------------------------------------------------------------
(* Properties.                                                              *)

IdsOf(s) == {s[i].id : i \in DOMAIN s}

\* A comment within the part of its thread that is fetched.
WithinCap(p, s) ==
  p.conn = "inner"
    => Cardinality({q \in s : q.thread = p.thread /\ q.id <= p.id}) <= InnerCap

\* The connection a post comes with.
Carrier(p) == IF p.conn = "inner" THEN "threads" ELSE p.conn

\* What the items owe to a post p, the posts being s when the fetch began.
Owed(p, s) ==
  /\ WithinCap(p, s)
  /\ p.conn # "threads" /\ p.kind # "blank" /\ ~(p.kind = "jreply" /\ viewer = "known")

\* Nothing said before the fetch began and never taken back is missing from
\* the items, whatever is posted and deleted between two pages, but for J's
\* own replies, what a long thread's later pages hold, and the rest of a
\* connection whose page came back null (fetchPaged).
FetchComplete ==
  pc = "done" =>
    \A p \in began :
      (p \in posts /\ Owed(p, began) /\ Carrier(p) \notin cut) => p.id \in IdsOf(items)

\* "FetchPR ... paginates ... until every connection is drained" (fetch.go:8-11),
\* null answers or not.
FetchWhole ==
  pc = "done" =>
    \A p \in began : (p \in posts /\ Owed(p, began)) => p.id \in IdsOf(items)

\* No comment is listed twice, and each connection's items are in creation
\* order, whatever happens between two pages.
ItemsOnceInOrder ==
  \A i, j \in DOMAIN items :
    (i < j /\ items[i].conn = items[j].conn /\ items[i].thread = items[j].thread)
      => items[i].id < items[j].id

\* A comment J answered is marked, on whichever page its answer comes: when
\* the two stood next to each other as the fetch began, nothing was deleted and
\* no page of their connection came back null (collectReplyAuthors runs on the
\* drained lists).
Follows(p, q, s) ==
  /\ p.conn = q.conn /\ p.thread = q.thread /\ p.id < q.id
  /\ ~\E r \in s : r.conn = p.conn /\ r.thread = p.thread
                           /\ p.id < r.id /\ r.id < q.id

AnsweredAreMarked ==
  (pc = "done" /\ viewer = "known" /\ deletes = 0) =>
    \A p, q \in began :
      (/\ Follows(p, q, began) /\ p.conn \in {"conv", "inner"}
       /\ p.kind # "jreply" /\ q.kind = "jreply" /\ WithinCap(q, began)
       /\ Carrier(p) \notin cut)
        => \E i \in DOMAIN items : items[i].id = p.id /\ items[i].hasJReply

\* A fetch ends, however many pages it takes (the loop of fetchPaged); that
\* every request gets an answer is assumed, the client sets no timeout.
FetchEnds == <>(pc \in Ended)
=============================================================================
