-------------------------------- MODULE Posts --------------------------------
(***************************************************************************)
(* The posts and comments tables as committed, the repositories' queries   *)
(* over them (postRepository.js, commentRepository.js), and the HTTP       *)
(* requests in flight over posts and comments: as in module Handlers, one  *)
(* action per query, because Node gives way at every await.                *)
(*                                                                         *)
(* Who is friends with whom and who has blocked whom is changed by the     *)
(* handlers of module Bestiz; here a commit of theirs may fall between any *)
(* two queries.  A post's content is kept as its visibility alone.         *)
(***************************************************************************)
EXTENDS Naturals

CONSTANTS Users,
          Requests,   \* bound: how many requests may be in flight together
          MaxPosts,   \* bound: no more posts than this are inserted
          MaxIds      \* bound: nor more posts and comments together

ASSUME BoundsAssumption == MaxPosts \in Nat /\ MaxIds \in Nat

VARIABLES posts, comments, nextId,
          friends,      \* the pairs of users who are friends now
          blocked,      \* the pairs with a block between them, in either direction
          requests,
          wire,         \* what the latest step has sent: responses and events
          everFriends,  \* history: the pairs that have ever been friends
          everShown     \* history: every visibility a post has ever had

postTables == <<posts, comments, nextId, everShown>>
relations == <<friends, blocked, everFriends>>
vars == <<postTables, relations, requests, wire>>

Visibility == {"public", "friends", "private"}
NoId == 0
RowId == Nat \ {NoId}

Post == [id : RowId, author : Users, visibility : Visibility]
Comment == [id : RowId, post : RowId, author : Users]

\* What a repository returns when no row matches.
Undefined == [id |-> NoId]

Pairs == {pair \in SUBSET Users : \E u, v \in pair : u # v /\ pair = {u, v}}

PostOps == {"createPost", "getPost", "updatePost", "deletePost"}
CommentOps == {"createComment", "getComments", "updateComment", "deleteComment"}

Steps == {"insertPost", "loadPost", "checkBlock", "checkFriends", "updatePost",
          "refetchPost", "audience", "deletePost", "findComments",
          "insertComment", "refetchComment", "loadComment", "loadParent",
          "updateComment", "deleteComment", "emit"}

Idle == [pc |-> "idle"]

Request == [op : PostOps \cup CommentOps, pc : Steps,
            user : Users,
            post : Nat,                   \* the post the request is about
            comment : Nat,                \* the comment it is about
            wish : Visibility,            \* the visibility asked for, if any
            found : Post \cup {Undefined},            \* the post as it was loaded
            row : Post \cup Comment \cup {Undefined}, \* the row as it was written
            to : SUBSET Users,            \* the audience of the event
            barred : BOOLEAN]             \* history: see Unblock

Sent == [kind : {"response", "post:created", "post:updated", "post:deleted",
                 "comment:created", "comment:updated", "comment:deleted"},
         about : Post,                            \* the post, as the sender knows it
         carries : Post \cup Comment \cup {Undefined},
         from : Users, to : SUBSET Users]

TypeOK ==
  /\ posts \subseteq Post /\ comments \subseteq Comment /\ nextId \in RowId
  /\ friends \subseteq Pairs /\ blocked \subseteq Pairs /\ everFriends \subseteq Pairs
  /\ requests \in [Requests -> Request \cup {Idle}]
  /\ wire \subseteq Sent
  /\ everShown \subseteq RowId \X Visibility

Init ==
  /\ posts = {} /\ comments = {} /\ nextId = 1 /\ everShown = {}
  /\ friends = {} /\ blocked = {} /\ everFriends = {}
  /\ requests = [r \in Requests |-> Idle]
  /\ wire = {}

-----------------------------------------------------------------------------
(* The queries.                                                            *)

NoPostLeft == nextId > MaxPosts
NoIdLeft == nextId > MaxIds

PostById(i) == {p \in posts : p.id = i}

CommentById(i) == {c \in comments : c.id = i}

\* A SELECT by primary key: the row or undefined.
RowOf(rows) == IF rows = {} THEN Undefined ELSE CHOOSE row \in rows : TRUE

FriendsOf(u) == {v \in Users : {u, v} \in friends}

BlockedPair(u, v) == {u, v} \in blocked

\* findFeed's scope: 'all', 'mine' or 'friends'.
InScope(p, u, filter) ==
  LET befriended == {u, p.author} \in friends IN
  CASE filter = "mine" -> p.author = u
    [] filter = "friends" -> p.author # u /\ p.visibility # "private" /\ befriended
    [] OTHER -> \/ p.author = u \/ p.visibility = "public"
                \/ p.visibility = "friends" /\ befriended

\* findFeed: a block overrides every scope (notBlocked).
Feed(u, filter) ==
  {p \in posts : InScope(p, u, filter) /\ ~BlockedPair(u, p.author)}

\* findByAuthor: what the viewer u may see on a's profile.
PostsBy(a, u) == {p \in Feed(u, "all") : p.author = a}

-----------------------------------------------------------------------------
(* What the friend and block services commit meanwhile (module Bestiz).    *)

Befriend(pair) ==
  /\ pair \notin friends
  /\ friends' = friends \cup {pair}
  /\ everFriends' = everFriends \cup {pair}
  /\ UNCHANGED <<postTables, blocked, requests>> /\ wire' = {}

Unfriend(pair) ==
  /\ pair \in friends
  /\ friends' = friends \ {pair}
  /\ UNCHANGED <<postTables, blocked, everFriends, requests>> /\ wire' = {}

\* blockUser ends the friendship in the same transaction.
Block(pair) ==
  /\ pair \notin blocked
  /\ blocked' = blocked \cup {pair}
  /\ friends' = friends \ {pair}
  /\ UNCHANGED <<postTables, everFriends, requests>> /\ wire' = {}

\* The history of the requests: a reader who was blocked from the arrival of
\* the request on stays barred until a block is lifted.
Unblock(pair) ==
  /\ pair \in blocked
  /\ blocked' = blocked \ {pair}
  /\ requests' = [r \in Requests |-> IF requests[r] = Idle THEN Idle
                                      ELSE [requests[r] EXCEPT !.barred = FALSE]]
  /\ UNCHANGED <<postTables, friends, everFriends>> /\ wire' = {}

-----------------------------------------------------------------------------
(* Moving one request.                                                     *)

At(r, pc) == requests[r].pc = pc

Silent == wire' = {}

Send(message) == wire' = {message}

\* A request arrives; u is the authenticated caller.
Receive(r, op, pc, u, post, comment, wish, barred) ==
  /\ At(r, "idle")
  /\ requests' = [requests EXCEPT ![r] =
       [op |-> op, pc |-> pc, user |-> u, post |-> post, comment |-> comment,
        wish |-> wish, found |-> Undefined, row |-> Undefined, to |-> {},
        barred |-> barred]]
  /\ UNCHANGED <<postTables, relations>> /\ Silent

Goto(r, pc) == requests' = [requests EXCEPT ![r].pc = pc]

\* The request is over: a response, an error, or a query that rejected.
Respond(r) == requests' = [requests EXCEPT ![r] = Idle]

Answer(r, about, row) ==
  Send([kind |-> "response", about |-> about, carries |-> row,
        from |-> about.author, to |-> {requests[r].user}])

\* A query rejects: what earlier statements committed stays.
Fail(r) ==
  /\ ~At(r, "idle")
  /\ Respond(r)
  /\ UNCHANGED <<postTables, relations>> /\ Silent

\* Rows of the posts table that a step has written.
Show(i, visibility) == everShown' = everShown \cup {<<i, visibility>>}
=============================================================================
