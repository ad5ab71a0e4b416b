---------------------------- MODULE SharingProofs ----------------------------
(***************************************************************************)
(* Posts and comments, for any users, any number of requests in flight and *)
(* any number of rows: SharingInv is inductive, nothing leaves a post's    *)
(* circle, comments were admitted, and a block overrides visibility.       *)
(***************************************************************************)
EXTENDS Sharing, TLAPS

LEMMA Swap == \A a, b : {a, b} = {b, a}
  OBVIOUS

\* Nobody is blocked from themselves.
LEMMA NotWithOneself == ASSUME TypeOK, NEW u PROVE {u} \notin blocked
  BY DEF TypeOK, Pairs

\* A SELECT by primary key finds a row of the table, or nothing.
LEMMA PostFound ==
  ASSUME TypeOK, NEW i
  PROVE  LET p == RowOf(PostById(i)) IN
         /\ p = Undefined <=> PostById(i) = {}
         /\ p # Undefined => p \in posts /\ p \in Post /\ p.id = i
<1>1. CASE PostById(i) = {}
  BY <1>1 DEF RowOf
<1>2. CASE PostById(i) # {}
  <2>1. RowOf(PostById(i)) \in PostById(i)
    BY <1>2 DEF RowOf
  <2> QED BY <2>1, <1>2 DEF PostById, TypeOK, Post, Undefined, RowId, NoId
<1> QED BY <1>1, <1>2

LEMMA CommentFound ==
  ASSUME TypeOK, NEW i
  PROVE  LET c == RowOf(CommentById(i)) IN
         c # Undefined => c \in comments /\ c \in Comment
<1>1. CASE CommentById(i) = {}
  BY <1>1 DEF RowOf
<1>2. CASE CommentById(i) # {}
  <2>1. RowOf(CommentById(i)) \in CommentById(i)
    BY <1>2 DEF RowOf
  <2> QED BY <2>1 DEF CommentById, TypeOK
<1> QED BY <1>1, <1>2

\* A request that is not idle is a whole one, and sound.
LEMMA InFlight ==
  ASSUME SharingInv, NEW r \in Requests, ~At(r, "idle")
  PROVE  requests[r] \in Request /\ Sound(requests[r])
  BY DEF SharingInv, TypeOK, At, Idle

\* What was known of a post stays known while the histories and the numbers
\* grow, authors stay, and no block is lifted.
Grown ==
  /\ nextId \in Nat /\ nextId' \in Nat /\ nextId <= nextId'
  /\ everShown \subseteq everShown' /\ everFriends \subseteq everFriends'
  /\ blocked \subseteq blocked'
  /\ \A p \in posts' : p.id < nextId =>
       \E o \in posts : o.id = p.id /\ o.author = p.author

LEMMA CircleGrows ==
  ASSUME Grown, NEW u, NEW p, InCircle(u, p) PROVE InCircle(u, p)'
  BY DEF Grown, InCircle, Was

LEMMA SoundKept ==
  ASSUME Grown, NEW q \in Request, Sound(q)
  PROVE  Sound(q)'
<1>1. q.post \in Nat /\ q.post < nextId
  BY DEF Sound, Request
<1>2. (q.post < nextId)'
  BY <1>1 DEF Grown
<1>3. OnCourse(q)'
  BY DEF Sound, OnCourse
<1>4. \A p \in PostById(q.post)' : \E o \in PostById(q.post) : o.author = p.author
  BY <1>1 DEF Grown, PostById
<1>5. Loaded(q)'
  BY <1>4 DEF Sound, Loaded, Was, Grown
<1>6. Entitled(q)'
  <2>1. Entitled(q)
    BY DEF Sound
  <2>2. Admitted(q.user, q.found) => Admitted(q.user, q.found)'
    BY DEF Admitted, Was, Grown
  <2>3. \A u : InCircle(u, q.found) => InCircle(u, q.found)'
    BY CircleGrows
  <2>4. \A v : Was(q.post, v) => Was(q.post, v)'
    BY DEF Was, Grown
  <2> QED BY <2>1, <2>2, <2>3, <2>4 DEF Entitled
<1>7. StillBarred(q)'
  <2>1. StillBarred(q)
    BY DEF Sound
  <2> QED BY <2>1, <1>4 DEF StillBarred, Grown
<1> QED BY <1>2, <1>3, <1>5, <1>6, <1>7 DEF Sound

\* Nothing has changed.
LEMMA SameTables ==
  ASSUME TypeOK, UNCHANGED <<postTables, relations>>
  PROVE  Grown
  BY DEF Grown, TypeOK, RowId, NoId, postTables, relations

\* A step that changes one request, and the tables so that its request and
\* what it sends are in order.
LEMMA OneRequest ==
  ASSUME SharingInv, Grown, UNCHANGED relations,
         posts' \subseteq Post, comments' \subseteq Comment, nextId' \in RowId,
         everShown' \subseteq RowId \X Visibility,
         PostsNumbered', CommentsWereAdmitted',
         NEW r \in Requests, NEW q \in Request \cup {Idle},
         requests' = [requests EXCEPT ![r] = q],
         q # Idle => q.pc # "idle" /\ Sound(q)',
         wire' \subseteq Sent, \A m \in wire' : Discreet(m)'
  PROVE  SharingInv'
<1>1. TypeOK'
  BY DEF SharingInv, TypeOK, relations
<1>2. friends' \subseteq everFriends'
  BY DEF SharingInv, relations
<1>3. ASSUME NEW s \in Requests, ~At(s, "idle")' PROVE Sound(requests[s])'
  <2>1. CASE s = r
    <3>1. requests'[s] = q /\ q # Idle
      BY <1>3, <2>1 DEF SharingInv, TypeOK, At, Idle
    <3>2. Sound(q)'
      BY <3>1
    <3> QED BY <3>1, <3>2 DEF Sound, OnCourse, Loaded, Entitled, StillBarred
  <2>2. CASE s # r
    <3>1. requests'[s] = requests[s]
      BY <2>2 DEF SharingInv, TypeOK
    <3>2. ~At(s, "idle")
      BY <3>1, <1>3 DEF At
    <3>3. requests[s] \in Request /\ Sound(requests[s])
      BY <3>2, InFlight
    <3> DEFINE o == requests[s]
    <3>4. requests'[s] = o
      BY <3>1
    <3>5. \A x \in Request : Sound(x) => Sound(x)'
      BY SoundKept
    <3> QED BY <3>1, <3>3, <3>5
  <2> QED BY <2>1, <2>2
<1> QED BY <1>1, <1>2, <1>3 DEF SharingInv

\* The same, when the tables stay as they are.
LEMMA OnlyRequest ==
  ASSUME SharingInv, UNCHANGED <<postTables, relations>>,
         NEW r \in Requests, NEW q \in Request \cup {Idle},
         requests' = [requests EXCEPT ![r] = q],
         q # Idle => q.pc # "idle" /\ Sound(q),
         wire' \subseteq Sent, \A m \in wire' : Discreet(m)
  PROVE  SharingInv'
<1>1. Grown
  BY SameTables DEF SharingInv
<1>2. q # Idle => Sound(q)'
  BY <1>1, SoundKept
<1>3. PostsNumbered' /\ CommentsWereAdmitted'
  BY DEF SharingInv, PostsNumbered, CommentsWereAdmitted, Was, PostById, postTables, relations
<1>4. \A m \in wire' : Discreet(m)'
  BY DEF Discreet, InCircle, Was, postTables, relations
<1>5. /\ posts' \subseteq Post /\ comments' \subseteq Comment /\ nextId' \in RowId
      /\ everShown' \subseteq RowId \X Visibility
  BY DEF SharingInv, TypeOK, postTables
<1> QED BY <1>1, <1>2, <1>3, <1>4, <1>5, OneRequest DEF postTables, relations

\* Ending a request without a word.
LEMMA RespondKeeps ==
  ASSUME SharingInv, NEW r \in Requests, Respond(r), Silent,
         UNCHANGED <<postTables, relations>>
  PROVE  SharingInv'
  BY OnlyRequest DEF Respond, Silent

\* Moving on without a word.
LEMMA MoveKeeps ==
  ASSUME SharingInv, NEW r \in Requests, NEW q \in Request,
         requests' = [requests EXCEPT ![r] = q], Sound(q),
         Silent, UNCHANGED <<postTables, relations>>
  PROVE  SharingInv'
<1>1. q # Idle => q.pc # "idle" /\ Sound(q)
  BY DEF Request, Steps
<1> QED BY <1>1, OnlyRequest DEF Silent

\* Ending a request with the post as its answer.
LEMMA AnswerKeeps ==
  ASSUME SharingInv, NEW r \in Requests, ~At(r, "idle"), NEW p \in Post,
         Respond(r), Answer(r, p, p), Admitted(requests[r].user, p),
         UNCHANGED <<postTables, relations>>
  PROVE  SharingInv'
<1> DEFINE m == [kind |-> "response", about |-> p, carries |-> p,
                 from |-> p.author, to |-> {requests[r].user}]
<1>1. wire' = {m}
  BY DEF Answer, Send
<1>2. requests[r].user \in Users
  BY InFlight DEF Request
<1>3. m \in Sent
  BY <1>2 DEF Sent, Post
<1>4. Discreet(m)
  <2>1. InCircle(requests[r].user, p)
    BY DEF Admitted, InCircle
  <2>2. (\A v \in {"public", "friends"} : ~Was(p.id, v)) => requests[r].user = p.author
    BY DEF Admitted
  <2> QED BY <2>1, <2>2 DEF Discreet
<1> QED BY <1>1, <1>3, <1>4, OnlyRequest DEF Respond

\* An event at the end of a request, to an audience that may have it.
LEMMA TellKeeps ==
  ASSUME SharingInv, NEW r \in Requests, ~At(r, "idle"), NEW to \in SUBSET Users,
         Tell(r, to), requests[r].found # Undefined,
         \A u \in to : InCircle(u, requests[r].found),
         requests[r].op # "updatePost" /\ requests[r].found.visibility = "private" => to = {},
         UNCHANGED <<postTables, relations>>
  PROVE  SharingInv'
<1> DEFINE q == requests[r]
           m == [kind |-> EventOf(q.op), about |-> q.found, carries |-> q.row,
                 from |-> q.user, to |-> to]
<1>1. wire' = {m} /\ Respond(r)
  BY DEF Tell, Send
<1>2. q \in Request /\ Loaded(q)
  BY InFlight DEF Sound
<1>3. q.found \in Post /\ q.row \in Post \cup Comment \cup {Undefined} /\ q.user \in Users
  BY <1>2 DEF Request
<1>4. EventOf(q.op) \in {"post:created", "post:updated", "post:deleted",
                        "comment:created", "comment:updated", "comment:deleted"}
  BY DEF EventOf
<1>5. EventOf(q.op) # "post:updated" => q.op # "updatePost"
  BY DEF EventOf
<1> HIDE DEF q
<1>6. m \in Sent
  BY <1>3, <1>4 DEF Sent
<1>7. Discreet(m)
  <2>1. \A u \in to : InCircle(u, q.found)
    BY DEF q
  <2>2. ASSUME \A v \in {"public", "friends"} : ~Was(q.found.id, v), m.kind # "post:updated"
        PROVE  to = {}
    <3>1. Was(q.found.id, q.found.visibility)
      BY <1>2 DEF Loaded, q
    <3>2. q.found.visibility = "private"
      BY <2>2, <3>1, <1>3 DEF Post, Visibility
    <3> QED BY <2>2, <3>2, <1>5 DEF q
  <2> QED BY <2>1, <2>2 DEF Discreet
<1> QED BY <1>1, <1>6, <1>7, OnlyRequest DEF Respond

-----------------------------------------------------------------------------
(* Requests arrive.                                                        *)

LEMMA ReceiveKeeps ==
  ASSUME SharingInv, NEW r \in Requests, NEW op \in PostOps \cup CommentOps,
         NEW pc \in {"insertPost", "loadPost", "loadComment"}, NEW u \in Users,
         NEW post \in Nat, NEW comment \in Nat, NEW wish \in Visibility,
         NEW barred \in BOOLEAN, Receive(r, op, pc, u, post, comment, wish, barred),
         post < nextId,
         pc = "loadPost" =>
           op \in {"getPost", "updatePost", "deletePost", "createComment", "getComments"},
         pc = "loadComment" => op \in {"updateComment", "deleteComment"},
         barred => /\ pc = "loadPost" /\ op \in {"getPost", "createComment", "getComments"}
                   /\ \A p \in PostById(post) : {u, p.author} \in blocked
  PROVE  SharingInv'
<1> DEFINE q == [op |-> op, pc |-> pc, user |-> u, post |-> post, comment |-> comment,
                 wish |-> wish, found |-> Undefined, row |-> Undefined, to |-> {},
                 barred |-> barred]
<1>1. q \in Request
  BY DEF Request, Steps
<1>2. /\ q.pc = pc /\ q.op = op /\ q.post = post /\ q.found = Undefined /\ q.user = u
      /\ q.barred = barred
  OBVIOUS
<1>3. requests' = [requests EXCEPT ![r] = q] /\ Silent /\ UNCHANGED <<postTables, relations>>
  BY DEF Receive
<1> HIDE DEF q
<1>4. OnCourse(q) /\ Loaded(q) /\ Entitled(q)
  BY <1>2 DEF OnCourse, Loaded, Entitled
<1>5. StillBarred(q)
  BY <1>2 DEF StillBarred
<1>6. Sound(q)
  BY <1>2, <1>4, <1>5 DEF Sound
<1> QED BY <1>1, <1>3, <1>6, MoveKeeps

\* A request for a post that is there names a number in use, and is barred
\* by the blocks of its author alone.
LEMMA Named ==
  ASSUME SharingInv, NEW p \in posts
  PROVE  /\ p.id \in Nat /\ p.id < nextId
         /\ \A q \in PostById(p.id) : q.author = p.author
<1>1. p.id \in Nat
  BY DEF SharingInv, TypeOK, Post, RowId, NoId
<1>2. PostsNumbered
  BY DEF SharingInv
<1> QED BY <1>1, <1>2 DEF PostsNumbered, PostById

LEMMA RequestsKeep ==
  ASSUME SharingInv, NEW r \in Requests, PostRequests(r) \/ CommentRequests(r)
  PROVE  SharingInv'
<1> USE DEF NoId, Visibility, PostOps, CommentOps, BlockedPair
<1>1. CASE CreatePost(r)
  <2>1. 0 < nextId
    BY DEF SharingInv, TypeOK, RowId
  <2> QED BY <1>1, <2>1, ReceiveKeeps DEF CreatePost
<1>2. CASE NamePost(r)
  <2>1. PICK u \in Users, p \in posts, v \in Visibility,
             op \in {"getPost", "updatePost", "deletePost"} :
               Receive(r, op, "loadPost", u, p.id, NoId, v,
                       op = "getPost" /\ BlockedPair(u, p.author))
    BY <1>2 DEF NamePost
  <2> DEFINE b == op = "getPost" /\ BlockedPair(u, p.author)
  <2>2. b \in BOOLEAN /\ (b => op = "getPost" /\ {u, p.author} \in blocked)
    OBVIOUS
  <2>3. p.id \in Nat /\ p.id < nextId /\ \A q \in PostById(p.id) : q.author = p.author
    BY Named
  <2>4. b => \A q \in PostById(p.id) : {u, q.author} \in blocked
    BY <2>2, <2>3
  <2>5. Receive(r, op, "loadPost", u, p.id, NoId, v, b)
    BY <2>1
  <2> HIDE DEF b
  <2> QED BY <2>2, <2>3, <2>4, <2>5, ReceiveKeeps
<1>3. CASE NameParent(r)
  <2>1. PICK u \in Users, p \in posts, op \in {"createComment", "getComments"} :
               Receive(r, op, "loadPost", u, p.id, NoId, "public", BlockedPair(u, p.author))
    BY <1>3 DEF NameParent
  <2> DEFINE b == BlockedPair(u, p.author)
  <2>2. b \in BOOLEAN /\ (b => {u, p.author} \in blocked)
    OBVIOUS
  <2>3. p.id \in Nat /\ p.id < nextId /\ \A q \in PostById(p.id) : q.author = p.author
    BY Named
  <2>4. b => \A q \in PostById(p.id) : {u, q.author} \in blocked
    BY <2>2, <2>3
  <2>5. Receive(r, op, "loadPost", u, p.id, NoId, "public", b)
    BY <2>1
  <2> HIDE DEF b
  <2> QED BY <2>2, <2>3, <2>4, <2>5, ReceiveKeeps
<1>4. CASE NameComment(r)
  <2>1. PICK u \in Users, c \in comments, op \in {"updateComment", "deleteComment"} :
               Receive(r, op, "loadComment", u, c.post, c.id, "public", FALSE)
    BY <1>4 DEF NameComment
  <2>2. PICK p \in PostById(c.post) : TRUE
    BY DEF SharingInv, CommentsWereAdmitted
  <2>3. p \in posts /\ c.post = p.id
    BY DEF PostById
  <2>4. c.post \in Nat /\ c.post < nextId
    BY <2>3, Named
  <2>5. c.id \in Nat
    BY DEF SharingInv, TypeOK, Comment, RowId
  <2> QED BY <2>1, <2>4, <2>5, ReceiveKeeps
<1> QED BY <1>1, <1>2, <1>3, <1>4 DEF PostRequests, CommentRequests

-----------------------------------------------------------------------------
(* Reading: the post is loaded, and the caller let through or not.         *)

LEMMA GrantKeeps ==
  ASSUME SharingInv, NEW r \in Requests, ~At(r, "idle"), NEW p \in Post,
         requests[r].op \in {"getPost", "createComment", "getComments"},
         ~requests[r].barred, Admitted(requests[r].user, p),
         p.id = requests[r].post, Was(p.id, p.visibility),
         \A o \in PostById(p.id) : o.author = p.author,
         Grant(r, p), UNCHANGED <<postTables, relations>>
  PROVE  SharingInv'
<1> DEFINE q == requests[r]
<1>1. CASE Granted(q.op) = "done"
  BY <1>1, AnswerKeeps DEF Grant
<1>2. CASE Granted(q.op) # "done"
  <2> DEFINE pc == Granted(q.op)
             n == [q EXCEPT !.pc = pc, !.found = p]
  <2>1. pc \in {"findComments", "insertComment"} /\ (pc = "insertComment" => q.op = "createComment")
    BY <1>2 DEF Granted
  <2>2. q \in Request /\ Sound(q)
    BY InFlight
  <2>3. requests' = [requests EXCEPT ![r] = n] /\ Silent
    BY <1>2 DEF Grant
  <2> HIDE DEF pc
  <2>4. n \in Request
    BY <2>1, <2>2 DEF Request, Steps
  <2>5. /\ n.pc = pc /\ n.found = p /\ n.op = q.op /\ n.post = q.post /\ n.user = q.user
        /\ n.barred = q.barred
    BY <2>2 DEF Request
  <2> HIDE DEF n
  <2>6. OnCourse(n)
    BY <2>1, <2>5 DEF OnCourse, CommentOps
  <2>7. Loaded(n)
    BY <2>5 DEF Loaded, Post, Undefined, RowId
  <2>8. Entitled(n)
    BY <2>1, <2>5 DEF Entitled
  <2>9. Sound(n)
    BY <2>2, <2>5, <2>6, <2>7, <2>8 DEF Sound, StillBarred
  <2> QED BY <2>3, <2>4, <2>9, MoveKeeps
<1> QED BY <1>1, <1>2

LEMMA LoadPostKeeps ==
  ASSUME SharingInv, NEW r \in Requests, LoadPost(r) PROVE SharingInv'
<1> DEFINE q == requests[r]
           p == RowOf(PostById(q.post))
           n(pc) == [q EXCEPT !.found = p, !.pc = pc]
<1>1. q \in Request /\ Sound(q) /\ q.pc = "loadPost" /\ ~At(r, "idle")
  BY InFlight DEF LoadPost, At
<1>2. UNCHANGED <<postTables, relations>>
  BY DEF LoadPost
<1>3. CASE p = Undefined
  BY <1>2, <1>3, RespondKeeps DEF LoadPost
<1>4. CASE p # Undefined
  <2>1. p \in posts /\ p \in Post /\ p.id = q.post
    BY <1>4, PostFound DEF SharingInv
  <2>2. Was(p.id, p.visibility) /\ \A o \in PostById(p.id) : o.author = p.author
    BY <2>1, Named DEF SharingInv, PostsNumbered
  <2>3. p \in PostById(q.post)
    BY <2>1 DEF PostById
  <2>4. \A pc : LET o == n(pc) IN
          /\ o.pc = pc /\ o.found = p /\ o.op = q.op /\ o.post = q.post /\ o.user = q.user
          /\ o.barred = q.barred
    BY <1>1 DEF Request
  <2>5. \A pc \in Steps : n(pc) \in Request
    BY <1>1, <2>1 DEF Request
  <2>6. \A pc \in {"updatePost", "audience", "checkBlock"} : Loaded(n(pc))
    BY <1>4, <2>1, <2>2, <2>4 DEF Loaded
  <2>7. CASE q.op \in {"updatePost", "deletePost"}
    <3> DEFINE pc == IF q.op = "updatePost" THEN "updatePost" ELSE "audience"
    <3>1. ~q.barred
      BY <1>1, <2>7 DEF Sound, StillBarred
    <3>2. Sound(n(pc))
      <4>1. OnCourse(n(pc)) /\ Entitled(n(pc))
        BY <2>4, <2>7 DEF OnCourse, Entitled
      <4>2. n(pc).post < nextId /\ StillBarred(n(pc))
        BY <1>1, <2>4, <3>1 DEF Sound, StillBarred
      <4> QED BY <4>1, <4>2, <2>6 DEF Sound
    <3>3. pc \in Steps
      BY DEF Steps
    <3>4. CASE p.author # q.user
      BY <1>2, <1>4, <2>7, <3>4, RespondKeeps DEF LoadPost
    <3>5. CASE p.author = q.user
      <4>1. requests' = [requests EXCEPT ![r] = n(pc)] /\ Silent
        BY <1>4, <2>7, <3>5 DEF LoadPost
      <4> QED BY <1>2, <2>5, <3>2, <3>3, <4>1, MoveKeeps
    <3> QED BY <3>4, <3>5
  <2>8. CASE q.op \notin {"updatePost", "deletePost"}
    <3>1. q.op \in {"getPost", "createComment", "getComments"}
      BY <1>1, <2>8 DEF Sound, OnCourse
    <3>2. CASE p.author = q.user
      <4>1. Grant(r, p)
        BY <1>4, <2>8, <3>2 DEF LoadPost
      <4>2. ~q.barred
        <5>1. q.barred => {q.user, p.author} \in blocked
          BY <1>1, <2>3 DEF Sound, StillBarred
        <5>2. {q.user, p.author} = {q.user} /\ q.user \in Users
          BY <1>1, <3>2 DEF Request
        <5> QED BY <5>1, <5>2, NotWithOneself DEF SharingInv
      <4>3. Admitted(q.user, p)
        BY <3>2 DEF Admitted
      <4> QED BY <1>1, <1>2, <2>1, <2>2, <2>8, <3>1, <4>1, <4>2, <4>3, GrantKeeps
    <3>3. CASE p.author # q.user
      <4>1. requests' = [requests EXCEPT ![r] = n("checkBlock")] /\ Silent
        BY <1>4, <2>8, <3>3 DEF LoadPost
      <4>2. OnCourse(n("checkBlock")) /\ Entitled(n("checkBlock"))
        BY <2>4, <3>1 DEF OnCourse, Entitled
      <4>3. n("checkBlock").post < nextId /\ StillBarred(n("checkBlock"))
        BY <1>1, <2>3, <2>4 DEF Sound, StillBarred
      <4>4. Sound(n("checkBlock"))
        BY <2>6, <4>2, <4>3 DEF Sound
      <4> QED BY <1>2, <2>5, <4>1, <4>4, MoveKeeps DEF Steps
    <3> QED BY <3>2, <3>3
  <2> QED BY <2>7, <2>8
<1> QED BY <1>3, <1>4

LEMMA CheckBlockKeeps ==
  ASSUME SharingInv, NEW r \in Requests, CheckBlock(r) PROVE SharingInv'
<1> DEFINE q == requests[r]
           p == q.found
           n == [q EXCEPT !.pc = "checkFriends"]
<1>1. q \in Request /\ Sound(q) /\ q.pc = "checkBlock" /\ ~At(r, "idle")
  BY InFlight DEF CheckBlock, At
<1>2. UNCHANGED <<postTables, relations>>
  BY DEF CheckBlock
<1>3. /\ p \in Post /\ p # Undefined /\ p.id = q.post /\ Was(q.post, p.visibility)
      /\ \A o \in PostById(q.post) : o.author = p.author
      /\ q.op \in {"getPost", "createComment", "getComments"}
  BY <1>1 DEF Request, Sound, Loaded, OnCourse
<1>4. CASE BlockedPair(p.author, q.user) \/ p.visibility = "private"
  BY <1>2, <1>4, RespondKeeps DEF CheckBlock
<1>5. CASE ~BlockedPair(p.author, q.user) /\ p.visibility # "private"
  <2>1. ~q.barred
    <3>1. {q.user, p.author} \notin blocked
      BY <1>5, Swap DEF BlockedPair
    <3> QED BY <1>1, <3>1 DEF Sound, StillBarred
  <2>2. CASE p.visibility = "public"
    <3>1. Grant(r, p) /\ Admitted(q.user, p)
      BY <1>3, <1>5, <2>2 DEF CheckBlock, Admitted
    <3> QED BY <1>1, <1>2, <1>3, <2>1, <3>1, GrantKeeps
  <2>3. CASE p.visibility # "public"
    <3>1. requests' = [requests EXCEPT ![r] = n] /\ Silent
      BY <1>5, <2>3 DEF CheckBlock, Goto
    <3>2. p.visibility = "friends"
      BY <1>3, <1>5, <2>3 DEF Post, Visibility
    <3>3. n \in Request
      BY <1>1 DEF Request, Steps
    <3>4. /\ n.pc = "checkFriends" /\ n.found = p /\ n.op = q.op /\ n.post = q.post
          /\ n.barred = q.barred
      BY <1>1 DEF Request
    <3>5. Sound(n)
      BY <1>1, <1>3, <2>1, <3>2, <3>4 DEF Sound, OnCourse, Loaded, Entitled, StillBarred
    <3> QED BY <1>2, <3>1, <3>3, <3>5, MoveKeeps
  <2> QED BY <2>2, <2>3
<1> QED BY <1>4, <1>5

LEMMA CheckFriendsKeeps ==
  ASSUME SharingInv, NEW r \in Requests, CheckFriends(r) PROVE SharingInv'
<1> DEFINE q == requests[r]
           p == q.found
<1>1. q \in Request /\ Sound(q) /\ q.pc = "checkFriends" /\ ~At(r, "idle")
  BY InFlight DEF CheckFriends, At
<1>2. UNCHANGED <<postTables, relations>>
  BY DEF CheckFriends
<1>3. CASE q.user \notin FriendsOf(p.author)
  BY <1>2, <1>3, RespondKeeps DEF CheckFriends
<1>4. CASE q.user \in FriendsOf(p.author)
  <2>1. /\ p \in Post /\ p.id = q.post /\ Was(q.post, p.visibility)
        /\ \A o \in PostById(q.post) : o.author = p.author
        /\ q.op \in {"getPost", "createComment", "getComments"}
        /\ p.visibility = "friends" /\ ~q.barred
    BY <1>1 DEF Request, Sound, Loaded, OnCourse, Entitled, StillBarred
  <2>2. {q.user, p.author} \in everFriends
    BY <1>4, Swap DEF FriendsOf, SharingInv
  <2>3. Admitted(q.user, p)
    BY <2>1, <2>2 DEF Admitted
  <2> QED BY <1>1, <1>2, <1>4, <2>1, <2>3, GrantKeeps DEF CheckFriends
<1> QED BY <1>3, <1>4

LEMMA FindCommentsKeeps ==
  ASSUME SharingInv, NEW r \in Requests, FindComments(r) PROVE SharingInv'
<1>1. /\ requests[r] \in Request /\ Sound(requests[r]) /\ ~At(r, "idle")
      /\ requests[r].pc = "findComments"
  BY InFlight DEF FindComments, At
<1>2. requests[r].found \in Post /\ Admitted(requests[r].user, requests[r].found)
  BY <1>1 DEF Request, Sound, Loaded, Entitled
<1> QED BY <1>1, <1>2, AnswerKeeps DEF FindComments

\* A query rejects.
LEMMA FailKeeps ==
  ASSUME SharingInv, NEW r \in Requests, Fail(r) PROVE SharingInv'
  BY RespondKeeps DEF Fail

-----------------------------------------------------------------------------
(* Comments are loaded, edited and read again.                             *)

\* Moving on to a query that nothing about the post has to be known for, or
\* with what is known already.
LEMMA OnwardKeeps ==
  ASSUME SharingInv, NEW r \in Requests, ~At(r, "idle"),
         requests[r].pc \notin {"loadPost", "checkBlock"},
         requests[r].op \in {"createComment", "updateComment", "deleteComment"},
         NEW pc \in {"refetchComment", "loadParent", "updateComment", "audience"},
         pc \in {"loadParent", "updateComment"} => requests[r].op # "createComment",
         pc \in {"refetchComment", "audience"} =>
           requests[r].found # Undefined \/ requests[r].op # "createComment",
         pc = "audience" => requests[r].found # Undefined,
         NEW row \in Comment \cup {Undefined} \cup {requests[r].row},
         requests' = [requests EXCEPT ![r] = [requests[r] EXCEPT !.row = row, !.pc = pc]],
         Silent, UNCHANGED <<postTables, relations>>
  PROVE  SharingInv'
<1> DEFINE q == requests[r]
           n == [q EXCEPT !.row = row, !.pc = pc]
<1>1. q \in Request /\ Sound(q)
  BY InFlight
<1>2. n \in Request
  BY <1>1 DEF Request, Steps
<1>3. /\ n.pc = pc /\ n.op = q.op /\ n.post = q.post /\ n.found = q.found
      /\ n.barred = q.barred
  BY <1>1 DEF Request
<1>4. ~q.barred
  BY <1>1 DEF Sound, StillBarred
<1>5. OnCourse(n) /\ Entitled(n) /\ StillBarred(n)
  BY <1>3, <1>4 DEF OnCourse, Entitled, StillBarred, CommentOps
<1>6. Loaded(n)
  BY <1>1, <1>3 DEF Loaded, Sound
<1> QED BY <1>1, <1>2, <1>3, <1>5, <1>6, MoveKeeps DEF Sound

LEMMA LoadCommentKeeps ==
  ASSUME SharingInv, NEW r \in Requests, LoadComment(r) PROVE SharingInv'
<1> DEFINE q == requests[r]
           c == RowOf(CommentById(q.comment))
           pc == IF q.op = "updateComment" THEN "updateComment" ELSE "loadParent"
<1>1. /\ q \in Request /\ q.pc = "loadComment" /\ ~At(r, "idle")
      /\ q.op \in {"updateComment", "deleteComment"}
  BY InFlight DEF LoadComment, At, Sound, OnCourse
<1>2. UNCHANGED <<postTables, relations>> /\ Silent
  BY DEF LoadComment
<1>3. CASE Respond(r)
  BY <1>2, <1>3, RespondKeeps
<1>4. CASE ~Respond(r)
  <2>1. c # Undefined /\ requests' = [requests EXCEPT ![r].row = c, ![r].pc = pc]
    BY <1>4 DEF LoadComment
  <2>2. requests' = [requests EXCEPT ![r] = [q EXCEPT !.row = c, !.pc = pc]]
    BY <2>1
  <2>3. c \in Comment
    BY <2>1, CommentFound DEF SharingInv
  <2>4. pc \in {"updateComment", "loadParent"}
    OBVIOUS
  <2> HIDE DEF pc, c
  <2> QED BY <1>1, <1>2, <2>2, <2>3, <2>4, OnwardKeeps
<1> QED BY <1>3, <1>4

LEMMA UpdateCommentKeeps ==
  ASSUME SharingInv, NEW r \in Requests, UpdateComment(r) PROVE SharingInv'
<1> DEFINE q == requests[r]
<1>1. /\ q \in Request /\ q.pc = "updateComment" /\ ~At(r, "idle")
      /\ q.op \in {"updateComment", "deleteComment"}
  BY InFlight DEF UpdateComment, At, Sound, OnCourse
<1>2. UNCHANGED <<postTables, relations>> /\ Silent
  BY DEF UpdateComment
<1>3. CASE CommentById(q.comment) = {}
  <2>1. requests' = [requests EXCEPT ![r] = [q EXCEPT !.row = Undefined, !.pc = "loadParent"]]
    BY <1>3 DEF UpdateComment
  <2> QED BY <1>1, <1>2, <2>1, OnwardKeeps
<1>4. CASE CommentById(q.comment) # {}
  <2>1. requests' = [requests EXCEPT ![r] = [q EXCEPT !.row = q.row, !.pc = "refetchComment"]]
    BY <1>1, <1>4 DEF UpdateComment, Goto, Request
  <2> QED BY <1>1, <1>2, <2>1, OnwardKeeps
<1> QED BY <1>3, <1>4

LEMMA RefetchCommentKeeps ==
  ASSUME SharingInv, NEW r \in Requests, RefetchComment(r) PROVE SharingInv'
<1> DEFINE q == requests[r]
           c == RowOf(CommentById(q.comment))
           pc == IF q.op = "createComment" THEN "audience" ELSE "loadParent"
<1>1. /\ q \in Request /\ q.pc = "refetchComment" /\ ~At(r, "idle")
      /\ q.op \in {"createComment", "updateComment", "deleteComment"}
      /\ q.op = "createComment" => q.found # Undefined
  BY InFlight DEF RefetchComment, At, Sound, OnCourse, Loaded
<1>2. UNCHANGED <<postTables, relations>> /\ Silent
  BY DEF RefetchComment
<1>3. c \in Comment \cup {Undefined}
  BY CommentFound DEF SharingInv
<1>4. requests' = [requests EXCEPT ![r] = [q EXCEPT !.row = c, !.pc = pc]]
  BY DEF RefetchComment
<1>5. /\ pc \in {"audience", "loadParent"}
      /\ pc = "loadParent" => q.op # "createComment"
      /\ pc = "audience" => q.op = "createComment"
  OBVIOUS
<1> HIDE DEF c, pc
<1> QED BY <1>1, <1>2, <1>3, <1>4, <1>5, OnwardKeeps

\* The post of a comment, as far as it is there.
LEMMA LoadParentKeeps ==
  ASSUME SharingInv, NEW r \in Requests, LoadParent(r) PROVE SharingInv'
<1> DEFINE q == requests[r]
           p == RowOf(PostById(q.post))
           pc == IF q.op = "updateComment" THEN "audience" ELSE "deleteComment"
           n == [q EXCEPT !.found = p, !.pc = pc]
<1>1. /\ q \in Request /\ Sound(q) /\ q.pc = "loadParent" /\ ~At(r, "idle")
      /\ q.op \in {"updateComment", "deleteComment"} /\ ~q.barred
  BY InFlight DEF LoadParent, At, Sound, OnCourse, StillBarred
<1>2. UNCHANGED <<postTables, relations>> /\ Silent
  BY DEF LoadParent
<1>3. CASE Respond(r)
  BY <1>2, <1>3, RespondKeeps
<1>4. CASE ~Respond(r)
  <2>1. requests' = [requests EXCEPT ![r] = n]
    BY <1>4 DEF LoadParent
  <2>2. q.op = "updateComment" => p # Undefined
    BY <1>4 DEF LoadParent
  <2>3. /\ p # Undefined => /\ p \in Post /\ p.id = q.post /\ Was(q.post, p.visibility)
                            /\ \A o \in PostById(q.post) : o.author = p.author
    BY PostFound, Named DEF SharingInv, PostsNumbered
  <2> HIDE DEF p
  <2>4. n \in Request
    BY <1>1, <2>3 DEF Request, Steps
  <2>5. /\ n.pc = pc /\ n.found = p /\ n.op = q.op /\ n.post = q.post
        /\ n.barred = q.barred
    BY <1>1 DEF Request
  <2>6. OnCourse(n) /\ Entitled(n) /\ StillBarred(n)
    BY <1>1, <2>5 DEF OnCourse, Entitled, StillBarred
  <2>7. Loaded(n)
    BY <2>2, <2>3, <2>5 DEF Loaded
  <2>8. Sound(n)
    BY <1>1, <2>5, <2>6, <2>7 DEF Sound
  <2> QED BY <1>2, <2>1, <2>4, <2>8, MoveKeeps
<1> QED BY <1>3, <1>4

-----------------------------------------------------------------------------
(* Edits and events.                                                       *)

\* On to the audience of an edit, with the row as it was read or without.
LEMMA ToAudienceKeeps ==
  ASSUME SharingInv, NEW r \in Requests, requests[r].pc \in {"updatePost", "refetchPost"},
         NEW row \in Post \cup {Undefined},
         row # Undefined => row.id = requests[r].post /\ Was(requests[r].post, row.visibility),
         requests' = [requests EXCEPT ![r].pc = "audience", ![r].row = row],
         Silent, UNCHANGED <<postTables, relations>>
  PROVE  SharingInv'
<1> DEFINE q == requests[r]
           n == [q EXCEPT !.pc = "audience", !.row = row]
<1>1. q \in Request /\ Sound(q)
  BY InFlight DEF At
<1>2. n \in Request
  BY <1>1 DEF Request, Steps
<1>3. /\ n.pc = "audience" /\ n.row = row /\ n.op = q.op /\ n.post = q.post
      /\ n.found = q.found /\ n.barred = q.barred
  BY <1>1 DEF Request
<1>4. OnCourse(n) /\ Entitled(n)
  BY <1>3 DEF OnCourse, Entitled
<1>5. Loaded(n) /\ StillBarred(n)
  BY <1>1, <1>3 DEF Sound, Loaded, StillBarred
<1>6. requests' = [requests EXCEPT ![r] = n]
  OBVIOUS
<1>7. Sound(n)
  BY <1>1, <1>3, <1>4, <1>5 DEF Sound
<1> QED BY <1>2, <1>6, <1>7, MoveKeeps

\* The service's undefined.
LEMMA WithoutRowKeeps ==
  ASSUME SharingInv, NEW r \in Requests, requests[r].pc \in {"updatePost", "refetchPost"},
         WithoutRow(r), Silent, UNCHANGED <<postTables, relations>>
  PROVE  SharingInv'
<1>1. CASE CannotTell(r)
  BY <1>1, RespondKeeps DEF WithoutRow
<1>2. CASE ~CannotTell(r)
  BY <1>2, ToAudienceKeeps DEF WithoutRow
<1> QED BY <1>1, <1>2

LEMMA RefetchPostKeeps ==
  ASSUME SharingInv, NEW r \in Requests, RefetchPost(r) PROVE SharingInv'
<1> DEFINE p == RowOf(PostById(requests[r].post))
<1>1. /\ requests[r].pc = "refetchPost" /\ Silent /\ UNCHANGED <<postTables, relations>>
  BY DEF RefetchPost, At
<1>2. CASE p = Undefined
  BY <1>1, <1>2, WithoutRowKeeps DEF RefetchPost
<1>3. CASE p # Undefined
  <2>1. p \in Post /\ p.id = requests[r].post /\ Was(p.id, p.visibility)
    BY <1>3, PostFound DEF SharingInv, PostsNumbered
  <2>2. requests' = [requests EXCEPT ![r].pc = "audience", ![r].row = p]
    BY <1>3 DEF RefetchPost
  <2> HIDE DEF p
  <2> QED BY <1>1, <2>1, <2>2, ToAudienceKeeps
<1> QED BY <1>2, <1>3

\* Who the event is for: everybody, when the post has been public; nobody;
\* or friends of the author, who have been so ever since.
LEMMA FriendsAreInCircle ==
  ASSUME SharingInv, NEW p \in Post, NEW u \in FriendsOf(p.author)
  PROVE  InCircle(u, p)
<1>1. {u, p.author} \in everFriends
  BY Swap DEF FriendsOf, SharingInv
<1> QED BY <1>1 DEF InCircle

LEMMA AudienceKeeps ==
  ASSUME SharingInv, NEW r \in Requests, Audience(r) PROVE SharingInv'
<1> DEFINE q == requests[r]
           full == IF q.op = "updatePost" THEN UpdateAudience(q.found, q.row)
                                          ELSE PostAudience(q.found)
           to == full \ {q.user}
           pc == IF q.op = "deletePost" THEN "deletePost" ELSE "emit"
           n == [q EXCEPT !.to = to, !.pc = pc]
<1>1. /\ q \in Request /\ Sound(q) /\ q.pc = "audience" /\ ~At(r, "idle")
      /\ UNCHANGED <<postTables, relations>>
  BY InFlight DEF Audience, At
<1>2. /\ q.found \in Post /\ q.found # Undefined /\ q.found.id = q.post
      /\ Was(q.post, q.found.visibility)
  BY <1>1 DEF Request, Sound, Loaded
<1>3. full \subseteq Users /\ \A u \in full : InCircle(u, q.found)
  <2>1. FriendsOf(q.found.author) \subseteq Users
    BY DEF FriendsOf
  <2>2. \A u \in FriendsOf(q.found.author) : InCircle(u, q.found)
    BY <1>2, FriendsAreInCircle
  <2>3. CASE q.op = "updatePost"
    <3>1. CASE EitherPublic(q.found, q.row)
      <4>1. q.row # Undefined => Was(q.post, q.row.visibility)
        BY <1>1, <2>3 DEF Sound, Entitled
      <4>2. Was(q.found.id, "public")
        BY <1>2, <3>1, <4>1 DEF EitherPublic
      <4> QED BY <2>3, <3>1, <4>2 DEF UpdateAudience, InCircle
    <3>2. CASE ~EitherPublic(q.found, q.row)
      BY <2>1, <2>2, <2>3, <3>2 DEF UpdateAudience
    <3> QED BY <3>1, <3>2
  <2>4. CASE q.op # "updatePost"
    <3>1. CASE q.found.visibility = "public"
      BY <1>2, <2>4, <3>1 DEF PostAudience, InCircle
    <3>2. CASE q.found.visibility = "private"
      BY <2>4, <3>2 DEF PostAudience
    <3>3. CASE q.found.visibility \notin {"public", "private"}
      BY <2>1, <2>2, <2>4, <3>3 DEF PostAudience
    <3> QED BY <3>1, <3>2, <3>3
  <2> QED BY <2>3, <2>4
<1>4. q.op # "updatePost" /\ q.found.visibility = "private" => full = {}
  BY DEF PostAudience
<1>5. /\ to \in SUBSET Users /\ \A u \in to : InCircle(u, q.found)
      /\ q.op # "updatePost" /\ q.found.visibility = "private" => to = {}
  BY <1>3, <1>4
<1>6. IF q.op # "deletePost" /\ ~TakesFindFriends(q) THEN Tell(r, to)
      ELSE requests' = [requests EXCEPT ![r] = n] /\ Silent
  BY DEF Audience
<1> HIDE DEF full, to
<1>7. CASE q.op # "deletePost" /\ ~TakesFindFriends(q)
  BY <1>1, <1>2, <1>5, <1>6, <1>7, TellKeeps
<1>8. CASE ~(q.op # "deletePost" /\ ~TakesFindFriends(q))
  <2>1. pc \in {"deletePost", "emit"}
    OBVIOUS
  <2> HIDE DEF pc
  <2>2. n \in Request
    BY <1>1, <1>5, <2>1 DEF Request, Steps
  <2>3. /\ n.pc = pc /\ n.to = to /\ n.op = q.op /\ n.post = q.post
        /\ n.found = q.found /\ n.barred = q.barred
    BY <1>1 DEF Request
  <2> HIDE DEF n
  <2>4. OnCourse(n) /\ Loaded(n) /\ StillBarred(n)
    BY <1>1, <2>1, <2>3 DEF Sound, OnCourse, Loaded, StillBarred
  <2>5. Entitled(n)
    BY <1>5, <2>1, <2>3 DEF Entitled
  <2>6. Sound(n)
    BY <1>1, <2>3, <2>4, <2>5 DEF Sound
  <2> QED BY <1>1, <1>6, <1>8, <2>2, <2>6, MoveKeeps
<1> QED BY <1>7, <1>8

LEMMA EmitEventKeeps ==
  ASSUME SharingInv, NEW r \in Requests, EmitEvent(r) PROVE SharingInv'
<1> DEFINE q == requests[r]
<1>1. /\ q \in Request /\ Sound(q) /\ q.pc = "emit" /\ ~At(r, "idle")
  BY InFlight DEF EmitEvent, At
<1>2. q.found # Undefined /\ q.to \in SUBSET Users
  BY <1>1 DEF Sound, Loaded, Request
<1>3. /\ \A u \in q.to : InCircle(u, q.found)
      /\ q.op # "updatePost" /\ q.found.visibility = "private" => q.to = {}
  BY <1>1 DEF Sound, Entitled
<1> QED BY <1>1, <1>2, <1>3, TellKeeps DEF EmitEvent

-----------------------------------------------------------------------------
(* The steps that write a table.                                           *)

\* Comments stay admitted when some go, and no post with comments does.
LEMMA CommentsKept ==
  ASSUME SharingInv, Grown,
         \A c \in comments' :
           c \in comments /\ \A p \in PostById(c.post) :
                               \E o \in posts' : o.id = p.id /\ o.author = p.author
  PROVE  CommentsWereAdmitted'
<1> SUFFICES ASSUME NEW c \in comments'
             PROVE  \E p \in posts' :
                      /\ p.id = c.post
                      /\ \/ c.author = p.author
                         \/ <<p.id, "public">> \in everShown'
                         \/ <<p.id, "friends">> \in everShown'
                            /\ {c.author, p.author} \in everFriends'
  BY DEF CommentsWereAdmitted, PostById, Was
<1>1. PICK p \in PostById(c.post) :
        \/ c.author = p.author
        \/ Was(p.id, "public")
        \/ Was(p.id, "friends") /\ {c.author, p.author} \in everFriends
  BY DEF SharingInv, CommentsWereAdmitted
<1>2. PICK o \in posts' : o.id = p.id /\ o.author = p.author
  OBVIOUS
<1>3. p.id = c.post
  BY DEF PostById
<1> QED BY <1>1, <1>2, <1>3 DEF Grown, Was

LEMMA InsertPostKeeps ==
  ASSUME SharingInv, NEW r \in Requests, InsertPost(r) PROVE SharingInv'
<1> DEFINE q == requests[r]
<1>1. /\ q \in Request /\ Sound(q) /\ q.pc = "insertPost" /\ ~q.barred
  BY InFlight DEF InsertPost, At, Sound, StillBarred
<1>2. nextId \in RowId /\ nextId \in Nat
  BY DEF SharingInv, TypeOK, RowId, NoId
<1>3. PICK new \in Post : new = [id |-> nextId, author |-> q.user, visibility |-> q.wish]
  BY <1>1, <1>2 DEF Request, Post
<1>4. new # Undefined /\ new.id = nextId
  BY <1>2, <1>3 DEF Undefined, RowId
<1>5. PICK n \in Request :
        n = [q EXCEPT !.pc = "audience", !.post = nextId, !.found = new, !.row = new]
  BY <1>1, <1>2, <1>3 DEF Request, Steps
<1>6. /\ posts' = posts \cup {new} /\ nextId' = nextId + 1
      /\ everShown' = everShown \cup {<<nextId, new.visibility>>}
      /\ requests' = [requests EXCEPT ![r] = n]
      /\ UNCHANGED <<comments, relations>> /\ wire' = {}
  BY <1>3, <1>5 DEF InsertPost, Show, Silent
<1>7. nextId' \in RowId /\ nextId' \in Nat /\ nextId < nextId'
  BY <1>2, <1>6 DEF RowId, NoId
<1>8. \A p \in posts : p.id \in Nat /\ p.id < nextId
  BY Named
<1>9. Grown
  BY <1>2, <1>4, <1>6, <1>7 DEF Grown, relations
<1>10. PostsNumbered'
  BY <1>2, <1>4, <1>6, <1>7, <1>8 DEF PostsNumbered, SharingInv, Was
<1>11. CommentsWereAdmitted'
  <2>1. \A c \in comments' : c \in comments /\ \A p \in PostById(c.post) : p \in posts'
    BY <1>6 DEF PostById
  <2> QED BY <1>9, <2>1, CommentsKept
<1>12. /\ n.pc = "audience" /\ n.post = nextId /\ n.found = new /\ n.row = new
       /\ n.op = q.op /\ n.barred = q.barred
  BY <1>1, <1>5 DEF Request
<1>13. Sound(n)'
  <2>1. n.post < nextId'
    BY <1>7, <1>12
  <2>2. Was(n.post, new.visibility)'
    BY <1>6, <1>12 DEF Was
  <2>3. \A p \in PostById(n.post)' : p = new
    BY <1>6, <1>8, <1>12 DEF PostById
  <2>4. Loaded(n)'
    BY <1>4, <1>12, <2>2, <2>3 DEF Loaded
  <2>5. OnCourse(n)' /\ StillBarred(n)'
    BY <1>1, <1>12 DEF OnCourse, StillBarred
  <2>6. Entitled(n)'
    BY <1>4, <1>12, <2>2 DEF Entitled
  <2> QED BY <2>1, <2>4, <2>5, <2>6 DEF Sound
<1>14. /\ posts' \subseteq Post /\ comments' \subseteq Comment
       /\ everShown' \subseteq RowId \X Visibility
  BY <1>2, <1>3, <1>6 DEF SharingInv, TypeOK, Post
<1>15. n.pc # "idle"
  BY <1>12
<1> QED BY <1>6, <1>7, <1>9, <1>10, <1>11, <1>13, <1>14, <1>15, OneRequest

LEMMA UpdatePostKeeps ==
  ASSUME SharingInv, NEW r \in Requests, UpdatePost(r) PROVE SharingInv'
<1> DEFINE q == requests[r]
           i == q.post
           Edited(p) == IF p.id = i THEN [p EXCEPT !.visibility = q.wish] ELSE p
<1>1. /\ q \in Request /\ Sound(q) /\ q.pc = "updatePost"
  BY InFlight DEF UpdatePost, At
<1>2. CASE PostById(i) = {}
  <2>1. WithoutRow(r) /\ Silent /\ UNCHANGED <<postTables, relations>>
    BY <1>2 DEF UpdatePost
  <2> QED BY <1>1, <2>1, WithoutRowKeeps
<1>3. CASE PostById(i) # {}
  <2>1. PICK n \in Request : n = [q EXCEPT !.pc = "refetchPost", !.wish = "public"]
    BY <1>1 DEF Request, Steps, Visibility
  <2>2. /\ posts' = {Edited(p) : p \in posts}
        /\ everShown' = everShown \cup {<<i, q.wish>>}
        /\ requests' = [requests EXCEPT ![r] = n]
        /\ UNCHANGED <<comments, nextId, relations>> /\ Silent
    BY <1>3, <2>1 DEF UpdatePost, Show
  <2>3. i \in RowId /\ q.wish \in Visibility
    BY <1>1, <1>3 DEF PostById, SharingInv, TypeOK, Post, Request
  <2>4. \A p \in posts :
          LET e == Edited(p) IN
          /\ e \in Post /\ e.id = p.id /\ e.author = p.author
          /\ e.visibility = IF p.id = i THEN q.wish ELSE p.visibility
    BY <2>3 DEF SharingInv, TypeOK, Post
  <2> HIDE DEF Edited
  <2>5. nextId \in Nat /\ nextId' = nextId /\ nextId \in RowId
    BY <2>2 DEF SharingInv, TypeOK, RowId
  <2>6. Grown
    BY <2>2, <2>4, <2>5 DEF Grown, relations
  <2>7. PostsNumbered'
    <3>1. PostsNumbered
      BY DEF SharingInv
    <3>2. ASSUME NEW p \in posts'
          PROVE  p.id < nextId' /\ Was(p.id, p.visibility)'
      <4>1. PICK o \in posts : p = Edited(o)
        BY <2>2
      <4>2. o.id < nextId /\ Was(o.id, o.visibility)
        BY <3>1 DEF PostsNumbered
      <4> QED BY <2>2, <2>4, <2>5, <4>1, <4>2 DEF Was
    <3>3. ASSUME NEW p \in posts', NEW s \in posts', p.id = s.id PROVE p = s
      <4>1. PICK o \in posts : p = Edited(o)
        BY <2>2
      <4>2. PICK z \in posts : s = Edited(z)
        BY <2>2
      <4>3. o = z
        BY <2>4, <3>1, <3>3, <4>1, <4>2 DEF PostsNumbered
      <4> QED BY <4>1, <4>2, <4>3
    <3> QED BY <3>2, <3>3 DEF PostsNumbered
  <2>8. CommentsWereAdmitted'
    <3>1. \A p \in posts : Edited(p) \in posts'
      BY <2>2
    <3>2. \A c \in comments' : c \in comments /\ \A p \in PostById(c.post) :
            \E o \in posts' : o.id = p.id /\ o.author = p.author
      BY <2>2, <2>4, <3>1 DEF PostById
    <3> QED BY <2>6, <3>2, CommentsKept
  <2>10. /\ n.pc = "refetchPost" /\ n.post = i /\ n.found = q.found /\ n.op = q.op
        /\ n.barred = q.barred
    BY <1>1, <2>1 DEF Request
  <2>11. Sound(n)
    BY <1>1, <2>10 DEF Sound, OnCourse, Loaded, Entitled, StillBarred
  <2>12. Sound(n)'
    BY <2>6, <2>11, SoundKept
  <2>13. /\ posts' \subseteq Post /\ comments' \subseteq Comment
         /\ everShown' \subseteq RowId \X Visibility
    BY <2>2, <2>3, <2>4 DEF SharingInv, TypeOK
  <2>14. wire' = {} /\ n.pc # "idle"
    BY <2>2, <2>10 DEF Silent
  <2> QED BY <2>2, <2>5, <2>6, <2>7, <2>8, <2>12, <2>13, <2>14, OneRequest
<1> QED BY <1>2, <1>3

\* ON DELETE CASCADE: no comment stays behind.
LEMMA DeletePostKeeps ==
  ASSUME SharingInv, NEW r \in Requests, DeletePost(r) PROVE SharingInv'
<1> DEFINE q == requests[r]
<1>1. /\ q \in Request /\ Sound(q) /\ q.pc = "deletePost"
  BY InFlight DEF DeletePost, At
<1>2. PICK n \in Request : n = [q EXCEPT !.pc = "emit"]
  BY <1>1 DEF Request, Steps
<1>3. /\ posts' = posts \ PostById(q.post)
      /\ comments' = {c \in comments : c.post # q.post}
      /\ requests' = [requests EXCEPT ![r] = n]
      /\ UNCHANGED <<nextId, everShown, relations>> /\ wire' = {}
  BY <1>2 DEF DeletePost, Goto, Silent
<1>4. nextId \in RowId /\ nextId \in Nat
  BY DEF SharingInv, TypeOK, RowId, NoId
<1>5. Grown
  BY <1>3, <1>4 DEF Grown, relations
<1>6. PostsNumbered'
  BY <1>3 DEF SharingInv, PostsNumbered, Was
<1>7. CommentsWereAdmitted'
  <2>1. \A c \in comments' : c \in comments /\ \A p \in PostById(c.post) : p \in posts'
    BY <1>3 DEF PostById
  <2> QED BY <1>5, <2>1, CommentsKept
<1>8. /\ n.pc = "emit" /\ n.post = q.post /\ n.found = q.found /\ n.op = q.op
      /\ n.barred = q.barred /\ n.to = q.to
  BY <1>1, <1>2 DEF Request
<1>9. Sound(n)
  BY <1>1, <1>8 DEF Sound, OnCourse, Loaded, Entitled, StillBarred
<1>10. Sound(n)'
  BY <1>5, <1>9, SoundKept
<1>11. /\ posts' \subseteq Post /\ comments' \subseteq Comment
       /\ everShown' \subseteq RowId \X Visibility
  BY <1>3 DEF SharingInv, TypeOK
<1> QED BY <1>3, <1>4, <1>5, <1>6, <1>7, <1>8, <1>10, <1>11, OneRequest

\* The REFERENCES of the comments table find the post as it is now; what was
\* found out about it as it was is still true.
LEMMA InsertCommentKeeps ==
  ASSUME SharingInv, NEW r \in Requests, InsertComment(r) PROVE SharingInv'
<1> DEFINE q == requests[r]
<1>1. /\ q \in Request /\ Sound(q) /\ q.pc = "insertComment"
  BY InFlight DEF InsertComment, At
<1>2. CASE ~ParentIsThere(r)
  <2>1. Respond(r) /\ Silent /\ UNCHANGED <<postTables, relations>>
    BY <1>2 DEF InsertComment, postTables
  <2> QED BY <2>1, RespondKeeps
<1>3. CASE ParentIsThere(r)
  <2>1. nextId \in RowId /\ nextId \in Nat
    BY DEF SharingInv, TypeOK, RowId, NoId
  <2>2. PICK p \in PostById(q.post) : TRUE
    BY <1>3 DEF ParentIsThere
  <2>3. /\ p \in posts /\ p.id = q.post /\ q.post \in RowId
    BY <2>2 DEF PostById, SharingInv, TypeOK, Post
  <2>4. PICK new \in Comment : new = [id |-> nextId, post |-> q.post, author |-> q.user]
    BY <1>1, <2>1, <2>3 DEF Comment, Request
  <2>5. PICK n \in Request : n = [q EXCEPT !.pc = "refetchComment", !.comment = nextId]
    BY <1>1, <2>1 DEF Request, Steps
  <2>6. /\ comments' = comments \cup {new} /\ nextId' = nextId + 1
        /\ requests' = [requests EXCEPT ![r] = n]
        /\ UNCHANGED <<posts, everShown, relations>> /\ wire' = {}
    BY <1>3, <2>4, <2>5 DEF InsertComment, Silent
  <2>7. nextId' \in RowId /\ nextId' \in Nat /\ nextId < nextId'
    BY <2>1, <2>6 DEF RowId, NoId
  <2>8. Grown
    BY <2>1, <2>6, <2>7 DEF Grown, relations
  <2>9. PostsNumbered'
    <3>1. \A o \in posts : o.id \in Nat /\ o.id < nextId'
      BY <2>1, <2>7, Named
    <3> QED BY <2>6, <3>1 DEF SharingInv, PostsNumbered, Was
  <2>10. CommentsWereAdmitted'
    <3>1. p.author = q.found.author /\ p.id = q.found.id
      BY <1>1, <2>2, <2>3 DEF Sound, Loaded
    <3>2. Admitted(q.user, q.found)
      BY <1>1 DEF Sound, Entitled
    <3>3. \/ new.author = p.author
          \/ Was(p.id, "public")
          \/ Was(p.id, "friends") /\ {new.author, p.author} \in everFriends
      BY <2>4, <3>1, <3>2 DEF Admitted
    <3>4. p \in PostById(new.post)
      BY <2>2, <2>4
    <3> QED BY <2>6, <3>3, <3>4
            DEF SharingInv, CommentsWereAdmitted, PostById, Was, relations
  <2>11. /\ n.pc = "refetchComment" /\ n.post = q.post /\ n.found = q.found
         /\ n.op = q.op /\ n.barred = q.barred
    BY <1>1, <2>5 DEF Request
  <2>12. Sound(n)
    BY <1>1, <2>11 DEF Sound, OnCourse, Loaded, Entitled, StillBarred
  <2>13. Sound(n)'
    BY <2>8, <2>12, SoundKept
  <2>14. /\ posts' \subseteq Post /\ comments' \subseteq Comment
         /\ everShown' \subseteq RowId \X Visibility
    BY <2>6 DEF SharingInv, TypeOK
  <2> QED BY <2>6, <2>7, <2>8, <2>9, <2>10, <2>11, <2>13, <2>14, OneRequest
<1> QED BY <1>2, <1>3

LEMMA DeleteCommentKeeps ==
  ASSUME SharingInv, NEW r \in Requests, DeleteComment(r) PROVE SharingInv'
<1> DEFINE q == requests[r]
<1>1. /\ q \in Request /\ Sound(q) /\ q.pc = "deleteComment"
      /\ q.op \in {"updateComment", "deleteComment"}
  BY InFlight DEF DeleteComment, At, Sound, OnCourse
<1>2. PICK n \in Request \cup {Idle} :
        n = IF q.found = Undefined THEN Idle ELSE [q EXCEPT !.pc = "audience"]
  BY <1>1 DEF Request, Steps
<1>3. /\ comments' = comments \ CommentById(q.comment)
      /\ requests' = [requests EXCEPT ![r] = n]
      /\ UNCHANGED <<posts, nextId, everShown, relations>> /\ wire' = {}
  BY <1>2 DEF DeleteComment, Goto, Respond, Silent
<1>4. nextId \in RowId /\ nextId \in Nat
  BY DEF SharingInv, TypeOK, RowId, NoId
<1>5. Grown
  BY <1>3, <1>4 DEF Grown, relations
<1>6. PostsNumbered'
  BY <1>3 DEF SharingInv, PostsNumbered, Was
<1>7. CommentsWereAdmitted'
  <2>1. \A c \in comments' : c \in comments /\ \A p \in PostById(c.post) : p \in posts'
    BY <1>3 DEF PostById
  <2> QED BY <1>5, <2>1, CommentsKept
<1>8. n # Idle => n.pc # "idle" /\ Sound(n)'
  <2>1. SUFFICES ASSUME n # Idle PROVE n.pc # "idle" /\ Sound(n)'
    OBVIOUS
  <2>2. n \in Request /\ q.found # Undefined /\ n = [q EXCEPT !.pc = "audience"]
    BY <1>2, <2>1
  <2>3. /\ n.pc = "audience" /\ n.post = q.post /\ n.found = q.found
        /\ n.op = q.op /\ n.barred = q.barred
    BY <1>1, <2>2 DEF Request
  <2>4. Sound(n)
    BY <1>1, <2>2, <2>3 DEF Sound, OnCourse, Loaded, Entitled, StillBarred
  <2> QED BY <1>5, <2>2, <2>3, <2>4, SoundKept
<1>9. /\ posts' \subseteq Post /\ comments' \subseteq Comment
      /\ everShown' \subseteq RowId \X Visibility
  BY <1>3 DEF SharingInv, TypeOK
<1> QED BY <1>3, <1>4, <1>5, <1>6, <1>7, <1>8, <1>9, OneRequest

-----------------------------------------------------------------------------
(* Friendships and blocks change meanwhile.                                *)

LEMMA FriendsOnly ==
  ASSUME SharingInv, Grown, UNCHANGED <<postTables, requests>>, wire' = {},
         friends' \subseteq Pairs, blocked' \subseteq Pairs, everFriends' \subseteq Pairs,
         friends' \subseteq everFriends'
  PROVE  SharingInv'
<1>1. TypeOK'
  BY DEF SharingInv, TypeOK, postTables
<1>2. PostsNumbered'
  BY DEF SharingInv, PostsNumbered, Was, postTables
<1>3. CommentsWereAdmitted'
  <2>1. \A c \in comments' : c \in comments /\ \A p \in PostById(c.post) : p \in posts'
    BY DEF PostById, postTables
  <2> QED BY <2>1, CommentsKept
<1>4. ASSUME NEW s \in Requests, ~At(s, "idle")' PROVE Sound(requests[s])'
  <2>1. requests'[s] = requests[s] /\ ~At(s, "idle")
    BY <1>4 DEF At
  <2>2. requests[s] \in Request /\ Sound(requests[s])
    BY <2>1, InFlight
  <2>3. \A x \in Request : Sound(x) => Sound(x)'
    BY SoundKept
  <2> QED BY <2>1, <2>2, <2>3
<1> QED BY <1>1, <1>2, <1>3, <1>4 DEF SharingInv

\* Lifting a block: whoever was barred is not held to it any more.
LEMMA UnblockKeeps ==
  ASSUME SharingInv, NEW pair, Unblock(pair)
  PROVE  SharingInv'
<1>1. /\ blocked' = blocked \ {pair} /\ wire' = {}
      /\ UNCHANGED <<postTables, friends, everFriends>>
  BY DEF Unblock
<1>2. ASSUME NEW s \in Requests
      PROVE  /\ requests'[s] \in Request \cup {Idle}
             /\ ~At(s, "idle")' => Sound(requests[s])'
  <2>1. CASE requests[s] = Idle
    BY <2>1 DEF Unblock, At, Idle
  <2>2. CASE requests[s] # Idle
    <3>1. requests[s] \in Request /\ ~At(s, "idle")
      BY <2>2 DEF SharingInv, TypeOK, At, Request, Steps
    <3>2. PICK n \in Request : n = [requests[s] EXCEPT !.barred = FALSE]
      BY <3>1 DEF Request
    <3>3. requests'[s] = n
      BY <2>2, <3>2 DEF Unblock
    <3>4. /\ n.pc = requests[s].pc /\ n.post = requests[s].post /\ n.op = requests[s].op
          /\ n.found = requests[s].found /\ n.user = requests[s].user
          /\ n.row = requests[s].row /\ n.to = requests[s].to /\ n.barred = FALSE
      BY <3>1, <3>2 DEF Request
    <3>5. Sound(requests[s])
      BY <3>1, InFlight
    <3>6. n.post < nextId /\ OnCourse(n) /\ Loaded(n) /\ Entitled(n)
      BY <3>4, <3>5 DEF Sound, OnCourse, Loaded, Entitled
    <3>7. (n.post < nextId)' /\ OnCourse(n)' /\ Loaded(n)' /\ Entitled(n)'
      BY <1>1, <3>6
         DEF OnCourse, Loaded, Entitled, Admitted, InCircle, Was, PostById, postTables
    <3>8. StillBarred(n)'
      BY <3>4 DEF StillBarred
    <3>9. Sound(n)'
      BY <3>7, <3>8 DEF Sound
    <3> QED BY <3>3, <3>9
  <2> QED BY <2>1, <2>2
<1>3. requests' \in [Requests -> Request \cup {Idle}]
  BY <1>2 DEF Unblock
<1>4. TypeOK'
  BY <1>1, <1>3 DEF SharingInv, TypeOK, postTables
<1>5. PostsNumbered' /\ CommentsWereAdmitted' /\ friends' \subseteq everFriends'
  BY <1>1 DEF SharingInv, PostsNumbered, CommentsWereAdmitted, Was, PostById, postTables
<1> QED BY <1>1, <1>2, <1>4, <1>5 DEF SharingInv

LEMMA RelationsKeep ==
  ASSUME SharingInv, RelationsChange PROVE SharingInv'
<1> USE DEF SharingInv, TypeOK
<1>0. nextId \in Nat
  BY DEF RowId
<1>1. PICK pair \in Pairs : Befriend(pair) \/ Unfriend(pair) \/ Block(pair) \/ Unblock(pair)
  BY DEF RelationsChange
<1>2. CASE Befriend(pair)
  <2>1. Grown
    BY <1>0, <1>2 DEF Befriend, Grown, postTables
  <2> QED BY <1>2, <2>1, FriendsOnly DEF Befriend
<1>3. CASE Unfriend(pair)
  <2>1. Grown
    BY <1>0, <1>3 DEF Unfriend, Grown, postTables
  <2> QED BY <1>3, <2>1, FriendsOnly DEF Unfriend
<1>4. CASE Block(pair)
  <2>1. Grown
    BY <1>0, <1>4 DEF Block, Grown, postTables
  <2> QED BY <1>4, <2>1, FriendsOnly DEF Block
<1>5. CASE Unblock(pair)
  BY <1>5, UnblockKeeps
<1> QED BY <1>1, <1>2, <1>3, <1>4, <1>5

-----------------------------------------------------------------------------
(* The invariant.                                                          *)

LEMMA SharingInit == Init => SharingInv
<1> SUFFICES ASSUME Init PROVE SharingInv
  OBVIOUS
<1>1. TypeOK
  BY DEF Init, TypeOK, RowId, NoId, Idle
<1>2. PostsNumbered /\ friends \subseteq everFriends /\ CommentsWereAdmitted
  BY DEF Init, PostsNumbered, CommentsWereAdmitted
<1>3. \A r \in Requests : At(r, "idle")
  BY DEF Init, At, Idle
<1> QED BY <1>1, <1>2, <1>3 DEF SharingInv, Init

LEMMA ServeKeeps ==
  ASSUME SharingInv, NEW r \in Requests, Serve(r) PROVE SharingInv'
<1>1. CASE PostRequests(r) \/ CommentRequests(r)
  BY <1>1, RequestsKeep
<1>2. CASE PostStep(r)
  BY <1>2, InsertPostKeeps, LoadPostKeeps, CheckBlockKeeps, CheckFriendsKeeps,
     UpdatePostKeeps, RefetchPostKeeps, AudienceKeeps, DeletePostKeeps, EmitEventKeeps
     DEF PostStep
<1>3. CASE CommentStep(r)
  BY <1>3, FindCommentsKeeps, InsertCommentKeeps, RefetchCommentKeeps, LoadCommentKeeps,
     UpdateCommentKeeps, LoadParentKeeps, DeleteCommentKeeps DEF CommentStep
<1>4. CASE Fail(r)
  BY <1>4, FailKeeps
<1> QED BY <1>1, <1>2, <1>3, <1>4 DEF Serve

\* Nothing happens.
LEMMA StutterKeeps ==
  ASSUME SharingInv, UNCHANGED vars PROVE SharingInv'
<1>1. UNCHANGED <<posts, comments, nextId, everShown, friends, blocked, everFriends,
                  requests, wire>>
  BY DEF vars, postTables, relations
<1>2. TypeOK' /\ PostsNumbered' /\ (friends \subseteq everFriends)' /\ CommentsWereAdmitted'
  BY <1>1 DEF SharingInv, TypeOK, PostsNumbered, CommentsWereAdmitted, Was, PostById
<1>3. Grown
  BY <1>1 DEF SharingInv, TypeOK, Grown, RowId
<1>4. ASSUME NEW s \in Requests, ~At(s, "idle")' PROVE Sound(requests[s])'
  <2>1. requests'[s] = requests[s] /\ ~At(s, "idle")
    BY <1>1, <1>4 DEF At
  <2>2. requests[s] \in Request /\ Sound(requests[s])
    BY <2>1, InFlight
  <2>3. \A x \in Request : Sound(x) => Sound(x)'
    BY <1>3, SoundKept
  <2> QED BY <2>1, <2>2, <2>3
<1>5. \A m \in wire' : Discreet(m)'
  BY <1>1 DEF SharingInv, Discreet, InCircle, Was
<1> QED BY <1>2, <1>4, <1>5 DEF SharingInv

LEMMA SharingStep == SharingInv /\ [Next]_vars => SharingInv'
  BY ServeKeeps, RelationsKeep, StutterKeeps DEF Next

THEOREM SharingInvariant == Spec => []SharingInv
  BY SharingInit, SharingStep, PTL DEF Spec

LEMMA FeedStaysInCircle == SharingInv => WithinCircle
<1> SUFFICES ASSUME SharingInv PROVE WithinCircle
  OBVIOUS
<1>1. \A m \in wire : \A u \in m.to : InCircle(u, m.about)
  BY DEF SharingInv, Discreet
<1>2. ASSUME NEW u \in Users, NEW p \in Feed(u, "all") PROVE InCircle(u, p)
  <2>1. p \in posts /\ Was(p.id, p.visibility)
    BY DEF Feed, SharingInv, PostsNumbered
  <2>2. \/ p.author = u \/ p.visibility = "public"
        \/ {u, p.author} \in friends
    BY DEF Feed, InScope
  <2> QED BY <2>1, <2>2 DEF InCircle, SharingInv
<1> QED BY <1>1, <1>2 DEF WithinCircle

(***************************************************************************)
(* A post that was never public reaches nobody who was never a friend of   *)
(* its author, by any response, event or list, for any number of users,    *)
(* posts and overlapping requests (canViewerSeePost, the three audiences,  *)
(* findFeed).                                                              *)
(***************************************************************************)
THEOREM PostsStayInCircle == Spec => []WithinCircle
  BY SharingInvariant, FeedStaysInCircle, PTL

(***************************************************************************)
(* Nothing but an edit speaks to others of a post that was only private    *)
(* (getCreateAudience, getDeleteAudience).                                 *)
(***************************************************************************)
THEOREM PrivatePostsAreQuiet == Spec => []PrivateIsQuiet
<1>1. SharingInv => PrivateIsQuiet
  BY DEF SharingInv, Discreet, PrivateIsQuiet
<1> QED BY <1>1, SharingInvariant, PTL

(***************************************************************************)
(* Every comment hangs on a post, by somebody it had been opened to        *)
(* (commentService.create, comments.post_id REFERENCES posts).             *)
(***************************************************************************)
THEOREM CommentersWereAdmitted == Spec => []CommentsWereAdmitted
<1>1. SharingInv => CommentsWereAdmitted
  BY DEF SharingInv
<1> QED BY <1>1, SharingInvariant, PTL

-----------------------------------------------------------------------------
(* Blocks hold.                                                            *)

\* A step of one request changes that request alone.
LEMMA OthersUntouched ==
  ASSUME SharingInv, NEW r \in Requests, NEW s \in Requests, r # s, Serve(s)
  PROVE  requests'[r] = requests[r]
<1>1. requests \in [Requests -> Request \cup {Idle}]
  BY DEF SharingInv, TypeOK
<1> USE <1>1 DEF Respond, Goto, Receive
<1>2. CASE PostRequests(s) \/ CommentRequests(s)
  BY <1>2 DEF PostRequests, CommentRequests, CreatePost, NamePost, NameParent, NameComment
<1>3. CASE PostStep(s)
  <2>1. CASE LoadPost(s) \/ CheckBlock(s) \/ CheckFriends(s)
    BY <2>1 DEF LoadPost, CheckBlock, CheckFriends, Grant
  <2>2. CASE InsertPost(s) \/ UpdatePost(s) \/ RefetchPost(s) \/ DeletePost(s)
    BY <2>2 DEF InsertPost, UpdatePost, RefetchPost, DeletePost, WithoutRow
  <2>3. CASE Audience(s) \/ EmitEvent(s)
    BY <2>3 DEF Audience, EmitEvent, Tell
  <2> QED BY <1>3, <2>1, <2>2, <2>3 DEF PostStep
<1>4. CASE CommentStep(s)
  BY <1>4 DEF CommentStep, FindComments, InsertComment, RefetchComment, LoadComment,
              UpdateComment, LoadParent, DeleteComment
<1>5. CASE Fail(s)
  BY <1>5 DEF Fail
<1> QED BY <1>2, <1>3, <1>4, <1>5 DEF Serve

\* A barred request is refused by the query that looks, or by the one before.
LEMMA BarredIsRefused ==
  ASSUME SharingInv, NEW r \in Requests, ~At(r, "idle"), requests[r].barred, Serve(r)
  PROVE  \/ requests'[r] = Idle /\ wire' = {}
         \/ requests'[r].pc = "checkBlock"
<1> DEFINE q == requests[r]
           p == RowOf(PostById(q.post))
<1>1. /\ q \in Request /\ Sound(q) /\ StillBarred(q)
      /\ q.op \in {"getPost", "createComment", "getComments"}
      /\ requests \in [Requests -> Request \cup {Idle}]
  BY InFlight DEF Sound, StillBarred, SharingInv, TypeOK
<1>2. CASE Fail(r)
  BY <1>1, <1>2 DEF Fail, Respond, Silent
<1>3. CASE q.pc = "checkBlock" /\ ~Fail(r)
  <2>1. CheckBlock(r)
    BY <1>3 DEF Serve, PostRequests, CommentRequests, PostStep, CommentStep, At, CreatePost,
                NamePost, NameParent, NameComment, Receive, InsertPost, LoadPost, CheckFriends,
                UpdatePost, RefetchPost, Audience, DeletePost, EmitEvent, FindComments,
                InsertComment, RefetchComment, LoadComment, UpdateComment, LoadParent,
                DeleteComment
  <2>2. BlockedPair(q.found.author, q.user)
    BY <1>1, <1>3, Swap DEF StillBarred, BlockedPair
  <2> QED BY <1>1, <2>1, <2>2 DEF CheckBlock, Respond, Silent
<1>4. CASE q.pc = "loadPost" /\ ~Fail(r)
  <2>1. LoadPost(r)
    BY <1>4 DEF Serve, PostRequests, CommentRequests, PostStep, CommentStep, At, CreatePost,
                NamePost, NameParent, NameComment, Receive, InsertPost, CheckBlock, CheckFriends,
                UpdatePost, RefetchPost, Audience, DeletePost, EmitEvent, FindComments,
                InsertComment, RefetchComment, LoadComment, UpdateComment, LoadParent,
                DeleteComment
  <2>2. CASE p = Undefined
    BY <1>1, <2>1, <2>2 DEF LoadPost, Respond, Silent
  <2>3. CASE p # Undefined
    <3>1. p \in PostById(q.post)
      BY <2>3, PostFound DEF SharingInv, PostById
    <3>2. {q.user, p.author} \in blocked
      BY <1>1, <1>4, <3>1 DEF StillBarred
    <3>3. p.author # q.user
      <4>1. {q.user} \notin blocked
        BY NotWithOneself DEF SharingInv
      <4> QED BY <3>2, <4>1
    <3>4. requests' = [requests EXCEPT ![r].found = p, ![r].pc = "checkBlock"]
      BY <1>1, <2>1, <2>3, <3>3 DEF LoadPost
    <3> QED BY <1>1, <3>4 DEF Request
  <2> QED BY <2>2, <2>3
<1> QED BY <1>1, <1>2, <1>3, <1>4 DEF StillBarred

(***************************************************************************)
(* A block overrides visibility whatever happens between the queries of    *)
(* canViewerSeePost, unless a block is lifted.                             *)
(***************************************************************************)
THEOREM BlocksHold == Spec => BlockHolds
<1>1. ASSUME SharingInv, Next, NEW r \in Requests,
             ~At(r, "idle"), requests[r].barred, requests'[r] # requests[r]
      PROVE  \/ requests'[r] = Idle /\ wire' = {}
             \/ requests'[r].pc = "checkBlock"
             \/ blocked' # blocked
  <2>1. CASE \E s \in Requests : Serve(s)
    <3>1. PICK s \in Requests : Serve(s)
      BY <2>1
    <3>2. s = r
      BY <1>1, <3>1, OthersUntouched
    <3> QED BY <1>1, <3>1, <3>2, BarredIsRefused
  <2>2. CASE RelationsChange
    BY <1>1, <2>2 DEF RelationsChange, Befriend, Unfriend, Block, Unblock
  <2> QED BY <1>1, <2>1, <2>2 DEF Next
<1>2. SharingInv /\ [Next]_vars =>
        [\A r \in Requests :
           ~At(r, "idle") /\ requests[r].barred /\ requests'[r] # requests[r] =>
             \/ requests'[r] = Idle /\ wire' = {}
             \/ requests'[r].pc = "checkBlock"
             \/ blocked' # blocked]_vars
  BY <1>1
<1> QED BY <1>2, SharingInvariant, PTL DEF Spec, BlockHolds
=============================================================================
