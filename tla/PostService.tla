----------------------------- MODULE PostService -----------------------------
(***************************************************************************)
(* services/postService.js and controllers/postController.js: creating,    *)
(* reading, editing and deleting posts, and telling the others.            *)
(***************************************************************************)
EXTENDS Posts

-----------------------------------------------------------------------------
(* The requests.  A client names the posts it has been shown: by the time  *)
(* its request is served the post may have changed or gone.                *)

CreatePost(r) ==
  ~NoPostLeft /\ \E u \in Users, v \in Visibility :
    Receive(r, "createPost", "insertPost", u, NoId, NoId, v, FALSE)

NamePost(r) ==
  \E u \in Users, p \in posts, v \in Visibility :
    \E op \in {"getPost", "updatePost", "deletePost"} :
      /\ op = "updatePost" \/ v = "public"
      /\ Receive(r, op, "loadPost", u, p.id, NoId, v,
                 op = "getPost" /\ BlockedPair(u, p.author))

-----------------------------------------------------------------------------
(* create                                                                  *)

InsertPost(r) ==
  LET new == [id |-> nextId, author |-> requests[r].user,
              visibility |-> requests[r].wish] IN
  /\ At(r, "insertPost") /\ ~NoPostLeft
  /\ posts' = posts \cup {new}
  /\ nextId' = nextId + 1
  /\ Show(nextId, new.visibility)
  /\ requests' = [requests EXCEPT ![r].pc = "audience", ![r].post = nextId,
                                  ![r].found = new, ![r].row = new]
  /\ UNCHANGED <<comments, relations>> /\ Silent

-----------------------------------------------------------------------------
(* findById, then the checks: canViewerSeePost for readers and commenters, *)
(* the author alone for an edit or a deletion.                             *)

\* After the visibility check: the read, or the comment, goes on.
Granted(op) == CASE op = "getPost" -> "done"
                 [] op = "getComments" -> "findComments"
                 [] OTHER -> "insertComment"

\* canViewerSeePost was true, for the post as it was loaded.
Grant(r, p) ==
  /\ IF Granted(requests[r].op) = "done"
       THEN Respond(r) /\ Answer(r, p, p)
       ELSE /\ requests' = [requests EXCEPT ![r].pc = Granted(requests[r].op),
                                            ![r].found = p]
            /\ Silent

LoadPost(r) ==
  LET u == requests[r].user
      p == RowOf(PostById(requests[r].post))
      Load(pc) == requests' = [requests EXCEPT ![r].found = p, ![r].pc = pc] /\ Silent
  IN
  /\ At(r, "loadPost")
  /\ CASE p = Undefined -> Respond(r) /\ Silent                       \* 404
       [] p # Undefined /\ requests[r].op \in {"updatePost", "deletePost"} ->
            IF p.author # u THEN Respond(r) /\ Silent                 \* 403
            ELSE Load(IF requests[r].op = "updatePost" THEN "updatePost" ELSE "audience")
       [] OTHER -> IF p.author = u THEN Grant(r, p) ELSE Load("checkBlock")
  /\ UNCHANGED <<postTables, relations>>

\* Slip: a public post is granted before the block is looked for.
CheckBlockOfFriendsOnly(r) ==
  LET p == requests[r].found IN
  /\ At(r, "checkBlock")
  /\ IF p.visibility = "public" THEN Grant(r, p)
     ELSE Silent /\ IF BlockedPair(p.author, requests[r].user) \/ p.visibility = "private"
                      THEN Respond(r) ELSE Goto(r, "checkFriends")
  /\ UNCHANGED <<postTables, relations>>

CheckBlock(r) ==
  LET p == requests[r].found IN
  /\ At(r, "checkBlock")
  /\ IF BlockedPair(p.author, requests[r].user) \/ p.visibility = "private"
       THEN Respond(r) /\ Silent
       ELSE IF p.visibility = "public" THEN Grant(r, p)
                                       ELSE Goto(r, "checkFriends") /\ Silent
  /\ UNCHANGED <<postTables, relations>>

CheckFriends(r) ==
  LET p == requests[r].found IN
  /\ At(r, "checkFriends")
  /\ IF requests[r].user \in FriendsOf(p.author) THEN Grant(r, p)
                                                  ELSE Respond(r) /\ Silent
  /\ UNCHANGED <<postTables, relations>>

-----------------------------------------------------------------------------
(* update: UPDATE ... RETURNING id, then findById again.  Either may find  *)
(* the post gone and return undefined.                                     *)

\* getUpdateAudience reads updated.visibility unless existing was public.
CannotTell(r) == requests[r].found.visibility # "public"

\* The service goes on with updated = undefined: a TypeError, or an event.
WithoutRow(r) ==
  IF CannotTell(r) THEN Respond(r)                                   \* 500
  ELSE requests' = [requests EXCEPT ![r].pc = "audience", ![r].row = Undefined]

UpdatePost(r) ==
  LET i == requests[r].post IN
  /\ At(r, "updatePost")
  /\ IF PostById(i) = {}
       THEN WithoutRow(r) /\ UNCHANGED postTables
       ELSE /\ posts' = {IF p.id = i THEN [p EXCEPT !.visibility = requests[r].wish]
                                     ELSE p : p \in posts}
            /\ Show(i, requests[r].wish)
            /\ requests' = [requests EXCEPT ![r].pc = "refetchPost",
                                            ![r].wish = "public"]    \* spent
            /\ UNCHANGED <<comments, nextId>>
  /\ UNCHANGED relations /\ Silent

RefetchPost(r) ==
  LET p == RowOf(PostById(requests[r].post)) IN
  /\ At(r, "refetchPost")
  /\ IF p = Undefined THEN WithoutRow(r)
     ELSE requests' = [requests EXCEPT ![r].pc = "audience", ![r].row = p]
  /\ UNCHANGED <<postTables, relations>> /\ Silent

-----------------------------------------------------------------------------
(* The audiences: everybody, nobody, or the author's friends of the moment *)
(* findFriends runs; the one who acts is left out.                         *)

\* Slip: whatever is not public goes to the friends.
FriendsUnlessPublic(p) == IF p.visibility = "public" THEN Users ELSE FriendsOf(p.author)

\* getCreateAudience, and getDeleteAudience, which is the same function.
PostAudience(p) == CASE p.visibility = "public" -> Users
                     [] p.visibility = "private" -> {}
                     [] OTHER -> FriendsOf(p.author)

\* Without a row only a post that was public gets this far: see WithoutRow.
EitherPublic(found, row) ==
  found.visibility = "public" \/ (row # Undefined /\ row.visibility = "public")

TakesFindFriends(q) ==
  IF q.op = "updatePost" THEN ~EitherPublic(q.found, q.row)
                         ELSE q.found.visibility = "friends"

\* Slip: an edit between two visibilities that are not public goes to everybody.
WidestAudience(found, row) == Users

\* getUpdateAudience: whoever could have seen either side.
UpdateAudience(found, row) ==
  IF EitherPublic(found, row) THEN Users ELSE FriendsOf(found.author)

EventOf(op) == CASE op = "createPost" -> "post:created"
                 [] op = "updatePost" -> "post:updated"
                 [] op = "deletePost" -> "post:deleted"
                 [] op = "createComment" -> "comment:created"
                 [] op = "updateComment" -> "comment:updated"
                 [] OTHER -> "comment:deleted"

\* The emit at the end of a service function that changed a row.
Tell(r, to) ==
  LET q == requests[r] IN
  /\ Send([kind |-> EventOf(q.op), about |-> q.found, carries |-> q.row,
           from |-> q.user, to |-> to])
  /\ Respond(r)

\* The audience is known at once unless it takes findFriends; deletePost
\* computes it before the DELETE, the others after their write.
Audience(r) ==
  LET q == requests[r]
      to == (IF q.op = "updatePost" THEN UpdateAudience(q.found, q.row)
                                    ELSE PostAudience(q.found)) \ {q.user}
  IN
  /\ At(r, "audience")
  /\ IF q.op # "deletePost" /\ ~TakesFindFriends(q)
       THEN Tell(r, to)
       ELSE /\ requests' = [requests EXCEPT ![r].to = to,
                 ![r].pc = IF q.op = "deletePost" THEN "deletePost" ELSE "emit"]
            /\ Silent
  /\ UNCHANGED <<postTables, relations>>

EmitEvent(r) ==
  /\ At(r, "emit")
  /\ Tell(r, requests[r].to)
  /\ UNCHANGED <<postTables, relations>>

-----------------------------------------------------------------------------
(* deletePost: the DELETE takes the comments with it (ON DELETE CASCADE).  *)

DeletePost(r) ==
  /\ At(r, "deletePost")
  /\ posts' = posts \ PostById(requests[r].post)
  /\ comments' = {c \in comments : c.post # requests[r].post}
  /\ Goto(r, "emit")
  /\ UNCHANGED <<nextId, everShown, relations>> /\ Silent

-----------------------------------------------------------------------------
PostRequests(r) == CreatePost(r) \/ NamePost(r)

PostStep(r) ==
  \/ InsertPost(r) \/ LoadPost(r) \/ CheckBlock(r) \/ CheckFriends(r)
  \/ UpdatePost(r) \/ RefetchPost(r) \/ Audience(r) \/ DeletePost(r) \/ EmitEvent(r)
=============================================================================
