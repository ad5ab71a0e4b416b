--------------------------- MODULE CommentService ---------------------------
(***************************************************************************)
(* services/commentService.js and controllers/commentController.js.  A     *)
(* comment takes its audience from its post, as it was loaded for the      *)
(* request: create loads it first, update and deleteComment load it again. *)
(***************************************************************************)
EXTENDS PostService

\* Reading or writing under a post the client has been shown: getById first.
NameParent(r) ==
  \E u \in Users, p \in posts, op \in {"createComment", "getComments"} :
    /\ op = "createComment" => ~NoIdLeft
    /\ Receive(r, op, "loadPost", u, p.id, NoId, "public", BlockedPair(u, p.author))

NameComment(r) ==
  \E u \in Users, c \in comments, op \in {"updateComment", "deleteComment"} :
    Receive(r, op, "loadComment", u, c.post, c.id, "public", FALSE)

\* findByPost, for a caller who passed getById.
FindComments(r) ==
  /\ At(r, "findComments")
  /\ Answer(r, requests[r].found, requests[r].found)
  /\ Respond(r)
  /\ UNCHANGED <<postTables, relations>>

\* Slip: comments.post_id without its REFERENCES.
InsertUnchecked(r) == TRUE

\* comments.post_id REFERENCES posts(id).
ParentIsThere(r) == PostById(requests[r].post) # {}

InsertComment(r) ==
  LET new == [id |-> nextId, post |-> requests[r].post, author |-> requests[r].user] IN
  /\ At(r, "insertComment") /\ ~NoIdLeft
  /\ IF ParentIsThere(r)
       THEN /\ comments' = comments \cup {new}
            /\ nextId' = nextId + 1
            /\ requests' = [requests EXCEPT ![r].pc = "refetchComment",
                                            ![r].comment = nextId]
       ELSE Respond(r) /\ UNCHANGED <<comments, nextId>>             \* 500
  /\ UNCHANGED <<posts, everShown, relations>> /\ Silent

\* The created or updated row is read again, and may be gone.
RefetchComment(r) ==
  /\ At(r, "refetchComment")
  /\ requests' = [requests EXCEPT ![r].row = RowOf(CommentById(requests[r].comment)),
       ![r].pc = IF requests[r].op = "createComment" THEN "audience" ELSE "loadParent"]
  /\ UNCHANGED <<postTables, relations>> /\ Silent

LoadComment(r) ==
  LET c == RowOf(CommentById(requests[r].comment))
      editing == requests[r].op = "updateComment"
      refused == \/ c = Undefined                                    \* 404
                 \/ editing /\ c.author # requests[r].user              \* 403
  IN
  /\ At(r, "loadComment")
  /\ IF refused THEN Respond(r)
     ELSE requests' = [requests EXCEPT ![r].row = c,
            ![r].pc = IF editing THEN "updateComment" ELSE "loadParent"]
  /\ UNCHANGED <<postTables, relations>> /\ Silent

\* UPDATE comments: without a row, undefined goes on to the event.
UpdateComment(r) ==
  /\ At(r, "updateComment")
  /\ IF CommentById(requests[r].comment) = {}
       THEN requests' = [requests EXCEPT ![r].pc = "loadParent", ![r].row = Undefined]
       ELSE Goto(r, "refetchComment")
  /\ UNCHANGED <<postTables, relations>> /\ Silent

\* The comment's author, or the author of its post if that is still there.
MayDelete(r, p) ==
  \/ requests[r].row.author = requests[r].user
  \/ p # Undefined /\ p.author = requests[r].user

LoadParent(r) ==
  LET p == RowOf(PostById(requests[r].post))  op == requests[r].op IN
  /\ At(r, "loadParent")
  /\ CASE op = "updateComment" ->
            IF p = Undefined THEN Respond(r)
            ELSE requests' = [requests EXCEPT ![r].found = p, ![r].pc = "audience"]
       [] OTHER ->
            IF ~MayDelete(r, p) THEN Respond(r)                      \* 403
            ELSE requests' = [requests EXCEPT ![r].found = p, ![r].pc = "deleteComment"]
  /\ UNCHANGED <<postTables, relations>> /\ Silent

DeleteComment(r) ==
  /\ At(r, "deleteComment")
  /\ comments' = comments \ CommentById(requests[r].comment)
  /\ IF requests[r].found = Undefined THEN Respond(r) ELSE Goto(r, "audience")
  /\ UNCHANGED <<posts, nextId, everShown, relations>> /\ Silent

-----------------------------------------------------------------------------
CommentRequests(r) == NameParent(r) \/ NameComment(r)

CommentStep(r) ==
  \/ FindComments(r) \/ InsertComment(r) \/ RefetchComment(r) \/ LoadComment(r)
  \/ UpdateComment(r) \/ LoadParent(r) \/ DeleteComment(r)
=============================================================================
