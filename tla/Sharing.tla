------------------------------- MODULE Sharing -------------------------------
(***************************************************************************)
(* The post and comment services at work together while friendships and    *)
(* blocks change, and who may come to see what.                            *)
(***************************************************************************)
EXTENDS CommentService

RelationsChange ==
  \E pair \in Pairs : Befriend(pair) \/ Unfriend(pair) \/ Block(pair) \/ Unblock(pair)

Serve(r) == PostRequests(r) \/ CommentRequests(r) \/ PostStep(r) \/ CommentStep(r) \/ Fail(r)

Next == (\E r \in Requests : Serve(r)) \/ RelationsChange

Spec == Init /\ [][Next]_vars

-----------------------------------------------------------------------------
Was(i, visibility) == <<i, visibility>> \in everShown

InCircle(u, p) ==
  u = p.author \/ Was(p.id, "public") \/ {u, p.author} \in everFriends

(***************************************************************************)
(* A post that was never public stays within its author's circle: nothing  *)
(* about it, no response, no event and no comment, is sent to anybody who  *)
(* has never been the author's friend, and no feed or profile lists it to  *)
(* them, whichever edits, deletions and comments overlap                   *)
(* (canViewerSeePost, the three audiences, findFeed, findByAuthor).        *)
(***************************************************************************)
WithinCircle ==
  /\ \A m \in wire : \A u \in m.to : InCircle(u, m.about)
  /\ \A u \in Users : \A p \in Feed(u, "all") : InCircle(u, p)

(***************************************************************************)
(* A post that has only ever been private is not spoken of to others when  *)
(* it is created, deleted, commented on or read.  (Edits are another       *)
(* matter: PrivateStaysHome.)                                              *)
(***************************************************************************)
PrivateIsQuiet ==
  \A m \in wire :
    /\ \A v \in {"public", "friends"} : ~Was(m.about.id, v)
    /\ m.kind # "post:updated"
    => m.to \subseteq {m.about.author}

(***************************************************************************)
(* commentService.create checks the post some queries before its INSERT:   *)
(* still every comment hangs on a post that exists and was written by its  *)
(* author, or by someone the post had been opened to by then.              *)
(***************************************************************************)
CommentsWereAdmitted ==
  \A c \in comments : \E p \in PostById(c.post) :
    \/ c.author = p.author
    \/ Was(p.id, "public")
    \/ Was(p.id, "friends") /\ {c.author, p.author} \in everFriends

(***************************************************************************)
(* A block in either direction overrides visibility: a request to read a   *)
(* post or to comment on it, made while its author and the caller are      *)
(* blocked, is refused without a word unless a block is lifted before it   *)
(* has looked (canViewerSeePost).                                          *)
(***************************************************************************)
BlockHolds ==
  [][\A r \in Requests :
       ~At(r, "idle") /\ requests[r].barred /\ requests'[r] # requests[r] =>
         \/ requests'[r] = Idle /\ wire' = {}
         \/ requests'[r].pc = "checkBlock"
         \/ blocked' # blocked]_vars

-----------------------------------------------------------------------------
(* What makes these inductive: see SharingInv.                             *)

\* Rows are numbered below nextId and apart; what a post is, it has been.
PostsNumbered ==
  /\ \A p \in posts : p.id < nextId /\ Was(p.id, p.visibility)
  /\ \A p, q \in posts : p.id = q.id => p = q

\* Who the post had been opened to by the time canViewerSeePost said so.
Admitted(u, p) ==
  \/ u = p.author
  \/ Was(p.id, "public")
  \/ Was(p.id, "friends") /\ {u, p.author} \in everFriends

\* Which operations get to a query that serves several.
OnCourse(q) ==
  /\ q.pc = "loadPost" =>
       q.op \in {"getPost", "updatePost", "deletePost", "createComment", "getComments"}
  /\ q.pc \in {"checkBlock", "checkFriends"} =>
       q.op \in {"getPost", "createComment", "getComments"}
  /\ q.pc = "insertComment" => q.op = "createComment"
  /\ q.pc = "refetchComment" => q.op \in {"createComment", "updateComment", "deleteComment"}
  /\ q.pc \in {"loadComment", "loadParent", "updateComment", "deleteComment"} =>
       q.op \in {"updateComment", "deleteComment"}

\* The post as it was loaded is one that was, and whatever has its id still
\* has its author.
Loaded(q) ==
  /\ \/ q.pc \in {"checkBlock", "checkFriends", "updatePost", "refetchPost", "audience",
                  "deletePost", "findComments", "insertComment", "emit"}
     \/ q.pc = "refetchComment" /\ q.op = "createComment"
     => q.found # Undefined
  /\ q.found # Undefined => /\ q.found.id = q.post /\ Was(q.post, q.found.visibility)
                            /\ \A p \in PostById(q.post) : p.author = q.found.author

\* What the queries so far have established for the answer, the comment or
\* the event to come.
Entitled(q) ==
  /\ q.pc = "checkFriends" => q.found.visibility = "friends"
  /\ q.pc \in {"findComments", "insertComment"} => Admitted(q.user, q.found)
  /\ q.pc = "audience" /\ q.op = "updatePost" /\ q.row # Undefined =>
       q.row \in Post /\ q.row.id = q.post /\ Was(q.post, q.row.visibility)
  /\ q.pc \in {"deletePost", "emit"} =>
       /\ \A u \in q.to : InCircle(u, q.found)
       /\ q.op # "updatePost" /\ q.found.visibility = "private" => q.to = {}

\* A request that arrived across a block has not got past it.
StillBarred(q) ==
  q.barred =>
    /\ q.op \in {"getPost", "createComment", "getComments"}
    /\ \/ q.pc = "loadPost" /\ \A p \in PostById(q.post) : {q.user, p.author} \in blocked
       \/ q.pc = "checkBlock" /\ {q.user, q.found.author} \in blocked

Sound(q) ==
  /\ q.post < nextId
  /\ OnCourse(q) /\ Loaded(q) /\ Entitled(q) /\ StillBarred(q)

\* What is sent, when it is sent.
Discreet(m) ==
  /\ \A u \in m.to : InCircle(u, m.about)
  /\ /\ \A v \in {"public", "friends"} : ~Was(m.about.id, v)
     /\ m.kind # "post:updated"
     => m.to \subseteq {m.about.author}

(***************************************************************************)
(* What the proofs rest on: a request between two queries remembers a post *)
(* that was, and whatever it has found out about who may see it is still a *)
(* reason to answer, to store a comment or to tell somebody when it does   *)
(* (canViewerSeePost, the audiences, ON DELETE CASCADE), although posts,   *)
(* friendships and blocks have changed meanwhile.                          *)
(***************************************************************************)
SharingInv ==
  /\ TypeOK /\ PostsNumbered /\ friends \subseteq everFriends /\ CommentsWereAdmitted
  /\ \A r \in Requests : ~At(r, "idle") => Sound(requests[r])
  /\ \A m \in wire : Discreet(m)

-----------------------------------------------------------------------------
(* What comments of the code say and the handlers do not keep.             *)

(***************************************************************************)
(* postService.js: "private is invisible to others by definition" and      *)
(* goes to nobody.  An edit of a post that was never anything but private  *)
(* is emitted, with the post, to the author's friends.                     *)
(***************************************************************************)
PrivateStaysHome ==
  \A m \in wire :
    (\A v \in {"public", "friends"} : ~Was(m.about.id, v)) => m.to \subseteq {m.about.author}

(***************************************************************************)
(* postService.js: a post:updated event carries "the full post payload".   *)
(* When the post is deleted between the UPDATE and the read that follows   *)
(* it, the event of a post that was public carries no post.                *)
(***************************************************************************)
EventsCarryRows ==
  \A m \in wire : m.kind \in {"post:created", "post:updated"} => m.carries # Undefined

(***************************************************************************)
(* commentService.js: a comment should "reach everyone who can see the     *)
(* parent post (excluding the comment author)".  The audience of a post    *)
(* for friends is its author's friends: its author is not told.            *)
(***************************************************************************)
AuthorHears ==
  \A m \in wire :
    m.kind = "comment:created" => m.about.author \in m.to \cup {m.from}
=============================================================================
