---------------------------- MODULE FriendService ----------------------------
(***************************************************************************)
(* services/friendService.js: friend requests and friendships.  One action *)
(* per query of a handler, which the other handlers may interleave.        *)
(***************************************************************************)
EXTENDS Handlers

\* The row as the caller's first query loads it, if it is there.
LoadedFriendship(r) == {f \in friendships : f.id = handlers[r].row}

OtherParticipant(f, u) == IF f.requester = u THEN f.addressee ELSE f.requester

-----------------------------------------------------------------------------
(* sendRequest                                                             *)

SendRequest(r) ==
  \E u, v \in Users : u # v /\ Receive(r, "sendRequest", "checkBlock", u, v, NoId)

CheckBlock(r) ==
  /\ At(r, "checkBlock")
  /\ IF BlockExistsBetween(handlers[r].user, handlers[r].peer)
       THEN Respond(r)                                              \* 403
       ELSE Goto(r, "findExisting")
  /\ UNCHANGED tables /\ Silent

FindExisting(r) ==
  /\ At(r, "findExisting")
  /\ IF FriendshipsBetween(handlers[r].user, handlers[r].peer) # {}
       THEN Respond(r)                                              \* 400
       ELSE Goto(r, "insertFriendship")
  /\ UNCHANGED tables /\ Silent

\* Slip: the table without its unique index.
NoPairIndex(u, v) == TRUE

\* idx_friendships_unique_pair: no INSERT beside a row of the same pair.
PairIsFree(u, v) == FriendshipsBetween(u, v) = {}

InsertFriendship(r) ==
  LET u == handlers[r].user  v == handlers[r].peer IN
  /\ At(r, "insertFriendship") /\ ~Full
  /\ \A f \in FriendshipsBetween(u, v) : ~FriendshipLocked(r, f.id)
  /\ IF PairIsFree(u, v)
       THEN /\ friendships' = friendships \cup
                 {[id |-> nextId, requester |-> u, addressee |-> v,
                   status |-> "pending"]}
            /\ TakeId
            /\ handlers' = [handlers EXCEPT ![r].pc = "notifyRequest",
                                            ![r].row = nextId]
       ELSE /\ Respond(r)                                           \* 500
            /\ UNCHANGED <<friendships, nextId>>
  /\ UNCHANGED <<messageRequests, blocks, messages, befriended>> /\ Silent

NotifyRequest(r) ==
  /\ At(r, "notifyRequest")
  /\ Emit(Events("friend:request_received", handlers[r].peer, {handlers[r].row}))
  /\ Respond(r)
  /\ UNCHANGED tables

-----------------------------------------------------------------------------
(* acceptRequest and deleteFriendship, which start with the same findById. *)
(* The caller names a row the client has been shown; by the time it is     *)
(* loaded it may be gone.                                                  *)

NameFriendship(r) ==
  \E u \in Users, f \in friendships :
    \E op \in {"acceptFriend", "deleteFriendship"} :
      Receive(r, op, "loadFriendship", u, OtherParticipant(f, u), f.id)

\* Slip: any participant may accept, the requester too.
MayAcceptOwn(f, u) == u \in FriendPair(f) /\ f.status = "pending"

MayAccept(f, u) == f.addressee = u /\ f.status = "pending"          \* 403, 400

MayDelete(f, u) == u \in FriendPair(f)                              \* 403

LoadFriendship(r) ==
  LET u == handlers[r].user
      accepting == handlers[r].op = "acceptFriend"
  IN
  /\ At(r, "loadFriendship")
  /\ \/ \E f \in LoadedFriendship(r) :
          /\ IF accepting THEN MayAccept(f, u) ELSE MayDelete(f, u)
          /\ handlers' = [handlers EXCEPT
               ![r].peer = OtherParticipant(f, u),
               ![r].pc = IF accepting THEN "acceptFriendship"
                                      ELSE "deleteFriendship"]
     \/ /\ ~ \E f \in LoadedFriendship(r) :
               IF accepting THEN MayAccept(f, u) ELSE MayDelete(f, u)
        /\ Respond(r)                                               \* 404 too
  /\ UNCHANGED tables /\ Silent

\* UPDATE ... WHERE id AND status = 'pending'; without a row, ROLLBACK.
StillPending(r) == \E f \in LoadedFriendship(r) : f.status = "pending"

AcceptFriendship(r) ==
  /\ At(r, "acceptFriendship")
  /\ ~FriendshipLocked(r, handlers[r].row)
  /\ IF StillPending(r) THEN Goto(r, "settleRequest")
                        ELSE Respond(r)                             \* 400
  /\ UNCHANGED tables /\ Silent

\* deletePendingBetween, in the same transaction.
SettleRequest(r) ==
  LET pending == PendingBetween(handlers[r].user, handlers[r].peer) IN
  /\ At(r, "settleRequest")
  /\ \/ /\ pending = {}
        /\ Goto(r, "commitAccept")
     \/ \E q \in pending :
          /\ ~RequestLocked(r, q.id)
          /\ handlers' = [handlers EXCEPT ![r].pc = "commitAccept",
                                          ![r].ref = q.id]
  /\ UNCHANGED tables /\ Silent

\* COMMIT: the two writes become visible together.
CommitAccept(r) ==
  /\ At(r, "commitAccept")
  /\ friendships' =
       {IF f.id = handlers[r].row THEN [f EXCEPT !.status = "accepted"] ELSE f :
          f \in friendships}
  /\ messageRequests' = {q \in messageRequests : q.id # handlers[r].ref}
  /\ befriended' = befriended \cup {{handlers[r].user, handlers[r].peer}}
  /\ Goto(r, "notifyAccepted")
  /\ UNCHANGED <<blocks, messages, nextId>> /\ Silent

NotifyAccepted(r) ==
  /\ At(r, "notifyAccepted")
  /\ Emit(Events("friend:request_accepted", handlers[r].peer, {handlers[r].row}))
  /\ Respond(r)
  /\ UNCHANGED tables

DeleteFriendship(r) ==
  /\ At(r, "deleteFriendship")
  /\ ~FriendshipLocked(r, handlers[r].row)
  /\ friendships' = friendships \ LoadedFriendship(r)
  /\ Goto(r, "notifyRemoved")
  /\ UNCHANGED <<messageRequests, blocks, messages, nextId, befriended>> /\ Silent

\* Also the end of blockUser: friend:removed, whoever the row was deleted by.
NotifyRemoved(r) ==
  /\ At(r, "notifyRemoved")
  /\ Emit(Events("friend:removed", handlers[r].peer, {handlers[r].row}))
  /\ Respond(r)
  /\ UNCHANGED tables

-----------------------------------------------------------------------------
FriendRequests(r) == SendRequest(r) \/ NameFriendship(r)

FriendStep(r) ==
  \/ CheckBlock(r) \/ FindExisting(r) \/ InsertFriendship(r) \/ NotifyRequest(r)
  \/ LoadFriendship(r)
  \/ AcceptFriendship(r) \/ SettleRequest(r) \/ CommitAccept(r) \/ NotifyAccepted(r)
  \/ DeleteFriendship(r) \/ NotifyRemoved(r)
=============================================================================
