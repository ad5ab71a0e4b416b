---------------------------- MODULE BlockService ----------------------------
(***************************************************************************)
(* services/blockService.js: placing and lifting a block.                  *)
(***************************************************************************)
EXTENDS Handlers

BlockUser(r) ==
  \E u, v \in Users : u # v /\ Receive(r, "blockUser", "insertBlock", u, v, NoId)

OwnBlock(r) ==
  {b \in blocks : b.blocker = handlers[r].user /\ b.blocked = handlers[r].peer}

\* INSERT ... ON CONFLICT DO NOTHING; an existing row ends the transaction.
InsertBlock(r) ==
  /\ At(r, "insertBlock") /\ ~Full
  /\ ~BlockLocked(r, handlers[r].user, handlers[r].peer)
  /\ IF OwnBlock(r) # {}
       THEN Respond(r) /\ UNCHANGED nextId
       ELSE /\ handlers' = [handlers EXCEPT ![r].pc = "findFriendship",
                                            ![r].ref = nextId]
            /\ TakeId
  /\ UNCHANGED <<friendships, messageRequests, blocks, messages, befriended>> /\ Silent

\* Slip: only friends are parted, a pending request stays.
ToPartAccepted(u, v) == {f \in FriendshipsBetween(u, v) : f.status = "accepted"}

\* friendRepository.findBetween: pending and accepted rows alike.
ToPart(u, v) == FriendshipsBetween(u, v)

FindFriendship(r) ==
  LET found == ToPart(handlers[r].user, handlers[r].peer) IN
  /\ At(r, "findFriendship")
  /\ \/ found = {} /\ Goto(r, "commitBlock")
     \/ \E f \in found :
          handlers' = [handlers EXCEPT ![r].pc = "removeFriendship",
                                       ![r].row = f.id]
  /\ UNCHANGED tables /\ Silent

\* Slip: the event leaves before COMMIT.
RemoveFriendshipAndTell(r) ==
  /\ At(r, "removeFriendship")
  /\ ~FriendshipLocked(r, handlers[r].row)
  /\ Goto(r, "commitBlock")
  /\ Emit(Events("friend:removed", handlers[r].peer, {handlers[r].row}))
  /\ UNCHANGED tables

\* deleteById: waits for the row's lock and takes it.
RemoveFriendship(r) ==
  /\ At(r, "removeFriendship")
  /\ ~FriendshipLocked(r, handlers[r].row)
  /\ Goto(r, "commitBlock")
  /\ UNCHANGED tables /\ Silent

CommitBlock(r) ==
  /\ At(r, "commitBlock")
  /\ blocks' = blocks \cup {[id |-> handlers[r].ref, blocker |-> handlers[r].user,
                             blocked |-> handlers[r].peer]}
  /\ friendships' = {f \in friendships : f.id # handlers[r].row}
  /\ IF handlers[r].row = NoId THEN Respond(r) ELSE Goto(r, "notifyRemoved")
  /\ UNCHANGED <<messageRequests, messages, nextId, befriended>> /\ Silent

UnblockUser(r) ==
  \E u, v \in Users : u # v /\ Receive(r, "unblockUser", "removeBlock", u, v, NoId)

\* DELETE of the caller's own row; without one, 404.
RemoveBlock(r) ==
  /\ At(r, "removeBlock")
  /\ blocks' = blocks \ OwnBlock(r)
  /\ Respond(r)
  /\ UNCHANGED <<friendships, messageRequests, messages, nextId, befriended>> /\ Silent

-----------------------------------------------------------------------------
BlockRequests(r) == BlockUser(r) \/ UnblockUser(r)

BlockStep(r) ==
  \/ InsertBlock(r) \/ FindFriendship(r) \/ RemoveFriendship(r)
  \/ CommitBlock(r) \/ RemoveBlock(r)
=============================================================================
