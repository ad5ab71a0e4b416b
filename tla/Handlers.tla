------------------------------ MODULE Handlers ------------------------------
(***************************************************************************)
(* The HTTP requests in flight.  Node runs one handler at a time but gives *)
(* way at every await, so a handler is a program counter that names the    *)
(* query it will run next, and what it remembers of the queries before.    *)
(*                                                                         *)
(* withTransaction (config/database.js) adds the writes not yet committed: *)
(* they are in the record too, invisible to the others, who wait for the   *)
(* row locks and unique-index entries the transaction holds.               *)
(***************************************************************************)
EXTENDS Database

CONSTANT Slots   \* bound: how many requests may be in flight together

VARIABLES handlers,
          sent   \* the Socket.IO events the latest step has emitted

vars == <<tables, handlers, sent>>

Ops == {"sendRequest", "acceptFriend", "deleteFriendship",
        "blockUser", "unblockUser",
        "sendMessage", "openConversation", "scrollBack",
        "acceptRequest", "declineRequest"}

SendState == {"unknown", "open", "first_contact", "reply_accepts",
              "awaiting_approval", "declined", "blocked"}

\* The queries, in the order the services make them.
FriendSteps == {"checkBlock", "findExisting", "insertFriendship", "notifyRequest",
                "loadFriendship", "acceptFriendship", "settleRequest",
                "commitAccept", "notifyAccepted", "deleteFriendship",
                "notifyRemoved"}
BlockSteps == {"insertBlock", "findFriendship", "removeFriendship",
               "commitBlock", "removeBlock"}
MessageSteps == {"findPage", "resolveBlock", "resolveFriends", "resolveRequest",
                 "insertMessage", "insertOpening", "settleReply",
                 "notifyReply", "notifyMessage", "notifyOpening",
                 "markRead", "notifyRead",
                 "loadRequest", "setStatus", "notifyRequestAccepted"}

Idle == [pc |-> "idle"]

Handler == [op : Ops, pc : FriendSteps \cup BlockSteps \cup MessageSteps,
            user : Users, peer : Users,
            row : Nat,           \* the row the request names or has created
            ref : Nat,           \* the message request it read or is deleting
            state : SendState,   \* what resolveSendState returned
            page : SUBSET Nat]   \* the message ids it has fetched or marked

Event == [event : {"friend:request_received", "friend:request_accepted",
                   "friend:removed", "message:received", "message:read",
                   "message:request_received", "message:request_accepted"},
          to : Users, row : Nat]

HandlersTypeOK ==
  /\ handlers \in [Slots -> Handler \cup {Idle}]
  /\ sent \subseteq Event

HandlersInit == handlers = [r \in Slots |-> Idle] /\ sent = {}

-----------------------------------------------------------------------------
(* Moving one handler.                                                     *)

At(r, pc) == handlers[r].pc = pc

Events(event, to, rows) == {[event |-> event, to |-> to, row |-> i] : i \in rows}

Emit(events) == sent' = events

Silent == sent' = {}

\* A request arrives; u is the authenticated caller.
Receive(r, op, pc, u, v, row) ==
  /\ At(r, "idle")
  /\ handlers' = [handlers EXCEPT ![r] =
       [op |-> op, pc |-> pc, user |-> u, peer |-> v, row |-> row,
        ref |-> NoId, state |-> "unknown", page |-> {}]]
  /\ UNCHANGED tables /\ Silent

Goto(r, pc) == handlers' = [handlers EXCEPT ![r].pc = pc]

\* The response, whatever its status code: the handler is over.
Respond(r) == handlers' = [handlers EXCEPT ![r] = Idle]

(***************************************************************************)
(* A query rejects (connection lost, pool timeout, server stopped): the    *)
(* handler ends, withTransaction rolls back what was not committed, and    *)
(* what earlier statements committed stays.                                *)
(***************************************************************************)
Fail(r) ==
  /\ ~At(r, "idle")
  /\ Respond(r)
  /\ UNCHANGED tables /\ Silent

\* An INSERT beyond the bound rejects the same way.
RejectInsert(r) ==
  /\ handlers[r].pc \in {"insertFriendship", "insertBlock",
                         "insertMessage", "insertOpening"}
  /\ Full
  /\ Respond(r)
  /\ UNCHANGED tables /\ Silent

-----------------------------------------------------------------------------
(* The locks of open transactions, as the other handlers meet them.        *)

\* Slip: findBetween takes a row lock too, so that two blocks wait for each other.
FriendshipLockedOnRead(r, i) ==
  \E s \in Slots \ {r} :
    /\ handlers[s].pc \in {"settleRequest", "commitAccept",
                          "removeFriendship", "commitBlock"}
    /\ handlers[s].row = i

\* A friendship row updated or deleted by another, uncommitted.
FriendshipLocked(r, i) ==
  \E s \in Slots \ {r} :
    /\ handlers[s].pc \in {"settleRequest", "commitAccept", "commitBlock"}
    /\ handlers[s].row = i

\* A message request deleted by another's acceptFriend, uncommitted.
RequestLocked(r, i) ==
  \E s \in Slots \ {r} : At(s, "commitAccept") /\ handlers[s].ref = i

\* The same (blocker, blocked) row inserted by another, uncommitted.
BlockLocked(r, u, v) ==
  \E s \in Slots \ {r} :
    /\ handlers[s].pc \in {"findFriendship", "removeFriendship", "commitBlock"}
    /\ handlers[s].user = u /\ handlers[s].peer = v
=============================================================================
