------------------------------ MODULE Database ------------------------------
(***************************************************************************)
(* The four PostgreSQL tables a pair of users shares, as committed: the    *)
(* friendships, message_requests, blocks and messages of                   *)
(* server/src/db/migrations, and the SELECTs of the repositories over      *)
(* them.  The database runs at READ COMMITTED, so every query sees exactly *)
(* the committed rows of the moment it runs; what a transaction has        *)
(* written and not committed is kept by the handler (module Handlers).     *)
(*                                                                         *)
(* Row ids are UUIDs in the code.  Here they are numbers given in the      *)
(* order of the INSERTs, which no action looks at but the properties do.   *)
(***************************************************************************)
EXTENDS Naturals

CONSTANTS Users,    \* the registered users; the code never deletes one
          MaxRows   \* bound: INSERTs beyond this many are rejected

ASSUME MaxRowsAssumption == MaxRows \in Nat

VARIABLES friendships, messageRequests, blocks, messages,
          nextId,
          befriended   \* history: the pairs that have ever been friends

tables == <<friendships, messageRequests, blocks, messages, nextId, befriended>>

NoId == 0
RowId == Nat \ {NoId}

Friendship == [id : RowId, requester : Users, addressee : Users,
               status : {"pending", "accepted"}]
MessageRequest == [id : RowId, requester : Users, recipient : Users,
                   status : {"pending", "accepted", "declined"}]
Block == [id : Nat, blocker : Users, blocked : Users]
Message == [id : RowId, sender : Users, recipient : Users, read : BOOLEAN]

\* The LEAST/GREATEST columns of the unique indexes: a pair without direction.
FriendPair(f) == {f.requester, f.addressee}
RequestPair(q) == {q.requester, q.recipient}
BlockPair(b) == {b.blocker, b.blocked}
MessagePair(m) == {m.sender, m.recipient}

DatabaseTypeOK ==
  /\ friendships \subseteq Friendship
  /\ messageRequests \subseteq MessageRequest
  /\ blocks \subseteq Block
  /\ messages \subseteq Message
  /\ nextId \in RowId
  /\ befriended \subseteq SUBSET Users

DatabaseInit ==
  /\ friendships = {} /\ messageRequests = {} /\ blocks = {} /\ messages = {}
  /\ nextId = 1
  /\ befriended = {}

-----------------------------------------------------------------------------
(* The SELECTs.                                                            *)

FriendshipsBetween(u, v) == {f \in friendships : FriendPair(f) = {u, v}}

\* Slip: areFriends without its condition on the status.
FriendsOrAsked(u, v) == FriendshipsBetween(u, v) # {}

AreFriends(u, v) ==
  \E f \in FriendshipsBetween(u, v) : f.status = "accepted"

RequestsBetween(u, v) == {q \in messageRequests : RequestPair(q) = {u, v}}

PendingBetween(u, v) == {q \in RequestsBetween(u, v) : q.status = "pending"}

BlockExistsBetween(u, v) == \E b \in blocks : BlockPair(b) = {u, v}

Conversation(u, v) == {m \in messages : MessagePair(m) = {u, v}}

UnreadFrom(sender, u) ==
  {m \in messages : m.sender = sender /\ m.recipient = u /\ ~m.read}

Ids(rows) == {row.id : row \in rows}

\* Slip: countUnread without its NOT EXISTS.
UnreadByAll(u) == {m \in messages : m.recipient = u /\ ~m.read}

\* countUnread: the badge leaves out requests u has not accepted.
CountedUnread(u) ==
  {m \in messages :
     /\ m.recipient = u /\ ~m.read
     /\ ~ \E q \in messageRequests :
          q.recipient = u /\ q.requester = m.sender /\ q.status # "accepted"}

-----------------------------------------------------------------------------
(* Numbering the INSERTs.                                                  *)

Full == nextId > MaxRows

TakeId == nextId' = nextId + 1
=============================================================================
