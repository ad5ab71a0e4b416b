------------------------------ MODULE BestizInv ------------------------------
(***************************************************************************)
(* Why the invariants of Bestiz hold: what the handlers in flight know     *)
(* that is still true when they act on it.  Each conjunct names the        *)
(* staleness it rules out.                                                 *)
(***************************************************************************)
EXTENDS Bestiz

\* blockUser's transaction has inserted its row and not committed it.
PlacingBlock(r) == handlers[r].pc \in {"findFriendship", "removeFriendship", "commitBlock"}

Between(r) == {handlers[r].user, handlers[r].peer}

(***************************************************************************)
(* Friendships and blocks.  A block being placed has a number no           *)
(* friendship has, nobody else has placed or is placing the same one, and  *)
(* once the friendship of the pair has been looked up, the row found is    *)
(* the only one older than the block.                                      *)
(***************************************************************************)
Placing(r) ==
  /\ handlers[r].ref < nextId
  /\ \A f \in friendships : f.id # handlers[r].ref
  /\ \A b \in blocks : <<b.blocker, b.blocked>> # <<handlers[r].user, handlers[r].peer>>
  /\ \A s \in Slots \ {r} : PlacingBlock(s) =>
       <<handlers[s].user, handlers[s].peer>> # <<handlers[r].user, handlers[r].peer>>
  /\ handlers[r].pc # "findFriendship" =>
       \A f \in friendships :
         FriendPair(f) = Between(r) /\ f.id < handlers[r].ref => f.id = handlers[r].row

BlockInv ==
  /\ \A f, g \in friendships : FriendPair(f) = FriendPair(g) => f = g
  /\ \A b, c \in blocks : b.blocker = c.blocker /\ b.blocked = c.blocked => b = c
  /\ \A f \in friendships : f.id < nextId
  /\ \A b \in blocks : b.id < nextId
  /\ NoFriendshipPredatesBlock
  /\ \A r \in Slots : PlacingBlock(r) => Placing(r)

(***************************************************************************)
(* Consent.  What resolveSendState answered "open" or "reply_accepts" may  *)
(* be stale in that the friendship has ended or a block was placed, but    *)
(* the approval or approach it rests on is still on record: the row is     *)
(* there, or the two have been friends.                                    *)
(***************************************************************************)
OpenBetween(u, v) ==
  {u, v} \in befriended \/ \E q \in RequestsBetween(u, v) : q.status = "accepted"

ApproachedBy(u, v) ==
  {u, v} \in befriended \/ \E q \in RequestsBetween(u, v) : q.recipient = u

Sending(r) == handlers[r].pc \in {"findPage", "resolveBlock", "resolveFriends",
                                  "resolveRequest", "insertMessage", "insertOpening"}

Accepting(r) == handlers[r].pc \in {"acceptFriendship", "settleRequest", "commitAccept"}

StillJustified(r) ==
  LET u == handlers[r].user  v == handlers[r].peer IN
  /\ Sending(r) => u # v
  /\ handlers[r].pc = "insertMessage" =>
       OpenBetween(u, v) \/ ApproachedBy(u, v)
  /\ handlers[r].pc = "markRead" => OpenBetween(u, v)
  /\ handlers[r].pc \in {"loadFriendship", "acceptFriendship", "settleRequest"} =>
       handlers[r].ref = NoId
  /\ Accepting(r) =>
       /\ handlers[r].row < nextId
       /\ \A f \in friendships : f.id = handlers[r].row => FriendPair(f) = Between(r)
  /\ handlers[r].pc = "commitAccept" =>
       /\ handlers[r].ref < nextId
       /\ \A q \in messageRequests : q.id = handlers[r].ref => RequestPair(q) = Between(r)

RequestsApart ==
  \A p, q \in messageRequests : RequestPair(p) = RequestPair(q) => p = q

RowsNumbered ==
  /\ \A p, q \in messageRequests : p.id = q.id => p = q
  /\ \A q \in messageRequests : q.id < nextId
  /\ \A f, g \in friendships : f.id = g.id => f = g
  /\ \A f \in friendships : f.id < nextId

FriendsRemembered ==
  \A f \in friendships : f.status = "accepted" => FriendPair(f) \in befriended

\* The approach that let a message be written is on record, unless the two
\* have been friends.
MessagesAccountedFor ==
  \A m \in messages : \/ MessagePair(m) \in befriended
                      \/ \E q \in messageRequests : RequestPair(q) = MessagePair(m)

OnRecord ==
  /\ RequestsApart /\ RowsNumbered /\ FriendsRemembered /\ MessagesAccountedFor
  /\ OneOpeningMessage /\ NoReceiptBeforeConsent

ConsentInv ==
  /\ OnRecord
  /\ \A r \in Slots : handlers[r].pc # "idle" => StillJustified(r)

(***************************************************************************)
(* Rows.  A handler acts on, and tells of, rows it has named or loaded     *)
(* some queries before.  What it knows of them stays true: numbers are not *)
(* used again, a row keeps its users, a decision is final, and a row an    *)
(* open transaction has written waits for it.                              *)
(***************************************************************************)
\* The caller is whom the service requires for what it is about to do.
MayActOnRow(r) ==
  LET h == handlers[r] IN
  /\ h.pc \in {"insertBlock", "findFriendship"} => h.row = NoId
  /\ Accepting(r) =>
       \A f \in friendships : f.id = h.row => f.addressee = h.user /\ f.requester = h.peer
  /\ h.pc \in {"deleteFriendship", "removeFriendship", "commitBlock"} =>
       \A f \in friendships : f.id = h.row => FriendPair(f) = Between(r)
  /\ h.pc = "setStatus" =>
       \A q \in messageRequests :
         q.id = h.row => q.recipient = h.user /\ q.requester = h.peer
  /\ h.pc = "settleReply" \/ (h.pc = "insertMessage" /\ h.state = "reply_accepts") =>
       \A q \in messageRequests :
         q.id = h.ref => q.recipient = h.user /\ q.requester = h.peer

\* The friendship row an open transaction has written, if any.
Locking(r) == handlers[r].pc \in {"settleRequest", "commitAccept", "commitBlock"}

\* What a transaction has locked is as it found it, and nobody else has it.
LockedRowsWait(r) ==
  LET h == handlers[r] IN
  /\ h.pc \in {"settleRequest", "commitAccept"} =>
       \E f \in friendships : f.id = h.row /\ f.status = "pending"
  /\ h.pc = "commitAccept" =>
       \A q \in messageRequests : q.id = h.ref => q.status = "pending"
  /\ Locking(r) /\ h.row # NoId =>
       \A s \in Slots \ {r} : Locking(s) => handlers[s].row # h.row

\* What the handler is about to announce is so.
MayTell(r) ==
  LET h == handlers[r] IN
  /\ h.pc = "notifyRequest" =>
       \A f \in friendships : f.id = h.row => f.addressee = h.peer
  /\ h.pc = "notifyAccepted" =>
       \A f \in friendships : f.id = h.row => f.status = "accepted" /\ f.requester = h.peer
  /\ h.pc = "notifyRemoved" => h.row \notin Ids(friendships)
  /\ h.pc = "notifyReply" =>
       \A q \in messageRequests :
         q.id = h.ref => q.status # "pending" /\ q.requester = h.peer
  /\ h.pc = "notifyRequestAccepted" =>
       \A q \in messageRequests :
         q.id = h.row => q.status # "pending" /\ q.requester = h.peer
  /\ h.pc \in {"settleReply", "notifyReply", "notifyMessage", "notifyOpening"} =>
       \E m \in messages : m.id = h.row /\ m.recipient = h.peer
  /\ h.pc = "notifyRead" =>
       \A i \in h.page : \E m \in messages : m.id = i /\ m.sender = h.peer /\ m.read

KnowsRow(r) ==
  /\ handlers[r].row < nextId /\ handlers[r].ref < nextId
  /\ MayActOnRow(r) /\ LockedRowsWait(r) /\ MayTell(r)

RowInv ==
  /\ \A m \in messages : m.id < nextId
  /\ EventsFollowCommits
  /\ \A r \in Slots : handlers[r].pc # "idle" => KnowsRow(r)

(***************************************************************************)
(* All that the proofs know of a reachable state, types apart.             *)
(***************************************************************************)
CoreInv == BlockInv /\ ConsentInv /\ RowInv
=============================================================================
