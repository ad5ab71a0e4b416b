------------------------------- MODULE Bestiz -------------------------------
(***************************************************************************)
(* The relationship core of the BestiZ server: the friend, block and       *)
(* message services at work on the same tables, with any number of HTTP    *)
(* requests in flight, and what must hold of them together.                *)
(***************************************************************************)
EXTENDS FriendService, BlockService, MessageService

CONSTANT Enabled   \* the operations the clients of this instance call

Init == DatabaseInit /\ HandlersInit

Arrive(r) ==
  /\ FriendRequests(r) \/ BlockRequests(r) \/ MessageRequests(r)
  /\ handlers'[r].op \in Enabled

Step(r) == FriendStep(r) \/ BlockStep(r) \/ MessageStep(r) \/ RejectInsert(r)

Next == \E r \in Slots : Arrive(r) \/ Step(r) \/ Fail(r)

Spec == Init /\ [][Next]_vars

(***************************************************************************)
(* Node's event loop and the database answer every query sooner or later.  *)
(* A statement that waits for a row lock is queued by PostgreSQL before    *)
(* those that come after it, so it is not passed over for ever: fairness   *)
(* is strong.  Nothing obliges a client to call or a query to fail.        *)
(***************************************************************************)
FairSpec == Spec /\ \A r \in Slots : SF_vars(Step(r))

TypeOK == DatabaseTypeOK /\ HandlersTypeOK

-----------------------------------------------------------------------------
(* Invariants.                                                             *)

(***************************************************************************)
(* The unique pair indexes hold against concurrent INSERTs: two users      *)
(* share at most one friendship and one message request, whoever asked,    *)
(* and no block is recorded twice.                                         *)
(***************************************************************************)
OneRowPerPair ==
  /\ \A f, g \in friendships : FriendPair(f) = FriendPair(g) => f = g
  /\ \A p, q \in messageRequests : RequestPair(p) = RequestPair(q) => p = q
  /\ \A b, c \in blocks : b.blocker = c.blocker /\ b.blocked = c.blocked => b = c

(***************************************************************************)
(* blockUser removes the friendship in the transaction of the block: a     *)
(* friendship row found beside a block was inserted after it, so no        *)
(* friendship, accepted or asked for, outlives the block it meets.         *)
(***************************************************************************)
NoFriendshipPredatesBlock ==
  \A b \in blocks, f \in friendships : FriendPair(f) = BlockPair(b) => f.id > b.id

(***************************************************************************)
(* The one-message rule of sendOpeningMessage: while a request is not      *)
(* accepted its requester has written exactly one message, unless the two  *)
(* have been friends, however many sends raced.                            *)
(***************************************************************************)
OneOpeningMessage ==
  \A q \in messageRequests :
    q.status # "accepted" /\ RequestPair(q) \notin befriended =>
      \E m \in messages :
        {n \in messages : n.sender = q.requester /\ n.recipient = q.recipient} = {m}

(***************************************************************************)
(* getConversation leaves an unaccepted request unread: no message between *)
(* two who were never friends is marked read before the request between    *)
(* them is accepted, even if the state changes while it is being resolved. *)
(***************************************************************************)
NoReceiptBeforeConsent ==
  \A m \in messages :
    m.read /\ MessagePair(m) \notin befriended =>
      \E q \in RequestsBetween(m.sender, m.recipient) : q.status = "accepted"

(***************************************************************************)
(* Nobody raises another's unread badge without permission (countUnread):  *)
(* a message it counts comes from someone the user has been friends with,  *)
(* has accepted or has written to first.  In particular every message of a *)
(* stranger has its request beside it, from the commit that made it        *)
(* visible on.                                                             *)
(***************************************************************************)
StrangersAreNotCounted ==
  \A u \in Users : \A m \in CountedUnread(u) :
    \/ {u, m.sender} \in befriended
    \/ \E q \in RequestsBetween(u, m.sender) : q.status = "accepted" \/ q.requester = u

(***************************************************************************)
(* Events follow their COMMIT and are not undone by the others before they *)
(* are emitted.  A friendship said to be removed is gone, whoever is told. *)
(* If the row is still there, a friendship said to be accepted is so, and  *)
(* is told to its requester; a friend request is told to its addressee; a  *)
(* message request said to be accepted is decided, and told to its         *)
(* requester: accepted unless a decline came first (AcceptanceToldIsTrue). *)
(* A message said to be there or read is, and is the recipient's, or of    *)
(* the sender, who is told.                                                *)
(***************************************************************************)
EventsFollowCommits ==
  \A e \in sent :
    CASE e.event = "friend:removed" -> e.row \notin Ids(friendships)
      [] e.event = "friend:request_accepted" ->
           \A f \in friendships : f.id = e.row => f.status = "accepted" /\ f.requester = e.to
      [] e.event = "friend:request_received" ->
           \A f \in friendships : f.id = e.row => f.addressee = e.to
      [] e.event = "message:request_accepted" ->
           \A q \in messageRequests : q.id = e.row => q.status # "pending" /\ q.requester = e.to
      [] e.event = "message:read" ->
           \E m \in messages : m.id = e.row /\ m.sender = e.to /\ m.read
      [] OTHER -> \E m \in messages : m.id = e.row /\ m.recipient = e.to

-----------------------------------------------------------------------------
(* What a step may never do.                                               *)

(***************************************************************************)
(* A message request is decided once and for all, and is deleted only      *)
(* undecided, by the commit that makes the two friends.                    *)
(***************************************************************************)
RequestLifecycle ==
  [][\A q \in messageRequests :
       \/ q \in messageRequests'
       \/ /\ q.status = "pending"
          /\ \/ \E s \in {"accepted", "declined"} :
                  [q EXCEPT !.status = s] \in messageRequests'
             \/ /\ q.id \notin Ids(messageRequests')
                /\ ~AreFriends(q.requester, q.recipient)
                /\ AreFriends(q.requester, q.recipient)']_vars

\* The step is one of a handler whose caller is among us.
Acts(us) == \E r \in Slots : ~At(r, "idle") /\ handlers[r].user \in us
                                           /\ handlers'[r] # handlers[r]

(***************************************************************************)
(* Only the addressee's handler makes a request a friendship, only the     *)
(* recipient's decides a message request, only a participant's removes a   *)
(* friendship, and only the blocker's lifts a block, although each acts on *)
(* a row it loaded some steps before.                                      *)
(***************************************************************************)
OnlyTheEntitled ==
  [][/\ \A f \in friendships' : f.status = "accepted" /\ f \notin friendships =>
          Acts({f.addressee})
     /\ \A f \in friendships : f.id \notin Ids(friendships)' => Acts(FriendPair(f))
     /\ \A q \in messageRequests' : q.status # "pending" /\ q \notin messageRequests =>
          Acts({q.recipient})
     /\ \A b \in blocks : b \notin blocks' => Acts({b.blocker})]_vars

-----------------------------------------------------------------------------
(* The services implement the rules of module Consent.                     *)

Asked(status) ==
  {<<f.requester, f.addressee>> : f \in {g \in friendships : g.status = status}}

RequestsIn(status) ==
  {<<q.requester, q.recipient>> : q \in {p \in messageRequests : p.status = status}}

Promise == INSTANCE Consent WITH
  MessageIds <- 1..MaxRows,
  asks <- Asked("pending"),
  friends <- {FriendPair(f) : f \in {g \in friendships : g.status = "accepted"}},
  blocked <- {<<b.blocker, b.blocked>> : b \in blocks},
  opened <- RequestsIn("pending"),
  accepted <- RequestsIn("accepted"),
  declined <- RequestsIn("declined"),
  written <- {<<m.id, m.sender, m.recipient>> : m \in messages},
  seen <- {m.id : m \in {n \in messages : n.read}}

(***************************************************************************)
(* Every committed statement or transaction of the handlers, seen on the   *)
(* tables alone, is one step of module Consent or none.                    *)
(***************************************************************************)
ConsentKept == Promise!Spec

-----------------------------------------------------------------------------
(* What comments of the code say and the handlers do not keep.  The README *)
(* tells the story of each; TLC refutes each on the instance of run tables *)
(* or strangers.                                                           *)

(***************************************************************************)
(* blockService.js: "Already blocked: nothing further to do, and no        *)
(* friendship can exist."  A sendRequest that looked for a block too soon  *)
(* leaves a row that may then be accepted.                                 *)
(***************************************************************************)
BlockedAreNotFriends == \A b \in blocks : ~AreFriends(b.blocker, b.blocked)

(***************************************************************************)
(* blockService.js: "Neither can message the other, not even a             *)
(* first-contact message."  sendMessage looks for a block some queries     *)
(* before it writes.                                                       *)
(***************************************************************************)
NothingWrittenAcrossBlock ==
  [][\A m \in messages' :
       BlockExistsBetween(m.sender, m.recipient) => m.id \in Ids(messages)]_vars

(***************************************************************************)
(* messageRequestRepository.js: setStatus returns nothing for a decided    *)
(* row, "so a double-click on Accept cannot re-fire the notification or    *)
(* overwrite a decline".  acceptRequest notifies without looking at what   *)
(* it returned, so a declined sender may be told of an acceptance.         *)
(***************************************************************************)
AcceptanceToldIsTrue ==
  \A e \in sent : e.event = "message:request_accepted" =>
    ~ \E q \in messageRequests : q.id = e.row /\ q.status = "declined"

(***************************************************************************)
(* friendService.js: a friendship beside a pending message request "is     *)
(* exactly the inconsistent state being fixed".  An opening message that   *)
(* resolved its state before the acceptance creates it again.              *)
(***************************************************************************)
FriendsHaveNothingPending ==
  \A q \in messageRequests :
    q.status = "pending" => ~AreFriends(q.requester, q.recipient)

(***************************************************************************)
(* messageRequestRepository.js: "until a request is accepted there is only *)
(* ever one" message.  A send resolved during a friendship may be written  *)
(* after it, next to a new opening message.                                *)
(***************************************************************************)
OneMessageUntilAccepted ==
  \A q \in messageRequests, m, n \in messages :
    /\ q.status = "pending" /\ ~AreFriends(q.requester, q.recipient)
    /\ {m, n} \subseteq Conversation(q.requester, q.recipient)
    /\ m.id >= q.id /\ n.id >= q.id
    /\ m.sender = q.requester /\ n.sender = q.requester
    => m = n

(***************************************************************************)
(* messageService.js: "leaving the request pending after they answered     *)
(* would trap the other side".  The reply and the acceptance are two       *)
(* statements; if the second fails, the first stays.                       *)
(***************************************************************************)
AnsweredIsNotPending ==
  \A q \in messageRequests, m \in messages :
    /\ m.sender = q.recipient /\ m.recipient = q.requester /\ m.id > q.id
    /\ \A r \in Slots : ~At(r, "settleReply")
    => q.status # "pending"

(***************************************************************************)
(* messageService.js: "the one place we can be sure the messages were put  *)
(* in front of the user is the moment the conversation was requested".     *)
(* A message that arrives after the page was fetched is marked read too.   *)
(***************************************************************************)
MarkedWasFetched ==
  [][\A m \in messages : ~m.read /\ [m EXCEPT !.read = TRUE] \in messages' =>
       \E r \in Slots : At(r, "markRead") /\ m.id \in handlers[r].page]_vars

-----------------------------------------------------------------------------
(***************************************************************************)
(* Every request is answered: row locks and unique-index waits always end, *)
(* no handlers wait for each other for ever.                               *)
(***************************************************************************)
EveryRequestAnswered == \A r \in Slots : ~At(r, "idle") ~> At(r, "idle")
=============================================================================
