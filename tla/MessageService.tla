---------------------------- MODULE MessageService ----------------------------
(***************************************************************************)
(* services/messageService.js: direct messages and message requests.       *)
(***************************************************************************)
EXTENDS Handlers

-----------------------------------------------------------------------------
(* resolveSendState: three queries, any of which may already be stale when *)
(* its answer is used.  sendMessage and getConversation share it.          *)

CanSend == {"open", "first_contact", "reply_accepts"}

\* Slip: whoever may reply marks what they see as read.
MarksReadIfReplying(op, state) == op = "openConversation" /\ state \in CanSend

MarksRead(op, state) == op = "openConversation" /\ state = "open"

\* What the caller does with the state once it is known.
AfterResolve(op, state) ==
  CASE op = "sendMessage" /\ state = "first_contact" -> "insertOpening"
    [] op = "sendMessage" /\ state \in CanSend \ {"first_contact"} -> "insertMessage"
    [] MarksRead(op, state) -> "markRead"
    [] OTHER -> "idle"                              \* a page, or 403

Resolved(r, state, request) ==
  LET next == AfterResolve(handlers[r].op, state) IN
  IF next = "idle" THEN Respond(r)
  ELSE handlers' = [handlers EXCEPT ![r].pc = next, ![r].state = state,
                                    ![r].ref = IF state = "reply_accepts"
                                               THEN request ELSE NoId]

ResolveBlock(r) ==
  /\ At(r, "resolveBlock")
  /\ IF BlockExistsBetween(handlers[r].user, handlers[r].peer)
       THEN Resolved(r, "blocked", NoId)
       ELSE Goto(r, "resolveFriends")
  /\ UNCHANGED tables /\ Silent

ResolveFriends(r) ==
  /\ At(r, "resolveFriends")
  /\ IF AreFriends(handlers[r].user, handlers[r].peer)
       THEN Resolved(r, "open", NoId)
       ELSE Goto(r, "resolveRequest")
  /\ UNCHANGED tables /\ Silent

\* Slip: a pending request is open to answer from either side.
StateIgnoringSide(q, u) ==
  CASE q.status = "accepted" -> "open"
    [] q.status = "declined" -> "declined"
    [] OTHER -> "reply_accepts"

\* The state a request row means to u, one of its two participants.
StateOf(q, u) ==
  CASE q.status = "accepted" -> "open"
    [] q.status = "declined" -> "declined"
    [] q.status = "pending" /\ q.recipient = u -> "reply_accepts"
    [] OTHER -> "awaiting_approval"

ResolveRequest(r) ==
  LET found == RequestsBetween(handlers[r].user, handlers[r].peer) IN
  /\ At(r, "resolveRequest")
  /\ \/ found = {} /\ Resolved(r, "first_contact", NoId)
     \/ \E q \in found : Resolved(r, StateOf(q, handlers[r].user), q.id)
  /\ UNCHANGED tables /\ Silent

-----------------------------------------------------------------------------
(* sendMessage                                                             *)

SendMessage(r) ==
  \E u, v \in Users : u # v /\ Receive(r, "sendMessage", "resolveBlock", u, v, NoId)

NewMessage(r) == [id |-> nextId, sender |-> handlers[r].user,
                  recipient |-> handlers[r].peer, read |-> FALSE]

InsertMessage(r) ==
  /\ At(r, "insertMessage") /\ ~Full
  /\ messages' = messages \cup {NewMessage(r)}
  /\ TakeId
  /\ handlers' = [handlers EXCEPT
       ![r].row = nextId,
       ![r].pc = IF handlers[r].state = "reply_accepts"
                 THEN "settleReply" ELSE "notifyMessage"]
  /\ UNCHANGED <<friendships, messageRequests, blocks, befriended>> /\ Silent

\* Slip: setStatus without its guard on the status.
WithId(i) == {q \in messageRequests : q.id = i}

\* setStatus: UPDATE ... WHERE id AND status = 'pending'.
Undecided(i) == {q \in messageRequests : q.id = i /\ q.status = "pending"}

SetStatus(i, status) ==
  messageRequests' = (messageRequests \ Undecided(i)) \cup
                     {[q EXCEPT !.status = status] : q \in Undecided(i)}

\* Replying accepts the request; the sender is told only if it did.
SettleReply(r) ==
  /\ At(r, "settleReply")
  /\ ~RequestLocked(r, handlers[r].ref)
  /\ SetStatus(handlers[r].ref, "accepted")
  /\ Goto(r, IF Undecided(handlers[r].ref) # {} THEN "notifyReply" ELSE "notifyMessage")
  /\ UNCHANGED <<friendships, blocks, messages, nextId, befriended>> /\ Silent

NotifyReply(r) ==
  /\ At(r, "notifyReply")
  /\ Emit(Events("message:request_accepted", handlers[r].peer, {handlers[r].ref})
          \cup Events("message:received", handlers[r].peer, {handlers[r].row}))
  /\ Respond(r)
  /\ UNCHANGED tables

NotifyMessage(r) ==
  /\ At(r, "notifyMessage")
  /\ Emit(Events("message:received", handlers[r].peer, {handlers[r].row}))
  /\ Respond(r)
  /\ UNCHANGED tables

\* Slip: the message is inserted outside the transaction.
KeepMessage(r) == messages' = messages \cup {NewMessage(r)}

\* ROLLBACK of the message insert.
DropMessage(r) == messages' = messages

(***************************************************************************)
(* sendOpeningMessage: one transaction that inserts the message and the    *)
(* request row.  Nobody waits for anything it holds but the unique pair    *)
(* index, so it takes effect as one step, here both INSERTs and COMMIT; on *)
(* 23505 both are rolled back.  The two rows share a number.               *)
(***************************************************************************)
InsertOpening(r) ==
  LET between == RequestsBetween(handlers[r].user, handlers[r].peer) IN
  /\ At(r, "insertOpening") /\ ~Full
  /\ \A q \in between : ~RequestLocked(r, q.id)
  /\ IF between = {}
       THEN /\ messages' = messages \cup {NewMessage(r)}
            /\ messageRequests' = messageRequests \cup
                 {[id |-> nextId, requester |-> handlers[r].user,
                   recipient |-> handlers[r].peer, status |-> "pending"]}
            /\ TakeId
            /\ handlers' = [handlers EXCEPT ![r].pc = "notifyOpening",
                                            ![r].row = nextId]
       ELSE /\ DropMessage(r) /\ Respond(r)                         \* 403
            /\ UNCHANGED <<messageRequests, nextId>>
  /\ UNCHANGED <<friendships, blocks, befriended>> /\ Silent

NotifyOpening(r) ==
  /\ At(r, "notifyOpening")
  /\ Emit(Events("message:request_received", handlers[r].peer, {handlers[r].row}))
  /\ Respond(r)
  /\ UNCHANGED tables

-----------------------------------------------------------------------------
(* getConversation, of the first page or ("scrollBack") of an older one.   *)
(* The page is fetched before the state is resolved and the messages are   *)
(* marked.                                                                 *)

GetConversation(r) ==
  \E u, v \in Users, op \in {"openConversation", "scrollBack"} :
    u # v /\ Receive(r, op, "findPage", u, v, NoId)

\* Conversations stay shorter than a page within the bounds; an older page
\* is only answered with, so its messages are left out.
FindPage(r) ==
  /\ At(r, "findPage")
  /\ handlers' = [handlers EXCEPT
       ![r].pc = "resolveBlock",
       ![r].page = IF handlers[r].op = "scrollBack" THEN {}
                   ELSE Ids(Conversation(handlers[r].user, handlers[r].peer))]
  /\ UNCHANGED tables /\ Silent

\* markConversationRead: every unread message, whatever the page held.
ToMark(r) == UnreadFrom(handlers[r].peer, handlers[r].user)

MarkRead(r) ==
  /\ At(r, "markRead")
  /\ messages' = (messages \ ToMark(r)) \cup {[m EXCEPT !.read = TRUE] : m \in ToMark(r)}
  /\ IF ToMark(r) = {} THEN Respond(r)
     ELSE handlers' = [handlers EXCEPT ![r].pc = "notifyRead",
                                       ![r].page = Ids(ToMark(r))]
  /\ UNCHANGED <<friendships, messageRequests, blocks, nextId, befriended>> /\ Silent

NotifyRead(r) ==
  /\ At(r, "notifyRead")
  /\ Emit(Events("message:read", handlers[r].peer, handlers[r].page))
  /\ Respond(r)
  /\ UNCHANGED tables

-----------------------------------------------------------------------------
(* acceptRequest and declineRequest                                        *)

AnswerRequest(r) ==
  \E u \in Users, q \in messageRequests, op \in {"acceptRequest", "declineRequest"} :
    Receive(r, op, "loadRequest", u, q.requester, q.id)

MayAnswer(q, u) == q.recipient = u /\ q.status = "pending"          \* 403, 400

LoadRequest(r) ==
  LET answerable == {q \in messageRequests :
                       q.id = handlers[r].row /\ MayAnswer(q, handlers[r].user)} IN
  /\ At(r, "loadRequest")
  /\ \/ answerable = {} /\ Respond(r)                               \* 404 too
     \/ \E q \in answerable :
          handlers' = [handlers EXCEPT ![r].pc = "setStatus", ![r].peer = q.requester]
  /\ UNCHANGED tables /\ Silent

\* Slip: a status that the column's type does not have.
DecisionUntyped(op) == IF op = "acceptRequest" THEN "accepted" ELSE "rejected"

Decision(op) == IF op = "acceptRequest" THEN "accepted" ELSE "declined"

\* Accepting notifies whether or not the UPDATE found the row undecided.
AnswerSetStatus(r) ==
  /\ At(r, "setStatus")
  /\ ~RequestLocked(r, handlers[r].row)
  /\ SetStatus(handlers[r].row, Decision(handlers[r].op))
  /\ IF handlers[r].op = "acceptRequest" THEN Goto(r, "notifyRequestAccepted")
                                         ELSE Respond(r)
  /\ UNCHANGED <<friendships, blocks, messages, nextId, befriended>> /\ Silent

NotifyRequestAccepted(r) ==
  /\ At(r, "notifyRequestAccepted")
  /\ Emit(Events("message:request_accepted", handlers[r].peer, {handlers[r].row}))
  /\ Respond(r)
  /\ UNCHANGED tables

-----------------------------------------------------------------------------
MessageRequests(r) == SendMessage(r) \/ GetConversation(r) \/ AnswerRequest(r)

MessageStep(r) ==
  \/ ResolveBlock(r) \/ ResolveFriends(r) \/ ResolveRequest(r)
  \/ InsertMessage(r) \/ SettleReply(r) \/ NotifyReply(r) \/ NotifyMessage(r)
  \/ InsertOpening(r) \/ NotifyOpening(r)
  \/ FindPage(r) \/ MarkRead(r) \/ NotifyRead(r)
  \/ LoadRequest(r) \/ AnswerSetStatus(r) \/ NotifyRequestAccepted(r)
=============================================================================
