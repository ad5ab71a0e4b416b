----------------------------- MODULE CoreProofs -----------------------------
(***************************************************************************)
(* What holds of the relationship core for any users, any number of        *)
(* requests in flight and any number of rows: type correctness, what       *)
(* blockUser leaves behind, and the consent to receive messages.           *)
(***************************************************************************)
EXTENDS BestizInv, TLAPS

(***************************************************************************)
(* Type correctness of Bestiz, for any users, any number of requests in    *)
(* flight and any number of rows.                                          *)
(***************************************************************************)

\* A handler that is not idle remembers a whole request.
LEMMA WholeRequest ==
  ASSUME HandlersTypeOK, NEW r \in Slots, handlers[r].pc # "idle"
  PROVE  handlers[r] \in Handler
  BY DEF HandlersTypeOK, Idle

\* A step that leaves the tables and the events alone is typed if the
\* handlers are.
LEMMA OnlyHandlers ==
  ASSUME TypeOK, UNCHANGED tables, Silent,
         handlers' \in [Slots -> Handler \cup {Idle}]
  PROVE  TypeOK'
  BY DEF tables, Silent, TypeOK, DatabaseTypeOK, HandlersTypeOK

\* Ending a request, and moving it on, keep the handlers' type.
LEMMA RespondType ==
  ASSUME TypeOK, NEW r \in Slots, Respond(r)
  PROVE  handlers' \in [Slots -> Handler \cup {Idle}]
  BY DEF Respond, TypeOK, HandlersTypeOK

\* Moving to a next query keeps the type.
LEMMA GotoType ==
  ASSUME TypeOK, NEW r \in Slots, handlers[r].pc # "idle",
         NEW pc \in FriendSteps \cup BlockSteps \cup MessageSteps, Goto(r, pc)
  PROVE  handlers' \in [Slots -> Handler \cup {Idle}]
<1>1. handlers[r] \in Handler
  BY WholeRequest DEF TypeOK
<1> QED BY <1>1 DEF Goto, Handler, TypeOK, HandlersTypeOK

\* So does replacing the whole record.
LEMMA ReplaceType ==
  ASSUME TypeOK, NEW r \in Slots, NEW h \in Handler,
         handlers' = [handlers EXCEPT ![r] = h]
  PROVE  handlers' \in [Slots -> Handler \cup {Idle}]
  BY DEF TypeOK, HandlersTypeOK

-----------------------------------------------------------------------------
\* An arriving request is remembered whole.
LEMMA ReceiveType ==
  ASSUME TypeOK, NEW r \in Slots, NEW op \in Ops,
         NEW pc \in FriendSteps \cup BlockSteps \cup MessageSteps,
         NEW u \in Users, NEW v \in Users, NEW row \in Nat,
         Receive(r, op, pc, u, v, row)
  PROVE  TypeOK'
<1> DEFINE h == [op |-> op, pc |-> pc, user |-> u, peer |-> v, row |-> row,
                 ref |-> NoId, state |-> "unknown", page |-> {}]
<1>1. h \in Handler
  BY DEF Handler, SendState, NoId
<1>2. handlers' = [handlers EXCEPT ![r] = h]
  BY DEF Receive
<1> QED
  BY <1>1, <1>2, ReplaceType, OnlyHandlers DEF Receive

\* Every request the services receive is typed.
LEMMA ArriveType ==
  ASSUME TypeOK, NEW r \in Slots, Arrive(r)
  PROVE  TypeOK'
<1> USE DEF Ops, FriendSteps, BlockSteps, MessageSteps, NoId
<1>1. CASE FriendRequests(r)
  <2>1. CASE SendRequest(r)
    BY <2>1, ReceiveType DEF SendRequest
  <2>2. CASE NameFriendship(r)
    <3>1. PICK u \in Users, f \in friendships,
               op \in {"acceptFriend", "deleteFriendship"} :
                 Receive(r, op, "loadFriendship", u, OtherParticipant(f, u), f.id)
      BY <2>2 DEF NameFriendship
    <3>2. OtherParticipant(f, u) \in Users /\ f.id \in Nat
      BY DEF OtherParticipant, Friendship, RowId, TypeOK, DatabaseTypeOK
    <3> QED BY <3>1, <3>2, ReceiveType
  <2> QED BY <1>1, <2>1, <2>2 DEF FriendRequests
<1>2. CASE BlockRequests(r)
  BY <1>2, ReceiveType DEF BlockRequests, BlockUser, UnblockUser
<1>3. CASE MessageRequests(r)
  <2>1. CASE SendMessage(r)
    BY <2>1, ReceiveType DEF SendMessage
  <2>2. CASE GetConversation(r)
    BY <2>2, ReceiveType DEF GetConversation
  <2>3. CASE AnswerRequest(r)
    <3>1. PICK u \in Users, q \in messageRequests,
               op \in {"acceptRequest", "declineRequest"} :
                 Receive(r, op, "loadRequest", u, q.requester, q.id)
      BY <2>3 DEF AnswerRequest
    <3>2. q.requester \in Users /\ q.id \in Nat
      BY DEF MessageRequest, RowId, TypeOK, DatabaseTypeOK
    <3> QED BY <3>1, <3>2, ReceiveType
  <2> QED BY <1>3, <2>1, <2>2, <2>3 DEF MessageRequests
<1> QED BY <1>1, <1>2, <1>3 DEF Arrive

-----------------------------------------------------------------------------
\* Loading a friendship row puts a user in the handler.
LEMMA LoadFriendshipType ==
  ASSUME TypeOK, NEW r \in Slots, LoadFriendship(r)
  PROVE  TypeOK'
<1> DEFINE h(f, pc) == [handlers[r] EXCEPT
                          !.peer = OtherParticipant(f, handlers[r].user), !.pc = pc]
<1>1. handlers[r] \in Handler
  BY WholeRequest DEF LoadFriendship, At, TypeOK
<1>2. \A f \in LoadedFriendship(r) : OtherParticipant(f, handlers[r].user) \in Users
  BY DEF OtherParticipant, LoadedFriendship, TypeOK, DatabaseTypeOK, Friendship
<1>3. \A f \in LoadedFriendship(r), pc \in FriendSteps : h(f, pc) \in Handler
  BY <1>1, <1>2 DEF Handler
<1>4. CASE Respond(r)
  BY <1>4, RespondType, OnlyHandlers DEF LoadFriendship
<1>5. CASE ~Respond(r)
  <2> DEFINE next == IF handlers[r].op = "acceptFriend" THEN "acceptFriendship"
                                                        ELSE "deleteFriendship"
  <2>1. PICK f \in LoadedFriendship(r) : handlers' = [handlers EXCEPT
               ![r].peer = OtherParticipant(f, handlers[r].user), ![r].pc = next]
    BY <1>5 DEF LoadFriendship
  <2>2. handlers' = [handlers EXCEPT ![r] = h(f, next)]
    BY <2>1
  <2>3. h(f, next) \in Handler
    BY <1>3 DEF FriendSteps
  <2> QED BY <2>2, <2>3, ReplaceType, OnlyHandlers DEF LoadFriendship
<1> QED BY <1>4, <1>5

\* The steps of friendService are typed.
LEMMA FriendStepType ==
  ASSUME TypeOK, NEW r \in Slots, FriendStep(r)
  PROVE  TypeOK'
<1> USE DEF FriendSteps, At
<1>1. CASE CheckBlock(r)
  BY <1>1, RespondType, GotoType, OnlyHandlers DEF CheckBlock
<1>2. CASE FindExisting(r)
  BY <1>2, RespondType, GotoType, OnlyHandlers DEF FindExisting
<1>3. CASE InsertFriendship(r)
  BY <1>3, WholeRequest, SMTT(30) DEF InsertFriendship, Respond, Silent, TakeId, Friendship,
     RowId, NoId, TypeOK, DatabaseTypeOK, HandlersTypeOK, Handler
<1>4. CASE NotifyRequest(r)
  BY <1>4, WholeRequest, RespondType DEF NotifyRequest, Emit, Events, Event, tables,
     TypeOK, DatabaseTypeOK, HandlersTypeOK, Handler
<1>5. CASE LoadFriendship(r)
  BY <1>5, LoadFriendshipType
<1>6. CASE AcceptFriendship(r)
  BY <1>6, RespondType, GotoType, OnlyHandlers DEF AcceptFriendship
<1>7. CASE SettleRequest(r)
  <2>1. \A q \in messageRequests : q.id \in Nat
    BY DEF TypeOK, DatabaseTypeOK, MessageRequest, RowId
  <2>2. handlers' \in [Slots -> Handler \cup {Idle}]
    BY <1>7, <2>1, WholeRequest, SMTT(30) DEF SettleRequest, Goto, PendingBetween,
       RequestsBetween, Handler, TypeOK, HandlersTypeOK
  <2> QED BY <1>7, <2>2, OnlyHandlers DEF SettleRequest
<1>8. CASE CommitAccept(r)
  <2>1. \A f \in Friendship : [f EXCEPT !.status = "accepted"] \in Friendship
    BY DEF Friendship
  <2>2. friendships' \subseteq Friendship
    BY <1>8, <2>1 DEF CommitAccept, TypeOK, DatabaseTypeOK
  <2>3. handlers[r] \in Handler
    BY <1>8, WholeRequest DEF CommitAccept, TypeOK
  <2> QED
    BY <1>8, <2>2, <2>3, GotoType DEF CommitAccept, Silent, TypeOK, DatabaseTypeOK,
       HandlersTypeOK, Handler
<1>9. CASE NotifyAccepted(r)
  BY <1>9, WholeRequest, RespondType DEF NotifyAccepted, Emit, Events, Event, tables,
     TypeOK, DatabaseTypeOK, HandlersTypeOK, Handler
<1>10. CASE DeleteFriendship(r)
  BY <1>10, GotoType DEF DeleteFriendship, Silent, TypeOK, DatabaseTypeOK, HandlersTypeOK
<1>11. CASE NotifyRemoved(r)
  BY <1>11, WholeRequest, RespondType DEF NotifyRemoved, Emit, Events, Event, tables,
     TypeOK, DatabaseTypeOK, HandlersTypeOK, Handler
<1> QED
  BY <1>1, <1>2, <1>3, <1>4, <1>5, <1>6, <1>7, <1>8, <1>9, <1>10, <1>11 DEF FriendStep

\* The steps of blockService are typed.
LEMMA BlockStepType ==
  ASSUME TypeOK, NEW r \in Slots, BlockStep(r)
  PROVE  TypeOK'
<1> USE DEF BlockSteps, At
<1>1. CASE InsertBlock(r)
  BY <1>1, WholeRequest, SMTT(30) DEF InsertBlock, Respond, Silent, TakeId, RowId, NoId,
     TypeOK, DatabaseTypeOK, HandlersTypeOK, Handler
<1>2. CASE FindFriendship(r)
  <2>1. \A f \in friendships : f.id \in Nat
    BY DEF TypeOK, DatabaseTypeOK, Friendship, RowId
  <2>2. handlers' \in [Slots -> Handler \cup {Idle}]
    BY <1>2, <2>1, WholeRequest, SMTT(30) DEF FindFriendship, Goto, ToPart, FriendshipsBetween,
       Handler, TypeOK, HandlersTypeOK
  <2> QED BY <1>2, <2>2, OnlyHandlers DEF FindFriendship
<1>3. CASE RemoveFriendship(r)
  BY <1>3, GotoType, OnlyHandlers DEF RemoveFriendship
<1>4. CASE CommitBlock(r)
  <2>1. handlers' \in [Slots -> Handler \cup {Idle}]
    BY <1>4, RespondType, GotoType DEF CommitBlock, FriendSteps
  <2>2. handlers[r] \in Handler
    BY <1>4, WholeRequest DEF CommitBlock, TypeOK
  <2> QED
    BY <1>4, <2>1, <2>2 DEF CommitBlock, Silent, Block, TypeOK, DatabaseTypeOK,
       HandlersTypeOK, Handler
<1>5. CASE RemoveBlock(r)
  BY <1>5, RespondType DEF RemoveBlock, Silent, TypeOK, DatabaseTypeOK, HandlersTypeOK
<1> QED
  BY <1>1, <1>2, <1>3, <1>4, <1>5 DEF BlockStep

-----------------------------------------------------------------------------
\* resolveSendState's answer sends the caller on, or ends it.
LEMMA ResolvedType ==
  ASSUME TypeOK, NEW r \in Slots, handlers[r].pc # "idle",
         NEW state \in SendState, NEW request \in Nat,
         Resolved(r, state, request)
  PROVE  handlers' \in [Slots -> Handler \cup {Idle}]
<1>1. handlers[r] \in Handler
  BY WholeRequest DEF TypeOK
<1>2. AfterResolve(handlers[r].op, state) \in MessageSteps \cup {"idle"}
  BY DEF AfterResolve, MessageSteps
<1> QED
  BY <1>1, <1>2, SMTT(30) DEF Resolved, Respond, TypeOK, HandlersTypeOK, Handler, NoId

\* setStatus writes a status the column has.
LEMMA SetStatusType ==
  ASSUME TypeOK, NEW i, NEW status \in {"pending", "accepted", "declined"},
         SetStatus(i, status)
  PROVE  messageRequests' \subseteq MessageRequest
<1>1. \A q \in MessageRequest : [q EXCEPT !.status = status] \in MessageRequest
  BY DEF MessageRequest
<1> QED BY <1>1 DEF SetStatus, Undecided, TypeOK, DatabaseTypeOK

\* The row that a send inserts is a message.
LEMMA NewMessageType ==
  ASSUME TypeOK, NEW r \in Slots, handlers[r].pc # "idle"
  PROVE  NewMessage(r) \in Message
  BY WholeRequest DEF NewMessage, Message, Handler, TypeOK, DatabaseTypeOK

\* The opening message and its request are rows of their tables.
LEMMA InsertOpeningType ==
  ASSUME TypeOK, NEW r \in Slots, InsertOpening(r)
  PROVE  TypeOK'
<1> DEFINE u == handlers[r].user
           v == handlers[r].peer
<1>1. handlers[r] \in Handler /\ u \in Users /\ v \in Users /\ handlers[r].pc # "idle"
  BY WholeRequest DEF InsertOpening, At, TypeOK, Handler
<1>2. DatabaseTypeOK'
  <2>1. CASE RequestsBetween(u, v) = {}
    <3>1. [id |-> nextId, requester |-> u, recipient |-> v, status |-> "pending"]
             \in MessageRequest
      BY <1>1 DEF MessageRequest, TypeOK, DatabaseTypeOK
    <3>2. nextId' \in RowId
      BY <2>1 DEF InsertOpening, TakeId, TypeOK, DatabaseTypeOK, RowId, NoId
    <3> QED
      BY <1>1, <2>1, <3>1, <3>2, NewMessageType DEF InsertOpening, TypeOK, DatabaseTypeOK
  <2>2. CASE RequestsBetween(u, v) # {}
    BY <2>2 DEF InsertOpening, DropMessage, TypeOK, DatabaseTypeOK
  <2> QED BY <2>1, <2>2
<1>3. HandlersTypeOK'
  BY <1>1 DEF InsertOpening, Respond, Silent, TypeOK, DatabaseTypeOK, HandlersTypeOK,
     Handler, MessageSteps, RowId
<1> QED BY <1>2, <1>3 DEF TypeOK

\* A fetched page is a set of message ids.
LEMMA FindPageType ==
  ASSUME TypeOK, NEW r \in Slots, FindPage(r)
  PROVE  TypeOK'
<1> DEFINE c == IF handlers[r].op = "scrollBack" THEN {}
                ELSE Ids(Conversation(handlers[r].user, handlers[r].peer))
           h == [handlers[r] EXCEPT !.pc = "resolveBlock", !.page = c]
<1>1. handlers[r] \in Handler
  BY WholeRequest DEF FindPage, At, TypeOK
<1>2. c \in SUBSET Nat
  BY DEF Ids, Conversation, TypeOK, DatabaseTypeOK, Message, RowId
<1>3. h \in Handler
  BY <1>1, <1>2 DEF Handler, MessageSteps
<1>4. handlers' = [handlers EXCEPT ![r] = h]
  BY DEF FindPage
<1> QED BY <1>3, <1>4, ReplaceType, OnlyHandlers DEF FindPage

\* Marking messages read leaves them messages.
LEMMA MarkReadType ==
  ASSUME TypeOK, NEW r \in Slots, MarkRead(r)
  PROVE  TypeOK'
<1>1. handlers[r] \in Handler
  BY WholeRequest DEF MarkRead, At, TypeOK
<1>2. ToMark(r) \subseteq Message
  BY DEF ToMark, UnreadFrom, TypeOK, DatabaseTypeOK
<1>3. \A m \in Message : [m EXCEPT !.read = TRUE] \in Message
  BY DEF Message
<1>4. messages' \subseteq Message
  BY <1>2, <1>3 DEF MarkRead, TypeOK, DatabaseTypeOK
<1>5. handlers' \in [Slots -> Handler \cup {Idle}]
  <2>1. CASE ToMark(r) = {}
    BY <2>1, RespondType DEF MarkRead
  <2>2. CASE ToMark(r) # {}
    <3> DEFINE h == [handlers[r] EXCEPT !.pc = "notifyRead", !.page = Ids(ToMark(r))]
    <3>1. Ids(ToMark(r)) \in SUBSET Nat
      BY <1>2 DEF Ids, Message, RowId
    <3>2. h \in Handler
      BY <1>1, <3>1 DEF Handler, MessageSteps
    <3>3. handlers' = [handlers EXCEPT ![r] = h]
      BY <2>2 DEF MarkRead
    <3> QED BY <3>2, <3>3, ReplaceType
  <2> QED BY <2>1, <2>2
<1> QED BY <1>4, <1>5 DEF MarkRead, Silent, TypeOK, DatabaseTypeOK, HandlersTypeOK

\* The steps of messageService are typed.
LEMMA MessageStepType ==
  ASSUME TypeOK, NEW r \in Slots, MessageStep(r)
  PROVE  TypeOK'
<1> USE DEF MessageSteps, At
<1>1. CASE ResolveBlock(r)
  BY <1>1, ResolvedType, GotoType, OnlyHandlers DEF ResolveBlock, SendState, NoId
<1>2. CASE ResolveFriends(r)
  BY <1>2, ResolvedType, GotoType, OnlyHandlers DEF ResolveFriends, SendState, NoId
<1>3. CASE ResolveRequest(r)
  <2>1. \A q \in messageRequests : q.id \in Nat /\ StateOf(q, handlers[r].user) \in SendState
    BY DEF StateOf, SendState, TypeOK, DatabaseTypeOK, MessageRequest, RowId
  <2>2. handlers' \in [Slots -> Handler \cup {Idle}]
    BY <1>3, <2>1, ResolvedType DEF ResolveRequest, RequestsBetween, SendState, NoId
  <2> QED BY <1>3, <2>2, OnlyHandlers DEF ResolveRequest
<1>4. CASE InsertMessage(r)
  <2>1. handlers' \in [Slots -> Handler \cup {Idle}]
    BY <1>4, WholeRequest, SMTT(30) DEF InsertMessage, RowId, TypeOK, DatabaseTypeOK,
       HandlersTypeOK, Handler
  <2>2. nextId' \in RowId
    BY <1>4 DEF InsertMessage, TakeId, RowId, NoId, TypeOK, DatabaseTypeOK
  <2> QED
    BY <1>4, <2>1, <2>2, NewMessageType DEF InsertMessage, Silent, TypeOK,
       DatabaseTypeOK, HandlersTypeOK
<1>5. CASE SettleReply(r)
  BY <1>5, SetStatusType, GotoType DEF SettleReply, Silent, TypeOK, DatabaseTypeOK,
     HandlersTypeOK
<1>6. CASE NotifyReply(r)
  BY <1>6, WholeRequest, RespondType DEF NotifyReply, Emit, Events, Event, tables,
     TypeOK, DatabaseTypeOK, HandlersTypeOK, Handler
<1>7. CASE NotifyMessage(r)
  BY <1>7, WholeRequest, RespondType DEF NotifyMessage, Emit, Events, Event, tables,
     TypeOK, DatabaseTypeOK, HandlersTypeOK, Handler
<1>8. CASE InsertOpening(r)
  BY <1>8, InsertOpeningType
<1>9. CASE NotifyOpening(r)
  BY <1>9, WholeRequest, RespondType DEF NotifyOpening, Emit, Events, Event, tables,
     TypeOK, DatabaseTypeOK, HandlersTypeOK, Handler
<1>10. CASE FindPage(r)
  BY <1>10, FindPageType
<1>11. CASE MarkRead(r)
  BY <1>11, MarkReadType
<1>12. CASE NotifyRead(r)
  BY <1>12, WholeRequest, RespondType DEF NotifyRead, Emit, Events, Event, tables,
     TypeOK, DatabaseTypeOK, HandlersTypeOK, Handler
<1>13. CASE LoadRequest(r)
  <2>1. \A q \in messageRequests : q.requester \in Users
    BY DEF TypeOK, DatabaseTypeOK, MessageRequest
  <2>2. handlers' \in [Slots -> Handler \cup {Idle}]
    BY <1>13, <2>1, WholeRequest, RespondType, SMTT(30) DEF LoadRequest, Handler, TypeOK,
       HandlersTypeOK
  <2> QED BY <1>13, <2>2, OnlyHandlers DEF LoadRequest
<1>14. CASE AnswerSetStatus(r)
  BY <1>14, SetStatusType, RespondType, GotoType DEF AnswerSetStatus, Decision, Silent,
     TypeOK, DatabaseTypeOK, HandlersTypeOK
<1>15. CASE NotifyRequestAccepted(r)
  BY <1>15, WholeRequest, RespondType DEF NotifyRequestAccepted, Emit, Events, Event,
     tables, TypeOK, DatabaseTypeOK, HandlersTypeOK, Handler
<1> QED
  BY <1>1, <1>2, <1>3, <1>4, <1>5, <1>6, <1>7, <1>8, <1>9, <1>10, <1>11, <1>12,
     <1>13, <1>14, <1>15 DEF MessageStep

-----------------------------------------------------------------------------
\* The empty tables and the idle handlers are typed.
LEMMA InitType == Init => TypeOK
  BY DEF Init, DatabaseInit, HandlersInit, TypeOK, DatabaseTypeOK, HandlersTypeOK,
     RowId, NoId

\* Every step keeps the types.
LEMMA NextType == TypeOK /\ [Next]_vars => TypeOK'
<1> SUFFICES ASSUME TypeOK, [Next]_vars PROVE TypeOK'
  OBVIOUS
<1>1. CASE UNCHANGED vars
  BY <1>1 DEF vars, tables, TypeOK, DatabaseTypeOK, HandlersTypeOK
<1>2. CASE Next
  <2> PICK r \in Slots : Arrive(r) \/ Step(r) \/ Fail(r)
    BY <1>2 DEF Next
  <2>1. CASE Arrive(r)
    BY <2>1, ArriveType
  <2>2. CASE Step(r)
    <3>1. CASE RejectInsert(r)
      BY <3>1, RespondType, OnlyHandlers DEF RejectInsert
    <3> QED BY <2>2, <3>1, FriendStepType, BlockStepType, MessageStepType DEF Step
  <2>3. CASE Fail(r)
    BY <2>3, RespondType, OnlyHandlers DEF Fail
  <2> QED BY <2>1, <2>2, <2>3
<1> QED BY <1>1, <1>2

(***************************************************************************)
(* Every row, handler and event keeps its type through every step of every *)
(* service.                                                                *)
(***************************************************************************)
THEOREM TypeCorrect == Spec => []TypeOK
  BY InitType, NextType, PTL DEF Spec

-----------------------------------------------------------------------------
(***************************************************************************)
(* A friendship never predates a block of the same pair: BlockInv is       *)
(* inductive, for any users, any number of requests in flight and any      *)
(* number of rows.                                                         *)
(***************************************************************************)

\* Nothing but r moves, and r is not placing a block afterwards.
Apart(r) ==
  /\ \A s \in Slots \ {r} : handlers'[s] = handlers[s]
  /\ ~PlacingBlock(r)'

(***************************************************************************)
(* While r moves like that, the blocks that others are placing stay as     *)
(* they were: every friendship is an old one, by number and pair, or has   *)
(* the next number.                                                        *)
(***************************************************************************)
LEMMA StillPlacing ==
  ASSUME TypeOK, BlockInv, NEW r \in Slots, Apart(r), NEW s \in Slots, PlacingBlock(s)',
         nextId' \in {nextId, nextId + 1}, blocks' \subseteq blocks,
         \A f \in friendships' : \/ f.id = nextId
                                 \/ \E g \in friendships :
                                      g.id = f.id /\ FriendPair(g) = FriendPair(f)
  PROVE  Placing(s)'
<1>1. s # r /\ handlers'[s] = handlers[s] /\ PlacingBlock(s) /\ Placing(s)
  BY DEF Apart, PlacingBlock, BlockInv
<1>2. nextId \in Nat /\ nextId' \in Nat /\ nextId <= nextId'
  BY DEF TypeOK, DatabaseTypeOK, RowId
<1>3. handlers[s].ref \in Nat /\ handlers[s].ref < nextId
  BY <1>1, WholeRequest DEF PlacingBlock, TypeOK, Handler, Placing
<1>4. (handlers[s].ref < nextId)'
  BY <1>1, <1>2, <1>3
<1>5. \A f \in friendships' : f.id # handlers'[s].ref
  BY <1>1, <1>2, <1>3 DEF Placing
<1>6. \A b \in blocks' :
        <<b.blocker, b.blocked>> # <<handlers'[s].user, handlers'[s].peer>>
  BY <1>1 DEF Placing
<1>7. ASSUME NEW t \in Slots \ {s}, PlacingBlock(t)'
      PROVE  <<handlers'[t].user, handlers'[t].peer>> #
               <<handlers'[s].user, handlers'[s].peer>>
  <2>1. handlers'[t] = handlers[t] /\ PlacingBlock(t)
    BY <1>7 DEF Apart, PlacingBlock
  <2> QED BY <1>1, <2>1 DEF Placing
<1>8. ASSUME handlers'[s].pc # "findFriendship", NEW f \in friendships',
             FriendPair(f) = Between(s)', f.id < handlers'[s].ref
      PROVE  f.id = handlers'[s].row
  <2>1. Between(s)' = Between(s)
    BY <1>1 DEF Between
  <2>2. f.id # nextId
    BY <1>1, <1>2, <1>3, <1>8
  <2>3. PICK g \in friendships : g.id = f.id /\ FriendPair(g) = FriendPair(f)
    BY <2>2
  <2> QED BY <1>1, <1>8, <2>1, <2>3 DEF Placing
<1>9. \A f \in friendships' : FriendPair(f)' = FriendPair(f)
  BY DEF FriendPair
<1> QED
  BY <1>4, <1>5, <1>6, <1>7, <1>8 DEF Placing

(***************************************************************************)
(* A step that adds no friendship and no block, by a handler that does not *)
(* end up placing a block, keeps BlockInv.                                 *)
(***************************************************************************)
LEMMA Harmless ==
  ASSUME TypeOK, BlockInv, NEW r \in Slots, Apart(r),
         friendships' \subseteq friendships, blocks' \subseteq blocks,
         nextId' \in {nextId, nextId + 1}
  PROVE  BlockInv'
<1>1. nextId \in Nat /\ nextId' \in Nat /\ nextId <= nextId'
  BY DEF TypeOK, DatabaseTypeOK, RowId
<1>2. \A f \in friendships : f.id \in Nat
  BY DEF TypeOK, DatabaseTypeOK, Friendship, RowId
<1>3. \A b \in blocks : b.id \in Nat
  BY DEF TypeOK, DatabaseTypeOK, Block
<1>4. \A s \in Slots : PlacingBlock(s)' => Placing(s)'
  BY StillPlacing
<1> QED
  BY <1>1, <1>2, <1>3, <1>4, SMTT(30) DEF BlockInv, NoFriendshipPredatesBlock

-----------------------------------------------------------------------------
\* An arriving request places no block yet.
LEMMA ReceiveApart ==
  ASSUME TypeOK, NEW r \in Slots, NEW op, NEW u, NEW v, NEW row,
         NEW pc, pc \notin {"findFriendship", "removeFriendship", "commitBlock"},
         Receive(r, op, pc, u, v, row)
  PROVE  Apart(r)
  BY DEF Receive, Apart, PlacingBlock, TypeOK, HandlersTypeOK

\* Nor does it change a row.
LEMMA ArriveApart ==
  ASSUME TypeOK, NEW r \in Slots, Arrive(r)
  PROVE  Apart(r) /\ UNCHANGED tables
<1>1. CASE FriendRequests(r)
  BY <1>1, ReceiveApart DEF FriendRequests, SendRequest, NameFriendship, Receive
<1>2. CASE BlockRequests(r)
  BY <1>2, ReceiveApart DEF BlockRequests, BlockUser, UnblockUser, Receive
<1>3. CASE MessageRequests(r)
  BY <1>3, ReceiveApart DEF MessageRequests, SendMessage, GetConversation, AnswerRequest,
     Receive
<1> QED BY <1>1, <1>2, <1>3 DEF Arrive

\* An answered request places no block.
LEMMA RespondApart ==
  ASSUME TypeOK, NEW r \in Slots, Respond(r)
  PROVE  Apart(r)
  BY DEF Respond, Apart, PlacingBlock, Idle, TypeOK, HandlersTypeOK

\* Nor does one that goes to a query of another operation.
LEMMA GotoApart ==
  ASSUME TypeOK, NEW r \in Slots, handlers[r].pc # "idle", NEW pc, Goto(r, pc),
         pc \notin {"findFriendship", "removeFriendship", "commitBlock"}
  PROVE  Apart(r)
<1>1. handlers[r] \in Handler
  BY WholeRequest DEF TypeOK
<1> QED BY <1>1 DEF Goto, Apart, PlacingBlock, TypeOK, HandlersTypeOK, Handler

\* resolveSendState leads to no block.
LEMMA ResolvedApart ==
  ASSUME TypeOK, NEW r \in Slots, handlers[r].pc # "idle", NEW state, NEW request,
         Resolved(r, state, request)
  PROVE  Apart(r)
<1>1. handlers[r] \in Handler
  BY WholeRequest DEF TypeOK
<1>2. AfterResolve(handlers[r].op, state) \notin
        {"findFriendship", "removeFriendship", "commitBlock"}
  BY DEF AfterResolve
<1> QED
  BY <1>1, <1>2, RespondApart DEF Resolved, Apart, PlacingBlock, TypeOK, HandlersTypeOK, Handler

\* No message step touches a friendship or a block.
LEMMA MessageStepApart ==
  ASSUME TypeOK, NEW r \in Slots, MessageStep(r)
  PROVE  /\ Apart(r)
         /\ UNCHANGED <<friendships, blocks>>
         /\ nextId' \in {nextId, nextId + 1}
<1> USE DEF At, tables
<1>1. CASE ResolveBlock(r)
  BY <1>1, ResolvedApart, GotoApart DEF ResolveBlock
<1>2. CASE ResolveFriends(r)
  BY <1>2, ResolvedApart, GotoApart DEF ResolveFriends
<1>3. CASE ResolveRequest(r)
  BY <1>3, ResolvedApart DEF ResolveRequest
<1>4. CASE InsertMessage(r)
  BY <1>4, WholeRequest DEF InsertMessage, TakeId, Apart, PlacingBlock, TypeOK,
     HandlersTypeOK, Handler
<1>5. CASE SettleReply(r)
  BY <1>5, GotoApart DEF SettleReply
<1>6. CASE InsertOpening(r)
  BY <1>6, WholeRequest, RespondApart DEF InsertOpening, TakeId, Apart, PlacingBlock, TypeOK,
     HandlersTypeOK, Handler
<1>7. CASE FindPage(r)
  BY <1>7, WholeRequest DEF FindPage, Apart, PlacingBlock, TypeOK, HandlersTypeOK, Handler
<1>8. CASE MarkRead(r)
  BY <1>8, WholeRequest, RespondApart DEF MarkRead, Apart, PlacingBlock, TypeOK,
     HandlersTypeOK, Handler
<1>9. CASE LoadRequest(r)
  BY <1>9, WholeRequest, RespondApart DEF LoadRequest, Apart, PlacingBlock, TypeOK,
     HandlersTypeOK, Handler
<1>10. CASE AnswerSetStatus(r)
  BY <1>10, RespondApart, GotoApart DEF AnswerSetStatus
<1>11. CASE NotifyReply(r) \/ NotifyMessage(r) \/ NotifyOpening(r) \/ NotifyRead(r)
            \/ NotifyRequestAccepted(r)
  BY <1>11, RespondApart DEF NotifyReply, NotifyMessage, NotifyOpening, NotifyRead,
     NotifyRequestAccepted
<1> QED
  BY <1>1, <1>2, <1>3, <1>4, <1>5, <1>6, <1>7, <1>8, <1>9, <1>10, <1>11 DEF MessageStep

-----------------------------------------------------------------------------
\* An inserted friendship is younger than every block, placed or being placed.
LEMMA InsertFriendshipBlock ==
  ASSUME TypeOK, BlockInv, NEW r \in Slots, InsertFriendship(r), nextId' = nextId + 1
  PROVE  BlockInv'
<1> DEFINE u == handlers[r].user
           v == handlers[r].peer
           new == [id |-> nextId, requester |-> u, addressee |-> v, status |-> "pending"]
<1>1. nextId \in Nat
  BY DEF TypeOK, DatabaseTypeOK, RowId
<1>2. /\ PairIsFree(u, v)
      /\ friendships' = friendships \cup {new}
      /\ UNCHANGED blocks
      /\ handlers' = [handlers EXCEPT ![r].pc = "notifyRequest", ![r].row = nextId]
  BY <1>1 DEF InsertFriendship
<1>3. \A f \in friendships : f.id \in Nat /\ FriendPair(f) # FriendPair(new)
  BY <1>2 DEF PairIsFree, FriendshipsBetween, FriendPair, TypeOK, DatabaseTypeOK,
     Friendship, RowId
<1>4. \A b \in blocks : b.id \in Nat
  BY DEF TypeOK, DatabaseTypeOK, Block
<1>5. Apart(r)
  BY <1>2, WholeRequest DEF InsertFriendship, At, Apart, PlacingBlock, TypeOK, HandlersTypeOK,
     Handler
<1>6. \A s \in Slots : PlacingBlock(s)' => Placing(s)'
  BY <1>2, <1>5, StillPlacing
<1>7. \A f, g \in friendships' : FriendPair(f) = FriendPair(g) => f = g
  BY <1>2, <1>3 DEF BlockInv
<1>8. NoFriendshipPredatesBlock'
  BY <1>1, <1>2, <1>3, <1>4 DEF BlockInv, NoFriendshipPredatesBlock
<1> QED
  BY <1>1, <1>2, <1>3, <1>4, <1>6, <1>7, <1>8 DEF BlockInv

\* Accepting changes a row's status, not its pair or its number.
LEMMA CommitAcceptBlock ==
  ASSUME TypeOK, BlockInv, NEW r \in Slots, CommitAccept(r)
  PROVE  BlockInv'
<1> DEFINE image(f) == IF f.id = handlers[r].row THEN [f EXCEPT !.status = "accepted"]
                                                 ELSE f
<1>1. \A f \in friendships : FriendPair(image(f)) = FriendPair(f) /\ image(f).id = f.id
  BY DEF FriendPair, TypeOK, DatabaseTypeOK, Friendship
<1>2. friendships' = {image(f) : f \in friendships} /\ UNCHANGED <<blocks, nextId>>
  BY DEF CommitAccept
<1>3. Apart(r)
  BY GotoApart DEF CommitAccept, At
<1>4. \A s \in Slots : PlacingBlock(s)' => Placing(s)'
  BY <1>1, <1>2, <1>3, StillPlacing
<1>5. \A f, g \in friendships' : FriendPair(f) = FriendPair(g) => f = g
  BY <1>1, <1>2 DEF BlockInv
<1>6. NoFriendshipPredatesBlock'
  BY <1>1, <1>2 DEF BlockInv, NoFriendshipPredatesBlock
<1> QED BY <1>1, <1>2, <1>4, <1>5, <1>6 DEF BlockInv

\* The steps of friendService keep BlockInv.
LEMMA FriendStepBlock ==
  ASSUME TypeOK, BlockInv, NEW r \in Slots, FriendStep(r)
  PROVE  BlockInv'
<1> USE DEF At, tables
<1>1. CASE CheckBlock(r) \/ FindExisting(r) \/ AcceptFriendship(r)
  BY <1>1, RespondApart, GotoApart, Harmless DEF CheckBlock, FindExisting, AcceptFriendship
<1>2. CASE InsertFriendship(r)
  <2>1. CASE Respond(r) /\ UNCHANGED <<friendships, nextId, blocks>>
    BY <2>1, RespondApart, Harmless
  <2>2. CASE nextId' = nextId + 1
    BY <1>2, <2>2, InsertFriendshipBlock
  <2> QED BY <1>2, <2>1, <2>2 DEF InsertFriendship, TakeId
<1>3. CASE NotifyRequest(r) \/ NotifyAccepted(r) \/ NotifyRemoved(r)
  BY <1>3, RespondApart, Harmless DEF NotifyRequest, NotifyAccepted, NotifyRemoved
<1>4. CASE LoadFriendship(r)
  <2>1. CASE ~Respond(r)
    <3>1. PICK f \in LoadedFriendship(r) : handlers' = [handlers EXCEPT
             ![r].peer = OtherParticipant(f, handlers[r].user),
             ![r].pc = IF handlers[r].op = "acceptFriend" THEN "acceptFriendship"
                                                          ELSE "deleteFriendship"]
      BY <1>4, <2>1 DEF LoadFriendship
    <3>2. Apart(r)
      BY <1>4, <3>1, WholeRequest DEF LoadFriendship, Apart, PlacingBlock, TypeOK,
         HandlersTypeOK, Handler
    <3> QED BY <1>4, <3>2, Harmless DEF LoadFriendship
  <2> QED BY <1>4, <2>1, RespondApart, Harmless DEF LoadFriendship
<1>5. CASE SettleRequest(r)
  <2>1. Apart(r)
    BY <1>5, WholeRequest, GotoApart, SMTT(30) DEF SettleRequest, Apart, PlacingBlock,
       TypeOK, HandlersTypeOK, Handler
  <2> QED BY <1>5, <2>1, Harmless DEF SettleRequest
<1>6. CASE CommitAccept(r)
  BY <1>6, CommitAcceptBlock
<1>7. CASE DeleteFriendship(r)
  BY <1>7, GotoApart, Harmless DEF DeleteFriendship
<1> QED BY <1>1, <1>2, <1>3, <1>4, <1>5, <1>6, <1>7 DEF FriendStep

-----------------------------------------------------------------------------
(***************************************************************************)
(* The steps of the transaction that places a block.  The handler r keeps  *)
(* the block it is placing, so for the others only the tables matter.      *)
(***************************************************************************)
LEMMA StillPlacingOthers ==
  ASSUME TypeOK, BlockInv, NEW r \in Slots, PlacingBlock(r),
         \A s \in Slots \ {r} : handlers'[s] = handlers[s],
         handlers'[r].user = handlers[r].user, handlers'[r].peer = handlers[r].peer,
         UNCHANGED tables,
         NEW s \in Slots \ {r}, PlacingBlock(s)'
  PROVE  Placing(s)'
<1>1. handlers'[s] = handlers[s] /\ PlacingBlock(s) /\ Placing(s)
  BY DEF PlacingBlock, BlockInv
<1>2. ASSUME NEW t \in Slots \ {s}, PlacingBlock(t)'
      PROVE  <<handlers'[t].user, handlers'[t].peer>> #
               <<handlers'[s].user, handlers'[s].peer>>
  <2>1. CASE t = r
    BY <1>1, <2>1 DEF Placing
  <2>2. CASE t # r
    BY <1>1, <1>2, <2>2 DEF Placing, PlacingBlock
  <2> QED BY <2>1, <2>2
<1> QED
  BY <1>1, <1>2 DEF Placing, Between, tables, FriendPair

\* Inserting the block: nobody else places it, and its number is the newest.
LEMMA InsertBlockPlaces ==
  ASSUME TypeOK, BlockInv, NEW r \in Slots, InsertBlock(r),
         OwnBlock(r) = {}
  PROVE  BlockInv'
<1>1. /\ handlers' = [handlers EXCEPT ![r].pc = "findFriendship", ![r].ref = nextId]
      /\ nextId' = nextId + 1 /\ UNCHANGED <<friendships, blocks>>
      /\ nextId \in Nat
  BY DEF InsertBlock, TakeId, TypeOK, DatabaseTypeOK, RowId
<1>2. handlers[r] \in Handler /\ ~PlacingBlock(r)
  BY WholeRequest DEF TypeOK, InsertBlock, At, PlacingBlock
<1>3. /\ handlers'[r].pc = "findFriendship" /\ handlers'[r].ref = nextId
      /\ handlers'[r].user = handlers[r].user /\ handlers'[r].peer = handlers[r].peer
      /\ \A s \in Slots \ {r} : handlers'[s] = handlers[s]
  BY <1>1, <1>2 DEF Handler, TypeOK, HandlersTypeOK
<1>4. \A f \in friendships : f.id \in Nat
  BY DEF TypeOK, DatabaseTypeOK, Friendship, RowId
<1>5. \A b \in blocks : b.id \in Nat
  BY DEF TypeOK, DatabaseTypeOK, Block
<1>6. \A s \in Slots \ {r} : PlacingBlock(s) =>
        <<handlers[s].user, handlers[s].peer>> # <<handlers[r].user, handlers[r].peer>>
  BY DEF InsertBlock, BlockLocked, At, PlacingBlock
<1>7. \A b \in blocks :
        <<b.blocker, b.blocked>> # <<handlers[r].user, handlers[r].peer>>
  BY DEF OwnBlock
<1>8. Placing(r)'
  <2>1. (handlers[r].ref < nextId)' /\ \A f \in friendships' : f.id # handlers'[r].ref
    <3>1. \A f \in friendships : f.id < nextId
      BY DEF BlockInv
    <3>2. nextId < nextId' /\ friendships' = friendships
      BY <1>1
    <3>3. \A f \in friendships : f.id # nextId
      BY <1>1, <1>4, <3>1
    <3> QED BY <1>3, <3>2, <3>3
  <2>2. ASSUME NEW s \in Slots \ {r}, PlacingBlock(s)'
        PROVE  <<handlers'[s].user, handlers'[s].peer>> #
                 <<handlers'[r].user, handlers'[r].peer>>
    BY <1>3, <1>6, <2>2 DEF PlacingBlock
  <2>3. \A b \in blocks' :
          <<b.blocker, b.blocked>> # <<handlers'[r].user, handlers'[r].peer>>
    BY <1>1, <1>3, <1>7
  <2> QED BY <1>3, <2>1, <2>2, <2>3 DEF Placing
<1>9. ASSUME NEW s \in Slots \ {r}, PlacingBlock(s)'
      PROVE  Placing(s)'
  <2>1. handlers'[s] = handlers[s] /\ PlacingBlock(s) /\ Placing(s)
    BY <1>3, <1>9 DEF PlacingBlock, BlockInv
  <2>2. handlers[s].ref \in Nat
    BY <2>1, WholeRequest DEF PlacingBlock, TypeOK, Handler
  <2>3. ASSUME NEW t \in Slots \ {s}, PlacingBlock(t)'
        PROVE  <<handlers'[t].user, handlers'[t].peer>> #
                 <<handlers'[s].user, handlers'[s].peer>>
    BY <1>3, <1>6, <2>1, <2>3 DEF Placing, PlacingBlock
  <2>4. (handlers[s].ref < nextId)'
    BY <1>1, <2>1, <2>2 DEF Placing
  <2>5. \A f \in friendships' : FriendPair(f)' = FriendPair(f)
    BY DEF FriendPair
  <2>6. /\ \A f \in friendships' : f.id # handlers'[s].ref
        /\ \A b \in blocks' :
             <<b.blocker, b.blocked>> # <<handlers'[s].user, handlers'[s].peer>>
        /\ handlers'[s].pc # "findFriendship" =>
             \A f \in friendships' : FriendPair(f) = Between(s)' /\ f.id < handlers'[s].ref
                                     => f.id = handlers'[s].row
    BY <1>1, <2>1 DEF Placing, Between
  <2> QED
    BY <2>3, <2>4, <2>5, <2>6 DEF Placing
<1>10. \A s \in Slots : PlacingBlock(s)' => Placing(s)'
  BY <1>8, <1>9
<1>11. NoFriendshipPredatesBlock'
  BY <1>1 DEF BlockInv, NoFriendshipPredatesBlock, FriendPair, BlockPair
<1> QED
  BY <1>1, <1>4, <1>5, <1>10, <1>11 DEF BlockInv, FriendPair

\* Looking up the friendship: the one found is the only one of the pair.
LEMMA FindFriendshipPlaces ==
  ASSUME TypeOK, BlockInv, NEW r \in Slots, FindFriendship(r)
  PROVE  BlockInv'
<1>1. handlers[r] \in Handler /\ PlacingBlock(r) /\ Placing(r)
  BY WholeRequest DEF TypeOK, FindFriendship, At, PlacingBlock, BlockInv
<1>2. /\ handlers'[r].user = handlers[r].user /\ handlers'[r].peer = handlers[r].peer
      /\ handlers'[r].ref = handlers[r].ref
      /\ \A s \in Slots \ {r} : handlers'[s] = handlers[s]
      /\ UNCHANGED tables
  BY <1>1 DEF FindFriendship, Goto, Handler, TypeOK, HandlersTypeOK
<1>3. \A f \in friendships : FriendPair(f) = Between(r) => f.id = handlers'[r].row
  <2>1. \A f \in friendships : FriendPair(f) = Between(r) =>
          f \in ToPart(handlers[r].user, handlers[r].peer)
    BY DEF Between, ToPart, FriendshipsBetween
  <2>2. CASE ToPart(handlers[r].user, handlers[r].peer) = {}
    BY <2>1, <2>2
  <2>3. CASE \E f \in ToPart(handlers[r].user, handlers[r].peer) :
               handlers' = [handlers EXCEPT ![r].pc = "removeFriendship",
                                            ![r].row = f.id]
    <3>1. PICK f \in ToPart(handlers[r].user, handlers[r].peer) :
                 handlers' = [handlers EXCEPT ![r].pc = "removeFriendship",
                                              ![r].row = f.id]
      BY <2>3
    <3>2. handlers'[r].row = f.id
      BY <1>1, <3>1 DEF Handler, TypeOK, HandlersTypeOK
    <3>3. f \in friendships /\ FriendPair(f) = Between(r)
      BY DEF ToPart, FriendshipsBetween, Between
    <3> QED BY <3>2, <3>3 DEF BlockInv
  <2> QED BY <2>2, <2>3 DEF FindFriendship
<1>4. Placing(r)'
  BY <1>1, <1>2, <1>3 DEF Placing, Between, FriendPair, tables, PlacingBlock
<1>5. \A s \in Slots : PlacingBlock(s)' => Placing(s)'
  BY <1>1, <1>2, <1>4, StillPlacingOthers
<1> QED
  BY <1>2, <1>5 DEF BlockInv, NoFriendshipPredatesBlock, FriendPair, BlockPair, tables

\* Deleting it, still uncommitted, changes nothing but the step r is at.
LEMMA RemoveFriendshipPlaces ==
  ASSUME TypeOK, BlockInv, NEW r \in Slots, RemoveFriendship(r)
  PROVE  BlockInv'
<1>1. handlers[r] \in Handler /\ PlacingBlock(r) /\ Placing(r)
  BY WholeRequest DEF TypeOK, RemoveFriendship, At, PlacingBlock, BlockInv
<1>2. /\ handlers'[r].user = handlers[r].user /\ handlers'[r].peer = handlers[r].peer
      /\ handlers'[r].ref = handlers[r].ref /\ handlers'[r].row = handlers[r].row
      /\ \A s \in Slots \ {r} : handlers'[s] = handlers[s]
      /\ UNCHANGED tables
  BY <1>1 DEF RemoveFriendship, Goto, Handler, TypeOK, HandlersTypeOK
<1>3. handlers[r].pc # "findFriendship"
  BY DEF RemoveFriendship, At
<1>4. Placing(r)'
  BY <1>1, <1>2, <1>3 DEF Placing, Between, FriendPair, tables, PlacingBlock
<1>5. \A s \in Slots : PlacingBlock(s)' => Placing(s)'
  BY <1>1, <1>2, <1>4, StillPlacingOthers
<1> QED
  BY <1>2, <1>5 DEF BlockInv, NoFriendshipPredatesBlock, FriendPair, BlockPair, tables

(***************************************************************************)
(* COMMIT: the block appears, and what is left of the pair's friendships   *)
(* is younger, because the row that was found goes with the same commit.   *)
(***************************************************************************)
LEMMA CommitBlockBlock ==
  ASSUME TypeOK, BlockInv, NEW r \in Slots, CommitBlock(r)
  PROVE  BlockInv'
<1> DEFINE new == [id |-> handlers[r].ref, blocker |-> handlers[r].user,
                   blocked |-> handlers[r].peer]
<1>1. /\ handlers[r] \in Handler /\ PlacingBlock(r) /\ Placing(r)
      /\ handlers[r].pc # "findFriendship"
  BY WholeRequest DEF TypeOK, CommitBlock, At, PlacingBlock, BlockInv
<1>2. /\ blocks' = blocks \cup {new}
      /\ friendships' = {f \in friendships : f.id # handlers[r].row}
      /\ nextId' = nextId /\ nextId \in Nat /\ handlers[r].ref \in Nat
  BY <1>1 DEF CommitBlock, TypeOK, DatabaseTypeOK, RowId, Handler
<1>3. Apart(r)
  BY RespondApart, GotoApart DEF CommitBlock, At
<1>4. \A f \in friendships : f.id \in Nat
  BY DEF TypeOK, DatabaseTypeOK, Friendship, RowId
<1>5. ASSUME NEW s \in Slots, PlacingBlock(s)'
      PROVE  Placing(s)'
  <2>1. /\ s # r /\ handlers'[s] = handlers[s] /\ PlacingBlock(s) /\ Placing(s)
    BY <1>3, <1>5 DEF Apart, PlacingBlock, BlockInv
  <2>2. ASSUME NEW t \in Slots \ {s}, PlacingBlock(t)'
        PROVE  <<handlers'[t].user, handlers'[t].peer>> #
                 <<handlers'[s].user, handlers'[s].peer>>
    BY <1>3, <2>1, <2>2 DEF Apart, Placing, PlacingBlock
  <2>3. <<handlers[s].user, handlers[s].peer>> # <<handlers[r].user, handlers[r].peer>>
    BY <1>1, <2>1 DEF Placing
  <2>4. \A b \in blocks' :
          <<b.blocker, b.blocked>> # <<handlers'[s].user, handlers'[s].peer>>
    <3>1. \A b \in blocks :
            <<b.blocker, b.blocked>> # <<handlers[s].user, handlers[s].peer>>
      BY <2>1 DEF Placing
    <3> QED BY <1>2, <2>1, <2>3, <3>1
  <2>5. \A f \in friendships' : FriendPair(f)' = FriendPair(f) /\ f \in friendships
    BY <1>2 DEF FriendPair
  <2>6. /\ (handlers[s].ref < nextId)'
        /\ \A f \in friendships' : f.id # handlers'[s].ref
        /\ handlers'[s].pc # "findFriendship" =>
             \A f \in friendships' : FriendPair(f) = Between(s)' /\ f.id < handlers'[s].ref
                                     => f.id = handlers'[s].row
    BY <1>2, <2>1 DEF Placing, Between
  <2> QED BY <2>2, <2>4, <2>5, <2>6 DEF Placing
<1>6. \A b \in blocks : b.blocker # new.blocker \/ b.blocked # new.blocked
  BY <1>1 DEF Placing
<1>7. \A b, c \in blocks' : b.blocker = c.blocker /\ b.blocked = c.blocked => b = c
  BY <1>2, <1>6 DEF BlockInv
<1>8. \A b \in blocks' : b.id < nextId'
  BY <1>1, <1>2 DEF BlockInv, Placing
<1>9. NoFriendshipPredatesBlock'
  <2>1. \A f \in friendships' : FriendPair(f) = Between(r) => f.id > handlers[r].ref
    BY <1>1, <1>2, <1>4 DEF Placing
  <2>2. BlockPair(new) = Between(r) /\ new.id = handlers[r].ref
    BY DEF BlockPair, Between
  <2>3. \A f \in friendships', b \in blocks : FriendPair(f) = BlockPair(b) => f.id > b.id
    BY <1>2 DEF BlockInv, NoFriendshipPredatesBlock
  <2> QED
    BY <1>2, <2>1, <2>2, <2>3 DEF NoFriendshipPredatesBlock, FriendPair, BlockPair
<1> QED
  BY <1>2, <1>5, <1>7, <1>8, <1>9 DEF BlockInv, FriendPair

\* The steps of blockService keep BlockInv.
LEMMA BlockStepBlock ==
  ASSUME TypeOK, BlockInv, NEW r \in Slots, BlockStep(r)
  PROVE  BlockInv'
<1> USE DEF At, tables
<1>1. CASE InsertBlock(r)
  <2>1. CASE OwnBlock(r) = {}
    BY <1>1, <2>1, InsertBlockPlaces
  <2>2. CASE OwnBlock(r) # {}
    BY <1>1, <2>2, RespondApart, Harmless DEF InsertBlock
  <2> QED BY <2>1, <2>2
<1>2. CASE FindFriendship(r)
  BY <1>2, FindFriendshipPlaces
<1>3. CASE RemoveFriendship(r)
  BY <1>3, RemoveFriendshipPlaces
<1>4. CASE CommitBlock(r)
  BY <1>4, CommitBlockBlock
<1>5. CASE RemoveBlock(r)
  BY <1>5, RespondApart, Harmless DEF RemoveBlock
<1> QED BY <1>1, <1>2, <1>3, <1>4, <1>5 DEF BlockStep

-----------------------------------------------------------------------------
\* There is no row and nobody is placing a block.
LEMMA InitBlock == Init => BlockInv
  BY DEF Init, DatabaseInit, HandlersInit, BlockInv, NoFriendshipPredatesBlock,
     PlacingBlock, Idle

\* Every step keeps BlockInv.
LEMMA NextBlock == TypeOK /\ BlockInv /\ [Next]_vars => BlockInv'
<1> SUFFICES ASSUME TypeOK, BlockInv, [Next]_vars
             PROVE  BlockInv'
  OBVIOUS
<1>1. CASE UNCHANGED vars
  BY <1>1 DEF vars, tables, BlockInv, NoFriendshipPredatesBlock, PlacingBlock, Placing,
     Between, FriendPair, BlockPair
<1>2. ASSUME NEW r \in Slots, Arrive(r)
      PROVE  BlockInv'
  BY <1>2, ArriveApart, Harmless DEF tables
<1>3. ASSUME NEW r \in Slots, Fail(r) \/ RejectInsert(r)
      PROVE  BlockInv'
  BY <1>3, RespondApart, Harmless DEF Fail, RejectInsert, tables
<1>4. ASSUME NEW r \in Slots, MessageStep(r)
      PROVE  BlockInv'
  BY <1>4, MessageStepApart, Harmless
<1> QED
  BY <1>1, <1>2, <1>3, <1>4, FriendStepBlock, BlockStepBlock DEF Next, Step

(***************************************************************************)
(* What the placing of a block knows stays true until it commits, whatever *)
(* the other handlers do in between.                                       *)
(***************************************************************************)
THEOREM BlockInvariant == Spec => []BlockInv
<1>1. TypeOK /\ BlockInv /\ [Next]_vars => BlockInv'
  BY NextBlock
<1> QED BY InitBlock, <1>1, TypeCorrect, PTL DEF Spec

(***************************************************************************)
(* blockService.blockUser: no friendship outlives a block placed on its    *)
(* pair; one found beside a block was inserted after it.                   *)
(***************************************************************************)
THEOREM FriendshipsYoungerThanBlocks == Spec => []NoFriendshipPredatesBlock
<1>1. BlockInv => NoFriendshipPredatesBlock
  BY DEF BlockInv
<1> QED BY <1>1, BlockInvariant, PTL

-----------------------------------------------------------------------------
(***************************************************************************)
(* Consent to receive messages: ConsentInv is inductive, so the rules of   *)
(* the message requests hold for any users, any number of requests in      *)
(* flight and any number of rows.                                          *)
(***************************************************************************)

\* The handlers other than r stay as they are.
OnlyMoves(r) == \A s \in Slots \ {r} : handlers'[s] = handlers[s]

\* StillJustified asks nothing of a handler at such a query.
Unburdened(r) ==
  handlers[r].pc \notin {"findPage", "resolveBlock", "resolveFriends", "resolveRequest",
                         "insertMessage", "insertOpening", "markRead", "loadFriendship",
                         "acceptFriendship", "settleRequest", "commitAccept"}

(***************************************************************************)
(* How the tables may change: approvals and approaches stay on record, or  *)
(* the two become friends, and rows keep their number and their pair.      *)
(***************************************************************************)
RecordGrows ==
  /\ befriended \subseteq befriended'
  /\ nextId' \in {nextId, nextId + 1}
  /\ \A q \in messageRequests :
       \/ RequestPair(q) \in befriended'
       \/ \E p \in messageRequests' :
            /\ p.id = q.id /\ p.requester = q.requester /\ p.recipient = q.recipient
            /\ q.status = "accepted" => p.status = "accepted"
  /\ \A p \in messageRequests' :
       p.id = nextId \/ \E q \in messageRequests : q.id = p.id /\ RequestPair(q) = RequestPair(p)
  /\ \A f \in friendships' :
       f.id = nextId \/ \E g \in friendships : g.id = f.id /\ FriendPair(g) = FriendPair(f)

\* What a handler relies on outlives the steps of the others.
LEMMA StaysJustified ==
  ASSUME TypeOK, ConsentInv, RecordGrows, NEW s \in Slots,
         handlers'[s] = handlers[s], handlers[s].pc # "idle"
  PROVE  StillJustified(s)'
<1> DEFINE u == handlers[s].user
           v == handlers[s].peer
<1>1. StillJustified(s) /\ handlers[s] \in Handler
  BY WholeRequest DEF ConsentInv, TypeOK
<1>2. nextId \in Nat /\ nextId' \in Nat /\ nextId <= nextId'
  BY DEF RecordGrows, TypeOK, DatabaseTypeOK, RowId
<1>3. handlers[s].row \in Nat /\ handlers[s].ref \in Nat
  BY <1>1 DEF Handler
<1>4. OpenBetween(u, v) =>
        \/ {u, v} \in befriended'
        \/ \E q \in messageRequests' : RequestPair(q) = {u, v} /\ q.status = "accepted"
  <2>1. CASE {u, v} \in befriended
    BY <2>1 DEF RecordGrows
  <2>2. ASSUME NEW q \in messageRequests, RequestPair(q) = {u, v}, q.status = "accepted"
        PROVE  \/ {u, v} \in befriended'
               \/ \E p \in messageRequests' : RequestPair(p) = {u, v} /\ p.status = "accepted"
    BY <2>2 DEF RequestPair, RecordGrows
  <2> QED BY <2>1, <2>2 DEF OpenBetween, RequestsBetween
<1>5. ApproachedBy(u, v) =>
        \/ {u, v} \in befriended'
        \/ \E q \in messageRequests' : RequestPair(q) = {u, v} /\ q.recipient = u
  BY DEF ApproachedBy, RequestsBetween, RequestPair, RecordGrows
<1>6. handlers[s].pc = "insertMessage" => OpenBetween(u, v)' \/ ApproachedBy(u, v)'
  BY <1>1, <1>4, <1>5 DEF StillJustified, OpenBetween, ApproachedBy, RequestsBetween,
     RequestPair
<1>7. handlers[s].pc = "markRead" => OpenBetween(u, v)'
  BY <1>1, <1>4 DEF StillJustified, OpenBetween, RequestsBetween, RequestPair
<1>8. Accepting(s) =>
        /\ handlers[s].row < nextId'
        /\ \A f \in friendships' : f.id = handlers[s].row => FriendPair(f) = {u, v}
  BY <1>1, <1>2, <1>3 DEF StillJustified, Between, RecordGrows
<1>9. handlers[s].pc = "commitAccept" =>
        /\ handlers[s].ref < nextId'
        /\ \A q \in messageRequests' : q.id = handlers[s].ref => RequestPair(q) = {u, v}
  BY <1>1, <1>2, <1>3 DEF StillJustified, Between, RecordGrows
<1> QED
  BY <1>1, <1>6, <1>7, <1>8, <1>9 DEF StillJustified, Sending, Accepting, Between,
     FriendPair, RequestPair, OpenBetween, ApproachedBy, RequestsBetween

\* A step of r is accounted for by the rows and by what r relies on next.
LEMMA StepKeepsConsent ==
  ASSUME TypeOK, ConsentInv, NEW r \in Slots, OnlyMoves(r), RecordGrows, OnRecord',
         handlers'[r].pc # "idle" => StillJustified(r)'
  PROVE  ConsentInv'
<1>1. ASSUME NEW s \in Slots, handlers'[s].pc # "idle"
      PROVE  StillJustified(s)'
  <2>1. CASE s = r
    BY <1>1, <2>1
  <2>2. CASE s # r
    BY <1>1, <2>2, StaysJustified DEF OnlyMoves
  <2> QED BY <2>1, <2>2
<1> QED BY <1>1 DEF ConsentInv

\* Nothing is asked of it after the step either.
LEMMA UnburdenedJustified ==
  ASSUME NEW r \in Slots, Unburdened(r)'
  PROVE  StillJustified(r)'
  BY DEF Unburdened, StillJustified, Sending, Accepting

\* Rows that do not change are still on record.
LEMMA SameRecord ==
  ASSUME TypeOK, ConsentInv,
         UNCHANGED <<messageRequests, messages, befriended>>,
         friendships' \subseteq friendships, nextId' \in {nextId, nextId + 1}
  PROVE  RecordGrows /\ OnRecord'
<1>1. RecordGrows
  BY DEF RecordGrows
<1>2. RequestsApart'
  BY DEF ConsentInv, OnRecord, RequestsApart, RequestPair
<1>3. RowsNumbered'
  BY DEF ConsentInv, OnRecord, RowsNumbered, TypeOK, DatabaseTypeOK, MessageRequest,
     Friendship, RowId
<1>4. FriendsRemembered'
  BY DEF ConsentInv, OnRecord, FriendsRemembered, FriendPair
<1>5. MessagesAccountedFor'
  BY DEF ConsentInv, OnRecord, MessagesAccountedFor, RequestPair, MessagePair
<1>6. OneOpeningMessage' /\ NoReceiptBeforeConsent'
  BY DEF ConsentInv, OnRecord, OneOpeningMessage, NoReceiptBeforeConsent, RequestPair,
     MessagePair, RequestsBetween
<1> QED BY <1>1, <1>2, <1>3, <1>4, <1>5, <1>6 DEF OnRecord

-----------------------------------------------------------------------------
(* What the handlers write.                                                *)

\* A decision keeps the row, its pair and every earlier acceptance.
LEMMA SetStatusRecord ==
  ASSUME TypeOK, ConsentInv, NEW i, NEW status \in {"accepted", "declined"},
         SetStatus(i, status), UNCHANGED <<friendships, messages, nextId, befriended>>
  PROVE  RecordGrows /\ OnRecord'
<1> DEFINE decided(q) == IF q.id = i /\ q.status = "pending"
                         THEN [q EXCEPT !.status = status] ELSE q
<1>1. messageRequests' = {decided(q) : q \in messageRequests}
  BY DEF SetStatus, Undecided
<1>2. \A q \in messageRequests :
        /\ decided(q).id = q.id
        /\ decided(q).requester = q.requester /\ decided(q).recipient = q.recipient
        /\ q.status = "accepted" => decided(q).status = "accepted"
  BY DEF TypeOK, DatabaseTypeOK, MessageRequest
<1> HIDE DEF decided
<1>3. \A q \in messageRequests : RequestPair(decided(q)) = RequestPair(q)
  BY <1>2 DEF RequestPair
<1>4. RecordGrows
  BY <1>1, <1>2, <1>3 DEF RecordGrows
<1>5. \A p, q \in messageRequests' : RequestPair(p) = RequestPair(q) => p = q
  BY <1>1, <1>3 DEF ConsentInv, OnRecord, RequestsApart
<1>6. RequestsApart'
  BY <1>5 DEF RequestsApart, RequestPair
<1>7. RowsNumbered'
  BY <1>1, <1>2 DEF ConsentInv, OnRecord, RowsNumbered
<1>8. FriendsRemembered'
  BY DEF ConsentInv, OnRecord, FriendsRemembered, FriendPair
<1>9. \A m \in messages' : \/ MessagePair(m) \in befriended
                           \/ \E q \in messageRequests' : RequestPair(q) = MessagePair(m)
  BY <1>1, <1>3 DEF ConsentInv, OnRecord, MessagesAccountedFor
<1>10. MessagesAccountedFor'
  BY <1>9 DEF MessagesAccountedFor, RequestPair, MessagePair
<1>11. OneOpeningMessage'
  <2>1. SUFFICES ASSUME NEW p \in messageRequests',
                        p.status # "accepted", RequestPair(p) \notin befriended
                 PROVE  \E m \in messages : {n \in messages :
                          n.sender = p.requester /\ n.recipient = p.recipient} = {m}
    BY DEF OneOpeningMessage, RequestPair
  <2>2. PICK q \in messageRequests : p = decided(q)
    BY <1>1
  <2>3. /\ q.status # "accepted" /\ RequestPair(q) \notin befriended
        /\ q.requester = p.requester /\ q.recipient = p.recipient
    BY <1>2, <1>3, <2>1, <2>2
  <2> QED BY <2>3 DEF ConsentInv, OnRecord, OneOpeningMessage
<1>12. NoReceiptBeforeConsent'
  <2>1. SUFFICES ASSUME NEW m \in messages, m.read, MessagePair(m) \notin befriended
                 PROVE  \E p \in messageRequests' :
                          RequestPair(p) = {m.sender, m.recipient} /\ p.status = "accepted"
    BY DEF NoReceiptBeforeConsent, MessagePair, RequestsBetween, RequestPair
  <2>2. PICK q \in messageRequests :
               RequestPair(q) = {m.sender, m.recipient} /\ q.status = "accepted"
    BY <2>1 DEF ConsentInv, OnRecord, NoReceiptBeforeConsent, RequestsBetween
  <2> QED BY <1>1, <1>2, <1>3, <2>2
<1> QED BY <1>4, <1>6, <1>7, <1>8, <1>10, <1>11, <1>12 DEF OnRecord

\* A new friendship has a new number and is not accepted.
LEMMA InsertFriendshipRecord ==
  ASSUME TypeOK, ConsentInv, NEW u \in Users, NEW v \in Users,
         friendships' = friendships \cup
           {[id |-> nextId, requester |-> u, addressee |-> v, status |-> "pending"]},
         nextId' = nextId + 1, UNCHANGED <<messageRequests, messages, befriended>>
  PROVE  RecordGrows /\ OnRecord'
<1>1. nextId \in Nat
  BY DEF TypeOK, DatabaseTypeOK, RowId
<1>2. /\ \A q \in messageRequests : q.id \in Nat
      /\ \A f \in friendships : f.id \in Nat
  BY DEF TypeOK, DatabaseTypeOK, MessageRequest, Friendship, RowId
<1>3. RecordGrows
  BY DEF RecordGrows
<1>4. RequestsApart'
  BY DEF ConsentInv, OnRecord, RequestsApart, RequestPair
<1>5. RowsNumbered'
  BY <1>1, <1>2 DEF ConsentInv, OnRecord, RowsNumbered
<1>6. FriendsRemembered'
  BY DEF ConsentInv, OnRecord, FriendsRemembered, FriendPair
<1>7. MessagesAccountedFor'
  BY DEF ConsentInv, OnRecord, MessagesAccountedFor, RequestPair, MessagePair
<1>8. OneOpeningMessage' /\ NoReceiptBeforeConsent'
  BY DEF ConsentInv, OnRecord, OneOpeningMessage, NoReceiptBeforeConsent, RequestPair,
     MessagePair, RequestsBetween
<1> QED BY <1>3, <1>4, <1>5, <1>6, <1>7, <1>8 DEF OnRecord

\* What may be written: a message of an open conversation, or an answer.
LEMMA InsertMessageRecord ==
  ASSUME TypeOK, ConsentInv, NEW r \in Slots, InsertMessage(r)
  PROVE  RecordGrows /\ OnRecord'
<1> DEFINE u == handlers[r].user
           v == handlers[r].peer
           new == NewMessage(r)
<1>1. /\ messages' = messages \cup {new} /\ nextId' = nextId + 1
      /\ UNCHANGED <<friendships, messageRequests, befriended>>
      /\ nextId \in Nat
  BY DEF InsertMessage, TakeId, TypeOK, DatabaseTypeOK, RowId
<1>2. new.sender = u /\ new.recipient = v /\ ~new.read
  BY DEF NewMessage
<1>3. u # v /\ (OpenBetween(u, v) \/ ApproachedBy(u, v))
  BY DEF InsertMessage, At, ConsentInv, StillJustified, Sending
<1>4. RecordGrows
  BY <1>1 DEF RecordGrows
<1>5. RequestsApart' /\ FriendsRemembered'
  BY <1>1 DEF ConsentInv, OnRecord, RequestsApart, RequestPair, FriendsRemembered, FriendPair
<1>6. RowsNumbered'
  BY <1>1 DEF ConsentInv, OnRecord, RowsNumbered, TypeOK, DatabaseTypeOK, MessageRequest,
     Friendship, RowId
<1>7. \A m \in messages' : \/ MessagePair(m) \in befriended
                           \/ \E q \in messageRequests : RequestPair(q) = MessagePair(m)
  <2>1. {u, v} \in befriended \/ \E q \in messageRequests : RequestPair(q) = {u, v}
    BY <1>3 DEF OpenBetween, ApproachedBy, RequestsBetween
  <2>2. MessagePair(new) = {u, v}
    BY <1>2 DEF MessagePair
  <2> QED BY <1>1, <2>1, <2>2 DEF ConsentInv, OnRecord, MessagesAccountedFor
<1>8. MessagesAccountedFor'
  BY <1>1, <1>7 DEF MessagesAccountedFor, RequestPair, MessagePair
<1>9. OneOpeningMessage'
  <2>1. SUFFICES ASSUME NEW q \in messageRequests,
                        q.status # "accepted", RequestPair(q) \notin befriended
                 PROVE  \E m \in messages' : {n \in messages' :
                          n.sender = q.requester /\ n.recipient = q.recipient} = {m}
    BY <1>1 DEF OneOpeningMessage, RequestPair
  <2>2. PICK m \in messages : {n \in messages :
               n.sender = q.requester /\ n.recipient = q.recipient} = {m}
    BY <2>1 DEF ConsentInv, OnRecord, OneOpeningMessage
  <2>3. ~(q.requester = u /\ q.recipient = v)
    <3>1. SUFFICES ASSUME q.requester = u, q.recipient = v PROVE FALSE
      OBVIOUS
    <3>2. PICK p \in messageRequests :
                 RequestPair(p) = {u, v} /\ (p.status = "accepted" \/ p.recipient = u)
      BY <1>3, <2>1, <3>1 DEF OpenBetween, ApproachedBy, RequestsBetween, RequestPair
    <3>3. p = q
      BY <3>1, <3>2 DEF ConsentInv, OnRecord, RequestsApart, RequestPair
    <3> QED BY <1>3, <2>1, <3>1, <3>2, <3>3
  <2> QED BY <1>1, <1>2, <2>2, <2>3
<1>10. NoReceiptBeforeConsent'
  BY <1>1, <1>2 DEF ConsentInv, OnRecord, NoReceiptBeforeConsent, MessagePair,
     RequestsBetween, RequestPair
<1> QED BY <1>4, <1>5, <1>6, <1>8, <1>9, <1>10 DEF OnRecord

\* The opening message and its request appear together, where there was neither.
LEMMA InsertOpeningRecord ==
  ASSUME TypeOK, ConsentInv, NEW r \in Slots, InsertOpening(r),
         RequestsBetween(handlers[r].user, handlers[r].peer) = {}
  PROVE  RecordGrows /\ OnRecord'
<1> DEFINE u == handlers[r].user
           v == handlers[r].peer
           new == NewMessage(r)
           asked == [id |-> nextId, requester |-> u, recipient |-> v, status |-> "pending"]
<1>1. /\ messages' = messages \cup {new} /\ nextId' = nextId + 1
      /\ messageRequests' = messageRequests \cup {asked}
      /\ UNCHANGED <<friendships, befriended>>
      /\ nextId \in Nat
  BY DEF InsertOpening, TakeId, TypeOK, DatabaseTypeOK, RowId
<1>2. /\ new.sender = u /\ new.recipient = v /\ ~new.read
      /\ MessagePair(new) = {u, v} /\ RequestPair(asked) = {u, v}
  BY DEF NewMessage, MessagePair, RequestPair
<1>3. \A q \in messageRequests : q.id \in Nat /\ RequestPair(q) # {u, v}
  BY DEF TypeOK, DatabaseTypeOK, MessageRequest, RowId, RequestsBetween
<1>4. RecordGrows
  BY <1>1 DEF RecordGrows
<1>5. \A p, q \in messageRequests' : RequestPair(p) = RequestPair(q) => p = q
  BY <1>1, <1>2, <1>3 DEF ConsentInv, OnRecord, RequestsApart
<1>6. RequestsApart' /\ FriendsRemembered'
  BY <1>1, <1>5 DEF ConsentInv, OnRecord, RequestsApart, RequestPair, FriendsRemembered,
     FriendPair
<1>7. RowsNumbered'
  BY <1>1, <1>3 DEF ConsentInv, OnRecord, RowsNumbered, TypeOK, DatabaseTypeOK,
     Friendship, RowId
<1>8. \A m \in messages' : \/ MessagePair(m) \in befriended
                           \/ \E q \in messageRequests' : RequestPair(q) = MessagePair(m)
  BY <1>1, <1>2 DEF ConsentInv, OnRecord, MessagesAccountedFor
<1>9. MessagesAccountedFor'
  BY <1>1, <1>8 DEF MessagesAccountedFor, RequestPair, MessagePair
<1>10. OneOpeningMessage'
  <2>1. SUFFICES ASSUME NEW q \in messageRequests',
                        q.status # "accepted", RequestPair(q) \notin befriended
                 PROVE  \E m \in messages' : {n \in messages' :
                          n.sender = q.requester /\ n.recipient = q.recipient} = {m}
    BY <1>1 DEF OneOpeningMessage, RequestPair
  <2>2. CASE q = asked
    <3>1. \A m \in messages : MessagePair(m) # {u, v}
      BY <1>2, <1>3, <2>1, <2>2 DEF ConsentInv, OnRecord, MessagesAccountedFor
    <3> QED BY <1>1, <1>2, <2>2, <3>1 DEF MessagePair
  <2>3. CASE q \in messageRequests
    <3>1. PICK m \in messages : {n \in messages :
                 n.sender = q.requester /\ n.recipient = q.recipient} = {m}
      BY <2>1, <2>3 DEF ConsentInv, OnRecord, OneOpeningMessage
    <3>2. ~(q.requester = u /\ q.recipient = v)
      BY <1>3, <2>3 DEF RequestPair
    <3> QED BY <1>1, <1>2, <3>1, <3>2
  <2> QED BY <1>1, <2>2, <2>3
<1>11. NoReceiptBeforeConsent'
  BY <1>1, <1>2 DEF ConsentInv, OnRecord, NoReceiptBeforeConsent, MessagePair,
     RequestsBetween, RequestPair
<1> QED BY <1>4, <1>6, <1>7, <1>9, <1>10, <1>11 DEF OnRecord

\* Marking a conversation read moves no message to another pair.
LEMMA MarkReadRecord ==
  ASSUME TypeOK, ConsentInv, NEW r \in Slots, MarkRead(r)
  PROVE  RecordGrows /\ OnRecord'
<1> DEFINE u == handlers[r].user
           v == handlers[r].peer
           marked(m) == IF m \in ToMark(r) THEN [m EXCEPT !.read = TRUE] ELSE m
<1>1. /\ messages' = {marked(m) : m \in messages}
      /\ UNCHANGED <<friendships, messageRequests, befriended, nextId>>
  BY DEF MarkRead, ToMark, UnreadFrom
<1>2. \A m \in messages :
        /\ marked(m).sender = m.sender /\ marked(m).recipient = m.recipient
        /\ marked(m).read => m.read \/ (m.sender = v /\ m.recipient = u)
  BY DEF ToMark, UnreadFrom, TypeOK, DatabaseTypeOK, Message
<1>3. OpenBetween(u, v)
  BY DEF MarkRead, At, ConsentInv, StillJustified
<1> HIDE DEF marked
<1>4. \A m \in messages : MessagePair(marked(m)) = MessagePair(m)
  BY <1>2 DEF MessagePair
<1>5. RecordGrows
  BY <1>1 DEF RecordGrows
<1>6. RequestsApart' /\ FriendsRemembered' /\ RowsNumbered'
  BY <1>1 DEF ConsentInv, OnRecord, RequestsApart, RequestPair, FriendsRemembered,
     FriendPair, RowsNumbered
<1>7. \A m \in messages' : \/ MessagePair(m) \in befriended
                           \/ \E q \in messageRequests : RequestPair(q) = MessagePair(m)
  BY <1>1, <1>4 DEF ConsentInv, OnRecord, MessagesAccountedFor
<1>8. MessagesAccountedFor'
  BY <1>1, <1>7 DEF MessagesAccountedFor, RequestPair, MessagePair
<1>9. OneOpeningMessage'
  <2>1. SUFFICES ASSUME NEW q \in messageRequests,
                        q.status # "accepted", RequestPair(q) \notin befriended
                 PROVE  \E m \in messages' : {n \in messages' :
                          n.sender = q.requester /\ n.recipient = q.recipient} = {m}
    BY <1>1 DEF OneOpeningMessage, RequestPair
  <2>2. PICK m \in messages : {n \in messages :
               n.sender = q.requester /\ n.recipient = q.recipient} = {m}
    BY <2>1 DEF ConsentInv, OnRecord, OneOpeningMessage
  <2>3. {n \in messages' : n.sender = q.requester /\ n.recipient = q.recipient} = {marked(m)}
    BY <1>1, <1>2, <2>2
  <2> QED BY <1>1, <2>3
<1>10. NoReceiptBeforeConsent'
  <2>1. SUFFICES ASSUME NEW n \in messages', n.read, MessagePair(n) \notin befriended
                 PROVE  \E q \in messageRequests :
                          RequestPair(q) = {n.sender, n.recipient} /\ q.status = "accepted"
    BY <1>1 DEF NoReceiptBeforeConsent, MessagePair, RequestsBetween, RequestPair
  <2>2. PICK m \in messages : n = marked(m)
    BY <1>1
  <2>3. CASE m.read
    BY <1>2, <1>4, <2>1, <2>2, <2>3 DEF ConsentInv, OnRecord, NoReceiptBeforeConsent,
       RequestsBetween
  <2>4. CASE ~m.read
    <3>1. n.sender = v /\ n.recipient = u
      BY <1>2, <2>1, <2>2, <2>4
    <3>2. {u, v} = {n.sender, n.recipient} /\ {u, v} \notin befriended
      BY <2>1, <3>1 DEF MessagePair
    <3> QED BY <1>3, <3>2 DEF OpenBetween, RequestsBetween
  <2> QED BY <2>3, <2>4
<1> QED BY <1>5, <1>6, <1>8, <1>9, <1>10 DEF OnRecord

\* Accepting a friendship deletes the request of that very pair, if any.
LEMMA CommitAcceptRecord ==
  ASSUME TypeOK, ConsentInv, NEW r \in Slots, CommitAccept(r)
  PROVE  RecordGrows /\ OnRecord'
<1> DEFINE uv == Between(r)
           image(f) == IF f.id = handlers[r].row THEN [f EXCEPT !.status = "accepted"]
                                                 ELSE f
<1>1. /\ friendships' = {image(f) : f \in friendships}
      /\ messageRequests' = {q \in messageRequests : q.id # handlers[r].ref}
      /\ befriended' = befriended \cup {uv}
      /\ UNCHANGED <<messages, nextId>>
  BY DEF CommitAccept, Between
<1>2. /\ \A f \in friendships : f.id = handlers[r].row => FriendPair(f) = uv
      /\ \A q \in messageRequests : q.id = handlers[r].ref => RequestPair(q) = uv
  BY DEF CommitAccept, At, ConsentInv, StillJustified, Accepting
<1>3. \A f \in friendships :
        /\ image(f).id = f.id /\ FriendPair(image(f)) = FriendPair(f)
        /\ image(f).status = "accepted" => f.status = "accepted" \/ FriendPair(f) = uv
  BY <1>2 DEF FriendPair, TypeOK, DatabaseTypeOK, Friendship
<1> HIDE DEF image, uv
<1>4. \A q \in messageRequests : q \in messageRequests' \/ RequestPair(q) \in befriended'
  BY <1>1, <1>2
<1>5. RecordGrows
  BY <1>1, <1>3, <1>4 DEF RecordGrows
<1>6. RequestsApart'
  BY <1>1 DEF ConsentInv, OnRecord, RequestsApart, RequestPair
<1>7. RowsNumbered'
  BY <1>1, <1>3 DEF ConsentInv, OnRecord, RowsNumbered
<1>8. \A f \in friendships' : f.status = "accepted" => FriendPair(f) \in befriended'
  BY <1>1, <1>3 DEF ConsentInv, OnRecord, FriendsRemembered
<1>9. FriendsRemembered'
  BY <1>8 DEF FriendsRemembered, FriendPair
<1>10. \A m \in messages : \/ MessagePair(m) \in befriended'
                           \/ \E q \in messageRequests' : RequestPair(q) = MessagePair(m)
  BY <1>1, <1>4 DEF ConsentInv, OnRecord, MessagesAccountedFor
<1>11. MessagesAccountedFor'
  BY <1>1, <1>10 DEF MessagesAccountedFor, RequestPair, MessagePair
<1>12. OneOpeningMessage'
  BY <1>1 DEF ConsentInv, OnRecord, OneOpeningMessage, RequestPair
<1>13. NoReceiptBeforeConsent'
  <2>1. SUFFICES ASSUME NEW m \in messages, m.read, MessagePair(m) \notin befriended'
                 PROVE  \E q \in messageRequests' :
                          RequestPair(q) = {m.sender, m.recipient} /\ q.status = "accepted"
    BY <1>1 DEF NoReceiptBeforeConsent, MessagePair, RequestsBetween, RequestPair
  <2>2. PICK q \in messageRequests :
               RequestPair(q) = {m.sender, m.recipient} /\ q.status = "accepted"
    BY <1>1, <2>1 DEF ConsentInv, OnRecord, NoReceiptBeforeConsent, RequestsBetween
  <2> QED BY <1>4, <2>1, <2>2 DEF MessagePair
<1> QED BY <1>5, <1>6, <1>7, <1>9, <1>11, <1>12, <1>13 DEF OnRecord

-----------------------------------------------------------------------------
(* The steps.                                                              *)

\* A step that changes no row is judged by what r relies on next.
LEMMA QuietStep ==
  ASSUME TypeOK, ConsentInv, NEW r \in Slots, OnlyMoves(r), UNCHANGED tables,
         handlers'[r].pc # "idle" => StillJustified(r)'
  PROVE  ConsentInv'
  BY SameRecord, StepKeepsConsent DEF tables

\* An answered request relies on nothing.
LEMMA RespondMoves ==
  ASSUME TypeOK, NEW r \in Slots, Respond(r)
  PROVE  OnlyMoves(r) /\ handlers'[r].pc = "idle"
  BY DEF Respond, OnlyMoves, Idle, TypeOK, HandlersTypeOK

\* The next query of r sees what r remembered before.
LEMMA GotoMoves ==
  ASSUME TypeOK, NEW r \in Slots, handlers[r].pc # "idle", NEW pc, Goto(r, pc)
  PROVE  /\ OnlyMoves(r)
         /\ handlers'[r] = [handlers[r] EXCEPT !.pc = pc]
         /\ handlers'[r].pc = pc
         /\ handlers'[r].user = handlers[r].user /\ handlers'[r].peer = handlers[r].peer
         /\ handlers'[r].row = handlers[r].row /\ handlers'[r].ref = handlers[r].ref
<1>1. handlers[r] \in Handler
  BY WholeRequest DEF TypeOK
<1> QED BY <1>1 DEF Goto, OnlyMoves, TypeOK, HandlersTypeOK, Handler

\* What an arriving request needs: two different users, or no row in hand.
LEMMA ReceiveConsent ==
  ASSUME TypeOK, ConsentInv, NEW r \in Slots, NEW op, NEW u, NEW v, NEW row, NEW pc,
         pc \in {"checkBlock", "insertBlock", "removeBlock", "loadRequest",
                 "loadFriendship", "resolveBlock", "findPage"},
         pc \in {"resolveBlock", "findPage"} => u # v,
         Receive(r, op, pc, u, v, row)
  PROVE  ConsentInv'
<1>1. /\ OnlyMoves(r) /\ UNCHANGED tables
      /\ handlers'[r].pc = pc /\ handlers'[r].user = u /\ handlers'[r].peer = v
      /\ handlers'[r].ref = NoId
  BY DEF Receive, OnlyMoves, TypeOK, HandlersTypeOK
<1>2. StillJustified(r)'
  BY <1>1 DEF StillJustified, Sending, Accepting
<1> QED BY <1>1, <1>2, QuietStep

\* Every request the services receive arrives justified.
LEMMA ArriveConsent ==
  ASSUME TypeOK, ConsentInv, NEW r \in Slots, Arrive(r)
  PROVE  ConsentInv'
<1>1. CASE FriendRequests(r)
  BY <1>1, ReceiveConsent DEF FriendRequests, SendRequest, NameFriendship
<1>2. CASE BlockRequests(r)
  BY <1>2, ReceiveConsent DEF BlockRequests, BlockUser, UnblockUser
<1>3. CASE MessageRequests(r)
  BY <1>3, ReceiveConsent DEF MessageRequests, SendMessage, GetConversation, AnswerRequest
<1> QED BY <1>1, <1>2, <1>3 DEF Arrive

\* The row that is loaded is the row the rest of the handler acts on.
LEMMA LoadFriendshipConsent ==
  ASSUME TypeOK, ConsentInv, NEW r \in Slots, LoadFriendship(r), ~Respond(r)
  PROVE  ConsentInv'
<1> DEFINE u == handlers[r].user
<1>1. handlers[r] \in Handler /\ StillJustified(r) /\ handlers[r].pc = "loadFriendship"
  BY WholeRequest DEF LoadFriendship, At, TypeOK, ConsentInv
<1>2. PICK f \in LoadedFriendship(r) :
        /\ IF handlers[r].op = "acceptFriend" THEN MayAccept(f, u) ELSE MayDelete(f, u)
        /\ handlers' = [handlers EXCEPT
             ![r].peer = OtherParticipant(f, u),
             ![r].pc = IF handlers[r].op = "acceptFriend" THEN "acceptFriendship"
                                                          ELSE "deleteFriendship"]
  BY DEF LoadFriendship
<1>3. /\ OnlyMoves(r) /\ UNCHANGED tables
      /\ handlers'[r].pc = IF handlers[r].op = "acceptFriend" THEN "acceptFriendship"
                                                              ELSE "deleteFriendship"
      /\ handlers'[r].user = u /\ handlers'[r].peer = OtherParticipant(f, u)
      /\ handlers'[r].row = handlers[r].row /\ handlers'[r].ref = NoId
  BY <1>1, <1>2 DEF LoadFriendship, OnlyMoves, TypeOK, HandlersTypeOK, Handler, StillJustified
<1>4. CASE handlers[r].op # "acceptFriend"
  BY <1>3, <1>4, UnburdenedJustified, QuietStep DEF Unburdened
<1>5. CASE handlers[r].op = "acceptFriend"
  <2>1. f \in friendships /\ f.id = handlers[r].row
    BY DEF LoadedFriendship
  <2>2. FriendPair(f) = {u, OtherParticipant(f, u)}
    BY <1>2, <1>5 DEF MayAccept, OtherParticipant, FriendPair
  <2>3. handlers[r].row < nextId
    BY <2>1 DEF ConsentInv, OnRecord, RowsNumbered
  <2>4. \A g \in friendships : g.id = handlers[r].row => FriendPair(g) = FriendPair(f)
    BY <2>1 DEF ConsentInv, OnRecord, RowsNumbered
  <2>5. StillJustified(r)'
    BY <1>3, <1>5, <2>2, <2>3, <2>4 DEF StillJustified, Sending, Accepting, Between, tables,
       FriendPair
  <2> QED BY <1>3, <2>5, QuietStep
<1> QED BY <1>4, <1>5

\* The request about to be deleted is one of this pair.
LEMMA SettleRequestConsent ==
  ASSUME TypeOK, ConsentInv, NEW r \in Slots, SettleRequest(r)
  PROVE  ConsentInv'
<1> DEFINE u == handlers[r].user
           v == handlers[r].peer
<1>1. handlers[r] \in Handler /\ StillJustified(r) /\ handlers[r].pc = "settleRequest"
  BY WholeRequest DEF SettleRequest, At, TypeOK, ConsentInv
<1>2. /\ handlers[r].ref = NoId /\ handlers[r].row < nextId
      /\ \A f \in friendships : f.id = handlers[r].row => FriendPair(f) = Between(r)
  BY <1>1 DEF StillJustified, Accepting
<1>3. /\ OnlyMoves(r) /\ UNCHANGED tables /\ handlers'[r].pc = "commitAccept"
      /\ handlers'[r].user = u /\ handlers'[r].peer = v
      /\ handlers'[r].row = handlers[r].row
      /\ \/ handlers'[r].ref = NoId
         \/ \E q \in PendingBetween(u, v) : handlers'[r].ref = q.id
  <2>1. CASE Goto(r, "commitAccept")
    BY <1>1, <1>2, <2>1, GotoMoves DEF SettleRequest
  <2>2. CASE ~Goto(r, "commitAccept")
    <3>1. PICK q \in PendingBetween(u, v) :
                 handlers' = [handlers EXCEPT ![r].pc = "commitAccept", ![r].ref = q.id]
      BY <2>2 DEF SettleRequest
    <3> QED BY <1>1, <3>1 DEF SettleRequest, OnlyMoves, TypeOK, HandlersTypeOK, Handler
  <2> QED BY <2>1, <2>2
<1>4. /\ handlers'[r].ref < nextId
      /\ \A q \in messageRequests : q.id = handlers'[r].ref => RequestPair(q) = {u, v}
  <2>1. CASE handlers'[r].ref = NoId
    BY <2>1 DEF NoId, TypeOK, DatabaseTypeOK, MessageRequest, RowId
  <2>2. ASSUME NEW q \in PendingBetween(u, v), handlers'[r].ref = q.id
        PROVE  /\ handlers'[r].ref < nextId
               /\ \A p \in messageRequests : p.id = handlers'[r].ref => RequestPair(p) = {u, v}
    BY <2>2 DEF PendingBetween, RequestsBetween, ConsentInv, OnRecord, RowsNumbered
  <2> QED BY <1>3, <2>1, <2>2
<1>5. StillJustified(r)'
  BY <1>2, <1>3, <1>4 DEF StillJustified, Sending, Accepting, Between, tables, FriendPair,
     RequestPair
<1> QED BY <1>3, <1>5, QuietStep

\* The steps of friendService keep ConsentInv.
LEMMA FriendStepConsent ==
  ASSUME TypeOK, ConsentInv, NEW r \in Slots, FriendStep(r)
  PROVE  ConsentInv'
<1> USE DEF At
<1>1. CASE CheckBlock(r) \/ FindExisting(r)
  <2>1. Respond(r) \/ Goto(r, "findExisting") \/ Goto(r, "insertFriendship")
    BY <1>1 DEF CheckBlock, FindExisting
  <2>2. OnlyMoves(r) /\ handlers'[r].pc \in {"idle", "findExisting", "insertFriendship"}
    BY <1>1, <2>1, RespondMoves, GotoMoves DEF CheckBlock, FindExisting
  <2> QED BY <1>1, <2>2, UnburdenedJustified, QuietStep DEF CheckBlock, FindExisting, Unburdened
<1>8. CASE NotifyRequest(r) \/ NotifyAccepted(r) \/ NotifyRemoved(r)
  BY <1>8, RespondMoves, QuietStep DEF NotifyRequest, NotifyAccepted, NotifyRemoved
<1>2. CASE InsertFriendship(r)
  <2>1. CASE Respond(r) /\ UNCHANGED tables
    BY <2>1, RespondMoves, QuietStep
  <2>2. CASE ~(Respond(r) /\ UNCHANGED tables)
    <3>1. /\ handlers[r] \in Handler
          /\ handlers' = [handlers EXCEPT ![r].pc = "notifyRequest", ![r].row = nextId]
      BY <1>2, <2>2, WholeRequest DEF InsertFriendship, TypeOK, tables
    <3>2. OnlyMoves(r) /\ handlers'[r].pc = "notifyRequest"
      BY <3>1 DEF OnlyMoves, TypeOK, HandlersTypeOK, Handler
    <3>3. RecordGrows /\ OnRecord'
      BY <1>2, <2>2, <3>1, InsertFriendshipRecord DEF InsertFriendship, TakeId, Handler, tables
    <3> QED BY <3>2, <3>3, UnburdenedJustified, StepKeepsConsent DEF Unburdened
  <2> QED BY <2>1, <2>2
<1>3. CASE LoadFriendship(r)
  BY <1>3, LoadFriendshipConsent, RespondMoves, QuietStep DEF LoadFriendship
<1>4. CASE AcceptFriendship(r)
  <2>1. CASE Respond(r)
    BY <1>4, <2>1, RespondMoves, QuietStep DEF AcceptFriendship
  <2>2. CASE ~Respond(r)
    <3>1. /\ OnlyMoves(r) /\ UNCHANGED tables /\ handlers'[r].pc = "settleRequest"
          /\ handlers'[r].user = handlers[r].user /\ handlers'[r].peer = handlers[r].peer
          /\ handlers'[r].row = handlers[r].row /\ handlers'[r].ref = handlers[r].ref
      BY <1>4, <2>2, GotoMoves DEF AcceptFriendship
    <3>2. StillJustified(r) /\ handlers[r].pc = "acceptFriendship"
      BY <1>4 DEF AcceptFriendship, ConsentInv
    <3>3. StillJustified(r)'
      BY <3>1, <3>2 DEF StillJustified, Sending, Accepting, Between, tables, FriendPair
    <3> QED BY <3>1, <3>3, QuietStep
  <2> QED BY <2>1, <2>2
<1>5. CASE SettleRequest(r)
  BY <1>5, SettleRequestConsent
<1>6. CASE CommitAccept(r)
  <2>1. OnlyMoves(r) /\ handlers'[r].pc = "notifyAccepted"
    BY <1>6, GotoMoves DEF CommitAccept
  <2>2. RecordGrows /\ OnRecord'
    BY <1>6, CommitAcceptRecord
  <2>3. StillJustified(r)'
    BY <2>1, UnburdenedJustified DEF Unburdened
  <2> QED BY <2>1, <2>2, <2>3, StepKeepsConsent
<1>7. CASE DeleteFriendship(r)
  <2>1. OnlyMoves(r) /\ handlers'[r].pc = "notifyRemoved"
    BY <1>7, GotoMoves DEF DeleteFriendship
  <2>2. RecordGrows /\ OnRecord'
    BY <1>7, SameRecord DEF DeleteFriendship
  <2>3. StillJustified(r)'
    BY <2>1, UnburdenedJustified DEF Unburdened
  <2> QED BY <2>1, <2>2, <2>3, StepKeepsConsent
<1> QED BY <1>1, <1>2, <1>3, <1>4, <1>5, <1>6, <1>7, <1>8 DEF FriendStep

\* Blocking only removes friendships, and its handler relies on no consent.
LEMMA BlockStepConsent ==
  ASSUME TypeOK, ConsentInv, NEW r \in Slots, BlockStep(r)
  PROVE  ConsentInv'
<1>1. handlers[r].pc # "idle" /\ handlers[r] \in Handler
  BY WholeRequest DEF BlockStep, InsertBlock, FindFriendship, RemoveFriendship, CommitBlock,
     RemoveBlock, At, TypeOK
<1>2. /\ OnlyMoves(r)
      /\ handlers'[r].pc \in {"idle", "findFriendship", "removeFriendship", "commitBlock",
                              "notifyRemoved"}
  <2>1. CASE InsertBlock(r)
    <3>1. CASE Respond(r)
      BY <3>1, RespondMoves
    <3>2. CASE ~Respond(r)
      BY <1>1, <2>1, <3>2 DEF InsertBlock, OnlyMoves, TypeOK, HandlersTypeOK, Handler
    <3> QED BY <3>1, <3>2
  <2>2. CASE FindFriendship(r)
    <3>1. CASE Goto(r, "commitBlock")
      BY <1>1, <3>1, GotoMoves
    <3>2. CASE ~Goto(r, "commitBlock")
      BY <1>1, <2>2, <3>2 DEF FindFriendship, OnlyMoves, TypeOK, HandlersTypeOK, Handler
    <3> QED BY <3>1, <3>2
  <2>3. CASE RemoveFriendship(r) \/ CommitBlock(r) \/ RemoveBlock(r)
    BY <1>1, <2>3, RespondMoves, GotoMoves DEF RemoveFriendship, CommitBlock, RemoveBlock
  <2> QED BY <2>1, <2>2, <2>3 DEF BlockStep
<1>3. /\ UNCHANGED <<messageRequests, messages, befriended>>
      /\ friendships' \subseteq friendships /\ nextId' \in {nextId, nextId + 1}
  BY DEF BlockStep, InsertBlock, FindFriendship, RemoveFriendship, CommitBlock,
     RemoveBlock, TakeId, tables
<1> QED
  BY <1>2, <1>3, SameRecord, UnburdenedJustified, StepKeepsConsent DEF Unburdened

(***************************************************************************)
(* resolveSendState: when it answers "open" the two have been friends or   *)
(* their request is accepted, when it answers "reply_accepts" the caller   *)
(* has been approached, and in no other state is anything but an opening   *)
(* message written or anything marked.                                     *)
(***************************************************************************)
LEMMA ResolvedConsent ==
  ASSUME TypeOK, ConsentInv, NEW r \in Slots, UNCHANGED tables,
         handlers[r].pc \in {"resolveBlock", "resolveFriends", "resolveRequest"},
         NEW state, NEW request, Resolved(r, state, request),
         state = "open" => OpenBetween(handlers[r].user, handlers[r].peer),
         state = "reply_accepts" => ApproachedBy(handlers[r].user, handlers[r].peer)
  PROVE  ConsentInv'
<1> DEFINE next == AfterResolve(handlers[r].op, state)
<1>1. handlers[r] \in Handler /\ handlers[r].user # handlers[r].peer
  BY WholeRequest DEF TypeOK, ConsentInv, StillJustified, Sending
<1>2. /\ next \in {"insertOpening", "insertMessage", "markRead", "idle"}
      /\ next = "insertMessage" => state \in {"open", "reply_accepts"}
      /\ next = "markRead" => state = "open"
  BY DEF AfterResolve, CanSend, MarksRead
<1>3. CASE next = "idle"
  BY <1>3, RespondMoves, QuietStep DEF Resolved
<1>4. CASE next # "idle"
  <2>1. /\ OnlyMoves(r) /\ handlers'[r].pc = next
        /\ handlers'[r].user = handlers[r].user /\ handlers'[r].peer = handlers[r].peer
    BY <1>1, <1>4 DEF Resolved, OnlyMoves, TypeOK, HandlersTypeOK, Handler
  <2>2. StillJustified(r)'
    BY <1>1, <1>2, <1>4, <2>1 DEF StillJustified, Sending, Accepting, OpenBetween,
       ApproachedBy, RequestsBetween, RequestPair, tables
  <2> QED BY <2>1, <2>2, QuietStep
<1> QED BY <1>3, <1>4

\* Each of the three queries of resolveSendState keeps ConsentInv.
LEMMA ResolveConsent ==
  ASSUME TypeOK, ConsentInv, NEW r \in Slots,
         ResolveBlock(r) \/ ResolveFriends(r) \/ ResolveRequest(r)
  PROVE  ConsentInv'
<1> DEFINE u == handlers[r].user
           v == handlers[r].peer
<1>1. /\ handlers[r].pc \in {"resolveBlock", "resolveFriends", "resolveRequest"}
      /\ UNCHANGED tables /\ StillJustified(r)
  BY DEF ResolveBlock, ResolveFriends, ResolveRequest, At, ConsentInv
<1>2. ASSUME NEW pc \in {"resolveFriends", "resolveRequest"}, Goto(r, pc)
      PROVE  ConsentInv'
  <2>1. /\ OnlyMoves(r) /\ handlers'[r].pc = pc
        /\ handlers'[r].user = u /\ handlers'[r].peer = v
    BY <1>1, <1>2, GotoMoves
  <2>2. StillJustified(r)'
    BY <1>1, <2>1 DEF StillJustified, Sending, Accepting
  <2> QED BY <1>1, <2>1, <2>2, QuietStep
<1>3. CASE ResolveBlock(r)
  BY <1>1, <1>2, <1>3, ResolvedConsent DEF ResolveBlock
<1>4. CASE ResolveFriends(r)
  <2>1. AreFriends(u, v) => OpenBetween(u, v)
    BY DEF AreFriends, FriendshipsBetween, OpenBetween, ConsentInv, OnRecord,
       FriendsRemembered
  <2> QED BY <1>1, <1>2, <1>4, <2>1, ResolvedConsent DEF ResolveFriends
<1>5. CASE ResolveRequest(r)
  <2>1. CASE Resolved(r, "first_contact", NoId)
    BY <1>1, <2>1, ResolvedConsent
  <2>2. ASSUME NEW q \in RequestsBetween(u, v), Resolved(r, StateOf(q, u), q.id)
        PROVE  ConsentInv'
    <3>1. StateOf(q, u) = "open" => OpenBetween(u, v)
      BY DEF StateOf, OpenBetween
    <3>2. StateOf(q, u) = "reply_accepts" => ApproachedBy(u, v)
      BY DEF StateOf, ApproachedBy
    <3> QED BY <1>1, <2>2, <3>1, <3>2, ResolvedConsent
  <2> QED BY <1>5, <2>1, <2>2 DEF ResolveRequest
<1> QED BY <1>3, <1>4, <1>5

\* A statement that writes, after which r relies on nothing.
LEMMA WriteStep ==
  ASSUME TypeOK, ConsentInv, NEW r \in Slots, OnlyMoves(r), Unburdened(r)',
         RecordGrows, OnRecord'
  PROVE  ConsentInv'
<1>1. StillJustified(r)'
  BY DEF Unburdened, StillJustified, Sending, Accepting
<1> QED BY <1>1, StepKeepsConsent

\* The steps of messageService keep ConsentInv.
LEMMA MessageStepConsent ==
  ASSUME TypeOK, ConsentInv, NEW r \in Slots, MessageStep(r)
  PROVE  ConsentInv'
<1>1. handlers[r].pc # "idle" /\ handlers[r] \in Handler /\ StillJustified(r)
  BY WholeRequest DEF MessageStep, ResolveBlock, ResolveFriends, ResolveRequest, InsertMessage,
     SettleReply, NotifyReply, NotifyMessage, InsertOpening, NotifyOpening, FindPage,
     MarkRead, NotifyRead, LoadRequest, AnswerSetStatus, NotifyRequestAccepted, At, TypeOK,
     ConsentInv
<1>2. CASE ResolveBlock(r) \/ ResolveFriends(r) \/ ResolveRequest(r)
  BY <1>2, ResolveConsent
<1>3. CASE InsertMessage(r)
  <2>1. OnlyMoves(r) /\ Unburdened(r)'
    BY <1>1, <1>3 DEF InsertMessage, OnlyMoves, Unburdened, TypeOK, HandlersTypeOK, Handler
  <2> QED BY <1>3, <2>1, InsertMessageRecord, WriteStep
<1>4. CASE SettleReply(r)
  <2>1. OnlyMoves(r) /\ handlers'[r].pc \in {"notifyReply", "notifyMessage"}
    BY <1>1, <1>4, GotoMoves DEF SettleReply
  <2>2. RecordGrows /\ OnRecord'
    BY <1>4, SetStatusRecord DEF SettleReply
  <2> QED BY <2>1, <2>2, WriteStep DEF Unburdened
<1>5. CASE InsertOpening(r)
  <2>1. CASE RequestsBetween(handlers[r].user, handlers[r].peer) = {}
    <3>1. OnlyMoves(r) /\ Unburdened(r)'
      BY <1>1, <1>5, <2>1 DEF InsertOpening, OnlyMoves, Unburdened, TypeOK,
         HandlersTypeOK, Handler
    <3> QED BY <1>5, <2>1, <3>1, InsertOpeningRecord, WriteStep
  <2>2. CASE RequestsBetween(handlers[r].user, handlers[r].peer) # {}
    BY <1>5, <2>2, RespondMoves, QuietStep DEF InsertOpening, DropMessage, tables
  <2> QED BY <2>1, <2>2
<1>6. CASE FindPage(r)
  <2>1. /\ OnlyMoves(r) /\ handlers'[r].pc = "resolveBlock" /\ UNCHANGED tables
        /\ handlers'[r].user = handlers[r].user /\ handlers'[r].peer = handlers[r].peer
    BY <1>1, <1>6 DEF FindPage, OnlyMoves, TypeOK, HandlersTypeOK, Handler
  <2>2. handlers[r].user # handlers[r].peer
    BY <1>1, <1>6 DEF FindPage, At, StillJustified, Sending
  <2>3. StillJustified(r)'
    BY <2>1, <2>2 DEF StillJustified, Sending, Accepting
  <2> QED BY <2>1, <2>3, QuietStep
<1>7. CASE MarkRead(r)
  <2>1. OnlyMoves(r) /\ handlers'[r].pc \in {"idle", "notifyRead"}
    <3>1. CASE ToMark(r) = {}
      BY <1>7, <3>1, RespondMoves DEF MarkRead
    <3>2. CASE ToMark(r) # {}
      BY <1>1, <1>7, <3>2 DEF MarkRead, OnlyMoves, TypeOK, HandlersTypeOK, Handler
    <3> QED BY <3>1, <3>2
  <2> QED BY <1>7, <2>1, MarkReadRecord, WriteStep DEF Unburdened
<1>8. CASE LoadRequest(r)
  <2>1. OnlyMoves(r) /\ handlers'[r].pc \in {"idle", "setStatus"}
    <3>1. CASE Respond(r)
      BY <3>1, RespondMoves
    <3>2. CASE ~Respond(r)
      BY <1>1, <1>8, <3>2 DEF LoadRequest, OnlyMoves, TypeOK, HandlersTypeOK, Handler
    <3> QED BY <3>1, <3>2
  <2>2. UNCHANGED tables
    BY <1>8 DEF LoadRequest
  <2> QED BY <2>1, <2>2, UnburdenedJustified, QuietStep DEF Unburdened
<1>9. CASE AnswerSetStatus(r)
  <2>1. OnlyMoves(r) /\ handlers'[r].pc \in {"idle", "notifyRequestAccepted"}
    BY <1>1, <1>9, RespondMoves, GotoMoves DEF AnswerSetStatus
  <2>2. Decision(handlers[r].op) \in {"accepted", "declined"}
    BY DEF Decision
  <2>3. RecordGrows /\ OnRecord'
    BY <1>9, <2>2, SetStatusRecord DEF AnswerSetStatus
  <2> QED BY <2>1, <2>3, WriteStep DEF Unburdened
<1>10. CASE NotifyReply(r) \/ NotifyMessage(r) \/ NotifyOpening(r) \/ NotifyRead(r)
            \/ NotifyRequestAccepted(r)
  BY <1>10, RespondMoves, QuietStep DEF NotifyReply, NotifyMessage, NotifyOpening,
     NotifyRead, NotifyRequestAccepted
<1> QED
  BY <1>2, <1>3, <1>4, <1>5, <1>6, <1>7, <1>8, <1>9, <1>10 DEF MessageStep

-----------------------------------------------------------------------------
\* There is no row and no handler relies on anything.
LEMMA InitConsent == Init => ConsentInv
  BY DEF Init, DatabaseInit, HandlersInit, Idle, ConsentInv, OnRecord, RequestsApart,
     RowsNumbered, FriendsRemembered, MessagesAccountedFor, OneOpeningMessage,
     NoReceiptBeforeConsent

\* Every step keeps ConsentInv.
LEMMA NextConsent == TypeOK /\ ConsentInv /\ [Next]_vars => ConsentInv'
<1> SUFFICES ASSUME TypeOK, ConsentInv, [Next]_vars
             PROVE  ConsentInv'
  OBVIOUS
<1>1. CASE UNCHANGED vars
  <2>1. RecordGrows /\ OnRecord'
    BY <1>1, SameRecord DEF vars, tables
  <2>2. \A s \in Slots : handlers'[s].pc # "idle" => StillJustified(s)'
    BY <1>1, <2>1, StaysJustified DEF vars
  <2> QED BY <2>1, <2>2 DEF ConsentInv
<1>2. ASSUME NEW r \in Slots, Fail(r) \/ RejectInsert(r)
      PROVE  ConsentInv'
  BY <1>2, RespondMoves, QuietStep DEF Fail, RejectInsert
<1> QED
  BY <1>1, <1>2, ArriveConsent, FriendStepConsent, BlockStepConsent, MessageStepConsent
     DEF Next, Step

(***************************************************************************)
(* What resolveSendState found, and what the rows say of one another, is   *)
(* still so when the handler acts on it.                                   *)
(***************************************************************************)
THEOREM ConsentInvariant == Spec => []ConsentInv
<1>1. TypeOK /\ ConsentInv /\ [Next]_vars => ConsentInv'
  BY NextConsent
<1> QED BY InitConsent, <1>1, TypeCorrect, PTL DEF Spec

(***************************************************************************)
(* sendOpeningMessage and its unique index: while a request is unaccepted, *)
(* its requester has written one message and no more, however many sends   *)
(* raced, unless the two have been friends.                                *)
(***************************************************************************)
THEOREM OneMessageRule == Spec => []OneOpeningMessage
<1>1. ConsentInv => OneOpeningMessage
  BY DEF ConsentInv, OnRecord
<1> QED BY <1>1, ConsentInvariant, PTL

(***************************************************************************)
(* getConversation: a stranger's message is not marked read before the     *)
(* request it belongs to is accepted.                                      *)
(***************************************************************************)
THEOREM ReceiptsFollowConsent == Spec => []NoReceiptBeforeConsent
<1>1. ConsentInv => NoReceiptBeforeConsent
  BY DEF ConsentInv, OnRecord
<1> QED BY <1>1, ConsentInvariant, PTL

(***************************************************************************)
(* countUnread: the badge counts no message of a stranger the user has     *)
(* neither accepted nor written to.                                        *)
(***************************************************************************)
THEOREM BadgeFollowsConsent == Spec => []StrangersAreNotCounted
<1>1. ConsentInv => StrangersAreNotCounted
  <2>1. SUFFICES ASSUME ConsentInv, NEW u \in Users, NEW m \in CountedUnread(u),
                        {u, m.sender} \notin befriended
                 PROVE  \E q \in RequestsBetween(u, m.sender) :
                          q.status = "accepted" \/ q.requester = u
    BY DEF StrangersAreNotCounted
  <2>2. m \in messages /\ MessagePair(m) = {u, m.sender}
    BY DEF CountedUnread, MessagePair
  <2>3. PICK q \in messageRequests : RequestPair(q) = {u, m.sender}
    BY <2>1, <2>2 DEF ConsentInv, OnRecord, MessagesAccountedFor
  <2>4. q.status = "accepted" \/ q.requester = u
    BY <2>3 DEF CountedUnread, RequestPair
  <2> QED BY <2>3, <2>4 DEF RequestsBetween
<1> QED BY <1>1, ConsentInvariant, PTL

(***************************************************************************)
(* The unique indexes of friendships, message_requests and blocks hold     *)
(* against every interleaving of the handlers' checks and INSERTs.         *)
(***************************************************************************)
THEOREM PairsAreUnique == Spec => []OneRowPerPair
<1>1. BlockInv /\ ConsentInv => OneRowPerPair
  BY DEF BlockInv, ConsentInv, OnRecord, RequestsApart, OneRowPerPair
<1> QED BY <1>1, BlockInvariant, ConsentInvariant, PTL
=============================================================================
