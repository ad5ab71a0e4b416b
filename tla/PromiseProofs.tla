--------------------------- MODULE PromiseProofs ----------------------------
(***************************************************************************)
(* The rows the handlers act on, the events they send and the rules of     *)
(* module Consent they implement, on top of the invariants of CoreProofs.  *)
(***************************************************************************)
EXTENDS CoreProofs

(***************************************************************************)
(* The rows the handlers act on and tell of: RowInv is inductive, so only  *)
(* those entitled to it change a row, a message request is decided once,   *)
(* and events are true when they are sent, for any users, any number of    *)
(* requests in flight and any number of rows.                              *)
(***************************************************************************)

(***************************************************************************)
(* How the rows may change: they keep their number and their users, an     *)
(* acceptance and a decision are final, and what was written or read       *)
(* remains so.                                                             *)
(***************************************************************************)
RowsGoOn ==
  /\ nextId' \in {nextId, nextId + 1}
  /\ \A f \in friendships' :
       \/ f.id = nextId
       \/ \E g \in friendships :
            /\ g.id = f.id /\ g.requester = f.requester /\ g.addressee = f.addressee
            /\ g.status = "accepted" => f.status = "accepted"
  /\ \A q \in messageRequests' :
       \/ q.id = nextId
       \/ \E p \in messageRequests :
            /\ p.id = q.id /\ p.requester = q.requester /\ p.recipient = q.recipient
            /\ p.status # "pending" => q.status # "pending"
  /\ \A m \in messages :
       \E n \in messages' :
         /\ n.id = m.id /\ n.sender = m.sender /\ n.recipient = m.recipient
         /\ m.read => n.read
  /\ \A m \in messages' : m.id < nextId'

(***************************************************************************)
(* A step of r changes no row another transaction has locked, and locks    *)
(* only what is free.                                                      *)
(***************************************************************************)
WaitsForLocks(r) ==
  /\ \A f \in friendships : f \in friendships' \/ ~FriendshipLocked(r, f.id)
  /\ \A q \in messageRequests' :
       q.id = nextId \/ q \in messageRequests \/ ~RequestLocked(r, q.id)
  /\ Locking(r)' /\ handlers'[r].row # NoId =>
       \/ Locking(r) /\ handlers'[r].row = handlers[r].row
       \/ ~FriendshipLocked(r, handlers'[r].row)

\* What another handler may do to its row does not depend on the step.
LEMMA StillMayAct ==
  ASSUME TypeOK, RowInv, RowsGoOn, NEW s \in Slots,
         handlers'[s] = handlers[s], handlers[s].pc # "idle"
  PROVE  MayActOnRow(s)'
<1>1. MayActOnRow(s) /\ handlers[s].row < nextId /\ handlers[s].ref < nextId
  BY DEF RowInv, KnowsRow
<1>2. nextId \in Nat /\ handlers[s].row \in Nat /\ handlers[s].ref \in Nat
  BY WholeRequest DEF TypeOK, DatabaseTypeOK, RowId, Handler
<1>3. handlers[s].row # nextId /\ handlers[s].ref # nextId
  BY <1>1, <1>2
<1>4. Accepting(s) =>
        \A f \in friendships' : f.id = handlers[s].row =>
          f.addressee = handlers[s].user /\ f.requester = handlers[s].peer
  BY <1>1, <1>3 DEF MayActOnRow, RowsGoOn
<1>5. handlers[s].pc \in {"deleteFriendship", "removeFriendship", "commitBlock"} =>
        \A f \in friendships' : f.id = handlers[s].row => FriendPair(f) = Between(s)
  BY <1>1, <1>3 DEF MayActOnRow, RowsGoOn, FriendPair
<1>6. handlers[s].pc = "setStatus" =>
        \A q \in messageRequests' : q.id = handlers[s].row =>
          q.recipient = handlers[s].user /\ q.requester = handlers[s].peer
  BY <1>1, <1>3 DEF MayActOnRow, RowsGoOn
<1>7. handlers[s].pc = "settleReply"
        \/ (handlers[s].pc = "insertMessage" /\ handlers[s].state = "reply_accepts") =>
        \A q \in messageRequests' : q.id = handlers[s].ref =>
          q.recipient = handlers[s].user /\ q.requester = handlers[s].peer
  BY <1>1, <1>3 DEF MayActOnRow, RowsGoOn
<1> QED
  BY <1>1, <1>4, <1>5, <1>6, <1>7 DEF MayActOnRow, Accepting, Between, FriendPair

\* What another handler is about to announce remains so.
LEMMA StillMayTell ==
  ASSUME TypeOK, RowInv, RowsGoOn, NEW s \in Slots,
         handlers'[s] = handlers[s], handlers[s].pc # "idle"
  PROVE  MayTell(s)'
<1>1. MayTell(s) /\ handlers[s].row < nextId /\ handlers[s].ref < nextId
  BY DEF RowInv, KnowsRow
<1>2. nextId \in Nat /\ handlers[s].row \in Nat /\ handlers[s].ref \in Nat
  BY WholeRequest DEF TypeOK, DatabaseTypeOK, RowId, Handler
<1>3. handlers[s].row # nextId /\ handlers[s].ref # nextId
  BY <1>1, <1>2
<1>4. handlers[s].pc = "notifyRequest" =>
        \A f \in friendships' : f.id = handlers[s].row => f.addressee = handlers[s].peer
  BY <1>1, <1>3 DEF MayTell, RowsGoOn
<1>5. handlers[s].pc = "notifyAccepted" =>
        \A f \in friendships' : f.id = handlers[s].row =>
          f.status = "accepted" /\ f.requester = handlers[s].peer
  BY <1>1, <1>3 DEF MayTell, RowsGoOn
<1>6. handlers[s].pc = "notifyRemoved" => handlers[s].row \notin Ids(friendships)'
  BY <1>1, <1>3 DEF MayTell, RowsGoOn, Ids
<1>7. handlers[s].pc = "notifyReply" =>
        \A q \in messageRequests' : q.id = handlers[s].ref =>
          q.status # "pending" /\ q.requester = handlers[s].peer
  BY <1>1, <1>3 DEF MayTell, RowsGoOn
<1>8. handlers[s].pc = "notifyRequestAccepted" =>
        \A q \in messageRequests' : q.id = handlers[s].row =>
          q.status # "pending" /\ q.requester = handlers[s].peer
  BY <1>1, <1>3 DEF MayTell, RowsGoOn
<1>9. handlers[s].pc \in {"settleReply", "notifyReply", "notifyMessage", "notifyOpening"} =>
        \E m \in messages' : m.id = handlers[s].row /\ m.recipient = handlers[s].peer
  BY <1>1 DEF MayTell, RowsGoOn
<1>10. handlers[s].pc = "notifyRead" =>
        \A i \in handlers[s].page :
          \E m \in messages' : m.id = i /\ m.sender = handlers[s].peer /\ m.read
  <2>1. SUFFICES ASSUME handlers[s].pc = "notifyRead", NEW i \in handlers[s].page
                 PROVE  \E m \in messages' : m.id = i /\ m.sender = handlers[s].peer /\ m.read
    OBVIOUS
  <2>2. PICK m \in messages : m.id = i /\ m.sender = handlers[s].peer /\ m.read
    BY <1>1, <2>1 DEF MayTell
  <2> QED BY <2>2 DEF RowsGoOn
<1> QED
  BY <1>4, <1>5, <1>6, <1>7, <1>8, <1>9, <1>10 DEF MayTell, Ids

\* What another handler has locked stays locked and as it is.
LEMMA LocksStay ==
  ASSUME TypeOK, RowInv, RowsGoOn, NEW r \in Slots, OnlyMoves(r), WaitsForLocks(r),
         NEW s \in Slots \ {r}, handlers[s].pc # "idle"
  PROVE  LockedRowsWait(s)'
<1>1. /\ handlers'[s] = handlers[s] /\ LockedRowsWait(s)
      /\ handlers[s].row < nextId /\ handlers[s].ref < nextId
  BY DEF OnlyMoves, RowInv, KnowsRow
<1>2. nextId \in Nat /\ handlers[s].row \in Nat /\ handlers[s].ref \in Nat
  BY WholeRequest DEF TypeOK, DatabaseTypeOK, RowId, Handler
<1>3. handlers[s].row # nextId /\ handlers[s].ref # nextId
  BY <1>1, <1>2
<1>4. Locking(s) => FriendshipLocked(r, handlers[s].row)
  BY DEF Locking, FriendshipLocked
<1>5. handlers[s].pc = "commitAccept" => RequestLocked(r, handlers[s].ref)
  BY DEF RequestLocked, At
<1>6. handlers[s].pc \in {"settleRequest", "commitAccept"} =>
        \E f \in friendships' : f.id = handlers[s].row /\ f.status = "pending"
  BY <1>1, <1>4 DEF LockedRowsWait, WaitsForLocks, Locking
<1>7. handlers[s].pc = "commitAccept" =>
        \A q \in messageRequests' : q.id = handlers[s].ref => q.status = "pending"
  BY <1>1, <1>3, <1>5 DEF LockedRowsWait, WaitsForLocks
<1>8. Locking(s) /\ handlers[s].row # NoId =>
        \A t \in Slots \ {s} : Locking(t)' => handlers'[t].row # handlers[s].row
  <2>1. SUFFICES ASSUME Locking(s), handlers[s].row # NoId, NEW t \in Slots \ {s}, Locking(t)',
                        handlers'[t].row = handlers[s].row
                 PROVE  FALSE
    OBVIOUS
  <2>2. Locking(t) => handlers[t].row # handlers[s].row
    BY <1>1, <2>1 DEF LockedRowsWait
  <2>3. CASE t = r
    BY <1>4, <2>1, <2>2, <2>3 DEF WaitsForLocks
  <2>4. CASE t # r
    BY <2>1, <2>2, <2>4 DEF OnlyMoves, Locking
  <2> QED BY <2>3, <2>4
<1> QED
  BY <1>1, <1>6, <1>7, <1>8 DEF LockedRowsWait, Locking

(***************************************************************************)
(* A step of r is accounted for by the rows, the locks, what it emits and  *)
(* what r knows afterwards.                                                *)
(***************************************************************************)
LEMMA StepKeepsRows ==
  ASSUME TypeOK, RowInv, NEW r \in Slots, OnlyMoves(r), RowsGoOn, WaitsForLocks(r),
         EventsFollowCommits', handlers'[r].pc # "idle" => KnowsRow(r)'
  PROVE  RowInv'
<1>1. ASSUME NEW s \in Slots, handlers'[s].pc # "idle"
      PROVE  KnowsRow(s)'
  <2>1. CASE s = r
    BY <1>1, <2>1
  <2>2. CASE s # r
    <3>1. handlers'[s] = handlers[s] /\ handlers[s].pc # "idle"
      BY <1>1, <2>2 DEF OnlyMoves
    <3>2. MayActOnRow(s)' /\ MayTell(s)' /\ LockedRowsWait(s)'
      BY <2>2, <3>1, StillMayAct, StillMayTell, LocksStay
    <3>3. nextId \in Nat /\ handlers[s].row \in Nat /\ handlers[s].ref \in Nat
      BY <3>1, WholeRequest DEF TypeOK, DatabaseTypeOK, RowId, Handler
    <3>4. handlers[s].row < nextId' /\ handlers[s].ref < nextId'
      BY <3>1, <3>3 DEF RowInv, KnowsRow, RowsGoOn
    <3> QED BY <3>1, <3>2, <3>4 DEF KnowsRow
  <2> QED BY <2>1, <2>2
<1> QED BY <1>1 DEF RowInv, RowsGoOn

-----------------------------------------------------------------------------
(* Steps that change no row.                                               *)

\* What a handler in flight is and knows.
LEMMA KnownNow ==
  ASSUME TypeOK, RowInv, NEW r \in Slots, handlers[r].pc # "idle"
  PROVE  /\ handlers[r] \in Handler /\ KnowsRow(r)
         /\ nextId \in Nat /\ handlers[r].row \in Nat /\ handlers[r].ref \in Nat
         /\ handlers[r].row < nextId /\ handlers[r].ref < nextId
  BY WholeRequest DEF TypeOK, DatabaseTypeOK, RowId, Handler, RowInv, KnowsRow

\* A step that emits nothing has nothing untrue to say.
LEMMA NothingSaid == ASSUME Silent PROVE EventsFollowCommits'
  BY DEF Silent, EventsFollowCommits

\* Rows that stay go on.
LEMMA SameRows ==
  ASSUME TypeOK, RowInv, UNCHANGED tables
  PROVE  /\ RowsGoOn
         /\ \A f \in friendships : f \in friendships'
         /\ \A q \in messageRequests' : q \in messageRequests
  BY DEF tables, RowsGoOn, RowInv

\* A query of r alone: nothing is said, and any lock it takes was free.
LEMMA QueryKeepsRows ==
  ASSUME TypeOK, RowInv, NEW r \in Slots, OnlyMoves(r), UNCHANGED tables, Silent,
         Locking(r)' /\ handlers'[r].row # NoId =>
           \/ Locking(r) /\ handlers'[r].row = handlers[r].row
           \/ ~FriendshipLocked(r, handlers'[r].row),
         handlers'[r].pc # "idle" => KnowsRow(r)'
  PROVE  RowInv'
<1>1. WaitsForLocks(r)
  BY SameRows DEF WaitsForLocks
<1> QED BY <1>1, SameRows, NothingSaid, StepKeepsRows

\* At these queries a handler has nothing in hand but numbers.
Empty(r) ==
  handlers[r].pc \in {"checkBlock", "findExisting", "insertFriendship", "loadFriendship",
                      "removeBlock", "findPage", "resolveBlock", "resolveFriends",
                      "resolveRequest", "insertOpening", "markRead", "loadRequest"}

LEMMA EmptyKnows ==
  ASSUME NEW r \in Slots, Empty(r)',
         handlers'[r].row < nextId' /\ handlers'[r].ref < nextId'
  PROVE  KnowsRow(r)' /\ ~Locking(r)' /\ handlers'[r].pc # "idle"
  BY DEF Empty, KnowsRow, MayActOnRow, LockedRowsWait, MayTell, Accepting, Locking

\* A request that ends leaves nothing behind.
LEMMA RespondRows ==
  ASSUME TypeOK, RowInv, NEW r \in Slots, Respond(r), UNCHANGED tables, EventsFollowCommits'
  PROVE  RowInv'
<1>1. OnlyMoves(r) /\ handlers'[r].pc = "idle"
  BY RespondMoves
<1>2. WaitsForLocks(r)
  BY <1>1, SameRows DEF WaitsForLocks, Locking
<1> QED BY <1>1, <1>2, SameRows, StepKeepsRows

\* Nor does one that goes on to a query with nothing in hand need anything.
LEMMA GotoRows ==
  ASSUME TypeOK, RowInv, NEW r \in Slots, handlers[r].pc # "idle", NEW pc, Goto(r, pc),
         pc \in {"checkBlock", "findExisting", "insertFriendship", "loadFriendship",
                 "removeBlock", "findPage", "resolveBlock", "resolveFriends",
                 "resolveRequest", "insertOpening", "markRead", "loadRequest"},
         UNCHANGED tables, Silent
  PROVE  RowInv'
<1>1. OnlyMoves(r) /\ handlers'[r].pc = pc
      /\ handlers'[r].row = handlers[r].row /\ handlers'[r].ref = handlers[r].ref
  BY GotoMoves
<1>2. Empty(r)' /\ handlers'[r].row < nextId' /\ handlers'[r].ref < nextId'
  BY <1>1, KnownNow DEF Empty, tables
<1> QED BY <1>1, <1>2, EmptyKnows, QueryKeepsRows

\* A request arrives with the number of a row that is there, or none.
LEMMA ReceiveRows ==
  ASSUME TypeOK, RowInv, NEW r \in Slots, NEW op, NEW u, NEW v, NEW pc, NEW row \in Nat,
         Receive(r, op, pc, u, v, row), row < nextId,
         \/ pc \in {"checkBlock", "loadFriendship", "removeBlock", "findPage",
                    "resolveBlock", "loadRequest"}
         \/ pc = "insertBlock" /\ row = NoId
  PROVE  RowInv'
<1>1. /\ OnlyMoves(r) /\ UNCHANGED tables /\ Silent
      /\ handlers'[r].pc = pc /\ handlers'[r].row = row /\ handlers'[r].ref = NoId
  BY DEF Receive, OnlyMoves, TypeOK, HandlersTypeOK
<1>2. nextId' = nextId /\ nextId \in Nat /\ NoId < nextId
  BY <1>1 DEF tables, TypeOK, DatabaseTypeOK, RowId, NoId
<1>3. CASE pc = "insertBlock"
  <2>1. KnowsRow(r)' /\ ~Locking(r)'
    BY <1>1, <1>2, <1>3 DEF KnowsRow, MayActOnRow, LockedRowsWait, MayTell, Accepting, Locking
  <2> QED BY <1>1, <2>1, QueryKeepsRows
<1>4. CASE pc # "insertBlock"
  <2>1. Empty(r)' /\ handlers'[r].row < nextId' /\ handlers'[r].ref < nextId'
    BY <1>1, <1>2, <1>4 DEF Empty
  <2> QED BY <1>1, <2>1, EmptyKnows, QueryKeepsRows
<1> QED BY <1>3, <1>4

\* Every arriving request does.
LEMMA ArriveRows ==
  ASSUME TypeOK, ConsentInv, RowInv, NEW r \in Slots, Arrive(r)
  PROVE  RowInv'
<1>1. NoId \in Nat /\ NoId < nextId
  BY DEF NoId, TypeOK, DatabaseTypeOK, RowId
<1>2. CASE SendRequest(r) \/ BlockUser(r) \/ UnblockUser(r) \/ SendMessage(r)
           \/ GetConversation(r)
  BY <1>1, <1>2, ReceiveRows DEF SendRequest, BlockUser, UnblockUser, SendMessage,
     GetConversation
<1>3. CASE NameFriendship(r)
  <2>1. PICK u \in Users, f \in friendships,
             op \in {"acceptFriend", "deleteFriendship"} :
               Receive(r, op, "loadFriendship", u, OtherParticipant(f, u), f.id)
    BY <1>3 DEF NameFriendship
  <2>2. f.id \in Nat /\ f.id < nextId
    BY DEF ConsentInv, OnRecord, RowsNumbered, TypeOK, DatabaseTypeOK, Friendship, RowId
  <2> QED BY <2>1, <2>2, ReceiveRows
<1>4. CASE AnswerRequest(r)
  <2>1. PICK u \in Users, q \in messageRequests,
             op \in {"acceptRequest", "declineRequest"} :
               Receive(r, op, "loadRequest", u, q.requester, q.id)
    BY <1>4 DEF AnswerRequest
  <2>2. q.id \in Nat /\ q.id < nextId
    BY DEF ConsentInv, OnRecord, RowsNumbered, TypeOK, DatabaseTypeOK, MessageRequest, RowId
  <2> QED BY <2>1, <2>2, ReceiveRows
<1> QED
  BY <1>2, <1>3, <1>4 DEF Arrive, FriendRequests, BlockRequests, MessageRequests

-----------------------------------------------------------------------------
(* The friend service.                                                     *)

\* The row is the one loaded, so the caller is whom the service checked.
LEMMA LoadFriendshipRows ==
  ASSUME TypeOK, ConsentInv, RowInv, NEW r \in Slots, LoadFriendship(r)
  PROVE  RowInv'
<1>1. UNCHANGED tables /\ Silent /\ handlers[r].pc # "idle"
  BY DEF LoadFriendship, At
<1>2. CASE Respond(r)
  BY <1>1, <1>2, RespondRows, NothingSaid
<1>3. CASE ~Respond(r)
  <2> DEFINE u == handlers[r].user
             accepting == handlers[r].op = "acceptFriend"
  <2>1. PICK f \in LoadedFriendship(r) :
          /\ IF accepting THEN MayAccept(f, u) ELSE MayDelete(f, u)
          /\ handlers' = [handlers EXCEPT
               ![r].peer = OtherParticipant(f, u),
               ![r].pc = IF accepting THEN "acceptFriendship" ELSE "deleteFriendship"]
    BY <1>3 DEF LoadFriendship
  <2>2. handlers[r] \in Handler /\ handlers[r].row < nextId /\ handlers[r].ref < nextId
    BY <1>1, KnownNow
  <2>3. /\ OnlyMoves(r)
        /\ handlers'[r].pc = IF accepting THEN "acceptFriendship" ELSE "deleteFriendship"
        /\ handlers'[r].user = u /\ handlers'[r].peer = OtherParticipant(f, u)
        /\ handlers'[r].row = handlers[r].row /\ handlers'[r].ref = handlers[r].ref
    BY <2>1, <2>2 DEF OnlyMoves, TypeOK, HandlersTypeOK, Handler
  <2>4. \A g \in friendships : g.id = handlers[r].row => g = f
    BY DEF LoadedFriendship, ConsentInv, OnRecord, RowsNumbered
  <2>5. KnowsRow(r)' /\ ~Locking(r)'
    <3>1. CASE accepting
      <4>1. f.addressee = u /\ f.requester = OtherParticipant(f, u)
        BY <2>1, <3>1 DEF MayAccept, OtherParticipant
      <4> QED
        BY <1>1, <2>2, <2>3, <2>4, <3>1, <4>1 DEF KnowsRow, MayActOnRow, LockedRowsWait,
           MayTell, Accepting, Locking, tables
    <3>2. CASE ~accepting
      <4>1. FriendPair(f) = {u, OtherParticipant(f, u)}
        BY <2>1, <3>2 DEF MayDelete, OtherParticipant, FriendPair
      <4> QED
        BY <1>1, <2>2, <2>3, <2>4, <3>2, <4>1 DEF KnowsRow, MayActOnRow, LockedRowsWait,
           MayTell, Accepting, Locking, tables, Between, FriendPair
    <3> QED BY <3>1, <3>2
  <2> QED BY <1>1, <2>3, <2>5, QueryKeepsRows
<1> QED BY <1>2, <1>3

\* The UPDATE finds the row pending and unlocked, and locks it.
LEMMA AcceptFriendshipRows ==
  ASSUME TypeOK, ConsentInv, RowInv, NEW r \in Slots, AcceptFriendship(r)
  PROVE  RowInv'
<1>1. /\ UNCHANGED tables /\ Silent /\ handlers[r].pc = "acceptFriendship"
      /\ ~FriendshipLocked(r, handlers[r].row)
  BY DEF AcceptFriendship, At
<1>2. CASE Respond(r)
  BY <1>1, <1>2, RespondRows, NothingSaid
<1>3. CASE ~Respond(r)
  <2>1. Goto(r, "settleRequest") /\ \E f \in friendships : f.id = handlers[r].row /\ f.status = "pending"
    BY <1>3 DEF AcceptFriendship, StillPending, LoadedFriendship
  <2>2. /\ OnlyMoves(r) /\ handlers'[r].pc = "settleRequest"
        /\ handlers'[r].user = handlers[r].user /\ handlers'[r].peer = handlers[r].peer
        /\ handlers'[r].row = handlers[r].row /\ handlers'[r].ref = handlers[r].ref
    BY <1>1, <2>1, GotoMoves
  <2>3. KnowsRow(r) /\ handlers[r].row < nextId /\ handlers[r].ref < nextId
    BY <1>1, KnownNow
  <2>4. MayActOnRow(r)' /\ MayTell(r)'
    BY <1>1, <2>2, <2>3 DEF KnowsRow, MayActOnRow, MayTell, Accepting, tables
  <2>5. LockedRowsWait(r)'
    <3>1. \A t \in Slots \ {r} : Locking(t)' => handlers'[t].row # handlers[r].row
      BY <1>1, <2>2 DEF FriendshipLocked, Locking, OnlyMoves
    <3> QED BY <1>1, <2>1, <2>2, <3>1 DEF LockedRowsWait, tables
  <2> QED BY <1>1, <2>2, <2>3, <2>4, <2>5, QueryKeepsRows DEF KnowsRow, tables
<1> QED BY <1>2, <1>3

\* The DELETE locks a request that is pending.
LEMMA SettleRequestRows ==
  ASSUME TypeOK, ConsentInv, RowInv, NEW r \in Slots, SettleRequest(r)
  PROVE  RowInv'
<1>1. UNCHANGED tables /\ Silent /\ handlers[r].pc = "settleRequest"
  BY DEF SettleRequest, At
<1>2. /\ handlers[r] \in Handler /\ KnowsRow(r) /\ nextId \in Nat
      /\ handlers[r].row < nextId /\ handlers[r].ref < nextId
  BY <1>1, KnownNow
<1>3. /\ OnlyMoves(r) /\ handlers'[r].pc = "commitAccept"
      /\ handlers'[r].user = handlers[r].user /\ handlers'[r].peer = handlers[r].peer
      /\ handlers'[r].row = handlers[r].row
      /\ handlers'[r].ref < nextId
      /\ \A q \in messageRequests : q.id = handlers'[r].ref => q.status = "pending"
  <2> DEFINE pending == PendingBetween(handlers[r].user, handlers[r].peer)
  <2>1. CASE pending = {}
    <3>1. Goto(r, "commitAccept")
      BY <2>1 DEF SettleRequest
    <3>2. handlers[r].ref = NoId
      BY <1>1 DEF ConsentInv, StillJustified
    <3>3. \A q \in messageRequests : q.id # NoId
      BY DEF TypeOK, DatabaseTypeOK, MessageRequest, RowId
    <3> QED BY <1>1, <1>2, <3>1, <3>2, <3>3, GotoMoves
  <2>2. CASE pending # {}
    <3>1. PICK q \in pending :
            handlers' = [handlers EXCEPT ![r].pc = "commitAccept", ![r].ref = q.id]
      BY <2>2 DEF SettleRequest
    <3>2. /\ q \in messageRequests /\ q.status = "pending" /\ q.id < nextId
          /\ \A p \in messageRequests : p.id = q.id => p = q
      BY DEF PendingBetween, RequestsBetween, ConsentInv, OnRecord, RowsNumbered
    <3> QED
      BY <1>2, <3>1, <3>2 DEF OnlyMoves, TypeOK, HandlersTypeOK, Handler
  <2> QED BY <2>1, <2>2
<1>4. MayActOnRow(r)' /\ MayTell(r)'
  BY <1>1, <1>2, <1>3 DEF KnowsRow, MayActOnRow, MayTell, Accepting, tables
<1>5. LockedRowsWait(r)'
  <2>1. handlers[r].row # NoId => \A t \in Slots \ {r} : Locking(t)' => handlers'[t].row # handlers[r].row
    BY <1>1, <1>2, <1>3 DEF KnowsRow, LockedRowsWait, Locking, OnlyMoves
  <2> QED BY <1>1, <1>2, <1>3, <2>1 DEF KnowsRow, LockedRowsWait, tables
<1> QED
  BY <1>1, <1>2, <1>3, <1>4, <1>5, QueryKeepsRows DEF KnowsRow, Locking, tables

\* The new row has the number that was next.
LEMMA InsertFriendshipRows ==
  ASSUME TypeOK, ConsentInv, RowInv, NEW r \in Slots, InsertFriendship(r)
  PROVE  RowInv'
<1>1. Silent /\ handlers[r].pc = "insertFriendship"
  BY DEF InsertFriendship, At
<1>2. handlers[r] \in Handler /\ nextId \in Nat /\ handlers[r].ref \in Nat /\ handlers[r].ref < nextId
  BY <1>1, KnownNow
<1>3. CASE PairIsFree(handlers[r].user, handlers[r].peer)
  <2> DEFINE new == [id |-> nextId, requester |-> handlers[r].user,
                     addressee |-> handlers[r].peer, status |-> "pending"]
  <2>1. /\ friendships' = friendships \cup {new} /\ nextId' = nextId + 1
        /\ handlers' = [handlers EXCEPT ![r].pc = "notifyRequest", ![r].row = nextId]
        /\ UNCHANGED <<messageRequests, messages>>
    BY <1>3 DEF InsertFriendship, TakeId
  <2>2. /\ OnlyMoves(r) /\ handlers'[r].pc = "notifyRequest"
        /\ handlers'[r].peer = handlers[r].peer
        /\ handlers'[r].row = nextId /\ handlers'[r].ref = handlers[r].ref
    BY <1>2, <2>1 DEF OnlyMoves, TypeOK, HandlersTypeOK, Handler
  <2>3. RowsGoOn
    BY <1>2, <2>1 DEF RowsGoOn, RowInv, TypeOK, DatabaseTypeOK, Message, RowId
  <2>4. WaitsForLocks(r)
    BY <2>1, <2>2 DEF WaitsForLocks, Locking
  <2>5. \A f \in friendships' : f.id = nextId => f = new
    BY <1>2, <2>1 DEF ConsentInv, OnRecord, RowsNumbered, TypeOK, DatabaseTypeOK, Friendship, RowId
  <2>6. handlers'[r].row < nextId' /\ handlers'[r].ref < nextId'
    BY <1>2, <2>1, <2>2
  <2>7. MayTell(r)'
    BY <2>2, <2>5 DEF MayTell
  <2>8. KnowsRow(r)'
    BY <2>2, <2>6, <2>7 DEF KnowsRow, MayActOnRow, LockedRowsWait, Accepting, Locking
  <2> QED BY <1>1, <2>2, <2>3, <2>4, <2>8, NothingSaid, StepKeepsRows
<1>4. CASE ~PairIsFree(handlers[r].user, handlers[r].peer)
  BY <1>1, <1>4, RespondRows, NothingSaid DEF InsertFriendship, tables
<1> QED BY <1>3, <1>4

\* The COMMIT writes a row that is pending and that nobody else has locked.
LEMMA CommitAcceptRows ==
  ASSUME TypeOK, ConsentInv, RowInv, NEW r \in Slots, CommitAccept(r)
  PROVE  RowInv'
<1> DEFINE image(f) == IF f.id = handlers[r].row THEN [f EXCEPT !.status = "accepted"] ELSE f
<1>1. /\ handlers[r].pc = "commitAccept" /\ Silent /\ Goto(r, "notifyAccepted")
      /\ friendships' = {image(f) : f \in friendships}
      /\ messageRequests' \subseteq messageRequests
      /\ nextId' = nextId /\ messages' = messages
  BY DEF CommitAccept, At
<1>2. /\ KnowsRow(r) /\ handlers[r].row < nextId /\ handlers[r].ref < nextId
  BY <1>1, KnownNow
<1>3. /\ OnlyMoves(r) /\ handlers'[r].pc = "notifyAccepted"
      /\ handlers'[r].peer = handlers[r].peer
      /\ handlers'[r].row = handlers[r].row /\ handlers'[r].ref = handlers[r].ref
  BY <1>1, GotoMoves
<1>4. \A f \in friendships :
        /\ image(f).id = f.id /\ image(f).requester = f.requester
        /\ image(f).addressee = f.addressee
        /\ f.status = "accepted" => image(f).status = "accepted"
        /\ f.id = handlers[r].row => image(f).status = "accepted"
  BY DEF TypeOK, DatabaseTypeOK, Friendship
<1>5. RowsGoOn
  <2>1. \A f \in friendships' : \E g \in friendships :
          /\ g.id = f.id /\ g.requester = f.requester /\ g.addressee = f.addressee
          /\ g.status = "accepted" => f.status = "accepted"
    BY <1>1, <1>4
  <2> QED BY <1>1, <2>1 DEF RowsGoOn, RowInv
<1>6. WaitsForLocks(r)
  <2>1. \A f \in friendships : f.id # handlers[r].row => f \in friendships'
    BY <1>1
  <2>2. \A f \in friendships : f.id = handlers[r].row => ~FriendshipLocked(r, f.id)
    BY <1>1, <1>2 DEF KnowsRow, LockedRowsWait, Locking, FriendshipLocked, TypeOK,
       DatabaseTypeOK, Friendship, RowId
  <2> QED BY <1>1, <1>3, <2>1, <2>2 DEF WaitsForLocks, Locking
<1>7. KnowsRow(r)'
  <2>1. \A f \in friendships' : f.id = handlers[r].row =>
          f.status = "accepted" /\ f.requester = handlers[r].peer
    BY <1>1, <1>2, <1>4 DEF KnowsRow, MayActOnRow, Accepting
  <2> QED
    BY <1>1, <1>2, <1>3, <2>1 DEF KnowsRow, MayActOnRow, LockedRowsWait, MayTell, Accepting, Locking
<1> QED BY <1>1, <1>3, <1>5, <1>6, <1>7, NothingSaid, StepKeepsRows

\* The DELETE waits for the lock of the row and leaves none of its number.
LEMMA DeleteFriendshipRows ==
  ASSUME TypeOK, ConsentInv, RowInv, NEW r \in Slots, DeleteFriendship(r)
  PROVE  RowInv'
<1>1. /\ handlers[r].pc = "deleteFriendship" /\ Silent /\ Goto(r, "notifyRemoved")
      /\ friendships' = friendships \ LoadedFriendship(r)
      /\ ~FriendshipLocked(r, handlers[r].row)
      /\ UNCHANGED <<messageRequests, messages, nextId>>
  BY DEF DeleteFriendship, At
<1>2. /\ OnlyMoves(r) /\ handlers'[r].pc = "notifyRemoved"
      /\ handlers'[r].row = handlers[r].row /\ handlers'[r].ref = handlers[r].ref
  BY <1>1, GotoMoves
<1>3. handlers[r].row < nextId /\ handlers[r].ref < nextId
  BY <1>1, KnownNow
<1>4. RowsGoOn
  BY <1>1 DEF RowsGoOn, RowInv
<1>5. WaitsForLocks(r)
  BY <1>1, <1>2 DEF WaitsForLocks, Locking, LoadedFriendship
<1>6. KnowsRow(r)'
  BY <1>1, <1>2, <1>3 DEF KnowsRow, MayActOnRow, LockedRowsWait, MayTell, Accepting, Locking,
     Ids, LoadedFriendship
<1> QED BY <1>1, <1>2, <1>4, <1>5, <1>6, NothingSaid, StepKeepsRows

\* What the friend service announces is what it has committed.
LEMMA FriendNotifies ==
  ASSUME TypeOK, RowInv, NEW r \in Slots,
         NotifyRequest(r) \/ NotifyAccepted(r) \/ NotifyRemoved(r)
  PROVE  RowInv'
<1>1. handlers[r].pc \in {"notifyRequest", "notifyAccepted", "notifyRemoved"}
      /\ Respond(r) /\ UNCHANGED tables
  BY DEF NotifyRequest, NotifyAccepted, NotifyRemoved, At
<1>2. MayTell(r)
  BY <1>1, KnownNow DEF KnowsRow
<1>3. EventsFollowCommits'
  <2>1. CASE NotifyRequest(r)
    BY <1>1, <1>2, <2>1 DEF NotifyRequest, At, Emit, Events, EventsFollowCommits, MayTell, tables
  <2>2. CASE NotifyAccepted(r)
    BY <1>1, <1>2, <2>2 DEF NotifyAccepted, At, Emit, Events, EventsFollowCommits, MayTell, tables
  <2>3. CASE NotifyRemoved(r)
    BY <1>1, <1>2, <2>3 DEF NotifyRemoved, At, Emit, Events, EventsFollowCommits, MayTell, tables, Ids
  <2> QED BY <2>1, <2>2, <2>3
<1> QED BY <1>1, <1>3, RespondRows

\* Every query of the friend service keeps RowInv.
LEMMA FriendStepRows ==
  ASSUME TypeOK, ConsentInv, RowInv, NEW r \in Slots, FriendStep(r)
  PROVE  RowInv'
<1>1. CASE CheckBlock(r) \/ FindExisting(r)
  BY <1>1, RespondRows, GotoRows, NothingSaid DEF CheckBlock, FindExisting, At
<1> QED
  BY <1>1, InsertFriendshipRows, LoadFriendshipRows, AcceptFriendshipRows, SettleRequestRows,
     CommitAcceptRows, DeleteFriendshipRows, FriendNotifies DEF FriendStep

-----------------------------------------------------------------------------
(* The block service.                                                      *)

\* The block takes a number, and no friendship is in hand yet.
LEMMA InsertBlockRows ==
  ASSUME TypeOK, RowInv, NEW r \in Slots, InsertBlock(r)
  PROVE  RowInv'
<1>1. /\ handlers[r].pc = "insertBlock" /\ Silent
      /\ UNCHANGED <<friendships, messageRequests, messages>>
  BY DEF InsertBlock, At
<1>2. CASE OwnBlock(r) # {}
  BY <1>1, <1>2, RespondRows, NothingSaid DEF InsertBlock, tables
<1>3. CASE OwnBlock(r) = {}
  <2>1. /\ handlers' = [handlers EXCEPT ![r].pc = "findFriendship", ![r].ref = nextId]
        /\ nextId' = nextId + 1
    BY <1>3 DEF InsertBlock, TakeId
  <2>2. /\ handlers[r] \in Handler /\ KnowsRow(r) /\ nextId \in Nat
        /\ handlers[r].row = NoId /\ handlers[r].row < nextId
    BY <1>1, KnownNow DEF KnowsRow, MayActOnRow
  <2>3. /\ OnlyMoves(r) /\ handlers'[r].pc = "findFriendship"
        /\ handlers'[r].row = NoId /\ handlers'[r].ref = nextId
    BY <2>1, <2>2 DEF OnlyMoves, TypeOK, HandlersTypeOK, Handler
  <2>4. RowsGoOn
    BY <1>1, <2>1, <2>2 DEF RowsGoOn, RowInv, TypeOK, DatabaseTypeOK, Message, RowId
  <2>5. WaitsForLocks(r)
    BY <1>1, <2>3 DEF WaitsForLocks, Locking
  <2>6. handlers'[r].row < nextId' /\ handlers'[r].ref < nextId'
    BY <2>1, <2>2, <2>3 DEF NoId
  <2>7. KnowsRow(r)'
    BY <2>3, <2>6 DEF KnowsRow, MayActOnRow, LockedRowsWait, MayTell, Accepting, Locking
  <2> QED BY <1>1, <2>3, <2>4, <2>5, <2>7, NothingSaid, StepKeepsRows
<1> QED BY <1>2, <1>3

\* The friendship found is one of the pair.
LEMMA FindFriendshipRows ==
  ASSUME TypeOK, ConsentInv, RowInv, NEW r \in Slots, FindFriendship(r)
  PROVE  RowInv'
<1> DEFINE found == ToPart(handlers[r].user, handlers[r].peer)
<1>1. UNCHANGED tables /\ Silent /\ handlers[r].pc = "findFriendship"
  BY DEF FindFriendship, At
<1>2. /\ handlers[r] \in Handler /\ nextId \in Nat /\ handlers[r].row = NoId
      /\ handlers[r].row < nextId /\ handlers[r].ref < nextId
  BY <1>1, KnownNow DEF KnowsRow, MayActOnRow
<1>3. CASE found = {}
  <2>1. /\ OnlyMoves(r) /\ handlers'[r].pc = "commitBlock"
        /\ handlers'[r].row = NoId /\ handlers'[r].ref = handlers[r].ref
    BY <1>1, <1>2, <1>3, GotoMoves DEF FindFriendship
  <2>2. \A f \in friendships : f.id # NoId
    BY DEF TypeOK, DatabaseTypeOK, Friendship, RowId
  <2>3. KnowsRow(r)'
    BY <1>1, <1>2, <2>1, <2>2 DEF KnowsRow, MayActOnRow, LockedRowsWait, MayTell, Accepting, tables
  <2> QED BY <1>1, <2>1, <2>3, QueryKeepsRows
<1>4. CASE found # {}
  <2>1. PICK f \in found :
          handlers' = [handlers EXCEPT ![r].pc = "removeFriendship", ![r].row = f.id]
    BY <1>4 DEF FindFriendship
  <2>2. /\ OnlyMoves(r) /\ handlers'[r].pc = "removeFriendship"
        /\ handlers'[r].user = handlers[r].user /\ handlers'[r].peer = handlers[r].peer
        /\ handlers'[r].row = f.id /\ handlers'[r].ref = handlers[r].ref
    BY <1>2, <2>1 DEF OnlyMoves, TypeOK, HandlersTypeOK, Handler
  <2>3. /\ f.id < nextId
        /\ \A g \in friendships : g.id = f.id => FriendPair(g) = {handlers[r].user, handlers[r].peer}
    BY DEF ToPart, FriendshipsBetween, ConsentInv, OnRecord, RowsNumbered
  <2>4. KnowsRow(r)' /\ ~Locking(r)'
    BY <1>1, <1>2, <2>2, <2>3 DEF KnowsRow, MayActOnRow, LockedRowsWait, MayTell, Accepting,
       Locking, Between, FriendPair, tables
  <2> QED BY <1>1, <2>2, <2>4, QueryKeepsRows
<1> QED BY <1>3, <1>4

\* The DELETE waits for the lock and takes it.
LEMMA RemoveFriendshipRows ==
  ASSUME TypeOK, RowInv, NEW r \in Slots, RemoveFriendship(r)
  PROVE  RowInv'
<1>1. /\ UNCHANGED tables /\ Silent /\ handlers[r].pc = "removeFriendship"
      /\ ~FriendshipLocked(r, handlers[r].row) /\ Goto(r, "commitBlock")
  BY DEF RemoveFriendship, At
<1>2. KnowsRow(r) /\ handlers[r].row < nextId /\ handlers[r].ref < nextId
  BY <1>1, KnownNow
<1>3. /\ OnlyMoves(r) /\ handlers'[r].pc = "commitBlock"
      /\ handlers'[r].user = handlers[r].user /\ handlers'[r].peer = handlers[r].peer
      /\ handlers'[r].row = handlers[r].row /\ handlers'[r].ref = handlers[r].ref
  BY <1>1, GotoMoves
<1>4. MayActOnRow(r)' /\ MayTell(r)'
  BY <1>1, <1>2, <1>3 DEF KnowsRow, MayActOnRow, MayTell, Accepting, Between, FriendPair, tables
<1>5. LockedRowsWait(r)'
  <2>1. \A t \in Slots \ {r} : Locking(t)' => handlers'[t].row # handlers[r].row
    BY <1>1, <1>3 DEF FriendshipLocked, Locking, OnlyMoves
  <2> QED BY <1>3, <2>1 DEF LockedRowsWait
<1> QED BY <1>1, <1>2, <1>3, <1>4, <1>5, QueryKeepsRows DEF KnowsRow, tables

\* The COMMIT removes a row that nobody else has locked.
LEMMA CommitBlockRows ==
  ASSUME TypeOK, RowInv, NEW r \in Slots, CommitBlock(r)
  PROVE  RowInv'
<1>1. /\ handlers[r].pc = "commitBlock" /\ Silent
      /\ friendships' = {f \in friendships : f.id # handlers[r].row}
      /\ UNCHANGED <<messageRequests, messages, nextId>>
  BY DEF CommitBlock, At
<1>2. KnowsRow(r) /\ handlers[r].row < nextId /\ handlers[r].ref < nextId
  BY <1>1, KnownNow
<1>3. /\ OnlyMoves(r) /\ handlers'[r].pc \in {"idle", "notifyRemoved"}
      /\ handlers'[r].pc = "notifyRemoved" =>
           handlers'[r].row = handlers[r].row /\ handlers'[r].ref = handlers[r].ref
  <2>1. CASE Respond(r)
    BY <2>1, RespondMoves
  <2>2. CASE Goto(r, "notifyRemoved")
    BY <1>1, <2>2, GotoMoves
  <2> QED BY <2>1, <2>2 DEF CommitBlock
<1>4. RowsGoOn
  BY <1>1 DEF RowsGoOn, RowInv
<1>5. WaitsForLocks(r)
  <2>1. \A f \in friendships : f.id = handlers[r].row => ~FriendshipLocked(r, f.id)
    BY <1>1, <1>2 DEF KnowsRow, LockedRowsWait, Locking, FriendshipLocked, TypeOK,
       DatabaseTypeOK, Friendship, RowId
  <2> QED BY <1>1, <1>3, <2>1 DEF WaitsForLocks, Locking
<1>6. handlers'[r].pc # "idle" => KnowsRow(r)'
  <2> SUFFICES ASSUME handlers'[r].pc = "notifyRemoved" PROVE KnowsRow(r)'
    BY <1>3
  <2>1. handlers'[r].row \notin Ids(friendships')
    BY <1>1, <1>3 DEF Ids
  <2> QED
    BY <1>1, <1>2, <1>3, <2>1 DEF KnowsRow, MayActOnRow, LockedRowsWait, MayTell, Accepting,
       Locking, Ids
<1> QED BY <1>1, <1>3, <1>4, <1>5, <1>6, NothingSaid, StepKeepsRows

\* Lifting a block touches no other table.
LEMMA RemoveBlockRows ==
  ASSUME TypeOK, RowInv, NEW r \in Slots, RemoveBlock(r)
  PROVE  RowInv'
<1>1. Silent /\ Respond(r) /\ UNCHANGED <<friendships, messageRequests, messages, nextId>>
  BY DEF RemoveBlock
<1>2. OnlyMoves(r) /\ handlers'[r].pc = "idle"
  BY <1>1, RespondMoves
<1>3. RowsGoOn
  BY <1>1 DEF RowsGoOn, RowInv
<1>4. WaitsForLocks(r)
  BY <1>1, <1>2 DEF WaitsForLocks, Locking
<1> QED BY <1>1, <1>2, <1>3, <1>4, NothingSaid, StepKeepsRows

\* Every query of the block service keeps RowInv.
LEMMA BlockStepRows ==
  ASSUME TypeOK, ConsentInv, RowInv, NEW r \in Slots, BlockStep(r)
  PROVE  RowInv'
  BY InsertBlockRows, FindFriendshipRows, RemoveFriendshipRows, CommitBlockRows,
     RemoveBlockRows DEF BlockStep

-----------------------------------------------------------------------------
(* The message service.                                                    *)

(***************************************************************************)
(* What resolveSendState found: a request to be accepted by a reply has    *)
(* come to the caller.                                                     *)
(***************************************************************************)
LEMMA ResolvedRows ==
  ASSUME TypeOK, RowInv, NEW r \in Slots, UNCHANGED tables, Silent,
         handlers[r].pc \in {"resolveBlock", "resolveFriends", "resolveRequest"},
         NEW state, NEW request, Resolved(r, state, request),
         state = "reply_accepts" =>
           /\ request < nextId
           /\ \A q \in messageRequests :
                q.id = request => q.recipient = handlers[r].user /\ q.requester = handlers[r].peer
  PROVE  RowInv'
<1> DEFINE next == AfterResolve(handlers[r].op, state)
           ref == IF state = "reply_accepts" THEN request ELSE NoId
<1>1. handlers[r] \in Handler /\ nextId \in Nat /\ handlers[r].row < nextId
  BY KnownNow
<1>2. next \in {"insertOpening", "insertMessage", "markRead", "idle"}
  BY DEF AfterResolve, CanSend, MarksRead
<1>3. CASE next = "idle"
  BY <1>3, RespondRows, NothingSaid DEF Resolved
<1>4. CASE next # "idle"
  <2>1. handlers' = [handlers EXCEPT ![r].pc = next, ![r].state = state, ![r].ref = ref]
    BY <1>4 DEF Resolved
  <2>2. /\ OnlyMoves(r) /\ handlers'[r].pc = next /\ handlers'[r].state = state
        /\ handlers'[r].user = handlers[r].user /\ handlers'[r].peer = handlers[r].peer
        /\ handlers'[r].row = handlers[r].row /\ handlers'[r].ref = ref
    BY <1>1, <2>1 DEF OnlyMoves, TypeOK, HandlersTypeOK, Handler
  <2>3. nextId' = nextId /\ messageRequests' = messageRequests /\ NoId < nextId
    BY DEF tables, TypeOK, DatabaseTypeOK, RowId, NoId
  <2>4. handlers'[r].row < nextId' /\ handlers'[r].ref < nextId'
    BY <1>1, <2>2, <2>3
  <2>5. CASE next = "insertMessage"
    <3>1. MayActOnRow(r)'
      BY <2>2, <2>3, <2>5 DEF MayActOnRow, Accepting
    <3>2. KnowsRow(r)' /\ ~Locking(r)'
      BY <2>2, <2>4, <2>5, <3>1 DEF KnowsRow, LockedRowsWait, MayTell, Locking
    <3> QED BY <2>2, <3>2, QueryKeepsRows
  <2>6. CASE next # "insertMessage"
    BY <1>2, <1>4, <2>2, <2>4, <2>6, EmptyKnows, QueryKeepsRows DEF Empty
  <2> QED BY <2>5, <2>6
<1> QED BY <1>3, <1>4

\* Each of the three queries of resolveSendState.
LEMMA ResolveRows ==
  ASSUME TypeOK, ConsentInv, RowInv, NEW r \in Slots,
         ResolveBlock(r) \/ ResolveFriends(r) \/ ResolveRequest(r)
  PROVE  RowInv'
<1>1. /\ handlers[r].pc \in {"resolveBlock", "resolveFriends", "resolveRequest"}
      /\ UNCHANGED tables /\ Silent
  BY DEF ResolveBlock, ResolveFriends, ResolveRequest, At
<1>2. CASE ResolveBlock(r)
  BY <1>1, <1>2, ResolvedRows, GotoRows DEF ResolveBlock
<1>3. CASE ResolveFriends(r)
  BY <1>1, <1>3, ResolvedRows, GotoRows DEF ResolveFriends
<1>4. CASE ResolveRequest(r)
  <2> DEFINE found == RequestsBetween(handlers[r].user, handlers[r].peer)
  <2>1. CASE found = {}
    BY <1>1, <1>4, <2>1, ResolvedRows DEF ResolveRequest
  <2>2. CASE found # {}
    <3>1. PICK q \in found : Resolved(r, StateOf(q, handlers[r].user), q.id)
      BY <1>4, <2>2 DEF ResolveRequest
    <3>2. q \in messageRequests /\ q.id < nextId /\ \A p \in messageRequests : p.id = q.id => p = q
      BY DEF RequestsBetween, ConsentInv, OnRecord, RowsNumbered
    <3>3. StateOf(q, handlers[r].user) = "reply_accepts" =>
            q.recipient = handlers[r].user /\ q.requester = handlers[r].peer
      <4>1. q.recipient = handlers[r].user => q.requester = handlers[r].peer
        <5>1. RequestPair(q) = {handlers[r].user, handlers[r].peer}
          BY DEF RequestsBetween
        <5> QED BY <5>1 DEF RequestPair
      <4> QED BY <4>1 DEF StateOf
    <3> QED BY <1>1, <3>1, <3>2, <3>3, ResolvedRows
  <2> QED BY <2>1, <2>2
<1> QED BY <1>2, <1>3, <1>4

\* The new message has the number that was next.
LEMMA InsertMessageRows ==
  ASSUME TypeOK, RowInv, NEW r \in Slots, InsertMessage(r)
  PROVE  RowInv'
<1> DEFINE next == IF handlers[r].state = "reply_accepts" THEN "settleReply" ELSE "notifyMessage"
<1>1. /\ handlers[r].pc = "insertMessage" /\ Silent
      /\ messages' = messages \cup {NewMessage(r)} /\ nextId' = nextId + 1
      /\ handlers' = [handlers EXCEPT ![r].row = nextId, ![r].pc = next]
      /\ UNCHANGED <<friendships, messageRequests>>
  BY DEF InsertMessage, At, TakeId
<1>2. /\ handlers[r] \in Handler /\ KnowsRow(r) /\ nextId \in Nat
      /\ handlers[r].ref \in Nat /\ handlers[r].ref < nextId
  BY <1>1, KnownNow
<1>3. /\ OnlyMoves(r) /\ handlers'[r].pc = next /\ handlers'[r].state = handlers[r].state
      /\ handlers'[r].user = handlers[r].user /\ handlers'[r].peer = handlers[r].peer
      /\ handlers'[r].row = nextId /\ handlers'[r].ref = handlers[r].ref
  BY <1>1, <1>2 DEF OnlyMoves, TypeOK, HandlersTypeOK, Handler
<1>4. NewMessage(r).id = nextId /\ NewMessage(r).recipient = handlers[r].peer
  BY DEF NewMessage
<1>5. RowsGoOn
  <2>1. \A m \in messages' : m.id < nextId'
    BY <1>1, <1>2, <1>4 DEF RowInv, TypeOK, DatabaseTypeOK, Message, RowId
  <2> QED BY <1>1, <2>1 DEF RowsGoOn
<1>6. WaitsForLocks(r)
  BY <1>1, <1>3 DEF WaitsForLocks, Locking
<1>7. handlers'[r].row < nextId' /\ handlers'[r].ref < nextId'
  BY <1>1, <1>2, <1>3
<1>8. /\ handlers'[r].pc \in {"settleReply", "notifyMessage"}
      /\ handlers'[r].pc = "settleReply" => handlers[r].state = "reply_accepts"
  BY <1>3
<1>9. MayActOnRow(r)'
  <2>1. handlers[r].state = "reply_accepts" =>
          \A q \in messageRequests : q.id = handlers[r].ref =>
            q.recipient = handlers[r].user /\ q.requester = handlers[r].peer
    BY <1>1, <1>2 DEF KnowsRow, MayActOnRow
  <2>2. handlers'[r].pc = "settleReply" =>
          \A q \in messageRequests' : q.id = handlers'[r].ref =>
            q.recipient = handlers'[r].user /\ q.requester = handlers'[r].peer
    BY <1>1, <1>3, <1>8, <2>1
  <2> HIDE DEF next
  <2> QED BY <1>8, <2>2 DEF MayActOnRow, Accepting
<1>10. MayTell(r)'
  <2>1. \E m \in messages' : m.id = handlers'[r].row /\ m.recipient = handlers'[r].peer
    BY <1>1, <1>3, <1>4
  <2> HIDE DEF next
  <2> QED BY <1>8, <2>1 DEF MayTell
<1>11. KnowsRow(r)'
  BY <1>7, <1>8, <1>9, <1>10 DEF KnowsRow, LockedRowsWait, Locking
<1> QED BY <1>1, <1>3, <1>5, <1>6, <1>11, NothingSaid, StepKeepsRows

\* A decision is made of an undecided row that nobody has locked.
LEMMA SetStatusGoesOn ==
  ASSUME TypeOK, RowInv, NEW r \in Slots, NEW i, NEW status \in {"accepted", "declined"},
         SetStatus(i, status), ~RequestLocked(r, i), ~Locking(r)',
         UNCHANGED <<friendships, messages, nextId>>
  PROVE  /\ RowsGoOn /\ WaitsForLocks(r)
         /\ \A q \in messageRequests' : q.id = i =>
              /\ q.status # "pending"
              /\ \E p \in messageRequests : p.id = i /\ p.requester = q.requester
<1> DEFINE decided(q) == [q EXCEPT !.status = status]
<1>1. \A q \in messageRequests :
        /\ decided(q).id = q.id /\ decided(q).requester = q.requester
        /\ decided(q).recipient = q.recipient /\ decided(q).status = status
  BY DEF TypeOK, DatabaseTypeOK, MessageRequest
<1>2. \A q \in messageRequests' :
        \/ q \in messageRequests /\ q \notin Undecided(i)
        \/ \E p \in Undecided(i) : q = decided(p)
  BY DEF SetStatus
<1>3. \A q \in Undecided(i) : q \in messageRequests /\ q.id = i /\ q.status = "pending"
  BY DEF Undecided
<1>4. \A q \in messageRequests' : \E p \in messageRequests :
        /\ p.id = q.id /\ p.requester = q.requester /\ p.recipient = q.recipient
        /\ p.status # "pending" => q.status # "pending"
  <2> TAKE q \in messageRequests'
  <2>1. CASE q \in messageRequests
    BY <2>1
  <2>2. ASSUME NEW p \in Undecided(i), q = decided(p)
        PROVE  /\ p \in messageRequests
               /\ p.id = q.id /\ p.requester = q.requester /\ p.recipient = q.recipient
               /\ q.status # "pending"
    BY <1>1, <1>3, <2>2
  <2> QED BY <1>2, <2>1, <2>2
<1>5. RowsGoOn
  BY <1>4 DEF RowsGoOn, RowInv
<1>6. WaitsForLocks(r)
  BY <1>1, <1>2, <1>3 DEF WaitsForLocks
<1>7. \A q \in messageRequests' : q.id = i => q.status # "pending"
  BY <1>1, <1>2, <1>3 DEF Undecided
<1> QED BY <1>4, <1>5, <1>6, <1>7

\* Replying decides the request, if it still waits.
LEMMA SettleReplyRows ==
  ASSUME TypeOK, RowInv, NEW r \in Slots, SettleReply(r)
  PROVE  RowInv'
<1> DEFINE next == IF Undecided(handlers[r].ref) # {} THEN "notifyReply" ELSE "notifyMessage"
<1>1. /\ handlers[r].pc = "settleReply" /\ Silent /\ Goto(r, next)
      /\ ~RequestLocked(r, handlers[r].ref) /\ SetStatus(handlers[r].ref, "accepted")
      /\ UNCHANGED <<friendships, messages, nextId>>
  BY DEF SettleReply, At
<1>2. KnowsRow(r) /\ handlers[r].row < nextId /\ handlers[r].ref < nextId
  BY <1>1, KnownNow
<1>3. /\ OnlyMoves(r) /\ handlers'[r].pc = next
      /\ handlers'[r].peer = handlers[r].peer
      /\ handlers'[r].row = handlers[r].row /\ handlers'[r].ref = handlers[r].ref
  BY <1>1, GotoMoves
<1>4. ~Locking(r)'
  BY <1>3 DEF Locking
<1>5. /\ RowsGoOn /\ WaitsForLocks(r)
      /\ \A q \in messageRequests' : q.id = handlers[r].ref =>
           q.status # "pending" /\ q.requester = handlers[r].peer
  <2>1. \A q \in messageRequests : q.id = handlers[r].ref => q.requester = handlers[r].peer
    BY <1>1, <1>2 DEF KnowsRow, MayActOnRow
  <2> QED BY <1>1, <1>4, <2>1, SetStatusGoesOn
<1>6. MayTell(r)'
  BY <1>1, <1>2, <1>3, <1>5 DEF KnowsRow, MayTell
<1>7. KnowsRow(r)'
  BY <1>1, <1>2, <1>3, <1>6 DEF KnowsRow, MayActOnRow, LockedRowsWait, Accepting, Locking
<1> QED BY <1>1, <1>3, <1>5, <1>7, NothingSaid, StepKeepsRows

\* So does an answer.
LEMMA AnswerSetStatusRows ==
  ASSUME TypeOK, RowInv, NEW r \in Slots, AnswerSetStatus(r)
  PROVE  RowInv'
<1>1. /\ handlers[r].pc = "setStatus" /\ Silent
      /\ ~RequestLocked(r, handlers[r].row)
      /\ SetStatus(handlers[r].row, Decision(handlers[r].op))
      /\ UNCHANGED <<friendships, messages, nextId>>
  BY DEF AnswerSetStatus, At
<1>2. handlers[r].row < nextId /\ handlers[r].ref < nextId
  BY <1>1, KnownNow
<1>3. /\ OnlyMoves(r) /\ handlers'[r].pc \in {"idle", "notifyRequestAccepted"}
      /\ handlers'[r].pc = "notifyRequestAccepted" =>
           /\ handlers'[r].row = handlers[r].row /\ handlers'[r].ref = handlers[r].ref
           /\ handlers'[r].peer = handlers[r].peer
  <2>1. CASE Respond(r)
    BY <2>1, RespondMoves
  <2>2. CASE Goto(r, "notifyRequestAccepted")
    BY <1>1, <2>2, GotoMoves
  <2> QED BY <2>1, <2>2 DEF AnswerSetStatus
<1>4. Decision(handlers[r].op) \in {"accepted", "declined"} /\ ~Locking(r)'
  BY <1>3 DEF Decision, Locking
<1>5. /\ RowsGoOn /\ WaitsForLocks(r)
      /\ \A q \in messageRequests' : q.id = handlers[r].row =>
           q.status # "pending" /\ q.requester = handlers[r].peer
  <2>1. \A q \in messageRequests : q.id = handlers[r].row => q.requester = handlers[r].peer
    BY <1>1, KnownNow DEF KnowsRow, MayActOnRow
  <2> QED BY <1>1, <1>4, <2>1, SetStatusGoesOn
<1>6. handlers'[r].pc # "idle" => KnowsRow(r)'
  BY <1>1, <1>2, <1>3, <1>5 DEF KnowsRow, MayActOnRow, LockedRowsWait, MayTell, Accepting, Locking
<1> QED BY <1>1, <1>3, <1>5, <1>6, NothingSaid, StepKeepsRows

\* An opening message and its request have the number that was next.
LEMMA InsertOpeningRows ==
  ASSUME TypeOK, RowInv, NEW r \in Slots, InsertOpening(r)
  PROVE  RowInv'
<1>1. handlers[r].pc = "insertOpening" /\ Silent /\ UNCHANGED <<friendships, blocks, befriended>>
  BY DEF InsertOpening, At
<1>2. CASE RequestsBetween(handlers[r].user, handlers[r].peer) # {}
  BY <1>1, <1>2, RespondRows, NothingSaid DEF InsertOpening, DropMessage, tables
<1>3. CASE RequestsBetween(handlers[r].user, handlers[r].peer) = {}
  <2> DEFINE new == [id |-> nextId, requester |-> handlers[r].user,
                     recipient |-> handlers[r].peer, status |-> "pending"]
  <2>1. /\ messages' = messages \cup {NewMessage(r)} /\ nextId' = nextId + 1
        /\ messageRequests' = messageRequests \cup {new}
        /\ handlers' = [handlers EXCEPT ![r].pc = "notifyOpening", ![r].row = nextId]
    BY <1>3 DEF InsertOpening, TakeId
  <2>2. /\ handlers[r] \in Handler /\ nextId \in Nat
        /\ handlers[r].ref \in Nat /\ handlers[r].ref < nextId
    BY <1>1, KnownNow
  <2>3. /\ OnlyMoves(r) /\ handlers'[r].pc = "notifyOpening"
        /\ handlers'[r].peer = handlers[r].peer
        /\ handlers'[r].row = nextId /\ handlers'[r].ref = handlers[r].ref
    BY <2>1, <2>2 DEF OnlyMoves, TypeOK, HandlersTypeOK, Handler
  <2>4. NewMessage(r).id = nextId /\ NewMessage(r).recipient = handlers[r].peer
    BY DEF NewMessage
  <2>5. RowsGoOn
    <3>1. \A m \in messages' : m.id < nextId'
      BY <2>1, <2>2, <2>4 DEF RowInv, TypeOK, DatabaseTypeOK, Message, RowId
    <3>2. \A q \in messageRequests' : q.id = nextId \/ q \in messageRequests
      BY <2>1
    <3> QED BY <1>1, <2>1, <3>1, <3>2 DEF RowsGoOn
  <2>6. WaitsForLocks(r)
    BY <1>1, <2>1, <2>3 DEF WaitsForLocks, Locking
  <2>7. handlers'[r].row < nextId' /\ handlers'[r].ref < nextId'
    BY <2>1, <2>2, <2>3
  <2>8. MayTell(r)'
    BY <2>1, <2>3, <2>4 DEF MayTell
  <2>9. KnowsRow(r)'
    BY <2>3, <2>7, <2>8 DEF KnowsRow, MayActOnRow, LockedRowsWait, Accepting, Locking
  <2> QED BY <1>1, <2>3, <2>5, <2>6, <2>9, NothingSaid, StepKeepsRows
<1> QED BY <1>2, <1>3

\* The page is fetched with nothing else in hand.
LEMMA FindPageRows ==
  ASSUME TypeOK, RowInv, NEW r \in Slots, FindPage(r)
  PROVE  RowInv'
<1>1. handlers[r].pc = "findPage" /\ UNCHANGED tables /\ Silent
  BY DEF FindPage, At
<1>2. handlers[r] \in Handler /\ handlers[r].row < nextId /\ handlers[r].ref < nextId
  BY <1>1, KnownNow
<1>3. /\ OnlyMoves(r) /\ handlers'[r].pc = "resolveBlock"
      /\ handlers'[r].row = handlers[r].row /\ handlers'[r].ref = handlers[r].ref
  BY <1>2 DEF FindPage, OnlyMoves, TypeOK, HandlersTypeOK, Handler
<1>4. Empty(r)' /\ handlers'[r].row < nextId' /\ handlers'[r].ref < nextId'
  BY <1>1, <1>2, <1>3 DEF Empty, tables
<1> QED BY <1>1, <1>3, <1>4, EmptyKnows, QueryKeepsRows

\* The messages marked are the partner's, and stay where they are.
LEMMA MarkReadRows ==
  ASSUME TypeOK, RowInv, NEW r \in Slots, MarkRead(r)
  PROVE  RowInv'
<1> DEFINE marked(m) == [m EXCEPT !.read = TRUE]
<1>1. /\ handlers[r].pc = "markRead" /\ Silent
      /\ messages' = (messages \ ToMark(r)) \cup {marked(m) : m \in ToMark(r)}
      /\ UNCHANGED <<friendships, messageRequests, nextId>>
  BY DEF MarkRead, At
<1>2. handlers[r] \in Handler /\ handlers[r].row < nextId /\ handlers[r].ref < nextId
  BY <1>1, KnownNow
<1>3. \A m \in ToMark(r) : m \in messages /\ m.sender = handlers[r].peer
  BY DEF ToMark, UnreadFrom
<1>4. \A m \in messages :
        /\ marked(m).id = m.id /\ marked(m).sender = m.sender
        /\ marked(m).recipient = m.recipient /\ marked(m).read
  BY DEF TypeOK, DatabaseTypeOK, Message
<1>5. RowsGoOn
  <2>1. \A m \in messages : \E n \in messages' :
          /\ n.id = m.id /\ n.sender = m.sender /\ n.recipient = m.recipient
          /\ m.read => n.read
    <3> TAKE m \in messages
    <3>1. CASE m \in ToMark(r)
      <4>1. marked(m) \in messages'
        BY <1>1, <3>1
      <4> QED BY <1>4, <4>1
    <3>2. CASE m \notin ToMark(r)
      BY <1>1, <3>2
    <3> QED BY <3>1, <3>2
  <2>2. \A m \in messages' : m.id < nextId
    BY <1>1, <1>3, <1>4 DEF RowInv
  <2> QED BY <1>1, <2>1, <2>2 DEF RowsGoOn
<1>6. CASE ToMark(r) = {}
  <2>1. OnlyMoves(r) /\ handlers'[r].pc = "idle"
    BY <1>6, RespondMoves DEF MarkRead
  <2>2. WaitsForLocks(r)
    BY <1>1, <2>1 DEF WaitsForLocks, Locking
  <2> QED BY <1>1, <1>5, <2>1, <2>2, NothingSaid, StepKeepsRows
<1>7. CASE ToMark(r) # {}
  <2>1. /\ OnlyMoves(r) /\ handlers'[r].pc = "notifyRead"
        /\ handlers'[r].peer = handlers[r].peer /\ handlers'[r].page = Ids(ToMark(r))
        /\ handlers'[r].row = handlers[r].row /\ handlers'[r].ref = handlers[r].ref
    BY <1>2, <1>7 DEF MarkRead, OnlyMoves, TypeOK, HandlersTypeOK, Handler
  <2>2. \A i \in Ids(ToMark(r)) :
          \E m \in messages' : m.id = i /\ m.sender = handlers[r].peer /\ m.read
    <3> TAKE i \in Ids(ToMark(r))
    <3>1. PICK m \in ToMark(r) : m.id = i
      BY DEF Ids
    <3>2. marked(m) \in messages'
      BY <1>1
    <3> QED BY <1>3, <1>4, <3>1, <3>2
  <2>3. MayTell(r)'
    BY <2>1, <2>2 DEF MayTell
  <2>4. KnowsRow(r)'
    BY <1>1, <1>2, <2>1, <2>3 DEF KnowsRow, MayActOnRow, LockedRowsWait, Accepting, Locking
  <2>5. WaitsForLocks(r)
    BY <1>1, <2>1 DEF WaitsForLocks, Locking
  <2> QED BY <1>1, <1>5, <2>1, <2>4, <2>5, NothingSaid, StepKeepsRows
<1> QED BY <1>6, <1>7

\* The request is the one loaded, and has come to the caller.
LEMMA LoadRequestRows ==
  ASSUME TypeOK, ConsentInv, RowInv, NEW r \in Slots, LoadRequest(r)
  PROVE  RowInv'
<1>1. UNCHANGED tables /\ Silent /\ handlers[r].pc = "loadRequest"
  BY DEF LoadRequest, At
<1>2. CASE Respond(r)
  BY <1>1, <1>2, RespondRows, NothingSaid
<1>3. CASE ~Respond(r)
  <2>1. PICK q \in messageRequests :
          /\ q.id = handlers[r].row /\ q.recipient = handlers[r].user
          /\ handlers' = [handlers EXCEPT ![r].pc = "setStatus", ![r].peer = q.requester]
    BY <1>3 DEF LoadRequest, MayAnswer
  <2>2. handlers[r] \in Handler /\ handlers[r].row < nextId /\ handlers[r].ref < nextId
    BY <1>1, KnownNow
  <2>3. /\ OnlyMoves(r) /\ handlers'[r].pc = "setStatus"
        /\ handlers'[r].user = handlers[r].user /\ handlers'[r].peer = q.requester
        /\ handlers'[r].row = handlers[r].row /\ handlers'[r].ref = handlers[r].ref
    BY <2>1, <2>2 DEF OnlyMoves, TypeOK, HandlersTypeOK, Handler
  <2>4. \A p \in messageRequests : p.id = handlers[r].row =>
          p.recipient = handlers[r].user /\ p.requester = q.requester
    BY <2>1 DEF ConsentInv, OnRecord, RowsNumbered
  <2>5. KnowsRow(r)' /\ ~Locking(r)'
    BY <1>1, <2>2, <2>3, <2>4 DEF KnowsRow, MayActOnRow, LockedRowsWait, MayTell, Accepting,
       Locking, tables
  <2> QED BY <1>1, <2>3, <2>5, QueryKeepsRows
<1> QED BY <1>2, <1>3

\* What the message service announces is what it has committed.
LEMMA MessageNotifies ==
  ASSUME TypeOK, RowInv, NEW r \in Slots,
         \/ NotifyReply(r) \/ NotifyMessage(r) \/ NotifyOpening(r) \/ NotifyRead(r)
         \/ NotifyRequestAccepted(r)
  PROVE  RowInv'
<1>1. /\ handlers[r].pc \in {"notifyReply", "notifyMessage", "notifyOpening", "notifyRead",
                             "notifyRequestAccepted"}
      /\ Respond(r) /\ UNCHANGED tables
  BY DEF NotifyReply, NotifyMessage, NotifyOpening, NotifyRead, NotifyRequestAccepted, At
<1>2. MayTell(r)
  BY <1>1, KnownNow DEF KnowsRow
<1> USE DEF At, Emit, Events, EventsFollowCommits, MayTell, tables
<1>3. CASE NotifyReply(r)
  BY <1>1, <1>2, <1>3, RespondRows DEF NotifyReply
<1>4. CASE NotifyMessage(r)
  BY <1>1, <1>2, <1>4, RespondRows DEF NotifyMessage
<1>5. CASE NotifyOpening(r)
  BY <1>1, <1>2, <1>5, RespondRows DEF NotifyOpening
<1>6. CASE NotifyRead(r)
  BY <1>1, <1>2, <1>6, RespondRows DEF NotifyRead
<1>7. CASE NotifyRequestAccepted(r)
  BY <1>1, <1>2, <1>7, RespondRows DEF NotifyRequestAccepted
<1> QED BY <1>3, <1>4, <1>5, <1>6, <1>7

\* Every query of the message service keeps RowInv.
LEMMA MessageStepRows ==
  ASSUME TypeOK, ConsentInv, RowInv, NEW r \in Slots, MessageStep(r)
  PROVE  RowInv'
  BY ResolveRows, InsertMessageRows, SettleReplyRows, InsertOpeningRows, FindPageRows,
     MarkReadRows, LoadRequestRows, AnswerSetStatusRows, MessageNotifies DEF MessageStep

-----------------------------------------------------------------------------
\* There is no row, no event and no request.
LEMMA InitRows == Init => RowInv
  BY DEF Init, DatabaseInit, HandlersInit, Idle, RowInv, EventsFollowCommits

\* Every step keeps RowInv.
LEMMA NextRows == TypeOK /\ ConsentInv /\ RowInv /\ [Next]_vars => RowInv'
<1> SUFFICES ASSUME TypeOK, ConsentInv, RowInv, [Next]_vars
             PROVE  RowInv'
  OBVIOUS
<1>1. CASE UNCHANGED vars
  BY <1>1 DEF vars, tables, RowInv, EventsFollowCommits, KnowsRow, MayActOnRow,
     LockedRowsWait, MayTell, Accepting, Locking, Between, FriendPair, Ids
<1>2. ASSUME NEW r \in Slots, Fail(r) \/ RejectInsert(r)
      PROVE  RowInv'
  BY <1>2, RespondRows, NothingSaid DEF Fail, RejectInsert
<1> QED
  BY <1>1, <1>2, ArriveRows, FriendStepRows, BlockStepRows, MessageStepRows DEF Next, Step

(***************************************************************************)
(* All that is known of a reachable state: what the handlers have found    *)
(* out some queries ago, the locks they hold and what they are about to    *)
(* announce, whatever the others have done since.                          *)
(***************************************************************************)
THEOREM CoreInvariant == Spec => []CoreInv
<1>1. TypeOK /\ ConsentInv /\ RowInv /\ [Next]_vars => RowInv'
  BY NextRows
<1>2. BlockInv /\ ConsentInv /\ RowInv => CoreInv
  BY DEF CoreInv
<1> QED BY InitRows, <1>1, <1>2, TypeCorrect, BlockInvariant, ConsentInvariant, PTL DEF Spec

(***************************************************************************)
(* notify... of the three services: no event is ahead of its COMMIT, or    *)
(* speaks of what has been undone before it was emitted.  A row that is    *)
(* gone by then binds nothing, the recipient of friend:removed is not      *)
(* compared with it, and message:request_accepted says no more than that   *)
(* its row, if there, is decided and is the recipient's.                   *)
(***************************************************************************)
THEOREM EventsAreTrue == Spec => []EventsFollowCommits
<1>1. CoreInv => EventsFollowCommits
  BY DEF CoreInv, RowInv
<1> QED BY <1>1, CoreInvariant, PTL

-----------------------------------------------------------------------------
(* What a step may do to a row, and who takes it.                          *)

\* The steps that change a row somebody else can see.
Commits(r) ==
  \/ InsertFriendship(r) \/ CommitAccept(r) \/ DeleteFriendship(r)
  \/ CommitBlock(r) \/ RemoveBlock(r)
  \/ InsertMessage(r) \/ SettleReply(r) \/ InsertOpening(r) \/ AnswerSetStatus(r)
  \/ MarkRead(r)

rows == <<friendships, messageRequests, blocks, messages, befriended>>

LEMMA OnlyCommits ==
  ASSUME [Next]_vars
  PROVE  UNCHANGED rows \/ \E r \in Slots : Commits(r)
<1> USE DEF rows, tables, Commits
<1>1. CASE UNCHANGED vars
  BY <1>1 DEF vars
<1>2. ASSUME NEW r \in Slots, Arrive(r) PROVE UNCHANGED rows
  BY <1>2 DEF Arrive, FriendRequests, BlockRequests, MessageRequests, SendRequest,
     NameFriendship, BlockUser, UnblockUser, SendMessage, GetConversation, AnswerRequest,
     Receive
<1>3. ASSUME NEW r \in Slots, Fail(r) \/ RejectInsert(r) PROVE UNCHANGED rows
  BY <1>3 DEF Fail, RejectInsert
<1>4. ASSUME NEW r \in Slots, FriendStep(r) PROVE UNCHANGED rows \/ Commits(r)
  BY <1>4 DEF FriendStep, CheckBlock, FindExisting, NotifyRequest, LoadFriendship,
     AcceptFriendship, SettleRequest, NotifyAccepted, NotifyRemoved
<1>5. ASSUME NEW r \in Slots, BlockStep(r) PROVE UNCHANGED rows \/ Commits(r)
  BY <1>5 DEF BlockStep, InsertBlock, FindFriendship, RemoveFriendship
<1>6. ASSUME NEW r \in Slots, MessageStep(r) PROVE UNCHANGED rows \/ Commits(r)
  BY <1>6 DEF MessageStep, ResolveBlock, ResolveFriends, ResolveRequest, NotifyReply,
     NotifyMessage, NotifyOpening, FindPage, NotifyRead, LoadRequest, NotifyRequestAccepted
<1> QED BY <1>1, <1>2, <1>3, <1>4, <1>5, <1>6 DEF Next, Step

\* A handler that commits moves on.
LEMMA CommitsAct ==
  ASSUME TypeOK, NEW r \in Slots, Commits(r), NEW us, handlers[r].user \in us
  PROVE  Acts(us)
<1>1. handlers[r].pc # "idle"
  BY DEF Commits, InsertFriendship, CommitAccept, DeleteFriendship, CommitBlock, RemoveBlock,
     InsertMessage, SettleReply, InsertOpening, AnswerSetStatus, MarkRead, At
<1>2. handlers[r] \in Handler
  BY <1>1, WholeRequest DEF TypeOK
<1>3. handlers'[r].pc # handlers[r].pc
  <2>1. CASE Respond(r)
    BY <1>1, <2>1, RespondMoves
  <2>2. CASE ~Respond(r)
    BY <1>2, <2>2 DEF Commits, InsertFriendship, CommitAccept, DeleteFriendship, CommitBlock,
       RemoveBlock, InsertMessage, SettleReply, InsertOpening, AnswerSetStatus, MarkRead, At,
       Goto, TypeOK, HandlersTypeOK, Handler
  <2> QED BY <2>1, <2>2
<1> QED BY <1>1, <1>3 DEF Acts, At

\* The row of CommitAccept becomes a friendship, and nothing else does.
LEMMA FriendshipsMadeByAddressee ==
  ASSUME TypeOK, CoreInv, NEW r \in Slots, Commits(r),
         NEW f \in friendships', f.status = "accepted", f \notin friendships
  PROVE  Acts({f.addressee})
<1>1. CASE CommitAccept(r)
  <2>1. PICK g \in friendships : g.id = handlers[r].row /\ f = [g EXCEPT !.status = "accepted"]
    BY <1>1 DEF CommitAccept
  <2>2. f.addressee = g.addressee
    BY <2>1 DEF TypeOK, DatabaseTypeOK, Friendship
  <2>3. g.addressee = handlers[r].user
    BY <1>1, <2>1, KnownNow DEF CommitAccept, At, CoreInv, KnowsRow, MayActOnRow, Accepting
  <2> QED BY <2>2, <2>3, CommitsAct
<1>2. CASE ~CommitAccept(r)
  BY <1>2 DEF Commits, InsertFriendship, DeleteFriendship, CommitBlock, RemoveBlock,
     InsertMessage, SettleReply, InsertOpening, AnswerSetStatus, MarkRead
<1> QED BY <1>1, <1>2

\* Only DeleteFriendship and CommitBlock remove a friendship.
LEMMA FriendshipsEndedByParticipant ==
  ASSUME TypeOK, CoreInv, NEW r \in Slots, Commits(r),
         NEW f \in friendships, f.id \notin Ids(friendships)'
  PROVE  Acts(FriendPair(f))
<1>1. \A g \in friendships' : g.id # f.id
  BY DEF Ids
<1>2. CASE DeleteFriendship(r) \/ CommitBlock(r)
  <2>1. f.id = handlers[r].row /\ handlers[r].pc \in {"deleteFriendship", "commitBlock"}
    BY <1>1, <1>2 DEF DeleteFriendship, CommitBlock, LoadedFriendship, At
  <2>2. FriendPair(f) = Between(r)
    BY <2>1, KnownNow DEF CoreInv, KnowsRow, MayActOnRow
  <2> QED BY <2>2, CommitsAct DEF Between
<1>3. CASE CommitAccept(r)
  <2> DEFINE image(g) == IF g.id = handlers[r].row THEN [g EXCEPT !.status = "accepted"] ELSE g
  <2>1. image(f) \in friendships' /\ image(f).id = f.id
    BY <1>3 DEF CommitAccept, TypeOK, DatabaseTypeOK, Friendship
  <2> QED BY <1>1, <2>1
<1>4. CASE ~(DeleteFriendship(r) \/ CommitBlock(r) \/ CommitAccept(r))
  BY <1>1, <1>4 DEF Commits, InsertFriendship, RemoveBlock,
     InsertMessage, SettleReply, InsertOpening, AnswerSetStatus, MarkRead
<1> QED BY <1>2, <1>3, <1>4

\* Only SettleReply and AnswerSetStatus decide a message request.
LEMMA RequestsDecidedByRecipient ==
  ASSUME TypeOK, CoreInv, NEW r \in Slots, Commits(r),
         NEW q \in messageRequests', q.status # "pending", q \notin messageRequests
  PROVE  Acts({q.recipient})
<1>1. ASSUME NEW i, NEW status, SetStatus(i, status),
             \A p \in messageRequests : p.id = i => p.recipient = handlers[r].user
      PROVE  q.recipient = handlers[r].user
  <2>1. PICK p \in messageRequests : p.id = i /\ q = [p EXCEPT !.status = status]
    BY <1>1 DEF SetStatus, Undecided
  <2>2. q.recipient = p.recipient
    BY <2>1 DEF TypeOK, DatabaseTypeOK, MessageRequest
  <2> QED BY <1>1, <2>1, <2>2
<1>2. CASE SettleReply(r)
  <2>1. \A p \in messageRequests : p.id = handlers[r].ref => p.recipient = handlers[r].user
    BY <1>2, KnownNow DEF SettleReply, At, CoreInv, KnowsRow, MayActOnRow
  <2> QED BY <1>1, <1>2, <2>1, CommitsAct DEF SettleReply
<1>3. CASE AnswerSetStatus(r)
  <2>1. \A p \in messageRequests : p.id = handlers[r].row => p.recipient = handlers[r].user
    BY <1>3, KnownNow DEF AnswerSetStatus, At, CoreInv, KnowsRow, MayActOnRow
  <2> QED BY <1>1, <1>3, <2>1, CommitsAct DEF AnswerSetStatus
<1>4. CASE InsertOpening(r)
  BY <1>4 DEF InsertOpening
<1>5. CASE ~(SettleReply(r) \/ AnswerSetStatus(r) \/ InsertOpening(r))
  BY <1>5 DEF Commits, InsertFriendship, CommitAccept, DeleteFriendship, CommitBlock,
     RemoveBlock, InsertMessage, MarkRead
<1> QED BY <1>2, <1>3, <1>4, <1>5

\* Only RemoveBlock lifts a block.
LEMMA BlocksLiftedByBlocker ==
  ASSUME TypeOK, NEW r \in Slots, Commits(r), NEW b \in blocks, b \notin blocks'
  PROVE  Acts({b.blocker})
<1>1. RemoveBlock(r) /\ b \in OwnBlock(r)
  BY DEF Commits, InsertFriendship, CommitAccept, DeleteFriendship, CommitBlock, RemoveBlock,
     InsertMessage, SettleReply, InsertOpening, AnswerSetStatus, MarkRead
<1> QED BY <1>1, CommitsAct DEF OwnBlock

(***************************************************************************)
(* acceptRequest, deleteFriendship, blockUser, setStatus and unblockUser   *)
(* check the caller against a row they loaded before: whatever has         *)
(* happened since, the row they change is the caller's to change.          *)
(***************************************************************************)
THEOREM OnlyTheEntitledAct == Spec => OnlyTheEntitled
<1> DEFINE step ==
      /\ \A f \in friendships' : f.status = "accepted" /\ f \notin friendships =>
           Acts({f.addressee})
      /\ \A f \in friendships : f.id \notin Ids(friendships)' => Acts(FriendPair(f))
      /\ \A q \in messageRequests' : q.status # "pending" /\ q \notin messageRequests =>
           Acts({q.recipient})
      /\ \A b \in blocks : b \notin blocks' => Acts({b.blocker})
<1>1. TypeOK /\ CoreInv /\ [Next]_vars => [step]_vars
  <2>1. SUFFICES ASSUME TypeOK, CoreInv, [Next]_vars PROVE step
    OBVIOUS
  <2>2. CASE UNCHANGED rows
    BY <2>2 DEF rows, Ids
  <2>3. ASSUME NEW r \in Slots, Commits(r) PROVE step
    <3>1. ASSUME NEW f \in friendships', f.status = "accepted", f \notin friendships
          PROVE  Acts({f.addressee})
      BY <2>1, <2>3, <3>1, FriendshipsMadeByAddressee
    <3>2. ASSUME NEW f \in friendships, f.id \notin Ids(friendships)'
          PROVE  Acts(FriendPair(f))
      BY <2>1, <2>3, <3>2, FriendshipsEndedByParticipant
    <3>3. ASSUME NEW q \in messageRequests', q.status # "pending", q \notin messageRequests
          PROVE  Acts({q.recipient})
      BY <2>1, <2>3, <3>3, RequestsDecidedByRecipient
    <3>4. ASSUME NEW b \in blocks, b \notin blocks' PROVE Acts({b.blocker})
      BY <2>1, <2>3, <3>4, BlocksLiftedByBlocker
    <3> QED BY <3>1, <3>2, <3>3, <3>4
  <2> QED BY <2>1, <2>2, <2>3, OnlyCommits
<1>2. OnlyTheEntitled <=> [][step]_vars
  BY DEF OnlyTheEntitled
<1> HIDE DEF step
<1> QED BY <1>1, <1>2, TypeCorrect, CoreInvariant, PTL DEF Spec

\* CommitAccept makes friends of two who were not.
LEMMA AcceptanceBefriends ==
  ASSUME TypeOK, CoreInv, NEW r \in Slots, CommitAccept(r),
         NEW u, NEW v, {u, v} = Between(r)
  PROVE  ~AreFriends(u, v) /\ AreFriends(u, v)'
<1>1. KnowsRow(r) /\ StillJustified(r) /\ handlers[r].pc = "commitAccept"
  BY KnownNow DEF CommitAccept, At, CoreInv, ConsentInv
<1>2. PICK f \in friendships : f.id = handlers[r].row /\ f.status = "pending"
  BY <1>1 DEF KnowsRow, LockedRowsWait
<1>3. FriendPair(f) = {u, v}
  BY <1>1, <1>2 DEF StillJustified, Accepting
<1>4. ~AreFriends(u, v)
  BY <1>2, <1>3 DEF AreFriends, FriendshipsBetween, CoreInv, BlockInv
<1>5. AreFriends(u, v)'
  <2> DEFINE g == [f EXCEPT !.status = "accepted"]
  <2>1. g \in friendships'
    BY <1>2 DEF CommitAccept
  <2>2. g.status = "accepted" /\ FriendPair(g) = FriendPair(f)
    BY DEF TypeOK, DatabaseTypeOK, Friendship, FriendPair
  <2> HIDE DEF g
  <2> QED BY <1>3, <2>1, <2>2 DEF AreFriends, FriendshipsBetween
<1> QED BY <1>4, <1>5

Settled(q) ==
  \/ q \in messageRequests'
  \/ /\ q.status = "pending"
     /\ \/ \E s \in {"accepted", "declined"} : [q EXCEPT !.status = s] \in messageRequests'
        \/ /\ q.id \notin Ids(messageRequests')
           /\ ~AreFriends(q.requester, q.recipient)
           /\ AreFriends(q.requester, q.recipient)'

LEMMA CommitsSettle ==
  ASSUME TypeOK, CoreInv, NEW r \in Slots, Commits(r), NEW q \in messageRequests
  PROVE  Settled(q)
<1>1. CASE CommitAccept(r)
  <2>1. KnowsRow(r) /\ StillJustified(r) /\ handlers[r].pc = "commitAccept"
    BY <1>1, KnownNow DEF CommitAccept, At, CoreInv, ConsentInv
  <2>2. CASE q.id # handlers[r].ref
    BY <1>1, <2>2 DEF CommitAccept, Settled
  <2>3. CASE q.id = handlers[r].ref
    <3>1. q.status = "pending" /\ RequestPair(q) = Between(r)
      BY <2>1, <2>3 DEF KnowsRow, LockedRowsWait, StillJustified
    <3>2. q.id \notin Ids(messageRequests')
      BY <1>1, <2>3 DEF CommitAccept, Ids
    <3>3. ~AreFriends(q.requester, q.recipient) /\ AreFriends(q.requester, q.recipient)'
      BY <1>1, <3>1, AcceptanceBefriends DEF RequestPair
    <3> QED BY <3>1, <3>2, <3>3 DEF Settled
  <2> QED BY <2>2, <2>3
<1>2. ASSUME NEW i, NEW s \in {"accepted", "declined"}, SetStatus(i, s)
      PROVE  Settled(q)
  BY <1>2 DEF SetStatus, Undecided, Settled
<1>3. CASE SettleReply(r)
  BY <1>2, <1>3 DEF SettleReply
<1>4. CASE AnswerSetStatus(r)
  BY <1>2, <1>4 DEF AnswerSetStatus, Decision
<1>5. CASE ~(CommitAccept(r) \/ SettleReply(r) \/ AnswerSetStatus(r))
  BY <1>5 DEF Commits, InsertFriendship, DeleteFriendship, CommitBlock, RemoveBlock,
     InsertMessage, InsertOpening, MarkRead, Settled
<1> QED BY <1>1, <1>3, <1>4, <1>5

(***************************************************************************)
(* setStatus and deletePendingBetween: a message request is decided once,  *)
(* and is deleted only undecided, by the commit that makes the two         *)
(* friends, however long before the handler read it.                       *)
(***************************************************************************)
THEOREM DecisionsAreFinal == Spec => RequestLifecycle
<1> DEFINE step == \A q \in messageRequests : Settled(q)
<1>1. TypeOK /\ CoreInv /\ [Next]_vars => [step]_vars
  <2>1. SUFFICES ASSUME TypeOK, CoreInv, [Next]_vars PROVE step
    OBVIOUS
  <2>2. CASE UNCHANGED rows
    BY <2>2 DEF rows, Settled
  <2>3. ASSUME NEW r \in Slots, Commits(r) PROVE step
    BY <2>1, <2>3, CommitsSettle
  <2> QED BY <2>1, <2>2, <2>3, OnlyCommits
<1>2. RequestLifecycle <=> [][step]_vars
  BY DEF RequestLifecycle, Settled
<1> HIDE DEF step
<1> QED BY <1>1, <1>2, TypeCorrect, CoreInvariant, PTL DEF Spec

-----------------------------------------------------------------------------
(***************************************************************************)
(* The services implement the rules of module Consent, for any users and   *)
(* any number of requests in flight: every commit of a handler is one step *)
(* of Consent on the tables, and every other step none.                    *)
(***************************************************************************)

\* What Consent sees of the tables.
friendsNow == {FriendPair(f) : f \in {g \in friendships : g.status = "accepted"}}
blockedNow == {<<b.blocker, b.blocked>> : b \in blocks}
writtenNow == {<<m.id, m.sender, m.recipient>> : m \in messages}
seenNow == {m.id : m \in {n \in messages : n.read}}

seesFriendships == <<Asked("pending"), friendsNow>>
seesRequests == <<RequestsIn("pending"), RequestsIn("accepted"), RequestsIn("declined")>>
seesMessages == <<writtenNow, seenNow>>

-----------------------------------------------------------------------------
(* What a table that stays leaves as Consent sees it.                      *)

LEMMA SeeFriendships == ASSUME UNCHANGED friendships PROVE UNCHANGED seesFriendships
  BY DEF seesFriendships, Asked, friendsNow

LEMMA SeeRequests == ASSUME UNCHANGED messageRequests PROVE UNCHANGED seesRequests
  BY DEF seesRequests, RequestsIn

LEMMA SeeBlocks == ASSUME UNCHANGED blocks PROVE UNCHANGED blockedNow
  BY DEF blockedNow

LEMMA SeeMessages == ASSUME UNCHANGED messages PROVE UNCHANGED seesMessages
  BY DEF seesMessages, writtenNow, seenNow

\* The request is u's, about v.
Calls(r, u, v) == u = handlers[r].user /\ v = handlers[r].peer

LEMMA Callers ==
  ASSUME TypeOK, NEW r \in Slots, handlers[r].pc # "idle"
  PROVE  \E u, v \in Users : Calls(r, u, v)
  BY WholeRequest DEF TypeOK, Handler, Calls

-----------------------------------------------------------------------------
(* Friendships.                                                            *)

LEMMA InsertIsAsk ==
  ASSUME TypeOK, NEW r \in Slots, InsertFriendship(r),
         NEW u, NEW v, Calls(r, u, v)
  PROVE  UNCHANGED rows \/ Promise!Ask(u, v)
<1> DEFINE new == [id |-> nextId, requester |-> u, addressee |-> v, status |-> "pending"]
<1>1. CASE ~PairIsFree(u, v)
  BY <1>1 DEF InsertFriendship, Calls, rows
<1>2. CASE PairIsFree(u, v)
  <2>1. friendships' = friendships \cup {new}
    BY <1>2 DEF InsertFriendship, Calls
  <2>2. UNCHANGED <<messageRequests, blocks, messages, befriended>>
    BY DEF InsertFriendship
  <2>3. Asked("pending") \cap Promise!Both(u, v) = {} /\ {u, v} \notin friendsNow
    BY <1>2 DEF PairIsFree, FriendshipsBetween, FriendPair, Asked, friendsNow, Promise!Both
  <2>4. new.status = "pending" /\ new.requester = u /\ new.addressee = v
    OBVIOUS
  <2>5. Asked("pending")' = Asked("pending") \cup {<<u, v>>}
    BY <2>1, <2>4 DEF Asked
  <2>6. friendsNow' = friendsNow
    BY <2>1, <2>4 DEF friendsNow
  <2>7. UNCHANGED <<seesRequests, blockedNow, seesMessages>>
    BY <2>2, SeeRequests, SeeBlocks, SeeMessages
  <2> QED BY <2>2, <2>3, <2>5, <2>6, <2>7
          DEF Promise!Ask, Promise!requests, friendsNow, blockedNow, seesRequests,
              seesMessages, writtenNow, seenNow
<1> QED BY <1>1, <1>2

\* The step removes the row numbered i, of u and v if it is still there.
Removes(i, u, v) ==
  /\ \A f \in friendships : f.id = i => FriendPair(f) = {u, v}
  /\ friendships' = {f \in friendships : f.id # i}

\* Without the only row of the pair, the pair is neither asking nor friends.
LEMMA RemovalSeparates ==
  ASSUME BlockInv, NEW i, NEW u, NEW v, Removes(i, u, v)
  PROVE  \/ UNCHANGED friendships
         \/ /\ Asked("pending")' = Asked("pending") \ Promise!Both(u, v)
            /\ friendsNow' = friendsNow \ {{u, v}}
<1>1. CASE \A f \in friendships : f.id # i
  BY <1>1 DEF Removes
<1>2. ASSUME NEW f \in friendships, f.id = i
      PROVE  /\ Asked("pending")' = Asked("pending") \ Promise!Both(u, v)
             /\ friendsNow' = friendsNow \ {{u, v}}
  <2>1. \A g \in friendships : FriendPair(g) = {u, v} <=> g = f
    BY <1>2 DEF BlockInv, Removes
  <2>2. friendships' = friendships \ {f}
    BY <1>2, <2>1 DEF Removes
  <2>3. \A g \in friendships : <<g.requester, g.addressee>> \in Promise!Both(u, v) <=> g = f
    BY <2>1 DEF Promise!Both, FriendPair
  <2>4. Asked("pending")' = Asked("pending") \ Promise!Both(u, v)
    BY <2>2, <2>3 DEF Asked
  <2>5. friendsNow' = friendsNow \ {{u, v}}
    BY <2>1, <2>2 DEF friendsNow
  <2> QED BY <2>4, <2>5
<1> QED BY <1>1, <1>2

LEMMA DeleteIsPart ==
  ASSUME TypeOK, CoreInv, NEW r \in Slots, DeleteFriendship(r),
         NEW u, NEW v, Calls(r, u, v)
  PROVE  UNCHANGED rows \/ Promise!Part(u, v)
<1>0. PICK i : i = handlers[r].row
  OBVIOUS
<1>1. \A f \in friendships : f.id = i => FriendPair(f) = {u, v}
  BY <1>0, KnownNow DEF DeleteFriendship, At, CoreInv, KnowsRow, MayActOnRow, Between, Calls
<1>2. Removes(i, u, v)
  BY <1>0, <1>1 DEF DeleteFriendship, LoadedFriendship, Removes
<1>3. UNCHANGED <<messageRequests, blocks, messages, befriended>>
  BY DEF DeleteFriendship
<1>4. \/ UNCHANGED friendships
      \/ /\ Asked("pending")' = Asked("pending") \ Promise!Both(u, v)
         /\ friendsNow' = friendsNow \ {{u, v}}
  BY <1>2, RemovalSeparates DEF CoreInv
<1>5. UNCHANGED <<seesRequests, blockedNow, seesMessages>>
  BY <1>3, SeeRequests, SeeBlocks, SeeMessages
<1> QED BY <1>3, <1>4, <1>5
        DEF rows, Promise!Part, Promise!Separate, Promise!requests, friendsNow, blockedNow,
            seesRequests, seesMessages, writtenNow, seenNow

LEMMA BlockIsPlaced ==
  ASSUME TypeOK, CoreInv, NEW r \in Slots, CommitBlock(r),
         NEW u, NEW v, Calls(r, u, v)
  PROVE  Promise!PlaceBlock(u, v)
<1>0. PICK i : i = handlers[r].row
  OBVIOUS
<1>1. \A f \in friendships : f.id = i => FriendPair(f) = {u, v}
  BY <1>0, KnownNow DEF CommitBlock, At, CoreInv, KnowsRow, MayActOnRow, Between, Calls
<1>2. Removes(i, u, v)
  BY <1>0, <1>1 DEF CommitBlock, Removes
<1>3. UNCHANGED <<messageRequests, messages, befriended>>
  BY DEF CommitBlock
<1>4. \/ UNCHANGED friendships
      \/ /\ Asked("pending")' = Asked("pending") \ Promise!Both(u, v)
         /\ friendsNow' = friendsNow \ {{u, v}}
  BY <1>2, RemovalSeparates DEF CoreInv
<1>5. UNCHANGED <<seesRequests, seesMessages>>
  BY <1>3, SeeRequests, SeeMessages
<1>6. blockedNow' = blockedNow \cup {<<u, v>>}
  <2> DEFINE b == [id |-> handlers[r].ref, blocker |-> u, blocked |-> v]
  <2>1. blocks' = blocks \cup {b} /\ b.blocker = u /\ b.blocked = v
    BY DEF CommitBlock, Calls
  <2> HIDE DEF b
  <2> QED BY <2>1 DEF blockedNow
<1>7. UNCHANGED friendships => UNCHANGED seesFriendships
  BY SeeFriendships
<1> QED BY <1>3, <1>4, <1>5, <1>6, <1>7
        DEF Promise!PlaceBlock, Promise!Separate, Promise!social, Promise!requests,
            friendsNow, blockedNow, seesFriendships, seesRequests, seesMessages,
            writtenNow, seenNow

LEMMA RemovalIsLift ==
  ASSUME TypeOK, NEW r \in Slots, RemoveBlock(r),
         NEW u, NEW v, Calls(r, u, v)
  PROVE  Promise!LiftBlock(u, v)
<1>1. UNCHANGED <<friendships, messageRequests, messages, befriended>>
  BY DEF RemoveBlock
<1>2. UNCHANGED <<seesFriendships, seesRequests, seesMessages>>
  BY <1>1, SeeFriendships, SeeRequests, SeeMessages
<1>3. blockedNow' = blockedNow \ {<<u, v>>}
  BY DEF RemoveBlock, OwnBlock, Calls, blockedNow
<1> QED BY <1>1, <1>2, <1>3
        DEF Promise!LiftBlock, Promise!social, Promise!requests, friendsNow, blockedNow,
            seesFriendships, seesRequests, seesMessages, writtenNow, seenNow

\* CommitAccept's row was the asking of the pair, and becomes its friendship.
LEMMA AcceptedRow ==
  ASSUME TypeOK, BlockInv, RowsNumbered, NEW i, NEW u, NEW v,
         NEW f \in friendships, f.id = i, f.status = "pending",
         f.requester = v, f.addressee = u,
         friendships' = {IF g.id = i THEN [g EXCEPT !.status = "accepted"] ELSE g :
                           g \in friendships}
  PROVE  /\ <<v, u>> \in Asked("pending")
         /\ Asked("pending")' = Asked("pending") \ {<<v, u>>}
         /\ friendsNow' = friendsNow \cup {{v, u}}
<1> DEFINE new == [f EXCEPT !.status = "accepted"]
<1>1. <<v, u>> \in Asked("pending")
  BY DEF Asked
<1>2. \A g \in friendships : g.id = i <=> g = f
  BY DEF RowsNumbered
<1>3. friendships' = (friendships \ {f}) \cup {new}
  BY <1>2
<1>4. new.status = "accepted" /\ FriendPair(new) = {v, u}
  BY DEF TypeOK, DatabaseTypeOK, Friendship, FriendPair
<1>5. \A g \in friendships : <<g.requester, g.addressee>> = <<v, u>> => g = f
  BY DEF BlockInv, FriendPair
<1> HIDE DEF new
<1>6. Asked("pending")' = Asked("pending") \ {<<v, u>>}
  BY <1>3, <1>4, <1>5 DEF Asked
<1>7. friendsNow' = friendsNow \cup {{v, u}}
  BY <1>3, <1>4 DEF friendsNow
<1> QED BY <1>1, <1>6, <1>7

\* The pending request of the pair, if it has been found, goes.
LEMMA RequestLeaves ==
  ASSUME TypeOK, RequestsApart, NEW i, NEW u, NEW v,
         \A q \in messageRequests :
           q.id = i => q.status = "pending" /\ RequestPair(q) = {u, v},
         messageRequests' = {q \in messageRequests : q.id # i}
  PROVE  /\ RequestsIn("pending")' \in
              {RequestsIn("pending"), RequestsIn("pending") \ Promise!Both(v, u)}
         /\ UNCHANGED <<RequestsIn("accepted"), RequestsIn("declined")>>
<1>1. CASE \A q \in messageRequests : q.id # i
  BY <1>1, SeeRequests DEF seesRequests
<1>2. ASSUME NEW q \in messageRequests, q.id = i
      PROVE  /\ RequestsIn("pending")' = RequestsIn("pending") \ Promise!Both(v, u)
             /\ UNCHANGED <<RequestsIn("accepted"), RequestsIn("declined")>>
  <2>1. q.status = "pending" /\ RequestPair(q) = {u, v}
    BY <1>2
  <2>2. \A p \in messageRequests : p.id = i <=> p = q
    BY <1>2, <2>1 DEF RequestsApart
  <2>3. messageRequests' = messageRequests \ {q}
    BY <2>2
  <2>4. \A p \in messageRequests :
          <<p.requester, p.recipient>> \in Promise!Both(v, u) <=> p = q
    BY <2>1 DEF Promise!Both, RequestPair, RequestsApart
  <2> QED BY <2>1, <2>3, <2>4 DEF RequestsIn
<1> QED BY <1>1, <1>2

LEMMA AcceptIsBefriend ==
  ASSUME TypeOK, CoreInv, NEW r \in Slots, CommitAccept(r),
         NEW u, NEW v, Calls(r, u, v)
  PROVE  Promise!Befriend(v, u)
<1>0. PICK i, j : i = handlers[r].row /\ j = handlers[r].ref
  OBVIOUS
<1>1. KnowsRow(r) /\ StillJustified(r) /\ handlers[r].pc = "commitAccept"
  BY KnownNow DEF CommitAccept, At, CoreInv, ConsentInv
<1>2. PICK f \in friendships : f.id = i /\ f.status = "pending"
  BY <1>0, <1>1 DEF KnowsRow, LockedRowsWait
<1>3. f.requester = v /\ f.addressee = u
  BY <1>0, <1>1, <1>2 DEF KnowsRow, MayActOnRow, Accepting, Calls
<1>4. friendships' = {IF g.id = i THEN [g EXCEPT !.status = "accepted"] ELSE g :
                        g \in friendships}
  BY <1>0 DEF CommitAccept
<1>5. /\ <<v, u>> \in Asked("pending")
      /\ Asked("pending")' = Asked("pending") \ {<<v, u>>}
      /\ friendsNow' = friendsNow \cup {{v, u}}
  BY <1>2, <1>3, <1>4, AcceptedRow DEF CoreInv, ConsentInv, OnRecord
<1>6. \A q \in messageRequests :
        q.id = j => q.status = "pending" /\ RequestPair(q) = {u, v}
  BY <1>0, <1>1 DEF KnowsRow, LockedRowsWait, StillJustified, Between, Calls
<1>7. messageRequests' = {q \in messageRequests : q.id # j}
  BY <1>0 DEF CommitAccept
<1>8. /\ RequestsIn("pending")' \in
           {RequestsIn("pending"), RequestsIn("pending") \ Promise!Both(v, u)}
      /\ UNCHANGED <<RequestsIn("accepted"), RequestsIn("declined")>>
  BY <1>6, <1>7, RequestLeaves DEF CoreInv, ConsentInv, OnRecord
<1>9. befriended' = befriended \cup {{v, u}} /\ UNCHANGED <<blocks, messages>>
  BY DEF CommitAccept, Calls
<1>10. UNCHANGED <<blockedNow, seesMessages>>
  BY <1>9, SeeBlocks, SeeMessages
<1> QED BY <1>5, <1>8, <1>9, <1>10
        DEF Promise!Befriend, friendsNow, blockedNow, seesMessages, writtenNow, seenNow

-----------------------------------------------------------------------------
(* Messages and their requests.                                            *)

\* setStatus decides the one request it finds undecided, or nothing.
LEMMA StatusIsDecide ==
  ASSUME TypeOK, CoreInv, NEW i, NEW s \in {"accepted", "declined"}, SetStatus(i, s),
         UNCHANGED <<friendships, blocks, messages, befriended>>
  PROVE  UNCHANGED rows \/ \E u, v \in Users : Promise!Decide(u, v)
<1>1. CASE Undecided(i) = {}
  BY <1>1 DEF SetStatus, rows
<1>2. ASSUME NEW q \in Undecided(i) PROVE Promise!Decide(q.requester, q.recipient)
  <2> DEFINE new == [q EXCEPT !.status = s]
  <2>1. q \in messageRequests /\ q.id = i /\ q.status = "pending"
    BY DEF Undecided
  <2>2. Undecided(i) = {q}
    BY <2>1 DEF Undecided, CoreInv, ConsentInv, OnRecord, RowsNumbered
  <2>3. messageRequests' = (messageRequests \ {q}) \cup {new}
    BY <2>2 DEF SetStatus
  <2>4. new.status = s /\ new.requester = q.requester /\ new.recipient = q.recipient
    BY <2>1 DEF TypeOK, DatabaseTypeOK, MessageRequest
  <2>5. \A p \in messageRequests :
          <<p.requester, p.recipient>> = <<q.requester, q.recipient>> => p = q
    BY <2>1 DEF RequestPair, CoreInv, ConsentInv, OnRecord, RequestsApart
  <2> HIDE DEF new
  <2>6. /\ <<q.requester, q.recipient>> \in RequestsIn("pending")
        /\ RequestsIn("pending")' = RequestsIn("pending") \ {<<q.requester, q.recipient>>}
    BY <2>1, <2>3, <2>4, <2>5 DEF RequestsIn
  <2>7. RequestsIn(s)' = RequestsIn(s) \cup {<<q.requester, q.recipient>>}
    BY <2>1, <2>3, <2>4 DEF RequestsIn
  <2>8. ASSUME NEW t \in {"accepted", "declined"}, t # s PROVE UNCHANGED RequestsIn(t)
    BY <2>1, <2>3, <2>4, <2>8 DEF RequestsIn
  <2>9. UNCHANGED <<seesFriendships, blockedNow, seesMessages>>
    BY SeeFriendships, SeeBlocks, SeeMessages
  <2>10. CASE s = "accepted"
    <3>1. UNCHANGED RequestsIn("declined")
      BY <2>8, <2>10
    <3> QED BY <2>6, <2>7, <2>9, <2>10, <3>1
            DEF Promise!Decide, Promise!social, friendsNow, blockedNow, seesFriendships,
                seesMessages, writtenNow, seenNow
  <2>11. CASE s = "declined"
    <3>1. UNCHANGED RequestsIn("accepted")
      BY <2>8, <2>11
    <3> QED BY <2>6, <2>7, <2>9, <2>11, <3>1
            DEF Promise!Decide, Promise!social, friendsNow, blockedNow, seesFriendships,
                seesMessages, writtenNow, seenNow
  <2> QED BY <2>10, <2>11
<1>3. ASSUME NEW q \in Undecided(i) PROVE q.requester \in Users /\ q.recipient \in Users
  BY DEF Undecided, TypeOK, DatabaseTypeOK, MessageRequest
<1> QED BY <1>1, <1>2, <1>3

\* A message is numbered within the bound and unlike the others.
LEMMA NewMessageId ==
  ASSUME TypeOK, CoreInv, ~Full
  PROVE  nextId \in 1..MaxRows \ {w[1] : w \in writtenNow}
<1>1. nextId \in 1..MaxRows
  BY MaxRowsAssumption DEF Full, TypeOK, DatabaseTypeOK, RowId, NoId
<1>2. \A m \in messages : m.id # nextId
  BY DEF CoreInv, RowInv, TypeOK, DatabaseTypeOK, RowId, Message
<1>3. \A w \in writtenNow : w[1] # nextId
  BY <1>2 DEF writtenNow
<1> QED BY <1>1, <1>3

LEMMA NewMessageIsWritten ==
  ASSUME NEW r \in Slots, messages' = messages \cup {NewMessage(r)}
  PROVE  /\ writtenNow' = writtenNow \cup {<<nextId, handlers[r].user, handlers[r].peer>>}
         /\ seenNow' = seenNow
<1> DEFINE new == NewMessage(r)
<1>1. /\ new.id = nextId /\ new.sender = handlers[r].user
      /\ new.recipient = handlers[r].peer /\ ~new.read
  BY DEF NewMessage
<1>2. messages' = messages \cup {new}
  OBVIOUS
<1> HIDE DEF new
<1>3. seenNow' = seenNow
  BY <1>1, <1>2 DEF seenNow
<1>4. writtenNow' = writtenNow \cup {<<nextId, handlers[r].user, handlers[r].peer>>}
  BY <1>1, <1>2 DEF writtenNow
<1> QED BY <1>3, <1>4

\* A request between two, as Consent sees it.
LEMMA SeenBetween ==
  ASSUME TypeOK, NEW u, NEW v, NEW q \in RequestsBetween(u, v)
  PROVE  /\ <<q.requester, q.recipient>> \in RequestsIn(q.status) \cap Promise!Both(u, v)
         /\ q.recipient = u => <<q.requester, q.recipient>> = <<v, u>>
         /\ q.status \in {"pending", "accepted", "declined"}
<1>1. q \in messageRequests /\ {q.requester, q.recipient} = {u, v}
  BY DEF RequestsBetween, RequestPair
<1>2. <<q.requester, q.recipient>> \in RequestsIn(q.status)
  BY <1>1 DEF RequestsIn
<1>3. <<q.requester, q.recipient>> \in Promise!Both(u, v)
  BY <1>1 DEF Promise!Both
<1>4. q.recipient = u => <<q.requester, q.recipient>> = <<v, u>>
  BY <1>1
<1>5. q.status \in {"pending", "accepted", "declined"}
  BY <1>1 DEF TypeOK, DatabaseTypeOK, MessageRequest
<1> QED BY <1>2, <1>3, <1>4, <1>5

LEMMA InsertIsWrite ==
  ASSUME TypeOK, CoreInv, NEW r \in Slots, InsertMessage(r),
         NEW u, NEW v, Calls(r, u, v), NEW i, i = nextId
  PROVE  Promise!Write(u, v, i)
<1>1. OpenBetween(u, v) \/ ApproachedBy(u, v)
  BY DEF InsertMessage, At, CoreInv, ConsentInv, StillJustified, Calls
<1>2. \/ {u, v} \in befriended
      \/ RequestsIn("accepted") \cap Promise!Both(u, v) # {}
      \/ <<v, u>> \in RequestsIn("pending") \cup RequestsIn("accepted") \cup RequestsIn("declined")
  <2>1. CASE OpenBetween(u, v)
    BY <2>1, SeenBetween DEF OpenBetween
  <2>2. CASE ApproachedBy(u, v)
    BY <2>2, SeenBetween DEF ApproachedBy
  <2> QED BY <1>1, <2>1, <2>2
<1>3. UNCHANGED <<friendships, messageRequests, blocks, befriended>>
  BY DEF InsertMessage
<1>4. UNCHANGED <<seesFriendships, seesRequests, blockedNow>>
  BY <1>3, SeeFriendships, SeeRequests, SeeBlocks
<1>5. writtenNow' = writtenNow \cup {<<i, u, v>>} /\ seenNow' = seenNow
  BY NewMessageIsWritten DEF InsertMessage, Calls
<1>6. Promise!MayWrite(u, v)
  BY <1>2 DEF Promise!MayWrite, Promise!Both
<1> QED BY <1>3, <1>4, <1>5, <1>6
        DEF Promise!Write, Promise!social, Promise!requests, friendsNow, blockedNow,
            seesFriendships, seesRequests, writtenNow, seenNow

LEMMA InsertIsOpening ==
  ASSUME TypeOK, NEW r \in Slots, InsertOpening(r),
         NEW u, NEW v, Calls(r, u, v), NEW i, i = nextId
  PROVE  \/ UNCHANGED rows
         \/ Promise!Opening(u, v, i)
<1> DEFINE new == [id |-> i, requester |-> u, recipient |-> v, status |-> "pending"]
<1>1. CASE RequestsBetween(u, v) # {}
  BY <1>1 DEF InsertOpening, DropMessage, Calls, rows
<1>2. CASE RequestsBetween(u, v) = {}
  <2>1. /\ messages' = messages \cup {NewMessage(r)}
        /\ messageRequests' = messageRequests \cup {new}
        /\ UNCHANGED <<friendships, blocks, befriended>>
    BY <1>2 DEF InsertOpening, Calls
  <2>2. UNCHANGED <<seesFriendships, blockedNow>>
    BY <2>1, SeeFriendships, SeeBlocks
  <2>3. writtenNow' = writtenNow \cup {<<i, u, v>>} /\ seenNow' = seenNow
    BY <2>1, NewMessageIsWritten DEF Calls
  <2>4. \A p \in messageRequests : <<p.requester, p.recipient>> \notin Promise!Both(u, v)
    BY <1>2 DEF RequestsBetween, RequestPair, Promise!Both
  <2>5. (RequestsIn("pending") \cup RequestsIn("accepted") \cup RequestsIn("declined"))
          \cap Promise!Both(u, v) = {}
    BY <2>4 DEF RequestsIn
  <2>6. new.status = "pending" /\ new.requester = u /\ new.recipient = v
    OBVIOUS
  <2>7. /\ RequestsIn("pending")' = RequestsIn("pending") \cup {<<u, v>>}
        /\ UNCHANGED <<RequestsIn("accepted"), RequestsIn("declined")>>
    BY <2>1, <2>6 DEF RequestsIn
  <2> QED BY <2>1, <2>2, <2>3, <2>5, <2>7
          DEF Promise!Opening, Promise!social, friendsNow, blockedNow, seesFriendships,
              writtenNow, seenNow
<1> QED BY <1>1, <1>2

LEMMA MarkIsRead ==
  ASSUME TypeOK, CoreInv, NEW r \in Slots, MarkRead(r),
         NEW u, NEW v, Calls(r, u, v)
  PROVE  Promise!Read(u, v)
<1> DEFINE marked(m) == [m EXCEPT !.read = TRUE]
<1>1. OpenBetween(u, v)
  BY DEF MarkRead, At, CoreInv, ConsentInv, StillJustified, Calls
<1>2. {u, v} \in befriended \/ RequestsIn("accepted") \cap Promise!Both(u, v) # {}
  BY <1>1, SeenBetween DEF OpenBetween
<1>3. UNCHANGED <<friendships, messageRequests, blocks, befriended>>
  BY DEF MarkRead
<1>4. UNCHANGED <<seesFriendships, seesRequests, blockedNow>>
  BY <1>3, SeeFriendships, SeeRequests, SeeBlocks
<1>5. /\ \A m \in messages : m \in messages' \/ (m \in UnreadFrom(v, u) /\ marked(m) \in messages')
      /\ \A n \in messages' : n \in messages \/ \E m \in UnreadFrom(v, u) : n = marked(m)
      /\ \A m \in UnreadFrom(v, u) : marked(m) \in messages'
  BY DEF MarkRead, ToMark, Calls
<1>6. \A m \in messages : /\ marked(m).id = m.id /\ marked(m).sender = m.sender
                          /\ marked(m).recipient = m.recipient /\ marked(m).read
  BY DEF TypeOK, DatabaseTypeOK, Message
<1>7. \A m : m \in UnreadFrom(v, u) <=>
               m \in messages /\ m.sender = v /\ m.recipient = u /\ ~m.read
  BY DEF UnreadFrom
<1> HIDE DEF marked
<1>8. writtenNow' = writtenNow
  BY <1>5, <1>6, <1>7 DEF writtenNow
<1>9. seenNow' = seenNow \cup {i \in {w[1] : w \in writtenNow} : <<i, v, u>> \in writtenNow}
  <2> DEFINE theirs == {i \in {w[1] : w \in writtenNow} : <<i, v, u>> \in writtenNow}
  <2>1. ASSUME NEW i
        PROVE  i \in theirs <=>
                 \E m \in messages : m.id = i /\ m.sender = v /\ m.recipient = u
    <3>1. <<i, v, u>> \in writtenNow <=>
            \E m \in messages : m.id = i /\ m.sender = v /\ m.recipient = u
      BY DEF writtenNow
    <3>2. <<i, v, u>> \in writtenNow => i \in {w[1] : w \in writtenNow}
      <4>1. <<i, v, u>>[1] = i
        OBVIOUS
      <4> QED BY <4>1
    <3> QED BY <3>1, <3>2
  <2>2. \A m \in messages : m.sender = v /\ m.recipient = u /\ m.read => m \in messages'
    BY <1>5, <1>7
  <2> HIDE DEF theirs
  <2>3. ASSUME NEW i \in seenNow' PROVE i \in seenNow \cup theirs
    BY <1>5, <1>6, <1>7, <2>1, <2>3 DEF seenNow
  <2>4. ASSUME NEW i \in seenNow PROVE i \in seenNow'
    BY <1>5, <1>6, <1>7, <2>4 DEF seenNow
  <2>5. ASSUME NEW i \in theirs PROVE i \in seenNow'
    BY <1>5, <1>6, <1>7, <2>1, <2>2, <2>5 DEF seenNow
  <2>6. seenNow' = seenNow \cup theirs
    BY <2>3, <2>4, <2>5
  <2> QED BY <2>6 DEF theirs
<1> QED BY <1>2, <1>3, <1>4, <1>8, <1>9
        DEF Promise!Read, Promise!social, Promise!requests, friendsNow, blockedNow,
            seesFriendships, seesRequests, writtenNow, seenNow

-----------------------------------------------------------------------------
LEMMA RulesAtFirst == Init => Promise!Init
  BY DEF Init, DatabaseInit, Promise!Init, Asked, RequestsIn

\* No row changes, nor does what Consent sees.
LEMMA RulesSleep == ASSUME UNCHANGED rows PROVE UNCHANGED Promise!cvars
<1>1. UNCHANGED <<seesFriendships, seesRequests, blockedNow, seesMessages, befriended>>
  BY SeeFriendships, SeeRequests, SeeBlocks, SeeMessages DEF rows
<1> QED BY <1>1 DEF Promise!cvars, Promise!social, Promise!requests, friendsNow, blockedNow,
        seesFriendships, seesRequests, seesMessages, writtenNow, seenNow

LEMMA CommitsKeepRules ==
  ASSUME TypeOK, CoreInv, NEW r \in Slots, Commits(r)
  PROVE  Promise!Next \/ UNCHANGED rows
<1>0. handlers[r].pc # "idle"
  BY DEF Commits, InsertFriendship, CommitAccept, DeleteFriendship, CommitBlock, RemoveBlock,
     InsertMessage, SettleReply, InsertOpening, AnswerSetStatus, MarkRead, At
<1>1. PICK u \in Users, v \in Users : Calls(r, u, v)
  BY <1>0, Callers
<1>2. CASE InsertFriendship(r)
  BY <1>1, <1>2, InsertIsAsk DEF Promise!Next
<1>3. CASE CommitAccept(r)
  BY <1>1, <1>3, AcceptIsBefriend DEF Promise!Next
<1>4. CASE DeleteFriendship(r)
  BY <1>1, <1>4, DeleteIsPart DEF Promise!Next
<1>5. CASE CommitBlock(r)
  BY <1>1, <1>5, BlockIsPlaced DEF Promise!Next
<1>6. CASE RemoveBlock(r)
  BY <1>1, <1>6, RemovalIsLift DEF Promise!Next
<1>7. CASE InsertMessage(r)
  <2>1. PICK i \in 1..MaxRows \ {w[1] : w \in writtenNow} : i = nextId
    BY <1>7, NewMessageId DEF InsertMessage
  <2> QED BY <1>1, <1>7, <2>1, InsertIsWrite DEF Promise!Next, writtenNow
<1>8. CASE InsertOpening(r)
  <2>1. PICK i \in 1..MaxRows \ {w[1] : w \in writtenNow} : i = nextId
    BY <1>8, NewMessageId DEF InsertOpening
  <2> QED BY <1>1, <1>8, <2>1, InsertIsOpening DEF Promise!Next, writtenNow
<1>9. CASE SettleReply(r)
  BY <1>9, StatusIsDecide DEF SettleReply, Promise!Next
<1>10. CASE AnswerSetStatus(r)
  BY <1>10, StatusIsDecide DEF AnswerSetStatus, Decision, Promise!Next
<1>11. CASE MarkRead(r)
  BY <1>1, <1>11, MarkIsRead DEF Promise!Next
<1> QED BY <1>2, <1>3, <1>4, <1>5, <1>6, <1>7, <1>8, <1>9, <1>10, <1>11 DEF Commits

(***************************************************************************)
(* The friend, block and message services together keep the rules of       *)
(* module Consent: nobody is written to, read by or made a friend of       *)
(* otherwise, whatever the interleaving of their handlers' queries and     *)
(* whichever of them fail.                                                 *)
(***************************************************************************)
THEOREM RulesAreKept == Spec => ConsentKept
<1>1. TypeOK /\ CoreInv /\ [Next]_vars => [Promise!Next]_(Promise!cvars)
  BY OnlyCommits, CommitsKeepRules, RulesSleep
<1> QED BY RulesAtFirst, <1>1, TypeCorrect, CoreInvariant, PTL DEF Spec, ConsentKept, Promise!Spec
=============================================================================
