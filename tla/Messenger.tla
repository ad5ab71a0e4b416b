------------------------------ MODULE Messenger ------------------------------
(***************************************************************************)
(* contexts/MessengerContext.jsx with ConversationView and RequestList, in *)
(* one browser tab of Me, beside the message service of module             *)
(* MessageService.                                                         *)
(*                                                                         *)
(* The tab calls the server (calls, loads) and the server pushes events    *)
(* (events).  An answer is applied to the panel as the panel is when it    *)
(* arrives, which is what the handlers of the context do with setThread,   *)
(* setCounts, setConversations and setRequests.                            *)
(***************************************************************************)
EXTENDS MessageService, SequencesExt

CONSTANTS Me,
          Nobody,     \* activePartner = null
          MaxLoads,   \* bound: how many count and list GETs may be in flight
          MaxEvents,  \* bound: how many events may wait in the socket
          MaxTurns    \* bound: how many things happen that nothing asked for

ASSUME MessengerAssumption == Me \in Users /\ Nobody \notin Users

VARIABLES isOpen,     \* the panel is showing
          partner,    \* activePartner
          thread,
          counts,     \* behind the badge
          conversations, requests,
          calls,      \* per slot: the call of this tab that the slot serves
          loads,      \* the GETs of counts and lists in flight, oldest first
          settling,   \* what accept, decline or a page awaits the refreshes for
          events,     \* the socket
          turns,
          stale,      \* history: the thread is not expected to be current
          missed      \* history: the same for the counts and the lists

panel == <<isOpen, partner, thread>>
lists == <<counts, conversations, requests>>
history == <<stale, missed>>
messengerVars == <<vars, panel, lists, calls, loads, settling, events, turns, history>>

Partners == Users \ {Me}

NoThread == [with |-> Nobody]
Thread == [with : Partners, messages : Seq(Message), state : SendState, request : Nat]

NoCall == [phase |-> "none"]
Call == [phase : {"sent", "ok", "failed"},
         kind : {"open", "refresh", "arrival", "accepted", "afterSend", "afterAccept",
                 "send", "accept", "decline"},
         with : Users,
         first : BOOLEAN,       \* the thread said first_contact
         messages : Seq(Message), state : SendState, request : Nat,
         done : BOOLEAN,        \* history: the server has read or written for it
         late : BOOLEAN]        \* history: and the pair has changed since

Load == [kind : {"counts", "lists"},
         asks : SUBSET {"messages", "requests"},   \* the queries still to be run
         number : Nat, rows : SUBSET Users,        \* of unread messages; the inbox
         waiting : SUBSET MessageRequest,
         awaited : BOOLEAN, late : BOOLEAN]

Pushed == [event : {"message:received", "message:read", "message:request_received",
                    "message:request_accepted", "friend:request_accepted"},
           rows : SUBSET Nat]

MessengerTypeOK ==
  /\ DatabaseTypeOK /\ HandlersTypeOK
  /\ isOpen \in BOOLEAN /\ partner \in Partners \cup {Nobody}
  /\ thread \in Thread \cup {NoThread}
  /\ counts \in [messages : Nat, requests : Nat]
  /\ conversations \subseteq Users /\ requests \subseteq MessageRequest
  /\ calls \in [Slots -> Call \cup {NoCall}]
  /\ loads \in Seq(Load) /\ events \in Seq(Pushed)
  /\ settling \in {"nothing", "accept", "decline", "page"}
  /\ turns \in Nat /\ stale \in BOOLEAN /\ missed \subseteq {"counts", "lists"}

-----------------------------------------------------------------------------
(* The queries behind the lists, and what is true of a pair.               *)

\* findConversations: not whom Me has yet to decide about, or has declined.
InboxOf(u) ==
  {v \in Users \ {u} :
     /\ Conversation(u, v) # {}
     /\ \A q \in RequestsBetween(u, v) : q.status = "accepted" \/ q.requester = u}

\* findPendingForRecipient
PendingFor(u) == {q \in messageRequests : q.recipient = u /\ q.status = "pending"}

\* ORDER BY created_at DESC: the k-th has k - 1 newer ones.
NewestFirst(ms) ==
  [k \in 1..Cardinality(ms) |->
     CHOOSE m \in ms : Cardinality({n \in ms : n.id >= m.id}) = k]

\* The last query of resolveSendState.
RequestState(u) ==
  IF RequestsBetween(Me, u) = {} THEN "first_contact"
  ELSE StateOf(CHOOSE q \in RequestsBetween(Me, u) : TRUE, Me)

\* What resolveSendState would say now.
StateWith(u) ==
  CASE BlockExistsBetween(Me, u) -> "blocked"
    [] ~BlockExistsBetween(Me, u) /\ AreFriends(Me, u) -> "open"
    [] OTHER -> RequestState(u)

\* pendingRequestId
RequestFrom(u) ==
  IF RequestState(u) = "reply_accepts" THEN (CHOOSE q \in RequestsBetween(Me, u) : TRUE).id
                                       ELSE NoId

\* "read" is about what Me has sent.
Ticked(ms) == {m.id : m \in {n \in ms : n.sender = Me /\ n.read}}

Truth(u) == <<Ids(Conversation(Me, u)), Ticked(Conversation(Me, u)), StateWith(u),
              RequestsBetween(Me, u)>>

Badge == Cardinality(CountedUnread(Me)) + Cardinality(PendingFor(Me))

Listed == <<Badge, InboxOf(Me), PendingFor(Me)>>

\* The history: answers that the pair, or the lists, have changed after.
Touched == {u \in Partners : tables' # tables /\ Truth(u)' # Truth(u)}

LateCall(c) ==
  IF c # NoCall /\ c.done /\ c.with \in Touched THEN [c EXCEPT !.late = TRUE] ELSE c

LateLoads ==
  loads' = [k \in DOMAIN loads |->
              [loads[k] EXCEPT !.late = @ \/ (tables' # tables /\ Listed' # Listed)]]

Overtaken == LateLoads /\ calls' = [r \in Slots |-> LateCall(calls[r])]

-----------------------------------------------------------------------------
(* The calls.                                                              *)

Free(r) == At(r, "idle") /\ calls[r] = NoCall

NewCall(kind, u) ==
  [phase |-> "sent", kind |-> kind, with |-> u,
   first |-> thread # NoThread /\ thread.state = "first_contact",
   messages |-> <<>>, state |-> "unknown", request |-> NoId,
   done |-> FALSE, late |-> FALSE]

\* messagesApi.getConversation; cs are the calls without the one it follows.
GetThread(r, kind, u, cs) ==
  /\ At(r, "idle") /\ cs[r] = NoCall
  /\ Receive(r, "openConversation", "findPage", Me, u, NoId)
  /\ calls' = [cs EXCEPT ![r] = NewCall(kind, u)]

NewLoad(kind, awaited) ==
  [kind |-> kind, asks |-> {"messages", "requests"}, number |-> 0, rows |-> {},
   waiting |-> {}, awaited |-> awaited, late |-> FALSE]

Refresh(kinds, awaited) ==
  /\ Len(loads) + Len(kinds) <= MaxLoads
  /\ loads' = loads \o [k \in DOMAIN kinds |-> NewLoad(kinds[k], awaited)]

refreshCounts == <<"counts">>
refreshLists == <<"lists">>
refreshBoth == <<"counts", "lists">>

InFlight(kinds) == {r \in Slots : calls[r] # NoCall /\ calls[r].kind \in kinds}

\* A bound: the tab makes one decision, or one action of a page behind the
\* panel, at a time.  RequestList disables the row being decided and no other.
NoOtherDecision == settling = "nothing" /\ InFlight({"accept", "decline"}) = {}

-----------------------------------------------------------------------------
\* The tables when the tab is loaded: strangers, or one unread message, between
\* friends or in a request Me has to decide about.
TablesInit ==
  /\ blocks = {} /\ HandlersInit
  /\ \/ /\ messages = {} /\ messageRequests = {} /\ friendships = {}
        /\ nextId = 1 /\ befriended = {}
     \/ \E u, v \in Users, areFriends \in BOOLEAN :
          /\ u # v /\ Me \in {u, v} /\ (u = Me => areFriends)
          /\ messages = {[id |-> 1, sender |-> u, recipient |-> v, read |-> FALSE]}
          /\ messageRequests = IF areFriends THEN {}
               ELSE {[id |-> 1, requester |-> u, recipient |-> v, status |-> "pending"]}
          /\ friendships = IF ~areFriends THEN {}
               ELSE {[id |-> 1, requester |-> u, addressee |-> v, status |-> "accepted"]}
          /\ befriended = IF areFriends THEN {{u, v}} ELSE {}
          /\ nextId = 2

\* The panel after refreshCounts and refreshLists, with no thread or with one
\* that has been read.
MessengerInit ==
  /\ TablesInit
  /\ \/ isOpen = FALSE /\ partner = Nobody /\ thread = NoThread
     \/ /\ isOpen = TRUE /\ partner \in Partners
        /\ StateWith(partner) = "open" => UnreadFrom(partner, Me) = {}
        /\ thread = [with |-> partner, messages |-> NewestFirst(Conversation(Me, partner)),
                     state |-> StateWith(partner), request |-> RequestFrom(partner)]
  /\ counts = [messages |-> Cardinality(CountedUnread(Me)),
               requests |-> Cardinality(PendingFor(Me))]
  /\ conversations = InboxOf(Me) /\ requests = PendingFor(Me)
  /\ calls = [r \in Slots |-> NoCall] /\ loads = <<>> /\ settling = "nothing"
  /\ events = <<>> /\ turns = 0 /\ stale = FALSE /\ missed = {}

\* openConversation, from a list or (openMessenger) from a profile.  What the
\* thread showed stays until the answer is there.
OpenConversation(r) ==
  /\ \E u \in Partners :
       /\ u # partner /\ GetThread(r, "open", u, calls)
       /\ partner' = u
  /\ isOpen' = TRUE /\ stale' = TRUE
  /\ UNCHANGED <<thread, lists, loads, settling, events, missed>>

CloseConversation == partner' = Nobody /\ thread' = NoThread

\* The back arrow, or closeMessenger.
Close ==
  /\ isOpen /\ partner # Nobody
  /\ CloseConversation
  /\ isOpen' \in BOOLEAN
  /\ Silent /\ UNCHANGED <<tables, handlers, lists, calls, loads, settling, events, history>>

\* The header's button hides or shows the panel and leaves the thread open.
ToggleMessenger ==
  /\ isOpen' = ~isOpen
  /\ Silent
  /\ UNCHANGED <<tables, handlers, partner, thread, lists, calls, loads, settling, events,
                 history>>

\* handleSubmit and send, with the composer the thread allows.
Send(r) ==
  /\ isOpen /\ partner # Nobody /\ thread # NoThread /\ thread.state \in CanSend
  /\ InFlight({"send"}) = {}                                        \* sending
  /\ Free(r)
  /\ Receive(r, "sendMessage", "resolveBlock", Me, partner, NoId)
  /\ calls' = [calls EXCEPT ![r] = NewCall("send", partner)]
  /\ UNCHANGED <<panel, lists, loads, settling, events, history>>

\* accept and decline: from the thread, or from the request list.
Decide(r) ==
  /\ isOpen /\ NoOtherDecision /\ Free(r)
  /\ \E op \in {"accept", "decline"} :
       \E who \in IF partner # Nobody
                    THEN {<<thread.with, thread.request>> : t \in
                            {t \in {thread} : t # NoThread /\ t.state = "reply_accepts"}}
                    ELSE {<<q.requester, q.id>> : q \in requests} :
         /\ Receive(r, IF op = "accept" THEN "acceptRequest" ELSE "declineRequest",
                    "loadRequest", Me, who[1], who[2])
         /\ calls' = [calls EXCEPT ![r] = NewCall(op, who[1])]
  /\ UNCHANGED <<panel, lists, loads, settling, events, history>>

-----------------------------------------------------------------------------
(* Answers.                                                                *)

Answered(r) == calls[r] # NoCall /\ calls[r].phase # "sent"

Hangup(r) == [calls EXCEPT ![r] = NoCall]

\* setThread(data)
ShowThread(c) ==
  /\ thread' = [with |-> c.with, messages |-> c.messages, state |-> c.state,
                request |-> c.request]
  /\ stale' = (c.late \/ c.with # partner)

\* openConversation, refreshThread and the re-reads of the event handlers.
ThreadArrives(r) ==
  LET c == calls[r] IN
  /\ Answered(r) /\ c.kind \notin {"send", "accept", "decline"}
  /\ IF c.phase = "ok" THEN ShowThread(c)
     ELSE IF c.kind \in {"open", "refresh"}
            THEN thread' = NoThread /\ UNCHANGED stale
            ELSE stale' = TRUE /\ UNCHANGED thread
  /\ CASE c.kind = "open" /\ c.phase = "ok" -> Refresh(refreshBoth, FALSE)
       [] c.kind = "arrival" -> Refresh(refreshCounts, FALSE)
       [] c.kind = "afterSend" /\ c.phase = "ok" -> Refresh(refreshLists, FALSE)
       [] OTHER -> UNCHANGED loads
  /\ missed' = IF c.kind = "afterSend" /\ c.phase = "failed" THEN missed \cup {"lists"}
               ELSE missed
  /\ calls' = Hangup(r)
  /\ Silent /\ UNCHANGED <<tables, handlers, isOpen, partner, lists, settling, events>>

\* Slip: a refused send leaves the window as it is.
NoCorrection(r) == UNCHANGED <<tables, handlers>> /\ Silent /\ calls' = Hangup(r)

\* refreshThread, for the partner of the moment.
Correction(r) ==
  IF partner = Nobody
    THEN UNCHANGED <<tables, handlers>> /\ Silent /\ calls' = Hangup(r)
    ELSE \E s \in Slots : GetThread(s, "refresh", partner, Hangup(r))

\* A stored message is put on top of the thread of the moment; after a first
\* contact the thread is read again.  The window is expected to be right
\* after a refusal, unless something else happens to it.
SendArrives(r) ==
  LET c == calls[r] IN
  /\ Answered(r) /\ c.kind = "send"
  /\ IF c.phase = "failed"
       THEN /\ Correction(r)
            /\ stale' = FALSE
            /\ UNCHANGED <<thread, loads>>
       ELSE /\ thread' = IF thread = NoThread THEN thread
                         ELSE [thread EXCEPT !.messages = c.messages \o @]
            /\ stale' = (stale \/ c.late \/ partner # c.with)
            /\ IF c.first
                 THEN /\ \E s \in Slots : GetThread(s, "afterSend", c.with, Hangup(r))
                      /\ UNCHANGED loads
                 ELSE /\ calls' = Hangup(r) /\ Refresh(refreshLists, FALSE)
                      /\ UNCHANGED <<tables, handlers>> /\ Silent
  /\ UNCHANGED <<isOpen, partner, lists, settling, events, missed>>

\* The lists and the counts are refreshed before anything else.
DecisionArrives(r) ==
  LET c == calls[r] IN
  /\ Answered(r) /\ c.kind \in {"accept", "decline"}
  /\ calls' = Hangup(r)
  /\ IF c.phase = "ok" THEN settling' = c.kind /\ Refresh(refreshBoth, TRUE)
                       ELSE UNCHANGED <<settling, loads>>
  /\ Silent /\ UNCHANGED <<tables, handlers, panel, lists, events, history>>

\* And then: accept reads the thread of the moment, decline closes it.
Settle ==
  /\ settling # "nothing" /\ settling # "page"
  /\ \A k \in DOMAIN loads : ~loads[k].awaited
  /\ settling' = "nothing"
  /\ IF settling = "accept" /\ partner # Nobody
       THEN /\ \E s \in Slots : GetThread(s, "afterAccept", partner, calls)
            /\ UNCHANGED <<partner, thread>>
       ELSE /\ IF settling = "decline" THEN CloseConversation
                                       ELSE UNCHANGED <<partner, thread>>
            /\ UNCHANGED <<tables, handlers, calls>> /\ Silent
  /\ UNCHANGED <<isOpen, lists, loads, events, history>>

\* One query of a refresh is run.
Queried(l, what) ==
  IF what = "messages"
    THEN [l EXCEPT !.asks = l.asks \ {what}, !.number = Cardinality(CountedUnread(Me)),
                   !.rows = InboxOf(Me)]
    ELSE [l EXCEPT !.asks = l.asks \ {what}, !.waiting = PendingFor(Me)]

ServeLoad ==
  \E k \in DOMAIN loads : \E what \in loads[k].asks :
    /\ loads' = [loads EXCEPT ![k] = Queried(loads[k], what)]
    /\ Silent
    /\ UNCHANGED <<tables, handlers, panel, lists, calls, settling, events, history>>

LoadArrives ==
  \E k \in DOMAIN loads :
    LET l == loads[k] IN
    /\ l.asks = {}
    /\ IF l.kind = "counts"
         THEN /\ counts' = [messages |-> l.number, requests |-> Cardinality(l.waiting)]
              /\ UNCHANGED <<conversations, requests>>
         ELSE conversations' = l.rows /\ requests' = l.waiting /\ UNCHANGED counts
    /\ missed' = IF l.late THEN missed \cup {l.kind} ELSE missed \ {l.kind}
    /\ loads' = RemoveAt(loads, k)
    /\ Silent /\ UNCHANGED <<tables, handlers, panel, calls, settling, events, stale>>

\* A refresh fails: the panel keeps whatever it last had.
LoadFails ==
  \E k \in DOMAIN loads :
    /\ missed' = missed \cup {loads[k].kind}
    /\ loads' = RemoveAt(loads, k)
    /\ Silent /\ UNCHANGED <<tables, handlers, panel, lists, calls, settling, events, stale>>

-----------------------------------------------------------------------------
(* Events.                                                                 *)

SenderOf(rows) == {m.sender : m \in {n \in messages : n.id \in rows}}

\* Slip: every message of ours is ticked.
TickAll(ms, rows) ==
  [k \in DOMAIN ms |-> IF ms[k].sender = Me THEN [ms[k] EXCEPT !.read = TRUE] ELSE ms[k]]

\* onMessageRead
Tick(ms, rows) ==
  [k \in DOMAIN ms |-> IF ms[k].id \in rows THEN [ms[k] EXCEPT !.read = TRUE] ELSE ms[k]]

Reread(kind) == \E s \in Slots : GetThread(s, kind, partner, calls)

NoReread == UNCHANGED <<tables, handlers, calls>> /\ Silent

\* Slip: onMessage refreshes the badge only for the thread that is open.
HearOpenOnly(e) ==
  IF partner # Nobody /\ partner \in SenderOf(e.rows)
    THEN Reread("arrival") /\ Refresh(refreshLists, FALSE)
    ELSE NoReread /\ Refresh(refreshLists, FALSE)

\* onMessage: a message in the open thread is read at once, the badge is
\* refreshed for any other.
HearMessage(e) ==
  IF partner # Nobody /\ partner \in SenderOf(e.rows)
    THEN Reread("arrival") /\ Refresh(refreshLists, FALSE)
    ELSE NoReread /\ Refresh(refreshBoth, FALSE)

\* onRequestAccepted, and onFriendshipChanged, which is refreshMessenger().
HearAccepted(e) ==
  /\ CASE partner = Nobody -> NoReread
       [] OTHER -> Reread(IF e.event = "friend:request_accepted" THEN "refresh"
                                                                 ELSE "accepted")
  /\ Refresh(IF e.event = "friend:request_accepted" THEN refreshBoth ELSE refreshLists, FALSE)

HandleEvent ==
  /\ events # <<>>
  /\ events' = Tail(events)
  /\ LET e == Head(events) IN
     CASE e.event = "message:read" ->
            /\ thread' = IF thread = NoThread THEN thread
                         ELSE [thread EXCEPT !.messages = Tick(@, e.rows)]
            /\ NoReread /\ UNCHANGED loads
       [] e.event = "message:received" -> HearMessage(e) /\ UNCHANGED thread
       [] e.event = "message:request_received" ->
            NoReread /\ Refresh(refreshBoth, FALSE) /\ UNCHANGED thread
       [] OTHER -> HearAccepted(e) /\ UNCHANGED thread
  /\ UNCHANGED <<isOpen, partner, lists, settling, history>>

\* The socket goes down: what was on its way is not sent again.
SocketDrops ==
  /\ events # <<>> /\ events' = <<>>
  /\ stale' = TRUE /\ missed' = {"counts", "lists"}
  /\ Silent /\ UNCHANGED <<tables, handlers, panel, lists, calls, loads, settling>>

-----------------------------------------------------------------------------
(* The server at work.                                                     *)

ToMe(name) == {e \in sent' : e.event = name /\ e.to = Me}

\* One emit per name; NotifyReply emits the acceptance first.
Push == LET pushed(name) == IF ToMe(name) = {} THEN <<>>
                            ELSE <<[event |-> name, rows |-> {e.row : e \in ToMe(name)}]>>
        IN events' = events \o pushed("message:request_accepted")
                            \o pushed("message:received") \o pushed("message:read")
                            \o pushed("message:request_received")

\* The state a conversation is answered with: see resolveSendState.
StateSent(r) ==
  CASE At(r, "resolveBlock") -> "blocked"
    [] At(r, "resolveRequest") -> RequestState(handlers[r].peer)
    [] OTHER -> "open"

\* The step that ends a handler answers it: with 2xx if it got that far.
Succeeds(r) ==
  \/ handlers[r].op = "openConversation"
  \/ handlers[r].pc \in {"notifyReply", "notifyMessage", "notifyOpening",
                         "notifyRequestAccepted"}
  \/ handlers[r].op = "declineRequest" /\ At(r, "setStatus")

Progress(r, c) ==
  LET fetched == [c EXCEPT !.done = TRUE,
                    !.messages = NewestFirst(Conversation(Me, c.with))]
      written == [c EXCEPT !.done = TRUE, !.messages = <<NewMessage(r)>>]
      answered == [c EXCEPT
                     !.phase = IF Succeeds(r) THEN "ok" ELSE "failed",
                     !.state = StateSent(r),
                     !.request = IF At(r, "resolveRequest") THEN RequestFrom(c.with) ELSE NoId]
  IN CASE At(r, "findPage") -> fetched
       [] handlers[r].pc \in {"insertMessage", "insertOpening"} /\ handlers'[r] # Idle -> written
       [] handlers'[r] = Idle -> answered
       [] OTHER -> c

\* The window has the Accept / Decline row.
AsksToDecide == thread # NoThread /\ thread.state = "reply_accepts"

\* Changes that this tab gets to know of, by an event or by the answer to the
\* call that makes them.  A reply tells the window that the request is accepted
\* if it showed one, or none.
Announced(r) ==
  \/ /\ calls[r] = NoCall
     /\ handlers[r].pc \in {"insertMessage", "insertOpening", "settleReply", "setStatus",
                            "markRead"}
     /\ handlers[r].op # "declineRequest"
  \/ /\ calls[r] # NoCall /\ calls[r].with = partner
     /\ \/ handlers[r].pc \in {"insertMessage", "setStatus"}
        \/ At(r, "insertOpening") /\ calls[r].first
        \/ At(r, "settleReply") /\ (calls[r].first \/ AsksToDecide)

\* A reply accepts the request: what that adds to the badge, send leaves out.
Uncovers(r) == At(r, "settleReply") /\ calls[r] # NoCall /\ Badge' > Badge

Serve(r) ==
  /\ MessageStep(r) \/ RejectInsert(r)
  /\ Len(events) < MaxEvents /\ Push
  /\ calls' = [s \in Slots |-> IF s = r /\ calls[r] # NoCall THEN Progress(r, calls[r])
                                                            ELSE LateCall(calls[s])]
  /\ LateLoads
  /\ stale' = (stale \/ (partner \in Touched /\ ~Announced(r)))
  /\ missed' = IF Uncovers(r) THEN missed \cup {"counts"} ELSE missed
  /\ UNCHANGED <<panel, lists, settling>>

\* A query rejects.  What was written before it is not announced.
ServeFails(r) ==
  /\ Fail(r)
  /\ calls' = IF calls[r] = NoCall THEN calls ELSE [calls EXCEPT ![r].phase = "failed"]
  /\ stale' = TRUE /\ missed' = {"counts", "lists"}
  /\ UNCHANGED <<panel, lists, loads, settling, events>>

\* The others write to Me, read, and answer what Me asked.
OthersAct(r) ==
  /\ Free(r)
  /\ SendMessage(r) \/ GetConversation(r) \/ AnswerRequest(r)
  /\ LET h == handlers'[r] IN h.user # Me /\ h.peer = Me /\ h.op # "scrollBack"
  /\ UNCHANGED <<panel, lists, calls, loads, settling, events, history>>

\* What the friend and block services commit between Me and u, each shown
\* query by query in modules FriendService and BlockService.
BecomeFriends(u) ==
  /\ ~AreFriends(Me, u) /\ ~BlockExistsBetween(Me, u) /\ ~Full
  /\ friendships' = friendships \cup
       {[id |-> nextId, requester |-> Me, addressee |-> u, status |-> "accepted"]}
  /\ messageRequests' = messageRequests \ PendingBetween(Me, u)
  /\ befriended' = befriended \cup {{Me, u}}
  /\ TakeId /\ UNCHANGED <<blocks, messages>>

PartWays(u) ==
  /\ AreFriends(Me, u)
  /\ friendships' = friendships \ FriendshipsBetween(Me, u)
  /\ UNCHANGED <<blocks, messages, messageRequests, befriended, nextId>>

BlockEachOther(u) ==
  /\ ~BlockExistsBetween(Me, u) /\ ~Full
  /\ blocks' = blocks \cup {[id |-> nextId, blocker |-> u, blocked |-> Me]}
  /\ friendships' = friendships \ FriendshipsBetween(Me, u)
  /\ TakeId /\ UNCHANGED <<messages, messageRequests, befriended>>

\* They accept the friend request of Me, which is announced, or end what
\* there is, of which the panel deliberately hears nothing.
OthersRelate ==
  \E u \in Partners :
    /\ \/ /\ BecomeFriends(u) /\ Len(events) < MaxEvents
          /\ events' = Append(events, [event |-> "friend:request_accepted", rows |-> {}])
          /\ UNCHANGED stale
       \/ (PartWays(u) \/ BlockEachOther(u)) /\ stale' = TRUE /\ UNCHANGED events
    /\ Overtaken
    /\ Silent /\ UNCHANGED <<handlers, panel, lists, settling, missed>>

\* runAction on a page behind the panel: the call, then refreshMessenger,
\* which leaves the thread with somebody else alone.
RunAction ==
  /\ NoOtherDecision
  /\ \E u \in Partners :
       /\ BecomeFriends(u) \/ PartWays(u) \/ BlockEachOther(u)
       /\ stale' = (stale \/ u # partner)
  /\ Overtaken
  /\ settling' = "page"
  /\ Silent /\ UNCHANGED <<handlers, panel, lists, events, missed>>

RefreshMessenger ==
  /\ settling = "page" /\ settling' = "nothing"
  /\ IF partner = Nobody THEN NoReread ELSE Reread("refresh")
  /\ Refresh(refreshBoth, FALSE)
  /\ UNCHANGED <<panel, lists, events, history>>

-----------------------------------------------------------------------------
\* What the users and the failures do.
Turn ==
  /\ turns < MaxTurns /\ turns' = turns + 1
  /\ \/ Close \/ ToggleMessenger \/ LoadFails \/ SocketDrops
     \/ OthersRelate \/ RunAction
     \/ \E r \in Slots :
          OpenConversation(r) \/ Send(r) \/ Decide(r) \/ OthersAct(r) \/ ServeFails(r)

\* What follows from it.
Follow ==
  /\ UNCHANGED turns
  /\ \/ HandleEvent \/ ServeLoad \/ LoadArrives \/ Settle \/ RefreshMessenger
     \/ \E r \in Slots :
          ThreadArrives(r) \/ SendArrives(r) \/ DecisionArrives(r) \/ Serve(r)

MessengerNext == Turn \/ Follow

MessengerSpec == MessengerInit /\ [][MessengerNext]_messengerVars

-----------------------------------------------------------------------------
\* What a window with this send state has not heard of: the opening message of
\* u, which has the number of its request, as long as Me has not decided.
Unheard(state, u) ==
  IF state = "reply_accepts" THEN {} ELSE Ids({q \in PendingFor(Me) : q.requester = u})

\* The send state is the server's, or what it was before the opening message of
\* u, or before the reply of Me.
StateShown(state, u) ==
  \/ state = StateWith(u)
  \/ state = "first_contact" /\ StateWith(u) = "reply_accepts"
  \/ state = "reply_accepts" /\ StateWith(u) = "open" /\ RequestState(u) = "open"

Quiet ==
  /\ events = <<>> /\ loads = <<>> /\ settling = "nothing"
  /\ \A r \in Slots : Free(r)

(***************************************************************************)
(* An open window is current: once everything has arrived, the thread is   *)
(* the partner's, with all that was said, the ticks of the moment and the  *)
(* send state the server would enforce; and even after a refused send,     *)
(* which reads the thread again ("corrects the window for every cause at   *)
(* once").  Two things never reach the window.  An opening message of the  *)
(* partner that is still undecided may be missing, with the state of       *)
(* before it: onRequest refreshes the counts and the lists, and the        *)
(* request list has it (NothingUnnoticed).  And a reply leaves the Accept  *)
(* / Decline row standing, for send reads the thread again only after a    *)
(* first contact.                                                          *)
(*                                                                         *)
(* Nothing is said (stale) after an event, a query or an answer was lost,  *)
(* failed, or was overtaken by a change of the pair; after the answer for  *)
(* a partner left behind (see ThreadIsPartners); after a friendship ended, *)
(* a block or a decline, of which the panel hears nothing; and after a     *)
(* send from a window that was behind or had another partner.              *)
(***************************************************************************)
WindowIsCurrent ==
  Quiet /\ partner # Nobody /\ thread # NoThread /\ ~stale =>
    LET shown == ToSet(thread.messages)
        all == Conversation(Me, partner) IN
    /\ thread.with = partner /\ StateShown(thread.state, partner)
    /\ Ids(shown) \subseteq Ids(all)
    /\ Ids(all) \subseteq Ids(shown) \cup Unheard(thread.state, partner)
    /\ Ticked(shown) = Ticked(all)

(***************************************************************************)
(* Nothing goes unnoticed: once everything has arrived, and if no event,   *)
(* answer or query was lost or overtaken, the badge counts at least what   *)
(* is unread and undecided, whether or not the panel is open, and the two  *)
(* lists hold everybody the server would list.  One send is excepted: a    *)
(* reply that accepts a request whose messages are still unread adds them  *)
(* to the server's count, and send asks for the lists only.                *)
(***************************************************************************)
NothingUnnoticed ==
  Quiet =>
    /\ "counts" \notin missed => counts.messages + counts.requests >= Badge
    /\ "lists" \notin missed => InboxOf(Me) \subseteq conversations
                                /\ PendingFor(Me) \subseteq requests

(***************************************************************************)
(* A message shown as read has been read: the ticks of onMessageRead and   *)
(* of every page agree with the messages table, in whatever order events   *)
(* and answers come.                                                       *)
(***************************************************************************)
TicksAreTrue ==
  thread # NoThread => Ticked(ToSet(thread.messages)) \subseteq Ticked(messages)

-----------------------------------------------------------------------------
(* What comments of the code say and the panel does not keep.              *)

(***************************************************************************)
(* MessengerContext.jsx: activePartner is "The person whose thread is      *)
(* showing, or null for the list view".  The answer for somebody who was   *)
(* left behind may come after that for the partner, and shows the thread   *)
(* of the one under the name of the other.                                 *)
(***************************************************************************)
ThreadIsPartners ==
  Quiet /\ partner # Nobody /\ thread # NoThread => thread.with = partner

(***************************************************************************)
(* README.md: "Live message delivery and read receipts".  An opening       *)
(* message of the person whose thread is open is delivered to the lists    *)
(* and the counts, and not to the thread.                                  *)
(***************************************************************************)
WindowIsExact ==
  Quiet /\ partner # Nobody /\ thread # NoThread /\ ~stale =>
    /\ Ids(ToSet(thread.messages)) = Ids(Conversation(Me, partner))
    /\ thread.state = StateWith(partner)

(***************************************************************************)
(* MessengerContext.jsx: a message is read at once when it "arrived in the *)
(* thread the user is looking at".  toggleMessenger hides the panel and    *)
(* leaves the thread open, and what arrives then is marked read unseen.    *)
(***************************************************************************)
ReadWasLookedAt ==
  [][\A r \in Slots :
       calls[r] = NoCall /\ calls'[r] # NoCall /\ calls'[r].kind = "arrival"
         => isOpen]_messengerVars

(***************************************************************************)
(* MessengerContext.jsx: the GET marks messages as read, "so the counts    *)
(* are refreshed straight afterwards".  accept refreshes them before.      *)
(***************************************************************************)
BadgeSettles ==
  Quiet /\ missed = {} => counts.messages + counts.requests = Badge
=============================================================================
