--------------------------- MODULE MessengerProofs ---------------------------
(***************************************************************************)
(* The messenger panel beside the message service, for any users, any      *)
(* number of requests in flight and any number of refreshes and events.    *)
(***************************************************************************)
EXTENDS Messenger, CoreProofs, FiniteSetTheorems, SequenceTheorems

-----------------------------------------------------------------------------
(* Why the properties of the panel hold.                                   *)

\* Rows are numbered once, in the order of the INSERTs, and a pair shares at
\* most one request.
MessagesNumbered(ms, n) ==
  /\ IsFiniteSet(ms)
  /\ \A m \in ms : m.id < n
  /\ \A k, m \in ms : k.id = m.id => k = m

RequestsNumbered(qs, n) ==
  /\ IsFiniteSet(qs)
  /\ \A q \in qs : q.id < n
  /\ \A p, q \in qs : p.id = q.id \/ RequestPair(p) = RequestPair(q) => p = q

Numbered ==
  MessagesNumbered(messages, nextId) /\ RequestsNumbered(messageRequests, nextId)

\* The message of a handler at one of these is stored and not announced yet.
Stored == {"settleReply", "notifyReply", "notifyMessage", "notifyOpening"}

\* The queries an operation makes.
StepsOf(op) ==
  CASE op = "openConversation" -> {"findPage", "resolveBlock", "resolveFriends",
                                   "resolveRequest", "markRead", "notifyRead"}
    [] op = "sendMessage" -> {"resolveBlock", "resolveFriends", "resolveRequest",
                              "insertMessage", "insertOpening"} \cup Stored
    [] op \in {"acceptRequest", "declineRequest"} ->
         {"loadRequest", "setStatus", "notifyRequestAccepted"}
    [] OTHER -> {}

\* What a handler has found out that it still relies on.
Knows(h) ==
  /\ h.pc \in StepsOf(h.op)
  /\ h.pc = "loadRequest" /\ h.user # Me =>
       h.row < nextId /\ \A q \in messageRequests : q.id = h.row => q.requester = h.peer
  /\ h.pc = "setStatus" => \A q \in messageRequests :
                             q.id = h.row => q.recipient = h.user /\ q.requester = h.peer
  /\ h.pc = "settleReply" \/ (h.pc = "insertMessage" /\ h.state = "reply_accepts") =>
       \A q \in messageRequests : q.id = h.ref => q.recipient = h.user
  /\ h.pc \in {"insertMessage", "settleReply"} => h.ref < nextId
  /\ h.pc = "setStatus" => h.row < nextId
  /\ h.pc \in Stored => \E m \in messages : m.id = h.row /\ m.sender = h.user
  /\ h.pc = "notifyRead" /\ h.peer = Me => h.page \subseteq Ticked(messages)

OpOf(kind) ==
  CASE kind = "send" -> "sendMessage"
    [] kind = "accept" -> "acceptRequest"
    [] kind = "decline" -> "declineRequest"
    [] OTHER -> "openConversation"

Reads == {"open", "refresh", "arrival", "accepted", "afterSend", "afterAccept"}

\* A slot serves the call of this tab, or somebody who turns to Me.
Serves(c, h) ==
  /\ c # NoCall /\ c.phase # "sent" => h = Idle
  /\ c # NoCall /\ h # Idle =>
       /\ h.user = Me /\ h.op = OpOf(c.kind)
       /\ c.kind \in Reads \cup {"send"} => h.peer = c.with
  /\ c = NoCall /\ h # Idle => h.user # Me /\ h.peer = Me /\ h.op # "scrollBack"

\* What a read of the thread that nothing has overtaken has found out.
ReadHolds(c, h) ==
  c.kind \in Reads =>
    /\ c.phase = "ok" \/ (h # Idle /\ h.pc # "findPage") => c.done
    /\ c.done /\ ~c.late =>
         /\ Ids(ToSet(c.messages)) = Ids(Conversation(Me, c.with))
         /\ Ticked(ToSet(c.messages)) = Ticked(Conversation(Me, c.with))
         /\ c.phase = "ok" => c.state = StateWith(c.with)
         /\ h.pc \in {"resolveFriends", "resolveRequest"} => StateWith(c.with) # "blocked"
         /\ h.pc = "resolveRequest" /\ StateWith(c.with) = "open" =>
              RequestState(c.with) = "open"
         /\ h.pc \in {"markRead", "notifyRead"} => StateWith(c.with) = "open"

\* A send has its message to show once it is stored, unread as far as it knows.
SendHolds(c, h) ==
  c.kind = "send" =>
    /\ c.phase = "ok" \/ h.pc \in Stored => c.done
    /\ c.done /\ c.phase = "sent" => h.pc \in Stored
    /\ c.done => Ids(ToSet(c.messages)) \subseteq Ids(Conversation(Me, c.with))
    /\ c.done /\ ~c.late => Ids(ToSet(c.messages)) \cap Ticked(messages) = {}

\* Messages of the panel are of the table, with their ticks or without.
Shown(ms) ==
  /\ Ticked(ms) \subseteq Ticked(messages)
  /\ \A n \in ms : \E m \in messages : m.id = n.id /\ m.sender = n.sender

SlotHolds(c, h) ==
  /\ Serves(c, h)
  /\ h # Idle => Knows(h)
  /\ c # NoCall =>
       /\ c.kind \in Reads \cup {"send"} => c.with \in Partners
       /\ ReadHolds(c, h) /\ SendHolds(c, h) /\ Shown(ToSet(c.messages))

Sends(c) == c # NoCall /\ c.kind = "send"

SlotsHold ==
  /\ \A r \in Slots : SlotHolds(calls[r], handlers[r])
  /\ \A r, s \in Slots : Sends(calls[r]) /\ Sends(calls[s]) => r = s

ThreadHolds == thread # NoThread => Shown(ToSet(thread.messages))

EventHolds(e) == e.event = "message:read" => e.rows \subseteq Ticked(messages)

EventsHold == \A e \in ToSet(events) : EventHolds(e)

-----------------------------------------------------------------------------
\* A refresh that nothing has overtaken holds what the server would say now.
LoadHolds(l) ==
  /\ IsFiniteSet(l.waiting)
  /\ ~l.late =>
       /\ "messages" \notin l.asks =>
            l.number = Cardinality(CountedUnread(Me)) /\ l.rows = InboxOf(Me)
       /\ "requests" \notin l.asks => l.waiting = PendingFor(Me)

LoadsHold == \A l \in ToSet(loads) : LoadHolds(l)

Refreshers == {"message:received", "message:request_received", "friend:request_accepted"}

\* The answer to a decision is on its way, or here.
Decided(r) ==
  /\ calls[r] # NoCall /\ calls[r].kind \in {"accept", "decline"}
  /\ calls[r].phase = "ok" \/ At(r, "notifyRequestAccepted")

\* What is under way that refreshes the counts, and what the lists.
Owed ==
  \/ \E e \in ToSet(events) : e.event \in Refreshers
  \/ \E r \in Slots : handlers[r].pc \in Stored /\ handlers[r].peer = Me
  \/ \E r \in Slots : Decided(r)
  \/ settling = "page"

CountsOwed ==
  \/ Owed
  \/ \E l \in ToSet(loads) : l.kind = "counts"
  \/ \E r \in Slots : calls[r] # NoCall /\ calls[r].kind = "arrival"

ListsOwed ==
  \/ Owed
  \/ \E l \in ToSet(loads) : l.kind = "lists"
  \/ \E r \in Slots :
       /\ calls[r] # NoCall
       /\ \/ calls[r].kind = "afterSend"
          \/ calls[r].kind = "send" /\ (calls[r].phase = "ok" \/ handlers[r].pc \in Stored)

CountsHold == "counts" \in missed \/ CountsOwed \/ Badge <= counts.messages + counts.requests

ListsHold ==
  \/ "lists" \in missed \/ ListsOwed
  \/ InboxOf(Me) \subseteq conversations /\ PendingFor(Me) \subseteq requests

-----------------------------------------------------------------------------
\* What is under way that reads the open thread again: calls of this tab,
CallRereads(r) ==
  /\ calls[r] # NoCall
  /\ \/ calls[r].kind \in Reads \/ Decided(r)
     \/ /\ calls[r].kind = "send" /\ calls[r].first
        /\ calls[r].done /\ calls[r].phase # "failed"

\* somebody's handler that is about to tell Me,
HandlerRereads(h) ==
  /\ h.pc \in {"settleReply", "notifyReply", "notifyMessage", "notifyRequestAccepted"}
  /\ h.peer = Me
  /\ h.pc \in {"settleReply", "notifyMessage"} => h.user = partner

\* and what it has told.
EventRereads(e) ==
  \/ e.event \in {"message:request_accepted", "friend:request_accepted"}
  \/ e.event = "message:received" /\ partner \in SenderOf(e.rows)

Rereading ==
  \/ \E r \in Slots : CallRereads(r)
  \/ \E r \in Slots : HandlerRereads(handlers[r])
  \/ \E e \in ToSet(events) : EventRereads(e)
  \/ settling # "nothing"

\* Messages of the open thread that only the answer to a send will show,
SentHere(c) == /\ c # NoCall /\ c.kind = "send" /\ c.with = partner
              /\ c.done /\ c.phase # "failed"

Unshown == UNION {Ids(ToSet(calls[r].messages)) : r \in {s \in Slots : SentHere(calls[s])}}

\* and ticks that only an event will bring.
Unticked ==
  (UNION {e.rows : e \in {x \in ToSet(events) : x.event = "message:read"}})
    \cup (UNION {handlers[r].page : r \in {s \in Slots : /\ handlers[s].pc = "notifyRead"
                                                         /\ handlers[s].peer = Me}})

\* Every message is among these, but for what another has said unheard.
Covers(ids, ms, unheard) ==
  \A m \in ms : m.id \in ids \/ (m.sender # Me /\ m.id \in unheard)

\* The thread shows what the server would answer, but for these.
Current ==
  /\ thread.with = partner /\ StateShown(thread.state, partner)
  /\ Ids(ToSet(thread.messages)) \subseteq Ids(Conversation(Me, partner))
  /\ Covers(Ids(ToSet(thread.messages)) \cup Unshown, Conversation(Me, partner),
            Unheard(thread.state, partner))
  /\ Ticked(Conversation(Me, partner))
       \subseteq Ticked(ToSet(thread.messages)) \cup Unticked \cup Unshown

WindowHolds ==
  partner # Nobody /\ thread # NoThread /\ ~stale => Rereading \/ Current

MessengerInv ==
  /\ MessengerTypeOK /\ Numbered
  /\ SlotsHold /\ ThreadHolds /\ EventsHold /\ LoadsHold
  /\ CountsHold /\ ListsHold

-----------------------------------------------------------------------------
(* Sequences, as the sets of what they hold.                               *)

LEMMA SetOf ==
  ASSUME NEW S, NEW s \in Seq(S)
  PROVE  ToSet(s) \in SUBSET S /\ \A k \in DOMAIN s : s[k] \in ToSet(s)
<1>1. \A k \in DOMAIN s : s[k] \in S
  BY LenProperties, ElementOfSeq
<1> QED BY <1>1 DEF ToSet

LEMMA SetOfConcat ==
  ASSUME NEW S, NEW s \in Seq(S), NEW t \in Seq(S)
  PROVE  s \o t \in Seq(S) /\ ToSet(s \o t) = ToSet(s) \cup ToSet(t)
<1>1. /\ s \o t \in Seq(S) /\ Len(s \o t) = Len(s) + Len(t)
      /\ \A i \in 1..(Len(s) + Len(t)) :
           (s \o t)[i] = IF i <= Len(s) THEN s[i] ELSE t[i - Len(s)]
  BY ConcatProperties
<1>2. /\ Len(s) \in Nat /\ Len(t) \in Nat
      /\ DOMAIN s = 1..Len(s) /\ DOMAIN t = 1..Len(t)
      /\ DOMAIN (s \o t) = 1..(Len(s) + Len(t))
  BY <1>1, LenProperties
<1>3. ASSUME NEW k \in DOMAIN s PROVE s[k] \in ToSet(s \o t)
  <2>1. k \in 1..(Len(s) + Len(t)) /\ k <= Len(s)
    BY <1>2, <1>3
  <2>2. (s \o t)[k] = s[k]
    BY <1>1, <2>1
  <2> QED BY <1>2, <2>1, <2>2 DEF ToSet
<1>4. ASSUME NEW k \in DOMAIN t PROVE t[k] \in ToSet(s \o t)
  <2>1. k + Len(s) \in 1..(Len(s) + Len(t)) /\ ~(k + Len(s) <= Len(s))
    BY <1>2, <1>4
  <2>2. (s \o t)[k + Len(s)] = t[k]
    <3>1. (k + Len(s)) - Len(s) = k
      BY <1>2, <1>4
    <3> QED BY <1>1, <2>1, <3>1
  <2> QED BY <1>2, <2>1, <2>2 DEF ToSet
<1>5. ASSUME NEW k \in DOMAIN (s \o t) PROVE (s \o t)[k] \in ToSet(s) \cup ToSet(t)
  <2>1. CASE k <= Len(s)
    <3>1. k \in DOMAIN s /\ (s \o t)[k] = s[k]
      BY <1>1, <1>2, <2>1
    <3> QED BY <3>1 DEF ToSet
  <2>2. CASE ~(k <= Len(s))
    <3>1. k - Len(s) \in DOMAIN t /\ (s \o t)[k] = t[k - Len(s)]
      BY <1>1, <1>2, <2>2
    <3> QED BY <3>1 DEF ToSet
  <2> QED BY <2>1, <2>2
<1>6. ToSet(s \o t) = ToSet(s) \cup ToSet(t)
  <2>1. ToSet(s) \cup ToSet(t) \subseteq ToSet(s \o t)
    BY <1>3, <1>4 DEF ToSet
  <2>2. ToSet(s \o t) \subseteq ToSet(s) \cup ToSet(t)
    BY <1>5 DEF ToSet
  <2> QED BY <2>1, <2>2
<1> QED BY <1>1, <1>6

LEMMA SetOfTail ==
  ASSUME NEW S, NEW s \in Seq(S), s # <<>>
  PROVE  /\ Tail(s) \in Seq(S) /\ Head(s) \in S
         /\ ToSet(s) = {Head(s)} \cup ToSet(Tail(s))
<1>1. /\ Head(s) \in S /\ Tail(s) \in Seq(S)
      /\ Len(Tail(s)) = Len(s) - 1
      /\ \A i \in 1..Len(Tail(s)) : Tail(s)[i] = s[i + 1]
  BY HeadTailProperties
<1>2. /\ Len(s) \in Nat \ {0} /\ DOMAIN s = 1..Len(s)
      /\ DOMAIN Tail(s) = 1..(Len(s) - 1)
  BY <1>1, LenProperties, EmptySeq
<1>3. Head(s) = s[1] /\ 1 \in DOMAIN s
  <2>1. 1 \in DOMAIN s
    BY <1>2
  <2> QED BY <1>2, <2>1
<1>4. ASSUME NEW k \in DOMAIN Tail(s) PROVE Tail(s)[k] \in ToSet(s)
  <2>1. k + 1 \in DOMAIN s /\ Tail(s)[k] = s[k + 1]
    BY <1>1, <1>2
  <2> QED BY <2>1 DEF ToSet
<1>5. ASSUME NEW k \in DOMAIN s, k # 1 PROVE s[k] \in ToSet(Tail(s))
  <2>1. k - 1 \in DOMAIN Tail(s)
    BY <1>2, <1>5
  <2>2. Tail(s)[k - 1] = s[(k - 1) + 1] /\ (k - 1) + 1 = k
    BY <1>1, <1>2, <2>1
  <2> QED BY <2>1, <2>2 DEF ToSet
<1>6. ToSet(s) \subseteq {Head(s)} \cup ToSet(Tail(s))
  BY <1>3, <1>5 DEF ToSet
<1>7. {Head(s)} \cup ToSet(Tail(s)) \subseteq ToSet(s)
  BY <1>3, <1>4 DEF ToSet
<1> QED BY <1>1, <1>6, <1>7

LEMMA SetOfRemoveAt ==
  ASSUME NEW S, NEW s \in Seq(S), NEW k \in DOMAIN s
  PROVE  /\ RemoveAt(s, k) \in Seq(S)
         /\ ToSet(s) = {s[k]} \cup ToSet(RemoveAt(s, k))
<1> DEFINE a == SubSeq(s, 1, k - 1)
           b == SubSeq(s, k + 1, Len(s))
<1>1. Len(s) \in Nat /\ DOMAIN s = 1..Len(s) /\ k \in 1..Len(s)
  BY LenProperties
<1>2. \A i \in 1..Len(s) : s[i] \in S
  BY <1>1, ElementOfSeq
<1>3. /\ a \in Seq(S) /\ Len(a) = k - 1
      /\ \A i \in 1..(k - 1) : a[i] = s[i]
  <2>1. k - 1 \in Int /\ 1 \in Int /\ \A i \in 1..(k - 1) : s[i] \in S
    BY <1>1, <1>2
  <2>2. /\ SubSeq(s, 1, k - 1) \in Seq(S)
        /\ Len(SubSeq(s, 1, k - 1)) = IF 1 <= k - 1 THEN (k - 1) - 1 + 1 ELSE 0
        /\ \A i \in 1..((k - 1) - 1 + 1) : SubSeq(s, 1, k - 1)[i] = s[1 + i - 1]
    BY <2>1, SubSeqProperties
  <2>3. (k - 1) - 1 + 1 = k - 1 /\ \A i \in 1..(k - 1) : 1 + i - 1 = i
    BY <1>1
  <2>4. Len(a) = k - 1
    BY <1>1, <2>2
  <2> QED BY <2>2, <2>3, <2>4
<1>4. /\ b \in Seq(S) /\ Len(b) = Len(s) - k
      /\ \A i \in 1..(Len(s) - k) : b[i] = s[k + i]
  <2>1. k + 1 \in Int /\ Len(s) \in Int /\ \A i \in (k + 1)..Len(s) : s[i] \in S
    BY <1>1, <1>2
  <2>2. /\ SubSeq(s, k + 1, Len(s)) \in Seq(S)
        /\ Len(SubSeq(s, k + 1, Len(s))) = IF k + 1 <= Len(s) THEN Len(s) - (k + 1) + 1 ELSE 0
        /\ \A i \in 1..(Len(s) - (k + 1) + 1) : SubSeq(s, k + 1, Len(s))[i] = s[(k + 1) + i - 1]
    BY <2>1, SubSeqProperties
  <2>3. Len(s) - (k + 1) + 1 = Len(s) - k /\ \A i \in 1..(Len(s) - k) : (k + 1) + i - 1 = k + i
    BY <1>1
  <2>4. Len(b) = Len(s) - k
    BY <1>1, <2>2
  <2> QED BY <2>2, <2>3, <2>4
<1>5. DOMAIN a = 1..(k - 1) /\ DOMAIN b = 1..(Len(s) - k)
  BY <1>3, <1>4, LenProperties
<1> HIDE DEF a, b
<1>6. ASSUME NEW i \in DOMAIN a PROVE a[i] \in ToSet(s)
  <2>1. i \in DOMAIN s /\ a[i] = s[i]
    BY <1>1, <1>3, <1>5
  <2> QED BY <2>1 DEF ToSet
<1>7. ASSUME NEW i \in DOMAIN b PROVE b[i] \in ToSet(s)
  <2>1. k + i \in DOMAIN s /\ b[i] = s[k + i]
    BY <1>1, <1>4, <1>5
  <2> QED BY <2>1 DEF ToSet
<1>8. ASSUME NEW i \in DOMAIN s PROVE s[i] \in {s[k]} \cup ToSet(a) \cup ToSet(b)
  <2>1. CASE i < k
    <3>1. i \in DOMAIN a /\ a[i] = s[i]
      BY <1>1, <1>3, <1>5, <2>1
    <3> QED BY <3>1 DEF ToSet
  <2>2. CASE i > k
    <3>1. i - k \in DOMAIN b
      BY <1>1, <1>5, <2>2
    <3>2. b[i - k] = s[k + (i - k)] /\ k + (i - k) = i
      BY <1>1, <1>4, <1>5, <3>1
    <3> QED BY <3>1, <3>2 DEF ToSet
  <2> QED BY <1>1, <2>1, <2>2
<1>9. RemoveAt(s, k) = a \o b
  BY DEF RemoveAt, a, b
<1>10. a \o b \in Seq(S) /\ ToSet(a \o b) = ToSet(a) \cup ToSet(b)
  BY <1>3, <1>4, SetOfConcat
<1>11. ToSet(s) \subseteq {s[k]} \cup ToSet(a) \cup ToSet(b)
  BY <1>8 DEF ToSet
<1>12. ToSet(a) \subseteq ToSet(s) /\ ToSet(b) \subseteq ToSet(s) /\ s[k] \in ToSet(s)
  BY <1>6, <1>7 DEF ToSet
<1> QED BY <1>9, <1>10, <1>11, <1>12

LEMMA SetOfAppend ==
  ASSUME NEW S, NEW s \in Seq(S), NEW e \in S
  PROVE  Append(s, e) \in Seq(S) /\ ToSet(Append(s, e)) = ToSet(s) \cup {e}
<1>1. <<e>> \in Seq(S) /\ ToSet(<<e>>) = {e}
  <2>1. <<e>> \in Seq(S) /\ DOMAIN <<e>> = {1} /\ <<e>>[1] = e
    OBVIOUS
  <2> QED BY <2>1 DEF ToSet
<1>2. Append(s, e) = s \o <<e>>
  BY AppendIsConcat
<1> DEFINE t == <<e>>
<1>3. t \in Seq(S) /\ ToSet(t) = {e} /\ Append(s, e) = s \o t
  BY <1>1, <1>2
<1> HIDE DEF t
<1> QED BY <1>3, SetOfConcat

-----------------------------------------------------------------------------
\* NewestFirst lists what there is.
LEMMA NewestFirstLists ==
  ASSUME NEW ms \in SUBSET Message, IsFiniteSet(ms),
         \A m, n \in ms : m.id = n.id => m = n
  PROVE  NewestFirst(ms) \in Seq(Message) /\ ToSet(NewestFirst(ms)) = ms
<1> DEFINE N == Cardinality(ms)
           Newer(m) == {n \in ms : n.id >= m.id}
           Place(m) == Cardinality(Newer(m))
<1>1. N \in Nat /\ \A m \in ms : m.id \in Nat
  BY FS_CardinalityType DEF Message, RowId
<1>2. ASSUME NEW m \in ms PROVE Place(m) \in 1..N /\ IsFiniteSet(Newer(m))
  <2>1. Newer(m) \in SUBSET ms /\ m \in Newer(m)
    BY <1>1
  <2>2. IsFiniteSet(Newer(m)) /\ Place(m) <= N
    BY <2>1, FS_Subset
  <2>3. Place(m) \in Nat /\ Place(m) # 0
    BY <2>1, <2>2, FS_CardinalityType, FS_EmptySet
  <2> QED BY <1>1, <2>2, <2>3
<1>3. ASSUME NEW m \in ms, NEW n \in ms, m.id < n.id PROVE Place(n) < Place(m)
  <2>1. Newer(n) \in SUBSET Newer(m) /\ m \in Newer(m) /\ m \notin Newer(n)
    <3>1. \A k \in ms : k.id >= n.id => k.id >= m.id
      BY <1>1, <1>3
    <3>2. m.id >= m.id /\ ~(m.id >= n.id)
      BY <1>1, <1>3
    <3> QED BY <3>1, <3>2, Zenon
  <2>2. Place(n) <= Place(m) /\ Place(n) # Place(m)
    BY <1>2, <2>1, FS_Subset
  <2>3. Place(n) \in Nat /\ Place(m) \in Nat
    BY <1>1, <1>2
  <2> QED BY <2>2, <2>3
<1>4. ASSUME NEW m \in ms, NEW n \in ms, Place(m) = Place(n) PROVE m = n
  <2>1. Place(n) \in Nat /\ ~(Place(n) < Place(n))
    BY <1>1, <1>2
  <2>2. ~(m.id < n.id) /\ ~(n.id < m.id)
    BY <1>3, <1>4, <2>1
  <2>3. m.id = n.id
    BY <1>1, <2>2
  <2> QED BY <2>3
<1>5. ASSUME NEW k \in 1..N PROVE \E m \in ms : Place(m) = k
  <2> SUFFICES ASSUME \A m \in ms : Place(m) # k PROVE FALSE
    OBVIOUS
  <2> DEFINE T == (1..N) \ {k}
             f == [m \in ms |-> Place(m)]
  <2>1. IsFiniteSet(T) /\ Cardinality(T) = N - 1
    <3>1. IsFiniteSet(1..N) /\ Cardinality(1..N) = N
      BY <1>1, FS_Interval
    <3> HIDE DEF N
    <3>2. IsFiniteSet(T) /\ Cardinality(T) = Cardinality(1..N) - 1
      BY <1>5, <3>1, FS_RemoveElement, Zenon
    <3> QED BY <3>1, <3>2
  <2>2. f \in [ms -> T]
    BY <1>2
  <2>3. PICK x \in ms, y \in ms : x # y /\ f[x] = f[y]
    <3> HIDE DEF f, T
    <3>1. Cardinality(T) < Cardinality(ms)
      BY <1>1, <2>1
    <3> QED BY <2>1, <2>2, <3>1, FS_PigeonHole
  <2>4. Place(x) = Place(y)
    BY <2>3
  <2> QED BY <1>4, <2>3, <2>4
<1> DEFINE At_(k) == CHOOSE m \in ms : Place(m) = k
<1>6. ASSUME NEW k \in 1..N PROVE At_(k) \in ms /\ Place(At_(k)) = k
  BY <1>5
<1>7. NewestFirst(ms) = [k \in 1..N |-> At_(k)]
  BY DEF NewestFirst
<1>8. [k \in 1..N |-> At_(k)] \in Seq(Message)
  <2> HIDE DEF At_, N
  <2>1. \A k \in 1..N : At_(k) \in Message
    BY <1>6
  <2> QED BY <1>1, <2>1, IsASeq
<1>9. ASSUME NEW m \in ms PROVE m \in ToSet(NewestFirst(ms))
  <2>1. Place(m) \in 1..N /\ At_(Place(m)) = m
    <3>1. Place(m) \in 1..N
      BY <1>2
    <3>2. At_(Place(m)) \in ms /\ Place(At_(Place(m))) = Place(m)
      BY <1>6, <3>1
    <3> QED BY <1>4, <3>1, <3>2
  <2> QED BY <1>7, <2>1 DEF ToSet
<1>10. ToSet(NewestFirst(ms)) \subseteq ms
  <2> HIDE DEF At_, N, Place
  <2> QED BY <1>6, <1>7 DEF ToSet
<1> QED BY <1>7, <1>8, <1>9, <1>10

-----------------------------------------------------------------------------
(* The tables: what a step may do to them.                                 *)

\* No message is lost, and what has been read stays so.
MessagesGrow(ms, ns) ==
  \A m \in ms :
    \E n \in ns :
      /\ n.id = m.id /\ n.sender = m.sender /\ n.recipient = m.recipient
      /\ m.read => n.read

\* Every request of qs is one of ps, decided perhaps, or was numbered since.
RequestsFrom(ps, qs, n) ==
  \A q \in qs :
    q.id < n => \E p \in ps : /\ p.id = q.id
                             /\ p.requester = q.requester /\ p.recipient = q.recipient

LEMMA TicksGrow ==
  ASSUME NEW ms \in SUBSET Message, NEW ns \in SUBSET Message, MessagesGrow(ms, ns)
  PROVE  Ticked(ms) \subseteq Ticked(ns)
<1> SUFFICES ASSUME NEW m \in ms, m.sender = Me, m.read PROVE m.id \in Ticked(ns)
  BY DEF Ticked
<1>1. PICK n \in ns : n.id = m.id /\ n.sender = m.sender /\ n.read
  BY DEF MessagesGrow, Message
<1> QED BY <1>1 DEF Ticked

LEMMA AddMessage ==
  ASSUME NEW n \in RowId, NEW ms \in SUBSET Message, MessagesNumbered(ms, n),
         NEW m \in Message, m.id = n
  PROVE  MessagesNumbered(ms \cup {m}, n + 1) /\ MessagesGrow(ms, ms \cup {m})
<1>1. n \in Nat /\ \A k \in ms : k.id \in Nat /\ k.id < n /\ k.id < n + 1
  BY DEF MessagesNumbered, Message, RowId
<1>2. n < n + 1 /\ ~(n < n)
  BY <1>1
<1>3. IsFiniteSet(ms \cup {m})
  BY FS_AddElement DEF MessagesNumbered
<1> QED BY <1>1, <1>2, <1>3, Zenon DEF MessagesNumbered, MessagesGrow

LEMMA MarkMessages ==
  ASSUME NEW n \in RowId, NEW ms \in SUBSET Message, MessagesNumbered(ms, n),
         NEW R \in SUBSET ms
  PROVE  LET ns == (ms \ R) \cup {[m EXCEPT !.read = TRUE] : m \in R}
         IN  MessagesNumbered(ns, n) /\ MessagesGrow(ms, ns)
<1> DEFINE f == [m \in ms |-> IF m \in R THEN [m EXCEPT !.read = TRUE] ELSE m]
           ns == (ms \ R) \cup {[m EXCEPT !.read = TRUE] : m \in R}
<1>1. \A m \in ms : /\ f[m].id = m.id /\ f[m].sender = m.sender /\ f[m].recipient = m.recipient
                    /\ m.read => f[m].read
                    /\ f[m] \in ns
  BY DEF Message
<1>2. \A k \in ns : \E m \in ms : k = f[m]
  OBVIOUS
<1>3. IsFiniteSet(ns)
  <2>1. f \in Surjection(ms, ns)
    <3>1. f \in [ms -> ns]
      BY <1>1
    <3> HIDE DEF f, ns
    <3> QED BY <1>2, <3>1 DEF Surjection
  <2> HIDE DEF f, ns
  <2> QED BY <2>1, FS_Surjection DEF MessagesNumbered
<1> HIDE DEF f, ns
<1>4. MessagesNumbered(ns, n)
  BY <1>1, <1>2, <1>3 DEF MessagesNumbered
<1>5. MessagesGrow(ms, ns)
  BY <1>1 DEF MessagesGrow
<1> QED BY <1>4, <1>5 DEF ns

LEMMA AddRequest ==
  ASSUME NEW n \in RowId, NEW qs \in SUBSET MessageRequest, RequestsNumbered(qs, n),
         NEW q \in MessageRequest, q.id = n, \A p \in qs : RequestPair(p) # RequestPair(q)
  PROVE  RequestsNumbered(qs \cup {q}, n + 1) /\ RequestsFrom(qs, qs \cup {q}, n)
<1>1. n \in Nat /\ \A k \in qs : k.id \in Nat /\ k.id < n /\ k.id < n + 1
  BY DEF RequestsNumbered, MessageRequest, RowId
<1>2. n < n + 1 /\ ~(n < n)
  BY <1>1
<1>3. IsFiniteSet(qs \cup {q})
  BY FS_AddElement DEF RequestsNumbered
<1>4. RequestsNumbered(qs \cup {q}, n + 1)
  BY <1>1, <1>2, <1>3, Zenon DEF RequestsNumbered
<1>5. RequestsFrom(qs, qs \cup {q}, n)
  BY <1>2, Zenon DEF RequestsFrom
<1> QED BY <1>4, <1>5

LEMMA DecideRequests ==
  ASSUME NEW n \in RowId, NEW qs \in SUBSET MessageRequest, RequestsNumbered(qs, n),
         NEW R \in SUBSET qs, NEW status
  PROVE  LET ps == (qs \ R) \cup {[q EXCEPT !.status = status] : q \in R}
         IN  RequestsNumbered(ps, n) /\ RequestsFrom(qs, ps, n)
<1> DEFINE f == [q \in qs |-> IF q \in R THEN [q EXCEPT !.status = status] ELSE q]
           ps == (qs \ R) \cup {[q EXCEPT !.status = status] : q \in R}
<1>1. \A q \in qs : /\ f[q].id = q.id /\ f[q].requester = q.requester
                    /\ f[q].recipient = q.recipient /\ f[q] \in ps
  BY DEF MessageRequest
<1>2. \A p \in ps : \E q \in qs : p = f[q]
  OBVIOUS
<1>3. IsFiniteSet(ps)
  <2>1. f \in Surjection(qs, ps)
    <3>1. f \in [qs -> ps]
      BY <1>1
    <3> HIDE DEF f, ps
    <3> QED BY <1>2, <3>1 DEF Surjection
  <2> HIDE DEF f, ps
  <2> QED BY <2>1, FS_Surjection DEF RequestsNumbered
<1> HIDE DEF f, ps
<1>4. \A q \in qs : RequestPair(f[q]) = RequestPair(q)
  BY <1>1 DEF RequestPair
<1>5. RequestsNumbered(ps, n)
  BY <1>1, <1>2, <1>3, <1>4 DEF RequestsNumbered
<1>6. RequestsFrom(qs, ps, n)
  BY <1>1, <1>2 DEF RequestsFrom
<1> QED BY <1>5, <1>6 DEF ps

LEMMA DropRequests ==
  ASSUME NEW n \in Nat, NEW k \in Nat, n <= k, NEW qs \in SUBSET MessageRequest,
         RequestsNumbered(qs, n), NEW ps \in SUBSET qs
  PROVE  RequestsNumbered(ps, k) /\ RequestsFrom(qs, ps, n)
<1>1. IsFiniteSet(ps)
  BY FS_Subset DEF RequestsNumbered
<1>2. \A q \in ps : q.id < k
  BY DEF RequestsNumbered, MessageRequest, RowId
<1> QED BY <1>1, <1>2 DEF RequestsNumbered, RequestsFrom

\* What a step may do to the tables at all.
Onward ==
  /\ Numbered' /\ nextId <= nextId'
  /\ MessagesGrow(messages, messages') /\ RequestsFrom(messageRequests, messageRequests', nextId)
  /\ \A q \in messageRequests : q.status = "accepted" => q \in messageRequests'

LEMMA TablesStay ==
  ASSUME TypeOK, Numbered, UNCHANGED tables
  PROVE  Onward
<1>1. nextId \in Nat
  BY DEF TypeOK, DatabaseTypeOK, RowId
<1> QED BY <1>1 DEF tables, Onward, Numbered, MessagesGrow, RequestsFrom

LEMMA SetStatusOnward ==
  ASSUME TypeOK, Numbered, NEW i, NEW status, SetStatus(i, status),
         UNCHANGED <<messages, nextId>>
  PROVE  Onward
<1>1. Undecided(i) \in SUBSET messageRequests
  BY DEF Undecided
<1>2. /\ messages \in SUBSET Message /\ messageRequests \in SUBSET MessageRequest
      /\ nextId \in RowId /\ nextId <= nextId
  BY DEF TypeOK, DatabaseTypeOK, RowId
<1>3. /\ RequestsNumbered(messageRequests', nextId)
      /\ RequestsFrom(messageRequests, messageRequests', nextId)
  <2> DEFINE ps == (messageRequests \ Undecided(i)) \cup
                   {[q EXCEPT !.status = status] : q \in Undecided(i)}
  <2>1. RequestsNumbered(messageRequests, nextId)
    BY DEF Numbered
  <2>2. RequestsNumbered(ps, nextId) /\ RequestsFrom(messageRequests, ps, nextId)
    BY <1>1, <1>2, <2>1, DecideRequests
  <2>3. messageRequests' = ps
    BY DEF SetStatus
  <2> HIDE DEF ps
  <2> QED BY <2>2, <2>3
<1>4. \A q \in messageRequests : q.status = "accepted" => q \in messageRequests'
  BY DEF SetStatus, Undecided
<1> QED BY <1>2, <1>3, <1>4 DEF Onward, Numbered, MessagesGrow

\* The message service only adds rows, marks messages and decides requests.
LEMMA MessageStepOnward ==
  ASSUME TypeOK, Numbered, NEW r \in Slots, MessageStep(r)
  PROVE  Onward
<1>1. /\ messages \in SUBSET Message /\ messageRequests \in SUBSET MessageRequest
      /\ nextId \in RowId /\ nextId \in Nat /\ nextId + 1 \in Nat
      /\ nextId <= nextId /\ nextId <= nextId + 1
  BY DEF TypeOK, DatabaseTypeOK, RowId
<1>2. CASE InsertMessage(r)
  <2>1. NewMessage(r) \in Message /\ NewMessage(r).id = nextId
    BY <1>2, NewMessageType DEF InsertMessage, At, NewMessage
  <2>2. /\ messages' = messages \cup {NewMessage(r)} /\ nextId' = nextId + 1
        /\ messageRequests' = messageRequests
    BY <1>2 DEF InsertMessage, TakeId
  <2>3. /\ MessagesNumbered(messages', nextId')
        /\ MessagesGrow(messages, messages')
    BY <1>1, <2>1, <2>2, AddMessage DEF Numbered
  <2>4. /\ RequestsNumbered(messageRequests', nextId')
        /\ RequestsFrom(messageRequests, messageRequests', nextId)
    BY <1>1, <2>2, DropRequests DEF Numbered
  <2> QED BY <1>1, <2>2, <2>3, <2>4 DEF Onward, Numbered
<1>3. CASE InsertOpening(r)
  <2>1. CASE UNCHANGED tables
    BY <2>1, TablesStay
  <2>2. CASE ~UNCHANGED tables
    <3> DEFINE q == [id |-> nextId, requester |-> handlers[r].user,
                     recipient |-> handlers[r].peer, status |-> "pending"]
    <3>1. /\ RequestsBetween(handlers[r].user, handlers[r].peer) = {}
          /\ messages' = messages \cup {NewMessage(r)} /\ nextId' = nextId + 1
          /\ messageRequests' = messageRequests \cup {q}
      BY <1>3, <2>2 DEF InsertOpening, TakeId, DropMessage, tables
    <3>2. handlers[r] \in Handler
      BY <1>3, WholeRequest DEF InsertOpening, At, TypeOK
    <3>3. q \in MessageRequest /\ q.id = nextId
      BY <1>1, <3>2 DEF MessageRequest, Handler
    <3>4. NewMessage(r) \in Message /\ NewMessage(r).id = nextId
      BY <1>1, <3>2 DEF NewMessage, Message, Handler
    <3>5. \A p \in messageRequests : RequestPair(p) # RequestPair(q)
      BY <3>1 DEF RequestsBetween, RequestPair
    <3> HIDE DEF q
    <3>6. /\ MessagesNumbered(messages', nextId')
          /\ MessagesGrow(messages, messages')
      BY <1>1, <3>1, <3>4, AddMessage DEF Numbered
    <3>7. /\ RequestsNumbered(messageRequests', nextId')
          /\ RequestsFrom(messageRequests, messageRequests', nextId)
      BY <1>1, <3>1, <3>3, <3>5, AddRequest DEF Numbered
    <3> QED BY <1>1, <3>1, <3>6, <3>7 DEF Onward, Numbered
  <2> QED BY <2>1, <2>2
<1>4. CASE MarkRead(r)
  <2>1. ToMark(r) \in SUBSET messages
    BY DEF ToMark, UnreadFrom
  <2>2. /\ messages' = (messages \ ToMark(r)) \cup {[m EXCEPT !.read = TRUE] : m \in ToMark(r)}
        /\ nextId' = nextId /\ messageRequests' = messageRequests
    BY <1>4 DEF MarkRead
  <2>3. /\ MessagesNumbered(messages', nextId')
        /\ MessagesGrow(messages, messages')
    BY <1>1, <2>1, <2>2, MarkMessages DEF Numbered
  <2>4. /\ RequestsNumbered(messageRequests', nextId')
        /\ RequestsFrom(messageRequests, messageRequests', nextId)
    BY <1>1, <2>2, DropRequests DEF Numbered
  <2> QED BY <1>1, <2>2, <2>3, <2>4 DEF Onward, Numbered
<1>5. CASE SettleReply(r)
  BY <1>5, SetStatusOnward DEF SettleReply
<1>6. CASE AnswerSetStatus(r)
  BY <1>6, SetStatusOnward DEF AnswerSetStatus
<1>7. CASE UNCHANGED tables
  BY <1>7, TablesStay
<1> QED
  BY <1>2, <1>3, <1>4, <1>5, <1>6, <1>7
     DEF MessageStep, ResolveBlock, ResolveFriends, ResolveRequest, NotifyReply, NotifyMessage,
         NotifyOpening, FindPage, NotifyRead, LoadRequest, NotifyRequestAccepted

\* What the others' services commit between Me and a partner.
Relate(u) == BecomeFriends(u) \/ PartWays(u) \/ BlockEachOther(u)

LEMMA RelateOnward ==
  ASSUME TypeOK, Numbered, NEW u \in Partners, Relate(u)
  PROVE  DatabaseTypeOK' /\ Onward
<1>1. /\ messages \in SUBSET Message /\ messageRequests \in SUBSET MessageRequest
      /\ friendships \in SUBSET Friendship /\ blocks \in SUBSET Block
      /\ befriended \in SUBSET SUBSET Users
      /\ nextId \in RowId /\ nextId \in Nat /\ nextId + 1 \in Nat /\ nextId + 1 \in RowId
      /\ nextId <= nextId /\ nextId <= nextId + 1
      /\ Me \in Users /\ u \in Users
  BY MessengerAssumption DEF TypeOK, DatabaseTypeOK, RowId, NoId, Partners
<1>2. /\ messages' = messages /\ messageRequests' \in SUBSET messageRequests
      /\ nextId' = nextId \/ nextId' = nextId + 1
  BY DEF Relate, BecomeFriends, PartWays, BlockEachOther, TakeId
<1>3. Onward
  <2>1. /\ RequestsNumbered(messageRequests', nextId')
        /\ RequestsFrom(messageRequests, messageRequests', nextId)
    BY <1>1, <1>2, DropRequests DEF Numbered
  <2>2. /\ MessagesNumbered(messages', nextId')
        /\ MessagesGrow(messages, messages')
    BY <1>1, <1>2 DEF Numbered, MessagesNumbered, MessagesGrow, Message, RowId
  <2>3. \A q \in messageRequests : q.status = "accepted" => q \in messageRequests'
    BY DEF Relate, BecomeFriends, PartWays, BlockEachOther, PendingBetween
  <2> QED BY <1>1, <1>2, <2>1, <2>2, <2>3 DEF Onward, Numbered
<1>4. DatabaseTypeOK'
  <2>1. CASE BecomeFriends(u)
    <3>1. [id |-> nextId, requester |-> Me, addressee |-> u, status |-> "accepted"] \in Friendship
      BY <1>1 DEF Friendship
    <3> QED BY <1>1, <1>2, <2>1, <3>1 DEF BecomeFriends, TakeId, DatabaseTypeOK
  <2>2. CASE PartWays(u)
    BY <1>1, <2>2 DEF PartWays, DatabaseTypeOK
  <2>3. CASE BlockEachOther(u)
    <3>1. [id |-> nextId, blocker |-> u, blocked |-> Me] \in Block
      BY <1>1 DEF Block
    <3> QED BY <1>1, <1>2, <2>3, <3>1 DEF BlockEachOther, TakeId, DatabaseTypeOK
  <2> QED BY <2>1, <2>2, <2>3 DEF Relate
<1> QED BY <1>3, <1>4

-----------------------------------------------------------------------------
(* Type correctness.                                                       *)

LEMMA StateTypes ==
  ASSUME TypeOK, NEW u
  PROVE  RequestState(u) \in SendState /\ StateWith(u) \in SendState /\ RequestFrom(u) \in Nat
<1>1. RequestState(u) \in SendState
  BY DEF RequestState, StateOf, SendState
<1>2. StateWith(u) \in SendState
  BY <1>1 DEF StateWith, SendState
<1>3. RequestFrom(u) \in Nat
  <2>1. CASE RequestsBetween(Me, u) = {}
    BY <2>1 DEF RequestFrom, RequestState, NoId
  <2>2. CASE RequestsBetween(Me, u) # {}
    <3> DEFINE q == CHOOSE q \in RequestsBetween(Me, u) : TRUE
    <3>1. q \in messageRequests
      BY <2>2 DEF RequestsBetween
    <3>2. q.id \in Nat
      BY <3>1 DEF TypeOK, DatabaseTypeOK, MessageRequest, RowId
    <3> QED BY <3>2 DEF RequestFrom, NoId
  <2> QED BY <2>1, <2>2
<1> QED BY <1>1, <1>2, <1>3

LEMMA NewCallType ==
  ASSUME NEW kind \in Reads \cup {"send", "accept", "decline"}, NEW u \in Users
  PROVE  NewCall(kind, u) \in Call
<1>1. <<>> \in Seq(Message)
  BY EmptySeq
<1> QED BY <1>1 DEF NewCall, Call, Reads, SendState, NoId

\* A call of the tab reaches the server.
LEMMA CallType ==
  ASSUME TypeOK, NEW r \in Slots, NEW cs \in [Slots -> Call \cup {NoCall}],
         NEW kind \in Reads \cup {"send", "accept", "decline"}, NEW u \in Users,
         NEW op \in Ops, NEW pc \in MessageSteps, NEW row \in Nat,
         Receive(r, op, pc, Me, u, row), calls' = [cs EXCEPT ![r] = NewCall(kind, u)]
  PROVE  TypeOK' /\ calls' \in [Slots -> Call \cup {NoCall}]
<1>1. NewCall(kind, u) \in Call
  BY NewCallType
<1>2. TypeOK'
  BY MessengerAssumption, ReceiveType
<1> QED BY <1>1, <1>2

LEMMA GetThreadType ==
  ASSUME TypeOK, NEW r \in Slots, NEW cs \in [Slots -> Call \cup {NoCall}],
         NEW kind \in Reads, NEW u \in Users, GetThread(r, kind, u, cs)
  PROVE  TypeOK' /\ calls' \in [Slots -> Call \cup {NoCall}]
<1>1. "openConversation" \in Ops /\ "findPage" \in MessageSteps /\ NoId \in Nat
  BY DEF Ops, MessageSteps, NoId
<1> QED BY <1>1, CallType DEF GetThread

LEMMA RefreshType ==
  ASSUME loads \in Seq(Load), NEW kinds \in Seq({"counts", "lists"}), NEW awaited \in BOOLEAN,
         Refresh(kinds, awaited)
  PROVE  /\ loads' \in Seq(Load)
         /\ ToSet(loads') = ToSet(loads) \cup {NewLoad(kind, awaited) : kind \in ToSet(kinds)}
<1> DEFINE new == [k \in DOMAIN kinds |-> NewLoad(kinds[k], awaited)]
<1>1. Len(kinds) \in Nat /\ DOMAIN kinds = 1..Len(kinds)
  BY LenProperties
<1>2. \A k \in 1..Len(kinds) : kinds[k] \in {"counts", "lists"}
  BY <1>1, ElementOfSeq
<1>3. ASSUME NEW k \in 1..Len(kinds) PROVE NewLoad(kinds[k], awaited) \in Load
  BY <1>2 DEF NewLoad, Load
<1>4. new \in Seq(Load)
  <2>1. new = [k \in 1..Len(kinds) |-> NewLoad(kinds[k], awaited)]
    BY <1>1
  <2> QED BY <1>1, <1>3, <2>1, IsASeq
<1>5. ToSet(new) = {NewLoad(kind, awaited) : kind \in ToSet(kinds)}
  BY DEF ToSet
<1>6. loads' = loads \o new
  BY DEF Refresh
<1> HIDE DEF new
<1> QED BY <1>4, <1>5, <1>6, SetOfConcat

LEMMA RefreshKinds ==
  /\ refreshCounts \in Seq({"counts", "lists"}) /\ ToSet(refreshCounts) = {"counts"}
  /\ refreshLists \in Seq({"counts", "lists"}) /\ ToSet(refreshLists) = {"lists"}
  /\ refreshBoth \in Seq({"counts", "lists"}) /\ ToSet(refreshBoth) = {"counts", "lists"}
<1>1. /\ DOMAIN refreshCounts = {1} /\ refreshCounts[1] = "counts"
      /\ DOMAIN refreshLists = {1} /\ refreshLists[1] = "lists"
      /\ DOMAIN refreshBoth = {1, 2} /\ refreshBoth[1] = "counts" /\ refreshBoth[2] = "lists"
  BY DEF refreshCounts, refreshLists, refreshBoth
<1>2. /\ refreshCounts \in Seq({"counts", "lists"})
      /\ refreshLists \in Seq({"counts", "lists"})
      /\ refreshBoth \in Seq({"counts", "lists"})
  BY DEF refreshCounts, refreshLists, refreshBoth
<1> QED BY <1>1, <1>2 DEF ToSet

\* What a step has told Me, and the events it sends for that.
Told(es, name) == {e \in es : e.event = name /\ e.to = Me}

EventOf(es, name) == [event |-> name, rows |-> {e.row : e \in Told(es, name)}]

PushedNames == {"message:request_accepted", "message:received", "message:read",
                "message:request_received"}

LEMMA PushType ==
  ASSUME events \in Seq(Pushed), sent' \in SUBSET Event, Push
  PROVE  /\ events' \in Seq(Pushed)
         /\ ToSet(events') = ToSet(events) \cup
              {EventOf(sent', name) : name \in {n \in PushedNames : Told(sent', n) # {}}}
<1> DEFINE P(es, name) == IF Told(es, name) = {} THEN <<>> ELSE <<EventOf(es, name)>>
<1>1. PICK es \in SUBSET Event : es = sent'
  OBVIOUS
<1>2. events' = events \o P(es, "message:request_accepted") \o P(es, "message:received")
                       \o P(es, "message:read") \o P(es, "message:request_received")
  BY <1>1 DEF Push, ToMe, Told, EventOf
<1>3. ASSUME NEW name \in PushedNames
      PROVE  /\ P(es, name) \in Seq(Pushed)
             /\ ToSet(P(es, name)) = {EventOf(es, n) : n \in {n \in {name} : Told(es, n) # {}}}
  <2>1. EventOf(es, name) \in Pushed
    BY <1>3 DEF EventOf, Pushed, Told, Event, PushedNames
  <2>2. CASE Told(es, name) = {}
    <3>1. P(es, name) = <<>> /\ DOMAIN P(es, name) = {}
      BY <2>2
    <3> QED BY <2>2, <3>1, EmptySeq DEF ToSet
  <2>3. CASE Told(es, name) # {}
    <3>1. /\ P(es, name) = <<EventOf(es, name)>>
          /\ DOMAIN <<EventOf(es, name)>> = {1}
          /\ <<EventOf(es, name)>>[1] = EventOf(es, name)
          /\ <<EventOf(es, name)>> \in Seq(Pushed)
      BY <2>1, <2>3
    <3> HIDE DEF P
    <3> QED BY <2>3, <3>1 DEF ToSet
  <2> QED BY <2>2, <2>3
<1> HIDE DEF P
<1> DEFINE s1 == events \o P(es, "message:request_accepted")
           s2 == s1 \o P(es, "message:received")
           s3 == s2 \o P(es, "message:read")
           s4 == s3 \o P(es, "message:request_received")
<1>4. /\ P(es, "message:request_accepted") \in Seq(Pushed)
      /\ P(es, "message:received") \in Seq(Pushed)
      /\ P(es, "message:read") \in Seq(Pushed)
      /\ P(es, "message:request_received") \in Seq(Pushed)
  BY <1>3 DEF PushedNames
<1>5. s1 \in Seq(Pushed) /\ ToSet(s1) = ToSet(events) \cup ToSet(P(es, "message:request_accepted"))
  BY <1>4, SetOfConcat
<1> HIDE DEF s1
<1>6. s2 \in Seq(Pushed) /\ ToSet(s2) = ToSet(s1) \cup ToSet(P(es, "message:received"))
  BY <1>4, <1>5, SetOfConcat
<1> HIDE DEF s2
<1>7. s3 \in Seq(Pushed) /\ ToSet(s3) = ToSet(s2) \cup ToSet(P(es, "message:read"))
  BY <1>4, <1>6, SetOfConcat
<1> HIDE DEF s3
<1>8. s4 \in Seq(Pushed) /\ ToSet(s4) = ToSet(s3) \cup ToSet(P(es, "message:request_received"))
  BY <1>4, <1>7, SetOfConcat
<1> HIDE DEF s4
<1>9. events' = s4
  BY <1>2 DEF s1, s2, s3, s4
<1>10. ToSet(events') = ToSet(events) \cup
         {EventOf(es, name) : name \in {n \in PushedNames : Told(es, n) # {}}}
  BY <1>3, <1>5, <1>6, <1>7, <1>8, <1>9 DEF PushedNames
<1> QED BY <1>1, <1>8, <1>9, <1>10

LEMMA ConversationLists ==
  ASSUME TypeOK, Numbered, NEW u
  PROVE  /\ NewestFirst(Conversation(Me, u)) \in Seq(Message)
         /\ ToSet(NewestFirst(Conversation(Me, u))) = Conversation(Me, u)
<1>1. Conversation(Me, u) \in SUBSET messages /\ messages \in SUBSET Message
  BY DEF Conversation, TypeOK, DatabaseTypeOK
<1>2. IsFiniteSet(Conversation(Me, u))
  BY <1>1, FS_Subset DEF Numbered, MessagesNumbered
<1>3. \A m, n \in Conversation(Me, u) : m.id = n.id => m = n
  BY <1>1 DEF Numbered, MessagesNumbered
<1>4. Conversation(Me, u) \in SUBSET Message
  BY <1>1
<1> HIDE DEF Conversation
<1> QED BY <1>2, <1>3, <1>4, NewestFirstLists

LEMMA BadgeParts ==
  ASSUME TypeOK, Numbered
  PROVE  /\ IsFiniteSet(CountedUnread(Me)) /\ IsFiniteSet(PendingFor(Me))
         /\ Cardinality(CountedUnread(Me)) \in Nat /\ Cardinality(PendingFor(Me)) \in Nat
         /\ InboxOf(Me) \in SUBSET Users /\ PendingFor(Me) \in SUBSET MessageRequest
<1>1. CountedUnread(Me) \in SUBSET messages /\ PendingFor(Me) \in SUBSET messageRequests
  BY DEF CountedUnread, PendingFor
<1>2. IsFiniteSet(CountedUnread(Me)) /\ IsFiniteSet(PendingFor(Me))
  BY <1>1, FS_Subset DEF Numbered, MessagesNumbered, RequestsNumbered
<1>3. InboxOf(Me) \in SUBSET Users
  BY DEF InboxOf
<1> QED BY <1>1, <1>2, <1>3, FS_CardinalityType DEF TypeOK, DatabaseTypeOK

\* A call that the pair has changed after is only marked.
LEMMA LateCallIs ==
  ASSUME NEW c \in Call \cup {NoCall}
  PROVE  /\ LateCall(c) \in Call \cup {NoCall}
         /\ c = NoCall => LateCall(c) = NoCall
         /\ c # NoCall => /\ LateCall(c) \in Call /\ LateCall(c) # NoCall
                          /\ LateCall(c) \in {c, [c EXCEPT !.late = TRUE]}
                          /\ ~LateCall(c).late => LateCall(c) = c
                          /\ ~LateCall(c).late /\ c.done => c.with \notin Touched
<1>1. c # NoCall => c \in Call
  OBVIOUS
<1>2. c # NoCall => [c EXCEPT !.late = TRUE] \in Call /\ [c EXCEPT !.late = TRUE] # NoCall
                    /\ [c EXCEPT !.late = TRUE].late
  BY <1>1 DEF Call, NoCall
<1> QED BY <1>1, <1>2 DEF LateCall

\* The refreshes in flight, if the lists have moved meanwhile.
Moved == tables' # tables /\ Listed' # Listed

LEMMA LateLoadsType ==
  ASSUME loads \in Seq(Load), LateLoads
  PROVE  /\ loads' \in Seq(Load)
         /\ ToSet(loads') = {[l EXCEPT !.late = l.late \/ Moved] : l \in ToSet(loads)}
<1>1. PICK moved \in BOOLEAN : moved = Moved
  BY DEF Moved
<1>2. loads' = [k \in DOMAIN loads |-> [loads[k] EXCEPT !.late = loads[k].late \/ moved]]
  BY <1>1 DEF LateLoads, Moved
<1>3. Len(loads) \in Nat /\ DOMAIN loads = 1..Len(loads)
  BY LenProperties
<1>4. ASSUME NEW k \in 1..Len(loads)
      PROVE  [loads[k] EXCEPT !.late = loads[k].late \/ moved] \in Load
  <2>1. loads[k] \in Load
    BY <1>4, ElementOfSeq
  <2> QED BY <2>1 DEF Load
<1>5. loads' \in Seq(Load)
  <2>1. loads' = [k \in 1..Len(loads) |-> [loads[k] EXCEPT !.late = loads[k].late \/ moved]]
    BY <1>2, <1>3
  <2> QED BY <1>3, <1>4, <2>1, IsASeq
<1>6. ToSet(loads') = {[l EXCEPT !.late = l.late \/ moved] : l \in ToSet(loads)}
  BY <1>2 DEF ToSet
<1> QED BY <1>1, <1>5, <1>6

\* The call a slot serves, after a query of its handler.
LEMMA ProgressIs ==
  ASSUME MessengerTypeOK, TypeOK, Numbered, TypeOK', NEW r \in Slots, calls[r] # NoCall,
         MessageStep(r) \/ RejectInsert(r)
  PROVE  /\ Progress(r, calls[r]) \in Call
         /\ At(r, "findPage") =>
              Progress(r, calls[r]) =
                [calls[r] EXCEPT !.done = TRUE,
                                 !.messages = NewestFirst(Conversation(Me, calls[r].with))]
         /\ handlers[r].pc \in {"insertMessage", "insertOpening"} /\ handlers'[r] # Idle =>
              Progress(r, calls[r]) =
                [calls[r] EXCEPT !.done = TRUE, !.messages = <<NewMessage(r)>>]
         /\ ~At(r, "findPage") /\ handlers'[r] = Idle =>
              /\ Progress(r, calls[r]).phase = IF Succeeds(r) THEN "ok" ELSE "failed"
              /\ Progress(r, calls[r]).state = StateSent(r)
         /\ /\ ~At(r, "findPage") /\ handlers'[r] # Idle
            /\ handlers[r].pc \notin {"insertMessage", "insertOpening"}
            => Progress(r, calls[r]) = calls[r]
         /\ ~At(r, "findPage") /\ handlers[r].pc \notin {"insertMessage", "insertOpening"} =>
              /\ Progress(r, calls[r]).done = calls[r].done
              /\ Progress(r, calls[r]).messages = calls[r].messages
         /\ /\ Progress(r, calls[r]).kind = calls[r].kind
            /\ Progress(r, calls[r]).with = calls[r].with
            /\ Progress(r, calls[r]).first = calls[r].first
            /\ Progress(r, calls[r]).late = calls[r].late
         /\ handlers'[r] # Idle => Progress(r, calls[r]).phase = calls[r].phase
         /\ handlers'[r] = Idle /\ handlers[r].pc \in {"insertMessage", "insertOpening"} =>
              /\ Progress(r, calls[r]).done = calls[r].done
              /\ Progress(r, calls[r]).messages = calls[r].messages
<1> DEFINE c == calls[r]
           fetched == [c EXCEPT !.done = TRUE,
                                !.messages = NewestFirst(Conversation(Me, c.with))]
           written == [c EXCEPT !.done = TRUE, !.messages = <<NewMessage(r)>>]
           answered == [c EXCEPT !.phase = IF Succeeds(r) THEN "ok" ELSE "failed",
                                 !.state = StateSent(r),
                                 !.request = IF At(r, "resolveRequest") THEN RequestFrom(c.with)
                                                                        ELSE NoId]
<1>1. c \in Call
  BY DEF MessengerTypeOK
<1>2. PICK idle \in BOOLEAN : idle <=> handlers'[r] = Idle
  OBVIOUS
<1>3. handlers[r].pc # "idle"
  <2>1. "idle" \notin MessageSteps
    BY DEF MessageSteps
  <2> QED
    BY DEF RejectInsert, MessageStep, At, ResolveBlock, ResolveFriends, ResolveRequest,
         InsertMessage, SettleReply, NotifyReply, NotifyMessage, InsertOpening, NotifyOpening,
         FindPage, MarkRead, NotifyRead, LoadRequest, AnswerSetStatus, NotifyRequestAccepted
<1>4. handlers[r] \in Handler
  BY <1>3, WholeRequest DEF TypeOK
<1>5. NewMessage(r) \in Message
  BY <1>4 DEF NewMessage, Message, Handler, TypeOK, DatabaseTypeOK
<1>6. StateSent(r) \in SendState /\ RequestFrom(c.with) \in Nat
  <2>1. RequestState(handlers[r].peer) \in SendState /\ RequestFrom(c.with) \in Nat
    BY StateTypes
  <2> QED BY <2>1 DEF StateSent, SendState
<1>7. NewestFirst(Conversation(Me, c.with)) \in Seq(Message)
  BY ConversationLists
<1>8. <<NewMessage(r)>> \in Seq(Message)
  BY <1>5
<1> HIDE DEF c
<1>9. fetched \in Call /\ written \in Call /\ answered \in Call
  BY <1>1, <1>6, <1>7, <1>8 DEF Call, NoId
<1>10. /\ fetched.kind = c.kind /\ fetched.with = c.with /\ fetched.first = c.first
       /\ fetched.late = c.late /\ fetched.phase = c.phase
       /\ written.kind = c.kind /\ written.with = c.with /\ written.first = c.first
       /\ written.late = c.late /\ written.phase = c.phase
       /\ answered.kind = c.kind /\ answered.with = c.with /\ answered.first = c.first
       /\ answered.late = c.late /\ answered.done = c.done /\ answered.messages = c.messages
       /\ answered.phase = IF Succeeds(r) THEN "ok" ELSE "failed"
       /\ answered.state = StateSent(r)
  BY <1>1 DEF Call
<1>11. Progress(r, c) =
        CASE At(r, "findPage") -> fetched
          [] handlers[r].pc \in {"insertMessage", "insertOpening"} /\ ~idle -> written
          [] idle -> answered
          [] OTHER -> c
  BY <1>2 DEF Progress
<1> HIDE DEF fetched, written, answered
<1>12. At(r, "findPage") => ~idle
  <2>1. At(r, "findPage") => handlers'[r].pc = "resolveBlock"
    <3>1. At(r, "findPage") => FindPage(r)
      BY DEF RejectInsert, MessageStep, At, ResolveBlock, ResolveFriends, ResolveRequest,
           InsertMessage, SettleReply, NotifyReply, NotifyMessage, InsertOpening, NotifyOpening,
           MarkRead, NotifyRead, LoadRequest, AnswerSetStatus, NotifyRequestAccepted
    <3> QED BY <1>4, <3>1 DEF FindPage, TypeOK, HandlersTypeOK, Handler
  <2> QED BY <1>2, <2>1 DEF Idle
<1>13. Progress(r, c) \in Call
  BY <1>1, <1>9, <1>11
<1>14. At(r, "findPage") => Progress(r, c) = fetched
  <2>1. At(r, "findPage") => handlers[r].pc \notin {"insertMessage", "insertOpening"}
    BY DEF At
  <2> QED BY <1>11, <1>12, <2>1, Zenon
<1>15. handlers[r].pc \in {"insertMessage", "insertOpening"} /\ ~idle => Progress(r, c) = written
  BY <1>11 DEF At
<1>16. ~At(r, "findPage") /\ idle => Progress(r, c) = answered
  BY <1>11
<1>17. ~At(r, "findPage") /\ ~idle /\ handlers[r].pc \notin {"insertMessage", "insertOpening"}
         => Progress(r, c) = c
  BY <1>11
<1> QED
  BY <1>2, <1>10, <1>12, <1>13, <1>14, <1>15, <1>16, <1>17 DEF c, fetched, written, At

\* What the types of the panel rest on.
Typed == MessengerTypeOK /\ TypeOK /\ Numbered /\ SlotsHold /\ LoadsHold

LEMMA HangupType ==
  ASSUME MessengerTypeOK, NEW r \in Slots
  PROVE  Hangup(r) \in [Slots -> Call \cup {NoCall}]
  BY DEF Hangup, MessengerTypeOK

LEMMA UserTypes ==
  ASSUME Typed, turns' \in Nat, NEW r \in Slots,
         OpenConversation(r) \/ Send(r) \/ Decide(r) \/ OthersAct(r)
  PROVE  MessengerTypeOK'
<1>1. /\ calls \in [Slots -> Call \cup {NoCall}] /\ MessengerTypeOK /\ TypeOK
  BY DEF Typed, MessengerTypeOK
<1>2. CASE OpenConversation(r)
  <2>1. PICK u \in Partners : GetThread(r, "open", u, calls) /\ partner' = u
    BY <1>2 DEF OpenConversation
  <2>2. TypeOK' /\ calls' \in [Slots -> Call \cup {NoCall}]
    BY <1>1, <2>1, GetThreadType DEF Reads, Partners
  <2> QED
    BY <1>1, <1>2, <2>1, <2>2 DEF OpenConversation, MessengerTypeOK, TypeOK, lists
<1>3. CASE Send(r)
  <2>1. partner \in Users
    BY <1>1, <1>3 DEF Send, MessengerTypeOK, Partners
  <2>2. TypeOK' /\ calls' \in [Slots -> Call \cup {NoCall}]
    <3>1. "sendMessage" \in Ops /\ "resolveBlock" \in MessageSteps /\ NoId \in Nat
      BY DEF Ops, MessageSteps, NoId
    <3> QED BY <1>1, <1>3, <2>1, <3>1, CallType DEF Send
  <2> QED BY <1>1, <1>3, <2>2 DEF Send, MessengerTypeOK, TypeOK, lists, panel, history
<1>4. CASE Decide(r)
  <2>1. PICK op \in {"accept", "decline"},
             who \in (IF partner # Nobody
                        THEN {<<thread.with, thread.request>> : t \in
                                {t \in {thread} : t # NoThread /\ t.state = "reply_accepts"}}
                        ELSE {<<q.requester, q.id>> : q \in requests}) :
          /\ Receive(r, IF op = "accept" THEN "acceptRequest" ELSE "declineRequest",
                     "loadRequest", Me, who[1], who[2])
          /\ calls' = [calls EXCEPT ![r] = NewCall(op, who[1])]
    BY <1>4 DEF Decide
  <2>2. who[1] \in Users /\ who[2] \in Nat
    <3>1. CASE partner # Nobody
      <4>1. thread # NoThread /\ who = <<thread.with, thread.request>>
        BY <2>1, <3>1
      <4>2. thread.with \in Users /\ thread.request \in Nat
        BY <1>1, <4>1 DEF MessengerTypeOK, Thread, Partners
      <4> QED BY <4>1, <4>2
    <3>2. CASE partner = Nobody
      <4>1. PICK q \in requests : who = <<q.requester, q.id>>
        BY <2>1, <3>2
      <4>2. q.requester \in Users /\ q.id \in Nat
        BY <1>1, <4>1 DEF MessengerTypeOK, MessageRequest, RowId
      <4> QED BY <4>1, <4>2
    <3> QED BY <3>1, <3>2
  <2>3. TypeOK' /\ calls' \in [Slots -> Call \cup {NoCall}]
    <3>1. /\ "acceptRequest" \in Ops /\ "declineRequest" \in Ops /\ "loadRequest" \in MessageSteps
      BY DEF Ops, MessageSteps
    <3> DEFINE o == IF op = "accept" THEN "acceptRequest" ELSE "declineRequest"
    <3>2. o \in Ops /\ Receive(r, o, "loadRequest", Me, who[1], who[2])
      BY <2>1, <3>1
    <3> HIDE DEF o
    <3> QED BY <1>1, <2>1, <2>2, <3>1, <3>2, CallType
  <2> QED BY <1>1, <1>4, <2>3 DEF Decide, MessengerTypeOK, TypeOK, lists, panel, history
<1>5. CASE OthersAct(r)
  <2>1. TypeOK'
    <3>1. CASE SendMessage(r)
      BY <1>1, <3>1, ReceiveType DEF SendMessage, Ops, MessageSteps, NoId
    <3>2. CASE GetConversation(r)
      BY <1>1, <3>2, ReceiveType DEF GetConversation, Ops, MessageSteps, NoId
    <3>3. CASE AnswerRequest(r)
      <4>1. \A q \in messageRequests : q.requester \in Users /\ q.id \in Nat
        BY <1>1 DEF TypeOK, DatabaseTypeOK, MessageRequest, RowId
      <4> QED BY <1>1, <3>3, <4>1, ReceiveType DEF AnswerRequest, Ops, MessageSteps
    <3> QED BY <1>5, <3>1, <3>2, <3>3 DEF OthersAct
  <2> QED BY <1>1, <1>5, <2>1 DEF OthersAct, MessengerTypeOK, TypeOK, lists, panel, history
<1> QED BY <1>2, <1>3, <1>4, <1>5

LEMMA ThreadArrivesTypes ==
  ASSUME Typed, turns' \in Nat, NEW r \in Slots, ThreadArrives(r)
  PROVE  MessengerTypeOK'
<1> DEFINE c == calls[r]
<1>1. MessengerTypeOK /\ TypeOK /\ loads \in Seq(Load)
  BY DEF Typed, MessengerTypeOK
<1>2. c \in Call /\ c.kind \in Reads /\ c.with \in Partners
  <2>1. c # NoCall /\ c.kind \notin {"send", "accept", "decline"}
    BY DEF ThreadArrives, Answered
  <2>2. c \in Call
    BY <1>1, <2>1 DEF MessengerTypeOK
  <2>3. c.kind \in Reads
    BY <2>1, <2>2 DEF Call, Reads
  <2> QED BY <2>1, <2>2, <2>3 DEF Typed, SlotsHold, SlotHolds
<1>3. calls' \in [Slots -> Call \cup {NoCall}]
  BY <1>1, HangupType DEF ThreadArrives
<1>4. TypeOK'
  BY <1>1 DEF ThreadArrives, TypeOK, DatabaseTypeOK, HandlersTypeOK, Silent, tables
<1>5. loads' \in Seq(Load)
  BY <1>1, RefreshType, RefreshKinds DEF ThreadArrives
<1>6. thread' \in Thread \cup {NoThread} /\ stale' \in BOOLEAN
  <2>1. CASE c.phase = "ok"
    <3>1. ShowThread(c)
      BY <2>1 DEF ThreadArrives
    <3>2. [with |-> c.with, messages |-> c.messages, state |-> c.state,
           request |-> c.request] \in Thread
      BY <1>2 DEF Call, Thread
    <3>3. c.late \in BOOLEAN
      BY <1>2 DEF Call
    <3> QED BY <3>1, <3>2, <3>3 DEF ShowThread
  <2>2. CASE c.phase # "ok"
    BY <1>1, <2>2 DEF ThreadArrives, MessengerTypeOK
  <2> QED BY <2>1, <2>2
<1>7. missed' \subseteq {"counts", "lists"}
  BY <1>1 DEF ThreadArrives, MessengerTypeOK
<1> QED BY <1>1, <1>3, <1>4, <1>5, <1>6, <1>7 DEF ThreadArrives, MessengerTypeOK, TypeOK, lists

\* A step that leaves the tables and the handlers alone keeps their types.
LEMMA SilentTypes ==
  ASSUME TypeOK, UNCHANGED <<tables, handlers>>, Silent
  PROVE  TypeOK'
  BY DEF TypeOK, DatabaseTypeOK, HandlersTypeOK, Silent, tables

\* The answer to a send, whatever it says.
LEMMA SendArrivesTypes ==
  ASSUME Typed, turns' \in Nat, NEW r \in Slots, SendArrives(r)
  PROVE  MessengerTypeOK'
<1> DEFINE c == calls[r]
<1>1. MessengerTypeOK /\ TypeOK /\ loads \in Seq(Load)
  BY DEF Typed, MessengerTypeOK
<1>2. c \in Call /\ c.with \in Users
  <2>1. c # NoCall
    BY DEF SendArrives, Answered
  <2> QED BY <1>1, <2>1 DEF MessengerTypeOK, Call
<1>3. Hangup(r) \in [Slots -> Call \cup {NoCall}]
  BY <1>1, HangupType
<1>4. "refresh" \in Reads /\ "afterSend" \in Reads
  BY DEF Reads
<1>5. CASE c.phase = "failed"
  <2>1. Correction(r) /\ stale' = FALSE /\ UNCHANGED <<thread, loads>>
    BY <1>5 DEF SendArrives
  <2>2. TypeOK' /\ calls' \in [Slots -> Call \cup {NoCall}]
    <3>1. CASE partner = Nobody
      BY <1>1, <1>3, <2>1, <3>1, SilentTypes DEF Correction
    <3>2. CASE partner # Nobody
      <4>1. PICK s \in Slots : GetThread(s, "refresh", partner, Hangup(r))
        BY <2>1, <3>2 DEF Correction
      <4>2. partner \in Users
        BY <1>1, <3>2 DEF MessengerTypeOK, Partners
      <4> QED BY <1>1, <1>3, <1>4, <4>1, <4>2, GetThreadType
    <3> QED BY <3>1, <3>2
  <2> QED
    BY <1>1, <2>1, <2>2 DEF SendArrives, MessengerTypeOK, TypeOK, lists
<1>6. CASE c.phase # "failed"
  <2>1. thread' \in Thread \cup {NoThread}
    <3>1. thread' = IF thread = NoThread THEN thread
                    ELSE [thread EXCEPT !.messages = c.messages \o @]
      BY <1>6 DEF SendArrives
    <3>2. CASE thread = NoThread
      BY <3>1, <3>2
    <3>3. CASE thread # NoThread
      <4>1. thread \in Thread
        BY <1>1, <3>3 DEF MessengerTypeOK
      <4>2. c.messages \in Seq(Message) /\ thread.messages \in Seq(Message)
        BY <1>2, <4>1 DEF Call, Thread
      <4> DEFINE ms == c.messages \o thread.messages
      <4>3. ms \in Seq(Message)
        BY <4>2, SetOfConcat
      <4>4. thread' = [thread EXCEPT !.messages = ms]
        BY <3>1, <3>3
      <4> HIDE DEF ms
      <4> QED BY <4>1, <4>3, <4>4 DEF Thread
    <3> QED BY <3>2, <3>3
  <2>2. stale' \in BOOLEAN
    BY <1>1, <1>2, <1>6 DEF SendArrives, MessengerTypeOK, Call
  <2>3. TypeOK' /\ calls' \in [Slots -> Call \cup {NoCall}] /\ loads' \in Seq(Load)
    <3>1. CASE c.first
      <4>1. PICK s \in Slots : GetThread(s, "afterSend", c.with, Hangup(r))
        BY <1>6, <3>1 DEF SendArrives
      <4>2. TypeOK' /\ calls' \in [Slots -> Call \cup {NoCall}]
        BY <1>1, <1>2, <1>3, <1>4, <4>1, GetThreadType
      <4> QED BY <1>1, <1>6, <3>1, <4>2 DEF SendArrives
    <3>2. CASE ~c.first
      <4>1. /\ calls' = Hangup(r) /\ Refresh(refreshLists, FALSE)
            /\ UNCHANGED <<tables, handlers>> /\ Silent
        BY <1>6, <3>2 DEF SendArrives
      <4> QED BY <1>1, <1>3, <4>1, SilentTypes, RefreshType, RefreshKinds
    <3> QED BY <3>1, <3>2
  <2> QED
    BY <1>1, <2>1, <2>2, <2>3 DEF SendArrives, MessengerTypeOK, TypeOK, lists
<1> QED BY <1>5, <1>6

LEMMA DecisionArrivesTypes ==
  ASSUME Typed, turns' \in Nat, NEW r \in Slots, DecisionArrives(r)
  PROVE  MessengerTypeOK'
<1>1. MessengerTypeOK /\ TypeOK /\ loads \in Seq(Load)
  BY DEF Typed, MessengerTypeOK
<1>2. calls' \in [Slots -> Call \cup {NoCall}]
  BY <1>1, HangupType DEF DecisionArrives
<1>3. TypeOK'
  BY <1>1, SilentTypes DEF DecisionArrives
<1>4. loads' \in Seq(Load)
  BY <1>1, RefreshType, RefreshKinds DEF DecisionArrives
<1>5. settling' \in {"nothing", "accept", "decline", "page"}
  BY <1>1 DEF DecisionArrives, MessengerTypeOK
<1> QED
  BY <1>1, <1>2, <1>3, <1>4, <1>5
     DEF DecisionArrives, MessengerTypeOK, TypeOK, lists, panel, history

LEMMA SettleTypes ==
  ASSUME Typed, turns' \in Nat, Settle
  PROVE  MessengerTypeOK'
<1>1. MessengerTypeOK /\ TypeOK /\ calls \in [Slots -> Call \cup {NoCall}]
  BY DEF Typed, MessengerTypeOK
<1>2. CASE settling = "accept" /\ partner # Nobody
  <2>1. PICK s \in Slots : GetThread(s, "afterAccept", partner, calls)
    BY <1>2 DEF Settle
  <2>2. partner \in Users
    BY <1>1, <1>2 DEF MessengerTypeOK, Partners
  <2>3. TypeOK' /\ calls' \in [Slots -> Call \cup {NoCall}]
    BY <1>1, <2>1, <2>2, GetThreadType DEF Reads
  <2> QED BY <1>1, <1>2, <2>3 DEF Settle, MessengerTypeOK, TypeOK, lists, history
<1>3. CASE ~(settling = "accept" /\ partner # Nobody)
  <2>1. TypeOK'
    BY <1>1, <1>3, SilentTypes DEF Settle
  <2> QED
    BY <1>1, <1>3, <2>1 DEF Settle, CloseConversation, MessengerTypeOK, TypeOK, lists, history
<1> QED BY <1>2, <1>3

LEMMA ServeLoadTypes ==
  ASSUME Typed, turns' \in Nat, ServeLoad
  PROVE  MessengerTypeOK'
<1>1. MessengerTypeOK /\ TypeOK /\ Numbered /\ loads \in Seq(Load)
  BY DEF Typed, MessengerTypeOK
<1>2. PICK k \in DOMAIN loads : \E what \in loads[k].asks :
                                loads' = [loads EXCEPT ![k] = Queried(loads[k], what)]
  BY DEF ServeLoad
<1>3. PICK what \in loads[k].asks : loads' = [loads EXCEPT ![k] = Queried(loads[k], what)]
  BY <1>2
<1>4. loads[k] \in Load
  BY <1>1, LenProperties, ElementOfSeq
<1>5. Queried(loads[k], what) \in Load
  <2>1. /\ Cardinality(CountedUnread(Me)) \in Nat /\ InboxOf(Me) \in SUBSET Users
        /\ PendingFor(Me) \in SUBSET MessageRequest
    BY <1>1, BadgeParts
  <2> QED BY <1>4, <2>1 DEF Load, Queried
<1>6. loads' \in Seq(Load)
  BY <1>1, <1>3, <1>5, ExceptSeq, LenProperties
<1>7. TypeOK'
  BY <1>1, SilentTypes DEF ServeLoad
<1> QED BY <1>1, <1>6, <1>7 DEF ServeLoad, MessengerTypeOK, TypeOK, lists, panel, history

LEMMA LoadEndsTypes ==
  ASSUME Typed, turns' \in Nat, LoadArrives \/ LoadFails
  PROVE  MessengerTypeOK'
<1>1. MessengerTypeOK /\ TypeOK /\ loads \in Seq(Load) /\ LoadsHold
  BY DEF Typed, MessengerTypeOK
<1>2. TypeOK'
  BY <1>1, SilentTypes DEF LoadArrives, LoadFails
<1>3. ASSUME NEW k \in DOMAIN loads
      PROVE  /\ loads[k] \in Load /\ Cardinality(loads[k].waiting) \in Nat
             /\ RemoveAt(loads, k) \in Seq(Load)
  <2>1. loads[k] \in ToSet(loads) /\ loads[k] \in Load
    BY <1>1, SetOf
  <2>2. IsFiniteSet(loads[k].waiting)
    BY <1>1, <2>1 DEF LoadsHold, LoadHolds
  <2> QED BY <1>1, <2>1, <2>2, SetOfRemoveAt, FS_CardinalityType
<1>4. CASE LoadFails
  <2>1. PICK k \in DOMAIN loads : /\ missed' = missed \cup {loads[k].kind}
                                 /\ loads' = RemoveAt(loads, k)
    BY <1>4 DEF LoadFails
  <2>2. loads' \in Seq(Load) /\ missed' \subseteq {"counts", "lists"}
    BY <1>1, <1>3, <2>1 DEF MessengerTypeOK, Load
  <2> QED BY <1>1, <1>2, <1>4, <2>2 DEF LoadFails, MessengerTypeOK, TypeOK, lists, panel
<1>5. CASE LoadArrives
  <2> PICK k \in DOMAIN loads :
        LET l == loads[k] IN
        /\ IF l.kind = "counts"
             THEN /\ counts' = [messages |-> l.number, requests |-> Cardinality(l.waiting)]
                  /\ UNCHANGED <<conversations, requests>>
             ELSE conversations' = l.rows /\ requests' = l.waiting /\ UNCHANGED counts
        /\ missed' = IF l.late THEN missed \cup {l.kind} ELSE missed \ {l.kind}
        /\ loads' = RemoveAt(loads, k)
        /\ UNCHANGED <<panel, calls, settling, events, stale>>
    BY <1>5 DEF LoadArrives
  <2> DEFINE l == loads[k]
  <2>1. l \in Load /\ Cardinality(l.waiting) \in Nat /\ loads' \in Seq(Load)
    BY <1>3
  <2> HIDE DEF l
  <2>2. missed' \subseteq {"counts", "lists"}
    BY <1>1, <2>1 DEF l, MessengerTypeOK, Load
  <2>3. /\ counts' \in [messages : Nat, requests : Nat]
        /\ conversations' \subseteq Users /\ requests' \subseteq MessageRequest
    BY <1>1, <2>1 DEF l, MessengerTypeOK, Load
  <2> QED BY <1>1, <1>2, <2>1, <2>2, <2>3 DEF MessengerTypeOK, TypeOK, panel
<1> QED BY <1>4, <1>5

\* The ticks of onMessageRead.
LEMMA TickType ==
  ASSUME NEW ms \in Seq(Message), NEW rows
  PROVE  /\ Tick(ms, rows) \in Seq(Message)
         /\ ToSet(Tick(ms, rows)) =
              {IF m.id \in rows THEN [m EXCEPT !.read = TRUE] ELSE m : m \in ToSet(ms)}
<1> DEFINE t(m) == IF m.id \in rows THEN [m EXCEPT !.read = TRUE] ELSE m
<1>1. \A m \in Message : t(m) \in Message
  BY DEF Message
<1>2. Len(ms) \in Nat /\ DOMAIN ms = 1..Len(ms) /\ \A k \in 1..Len(ms) : ms[k] \in Message
  BY LenProperties, ElementOfSeq
<1>3. Tick(ms, rows) = [k \in 1..Len(ms) |-> t(ms[k])]
  BY <1>2 DEF Tick
<1> HIDE DEF t
<1>4. Tick(ms, rows) \in Seq(Message)
  BY <1>1, <1>2, <1>3, IsASeq
<1>5. ToSet(Tick(ms, rows)) = {t(m) : m \in ToSet(ms)}
  BY <1>2, <1>3 DEF ToSet
<1> QED BY <1>4, <1>5 DEF t

LEMMA HandleEventTypes ==
  ASSUME Typed, turns' \in Nat, HandleEvent
  PROVE  MessengerTypeOK'
<1> DEFINE e == Head(events)
<1>1. /\ MessengerTypeOK /\ TypeOK /\ loads \in Seq(Load) /\ events \in Seq(Pushed)
      /\ calls \in [Slots -> Call \cup {NoCall}]
  BY DEF Typed, MessengerTypeOK
<1>2. events' \in Seq(Pushed) /\ e \in Pushed
  BY <1>1, SetOfTail DEF HandleEvent
<1>3. ASSUME NEW kind \in Reads, partner # Nobody, Reread(kind)
      PROVE  TypeOK' /\ calls' \in [Slots -> Call \cup {NoCall}]
  <2>1. partner \in Users
    BY <1>1, <1>3 DEF MessengerTypeOK, Partners
  <2> QED BY <1>1, <1>3, <2>1, GetThreadType DEF Reread
<1>4. NoReread => TypeOK' /\ calls' \in [Slots -> Call \cup {NoCall}]
  BY <1>1, SilentTypes DEF NoReread
<1>5. /\ Refresh(refreshLists, FALSE) => loads' \in Seq(Load)
      /\ Refresh(refreshBoth, FALSE) => loads' \in Seq(Load)
  BY <1>1, RefreshType, RefreshKinds
<1>6. UNCHANGED <<isOpen, partner, lists, settling, history>>
  BY DEF HandleEvent
<1>7. SUFFICES /\ TypeOK' /\ calls' \in [Slots -> Call \cup {NoCall}]
               /\ loads' \in Seq(Load) /\ thread' \in Thread \cup {NoThread}
  BY <1>1, <1>2, <1>6 DEF MessengerTypeOK, TypeOK, lists, history
<1> HIDE DEF e
<1>8. CASE e.event = "message:read"
  <2>1. /\ thread' = IF thread = NoThread THEN thread
                     ELSE [thread EXCEPT !.messages = Tick(@, e.rows)]
        /\ NoReread /\ UNCHANGED loads
    BY <1>8 DEF HandleEvent, e
  <2>2. CASE thread # NoThread
    <3>1. thread \in Thread /\ thread.messages \in Seq(Message)
      BY <1>1, <2>2 DEF MessengerTypeOK, Thread
    <3> DEFINE ms == Tick(thread.messages, e.rows)
    <3>2. ms \in Seq(Message)
      BY <3>1, TickType
    <3>3. thread' = [thread EXCEPT !.messages = ms]
      BY <2>1, <2>2
    <3> HIDE DEF ms
    <3>4. thread' \in Thread
      BY <3>1, <3>2, <3>3 DEF Thread
    <3> QED BY <1>1, <1>4, <2>1, <3>4
  <2> QED BY <1>1, <1>4, <2>1, <2>2
<1>9. CASE e.event = "message:received"
  <2>1. HearMessage(e) /\ thread' = thread
    BY <1>9 DEF HandleEvent, e
  <2> QED BY <1>1, <1>3, <1>4, <1>5, <2>1 DEF HearMessage, Reads, MessengerTypeOK
<1>10. CASE e.event = "message:request_received"
  <2>1. NoReread /\ Refresh(refreshBoth, FALSE) /\ thread' = thread
    BY <1>10 DEF HandleEvent, e
  <2> QED BY <1>1, <1>4, <1>5, <2>1 DEF MessengerTypeOK
<1>11. CASE e.event \notin {"message:read", "message:received", "message:request_received"}
  <2>1. HearAccepted(e) /\ thread' = thread
    BY <1>11 DEF HandleEvent, e
  <2> QED BY <1>1, <1>3, <1>4, <1>5, <2>1 DEF HearAccepted, Reads, MessengerTypeOK
<1> QED BY <1>8, <1>9, <1>10, <1>11

LEMMA ServeTypes ==
  ASSUME Typed, turns' \in Nat, NEW r \in Slots, Serve(r)
  PROVE  MessengerTypeOK' /\ TypeOK'
<1>1. MessengerTypeOK /\ TypeOK /\ Numbered /\ loads \in Seq(Load) /\ events \in Seq(Pushed)
  BY DEF Typed, MessengerTypeOK
<1>2. MessageStep(r) \/ RejectInsert(r)
  BY DEF Serve
<1>3. TypeOK'
  <2>1. CASE RejectInsert(r)
    BY <1>1, <2>1, RespondType, OnlyHandlers DEF RejectInsert
  <2> QED BY <1>1, <1>2, <2>1, MessageStepType
<1>4. calls' \in [Slots -> Call \cup {NoCall}]
  <2>1. calls[r] # NoCall => Progress(r, calls[r]) \in Call
    BY <1>1, <1>2, <1>3, ProgressIs
  <2>2. \A s \in Slots : LateCall(calls[s]) \in Call \cup {NoCall}
    BY <1>1, LateCallIs DEF MessengerTypeOK
  <2> DEFINE p == Progress(r, calls[r])
             q(s) == LateCall(calls[s])
  <2>3. calls' = [s \in Slots |-> IF s = r /\ calls[r] # NoCall THEN p ELSE q(s)]
    BY DEF Serve
  <2> HIDE DEF p, q
  <2> QED BY <2>1, <2>2, <2>3 DEF p, q
<1>5. loads' \in Seq(Load)
  BY <1>1, LateLoadsType DEF Serve
<1>6. events' \in Seq(Pushed)
  BY <1>1, <1>3, PushType DEF Serve, TypeOK, HandlersTypeOK
<1>7. missed' \subseteq {"counts", "lists"}
  BY <1>1 DEF Serve, MessengerTypeOK
<1>8. stale' \in BOOLEAN
  BY <1>1 DEF Serve, MessengerTypeOK
<1> QED
  BY <1>1, <1>3, <1>4, <1>5, <1>6, <1>7, <1>8 DEF Serve, MessengerTypeOK, TypeOK, lists, panel

LEMMA ServeFailsTypes ==
  ASSUME Typed, turns' \in Nat, NEW r \in Slots, ServeFails(r)
  PROVE  MessengerTypeOK'
<1>1. MessengerTypeOK /\ TypeOK
  BY DEF Typed
<1>2. TypeOK'
  BY <1>1, RespondType, OnlyHandlers DEF ServeFails, Fail
<1>3. calls' \in [Slots -> Call \cup {NoCall}]
  <2>1. CASE calls[r] = NoCall
    BY <1>1, <2>1 DEF ServeFails, MessengerTypeOK
  <2>2. CASE calls[r] # NoCall
    <3> DEFINE c == [calls[r] EXCEPT !.phase = "failed"]
    <3>1. c \in Call
      BY <1>1, <2>2 DEF MessengerTypeOK, Call
    <3>2. calls' = [calls EXCEPT ![r] = c]
      BY <2>2 DEF ServeFails
    <3> HIDE DEF c
    <3> QED BY <1>1, <3>1, <3>2 DEF MessengerTypeOK
  <2> QED BY <2>1, <2>2
<1> QED BY <1>1, <1>2, <1>3 DEF ServeFails, MessengerTypeOK, TypeOK, lists, panel

\* The services behind the pages.
LEMMA RelatesTypes ==
  ASSUME Typed, turns' \in Nat, OthersRelate \/ RunAction
  PROVE  MessengerTypeOK' /\ Onward /\ TypeOK'
<1>1. MessengerTypeOK /\ TypeOK /\ Numbered /\ loads \in Seq(Load) /\ events \in Seq(Pushed)
  BY DEF Typed, MessengerTypeOK
<1>2. PICK u \in Partners : Relate(u)
  BY DEF OthersRelate, RunAction, Relate
<1>3. DatabaseTypeOK' /\ Onward
  BY <1>1, <1>2, RelateOnward
<1>4. /\ UNCHANGED <<handlers, panel, lists, missed>> /\ Silent /\ Overtaken
  BY DEF OthersRelate, RunAction
<1>5. TypeOK'
  BY <1>1, <1>3, <1>4 DEF TypeOK, HandlersTypeOK, Silent
<1>6. loads' \in Seq(Load)
  BY <1>1, <1>4, LateLoadsType DEF Overtaken
<1>7. calls' \in [Slots -> Call \cup {NoCall}]
  <2>1. \A s \in Slots : LateCall(calls[s]) \in Call \cup {NoCall}
    BY <1>1, LateCallIs DEF MessengerTypeOK
  <2> DEFINE q(s) == LateCall(calls[s])
  <2>2. calls' = [s \in Slots |-> q(s)]
    BY <1>4 DEF Overtaken
  <2> HIDE DEF q
  <2> QED BY <2>1, <2>2 DEF q
<1>8. events' \in Seq(Pushed) /\ stale' \in BOOLEAN
      /\ settling' \in {"nothing", "accept", "decline", "page"}
  <2> DEFINE e == [event |-> "friend:request_accepted", rows |-> {}]
  <2>1. e \in Pushed
    BY DEF Pushed
  <2>2. events' = events \/ events' = Append(events, e)
    BY DEF OthersRelate, RunAction
  <2> HIDE DEF e
  <2>3. events' \in Seq(Pushed)
    BY <1>1, <2>1, <2>2, SetOfAppend
  <2> QED BY <2>3, <1>1, <2>1, SetOfAppend DEF OthersRelate, RunAction, MessengerTypeOK
<1> QED
  BY <1>1, <1>3, <1>4, <1>5, <1>6, <1>7, <1>8 DEF MessengerTypeOK, TypeOK, lists, panel

LEMMA RefreshMessengerTypes ==
  ASSUME Typed, turns' \in Nat, RefreshMessenger
  PROVE  MessengerTypeOK'
<1>1. MessengerTypeOK /\ TypeOK /\ loads \in Seq(Load) /\ calls \in [Slots -> Call \cup {NoCall}]
  BY DEF Typed, MessengerTypeOK
<1>2. loads' \in Seq(Load)
  BY <1>1, RefreshType, RefreshKinds DEF RefreshMessenger
<1>3. TypeOK' /\ calls' \in [Slots -> Call \cup {NoCall}]
  <2>1. CASE partner = Nobody
    BY <1>1, <2>1, SilentTypes DEF RefreshMessenger, NoReread
  <2>2. CASE partner # Nobody
    <3>1. partner \in Users
      BY <1>1, <2>2 DEF MessengerTypeOK, Partners
    <3>2. PICK s \in Slots : GetThread(s, "refresh", partner, calls)
      BY <2>2 DEF RefreshMessenger, Reread
    <3> QED BY <1>1, <3>1, <3>2, GetThreadType DEF Reads
  <2> QED BY <2>1, <2>2
<1> QED BY <1>1, <1>2, <1>3 DEF RefreshMessenger, MessengerTypeOK, TypeOK, lists, panel, history

LEMMA PanelTypes ==
  ASSUME Typed, turns' \in Nat, Close \/ ToggleMessenger \/ SocketDrops
  PROVE  MessengerTypeOK'
<1>1. MessengerTypeOK /\ TypeOK
  BY DEF Typed
<1>2. TypeOK'
  BY <1>1, SilentTypes DEF Close, ToggleMessenger, SocketDrops
<1>3. CASE Close
  BY <1>1, <1>2, <1>3 DEF Close, CloseConversation, MessengerTypeOK, TypeOK, lists, history
<1>4. CASE ToggleMessenger
  BY <1>1, <1>2, <1>4 DEF ToggleMessenger, MessengerTypeOK, TypeOK, lists, history
<1>5. CASE SocketDrops
  <2>1. events' \in Seq(Pushed)
    BY <1>5, EmptySeq DEF SocketDrops
  <2> QED BY <1>1, <1>2, <1>5, <2>1 DEF SocketDrops, MessengerTypeOK, TypeOK, lists, panel
<1> QED BY <1>3, <1>4, <1>5
-----------------------------------------------------------------------------
(* What the slots hold.                                                    *)

\* While the tables stay, so does everything that is read off them.
LEMMA TruthStays ==
  ASSUME UNCHANGED tables
  PROVE  /\ \A u : /\ Conversation(Me, u)' = Conversation(Me, u)
                   /\ StateWith(u)' = StateWith(u) /\ RequestState(u)' = RequestState(u)
         /\ Ticked(messages)' = Ticked(messages)
         /\ CountedUnread(Me)' = CountedUnread(Me)
         /\ InboxOf(Me)' = InboxOf(Me) /\ PendingFor(Me)' = PendingFor(Me)
<1>1. ASSUME NEW u
      PROVE  /\ Conversation(Me, u)' = Conversation(Me, u)
             /\ StateWith(u)' = StateWith(u) /\ RequestState(u)' = RequestState(u)
  BY DEF tables, Conversation, StateWith, RequestState, RequestsBetween, StateOf,
         BlockExistsBetween, AreFriends, FriendshipsBetween
<1>2. /\ CountedUnread(Me)' = CountedUnread(Me)
      /\ InboxOf(Me)' = InboxOf(Me) /\ PendingFor(Me)' = PendingFor(Me)
  BY DEF tables, CountedUnread, InboxOf, PendingFor, Conversation, RequestsBetween
<1>3. Ticked(messages)' = Ticked(messages)
  BY DEF tables, Ticked
<1> QED BY <1>1, <1>2, <1>3

\* What a window may show of a send state, and may not have heard of.
LEMMA StateStays ==
  ASSUME UNCHANGED <<blocks, friendships, messageRequests>>, NEW state, NEW u
  PROVE  /\ StateShown(state, u) => StateShown(state, u)'
         /\ Unheard(state, u)' = Unheard(state, u)
<1>1. StateWith(u)' = StateWith(u) /\ RequestState(u)' = RequestState(u)
  BY DEF StateWith, RequestState, RequestsBetween, StateOf, BlockExistsBetween, AreFriends,
         FriendshipsBetween
<1> QED BY <1>1 DEF StateShown, Unheard, PendingFor, Ids

LEMMA SlotStays ==
  ASSUME UNCHANGED tables, NEW c, NEW h, SlotHolds(c, h)
  PROVE  SlotHolds(c, h)'
<1> USE TruthStays
<1>1. Serves(c, h)'
  BY DEF SlotHolds, Serves
<1>2. h # Idle => Knows(h)'
  BY DEF SlotHolds, Knows, tables
<1>3. ReadHolds(c, h) => ReadHolds(c, h)'
  BY DEF ReadHolds, Ticked
<1>4. SendHolds(c, h) => SendHolds(c, h)'
  BY DEF SendHolds, Ticked
<1>5. Shown(ToSet(c.messages)) => Shown(ToSet(c.messages))'
  BY DEF Shown, tables, Ticked
<1> QED BY <1>1, <1>2, <1>3, <1>4, <1>5 DEF SlotHolds

\* A slot's call and handler after a step that leaves the tables alone.
LEMMA SlotTurns ==
  ASSUME UNCHANGED tables, NEW s \in Slots,
         \/ calls'[s] = calls[s] /\ handlers'[s] = handlers[s] /\ SlotHolds(calls[s], handlers[s])
         \/ calls'[s] = NoCall /\ handlers'[s] = Idle
         \/ \E c, h : calls'[s] = c /\ handlers'[s] = h /\ SlotHolds(c, h)
  PROVE  SlotHolds(calls[s], handlers[s])'
<1>1. SlotHolds(NoCall, Idle)
  BY DEF SlotHolds, Serves, Idle
<1>2. PICK c, h : calls'[s] = c /\ handlers'[s] = h /\ SlotHolds(c, h)
  BY <1>1
<1>3. SlotHolds(c, h)'
  BY <1>2, SlotStays
<1> QED BY <1>2, <1>3

\* A call of this tab that the server has not looked at.
LEMMA CallBegins ==
  ASSUME TypeOK, NEW c \in Call, NEW h \in Handler,
         c.phase = "sent", ~c.done, c.messages = <<>>,
         c.kind \in Reads \cup {"send"} => c.with \in Partners /\ h.peer = c.with,
         h.user = Me, h.op = OpOf(c.kind),
         h.pc = CASE c.kind \in Reads -> "findPage"
                  [] c.kind = "send" -> "resolveBlock"
                  [] OTHER -> "loadRequest"
  PROVE  SlotHolds(c, h)
<1>1. c.kind \in Reads \cup {"send", "accept", "decline"}
  BY DEF Call, Reads
<1>2. /\ c.kind \in Reads => h.pc = "findPage" /\ h.op = "openConversation"
      /\ c.kind = "send" => h.pc = "resolveBlock" /\ h.op = "sendMessage"
      /\ c.kind \in {"accept", "decline"} =>
           h.pc = "loadRequest" /\ h.op \in {"acceptRequest", "declineRequest"}
  BY <1>1 DEF OpOf, Reads
<1>3. ToSet(c.messages) = {}
  BY DEF ToSet
<1>4. Shown({})
  BY DEF Shown, Ticked
<1>5. Serves(c, h)
  BY DEF Serves, NoCall
<1>6. Knows(h)
  BY <1>1, <1>2 DEF Knows, StepsOf, Stored
<1>7. ReadHolds(c, h)
  BY <1>2 DEF ReadHolds, Idle
<1>8. SendHolds(c, h)
  BY <1>2 DEF SendHolds, Stored
<1> QED BY <1>3, <1>4, <1>5, <1>6, <1>7, <1>8 DEF SlotHolds

\* cs are the calls, perhaps without one that was answered.
Without(cs) ==
  /\ cs \in [Slots -> Call \cup {NoCall}]
  /\ \A s \in Slots : cs[s] = calls[s] \/ (cs[s] = NoCall /\ handlers[s] = Idle)

LEMMA WithoutNone ==
  ASSUME Typed
  PROVE  Without(calls)
  BY DEF Typed, MessengerTypeOK, Without

LEMMA WithoutOne ==
  ASSUME Typed, NEW r \in Slots, Answered(r)
  PROVE  Without(Hangup(r)) /\ handlers[r] = Idle
<1>1. handlers[r] = Idle
  BY DEF Answered, Typed, SlotsHold, SlotHolds, Serves
<1> QED BY <1>1 DEF Typed, MessengerTypeOK, Without, Hangup

LEMMA GetThreadSlots ==
  ASSUME Typed, NEW cs, Without(cs), NEW r \in Slots, NEW kind \in Reads, NEW u \in Partners,
         GetThread(r, kind, u, cs)
  PROVE  SlotsHold'
<1>1. TypeOK /\ handlers \in [Slots -> Handler \cup {Idle}] /\ SlotsHold
  BY DEF Typed, TypeOK, HandlersTypeOK
<1> DEFINE c == NewCall(kind, u)
           h == [op |-> "openConversation", pc |-> "findPage", user |-> Me, peer |-> u,
                 row |-> NoId, ref |-> NoId, state |-> "unknown", page |-> {}]
<1>2. calls' = [cs EXCEPT ![r] = c] /\ handlers' = [handlers EXCEPT ![r] = h] /\ UNCHANGED tables
  BY DEF GetThread, Receive
<1>3. c \in Call
  BY NewCallType DEF Partners
<1>4. h \in Handler
  BY MessengerAssumption DEF Handler, Ops, MessageSteps, NoId, SendState, Partners
<1>5. /\ c.phase = "sent" /\ ~c.done /\ c.messages = <<>> /\ c.kind = kind /\ c.with = u
      /\ h.user = Me /\ h.op = "openConversation" /\ h.pc = "findPage" /\ h.peer = u
  BY DEF NewCall
<1>6. OpOf(kind) = "openConversation" /\ kind \notin {"send", "accept", "decline"}
  BY DEF OpOf, Reads
<1> HIDE DEF c, h
<1>7. SlotHolds(c, h)
  BY <1>1, <1>3, <1>4, <1>5, <1>6, CallBegins
<1>8. ASSUME NEW s \in Slots PROVE SlotHolds(calls[s], handlers[s])'
  <2>1. CASE s = r
    <3>1. calls'[s] = c /\ handlers'[s] = h
      BY <1>1, <1>2, <2>1 DEF Without
    <3> QED BY <1>2, <1>7, <3>1, SlotTurns
  <2>2. CASE s # r
    <3>1. calls'[s] = cs[s] /\ handlers'[s] = handlers[s]
      BY <1>1, <1>2, <2>2 DEF Without
    <3>2. SlotHolds(calls[s], handlers[s])
      BY <1>1 DEF SlotsHold
    <3> QED BY <1>2, <3>1, <3>2, SlotTurns DEF Without
  <2> QED BY <2>1, <2>2
<1>9. \A s \in Slots : Sends(calls'[s]) => Sends(calls[s])
  <2>1. ~Sends(c)
    BY <1>5, <1>6 DEF Sends
  <2>2. ~Sends(NoCall)
    BY DEF Sends
  <2> QED BY <1>2, <2>1, <2>2 DEF Without
<1>10. \A s, t \in Slots : Sends(calls'[s]) /\ Sends(calls'[t]) => s = t
  BY <1>1, <1>9 DEF SlotsHold
<1> QED BY <1>8, <1>10 DEF SlotsHold

\* No call is added, nor does the server move.
LEMMA QuietSlots ==
  ASSUME Typed, NEW cs, Without(cs), UNCHANGED <<tables, handlers>>, calls' = cs
  PROVE  SlotsHold'
<1>1. SlotsHold
  BY DEF Typed
<1>2. ASSUME NEW s \in Slots PROVE SlotHolds(calls[s], handlers[s])'
  <2>1. SlotHolds(calls[s], handlers[s])
    BY <1>1 DEF SlotsHold
  <2> QED BY <2>1, SlotTurns DEF Without
<1>3. \A s \in Slots : Sends(calls'[s]) => Sends(calls[s])
  BY DEF Without, Sends
<1>4. \A s, t \in Slots : Sends(calls'[s]) /\ Sends(calls'[t]) => s = t
  BY <1>1, <1>3 DEF SlotsHold
<1> QED BY <1>2, <1>4 DEF SlotsHold

\* What a request starts with.
LEMMA ReceiveIs ==
  ASSUME NEW r \in Slots, NEW op \in Ops, NEW pc \in MessageSteps, NEW u \in Users,
         NEW v \in Users, NEW row \in Nat, Receive(r, op, pc, u, v, row)
  PROVE  /\ UNCHANGED tables
         /\ \E h \in Handler :
              /\ handlers' = [handlers EXCEPT ![r] = h]
              /\ h.op = op /\ h.pc = pc /\ h.user = u /\ h.peer = v /\ h.row = row
<1> DEFINE h == [op |-> op, pc |-> pc, user |-> u, peer |-> v, row |-> row,
                 ref |-> NoId, state |-> "unknown", page |-> {}]
<1>1. handlers' = [handlers EXCEPT ![r] = h] /\ UNCHANGED tables
  BY DEF Receive
<1>2. h \in Handler
  BY DEF Handler, NoId, SendState
<1>3. h.op = op /\ h.pc = pc /\ h.user = u /\ h.peer = v /\ h.row = row
  OBVIOUS
<1> HIDE DEF h
<1> QED BY <1>1, <1>2, <1>3

\* A slot that was free is taken.
LEMMA TakenSlots ==
  ASSUME Typed, NEW r \in Slots, UNCHANGED tables,
         NEW c, calls' = [calls EXCEPT ![r] = c], Sends(c) => InFlight({"send"}) = {},
         NEW h, handlers' = [handlers EXCEPT ![r] = h], SlotHolds(c, h)
  PROVE  SlotsHold'
<1>1. /\ TypeOK /\ handlers \in [Slots -> Handler \cup {Idle}] /\ SlotsHold
      /\ calls \in [Slots -> Call \cup {NoCall}]
  BY DEF Typed, TypeOK, HandlersTypeOK, MessengerTypeOK
<1>5. ASSUME NEW s \in Slots PROVE SlotHolds(calls[s], handlers[s])'
  <2>1. CASE s = r
    <3>1. calls'[s] = c /\ handlers'[s] = h
      BY <1>1, <2>1
    <3> QED BY <3>1, SlotTurns
  <2>2. CASE s # r
    <3>1. calls'[s] = calls[s] /\ handlers'[s] = handlers[s]
      BY <1>1, <2>2
    <3>2. SlotHolds(calls[s], handlers[s])
      BY <1>1 DEF SlotsHold
    <3> QED BY <3>1, <3>2, SlotTurns
  <2> QED BY <2>1, <2>2
<1>6. \A s, t \in Slots : Sends(calls'[s]) /\ Sends(calls'[t]) => s = t
  <2>1. ASSUME NEW s \in Slots, s # r PROVE calls'[s] = calls[s]
    BY <1>1, <2>1
  <2>2. calls'[r] = c
    BY <1>1
  <2>3. CASE Sends(c)
    <3>1. \A s \in Slots : ~Sends(calls[s])
      BY <2>3 DEF InFlight, Sends
    <3> QED BY <2>1, <3>1
  <2>4. CASE ~Sends(c)
    <3>1. \A s \in Slots : Sends(calls'[s]) => s # r /\ Sends(calls[s])
      BY <2>1, <2>2, <2>4
    <3> QED BY <1>1, <3>1 DEF SlotsHold
  <2> QED BY <2>3, <2>4
<1> QED BY <1>5, <1>6 DEF SlotsHold

LEMMA SendSlots ==
  ASSUME Typed, NEW r \in Slots, Send(r)
  PROVE  SlotsHold'
<1> DEFINE c == NewCall("send", partner)
<1>1. TypeOK /\ partner \in Partners /\ partner \in Users /\ Me \in Users
  BY MessengerAssumption DEF Typed, MessengerTypeOK, Send, Partners
<1>2. c \in Call
  BY <1>1, NewCallType
<1>3. /\ c.phase = "sent" /\ ~c.done /\ c.messages = <<>> /\ c.kind = "send" /\ c.with = partner
  BY DEF NewCall
<1>4. calls' = [calls EXCEPT ![r] = c] /\ InFlight({"send"}) = {}
  BY DEF Send
<1> HIDE DEF c
<1>5. "send" \notin Reads
  BY DEF Reads
<1>6. ASSUME NEW h \in Handler, h.op = "sendMessage", h.pc = "resolveBlock", h.user = Me,
             h.peer = partner
      PROVE  SlotHolds(c, h)
  BY <1>1, <1>2, <1>3, <1>5, <1>6, CallBegins DEF OpOf
<1>7. "sendMessage" \in Ops /\ "resolveBlock" \in MessageSteps /\ NoId \in Nat
  BY DEF Ops, MessageSteps, NoId
<1>8. Receive(r, "sendMessage", "resolveBlock", Me, partner, NoId)
  BY DEF Send
<1>9. PICK h \in Handler :
        /\ handlers' = [handlers EXCEPT ![r] = h]
        /\ h.op = "sendMessage" /\ h.pc = "resolveBlock" /\ h.user = Me /\ h.peer = partner
  BY <1>1, <1>7, <1>8, ReceiveIs
<1>10. SlotHolds(c, h)
  BY <1>6, <1>9
<1>11. UNCHANGED tables
  BY <1>8 DEF Receive
<1> QED BY <1>4, <1>9, <1>10, <1>11, TakenSlots

LEMMA DecideSlots ==
  ASSUME Typed, NEW r \in Slots, Decide(r)
  PROVE  SlotsHold'
<1>1. MessengerTypeOK /\ TypeOK /\ Me \in Users
  BY MessengerAssumption DEF Typed
<1>2. PICK op \in {"accept", "decline"},
           who \in (IF partner # Nobody
                      THEN {<<thread.with, thread.request>> : t \in
                              {t \in {thread} : t # NoThread /\ t.state = "reply_accepts"}}
                      ELSE {<<q.requester, q.id>> : q \in requests}) :
        /\ Receive(r, IF op = "accept" THEN "acceptRequest" ELSE "declineRequest",
                   "loadRequest", Me, who[1], who[2])
        /\ calls' = [calls EXCEPT ![r] = NewCall(op, who[1])]
  BY DEF Decide
<1>3. who[1] \in Users /\ who[2] \in Nat
  <2>1. CASE partner # Nobody
    <3>1. thread # NoThread /\ who = <<thread.with, thread.request>>
      BY <1>2, <2>1
    <3>2. thread.with \in Users /\ thread.request \in Nat
      BY <1>1, <3>1 DEF MessengerTypeOK, Thread, Partners
    <3> QED BY <3>1, <3>2
  <2>2. CASE partner = Nobody
    <3>1. PICK q \in requests : who = <<q.requester, q.id>>
      BY <1>2, <2>2
    <3>2. q.requester \in Users /\ q.id \in Nat
      BY <1>1, <3>1 DEF MessengerTypeOK, MessageRequest, RowId
    <3> QED BY <3>1, <3>2
  <2> QED BY <2>1, <2>2
<1> DEFINE c == NewCall(op, who[1])
           o == IF op = "accept" THEN "acceptRequest" ELSE "declineRequest"
<1>4. c \in Call
  BY <1>3, NewCallType
<1>5. c.phase = "sent" /\ ~c.done /\ c.messages = <<>> /\ c.kind = op
  BY DEF NewCall
<1>6. calls' = [calls EXCEPT ![r] = c] /\ Receive(r, o, "loadRequest", Me, who[1], who[2])
  BY <1>2
<1>7. o = OpOf(op) /\ o \in Ops /\ "loadRequest" \in MessageSteps
  BY DEF OpOf, Ops, MessageSteps
<1> HIDE DEF c, o
<1>8. op \notin Reads \cup {"send"} /\ ~Sends(c)
  BY <1>5 DEF Reads, Sends
<1>9. ASSUME NEW h \in Handler, h.op = o, h.pc = "loadRequest", h.user = Me
      PROVE  SlotHolds(c, h)
  BY <1>1, <1>4, <1>5, <1>7, <1>8, <1>9, CallBegins
<1>10. PICK h \in Handler : /\ handlers' = [handlers EXCEPT ![r] = h]
                           /\ h.op = o /\ h.pc = "loadRequest" /\ h.user = Me
  BY <1>1, <1>3, <1>6, <1>7, ReceiveIs
<1>11. SlotHolds(c, h)
  BY <1>9, <1>10
<1>12. UNCHANGED tables
  BY <1>6 DEF Receive
<1> QED BY <1>6, <1>8, <1>10, <1>11, <1>12, TakenSlots

LEMMA OthersActSlots ==
  ASSUME Typed, NEW r \in Slots, OthersAct(r)
  PROVE  SlotsHold'
<1>1. /\ TypeOK /\ SlotsHold /\ Numbered /\ handlers \in [Slots -> Handler \cup {Idle}]
      /\ calls \in [Slots -> Call \cup {NoCall}] /\ calls[r] = NoCall
  BY DEF Typed, OthersAct, Free, TypeOK, HandlersTypeOK, MessengerTypeOK
<1>2. calls' = [calls EXCEPT ![r] = NoCall]
  BY <1>1 DEF OthersAct
<1>3. ~Sends(NoCall)
  BY DEF Sends
<1>4. PICK u \in Users, v \in Users, op \in Ops, pc \in MessageSteps, row \in Nat :
        /\ Receive(r, op, pc, u, v, row)
        /\ pc \in StepsOf(op) \cap {"findPage", "resolveBlock", "loadRequest"}
        /\ pc = "loadRequest" => \E q \in messageRequests : q.id = row /\ q.requester = v
  <2>1. CASE SendMessage(r)
    <3>1. PICK u \in Users, v \in Users : Receive(r, "sendMessage", "resolveBlock", u, v, NoId)
      BY <2>1 DEF SendMessage
    <3>2. /\ "sendMessage" \in Ops /\ "resolveBlock" \in MessageSteps /\ NoId \in Nat
          /\ "resolveBlock" \in StepsOf("sendMessage")
      BY DEF Ops, MessageSteps, NoId, StepsOf
    <3> QED BY <3>1, <3>2
  <2>2. CASE GetConversation(r)
    <3>1. PICK u \in Users, v \in Users, op \in {"openConversation", "scrollBack"} :
            Receive(r, op, "findPage", u, v, NoId)
      BY <2>2 DEF GetConversation
    <3>2. handlers'[r].op = op
      BY <1>1, <3>1 DEF Receive
    <3>3. op = "openConversation"
      BY <3>1, <3>2 DEF OthersAct
    <3>4. /\ "openConversation" \in Ops /\ "findPage" \in MessageSteps /\ NoId \in Nat
          /\ "findPage" \in StepsOf("openConversation")
      BY DEF Ops, MessageSteps, NoId, StepsOf
    <3> QED BY <3>1, <3>3, <3>4
  <2>3. CASE AnswerRequest(r)
    <3>1. PICK u \in Users, q \in messageRequests, op \in {"acceptRequest", "declineRequest"} :
            Receive(r, op, "loadRequest", u, q.requester, q.id)
      BY <2>3 DEF AnswerRequest
    <3>2. q.requester \in Users /\ q.id \in Nat
      BY <1>1 DEF TypeOK, DatabaseTypeOK, MessageRequest, RowId
    <3>3. /\ op \in Ops /\ "loadRequest" \in MessageSteps /\ "loadRequest" \in StepsOf(op)
      BY DEF Ops, MessageSteps, StepsOf
    <3> QED BY <3>1, <3>2, <3>3
  <2> QED BY <2>1, <2>2, <2>3 DEF OthersAct
<1>5. u # Me /\ v = Me /\ op # "scrollBack"
  <2>1. handlers'[r].user = u /\ handlers'[r].peer = v /\ handlers'[r].op = op
    BY <1>1, <1>4 DEF Receive
  <2> QED BY <2>1 DEF OthersAct
<1>6. ASSUME NEW h \in Handler, h.op = op, h.pc = pc, h.user = u, h.peer = v, h.row = row
      PROVE  SlotHolds(NoCall, h)
  <2>1. Serves(NoCall, h)
    BY <1>5, <1>6 DEF Serves
  <2>2. pc = "loadRequest" =>
          row < nextId /\ \A q \in messageRequests : q.id = row => q.requester = v
    BY <1>1, <1>4 DEF Numbered, RequestsNumbered
  <2>3. Knows(h)
    BY <1>4, <1>6, <2>2 DEF Knows, Stored
  <2> QED BY <2>1, <2>3 DEF SlotHolds
<1>7. PICK h \in Handler :
        /\ handlers' = [handlers EXCEPT ![r] = h]
        /\ h.op = op /\ h.pc = pc /\ h.user = u /\ h.peer = v /\ h.row = row
  BY <1>4, ReceiveIs
<1>8. SlotHolds(NoCall, h)
  BY <1>6, <1>7
<1>9. UNCHANGED tables
  BY <1>4 DEF Receive
<1> QED BY <1>2, <1>3, <1>7, <1>8, <1>9, TakenSlots

LEMMA ServeFailsSlots ==
  ASSUME Typed, NEW r \in Slots, ServeFails(r)
  PROVE  SlotsHold'
<1>1. /\ SlotsHold /\ handlers \in [Slots -> Handler \cup {Idle}]
      /\ calls \in [Slots -> Call \cup {NoCall}]
  BY DEF Typed, TypeOK, HandlersTypeOK, MessengerTypeOK
<1>2. handlers' = [handlers EXCEPT ![r] = Idle] /\ UNCHANGED tables
  BY DEF ServeFails, Fail, Respond
<1> DEFINE c == calls[r]
           d == IF c = NoCall THEN c ELSE [c EXCEPT !.phase = "failed"]
<1>3. calls' = [calls EXCEPT ![r] = d]
  BY <1>1 DEF ServeFails
<1>4. SlotHolds(c, handlers[r])
  BY <1>1 DEF SlotsHold
<1>5. c # NoCall => /\ d.phase = "failed" /\ d.kind = c.kind /\ d.with = c.with
                    /\ d.messages = c.messages /\ d.done = c.done /\ d.late = c.late
                    /\ d # NoCall
  BY <1>1 DEF Call, NoCall
<1>6. c = NoCall => d = NoCall
  OBVIOUS
<1> HIDE DEF c, d
<1>7. SlotHolds(d, Idle)
  <2>1. CASE c = NoCall
    BY <1>6, <2>1 DEF SlotHolds, Serves, Idle
  <2>2. CASE c # NoCall
    <3>1. Serves(d, Idle)
      BY <1>5, <2>2 DEF Serves
    <3>2. ReadHolds(d, Idle)
      BY <1>4, <1>5, <2>2 DEF SlotHolds, ReadHolds, Idle
    <3>3. SendHolds(d, Idle)
      BY <1>4, <1>5, <2>2 DEF SlotHolds, SendHolds, Idle, Stored
    <3> QED BY <1>4, <1>5, <2>2, <3>1, <3>2, <3>3 DEF SlotHolds
  <2> QED BY <2>1, <2>2
<1>8. ASSUME NEW s \in Slots PROVE SlotHolds(calls[s], handlers[s])'
  <2>1. CASE s = r
    <3>1. calls'[s] = d /\ handlers'[s] = Idle
      BY <1>1, <1>2, <1>3, <2>1
    <3> QED BY <1>2, <1>7, <3>1, SlotTurns
  <2>2. CASE s # r
    <3>1. calls'[s] = calls[s] /\ handlers'[s] = handlers[s]
      BY <1>1, <1>2, <1>3, <2>2
    <3>2. SlotHolds(calls[s], handlers[s])
      BY <1>1 DEF SlotsHold
    <3> QED BY <1>2, <3>1, <3>2, SlotTurns
  <2> QED BY <2>1, <2>2
<1>9. ASSUME NEW s \in Slots, Sends(calls'[s]) PROVE Sends(calls[s])
  <2>1. CASE s = r
    BY <1>1, <1>3, <1>5, <1>6, <1>9, <2>1 DEF Sends, c
  <2>2. CASE s # r
    BY <1>1, <1>3, <1>9, <2>2
  <2> QED BY <2>1, <2>2
<1>10. \A s, t \in Slots : Sends(calls'[s]) /\ Sends(calls'[t]) => s = t
  BY <1>1, <1>9 DEF SlotsHold
<1> QED BY <1>8, <1>10 DEF SlotsHold

LEMMA RereadSlots ==
  ASSUME Typed, NEW kind \in Reads, (partner # Nobody /\ Reread(kind)) \/ NoReread
  PROVE  SlotsHold' /\ UNCHANGED tables
<1>1. CASE NoReread
  BY <1>1, WithoutNone, QuietSlots DEF NoReread
<1>2. CASE partner # Nobody /\ Reread(kind)
  <2>1. partner \in Partners
    BY <1>2 DEF Typed, MessengerTypeOK
  <2>2. PICK s \in Slots : GetThread(s, kind, partner, calls)
    BY <1>2 DEF Reread
  <2> QED BY <2>1, <2>2, WithoutNone, GetThreadSlots DEF GetThread, Receive
<1> QED BY <1>1, <1>2

LEMMA SendArrivesSlots ==
  ASSUME Typed, NEW r \in Slots, SendArrives(r)
  PROVE  SlotsHold' /\ UNCHANGED tables
<1> DEFINE c == calls[r]
<1>1. Without(Hangup(r))
  BY WithoutOne DEF SendArrives
<1>2. c.with \in Partners
  <2>1. c # NoCall /\ c.kind = "send"
    BY DEF SendArrives, Answered
  <2> QED BY <2>1 DEF Typed, SlotsHold, SlotHolds
<1>3. "refresh" \in Reads /\ "afterSend" \in Reads
  BY DEF Reads
<1>4. \/ UNCHANGED <<tables, handlers>> /\ calls' = Hangup(r)
      \/ \E s \in Slots : GetThread(s, "afterSend", c.with, Hangup(r))
      \/ partner # Nobody /\ \E s \in Slots : GetThread(s, "refresh", partner, Hangup(r))
  BY DEF SendArrives, Correction
<1>5. CASE UNCHANGED <<tables, handlers>> /\ calls' = Hangup(r)
  BY <1>1, <1>5, QuietSlots
<1>6. CASE \E s \in Slots : GetThread(s, "afterSend", c.with, Hangup(r))
  <2>1. PICK s \in Slots : GetThread(s, "afterSend", c.with, Hangup(r))
    BY <1>6
  <2> QED BY <1>1, <1>2, <1>3, <2>1, GetThreadSlots DEF GetThread, Receive
<1>7. CASE partner # Nobody /\ \E s \in Slots : GetThread(s, "refresh", partner, Hangup(r))
  <2>1. PICK s \in Slots : GetThread(s, "refresh", partner, Hangup(r))
    BY <1>7
  <2>2. partner \in Partners
    BY <1>7 DEF Typed, MessengerTypeOK
  <2> QED BY <1>1, <1>3, <2>1, <2>2, GetThreadSlots DEF GetThread, Receive
<1> QED BY <1>4, <1>5, <1>6, <1>7

\* Everything but the server's steps and the other services.
LocalStep ==
  \/ Close \/ ToggleMessenger \/ LoadFails \/ SocketDrops
  \/ HandleEvent \/ ServeLoad \/ LoadArrives \/ Settle \/ RefreshMessenger
  \/ \E r \in Slots : \/ OpenConversation(r) \/ Send(r) \/ Decide(r) \/ OthersAct(r)
                      \/ ServeFails(r) \/ ThreadArrives(r) \/ SendArrives(r)
                      \/ DecisionArrives(r)

LEMMA LocalSlots ==
  ASSUME Typed, LocalStep
  PROVE  SlotsHold' /\ UNCHANGED tables
<1>1. CASE Close \/ ToggleMessenger \/ LoadFails \/ SocketDrops \/ ServeLoad \/ LoadArrives
  <2>1. UNCHANGED <<tables, handlers>> /\ calls' = calls
    BY <1>1 DEF Close, ToggleMessenger, LoadFails, SocketDrops, ServeLoad, LoadArrives
  <2> QED BY <2>1, WithoutNone, QuietSlots
<1>2. CASE HandleEvent
  <2>1. \/ NoReread
        \/ partner # Nobody /\ Reread("arrival")
        \/ partner # Nobody /\ Reread("refresh")
        \/ partner # Nobody /\ Reread("accepted")
    BY <1>2 DEF HandleEvent, HearMessage, HearAccepted
  <2> QED BY <2>1, RereadSlots DEF Reads
<1>3. CASE Settle
  <2>1. CASE settling = "accept" /\ partner # Nobody
    <3>1. Reread("afterAccept")
      BY <1>3, <2>1 DEF Settle, Reread
    <3> QED BY <2>1, <3>1, RereadSlots DEF Reads
  <2>2. CASE ~(settling = "accept" /\ partner # Nobody)
    <3>1. UNCHANGED <<tables, handlers>> /\ calls' = calls
      BY <1>3, <2>2 DEF Settle
    <3> QED BY <3>1, WithoutNone, QuietSlots
  <2> QED BY <2>1, <2>2
<1>4. CASE RefreshMessenger
  BY <1>4, RereadSlots DEF RefreshMessenger, Reads
<1>5. ASSUME NEW r \in Slots, OpenConversation(r) PROVE SlotsHold' /\ UNCHANGED tables
  <2>1. PICK u \in Partners : GetThread(r, "open", u, calls)
    BY <1>5 DEF OpenConversation
  <2> QED BY <2>1, WithoutNone, GetThreadSlots DEF GetThread, Receive, Reads
<1>6. ASSUME NEW r \in Slots, Send(r) \/ Decide(r) \/ OthersAct(r)
      PROVE  SlotsHold' /\ UNCHANGED tables
  <2>1. SlotsHold'
    BY <1>6, SendSlots, DecideSlots, OthersActSlots
  <2> QED BY <1>6, <2>1 DEF Send, Decide, OthersAct, SendMessage, GetConversation,
                          AnswerRequest, Receive
<1>7. ASSUME NEW r \in Slots, ServeFails(r) PROVE SlotsHold' /\ UNCHANGED tables
  BY <1>7, ServeFailsSlots DEF ServeFails, Fail
<1>8. ASSUME NEW r \in Slots, ThreadArrives(r) \/ DecisionArrives(r)
      PROVE  SlotsHold' /\ UNCHANGED tables
  <2>1. Answered(r) /\ UNCHANGED <<tables, handlers>> /\ calls' = Hangup(r)
    BY <1>8 DEF ThreadArrives, DecisionArrives
  <2> QED BY <2>1, WithoutOne, QuietSlots
<1> QED BY <1>1, <1>2, <1>3, <1>4, <1>5, <1>6, <1>7, <1>8, SendArrivesSlots DEF LocalStep

-----------------------------------------------------------------------------
(* Ticks: the thread, and what the events say has been read.               *)

LEMMA ShownStays ==
  ASSUME TypeOK, TypeOK', Onward, NEW ms, Shown(ms)
  PROVE  Shown(ms)'
<1>1. Ticked(messages) \subseteq Ticked(messages')
  BY TicksGrow DEF Onward, TypeOK, DatabaseTypeOK
<1>2. Ticked(messages)' = Ticked(messages')
  BY DEF Ticked
<1>3. \A m \in messages : \E n \in messages' : n.id = m.id /\ n.sender = m.sender
  BY DEF Onward, MessagesGrow
<1>4. Ticked(ms)' = Ticked(ms)
  BY DEF Ticked
<1> QED BY <1>1, <1>2, <1>3, <1>4 DEF Shown

LEMMA ShownSame ==
  ASSUME UNCHANGED tables, NEW ms, Shown(ms)
  PROVE  Shown(ms)'
  BY DEF Shown, Ticked, tables

LEMMA ShownBoth ==
  ASSUME NEW ms, NEW ns, Shown(ms), Shown(ns)
  PROVE  Shown(ms \cup ns)
<1>1. Ticked(ms \cup ns) = Ticked(ms) \cup Ticked(ns)
  BY DEF Ticked
<1> QED BY <1>1 DEF Shown

LEMMA ShownTicks ==
  ASSUME NEW ms \in SUBSET Message, Shown(ms), NEW rows, rows \subseteq Ticked(messages)
  PROVE  Shown({IF m.id \in rows THEN [m EXCEPT !.read = TRUE] ELSE m : m \in ms})
<1> DEFINE t(m) == IF m.id \in rows THEN [m EXCEPT !.read = TRUE] ELSE m
           ns == {t(m) : m \in ms}
<1>1. \A m \in ms : t(m).id = m.id /\ t(m).sender = m.sender
                    /\ (t(m).read => m.read \/ m.id \in rows)
  BY DEF Message
<1> HIDE DEF t
<1>2. Ticked(ns) \subseteq Ticked(ms) \cup rows
  BY <1>1 DEF Ticked
<1>3. \A n \in ns : \E m \in messages : m.id = n.id /\ m.sender = n.sender
  BY <1>1 DEF Shown
<1>4. Shown(ns)
  BY <1>2, <1>3 DEF Shown
<1> QED BY <1>4 DEF t

LEMMA LocalThread ==
  ASSUME Typed, ThreadHolds, EventsHold, LocalStep
  PROVE  ThreadHolds' /\ EventsHold'
<1>1. /\ MessengerTypeOK /\ SlotsHold /\ UNCHANGED tables
      /\ events \in Seq(Pushed)
  BY LocalSlots DEF Typed, MessengerTypeOK
<1>2. Ticked(messages)' = Ticked(messages)
  BY <1>1, TruthStays
<1>3. EventsHold'
  <2>1. ToSet(events') \subseteq ToSet(events)
    <3>1. CASE HandleEvent
      <4>1. ToSet(events) = {Head(events)} \cup ToSet(Tail(events)) /\ events' = Tail(events)
        BY <1>1, <3>1, SetOfTail DEF HandleEvent
      <4> QED BY <4>1
    <3>2. CASE events' = events
      BY <3>2
    <3>3. CASE SocketDrops
      BY <3>3 DEF SocketDrops, ToSet
    <3> QED
      BY <3>1, <3>2, <3>3
         DEF LocalStep, Close, ToggleMessenger, LoadFails, ServeLoad, LoadArrives, Settle,
             RefreshMessenger, OpenConversation, Send, Decide, OthersAct, ServeFails,
             ThreadArrives, SendArrives, DecisionArrives
  <2> QED BY <1>2, <2>1 DEF EventsHold, EventHolds
<1>4. SUFFICES ASSUME thread' # NoThread PROVE Shown(ToSet(thread'.messages))
  <2>1. CASE thread' = NoThread
    BY <1>3, <2>1 DEF ThreadHolds
  <2>2. CASE thread' # NoThread
    <3>1. PICK ms : ms = ToSet(thread'.messages)
      OBVIOUS
    <3>2. Shown(ms)
      BY <1>4, <2>2, <3>1
    <3>3. Shown(ms)'
      BY <1>1, <3>2, ShownSame
    <3> QED BY <1>3, <3>1, <3>3 DEF ThreadHolds
  <2> QED BY <2>1, <2>2
<1>5. CASE thread' = thread
  BY <1>4, <1>5 DEF ThreadHolds
<1>6. ASSUME NEW r \in Slots, ThreadArrives(r), thread' # thread
      PROVE  Shown(ToSet(thread'.messages))
  <2>1. calls[r] # NoCall /\ SlotHolds(calls[r], handlers[r])
    BY <1>1, <1>6 DEF ThreadArrives, Answered, SlotsHold
  <2>2. thread' = [with |-> calls[r].with, messages |-> calls[r].messages,
                   state |-> calls[r].state, request |-> calls[r].request]
    BY <1>4, <1>6 DEF ThreadArrives, ShowThread
  <2>3. thread'.messages = calls[r].messages
    BY <2>2
  <2> QED BY <2>1, <2>3 DEF SlotHolds
<1>7. ASSUME NEW r \in Slots, SendArrives(r), thread' # thread
      PROVE  Shown(ToSet(thread'.messages))
  <2>1. calls[r] # NoCall /\ SlotHolds(calls[r], handlers[r])
    BY <1>1, <1>7 DEF SendArrives, Answered, SlotsHold
  <2>2. thread # NoThread
        /\ thread' = [thread EXCEPT !.messages = calls[r].messages \o thread.messages]
    BY <1>7 DEF SendArrives
  <2>3. thread \in Thread /\ calls[r] \in Call
    BY <1>1, <2>1, <2>2 DEF MessengerTypeOK
  <2> DEFINE a == calls[r].messages
             b == thread.messages
  <2>4. a \in Seq(Message) /\ b \in Seq(Message) /\ Shown(ToSet(a)) /\ Shown(ToSet(b))
    BY <2>1, <2>2, <2>3 DEF Call, Thread, SlotHolds, ThreadHolds
  <2>5. thread'.messages = a \o b
    BY <2>2, <2>3 DEF Thread
  <2> HIDE DEF a, b
  <2>6. ToSet(a \o b) = ToSet(a) \cup ToSet(b)
    BY <2>4, SetOfConcat
  <2> QED BY <2>4, <2>5, <2>6, ShownBoth
<1>8. ASSUME HandleEvent, thread' # thread PROVE Shown(ToSet(thread'.messages))
  <2> DEFINE e == Head(events)
  <2>1. /\ e.event = "message:read" /\ thread # NoThread
        /\ thread' = [thread EXCEPT !.messages = Tick(thread.messages, e.rows)]
    BY <1>8 DEF HandleEvent
  <2>2. e \in ToSet(events)
    BY <1>1, <1>8, SetOfTail DEF HandleEvent
  <2> HIDE DEF e
  <2>3. e.rows \subseteq Ticked(messages)
    BY <2>1, <2>2 DEF EventsHold, EventHolds
  <2>4. thread \in Thread
    BY <1>1, <2>1 DEF MessengerTypeOK
  <2> DEFINE ms == thread.messages
  <2>5. ms \in Seq(Message) /\ Shown(ToSet(ms)) /\ thread'.messages = Tick(ms, e.rows)
    BY <2>1, <2>4 DEF Thread, ThreadHolds
  <2> HIDE DEF ms
  <2>6. ToSet(ms) \in SUBSET Message
    BY <2>5, SetOf
  <2>7. ToSet(Tick(ms, e.rows)) =
          {IF m.id \in e.rows THEN [m EXCEPT !.read = TRUE] ELSE m : m \in ToSet(ms)}
    BY <2>5, TickType
  <2> DEFINE ns == ToSet(ms)
  <2>8. Shown({IF m.id \in e.rows THEN [m EXCEPT !.read = TRUE] ELSE m : m \in ns})
    <3> HIDE DEF ns
    <3> QED BY <2>3, <2>5, <2>6, ShownTicks DEF ns
  <2> QED BY <2>5, <2>7, <2>8
<1> QED
  BY <1>4, <1>5, <1>6, <1>7, <1>8
     DEF LocalStep, Close, CloseConversation, ToggleMessenger, LoadFails, ServeLoad, LoadArrives,
         Settle, RefreshMessenger, OpenConversation, Send, Decide, OthersAct, ServeFails,
         DecisionArrives, SocketDrops, panel

-----------------------------------------------------------------------------
(* What the tables say of a pair, before and after a step of the server.   *)

\* A pair's last word is its request's, and only one there is.
LEMMA RequestStateIs ==
  ASSUME Numbered, NEW u, NEW q \in RequestsBetween(Me, u)
  PROVE  RequestState(u) = StateOf(q, Me)
<1>1. \A p \in RequestsBetween(Me, u) : p = q
  BY DEF RequestsBetween, Numbered, RequestsNumbered
<1>2. (CHOOSE p \in RequestsBetween(Me, u) : TRUE) = q
  BY <1>1
<1> QED BY <1>2 DEF RequestState

LEMMA AcceptedIsOpen ==
  ASSUME Numbered, NEW u
  PROVE  RequestState(u) = "open" <=> \E q \in RequestsBetween(Me, u) : q.status = "accepted"
<1>1. CASE RequestsBetween(Me, u) = {}
  BY <1>1 DEF RequestState
<1>2. ASSUME NEW q \in RequestsBetween(Me, u)
      PROVE  RequestState(u) = "open" <=> \E p \in RequestsBetween(Me, u) : p.status = "accepted"
  <2>1. \A p \in RequestsBetween(Me, u) : p = q
    BY DEF RequestsBetween, Numbered, RequestsNumbered
  <2>2. RequestState(u) = StateOf(q, Me)
    BY RequestStateIs
  <2> QED BY <2>1, <2>2 DEF StateOf
<1> QED BY <1>1, <1>2

\* An accepted request stays so.
LEMMA OpenStays ==
  ASSUME Numbered, Onward, NEW u, RequestState(u) = "open"
  PROVE  RequestState(u)' = "open"
<1>1. PICK q \in RequestsBetween(Me, u) : q.status = "accepted"
  BY AcceptedIsOpen
<1>2. q \in RequestsBetween(Me, u)'
  BY <1>1 DEF RequestsBetween, Onward
<1>3. \A p \in RequestsBetween(Me, u)' : p = q
  BY <1>2 DEF RequestsBetween, Onward, Numbered, RequestsNumbered
<1>4. (CHOOSE p \in RequestsBetween(Me, u)' : TRUE) = q
  BY <1>2, <1>3
<1>5. RequestState(u)' = IF RequestsBetween(Me, u)' = {} THEN "first_contact"
                         ELSE StateOf(CHOOSE p \in RequestsBetween(Me, u)' : TRUE, Me)
  BY DEF RequestState, StateOf
<1> QED BY <1>1, <1>2, <1>4, <1>5 DEF StateOf

LEMMA ConversationGrows ==
  ASSUME Onward, NEW u
  PROVE  Ids(Conversation(Me, u)) \subseteq Ids(Conversation(Me, u)')
<1>1. \A m \in Conversation(Me, u) : \E n \in Conversation(Me, u)' : n.id = m.id
  BY DEF Conversation, MessagePair, Onward, MessagesGrow
<1> QED BY <1>1 DEF Ids

\* A read conversation, by its message ids and ticks, if it is not Touched.
LEMMA Untouched ==
  ASSUME NEW u \in Partners, u \notin Touched
  PROVE  /\ Ids(Conversation(Me, u)) = Ids(Conversation(Me, u))'
         /\ Ticked(Conversation(Me, u)) = Ticked(Conversation(Me, u))'
         /\ StateWith(u) = StateWith(u)'
         /\ RequestsBetween(Me, u) = RequestsBetween(Me, u)'
<1>1. CASE tables' = tables
  <2>1. Conversation(Me, u)' = Conversation(Me, u) /\ StateWith(u)' = StateWith(u)
    BY <1>1, TruthStays
  <2>2. RequestsBetween(Me, u) = RequestsBetween(Me, u)'
    BY <1>1 DEF tables, RequestsBetween
  <2> QED BY <2>1, <2>2 DEF Ids, Ticked
<1>2. CASE Truth(u)' = Truth(u)
  BY <1>2 DEF Truth
<1> QED BY <1>1, <1>2 DEF Touched

\* The opening messages of somebody are among the requests of the pair.
LEMMA UntouchedState ==
  ASSUME NEW u \in Partners, u \notin Touched, NEW state
  PROVE  /\ StateShown(state, u) => StateShown(state, u)'
         /\ Unheard(state, u)' = Unheard(state, u)
<1>1. StateWith(u)' = StateWith(u) /\ RequestsBetween(Me, u)' = RequestsBetween(Me, u)
  BY Untouched
<1>2. RequestState(u)' = RequestState(u)
  BY <1>1 DEF RequestState, StateOf
<1>3. Unheard(state, u)' = Unheard(state, u)
  <2>1. {q \in PendingFor(Me)' : q.requester = u} =
          {q \in RequestsBetween(Me, u)' :
             q.recipient = Me /\ q.requester = u /\ q.status = "pending"}
    BY DEF PendingFor, RequestsBetween, RequestPair
  <2>2. {q \in PendingFor(Me) : q.requester = u} =
          {q \in RequestsBetween(Me, u) :
             q.recipient = Me /\ q.requester = u /\ q.status = "pending"}
    BY DEF PendingFor, RequestsBetween, RequestPair
  <2> QED BY <1>1, <2>1, <2>2 DEF Unheard, Ids
<1> QED BY <1>1, <1>2, <1>3 DEF StateShown

\* What a handler relies on is not taken back.
LEMMA KnowsStays ==
  ASSUME TypeOK, TypeOK', Onward, NEW h \in Handler, Knows(h)
  PROVE  Knows(h)'
<1>1. /\ nextId \in Nat /\ nextId' \in Nat /\ nextId <= nextId'
      /\ h.row \in Nat /\ h.ref \in Nat
      /\ h.row < nextId => h.row < nextId'
      /\ h.ref < nextId => h.ref < nextId'
  BY DEF Onward, TypeOK, DatabaseTypeOK, RowId, Handler
<1>2. /\ h.row < nextId => \A q \in messageRequests' : q.id = h.row =>
           \E p \in messageRequests :
             p.id = h.row /\ p.requester = q.requester /\ p.recipient = q.recipient
      /\ h.ref < nextId => \A q \in messageRequests' : q.id = h.ref =>
           \E p \in messageRequests :
             p.id = h.ref /\ p.requester = q.requester /\ p.recipient = q.recipient
  BY DEF Onward, RequestsFrom
<1>3. \A m \in messages : \E n \in messages' : n.id = m.id /\ n.sender = m.sender
  BY DEF Onward, MessagesGrow
<1>4. Ticked(messages) \subseteq Ticked(messages)'
  <2>1. Ticked(messages) \subseteq Ticked(messages')
    BY TicksGrow DEF Onward, TypeOK, DatabaseTypeOK
  <2> QED BY <2>1 DEF Ticked
<1>5. (h.pc = "loadRequest" /\ h.user # Me =>
         h.row < nextId /\ \A q \in messageRequests : q.id = h.row => q.requester = h.peer)'
  BY <1>1, <1>2 DEF Knows
<1>6. (h.pc = "setStatus" =>
         h.row < nextId /\ \A q \in messageRequests :
                             q.id = h.row => q.recipient = h.user /\ q.requester = h.peer)'
  BY <1>1, <1>2 DEF Knows
<1>7. (h.pc = "settleReply" \/ (h.pc = "insertMessage" /\ h.state = "reply_accepts") =>
         \A q \in messageRequests : q.id = h.ref => q.recipient = h.user)'
  BY <1>1, <1>2 DEF Knows
<1>8. (h.pc \in {"insertMessage", "settleReply"} => h.ref < nextId)'
  BY <1>1 DEF Knows
<1>9. (h.pc \in Stored => \E m \in messages : m.id = h.row /\ m.sender = h.user)'
  BY <1>3 DEF Knows
<1>10. (h.pc = "notifyRead" /\ h.peer = Me => h.page \subseteq Ticked(messages))'
  BY <1>4 DEF Knows
<1>11. h.pc \in StepsOf(h.op)
  BY DEF Knows
<1> QED BY <1>5, <1>6, <1>7, <1>8, <1>9, <1>10, <1>11 DEF Knows

\* Another's step may make a call late; what it holds besides stays true.
LEMMA SlotOvertaken ==
  ASSUME TypeOK, TypeOK', Numbered, Onward, NEW c \in Call \cup {NoCall},
         NEW h \in Handler \cup {Idle}, SlotHolds(c, h), NEW d, d = LateCall(c)
  PROVE  SlotHolds(d, h)'
<1>1. h # Idle => Knows(h)'
  BY KnowsStays DEF SlotHolds
<1>2. CASE c = NoCall
  <2>1. d = NoCall
    BY <1>2, LateCallIs
  <2>2. Serves(d, h)'
    BY <1>2, <2>1 DEF SlotHolds, Serves
  <2> QED BY <1>1, <2>1, <2>2 DEF SlotHolds
<1>3. CASE c # NoCall
  <2>1. /\ c \in Call /\ d # NoCall
        /\ d = c \/ d = [c EXCEPT !.late = TRUE]
        /\ ~d.late => d = c
        /\ ~d.late /\ c.done => c.with \notin Touched
    BY <1>3, LateCallIs
  <2>2. /\ d.phase = c.phase /\ d.kind = c.kind /\ d.with = c.with /\ d.done = c.done
        /\ d.messages = c.messages /\ d.state = c.state
    BY <2>1 DEF Call
  <2> DEFINE u == c.with
  <2>3. Serves(d, h)'
    BY <1>3, <2>1, <2>2 DEF SlotHolds, Serves
  <2>4. c.kind \in Reads \cup {"send"} => u \in Partners
    BY <1>3 DEF SlotHolds
  <2>5. ASSUME c.kind \in Reads \cup {"send"}, c.done, ~d.late
        PROVE  /\ Ids(Conversation(Me, u)) = Ids(Conversation(Me, u))'
               /\ Ticked(Conversation(Me, u)) = Ticked(Conversation(Me, u))'
               /\ StateWith(u) = StateWith(u)' /\ ~c.late
    BY <2>1, <2>4, <2>5, Untouched
  <2>6. ReadHolds(d, h)'
    <3> SUFFICES ASSUME c.kind \in Reads PROVE ReadHolds(d, h)'
      BY <2>2 DEF ReadHolds
    <3>1. c.phase = "ok" \/ (h # Idle /\ h.pc # "findPage") => c.done
      BY <1>3 DEF SlotHolds, ReadHolds
    <3>2. CASE c.done /\ ~d.late
      <4>1. /\ Ids(ToSet(c.messages)) = Ids(Conversation(Me, u))
            /\ Ticked(ToSet(c.messages)) = Ticked(Conversation(Me, u))
            /\ c.phase = "ok" => c.state = StateWith(u)
            /\ h.pc \in {"resolveFriends", "resolveRequest"} => StateWith(u) # "blocked"
            /\ h.pc = "resolveRequest" /\ StateWith(u) = "open" => RequestState(u) = "open"
            /\ h.pc \in {"markRead", "notifyRead"} => StateWith(u) = "open"
        BY <1>3, <2>5, <3>2 DEF SlotHolds, ReadHolds
      <4>2. RequestState(u) = "open" => RequestState(u)' = "open"
        BY OpenStays
      <4>3. /\ Ids(ToSet(d.messages))' = Ids(ToSet(c.messages))
            /\ Ticked(ToSet(d.messages))' = Ticked(ToSet(c.messages))
        BY <2>2 DEF Ids, Ticked
      <4> QED BY <2>2, <2>5, <3>1, <3>2, <4>1, <4>2, <4>3 DEF ReadHolds
    <3>3. CASE ~(c.done /\ ~d.late)
      BY <2>2, <3>1, <3>3 DEF ReadHolds
    <3> QED BY <3>2, <3>3
  <2>7. SendHolds(d, h)'
    <3> SUFFICES ASSUME c.kind = "send" PROVE SendHolds(d, h)'
      BY <2>2 DEF SendHolds
    <3>1. /\ c.phase = "ok" \/ h.pc \in Stored => c.done
          /\ c.done /\ c.phase = "sent" => h.pc \in Stored
          /\ c.done => Ids(ToSet(c.messages)) \subseteq Ids(Conversation(Me, u))
          /\ c.done /\ ~c.late => Ids(ToSet(c.messages)) \cap Ticked(messages) = {}
      BY <1>3 DEF SlotHolds, SendHolds
    <3>2. Ids(Conversation(Me, u)) \subseteq Ids(Conversation(Me, u))'
      BY ConversationGrows DEF Ids
    <3>3. Ids(ToSet(d.messages))' = Ids(ToSet(c.messages))
      BY <2>2 DEF Ids
    <3>4. ASSUME c.done, ~d.late PROVE Ids(ToSet(c.messages)) \cap Ticked(messages)' = {}
      <4> SUFFICES ASSUME NEW i \in Ids(ToSet(c.messages)), i \in Ticked(messages)'
                   PROVE  FALSE
        OBVIOUS
      <4>1. PICK n \in messages' : n.id = i /\ n.sender = Me /\ n.read
        BY DEF Ticked
      <4>2. PICK k \in Conversation(Me, u)' : k.id = i
        BY <3>1, <3>2, <3>4 DEF Ids
      <4>3. k = n
        BY <4>1, <4>2 DEF Conversation, Onward, Numbered, MessagesNumbered
      <4>4. i \in Ticked(Conversation(Me, u))'
        BY <4>1, <4>2, <4>3 DEF Ticked
      <4>5. i \in Ticked(Conversation(Me, u)) /\ ~c.late
        BY <2>5, <3>4, <4>4
      <4>6. i \in Ticked(messages)
        BY <4>5 DEF Ticked, Conversation
      <4> QED BY <3>1, <3>4, <4>5, <4>6
    <3> QED BY <2>2, <3>1, <3>2, <3>3, <3>4 DEF SendHolds
  <2>8. Shown(ToSet(d.messages))'
    <3> DEFINE ms == ToSet(c.messages)
    <3>1. Shown(ms)
      BY <1>3 DEF SlotHolds
    <3> HIDE DEF ms
    <3>2. Shown(ms)'
      BY <3>1, ShownStays
    <3> QED BY <2>2, <3>2 DEF ms
  <2> QED BY <1>1, <2>1, <2>2, <2>3, <2>4, <2>6, <2>7, <2>8 DEF SlotHolds
<1> QED BY <1>2, <1>3

LEMMA RelatesSlots ==
  ASSUME Typed, turns' \in Nat, ThreadHolds, EventsHold, OthersRelate \/ RunAction
  PROVE  SlotsHold' /\ ThreadHolds' /\ EventsHold'
<1>1. /\ TypeOK /\ TypeOK' /\ Numbered /\ Onward /\ SlotsHold
      /\ handlers \in [Slots -> Handler \cup {Idle}]
      /\ calls \in [Slots -> Call \cup {NoCall}] /\ events \in Seq(Pushed)
  BY RelatesTypes DEF Typed, TypeOK, HandlersTypeOK, MessengerTypeOK
<1>2. UNCHANGED <<handlers, thread>> /\ Overtaken
  BY DEF OthersRelate, RunAction, panel
<1>3. ASSUME NEW s \in Slots
      PROVE  /\ SlotHolds(calls[s], handlers[s])'
             /\ Sends(calls'[s]) => Sends(calls[s])
  <2>1. PICK c \in Call \cup {NoCall}, h \in Handler \cup {Idle} :
          c = calls[s] /\ h = handlers[s] /\ SlotHolds(c, h)
    BY <1>1 DEF SlotsHold
  <2>2. PICK d : d = LateCall(c)
    OBVIOUS
  <2>3. calls'[s] = d /\ handlers'[s] = h
    BY <1>2, <2>1, <2>2 DEF Overtaken
  <2>4. SlotHolds(d, h)'
    BY <1>1, <2>1, <2>2, SlotOvertaken
  <2>5. Sends(d) => Sends(c)
    BY <2>1, <2>2, LateCallIs DEF Sends, Call
  <2> QED BY <2>1, <2>3, <2>4, <2>5
<1>4. SlotsHold'
  BY <1>1, <1>3 DEF SlotsHold
<1>5. ThreadHolds'
  <2>1. PICK ms : ms = ToSet(thread.messages)
    OBVIOUS
  <2>2. thread # NoThread => Shown(ms)
    BY <2>1 DEF ThreadHolds
  <2>3. thread # NoThread => Shown(ms)'
    BY <1>1, <2>2, ShownStays
  <2> QED BY <1>2, <2>1, <2>3 DEF ThreadHolds
<1>6. EventsHold'
  <2>1. Ticked(messages) \subseteq Ticked(messages)'
    <3>1. Ticked(messages) \subseteq Ticked(messages')
      BY <1>1, TicksGrow DEF Onward, TypeOK, DatabaseTypeOK
    <3> QED BY <3>1 DEF Ticked
  <2> DEFINE e == [event |-> "friend:request_accepted", rows |-> {}]
  <2>2. events' = events \/ events' = Append(events, e)
    BY DEF OthersRelate, RunAction
  <2>3. e \in Pushed /\ e.event # "message:read"
    BY DEF Pushed
  <2> HIDE DEF e
  <2>4. ToSet(events') \subseteq ToSet(events) \cup {e}
    BY <1>1, <2>2, <2>3, SetOfAppend
  <2> QED BY <2>1, <2>3, <2>4 DEF EventsHold, EventHolds
<1> QED BY <1>4, <1>5, <1>6

\* resolveSendState has answered.
LEMMA ResolvedIs ==
  ASSUME TypeOK, NEW r \in Slots, handlers[r].pc # "idle", NEW state, NEW request,
         Resolved(r, state, request)
  PROVE  /\ \A s \in Slots \ {r} : handlers'[s] = handlers[s]
         /\ AfterResolve(handlers[r].op, state) = "idle" => handlers'[r] = Idle
         /\ AfterResolve(handlers[r].op, state) # "idle" =>
              handlers'[r] = [handlers[r] EXCEPT
                                !.pc = AfterResolve(handlers[r].op, state), !.state = state,
                                !.ref = IF state = "reply_accepts" THEN request ELSE NoId]
  BY DEF Resolved, Respond, TypeOK, HandlersTypeOK

\* The queries of the service, by where the handler is.
LEMMA StepAt ==
  ASSUME NEW r \in Slots, MessageStep(r) \/ RejectInsert(r),
         handlers[r].pc \in MessageSteps
  PROVE  /\ At(r, "findPage") => FindPage(r)
         /\ At(r, "resolveBlock") => ResolveBlock(r)
         /\ At(r, "resolveFriends") => ResolveFriends(r)
         /\ At(r, "resolveRequest") => ResolveRequest(r)
         /\ At(r, "insertMessage") => InsertMessage(r) \/ RejectInsert(r)
         /\ At(r, "insertOpening") => InsertOpening(r) \/ RejectInsert(r)
         /\ At(r, "settleReply") => SettleReply(r)
         /\ At(r, "notifyReply") => NotifyReply(r)
         /\ At(r, "notifyMessage") => NotifyMessage(r)
         /\ At(r, "notifyOpening") => NotifyOpening(r)
         /\ At(r, "markRead") => MarkRead(r)
         /\ At(r, "notifyRead") => NotifyRead(r)
         /\ At(r, "loadRequest") => LoadRequest(r)
         /\ At(r, "setStatus") => AnswerSetStatus(r)
         /\ At(r, "notifyRequestAccepted") => NotifyRequestAccepted(r)
  BY DEF RejectInsert, MessageStep, At, ResolveBlock, ResolveFriends, ResolveRequest, InsertMessage,
         SettleReply, NotifyReply, NotifyMessage, InsertOpening, NotifyOpening, FindPage,
         MarkRead, NotifyRead, LoadRequest, AnswerSetStatus, NotifyRequestAccepted

\* A handler that the service moves is one of its own.
LEMMA StepStarts ==
  ASSUME TypeOK, NEW r \in Slots, MessageStep(r) \/ RejectInsert(r)
  PROVE  handlers[r] \in Handler /\ handlers[r] # Idle /\ handlers[r].pc # "idle"
<1>1. handlers[r].pc # "idle"
  BY DEF RejectInsert, MessageStep, At, ResolveBlock, ResolveFriends, ResolveRequest, InsertMessage,
         SettleReply, NotifyReply, NotifyMessage, InsertOpening, NotifyOpening, FindPage,
         MarkRead, NotifyRead, LoadRequest, AnswerSetStatus, NotifyRequestAccepted
<1> QED BY <1>1, WholeRequest DEF TypeOK, Idle

\* Where a handler goes, and what it keeps.
Goes(h) ==
  CASE h.pc = "findPage" -> {"resolveBlock"}
    [] h.pc = "resolveBlock" -> {"resolveFriends"}
    [] h.pc = "resolveFriends" -> {"resolveRequest", "insertMessage", "markRead"}
    [] h.pc = "resolveRequest" -> {"insertMessage", "insertOpening", "markRead"}
    [] h.pc = "insertMessage" -> {"settleReply", "notifyMessage"}
    [] h.pc = "insertOpening" -> {"notifyOpening"}
    [] h.pc = "settleReply" -> {"notifyReply", "notifyMessage"}
    [] h.pc = "markRead" -> {"notifyRead"}
    [] h.pc = "loadRequest" -> {"setStatus"}
    [] h.pc = "setStatus" -> {"notifyRequestAccepted"}
    [] OTHER -> {}

LEMMA StepGoes ==
  ASSUME TypeOK, NEW r \in Slots, MessageStep(r) \/ RejectInsert(r), Knows(handlers[r]),
         handlers[r].op # "scrollBack"
  PROVE  /\ \A s \in Slots \ {r} : handlers'[s] = handlers[s]
         /\ handlers'[r] # Idle =>
              /\ handlers'[r].pc \in Goes(handlers[r]) \cap StepsOf(handlers[r].op)
              /\ handlers'[r].op = handlers[r].op
              /\ handlers'[r].user = handlers[r].user
              /\ handlers[r].pc # "loadRequest" => handlers'[r].peer = handlers[r].peer
              /\ handlers[r].pc \notin {"insertMessage", "insertOpening"} =>
                   handlers'[r].row = handlers[r].row
              /\ handlers[r].pc \notin {"resolveFriends", "resolveRequest"} =>
                   handlers'[r].ref = handlers[r].ref /\ handlers'[r].state = handlers[r].state
<1> DEFINE h == handlers[r]
<1>1. h \in Handler /\ h # Idle /\ h.pc # "idle" /\ handlers \in [Slots -> Handler \cup {Idle}]
  BY StepStarts DEF TypeOK, HandlersTypeOK
<1>2. h.pc \in StepsOf(h.op)
  BY DEF Knows
<1>3. CASE handlers' = [handlers EXCEPT ![r] = Idle]
  BY <1>1, <1>3
<1> DEFINE Kept(g) ==
             /\ g \in Handler /\ g.pc \in Goes(h) \cap StepsOf(h.op)
             /\ g.op = h.op /\ g.user = h.user
             /\ h.pc # "loadRequest" => g.peer = h.peer
             /\ h.pc \notin {"insertMessage", "insertOpening"} => g.row = h.row
             /\ h.pc \notin {"resolveFriends", "resolveRequest"} =>
                  g.ref = h.ref /\ g.state = h.state
<1>4. SUFFICES ASSUME handlers' # [handlers EXCEPT ![r] = Idle]
               PROVE  /\ \A s \in Slots \ {r} : handlers'[s] = handlers[s]
                      /\ Kept(handlers'[r])
  BY <1>3
<1>5. ASSUME NEW pc \in MessageSteps, pc \in Goes(h) \cap StepsOf(h.op), Goto(r, pc)
      PROVE  /\ \A s \in Slots \ {r} : handlers'[s] = handlers[s]
             /\ Kept(handlers'[r])
  BY <1>1, <1>5 DEF Goto, Handler
<1>6. ASSUME NEW state \in SendState, NEW request \in Nat, Resolved(r, state, request),
             h.op = "openConversation" /\ state = "open" => "markRead" \in Goes(h),
             h.op = "sendMessage" /\ state = "first_contact" => "insertOpening" \in Goes(h),
             h.op = "sendMessage" /\ state \in {"open", "reply_accepts"} =>
               "insertMessage" \in Goes(h),
             h.op \in {"openConversation", "sendMessage"},
             h.pc \in {"resolveFriends", "resolveRequest"} \/ state = "blocked"
      PROVE  /\ \A s \in Slots \ {r} : handlers'[s] = handlers[s]
             /\ Kept(handlers'[r])
  <2> DEFINE next == AfterResolve(h.op, state)
             g == [h EXCEPT !.pc = next, !.state = state,
                            !.ref = IF state = "reply_accepts" THEN request ELSE NoId]
  <2>1. next # "idle" => next \in Goes(h) \cap StepsOf(h.op) /\ next \in MessageSteps
                         /\ state # "blocked"
    <3>1. CASE h.op = "openConversation"
      BY <1>6, <3>1 DEF AfterResolve, CanSend, MarksRead, StepsOf, MessageSteps
    <3>2. CASE h.op = "sendMessage"
      BY <1>6, <3>2 DEF AfterResolve, CanSend, MarksRead, StepsOf, MessageSteps
    <3> QED BY <1>6, <3>1, <3>2
  <2>2. \A s \in Slots \ {r} : handlers'[s] = handlers[s]
    BY <1>1, <1>6, ResolvedIs
  <2>3. next = "idle" => handlers' = [handlers EXCEPT ![r] = Idle]
    BY <1>6 DEF Resolved, Respond
  <2>4. handlers'[r] = g /\ next # "idle"
    BY <1>1, <1>4, <1>6, <2>3, ResolvedIs
  <2> HIDE DEF next
  <2>5. Kept(g)
    BY <1>1, <1>6, <2>1, <2>4 DEF Handler, NoId
  <2> QED BY <2>2, <2>4, <2>5
<1> HIDE DEF h
<1>7. h.pc \in MessageSteps
  BY <1>2 DEF StepsOf, MessageSteps, Stored
<1> USE DEF At
<1>8. CASE h.pc = "findPage"
  <2>1. FindPage(r)
    BY <1>7, <1>8, StepAt DEF h
  <2>2. Goes(h) = {"resolveBlock"} /\ "resolveBlock" \in StepsOf(h.op)
    BY <1>2, <1>8 DEF Goes, StepsOf, Stored
  <2> DEFINE p == IF handlers[r].op = "scrollBack" THEN {}
                  ELSE Ids(Conversation(handlers[r].user, handlers[r].peer))
             g == [h EXCEPT !.pc = "resolveBlock", !.page = p]
  <2>3. handlers' = [handlers EXCEPT ![r] = g]
    BY <2>1 DEF FindPage, h
  <2>4. p \in SUBSET Nat
    BY DEF Ids, Conversation, TypeOK, DatabaseTypeOK, Message, RowId
  <2> HIDE DEF p
  <2>5. Kept(g)
    BY <1>1, <1>8, <2>2, <2>4 DEF Handler, MessageSteps
  <2> QED BY <1>1, <2>3, <2>5
<1>9. CASE h.pc = "resolveBlock"
  <2>1. ResolveBlock(r) /\ h.op \in {"openConversation", "sendMessage"}
    BY <1>2, <1>7, <1>9, StepAt DEF h, StepsOf
  <2>2. Goes(h) = {"resolveFriends"} /\ "resolveFriends" \in StepsOf(h.op)
    BY <1>9, <2>1 DEF Goes, StepsOf
  <2> QED BY <1>5, <1>6, <2>1, <2>2 DEF ResolveBlock, SendState, NoId, MessageSteps
<1>10. CASE h.pc = "resolveFriends"
  <2>1. ResolveFriends(r) /\ h.op \in {"openConversation", "sendMessage"}
    BY <1>2, <1>7, <1>10, StepAt DEF h, StepsOf
  <2>2. Goes(h) = {"resolveRequest", "insertMessage", "markRead"}
        /\ "resolveRequest" \in StepsOf(h.op)
    BY <1>10, <2>1 DEF Goes, StepsOf
  <2> QED BY <1>5, <1>6, <1>10, <2>1, <2>2 DEF ResolveFriends, SendState, NoId, MessageSteps
<1>11. CASE h.pc = "resolveRequest"
  <2>1. ResolveRequest(r) /\ h.op \in {"openConversation", "sendMessage"}
    BY <1>2, <1>7, <1>11, StepAt DEF h, StepsOf
  <2>2. Goes(h) = {"insertMessage", "insertOpening", "markRead"}
    BY <1>11, <2>1 DEF Goes
  <2>3. \A q \in messageRequests : q.id \in Nat /\ StateOf(q, handlers[r].user) \in SendState
    BY DEF StateOf, SendState, TypeOK, DatabaseTypeOK, MessageRequest, RowId
  <2>4. \E state \in SendState, request \in Nat : Resolved(r, state, request)
    BY <2>1, <2>3 DEF ResolveRequest, RequestsBetween, SendState, NoId
  <2> QED BY <1>6, <1>11, <2>1, <2>2, <2>4
<1>12. CASE h.pc = "insertMessage"
  <2>1. InsertMessage(r) /\ h.op = "sendMessage"
    BY <1>2, <1>4, <1>7, <1>12, StepAt DEF h, StepsOf, RejectInsert, Respond
  <2>2. Goes(h) = {"settleReply", "notifyMessage"}
        /\ "settleReply" \in StepsOf(h.op) /\ "notifyMessage" \in StepsOf(h.op)
    BY <1>12, <2>1 DEF Goes, StepsOf, Stored
  <2> DEFINE pc == IF h.state = "reply_accepts" THEN "settleReply" ELSE "notifyMessage"
             g == [h EXCEPT !.row = nextId, !.pc = pc]
  <2>3. handlers' = [handlers EXCEPT ![r] = g]
    BY <2>1 DEF InsertMessage, h
  <2>4. Kept(g)
    BY <1>1, <1>12, <2>2 DEF Handler, MessageSteps, TypeOK, DatabaseTypeOK, RowId
  <2> QED BY <1>1, <2>3, <2>4
<1>13. CASE h.pc = "insertOpening"
  <2>1. InsertOpening(r) /\ h.op = "sendMessage"
    BY <1>2, <1>4, <1>7, <1>13, StepAt DEF h, StepsOf, RejectInsert, Respond
  <2>2. Goes(h) = {"notifyOpening"} /\ "notifyOpening" \in StepsOf(h.op)
    BY <1>13, <2>1 DEF Goes, StepsOf, Stored
  <2> DEFINE g == [h EXCEPT !.pc = "notifyOpening", !.row = nextId]
  <2>3. handlers' = [handlers EXCEPT ![r] = g]
    BY <1>4, <2>1 DEF InsertOpening, h, Respond
  <2>4. Kept(g)
    BY <1>1, <1>13, <2>2 DEF Handler, MessageSteps, TypeOK, DatabaseTypeOK, RowId
  <2> QED BY <1>1, <2>3, <2>4
<1>14. CASE h.pc = "settleReply"
  <2>1. SettleReply(r) /\ h.op = "sendMessage"
    BY <1>2, <1>7, <1>14, StepAt DEF h, StepsOf
  <2>2. Goes(h) = {"notifyReply", "notifyMessage"}
        /\ "notifyReply" \in StepsOf(h.op) /\ "notifyMessage" \in StepsOf(h.op)
    BY <1>14, <2>1 DEF Goes, StepsOf, Stored
  <2> QED BY <1>5, <2>1, <2>2 DEF SettleReply, MessageSteps
<1>15. CASE h.pc \in {"notifyReply", "notifyMessage", "notifyOpening", "notifyRead",
                      "notifyRequestAccepted"}
  <2>1. Respond(r)
    BY <1>7, <1>15, StepAt DEF h, NotifyReply, NotifyMessage, NotifyOpening, NotifyRead,
                               NotifyRequestAccepted
  <2> QED BY <1>4, <2>1 DEF Respond
<1>16. CASE h.pc = "markRead"
  <2>1. MarkRead(r) /\ h.op = "openConversation"
    BY <1>2, <1>7, <1>16, StepAt DEF h, StepsOf, Stored
  <2>2. Goes(h) = {"notifyRead"} /\ "notifyRead" \in StepsOf(h.op)
    BY <1>16, <2>1 DEF Goes, StepsOf
  <2> DEFINE p == Ids(ToMark(r))
             g == [h EXCEPT !.pc = "notifyRead", !.page = p]
  <2>3. handlers' = [handlers EXCEPT ![r] = g]
    BY <1>4, <2>1 DEF MarkRead, h, Respond
  <2>4. p \in SUBSET Nat
    BY DEF Ids, ToMark, UnreadFrom, TypeOK, DatabaseTypeOK, Message, RowId
  <2> HIDE DEF p
  <2>5. Kept(g)
    BY <1>1, <1>16, <2>2, <2>4 DEF Handler, MessageSteps
  <2> QED BY <1>1, <2>3, <2>5
<1>17. CASE h.pc = "loadRequest"
  <2>1. LoadRequest(r)
    BY <1>7, <1>17, StepAt DEF h
  <2>2. Goes(h) = {"setStatus"} /\ "setStatus" \in StepsOf(h.op)
    BY <1>2, <1>17 DEF Goes, StepsOf, Stored
  <2>3. PICK q \in messageRequests :
          handlers' = [handlers EXCEPT ![r].pc = "setStatus", ![r].peer = q.requester]
    BY <1>4, <2>1 DEF LoadRequest, Respond
  <2> DEFINE g == [h EXCEPT !.pc = "setStatus", !.peer = q.requester]
  <2>4. handlers' = [handlers EXCEPT ![r] = g]
    BY <2>3 DEF h
  <2>5. q.requester \in Users
    BY DEF TypeOK, DatabaseTypeOK, MessageRequest
  <2>6. Kept(g)
    BY <1>1, <1>17, <2>2, <2>5 DEF Handler, MessageSteps
  <2> QED BY <1>1, <2>4, <2>6
<1>18. CASE h.pc = "setStatus"
  <2>1. AnswerSetStatus(r)
    BY <1>7, <1>18, StepAt DEF h
  <2>2. Goes(h) = {"notifyRequestAccepted"} /\ "notifyRequestAccepted" \in StepsOf(h.op)
    BY <1>2, <1>18 DEF Goes, StepsOf, Stored
  <2> QED BY <1>4, <1>5, <2>1, <2>2 DEF AnswerSetStatus, Respond, MessageSteps
<1> QED
  BY <1>7, <1>8, <1>9, <1>10, <1>11, <1>12, <1>13, <1>14, <1>15, <1>16, <1>17, <1>18
     DEF MessageSteps

LEMMA ResolvedRef ==
  ASSUME TypeOK, NEW r \in Slots, handlers[r] \in Handler, handlers[r].pc # "idle",
         NEW state, NEW request, Resolved(r, state, request), handlers'[r] # Idle
  PROVE  /\ handlers'[r].pc = AfterResolve(handlers[r].op, state)
         /\ handlers'[r].state = state
         /\ handlers'[r].ref = IF state = "reply_accepts" THEN request ELSE NoId
<1> DEFINE next == AfterResolve(handlers[r].op, state)
           ref == IF state = "reply_accepts" THEN request ELSE NoId
<1>1. handlers'[r] = [handlers[r] EXCEPT !.pc = next, !.state = state, !.ref = ref]
  BY ResolvedIs
<1> HIDE DEF next, ref
<1>2. /\ handlers'[r].pc = next /\ handlers'[r].state = state /\ handlers'[r].ref = ref
  BY <1>1 DEF Handler
<1> QED BY <1>2 DEF next, ref

\* What a handler has found out when it goes on.
LEMMA ServeKnows ==
  ASSUME TypeOK, TypeOK', Numbered, NEW r \in Slots, MessageStep(r) \/ RejectInsert(r),
         Knows(handlers[r]), handlers[r].op # "scrollBack", handlers'[r] # Idle
  PROVE  Knows(handlers[r])'
<1>1. PICK h \in Handler, g \in Handler : h = handlers[r] /\ g = handlers'[r]
  BY StepStarts DEF TypeOK, HandlersTypeOK
<1>2. /\ g.pc \in Goes(h) \cap StepsOf(h.op)
      /\ g.op = h.op /\ g.user = h.user
      /\ h.pc # "loadRequest" => g.peer = h.peer
      /\ h.pc \notin {"insertMessage", "insertOpening"} => g.row = h.row
      /\ h.pc \notin {"resolveFriends", "resolveRequest"} => g.ref = h.ref /\ g.state = h.state
      /\ h.pc \in StepsOf(h.op)
  BY <1>1, StepGoes DEF Knows
<1>3. handlers \in [Slots -> Handler \cup {Idle}] /\ h.pc # "idle" /\ nextId \in Nat
      /\ 0 < nextId /\ g # Idle
  BY <1>1, StepStarts DEF TypeOK, HandlersTypeOK, DatabaseTypeOK, RowId, NoId
<1>4. h.pc \in MessageSteps
  BY <1>2 DEF StepsOf, MessageSteps, Stored
<1>5. SUFFICES Knows(g)'
  BY <1>1
<1> USE DEF At
<1>6. CASE h.pc \in {"findPage", "resolveBlock", "setStatus"}
  BY <1>2, <1>6 DEF Goes, Knows, Stored
<1>7. CASE h.pc = "resolveFriends"
  <2>1. ResolveFriends(r)
    BY <1>1, <1>4, <1>7, StepAt
  <2>2. g.pc \in {"resolveRequest", "insertMessage", "markRead"}
    BY <1>2, <1>7 DEF Goes
  <2>3. CASE g.pc = "insertMessage"
    <3>1. Resolved(r, "open", NoId)
      <4>1. Goto(r, "resolveRequest") => g.pc = "resolveRequest"
        BY <1>1, <1>3 DEF Goto, Handler
      <4> QED BY <2>1, <2>3, <4>1 DEF ResolveFriends
    <3>2. g.state = "open" /\ g.ref = NoId
      BY <1>1, <1>3, <3>1, ResolvedRef
    <3>3. nextId' = nextId
      BY <2>1 DEF ResolveFriends, tables
    <3> QED BY <1>2, <1>3, <2>3, <3>2, <3>3 DEF Knows, Stored, NoId
  <2>4. CASE g.pc # "insertMessage"
    BY <1>2, <2>2, <2>4 DEF Knows, Stored
  <2> QED BY <2>3, <2>4
<1>8. CASE h.pc = "resolveRequest"
  <2>1. ResolveRequest(r)
    BY <1>1, <1>4, <1>8, StepAt
  <2>2. g.pc \in {"insertMessage", "insertOpening", "markRead"}
    BY <1>2, <1>8 DEF Goes
  <2>3. nextId' = nextId /\ messageRequests' = messageRequests
    BY <2>1 DEF ResolveRequest, tables
  <2>4. CASE Resolved(r, "first_contact", NoId)
    <3>1. g.state = "first_contact" /\ g.ref = NoId
      BY <1>1, <1>3, <2>4, ResolvedRef
    <3> QED BY <1>2, <1>3, <2>2, <2>3, <3>1 DEF Knows, Stored, NoId
  <2>5. ASSUME NEW q \in RequestsBetween(h.user, h.peer), Resolved(r, StateOf(q, h.user), q.id)
        PROVE  Knows(g)'
    <3>1. g.state = StateOf(q, h.user)
          /\ g.ref = IF StateOf(q, h.user) = "reply_accepts" THEN q.id ELSE NoId
      BY <1>1, <1>3, <2>5, ResolvedRef
    <3>2. q \in messageRequests /\ q.id < nextId /\ \A p \in messageRequests : p.id = q.id => p = q
      BY DEF RequestsBetween, Numbered, RequestsNumbered
    <3>3. StateOf(q, h.user) = "reply_accepts" => q.recipient = h.user
      BY DEF StateOf
    <3>4. g.ref < nextId
      BY <1>3, <3>1, <3>2 DEF NoId
    <3>5. g.state = "reply_accepts" =>
            \A p \in messageRequests : p.id = g.ref => p.recipient = g.user
      BY <1>2, <3>1, <3>2, <3>3
    <3> QED BY <1>2, <2>2, <2>3, <3>4, <3>5 DEF Knows, Stored
  <2> QED BY <1>1, <2>1, <2>4, <2>5 DEF ResolveRequest
<1>9. CASE h.pc = "insertMessage"
  <2>1. InsertMessage(r)
    BY <1>1, <1>3, <1>4, <1>9, StepAt DEF RejectInsert, Respond
  <2>2. g.pc = (IF h.state = "reply_accepts" THEN "settleReply" ELSE "notifyMessage")
        /\ g.row = nextId
    BY <1>1, <1>3, <2>1 DEF InsertMessage, Handler
  <2>3. /\ nextId' = nextId + 1 /\ messageRequests' = messageRequests
        /\ NewMessage(r) \in messages' /\ NewMessage(r).id = nextId
        /\ NewMessage(r).sender = h.user
    BY <1>1, <2>1 DEF InsertMessage, TakeId, NewMessage
  <2>4. h.ref < nextId'
    BY <1>1, <1>3, <1>9, <2>3 DEF Knows, Handler
  <2>5. h.state = "reply_accepts" => \A q \in messageRequests : q.id = h.ref => q.recipient = h.user
    BY <1>1, <1>9 DEF Knows
  <2>6. \E m \in messages' : m.id = g.row /\ m.sender = g.user
    BY <1>2, <2>2, <2>3
  <2>7. g.pc \in {"settleReply", "notifyMessage"}
        /\ (g.pc = "settleReply" => h.state = "reply_accepts")
    BY <2>2
  <2> HIDE DEF NewMessage
  <2> QED BY <1>2, <1>9, <2>3, <2>4, <2>5, <2>6, <2>7 DEF Knows, Stored
<1>10. CASE h.pc = "insertOpening"
  <2>1. InsertOpening(r)
    BY <1>1, <1>3, <1>4, <1>10, StepAt DEF RejectInsert, Respond
  <2>2. g.pc = "notifyOpening"
    BY <1>2, <1>10 DEF Goes
  <2>3. ~Respond(r)
    BY <1>1, <1>3 DEF Respond
  <2>4. g.row = nextId
    BY <1>1, <1>3, <2>1, <2>3 DEF InsertOpening, Handler
  <2>5. NewMessage(r) \in messages' /\ NewMessage(r).id = nextId
        /\ NewMessage(r).sender = h.user
    BY <1>1, <2>1, <2>3 DEF InsertOpening, TakeId, NewMessage
  <2>6. \E m \in messages' : m.id = g.row /\ m.sender = g.user
    BY <1>2, <2>4, <2>5
  <2> QED BY <1>2, <2>2, <2>6 DEF Knows, Stored
<1>11. CASE h.pc = "settleReply"
  <2>1. SettleReply(r)
    BY <1>1, <1>4, <1>11, StepAt
  <2>2. g.pc \in {"notifyReply", "notifyMessage"} /\ messages' = messages
    BY <1>2, <1>11, <2>1 DEF Goes, SettleReply
  <2>3. \E m \in messages : m.id = h.row /\ m.sender = h.user
    BY <1>1, <1>11 DEF Knows, Stored
  <2> QED BY <1>2, <1>11, <2>2, <2>3 DEF Knows, Stored
<1>12. CASE h.pc \in {"notifyReply", "notifyMessage", "notifyOpening", "notifyRead",
                      "notifyRequestAccepted"}
  BY <1>2, <1>12 DEF Goes
<1>13. CASE h.pc = "markRead"
  <2>1. MarkRead(r) /\ ~Respond(r)
    BY <1>1, <1>3, <1>4, <1>13, StepAt DEF Respond
  <2>2. g.pc = "notifyRead" /\ g.page = Ids(ToMark(r))
    BY <1>1, <1>3, <2>1 DEF MarkRead, Handler
  <2>3. g.peer = h.peer
    BY <1>2, <1>13
  <2>4. ASSUME g.peer = Me, NEW i \in g.page PROVE i \in Ticked(messages)'
    <3>1. PICK m \in ToMark(r) : m.id = i
      BY <2>2, <2>4 DEF Ids
    <3>2. m \in Message /\ m.sender = Me
      BY <1>1, <2>3, <2>4, <3>1 DEF ToMark, UnreadFrom, TypeOK, DatabaseTypeOK
    <3> DEFINE n == [m EXCEPT !.read = TRUE]
    <3>3. n \in messages' /\ n.id = i /\ n.sender = Me /\ n.read
      BY <2>1, <3>1, <3>2 DEF MarkRead, Message
    <3> QED BY <3>3 DEF Ticked
  <2> QED BY <1>2, <2>2, <2>4 DEF Knows, Stored
<1>14. CASE h.pc = "loadRequest"
  <2>1. LoadRequest(r) /\ ~Respond(r)
    BY <1>1, <1>3, <1>4, <1>14, StepAt DEF Respond
  <2>2. PICK q \in messageRequests :
          /\ q.id = h.row /\ q.recipient = h.user
          /\ handlers' = [handlers EXCEPT ![r].pc = "setStatus", ![r].peer = q.requester]
          /\ UNCHANGED tables
    BY <1>1, <2>1 DEF LoadRequest, MayAnswer
  <2>3. g.pc = "setStatus" /\ g.peer = q.requester /\ g.row = h.row
    BY <1>1, <1>3, <2>2 DEF Handler
  <2>4. h.row < nextId /\ \A p \in messageRequests : p.id = h.row => p = q
    BY <2>2 DEF Numbered, RequestsNumbered
  <2>5. nextId' = nextId /\ messageRequests' = messageRequests
    BY <2>2 DEF tables
  <2> QED BY <1>2, <2>2, <2>3, <2>4, <2>5 DEF Knows, Stored
<1> QED
  BY <1>4, <1>6, <1>7, <1>8, <1>9, <1>10, <1>11, <1>12, <1>13, <1>14 DEF MessageSteps

LEMMA StateIs ==
  ASSUME NEW u
  PROVE  /\ StateWith(u) = IF BlockExistsBetween(Me, u) THEN "blocked"
                           ELSE IF AreFriends(Me, u) THEN "open" ELSE RequestState(u)
         /\ RequestState(u) # "blocked"
<1>1. RequestState(u) # "blocked"
  BY DEF RequestState, StateOf
<1>2. CASE BlockExistsBetween(Me, u)
  BY <1>1, <1>2 DEF StateWith
<1>3. CASE ~BlockExistsBetween(Me, u) /\ AreFriends(Me, u)
  BY <1>1, <1>3 DEF StateWith
<1>4. CASE ~BlockExistsBetween(Me, u) /\ ~AreFriends(Me, u)
  BY <1>1, <1>4 DEF StateWith
<1> QED BY <1>1, <1>2, <1>3, <1>4

LEMMA ServeOnward ==
  ASSUME TypeOK, Numbered, NEW r \in Slots, MessageStep(r) \/ RejectInsert(r)
  PROVE  TypeOK' /\ Onward
<1>1. CASE RejectInsert(r)
  <2>1. TypeOK'
    BY <1>1, RespondType, OnlyHandlers DEF RejectInsert
  <2> QED BY <1>1, <2>1, TablesStay DEF RejectInsert
<1> QED BY <1>1, MessageStepType, MessageStepOnward

\* Only these queries write.
LEMMA StepReads ==
  ASSUME NEW r \in Slots, MessageStep(r) \/ RejectInsert(r), handlers[r].pc \in MessageSteps
  PROVE  /\ handlers[r].pc \notin {"insertMessage", "insertOpening", "settleReply", "markRead",
                                   "setStatus"} => UNCHANGED tables
         /\ handlers[r].pc \notin {"insertMessage", "insertOpening", "markRead"} =>
              messages' = messages
         /\ handlers[r].pc \in {"insertMessage", "insertOpening"} /\ handlers'[r] = Idle
            /\ handlers \in [Slots -> Handler \cup {Idle}] => UNCHANGED tables
<1> USE DEF At
<1>1. \A pc \in MessageSteps : pc # "idle"
  BY DEF MessageSteps
<1>2. handlers[r].pc \notin {"insertMessage", "insertOpening", "settleReply", "markRead",
                             "setStatus"} => UNCHANGED tables
  BY StepAt
     DEF MessageSteps, ResolveBlock, ResolveFriends, ResolveRequest, NotifyReply, NotifyMessage,
         NotifyOpening, FindPage, NotifyRead, LoadRequest, NotifyRequestAccepted
<1>3. handlers[r].pc \notin {"insertMessage", "insertOpening", "markRead"} => messages' = messages
  <2>1. handlers[r].pc \in {"settleReply", "setStatus"} => messages' = messages
    BY StepAt DEF SettleReply, AnswerSetStatus
  <2> QED BY <1>2, <2>1 DEF tables
<1>4. ASSUME handlers[r].pc \in {"insertMessage", "insertOpening"}, handlers'[r] = Idle,
             handlers \in [Slots -> Handler \cup {Idle}]
      PROVE  UNCHANGED tables
  <2>1. CASE RejectInsert(r)
    BY <2>1 DEF RejectInsert
  <2>2. handlers[r] \in Handler
    BY <1>4 DEF Idle
  <2>3. ~InsertMessage(r)
    <3> SUFFICES ASSUME InsertMessage(r) PROVE FALSE
      OBVIOUS
    <3>1. handlers'[r].row = nextId /\ handlers'[r].pc \in {"settleReply", "notifyMessage"}
      BY <1>4, <2>2 DEF InsertMessage, Handler
    <3> QED BY <1>4, <3>1 DEF Idle
  <2>4. CASE InsertOpening(r)
    <3>1. CASE handlers' = [handlers EXCEPT ![r].pc = "notifyOpening", ![r].row = nextId]
      <4>1. handlers'[r].pc = "notifyOpening"
        BY <1>4, <2>2, <3>1 DEF Handler
      <4> QED BY <1>4, <4>1 DEF Idle
    <3>2. CASE handlers' # [handlers EXCEPT ![r].pc = "notifyOpening", ![r].row = nextId]
      BY <2>4, <3>2 DEF InsertOpening, DropMessage, tables
    <3> QED BY <3>1, <3>2
  <2> QED BY <1>4, <2>1, <2>3, <2>4, StepAt
<1> QED BY <1>2, <1>3, <1>4

\* Marking what a partner has sent ticks nothing of Me.
LEMMA MarkReadTruth ==
  ASSUME TypeOK, NEW r \in Slots, MarkRead(r), handlers[r].peer # Me, NEW u
  PROVE  /\ Ids(Conversation(Me, u)) = Ids(Conversation(Me, u))'
         /\ Ticked(Conversation(Me, u)) = Ticked(Conversation(Me, u))'
         /\ StateWith(u) = StateWith(u)'
<1> DEFINE R == ToMark(r)
<1>1. R \in SUBSET messages /\ messages \in SUBSET Message /\ \A m \in R : m.sender # Me
  BY DEF ToMark, UnreadFrom, TypeOK, DatabaseTypeOK
<1>2. messages' = (messages \ R) \cup {[m EXCEPT !.read = TRUE] : m \in R}
  BY DEF MarkRead
<1> HIDE DEF R
<1>3. \A m \in messages : LET n == [m EXCEPT !.read = TRUE] IN
        n.id = m.id /\ n.sender = m.sender /\ n.recipient = m.recipient
  BY <1>1 DEF Message
<1>4. ASSUME NEW m \in messages
      PROVE  \E n \in messages' :
               /\ n.id = m.id /\ n.sender = m.sender /\ n.recipient = m.recipient
               /\ m.sender = Me => n = m
  <2>1. CASE m \in R
    <3>1. [m EXCEPT !.read = TRUE] \in messages'
      BY <1>2, <2>1
    <3> QED BY <1>1, <1>3, <2>1, <3>1
  <2>2. CASE m \notin R
    BY <1>2, <2>2
  <2> QED BY <2>1, <2>2
<1>5. ASSUME NEW n \in messages'
      PROVE  \E m \in messages :
               /\ n.id = m.id /\ n.sender = m.sender /\ n.recipient = m.recipient
               /\ m.sender = Me => n = m
  <2>1. CASE n \in messages
    BY <2>1
  <2>2. CASE n \notin messages
    <3>1. PICK m \in R : n = [m EXCEPT !.read = TRUE]
      BY <1>2, <2>2
    <3>2. m \in messages /\ m.sender # Me
      BY <1>1
    <3> QED BY <1>3, <3>1, <3>2
  <2> QED BY <2>1, <2>2
<1>6. Ids(Conversation(Me, u)) = Ids(Conversation(Me, u))'
  <2>1. \A m \in Conversation(Me, u) : \E n \in Conversation(Me, u)' : n.id = m.id
    BY <1>4 DEF Conversation, MessagePair
  <2>2. \A n \in Conversation(Me, u)' : \E m \in Conversation(Me, u) : n.id = m.id
    BY <1>5 DEF Conversation, MessagePair
  <2> QED BY <2>1, <2>2 DEF Ids
<1>7. Ticked(Conversation(Me, u)) = Ticked(Conversation(Me, u))'
  <2>1. \A m \in Conversation(Me, u) : m.sender = Me => m \in Conversation(Me, u)'
    BY <1>4 DEF Conversation, MessagePair
  <2>2. \A n \in Conversation(Me, u)' : n.sender = Me => n \in Conversation(Me, u)
    BY <1>5 DEF Conversation, MessagePair
  <2> QED BY <2>1, <2>2 DEF Ticked
<1>8. StateWith(u) = StateWith(u)'
  BY DEF MarkRead, StateWith, RequestState, RequestsBetween, StateOf, BlockExistsBetween,
         AreFriends, FriendshipsBetween
<1> QED BY <1>6, <1>7, <1>8

\* A read of the thread, after a query of its handler.
LEMMA ServeRead ==
  ASSUME MessengerTypeOK, TypeOK, TypeOK', Numbered, NEW r \in Slots,
         MessageStep(r) \/ RejectInsert(r),
         NEW c \in Call, c = calls[r], c # NoCall, c.kind \in Reads, SlotHolds(c, handlers[r]),
         NEW d \in Call, d = Progress(r, c)
  PROVE  ReadHolds(d, handlers[r])'
<1>1. PICK h \in Handler, g \in Handler \cup {Idle} : h = handlers[r] /\ g = handlers'[r]
  BY StepStarts DEF TypeOK, HandlersTypeOK
<1>2. handlers \in [Slots -> Handler \cup {Idle}] /\ h # Idle /\ h.pc # "idle"
  BY <1>1, StepStarts DEF TypeOK, HandlersTypeOK
<1> DEFINE u == c.with
<1>3. /\ h.user = Me /\ h.op = "openConversation" /\ h.peer = u /\ u \in Partners /\ u # Me
      /\ Knows(h) /\ ReadHolds(c, h) /\ c.phase = "sent"
  <2>1. c.phase = "sent"
    BY <1>1, <1>2 DEF SlotHolds, Serves, Call
  <2> QED BY <1>1, <1>2, <2>1 DEF SlotHolds, Serves, OpOf, Reads, Partners
<1>4. /\ h.pc \in {"findPage", "resolveBlock", "resolveFriends", "resolveRequest", "markRead",
                   "notifyRead"}
      /\ h.pc \in MessageSteps
  BY <1>3 DEF Knows, StepsOf, MessageSteps
<1>5. /\ At(r, "findPage") =>
           d = [c EXCEPT !.done = TRUE, !.messages = NewestFirst(Conversation(Me, u))]
      /\ ~At(r, "findPage") /\ g = Idle => d.phase = "ok" /\ d.state = StateSent(r)
      /\ ~At(r, "findPage") => d.done = c.done /\ d.messages = c.messages
      /\ d.kind = c.kind /\ d.with = u /\ d.late = c.late
      /\ g # Idle => d.phase = "sent"
  <2>1. Succeeds(r)
    BY <1>1, <1>3 DEF Succeeds
  <2> QED BY <1>1, <1>3, <1>4, <2>1, ProgressIs
<1>6. g # Idle => g.pc \in Goes(h)
  BY <1>1, <1>3, StepGoes
<1>7. SUFFICES ReadHolds(d, g)'
  BY <1>1
<1> USE DEF At
<1>8. CASE h.pc = "findPage"
  <2>1. FindPage(r) /\ UNCHANGED tables
    BY <1>1, <1>4, <1>8, StepAt DEF FindPage
  <2>2. g.pc = "resolveBlock"
    BY <1>1, <1>2, <2>1 DEF FindPage, Handler
  <2>3. Conversation(Me, u)' = Conversation(Me, u)
    BY <2>1, TruthStays
  <2>4. ToSet(d.messages) = Conversation(Me, u) /\ d.done /\ d.phase = "sent"
    <3>1. PICK ms : ms = NewestFirst(Conversation(Me, u))
      OBVIOUS
    <3>2. ToSet(ms) = Conversation(Me, u)
      BY <3>1, ConversationLists
    <3>3. d = [c EXCEPT !.done = TRUE, !.messages = ms]
      BY <1>1, <1>5, <1>8, <3>1
    <3>4. d.done /\ d.messages = ms /\ d.phase = c.phase
      BY <3>3 DEF Call
    <3> QED BY <1>3, <3>2, <3>4
  <2>5. /\ Ids(ToSet(d.messages))' = Ids(Conversation(Me, u))'
        /\ Ticked(ToSet(d.messages))' = Ticked(Conversation(Me, u))'
    BY <2>3, <2>4 DEF Ids, Ticked
  <2> QED BY <1>5, <2>2, <2>4, <2>5 DEF ReadHolds
<1>9. CASE h.pc # "findPage"
  <2>1. /\ d.done /\ d.messages = c.messages /\ c.done
        /\ g = Idle => d.phase = "ok" /\ d.state = StateSent(r)
    BY <1>1, <1>2, <1>3, <1>5, <1>9 DEF ReadHolds
  <2>2. CASE c.late
    BY <1>5, <2>1, <2>2 DEF ReadHolds
  <2>3. CASE ~c.late
    <3>1. /\ Ids(ToSet(c.messages)) = Ids(Conversation(Me, u))
          /\ Ticked(ToSet(c.messages)) = Ticked(Conversation(Me, u))
          /\ h.pc \in {"resolveFriends", "resolveRequest"} => StateWith(u) # "blocked"
          /\ h.pc = "resolveRequest" /\ StateWith(u) = "open" => RequestState(u) = "open"
          /\ h.pc \in {"markRead", "notifyRead"} => StateWith(u) = "open"
      BY <1>3, <2>1, <2>3 DEF ReadHolds
    <3>2. /\ Ids(Conversation(Me, u)) = Ids(Conversation(Me, u))'
          /\ Ticked(Conversation(Me, u)) = Ticked(Conversation(Me, u))'
          /\ StateWith(u) = StateWith(u)'
      <4>1. CASE h.pc = "markRead"
        BY <1>1, <1>3, <1>4, <4>1, StepAt, MarkReadTruth
      <4>2. CASE h.pc # "markRead"
        <5>1. UNCHANGED tables
          BY <1>1, <1>4, <4>2, StepReads
        <5>2. Conversation(Me, u)' = Conversation(Me, u) /\ StateWith(u)' = StateWith(u)
          BY <5>1, TruthStays
        <5> QED BY <5>2 DEF Ids, Ticked
      <4> QED BY <4>1, <4>2
    <3>3. h.pc # "markRead" => RequestState(u) = RequestState(u)'
      <4>1. h.pc # "markRead" => UNCHANGED tables
        BY <1>1, <1>4, StepReads
      <4> QED BY <4>1, TruthStays
    <3>4. /\ Ids(ToSet(d.messages))' = Ids(ToSet(c.messages))
          /\ Ticked(ToSet(d.messages))' = Ticked(ToSet(c.messages))
      BY <2>1 DEF Ids, Ticked
    <3>5. SUFFICES /\ g = Idle => StateSent(r) = StateWith(u)
                   /\ g.pc \in {"resolveFriends", "resolveRequest"} => StateWith(u) # "blocked"
                   /\ g.pc = "resolveRequest" /\ StateWith(u) = "open" =>
                        RequestState(u) = "open" /\ h.pc # "markRead"
                   /\ g.pc \in {"markRead", "notifyRead"} => StateWith(u) = "open"
      <4>1. d.phase = "ok" => g = Idle
        BY <1>5
      <4> QED BY <1>5, <2>1, <3>1, <3>2, <3>3, <3>4, <4>1 DEF ReadHolds
    <3>6. CASE h.pc = "resolveBlock"
      <4>1. ResolveBlock(r)
        BY <1>1, <1>4, <3>6, StepAt
      <4>2. StateSent(r) = "blocked" /\ Goes(h) = {"resolveFriends"}
        BY <1>1, <3>6 DEF StateSent, Goes
      <4>3. CASE BlockExistsBetween(Me, u)
        <5>1. Resolved(r, "blocked", NoId) /\ AfterResolve(h.op, "blocked") = "idle"
          BY <1>1, <1>3, <4>1, <4>3 DEF ResolveBlock, AfterResolve, MarksRead
        <5>2. g = Idle
          BY <1>1, <1>2, <5>1, ResolvedIs
        <5> QED BY <4>2, <4>3, <5>2, StateIs DEF Idle
      <4>4. CASE ~BlockExistsBetween(Me, u)
        <5>1. g.pc = "resolveFriends"
          BY <1>1, <1>2, <1>3, <4>1, <4>4 DEF ResolveBlock, Goto, Handler
        <5> QED BY <4>4, <5>1, StateIs DEF Idle
      <4> QED BY <4>3, <4>4
    <3>7. CASE h.pc = "resolveFriends"
      <4>1. ResolveFriends(r)
        BY <1>1, <1>4, <3>7, StepAt
      <4>2. CASE AreFriends(Me, u)
        <5>1. Resolved(r, "open", NoId) /\ AfterResolve(h.op, "open") = "markRead"
          BY <1>1, <1>3, <4>1, <4>2 DEF ResolveFriends, AfterResolve, MarksRead
        <5>2. g # Idle /\ g.pc = "markRead"
          <6>1. g = [h EXCEPT !.pc = "markRead", !.state = "open", !.ref = NoId]
            BY <1>1, <1>2, <5>1 DEF Resolved, NoId
          <6>2. g.pc = "markRead"
            BY <6>1 DEF Handler
          <6> QED BY <6>2 DEF Idle
        <5> QED BY <3>1, <3>7, <4>2, <5>2, StateIs
      <4>3. CASE ~AreFriends(Me, u)
        <5>1. g.pc = "resolveRequest"
          BY <1>1, <1>2, <1>3, <4>1, <4>3 DEF ResolveFriends, Goto, Handler
        <5> QED BY <3>1, <3>7, <4>3, <5>1, StateIs DEF Idle
      <4> QED BY <4>2, <4>3
    <3>8. CASE h.pc = "resolveRequest"
      <4>1. ResolveRequest(r)
        BY <1>1, <1>4, <3>8, StepAt
      <4>2. StateWith(u) = RequestState(u)
        BY <3>1, <3>8, StateIs
      <4>3. StateSent(r) = RequestState(u)
        BY <1>1, <1>3, <3>8 DEF StateSent
      <4>4. \E state, request : Resolved(r, state, request) /\ state = RequestState(u)
        <5>1. CASE RequestsBetween(Me, u) = {}
          <6>1. Resolved(r, "first_contact", NoId)
            BY <1>1, <1>3, <4>1, <5>1 DEF ResolveRequest
          <6> QED BY <5>1, <6>1 DEF RequestState
        <5>2. ASSUME NEW q \in RequestsBetween(Me, u), Resolved(r, StateOf(q, Me), q.id)
              PROVE  \E state, request : Resolved(r, state, request) /\ state = RequestState(u)
          BY <5>2, RequestStateIs
        <5> QED BY <1>1, <1>3, <4>1, <5>1, <5>2 DEF ResolveRequest
      <4>5. PICK state, request : Resolved(r, state, request) /\ state = RequestState(u)
        BY <4>4
      <4>6. g # Idle => g.pc = AfterResolve(h.op, state)
        BY <1>1, <1>2, <4>5, ResolvedRef
      <4>7. AfterResolve(h.op, state) = "markRead" => state = "open"
        BY <1>3 DEF AfterResolve, MarksRead
      <4>8. AfterResolve(h.op, state) \in {"markRead", "idle"}
        BY <1>3 DEF AfterResolve, MarksRead
      <4> QED BY <4>2, <4>3, <4>5, <4>6, <4>7, <4>8 DEF Idle
    <3>9. CASE h.pc = "markRead"
      <4>1. StateSent(r) = "open" /\ Goes(h) = {"notifyRead"}
        BY <1>1, <3>9 DEF StateSent, Goes
      <4> QED BY <1>6, <3>1, <3>9, <4>1 DEF Idle
    <3>10. CASE h.pc = "notifyRead"
      <4>1. StateSent(r) = "open" /\ Goes(h) = {}
        BY <1>1, <3>10 DEF StateSent, Goes
      <4> QED BY <1>6, <3>1, <3>10, <4>1 DEF Idle
    <3> QED BY <1>4, <1>9, <3>6, <3>7, <3>8, <3>9, <3>10
  <2> QED BY <2>2, <2>3
<1> QED BY <1>8, <1>9

\* The message that a step of the handler stores, if it stores one.
LEMMA ServeStores ==
  ASSUME TypeOK, TypeOK', Numbered, NEW r \in Slots, MessageStep(r) \/ RejectInsert(r),
         handlers[r].pc \in {"insertMessage", "insertOpening"}, handlers'[r] # Idle
  PROVE  /\ messages' = messages \cup {NewMessage(r)}
         /\ NewMessage(r) \in Message /\ NewMessage(r).id = nextId
         /\ NewMessage(r).sender = handlers[r].user
         /\ NewMessage(r).recipient = handlers[r].peer /\ ~NewMessage(r).read
         /\ handlers[r].pc = "insertMessage" =>
              InsertMessage(r) /\ messageRequests' = messageRequests
         /\ handlers[r].pc = "insertOpening" =>
              /\ InsertOpening(r) /\ RequestsBetween(handlers[r].user, handlers[r].peer) = {}
              /\ messageRequests' = messageRequests \cup
                   {[id |-> nextId, requester |-> handlers[r].user,
                     recipient |-> handlers[r].peer, status |-> "pending"]}
<1>1. handlers[r] \in Handler /\ handlers[r] # Idle /\ nextId \in RowId
      /\ handlers \in [Slots -> Handler \cup {Idle}]
  BY StepStarts DEF TypeOK, DatabaseTypeOK, HandlersTypeOK
<1>2. /\ NewMessage(r) \in Message /\ NewMessage(r).id = nextId
      /\ NewMessage(r).sender = handlers[r].user
      /\ NewMessage(r).recipient = handlers[r].peer /\ ~NewMessage(r).read
  BY <1>1 DEF NewMessage, Message, Handler
<1>3. ~Respond(r)
  BY <1>1 DEF Respond
<1>4. CASE handlers[r].pc = "insertMessage"
  <2>1. InsertMessage(r)
    BY <1>3, <1>4, StepAt DEF At, RejectInsert, MessageSteps
  <2> QED BY <1>2, <1>4, <2>1 DEF InsertMessage
<1>5. CASE handlers[r].pc = "insertOpening"
  <2>1. InsertOpening(r)
    BY <1>3, <1>5, StepAt DEF At, RejectInsert, MessageSteps
  <2> QED BY <1>2, <1>3, <1>5, <2>1 DEF InsertOpening
<1> QED BY <1>4, <1>5

\* A send, after a query of its handler.
LEMMA ServeSend ==
  ASSUME MessengerTypeOK, TypeOK, TypeOK', Numbered, NEW r \in Slots,
         MessageStep(r) \/ RejectInsert(r),
         NEW c \in Call, c = calls[r], c # NoCall, c.kind = "send", SlotHolds(c, handlers[r]),
         NEW d \in Call, d = Progress(r, c)
  PROVE  SendHolds(d, handlers[r])' /\ Shown(ToSet(d.messages))'
<1>1. PICK h \in Handler, g \in Handler \cup {Idle} : h = handlers[r] /\ g = handlers'[r]
  BY StepStarts DEF TypeOK, HandlersTypeOK
<1>2. handlers \in [Slots -> Handler \cup {Idle}] /\ h # Idle /\ h.pc # "idle" /\ Onward
  BY <1>1, StepStarts, ServeOnward DEF TypeOK, HandlersTypeOK
<1> DEFINE u == c.with
           ms == ToSet(c.messages)
<1>3. /\ h.user = Me /\ h.op = "sendMessage" /\ h.peer = u /\ u \in Partners
      /\ Knows(h) /\ SendHolds(c, h) /\ c.phase = "sent" /\ Shown(ms)
  <2>1. c.phase = "sent"
    BY <1>1, <1>2 DEF SlotHolds, Serves, Call
  <2> QED BY <1>1, <1>2, <2>1 DEF SlotHolds, Serves, OpOf, Reads
<1>4. /\ h.pc \in {"resolveBlock", "resolveFriends", "resolveRequest",
                   "insertMessage", "insertOpening"} \cup Stored
      /\ h.pc \in MessageSteps /\ h.pc # "findPage" /\ ~At(r, "findPage")
  BY <1>1, <1>3 DEF Knows, StepsOf, Stored, MessageSteps, At
<1>5. /\ h.pc \in {"insertMessage", "insertOpening"} /\ g # Idle =>
           d = [c EXCEPT !.done = TRUE, !.messages = <<NewMessage(r)>>]
      /\ h.pc \notin {"insertMessage", "insertOpening"} \/ g = Idle =>
           d.done = c.done /\ d.messages = c.messages
      /\ d.kind = "send" /\ d.with = u /\ d.late = c.late
      /\ g = Idle => d.phase = IF Succeeds(r) THEN "ok" ELSE "failed"
      /\ g # Idle => d.phase = "sent"
  BY <1>1, <1>3, <1>4, ProgressIs
<1>6. g # Idle => g.pc \in Goes(h)
  BY <1>1, <1>3, StepGoes
<1>7. SUFFICES SendHolds(d, g)' /\ Shown(ToSet(d.messages))'
  BY <1>1
<1>8. CASE h.pc \in {"insertMessage", "insertOpening"} /\ g # Idle
  <2>1. PICK m : m = NewMessage(r)
    OBVIOUS
  <2>2. /\ messages' = messages \cup {m} /\ m \in Message /\ m.id = nextId
        /\ m.sender = Me /\ m.recipient = u /\ ~m.read
    BY <1>1, <1>3, <1>8, <2>1, ServeStores
  <2>3. d = [c EXCEPT !.done = TRUE, !.messages = <<m>>]
    BY <1>5, <1>8, <2>1
  <2>4. d.done /\ d.messages = <<m>>
    BY <2>3 DEF Call
  <2>5. ToSet(d.messages) = {m}
    BY <2>4 DEF ToSet
  <2>6. m \in Conversation(Me, u)'
    BY <2>2 DEF Conversation, MessagePair
  <2>7. Ids(ToSet(d.messages))' \subseteq Ids(Conversation(Me, u))'
    BY <2>5, <2>6 DEF Ids
  <2>8. Ids(ToSet(d.messages))' = {nextId}
    BY <2>2, <2>5 DEF Ids
  <2>9. nextId \notin Ticked(messages)'
    <3> SUFFICES ASSUME NEW n \in messages', n.id = nextId, n.read PROVE FALSE
      BY DEF Ticked
    <3>1. n \in messages
      BY <2>2
    <3> QED BY <3>1 DEF Numbered, MessagesNumbered, TypeOK, DatabaseTypeOK, RowId
  <2>10. Shown(ToSet(d.messages))'
    <3>1. Ticked({m}) = {}
      BY <2>2 DEF Ticked
    <3>2. Ticked(ToSet(d.messages))' = {}
      BY <2>5, <3>1 DEF Ticked
    <3>3. \A n \in ToSet(d.messages)' : n \in messages'
      BY <2>2, <2>5
    <3> QED BY <3>2, <3>3 DEF Shown
  <2>11. g.pc \in Stored
    <3>1. Goes(h) \subseteq Stored
      BY <1>8 DEF Goes, Stored
    <3> QED BY <1>6, <1>8, <3>1
  <2> QED BY <1>5, <2>4, <2>7, <2>8, <2>9, <2>10, <2>11 DEF SendHolds
<1>9. CASE ~(h.pc \in {"insertMessage", "insertOpening"} /\ g # Idle)
  <2>1. d.done = c.done /\ d.messages = c.messages
    BY <1>5, <1>9
  <2>2. messages' = messages
    <3>1. h.pc # "markRead"
      BY <1>4 DEF Stored
    <3>2. CASE h.pc \notin {"insertMessage", "insertOpening"}
      BY <1>1, <1>4, <3>1, <3>2, StepReads
    <3>3. CASE h.pc \in {"insertMessage", "insertOpening"}
      BY <1>1, <1>2, <1>4, <1>9, <3>3, StepReads DEF tables
    <3> QED BY <3>2, <3>3
  <2>3. Conversation(Me, u)' = Conversation(Me, u) /\ Ticked(messages)' = Ticked(messages)
    BY <2>2 DEF Conversation, Ticked
  <2>4. Ids(ToSet(d.messages))' = Ids(ms)
    BY <2>1 DEF Ids
  <2>5. Ids(Conversation(Me, u))' = Ids(Conversation(Me, u))
    BY <2>3 DEF Ids
  <2>6. d.phase = "ok" => h.pc \in Stored
    BY <1>1, <1>3, <1>4, <1>5 DEF Succeeds, Stored, At
  <2>7. g.pc \in Stored => h.pc \in Stored
    <3>1. g # Idle => g.pc \in Goes(h)
      BY <1>6
    <3>2. h.pc \in {"resolveBlock", "resolveFriends", "resolveRequest"} => Goes(h) \cap Stored = {}
      BY DEF Goes, Stored
    <3> QED BY <1>4, <1>9, <3>1, <3>2 DEF Idle, Stored
  <2>8. SendHolds(d, g)'
    <3>1. c.done /\ d.phase = "sent" => g.pc \in Stored
      <4>1. d.phase = "sent" => g # Idle
        BY <1>5
      <4>2. c.done => h.pc \in Stored
        BY <1>3 DEF SendHolds
      <4>3. h.pc \in Stored => Goes(h) \subseteq Stored
        BY DEF Goes, Stored
      <4> QED BY <1>6, <4>1, <4>2, <4>3
    <3> QED BY <1>3, <1>5, <2>1, <2>3, <2>4, <2>5, <2>6, <2>7, <3>1 DEF SendHolds
  <2>9. Shown(ToSet(d.messages))'
    <3>1. PICK xs : xs = ms
      OBVIOUS
    <3>2. Shown(xs)'
      BY <1>2, <1>3, <3>1, ShownStays
    <3> QED BY <2>1, <3>1, <3>2
  <2> QED BY <2>8, <2>9
<1> QED BY <1>8, <1>9

\* What a query may show: a page of the thread, or what was shown before.
LEMMA ServeShown ==
  ASSUME MessengerTypeOK, TypeOK, TypeOK', Numbered, NEW r \in Slots,
         MessageStep(r) \/ RejectInsert(r),
         NEW c \in Call, c = calls[r], c # NoCall, c.kind # "send", SlotHolds(c, handlers[r]),
         NEW d \in Call, d = Progress(r, c)
  PROVE  Shown(ToSet(d.messages))'
<1>1. PICK h \in Handler, g \in Handler \cup {Idle} : h = handlers[r] /\ g = handlers'[r]
  BY StepStarts DEF TypeOK, HandlersTypeOK
<1>2. h # Idle /\ Onward
  BY <1>1, StepStarts, ServeOnward
<1>3. h.op = OpOf(c.kind) /\ Knows(h) /\ Shown(ToSet(c.messages))
  BY <1>1, <1>2 DEF SlotHolds, Serves
<1>4. PICK ms : ms = ToSet(d.messages)
  OBVIOUS
<1>5. SUFFICES Shown(ms)
  <2>1. Shown(ms)'
    BY <1>2, <1>5, ShownStays
  <2> QED BY <1>4, <2>1
<1>6. CASE At(r, "findPage")
  <2>1. PICK ns : ns = NewestFirst(Conversation(Me, c.with))
    OBVIOUS
  <2>2. ToSet(ns) = Conversation(Me, c.with)
    BY <2>1, ConversationLists
  <2>3. d = [c EXCEPT !.done = TRUE, !.messages = ns]
    BY <1>6, <2>1, ProgressIs
  <2>4. ms = Conversation(Me, c.with)
    BY <1>4, <2>2, <2>3 DEF Call
  <2> QED BY <2>4 DEF Shown, Conversation, Ticked
<1>7. CASE ~At(r, "findPage")
  <2>1. h.pc \notin {"insertMessage", "insertOpening"}
    <3>1. OpOf(c.kind) # "sendMessage"
      BY DEF OpOf
    <3> QED BY <1>3, <3>1 DEF Knows, StepsOf
  <2>2. d.messages = c.messages
    BY <1>1, <1>7, <2>1, ProgressIs
  <2> QED BY <1>3, <1>4, <2>2
<1> QED BY <1>6, <1>7

\* Whoever turned to Me still does, and the call of this tab is still served.
LEMMA ServePeer ==
  ASSUME TypeOK, TypeOK', Numbered, NEW r \in Slots, MessageStep(r) \/ RejectInsert(r),
         Knows(handlers[r]), handlers[r].op # "scrollBack", handlers'[r] # Idle
  PROVE  /\ handlers'[r].op = handlers[r].op /\ handlers'[r].user = handlers[r].user
         /\ handlers[r].op \in {"openConversation", "sendMessage"} \/ handlers[r].user # Me =>
              handlers'[r].peer = handlers[r].peer
<1>1. PICK h \in Handler, g \in Handler : h = handlers[r] /\ g = handlers'[r]
  BY StepStarts DEF TypeOK, HandlersTypeOK
<1>2. /\ g.op = h.op /\ g.user = h.user
      /\ h.pc # "loadRequest" => g.peer = h.peer
  BY <1>1, StepGoes
<1>3. h.op \in {"openConversation", "sendMessage"} => h.pc # "loadRequest"
  BY <1>1 DEF Knows, StepsOf, Stored
<1>4. CASE h.pc = "loadRequest"
  <2>1. LoadRequest(r) /\ ~Respond(r)
    BY <1>1, <1>4, StepAt DEF Respond, At, MessageSteps, Idle, TypeOK, HandlersTypeOK, Handler
  <2>2. PICK q \in messageRequests :
          /\ q.id = h.row
          /\ handlers' = [handlers EXCEPT ![r].pc = "setStatus", ![r].peer = q.requester]
    BY <1>1, <2>1 DEF LoadRequest
  <2>3. g.peer = q.requester
    BY <1>1, <2>2 DEF Handler, TypeOK, HandlersTypeOK
  <2>4. h.user # Me => q.requester = h.peer
    BY <1>1, <1>4, <2>2 DEF Knows
  <2> QED BY <1>1, <1>2, <1>3, <1>4, <2>3, <2>4
<1> QED BY <1>1, <1>2, <1>3, <1>4
LEMMA ServeSlots ==
  ASSUME Typed, turns' \in Nat, NEW r \in Slots, Serve(r)
  PROVE  SlotsHold' /\ Onward
<1>1. /\ MessengerTypeOK /\ TypeOK /\ TypeOK' /\ Numbered /\ SlotsHold
      /\ MessageStep(r) \/ RejectInsert(r)
      /\ calls \in [Slots -> Call \cup {NoCall}]
  BY ServeTypes DEF Typed, Serve, MessengerTypeOK
<1>2. Onward
  BY <1>1, ServeOnward
<1>3. PICK h \in Handler, g \in Handler \cup {Idle} : h = handlers[r] /\ g = handlers'[r]
  BY <1>1, StepStarts DEF TypeOK, HandlersTypeOK
<1>4. h # Idle
  BY <1>1, <1>3, StepStarts
<1>5. ASSUME NEW s \in Slots
      PROVE  /\ s = r /\ calls[r] # NoCall => calls'[s] = Progress(r, calls[r])
             /\ s # r \/ calls[r] = NoCall => calls'[s] = LateCall(calls[s])
  BY DEF Serve
<1>6. SlotHolds(calls[r], h) /\ Knows(h)
  BY <1>1, <1>3, <1>4 DEF SlotsHold, SlotHolds
<1>7. h.op # "scrollBack"
  <2>1. calls[r] # NoCall => h.op = OpOf(calls[r].kind)
    BY <1>4, <1>6 DEF SlotHolds, Serves
  <2> QED BY <1>4, <1>6, <2>1 DEF SlotHolds, Serves, OpOf
<1>8. ASSUME NEW s \in Slots, s # r
      PROVE  SlotHolds(calls[s], handlers[s])' /\ (Sends(calls'[s]) => Sends(calls[s]))
  <2>1. PICK c \in Call \cup {NoCall}, k \in Handler \cup {Idle} :
          c = calls[s] /\ k = handlers[s] /\ SlotHolds(c, k)
    BY <1>1 DEF SlotsHold, TypeOK, HandlersTypeOK
  <2>2. PICK d : d = LateCall(c)
    OBVIOUS
  <2>3. handlers'[s] = k
    BY <1>1, <1>3, <1>6, <1>7, <1>8, <2>1, StepGoes
  <2>4. calls'[s] = d
    BY <1>5, <1>8, <2>1, <2>2
  <2>5. SlotHolds(d, k)'
    BY <1>1, <1>2, <2>1, <2>2, SlotOvertaken
  <2>6. Sends(d) => Sends(c)
    BY <2>1, <2>2, LateCallIs DEF Sends, Call
  <2> QED BY <2>1, <2>3, <2>4, <2>5, <2>6
<1>9. g # Idle => Knows(g)'
  <2>1. g # Idle => Knows(handlers[r])'
    BY <1>1, <1>3, <1>6, <1>7, ServeKnows
  <2> QED BY <1>3, <2>1
<1>10. ASSUME g # Idle
       PROVE  /\ g.op = h.op /\ g.user = h.user
              /\ h.op \in {"openConversation", "sendMessage"} \/ h.user # Me => g.peer = h.peer
  BY <1>1, <1>3, <1>6, <1>7, <1>10, ServePeer
<1>11. SlotHolds(calls[r], handlers[r])' /\ (Sends(calls'[r]) => Sends(calls[r]))
  <2>1. CASE calls[r] = NoCall
    <3>1. calls'[r] = NoCall
      BY <1>5, <2>1, LateCallIs
    <3>2. h.user # Me /\ h.peer = Me
      BY <1>4, <1>6, <2>1 DEF SlotHolds, Serves
    <3>3. SlotHolds(NoCall, g)'
      <4>1. g # Idle => g.user # Me /\ g.peer = Me /\ g.op # "scrollBack"
        BY <1>7, <1>10, <3>2
      <4>2. Serves(NoCall, g)'
        BY <4>1 DEF Serves
      <4> QED BY <1>9, <4>2 DEF SlotHolds
    <3> QED BY <1>3, <3>1, <3>3 DEF Sends
  <2>2. CASE calls[r] # NoCall
    <3>1. PICK c \in Call : c = calls[r] /\ c # NoCall
      BY <1>1, <2>2
    <3>2. PICK d \in Call : d = Progress(r, c)
      BY <1>1, <3>1, ProgressIs
    <3>3. SlotHolds(c, h) /\ SlotHolds(c, handlers[r])
      BY <1>3, <1>6, <3>1
    <3>4. /\ d.kind = c.kind /\ d.with = c.with /\ d # NoCall
          /\ g # Idle => d.phase = c.phase
      BY <1>1, <1>3, <3>1, <3>2, ProgressIs DEF Call, NoCall
    <3>5. Serves(d, g)'
      <4>1. c.phase = "sent" /\ h.user = Me /\ h.op = OpOf(c.kind)
            /\ (c.kind \in Reads \cup {"send"} => h.peer = c.with)
        BY <1>4, <3>1, <3>3 DEF SlotHolds, Serves, Call
      <4>2. c.kind \in Reads \cup {"send"} => h.op \in {"openConversation", "sendMessage"}
        BY <4>1 DEF OpOf, Reads
      <4>3. g # Idle => /\ g.user = Me /\ g.op = OpOf(d.kind) /\ d.phase = "sent"
                        /\ d.kind \in Reads \cup {"send"} => g.peer = d.with
        BY <1>10, <3>4, <4>1, <4>2
      <4> QED BY <3>4, <4>3 DEF Serves
    <3>6. ReadHolds(d, g)'
      <4>1. CASE c.kind \in Reads
        <5>1. ReadHolds(d, handlers[r])'
          BY <1>1, <3>1, <3>2, <3>3, <4>1, ServeRead
        <5> QED BY <1>3, <5>1
      <4>2. CASE c.kind \notin Reads
        BY <3>4, <4>2 DEF ReadHolds
      <4> QED BY <4>1, <4>2
    <3>7. SendHolds(d, g)' /\ Shown(ToSet(d.messages))'
      <4>1. CASE c.kind = "send"
        <5>1. SendHolds(d, handlers[r])' /\ Shown(ToSet(d.messages))'
          BY <1>1, <3>1, <3>2, <3>3, <4>1, ServeSend
        <5> QED BY <1>3, <5>1
      <4>2. CASE c.kind # "send"
        <5>1. Shown(ToSet(d.messages))'
          BY <1>1, <3>1, <3>2, <3>3, <4>2, ServeShown
        <5> QED BY <3>4, <4>2, <5>1 DEF SendHolds
      <4> QED BY <4>1, <4>2
    <3>8. SlotHolds(d, g)'
      <4>1. c.kind \in Reads \cup {"send"} => c.with \in Partners
        BY <3>1, <3>3 DEF SlotHolds
      <4> QED BY <1>9, <3>4, <3>5, <3>6, <3>7, <4>1 DEF SlotHolds
    <3>9. calls'[r] = d
      BY <1>5, <2>2, <3>1, <3>2
    <3> QED BY <1>3, <3>1, <3>4, <3>8, <3>9 DEF Sends
  <2> QED BY <2>1, <2>2
<1>12. \A s \in Slots : SlotHolds(calls[s], handlers[s])' /\ (Sends(calls'[s]) => Sends(calls[s]))
  BY <1>8, <1>11
<1>13. SlotsHold'
  BY <1>1, <1>12 DEF SlotsHold
<1> QED BY <1>2, <1>13

\* message:read names rows that are read.
LEMMA ServeThread ==
  ASSUME Typed, turns' \in Nat, ThreadHolds, EventsHold, NEW r \in Slots, Serve(r)
  PROVE  ThreadHolds' /\ EventsHold'
<1>1. /\ MessengerTypeOK /\ TypeOK /\ TypeOK' /\ Numbered /\ SlotsHold
      /\ MessageStep(r) \/ RejectInsert(r)
      /\ events \in Seq(Pushed) /\ thread' = thread /\ Push
  BY ServeTypes DEF Typed, Serve, MessengerTypeOK, panel
<1>2. Onward
  BY <1>1, ServeOnward
<1>3. ThreadHolds'
  <2>1. PICK ms : ms = ToSet(thread.messages)
    OBVIOUS
  <2>2. thread # NoThread => Shown(ms)
    BY <2>1 DEF ThreadHolds
  <2>3. thread # NoThread => Shown(ms)'
    BY <1>1, <1>2, <2>2, ShownStays
  <2> QED BY <1>1, <2>1, <2>3 DEF ThreadHolds
<1>4. Ticked(messages) \subseteq Ticked(messages)'
  <2>1. Ticked(messages) \subseteq Ticked(messages')
    BY <1>1, <1>2, TicksGrow DEF Onward, TypeOK, DatabaseTypeOK
  <2> QED BY <2>1 DEF Ticked
<1>5. ASSUME NEW e \in sent', e.event = "message:read", e.to = Me
      PROVE  e.row \in Ticked(messages)'
  <2>1. handlers[r] \in Handler /\ handlers[r] # Idle
    BY <1>1, StepStarts
  <2>2. Knows(handlers[r])
    BY <1>1, <2>1 DEF SlotsHold, SlotHolds
  <2>3. NotifyRead(r)
    BY <1>1, <1>5
       DEF RejectInsert, MessageStep, ResolveBlock, ResolveFriends, ResolveRequest,
           InsertMessage, SettleReply, NotifyReply, NotifyMessage, InsertOpening, NotifyOpening,
           FindPage, MarkRead, NotifyRead, LoadRequest, AnswerSetStatus, NotifyRequestAccepted,
           Emit, Events, Silent
  <2>4. handlers[r].pc = "notifyRead" /\ handlers[r].peer = Me /\ e.row \in handlers[r].page
    BY <1>5, <2>3 DEF NotifyRead, Emit, Events, At
  <2>5. e.row \in Ticked(messages)
    BY <2>2, <2>4 DEF Knows
  <2> QED BY <1>4, <2>5
<1>6. EventsHold'
  <2>1. ToSet(events') = ToSet(events) \cup
               {EventOf(sent', name) : name \in {n \in PushedNames : Told(sent', n) # {}}}
    BY <1>1, PushType DEF TypeOK, HandlersTypeOK
  <2>2. ASSUME NEW name, EventOf(sent', name).event = "message:read"
        PROVE  EventOf(sent', name).rows \subseteq Ticked(messages)'
    BY <1>5, <2>2 DEF EventOf, Told
  <2> HIDE DEF EventOf
  <2> QED BY <1>4, <2>1, <2>2 DEF EventsHold, EventHolds
<1> QED BY <1>3, <1>6

-----------------------------------------------------------------------------
(* The refreshes in flight, and what they found.                           *)

LEMMA LocalLoads ==
  ASSUME Typed, LocalStep
  PROVE  \/ loads' = loads
         \/ \E kinds \in {refreshCounts, refreshLists, refreshBoth}, awaited \in BOOLEAN :
              Refresh(kinds, awaited)
         \/ ServeLoad \/ LoadArrives \/ LoadFails
<1> DEFINE Refreshes == \E kinds \in {refreshCounts, refreshLists, refreshBoth},
                           awaited \in BOOLEAN : Refresh(kinds, awaited)
<1>1. ASSUME NEW awaited \in BOOLEAN,
             \/ Refresh(refreshCounts, awaited) \/ Refresh(refreshLists, awaited)
             \/ Refresh(refreshBoth, awaited)
      PROVE  Refreshes
  BY <1>1
<1> HIDE DEF Refreshes
<1>2. HandleEvent => loads' = loads \/ Refreshes
  <2> DEFINE e == Head(events)
  <2> SUFFICES ASSUME HandleEvent PROVE loads' = loads \/ Refreshes
    OBVIOUS
  <2>1. \/ loads' = loads
        \/ Refresh(refreshLists, FALSE) \/ Refresh(refreshBoth, FALSE)
    BY DEF HandleEvent, HearMessage, HearAccepted
  <2> QED BY <1>1, <2>1
<1>3. ASSUME NEW r \in Slots, ThreadArrives(r) PROVE loads' = loads \/ Refreshes
  <2>1. \/ loads' = loads \/ Refresh(refreshCounts, FALSE)
        \/ Refresh(refreshLists, FALSE) \/ Refresh(refreshBoth, FALSE)
    BY <1>3 DEF ThreadArrives
  <2> QED BY <1>1, <2>1
<1>4. ASSUME NEW r \in Slots, SendArrives(r) PROVE loads' = loads \/ Refreshes
  BY <1>1, <1>4 DEF SendArrives
<1>5. ASSUME NEW r \in Slots, DecisionArrives(r) PROVE loads' = loads \/ Refreshes
  BY <1>1, <1>5 DEF DecisionArrives
<1>6. RefreshMessenger => Refreshes
  BY <1>1 DEF RefreshMessenger
<1> QED
  BY <1>2, <1>3, <1>4, <1>5, <1>6
     DEF LocalStep, Close, ToggleMessenger, SocketDrops, Settle, OpenConversation, Send, Decide,
         OthersAct, ServeFails, Refreshes

\* A query of a refresh finds what the server says now.
LEMMA QueriedHolds ==
  ASSUME TypeOK, Numbered, NEW l \in Load, LoadHolds(l), NEW what \in l.asks
  PROVE  /\ Queried(l, what) \in Load /\ LoadHolds(Queried(l, what))
         /\ Queried(l, what).kind = l.kind
<1> DEFINE n == Cardinality(CountedUnread(Me))
<1>1. /\ n \in Nat /\ InboxOf(Me) \in SUBSET Users /\ PendingFor(Me) \in SUBSET MessageRequest
      /\ IsFiniteSet(PendingFor(Me))
  BY BadgeParts
<1>2. what \in {"messages", "requests"}
  BY DEF Load
<1> HIDE DEF n
<1>3. CASE what = "messages"
  <2> DEFINE q == [l EXCEPT !.asks = l.asks \ {what}, !.number = n, !.rows = InboxOf(Me)]
  <2>1. Queried(l, what) = q
    BY <1>3 DEF Queried, n
  <2>2. /\ q \in Load /\ q.kind = l.kind /\ q.asks = l.asks \ {what} /\ q.number = n
        /\ q.rows = InboxOf(Me) /\ q.waiting = l.waiting /\ q.late = l.late
    BY <1>1 DEF Load
  <2> HIDE DEF q
  <2> QED BY <1>3, <2>1, <2>2 DEF LoadHolds, n
<1>4. CASE what = "requests"
  <2> DEFINE q == [l EXCEPT !.asks = l.asks \ {what}, !.waiting = PendingFor(Me)]
  <2>1. Queried(l, what) = q
    BY <1>4 DEF Queried
  <2>2. /\ q \in Load /\ q.kind = l.kind /\ q.asks = l.asks \ {what} /\ q.number = l.number
        /\ q.rows = l.rows /\ q.waiting = PendingFor(Me) /\ q.late = l.late
    BY <1>1 DEF Load
  <2> HIDE DEF q
  <2> QED BY <1>1, <1>4, <2>1, <2>2 DEF LoadHolds
<1> QED BY <1>2, <1>3, <1>4

LEMMA ServeLoadIs ==
  ASSUME Typed, ServeLoad
  PROVE  \E k \in DOMAIN loads : \E q \in Load :
           /\ LoadHolds(q) /\ q.kind = loads[k].kind
           /\ loads' = [loads EXCEPT ![k] = q]
<1>1. PICK k \in DOMAIN loads : \E what \in loads[k].asks :
                                loads' = [loads EXCEPT ![k] = Queried(loads[k], what)]
  BY DEF ServeLoad
<1>2. PICK what \in loads[k].asks : loads' = [loads EXCEPT ![k] = Queried(loads[k], what)]
  BY <1>1
<1>3. loads[k] \in Load /\ LoadHolds(loads[k])
  <2>1. loads[k] \in ToSet(loads) /\ loads[k] \in Load
    BY SetOf DEF Typed, MessengerTypeOK
  <2> QED BY <2>1 DEF Typed, LoadsHold
<1>4. /\ Queried(loads[k], what) \in Load /\ LoadHolds(Queried(loads[k], what))
      /\ Queried(loads[k], what).kind = loads[k].kind
  BY <1>3, QueriedHolds DEF Typed
<1> QED BY <1>2, <1>4

LEMMA LoadStays ==
  ASSUME UNCHANGED tables, NEW l, LoadHolds(l)
  PROVE  LoadHolds(l)'
<1>1. /\ CountedUnread(Me)' = CountedUnread(Me)
      /\ InboxOf(Me)' = InboxOf(Me) /\ PendingFor(Me)' = PendingFor(Me)
  BY TruthStays
<1> QED BY <1>1 DEF LoadHolds

LEMMA LoadsLocal ==
  ASSUME Typed, LocalStep
  PROVE  LoadsHold'
<1>1. loads \in Seq(Load) /\ LoadsHold /\ UNCHANGED tables
  BY LocalSlots DEF Typed, MessengerTypeOK
<1>2. SUFFICES ASSUME NEW l \in ToSet(loads') PROVE LoadHolds(l)
  <2>1. \A l \in ToSet(loads') : LoadHolds(l)'
    BY <1>1, <1>2, LoadStays
  <2> QED BY <2>1 DEF LoadsHold
<1>3. CASE l \in ToSet(loads)
  BY <1>1, <1>3 DEF LoadsHold
<1>4. ASSUME NEW kinds \in {refreshCounts, refreshLists, refreshBoth}, NEW awaited \in BOOLEAN,
             Refresh(kinds, awaited), l \notin ToSet(loads)
      PROVE  LoadHolds(l)
  <2>1. l \in {NewLoad(kind, awaited) : kind \in ToSet(kinds)}
    BY <1>1, <1>2, <1>4, RefreshType, RefreshKinds
  <2>2. PICK kind : l = NewLoad(kind, awaited)
    BY <2>1
  <2> QED BY <2>2, FS_EmptySet DEF NewLoad, LoadHolds
<1>5. ASSUME ServeLoad, l \notin ToSet(loads) PROVE LoadHolds(l)
  <2>1. PICK k \in DOMAIN loads : \E q \in Load :
               LoadHolds(q) /\ loads' = [loads EXCEPT ![k] = q]
    BY <1>5, ServeLoadIs
  <2>2. PICK q \in Load : LoadHolds(q) /\ loads' = [loads EXCEPT ![k] = q]
    BY <2>1
  <2>3. l \in ToSet(loads) \cup {q}
    BY <1>2, <2>2 DEF ToSet
  <2> QED BY <1>5, <2>2, <2>3
<1>6. ASSUME LoadArrives \/ LoadFails PROVE l \in ToSet(loads)
  <2>1. PICK k \in DOMAIN loads : loads' = RemoveAt(loads, k)
    BY <1>6 DEF LoadArrives, LoadFails
  <2> QED BY <1>1, <1>2, <2>1, SetOfRemoveAt
<1> QED BY <1>2, <1>3, <1>4, <1>5, <1>6, LocalLoads

\* (BadgeParts as a formula, to be used of the next state.)
LEMMA BadgeNumbers ==
  TypeOK /\ Numbered =>
    Cardinality(CountedUnread(Me)) \in Nat /\ Cardinality(PendingFor(Me)) \in Nat
  BY BadgeParts

\* What a step of the services overtakes is marked late.
LEMMA LoadsOvertaken ==
  ASSUME Typed, TypeOK', Onward, LateLoads
  PROVE  LoadsHold'
<1>1. /\ loads \in Seq(Load) /\ LoadsHold /\ TypeOK /\ Numbered /\ Numbered'
  BY DEF Typed, MessengerTypeOK, Onward
<1>2. ToSet(loads') = {[l EXCEPT !.late = l.late \/ Moved] : l \in ToSet(loads)}
  BY <1>1, LateLoadsType
<1>3. ASSUME ~Moved
      PROVE  /\ Cardinality(CountedUnread(Me))' = Cardinality(CountedUnread(Me))
             /\ InboxOf(Me)' = InboxOf(Me) /\ PendingFor(Me)' = PendingFor(Me)
  <2>1. CASE tables' = tables
    BY <2>1, TruthStays
  <2>2. CASE Listed' = Listed
    <3>1. Badge' = Badge /\ InboxOf(Me)' = InboxOf(Me) /\ PendingFor(Me)' = PendingFor(Me)
      BY <2>2 DEF Listed
    <3> DEFINE a == Cardinality(CountedUnread(Me))
               b == Cardinality(PendingFor(Me))
    <3>2. a \in Nat /\ b \in Nat /\ a' \in Nat /\ b' \in Nat
      <4>1. a \in Nat /\ b \in Nat
        BY <1>1, BadgeParts
      <4>2. (a \in Nat /\ b \in Nat)'
        BY <1>1, BadgeNumbers, PTL
      <4> QED BY <4>1, <4>2
    <3>3. a + b = a' + b' /\ b = b'
      BY <3>1 DEF Badge
    <3> HIDE DEF a, b
    <3>4. a' = a
      BY <3>2, <3>3
    <3> QED BY <3>1, <3>4 DEF a
  <2> QED BY <1>3, <2>1, <2>2 DEF Moved
<1>4. ASSUME NEW l \in ToSet(loads), NEW d, d = [l EXCEPT !.late = l.late \/ Moved]
      PROVE  LoadHolds(d)'
  <2>1. l \in Load /\ LoadHolds(l)
    BY <1>1, <1>4, SetOf DEF LoadsHold
  <2>2. /\ d.kind = l.kind /\ d.asks = l.asks /\ d.number = l.number /\ d.rows = l.rows
        /\ d.waiting = l.waiting /\ (d.late <=> l.late \/ Moved)
    BY <1>4, <2>1 DEF Load
  <2>3. CASE d.late
    BY <2>1, <2>2, <2>3 DEF LoadHolds
  <2>4. CASE ~d.late
    <3>1. ~l.late /\ ~Moved
      BY <2>2, <2>4
    <3> QED BY <1>3, <2>1, <2>2, <3>1 DEF LoadHolds
  <2> QED BY <2>3, <2>4
<1>5. \A d \in ToSet(loads') : LoadHolds(d)'
  BY <1>2, <1>4
<1> QED BY <1>5 DEF LoadsHold

-----------------------------------------------------------------------------
(* What refreshes the badge and the lists, from step to step.              *)

Lost == missed' = {"counts", "lists"}

\* A handler is not disturbed by what the tab does, nor is a call but by its
\* answer.
LEMMA SlotsKept ==
  ASSUME Typed, LocalStep, ~Lost, NEW s \in Slots
  PROVE  /\ handlers[s].pc # "idle" => handlers'[s] = handlers[s]
         /\ \/ calls[s] = NoCall \/ calls'[s] = calls[s]
            \/ Answered(s) /\ (ThreadArrives(s) \/ SendArrives(s) \/ DecisionArrives(s))
<1>1. calls \in [Slots -> Call \cup {NoCall}] /\ handlers \in [Slots -> Handler \cup {Idle}]
  BY DEF Typed, MessengerTypeOK, TypeOK, HandlersTypeOK
<1> DEFINE Kept == /\ handlers[s].pc # "idle" => handlers'[s] = handlers[s]
                   /\ calls[s] = NoCall \/ calls'[s] = calls[s]
<1>2. ASSUME NEW r \in Slots, NEW op, NEW pc, NEW u, NEW v, NEW row, Receive(r, op, pc, u, v, row)
      PROVE  handlers[s].pc # "idle" => handlers'[s] = handlers[s]
  BY <1>1, <1>2 DEF Receive, At
<1>3. ASSUME NEW r \in Slots, NEW kind, NEW u, NEW cs, GetThread(r, kind, u, cs)
      PROVE  /\ handlers[s].pc # "idle" => handlers'[s] = handlers[s]
             /\ cs \in [Slots -> Call \cup {NoCall}] => cs[s] = NoCall \/ calls'[s] = cs[s]
  BY <1>2, <1>3 DEF GetThread
<1>4. CASE \/ Close \/ ToggleMessenger \/ LoadFails \/ ServeLoad \/ LoadArrives
  BY <1>4 DEF Close, ToggleMessenger, LoadFails, ServeLoad, LoadArrives
<1>5. ~SocketDrops /\ \A r \in Slots : ~ServeFails(r)
  BY DEF SocketDrops, ServeFails, Lost
<1>6. ASSUME \/ NoReread \/ \E kind : Reread(kind) PROVE Kept
  BY <1>1, <1>3, <1>6 DEF NoReread, Reread
<1>7. CASE HandleEvent
  <2>1. \/ NoReread \/ Reread("arrival") \/ Reread("refresh") \/ Reread("accepted")
    BY <1>7 DEF HandleEvent, HearMessage, HearAccepted
  <2> QED BY <1>6, <2>1
<1>8. CASE RefreshMessenger
  BY <1>6, <1>8 DEF RefreshMessenger
<1>9. CASE Settle
  <2>1. NoReread \/ Reread("afterAccept")
    BY <1>9 DEF Settle, NoReread, Reread
  <2> QED BY <1>6, <2>1
<1>10. ASSUME NEW r \in Slots, OpenConversation(r) PROVE Kept
  BY <1>1, <1>3, <1>10 DEF OpenConversation
<1>11. ASSUME NEW r \in Slots, Send(r) PROVE Kept
  BY <1>1, <1>2, <1>11 DEF Send, Free
<1>12. ASSUME NEW r \in Slots, Decide(r) PROVE Kept
  BY <1>1, <1>2, <1>12 DEF Decide, Free
<1>13. ASSUME NEW r \in Slots, OthersAct(r) PROVE Kept
  BY <1>1, <1>2, <1>13 DEF OthersAct, SendMessage, GetConversation, AnswerRequest
<1>14. ASSUME NEW r \in Slots, ThreadArrives(r) \/ DecisionArrives(r)
       PROVE  /\ handlers'[s] = handlers[s]
              /\ s # r => calls'[s] = calls[s]
              /\ Answered(r)
  BY <1>1, <1>14 DEF ThreadArrives, DecisionArrives, Hangup
<1>15. ASSUME NEW r \in Slots, SendArrives(r)
       PROVE  /\ handlers[s].pc # "idle" => handlers'[s] = handlers[s]
              /\ s # r => calls[s] = NoCall \/ calls'[s] = calls[s]
              /\ Answered(r)
  <2>1. Hangup(r) \in [Slots -> Call \cup {NoCall}] /\ (s # r => Hangup(r)[s] = calls[s])
    BY <1>1 DEF Hangup
  <2>2. \/ \E k \in Slots : \E kind, u : GetThread(k, kind, u, Hangup(r))
        \/ UNCHANGED handlers /\ calls' = Hangup(r)
    BY <1>15 DEF SendArrives, Correction
  <2>3. Answered(r)
    BY <1>15 DEF SendArrives
  <2> HIDE DEF Hangup
  <2> QED BY <1>3, <2>1, <2>2, <2>3
<1> QED
  BY <1>4, <1>5, <1>7, <1>8, <1>9, <1>10, <1>11, <1>12, <1>13, <1>14, <1>15 DEF LocalStep

\* A refresh in flight, by its kind.
LEMMA RefreshOwes ==
  ASSUME loads \in Seq(Load), NEW awaited \in BOOLEAN
  PROVE  /\ Refresh(refreshCounts, awaited) => \E l \in ToSet(loads') : l.kind = "counts"
         /\ Refresh(refreshLists, awaited) => \E l \in ToSet(loads') : l.kind = "lists"
         /\ Refresh(refreshBoth, awaited) =>
              /\ \E l \in ToSet(loads') : l.kind = "counts"
              /\ \E l \in ToSet(loads') : l.kind = "lists"
<1>1. ASSUME NEW kinds \in {refreshCounts, refreshLists, refreshBoth}, Refresh(kinds, awaited),
             NEW kind \in ToSet(kinds)
      PROVE  \E l \in ToSet(loads') : l.kind = kind
  <2>1. NewLoad(kind, awaited) \in ToSet(loads')
    BY <1>1, RefreshType, RefreshKinds
  <2> QED BY <2>1 DEF NewLoad
<1> QED BY <1>1, RefreshKinds

LEMMA LoadsKept ==
  ASSUME Typed, LocalStep, NEW l \in ToSet(loads)
  PROVE  \/ \E k \in ToSet(loads') : k.kind = l.kind
         \/ (LoadArrives \/ LoadFails) /\ \E k \in DOMAIN loads : 
              /\ loads[k].kind = l.kind /\ loads' = RemoveAt(loads, k)
<1>1. loads \in Seq(Load)
  BY DEF Typed, MessengerTypeOK
<1>2. ASSUME NEW kinds \in {refreshCounts, refreshLists, refreshBoth}, NEW awaited \in BOOLEAN,
             Refresh(kinds, awaited)
      PROVE  l \in ToSet(loads')
  BY <1>1, <1>2, RefreshType, RefreshKinds
<1>3. ASSUME ServeLoad PROVE \E k \in ToSet(loads') : k.kind = l.kind
  <2>1. PICK k \in DOMAIN loads : \E q \in Load :
               q.kind = loads[k].kind /\ loads' = [loads EXCEPT ![k] = q]
    BY <1>3, ServeLoadIs
  <2>2. PICK q \in Load : q.kind = loads[k].kind /\ loads' = [loads EXCEPT ![k] = q]
    BY <2>1
  <2>3. PICK j \in DOMAIN loads : l = loads[j]
    BY DEF ToSet
  <2>4. j \in DOMAIN loads' /\ loads'[j] = IF j = k THEN q ELSE loads[j]
    BY <2>2
  <2>5. loads'[j].kind = l.kind
    BY <2>2, <2>3, <2>4
  <2> QED BY <2>4, <2>5 DEF ToSet
<1>4. ASSUME LoadArrives \/ LoadFails, NEW k \in DOMAIN loads, loads' = RemoveAt(loads, k)
      PROVE  l \in ToSet(loads') \/ loads[k].kind = l.kind
  <2>1. ToSet(loads) = {loads[k]} \cup ToSet(loads')
    BY <1>1, <1>4, SetOfRemoveAt
  <2> QED BY <2>1
<1>5. LoadArrives \/ LoadFails => \E k \in DOMAIN loads : loads' = RemoveAt(loads, k)
  BY DEF LoadArrives, LoadFails
<1> QED BY <1>2, <1>3, <1>4, <1>5, LocalLoads

\* An event that asks for a refresh is waiting, or has been heard.
LEMMA EventHeard ==
  ASSUME Typed, LocalStep, ~Lost, NEW e \in ToSet(events), e.event \in Refreshers
  PROVE  CountsOwed' /\ ListsOwed'
<1>1. /\ events \in Seq(Pushed) /\ loads \in Seq(Load) /\ MessengerTypeOK
  BY DEF Typed, MessengerTypeOK
<1>2. CASE e \in ToSet(events')
  BY <1>2 DEF CountsOwed, ListsOwed, Owed
<1>3. CASE e \notin ToSet(events')
  <2>1. HandleEvent
    <3>1. ~SocketDrops
      BY DEF SocketDrops, Lost
    <3> QED
      BY <1>3, <3>1
         DEF LocalStep, Close, ToggleMessenger, LoadFails, ServeLoad, LoadArrives, Settle,
             RefreshMessenger, OpenConversation, Send, Decide, OthersAct, ServeFails,
             ThreadArrives, SendArrives, DecisionArrives
  <2>2. e = Head(events)
    <3>1. ToSet(events) = {Head(events)} \cup ToSet(Tail(events)) /\ events' = Tail(events)
      BY <1>1, <2>1, SetOfTail DEF HandleEvent
    <3> QED BY <1>3, <3>1
  <2>3. \/ Refresh(refreshBoth, FALSE)
        \/ Refresh(refreshLists, FALSE) /\ partner # Nobody /\ Reread("arrival")
    <3>1. CASE e.event = "message:received"
      BY <2>1, <2>2, <3>1 DEF HandleEvent, HearMessage
    <3>2. CASE e.event = "message:request_received"
      BY <2>1, <2>2, <3>2 DEF HandleEvent
    <3>3. CASE e.event = "friend:request_accepted"
      BY <2>1, <2>2, <3>3 DEF HandleEvent, HearAccepted
    <3> QED BY <3>1, <3>2, <3>3 DEF Refreshers
  <2>4. CASE Refresh(refreshBoth, FALSE)
    BY <1>1, <2>4, RefreshOwes DEF CountsOwed, ListsOwed
  <2>5. CASE Refresh(refreshLists, FALSE) /\ partner # Nobody /\ Reread("arrival")
    <3>1. ListsOwed'
      BY <1>1, <2>5, RefreshOwes DEF ListsOwed
    <3>2. PICK s \in Slots : calls' = [calls EXCEPT ![s] = NewCall("arrival", partner)]
      BY <2>5 DEF Reread, GetThread
    <3>3. calls'[s] = NewCall("arrival", partner)
      BY <1>1, <3>2 DEF MessengerTypeOK
    <3>4. calls'[s] # NoCall /\ calls'[s].kind = "arrival"
      BY <3>3 DEF NewCall, NoCall
    <3> QED BY <3>1, <3>4 DEF CountsOwed
  <2> QED BY <2>3, <2>4, <2>5
<1> QED BY <1>2, <1>3

\* What is owed to both stays so until the refreshes are on their way.
LEMMA OwedLocal ==
  ASSUME Typed, LocalStep, ~Lost, Owed
  PROVE  CountsOwed' /\ ListsOwed'
<1>1. /\ loads \in Seq(Load) /\ MessengerTypeOK /\ SlotsHold
      /\ handlers \in [Slots -> Handler \cup {Idle}]
  BY DEF Typed, MessengerTypeOK, TypeOK, HandlersTypeOK
<1>2. SUFFICES \/ Owed' \/ \E awaited \in BOOLEAN : Refresh(refreshBoth, awaited)
               \/ CountsOwed' /\ ListsOwed'
  BY <1>1, RefreshOwes DEF CountsOwed, ListsOwed
<1>3. ASSUME NEW s \in Slots, handlers[s].pc \in Stored, handlers[s].peer = Me PROVE Owed'
  <2>1. handlers'[s] = handlers[s]
    BY <1>3, SlotsKept DEF Stored
  <2> QED BY <1>3, <2>1 DEF Owed
<1>4. ASSUME NEW s \in Slots, Decided(s), ~Owed'
      PROVE  \E awaited \in BOOLEAN : Refresh(refreshBoth, awaited)
  <2>1. calls[s] # NoCall /\ calls[s].kind \in {"accept", "decline"}
    BY <1>4 DEF Decided
  <2>2. CASE At(s, "notifyRequestAccepted")
    <3>1. handlers[s] # Idle /\ calls[s].phase = "sent"
      <4>1. handlers[s] # Idle
        BY <2>2 DEF At, Idle
      <4> QED BY <1>1, <2>1, <4>1 DEF SlotsHold, SlotHolds, Serves
    <3>2. calls'[s] = calls[s] /\ handlers'[s] = handlers[s]
      BY <2>1, <2>2, <3>1, SlotsKept DEF At, Answered
    <3> QED BY <1>4, <2>1, <2>2, <3>2 DEF Owed, Decided, At
  <2>3. CASE calls[s].phase = "ok"
    <3>1. calls'[s] # calls[s]
      BY <1>4, <2>1, <2>3 DEF Owed, Decided
    <3>2. DecisionArrives(s)
      BY <2>1, <3>1, SlotsKept DEF ThreadArrives, SendArrives
    <3> QED BY <2>3, <3>2 DEF DecisionArrives
  <2> QED BY <1>4, <2>2, <2>3 DEF Decided
<1>5. ASSUME settling = "page", ~Owed'
      PROVE  \E awaited \in BOOLEAN : Refresh(refreshBoth, awaited)
  <2>1. settling' # "page"
    BY <1>5 DEF Owed
  <2>2. CASE RefreshMessenger
    BY <2>2 DEF RefreshMessenger
  <2>3. CASE \E r \in Slots : DecisionArrives(r)
    BY <1>5, <2>1, <2>3 DEF DecisionArrives
  <2> QED
    BY <1>5, <2>1, <2>2, <2>3
       DEF LocalStep, Close, ToggleMessenger, LoadFails, ServeLoad, LoadArrives, Settle,
           HandleEvent, SocketDrops, OpenConversation, Send, Decide, OthersAct, ServeFails,
           ThreadArrives, SendArrives
<1> QED BY <1>2, <1>3, <1>4, <1>5, EventHeard DEF Owed

LEMMA MissedKept ==
  ASSUME Typed, LocalStep, ~Lost, ~LoadArrives
  PROVE  missed \subseteq missed' /\ UNCHANGED lists
<1>1. ~SocketDrops /\ \A r \in Slots : ~ServeFails(r)
  BY DEF SocketDrops, ServeFails, Lost
<1> QED
  BY <1>1
     DEF LocalStep, Close, ToggleMessenger, LoadFails, ServeLoad, Settle, RefreshMessenger,
         HandleEvent, OpenConversation, Send, Decide, OthersAct,
         ThreadArrives, SendArrives, DecisionArrives, lists, history

LEMMA CountsLocal ==
  ASSUME Typed, CountsHold, LocalStep
  PROVE  CountsHold'
<1>1. /\ loads \in Seq(Load) /\ MessengerTypeOK /\ SlotsHold /\ LoadsHold
      /\ UNCHANGED tables
  BY LocalSlots DEF Typed, MessengerTypeOK
<1>2. SUFFICES ASSUME ~Lost PROVE CountsHold'
  BY DEF CountsHold, Lost
<1>3. Badge' = Badge
  BY <1>1, TruthStays DEF Badge
<1>4. CASE LoadArrives
  <2>1. PICK k \in DOMAIN loads :
        LET l == loads[k] IN
        /\ l.asks = {}
        /\ IF l.kind = "counts"
             THEN /\ counts' = [messages |-> l.number, requests |-> Cardinality(l.waiting)]
                  /\ UNCHANGED <<conversations, requests>>
             ELSE conversations' = l.rows /\ requests' = l.waiting /\ UNCHANGED counts
        /\ missed' = IF l.late THEN missed \cup {l.kind} ELSE missed \ {l.kind}
        /\ loads' = RemoveAt(loads, k)
        /\ Silent /\ UNCHANGED <<tables, handlers, panel, calls, settling, events, stale>>
    BY <1>4 DEF LoadArrives
  <2>2. PICK l \in Load : l = loads[k]
    BY <1>1, SetOf
  <2>3. LoadHolds(l)
    <3>1. l \in ToSet(loads)
      BY <1>1, <2>2, SetOf
    <3> QED BY <1>1, <3>1 DEF LoadsHold
  <2>4. CASE l.kind = "counts"
    <3>1. CASE l.late
      BY <2>1, <2>2, <2>4, <3>1 DEF CountsHold
    <3>2. CASE ~l.late
      <4>1. l.number = Cardinality(CountedUnread(Me)) /\ l.waiting = PendingFor(Me)
        BY <2>1, <2>2, <2>3, <3>2 DEF LoadHolds
      <4>2. counts'.messages + counts'.requests = Badge
        BY <2>1, <2>2, <2>4, <4>1 DEF Badge
      <4>3. Badge \in Nat
        BY BadgeNumbers DEF Typed, Badge
      <4> QED BY <1>3, <4>2, <4>3 DEF CountsHold
    <3> QED BY <3>1, <3>2
  <2>5. CASE l.kind # "counts"
    <3>1. ToSet(loads) = {l} \cup ToSet(loads')
      BY <1>1, <2>1, <2>2, SetOfRemoveAt
    <3>2. /\ UNCHANGED <<counts, events, handlers, calls, settling>>
          /\ "counts" \in missed => "counts" \in missed'
      BY <2>1, <2>2, <2>5
    <3>3. CountsOwed => CountsOwed'
      BY <2>5, <3>1, <3>2 DEF CountsOwed, Owed, Decided, At
    <3> QED BY <1>3, <3>2, <3>3 DEF CountsHold
  <2> QED BY <2>4, <2>5
<1>5. CASE ~LoadArrives
  <2>1. missed \subseteq missed' /\ counts' = counts
    BY <1>2, <1>5, MissedKept DEF lists
  <2>2. CASE "counts" \in missed
    BY <2>1, <2>2 DEF CountsHold
  <2>3. CASE Owed
    BY <1>2, <2>3, OwedLocal DEF CountsHold
  <2>4. ASSUME NEW l \in ToSet(loads), l.kind = "counts" PROVE CountsHold'
    <3>1. CASE \E k \in ToSet(loads') : k.kind = "counts"
      BY <3>1 DEF CountsHold, CountsOwed
    <3>2. CASE ~ \E k \in ToSet(loads') : k.kind = "counts"
      <4>1. LoadFails /\ \E k \in DOMAIN loads :
              loads[k].kind = "counts" /\ loads' = RemoveAt(loads, k)
        BY <1>5, <2>4, <3>2, LoadsKept
      <4>2. PICK j \in DOMAIN loads : missed' = missed \cup {loads[j].kind}
                                     /\ loads' = RemoveAt(loads, j)
        BY <4>1 DEF LoadFails
      <4>3. ToSet(loads) = {loads[j]} \cup ToSet(loads')
        BY <1>1, <4>2, SetOfRemoveAt
      <4>4. loads[j].kind = "counts"
        BY <2>4, <3>2, <4>3
      <4> QED BY <4>2, <4>4 DEF CountsHold
    <3> QED BY <3>1, <3>2
  <2>5. ASSUME NEW r \in Slots, calls[r] # NoCall, calls[r].kind = "arrival" PROVE CountsHold'
    <3>1. CASE calls'[r] = calls[r]
      BY <2>5, <3>1 DEF CountsHold, CountsOwed
    <3>2. CASE calls'[r] # calls[r]
      <4>1. ThreadArrives(r)
        BY <1>2, <2>5, <3>2, SlotsKept DEF SendArrives, DecisionArrives
      <4>2. Refresh(refreshCounts, FALSE)
        BY <2>5, <4>1 DEF ThreadArrives
      <4> QED BY <1>1, <4>2, RefreshOwes DEF CountsHold, CountsOwed
    <3> QED BY <3>1, <3>2
  <2>6. CASE Badge <= counts.messages + counts.requests
    BY <1>3, <2>1, <2>6 DEF CountsHold
  <2> QED BY <2>2, <2>3, <2>4, <2>5, <2>6 DEF CountsHold, CountsOwed
<1> QED BY <1>4, <1>5

\* The lists, likewise.
LEMMA ListsLocal ==
  ASSUME Typed, ListsHold, LocalStep
  PROVE  ListsHold'
<1>1. /\ loads \in Seq(Load) /\ MessengerTypeOK /\ SlotsHold /\ LoadsHold
      /\ UNCHANGED tables
      /\ calls \in [Slots -> Call \cup {NoCall}]
  BY LocalSlots DEF Typed, MessengerTypeOK
<1>2. SUFFICES ASSUME ~Lost PROVE ListsHold'
  BY DEF ListsHold, Lost
<1>3. InboxOf(Me)' = InboxOf(Me) /\ PendingFor(Me)' = PendingFor(Me)
  BY <1>1, TruthStays
<1>4. CASE LoadArrives
  <2>1. PICK k \in DOMAIN loads :
        LET l == loads[k] IN
        /\ l.asks = {}
        /\ IF l.kind = "counts"
             THEN /\ counts' = [messages |-> l.number, requests |-> Cardinality(l.waiting)]
                  /\ UNCHANGED <<conversations, requests>>
             ELSE conversations' = l.rows /\ requests' = l.waiting /\ UNCHANGED counts
        /\ missed' = IF l.late THEN missed \cup {l.kind} ELSE missed \ {l.kind}
        /\ loads' = RemoveAt(loads, k)
        /\ Silent /\ UNCHANGED <<tables, handlers, panel, calls, settling, events, stale>>
    BY <1>4 DEF LoadArrives
  <2>2. PICK l \in Load : l = loads[k]
    BY <1>1, SetOf
  <2>3. LoadHolds(l)
    <3>1. l \in ToSet(loads)
      BY <1>1, <2>2, SetOf
    <3> QED BY <1>1, <3>1 DEF LoadsHold
  <2>4. CASE l.kind = "lists"
    <3>1. CASE l.late
      BY <2>1, <2>2, <2>4, <3>1 DEF ListsHold
    <3>2. CASE ~l.late
      <4>1. l.rows = InboxOf(Me) /\ l.waiting = PendingFor(Me)
        BY <2>1, <2>2, <2>3, <3>2 DEF LoadHolds
      <4>2. conversations' = InboxOf(Me) /\ requests' = PendingFor(Me)
        BY <2>1, <2>2, <2>4, <4>1
      <4> QED BY <1>3, <4>2 DEF ListsHold
    <3> QED BY <3>1, <3>2
  <2>5. CASE l.kind # "lists"
    <3>1. ToSet(loads) = {l} \cup ToSet(loads')
      BY <1>1, <2>1, <2>2, SetOfRemoveAt
    <3>2. /\ UNCHANGED <<conversations, requests, events, handlers, calls, settling>>
          /\ "lists" \in missed => "lists" \in missed'
      <4>1. l.kind = "counts"
        BY <2>5 DEF Load
      <4> QED BY <2>1, <2>2, <4>1
    <3>3. ListsOwed => ListsOwed'
      BY <2>5, <3>1, <3>2 DEF ListsOwed, Owed, Decided, At
    <3> QED BY <1>3, <3>2, <3>3 DEF ListsHold
  <2> QED BY <2>4, <2>5
<1>5. CASE ~LoadArrives
  <2>1. missed \subseteq missed' /\ UNCHANGED <<conversations, requests>>
    BY <1>2, <1>5, MissedKept DEF lists
  <2>2. CASE "lists" \in missed
    BY <2>1, <2>2 DEF ListsHold
  <2>3. CASE Owed
    BY <1>2, <2>3, OwedLocal DEF ListsHold
  <2>4. ASSUME NEW l \in ToSet(loads), l.kind = "lists" PROVE ListsHold'
    <3>1. CASE \E k \in ToSet(loads') : k.kind = "lists"
      BY <3>1 DEF ListsHold, ListsOwed
    <3>2. CASE ~ \E k \in ToSet(loads') : k.kind = "lists"
      <4>1. LoadFails
        BY <1>5, <2>4, <3>2, LoadsKept
      <4>2. PICK j \in DOMAIN loads : missed' = missed \cup {loads[j].kind}
                                     /\ loads' = RemoveAt(loads, j)
        BY <4>1 DEF LoadFails
      <4>3. ToSet(loads) = {loads[j]} \cup ToSet(loads')
        BY <1>1, <4>2, SetOfRemoveAt
      <4>4. loads[j].kind = "lists"
        BY <2>4, <3>2, <4>3
      <4> QED BY <4>2, <4>4 DEF ListsHold
    <3> QED BY <3>1, <3>2
  <2>5. ASSUME NEW r \in Slots, calls[r] # NoCall, calls[r].kind = "afterSend" PROVE ListsHold'
    <3>1. CASE calls'[r] = calls[r]
      BY <2>5, <3>1 DEF ListsHold, ListsOwed
    <3>2. CASE calls'[r] # calls[r]
      <4>1. ThreadArrives(r) /\ Answered(r)
        BY <1>2, <2>5, <3>2, SlotsKept DEF SendArrives, DecisionArrives
      <4>2. calls[r].phase \in {"ok", "failed"}
        BY <1>1, <2>5, <4>1 DEF Answered, Call
      <4>3. CASE calls[r].phase = "ok"
        <5>1. Refresh(refreshLists, FALSE)
          BY <2>5, <4>1, <4>3 DEF ThreadArrives
        <5> QED BY <1>1, <5>1, RefreshOwes DEF ListsHold, ListsOwed
      <4>4. CASE calls[r].phase = "failed"
        BY <2>5, <4>1, <4>4 DEF ThreadArrives, ListsHold
      <4> QED BY <4>2, <4>3, <4>4
    <3> QED BY <3>1, <3>2
  <2>6. ASSUME NEW r \in Slots, calls[r] # NoCall, calls[r].kind = "send",
               calls[r].phase = "ok" \/ handlers[r].pc \in Stored
        PROVE  ListsHold'
    <3>1. CASE calls'[r] = calls[r]
      <4>1. handlers[r].pc \in Stored => handlers'[r] = handlers[r]
        BY <1>2, SlotsKept DEF Stored
      <4> QED BY <2>6, <3>1, <4>1 DEF ListsHold, ListsOwed
    <3>2. CASE calls'[r] # calls[r]
      <4>1. SendArrives(r) /\ Answered(r)
        BY <1>2, <2>6, <3>2, SlotsKept DEF ThreadArrives, DecisionArrives
      <4>2. calls[r].phase = "ok"
        <5>1. handlers[r] = Idle
          BY <1>1, <4>1 DEF Answered, SlotsHold, SlotHolds, Serves
        <5> QED BY <2>6, <5>1 DEF Idle, Stored
      <4>3. CASE calls[r].first
        <5>1. PICK s \in Slots, cs \in [Slots -> Call \cup {NoCall}] :
                GetThread(s, "afterSend", calls[r].with, cs)
          BY <1>1, <4>1, <4>2, <4>3, HangupType DEF SendArrives
        <5>2. calls'[s] = NewCall("afterSend", calls[r].with)
          BY <5>1 DEF GetThread
        <5>3. calls'[s] # NoCall /\ calls'[s].kind = "afterSend"
          BY <5>2 DEF NewCall, NoCall
        <5> QED BY <5>3 DEF ListsHold, ListsOwed
      <4>4. CASE ~calls[r].first
        <5>1. Refresh(refreshLists, FALSE)
          BY <4>1, <4>2, <4>4 DEF SendArrives
        <5> QED BY <1>1, <5>1, RefreshOwes DEF ListsHold, ListsOwed
      <4> QED BY <4>3, <4>4
    <3> QED BY <3>1, <3>2
  <2>7. CASE InboxOf(Me) \subseteq conversations /\ PendingFor(Me) \subseteq requests
    BY <1>3, <2>1, <2>7 DEF ListsHold
  <2> QED BY <2>2, <2>3, <2>4, <2>5, <2>6, <2>7 DEF ListsHold, ListsOwed
<1> QED BY <1>4, <1>5

\* The kinds of the refreshes and the calls outlive what overtakes them.
LEMMA LoadKindsKept ==
  ASSUME MessengerTypeOK, LateLoads, NEW l \in ToSet(loads)
  PROVE  \E k \in ToSet(loads') : k.kind = l.kind
<1>1. loads \in Seq(Load)
  BY DEF MessengerTypeOK
<1>2. PICK d : d = [l EXCEPT !.late = l.late \/ Moved]
  OBVIOUS
<1>3. d \in ToSet(loads')
  BY <1>1, <1>2, LateLoadsType
<1>4. d.kind = l.kind
  BY <1>1, <1>2, SetOf DEF Load
<1> QED BY <1>3, <1>4

LEMMA CallKindsKept ==
  ASSUME MessengerTypeOK, NEW s \in Slots, calls[s] # NoCall
  PROVE  /\ LateCall(calls[s]) # NoCall
         /\ LateCall(calls[s]).kind = calls[s].kind
         /\ LateCall(calls[s]).phase = calls[s].phase
<1>1. PICK c, d : c \in Call \cup {NoCall} /\ c = calls[s] /\ d = LateCall(c)
  BY DEF MessengerTypeOK
<1>2. c # NoCall => c \in Call /\ d # NoCall /\ d \in {c, [c EXCEPT !.late = TRUE]}
  BY <1>1, LateCallIs
<1>3. c # NoCall => d.kind = c.kind /\ d.phase = c.phase
  BY <1>2 DEF Call
<1> QED BY <1>1, <1>2, <1>3

\* Where a handler that has stored a message for Me, or accepted for Me, ends.
LEMMA ServeOwed ==
  ASSUME Typed, turns' \in Nat, NEW r \in Slots, Serve(r)
  PROVE  /\ Owed => Owed'
         /\ CountsOwed => CountsOwed'
         /\ ListsOwed => ListsOwed'
<1>1. /\ MessengerTypeOK /\ TypeOK /\ TypeOK' /\ Numbered /\ SlotsHold
      /\ MessageStep(r) \/ RejectInsert(r)
      /\ calls \in [Slots -> Call \cup {NoCall}] /\ events \in Seq(Pushed)
      /\ Push /\ LateLoads /\ UNCHANGED settling
  BY ServeTypes DEF Typed, Serve, MessengerTypeOK
<1>2. PICK h \in Handler, g \in Handler \cup {Idle} : h = handlers[r] /\ g = handlers'[r]
  BY <1>1, StepStarts DEF TypeOK, HandlersTypeOK
<1>3. h # Idle /\ SlotHolds(calls[r], h) /\ Knows(h) /\ h.op # "scrollBack"
      /\ (calls[r] # NoCall => calls[r].phase = "sent" /\ h.op = OpOf(calls[r].kind))
  <2>1. h # Idle /\ SlotHolds(calls[r], h)
    BY <1>1, <1>2, StepStarts DEF SlotsHold
  <2>2. calls[r] # NoCall => calls[r].phase = "sent" /\ h.op = OpOf(calls[r].kind)
    BY <2>1 DEF SlotHolds, Serves
  <2> QED BY <2>1, <2>2 DEF SlotHolds, Serves, OpOf
<1>4. /\ \A s \in Slots \ {r} : handlers'[s] = handlers[s]
      /\ g # Idle => /\ g.pc \in Goes(h) /\ g.op = h.op
                     /\ h.pc # "loadRequest" => g.peer = h.peer
  BY <1>1, <1>2, <1>3, StepGoes
<1>5. ASSUME NEW s \in Slots, calls[s] # NoCall
      PROVE  /\ calls'[s] # NoCall /\ calls'[s].kind = calls[s].kind
             /\ s # r => calls'[s].phase = calls[s].phase
             /\ s = r /\ g = Idle /\ ~At(r, "findPage") =>
                  calls'[s].phase = IF Succeeds(r) THEN "ok" ELSE "failed"
  <2>1. CASE s # r
    BY <1>1, <1>5, <2>1, CallKindsKept DEF Serve
  <2>2. CASE s = r
    <3>1. PICK d \in Call : d = Progress(r, calls[r])
      BY <1>1, <1>5, <2>2, ProgressIs
    <3>2. calls'[r] = d
      BY <1>5, <2>2, <3>1 DEF Serve
    <3>3. /\ d.kind = calls[r].kind /\ d # NoCall
          /\ g = Idle /\ ~At(r, "findPage") =>
               d.phase = IF Succeeds(r) THEN "ok" ELSE "failed"
      BY <1>1, <1>2, <1>5, <2>2, <3>1, ProgressIs DEF Call, NoCall
    <3> QED BY <2>2, <3>2, <3>3
  <2> QED BY <2>1, <2>2
<1>6. /\ ToSet(events) \subseteq ToSet(events')
      /\ \A name \in PushedNames : Told(sent', name) # {} => EventOf(sent', name) \in ToSet(events')
  BY <1>1, PushType DEF TypeOK, HandlersTypeOK
<1>7. ASSUME h.pc \in Stored, h.peer = Me PROVE Owed'
  <2>1. ASSUME NEW name \in {"message:received", "message:request_received"}, NEW e \in sent',
               e.event = name, e.to = Me
        PROVE  Owed'
    <3>1. EventOf(sent', name) \in ToSet(events')
      BY <1>6, <2>1 DEF Told, PushedNames
    <3>2. EventOf(sent', name).event = name
      BY DEF EventOf
    <3> QED BY <2>1, <3>1, <3>2 DEF Owed, Refreshers
  <2>2. CASE h.pc = "settleReply"
    <3>1. SettleReply(r)
      BY <1>1, <1>2, <2>2, StepAt DEF At, MessageSteps
    <3>2. g.pc \in {"notifyReply", "notifyMessage"}
      BY <1>1, <1>2, <3>1 DEF SettleReply, Goto, Handler, TypeOK, HandlersTypeOK
    <3>3. g.peer = Me
      BY <1>4, <1>7, <2>2, <3>2 DEF Idle
    <3> QED BY <1>2, <3>2, <3>3 DEF Owed, Stored
  <2>3. CASE h.pc \in {"notifyReply", "notifyMessage"}
    <3>1. NotifyReply(r) \/ NotifyMessage(r)
      BY <1>1, <1>2, <2>3, StepAt DEF At, MessageSteps
    <3> DEFINE e == [event |-> "message:received", to |-> Me, row |-> h.row]
    <3>2. e \in sent'
      BY <1>2, <1>7, <3>1 DEF NotifyReply, NotifyMessage, Emit, Events
    <3> QED BY <2>1, <3>2
  <2>4. CASE h.pc = "notifyOpening"
    <3>1. NotifyOpening(r)
      BY <1>1, <1>2, <2>4, StepAt DEF At, MessageSteps
    <3> DEFINE e == [event |-> "message:request_received", to |-> Me, row |-> h.row]
    <3>2. e \in sent'
      BY <1>2, <1>7, <3>1 DEF NotifyOpening, Emit, Events
    <3> QED BY <2>1, <3>2
  <2> QED BY <1>7, <2>2, <2>3, <2>4 DEF Stored
<1>8. ASSUME NEW s \in Slots, Decided(s) PROVE Decided(s)'
  <2>1. calls[s] # NoCall /\ calls[s].kind \in {"accept", "decline"}
    BY <1>8 DEF Decided
  <2>2. CASE s # r
    <3>1. calls'[s] # NoCall /\ calls'[s].kind = calls[s].kind /\ calls'[s].phase = calls[s].phase
          /\ handlers'[s] = handlers[s]
      BY <1>4, <1>5, <2>1, <2>2
    <3> QED BY <1>8, <3>1 DEF Decided, At
  <2>3. CASE s = r
    <3>1. h.pc = "notifyRequestAccepted"
      BY <1>2, <1>3, <1>8, <2>3 DEF Decided, At
    <3>2. g = Idle
      BY <1>4, <3>1 DEF Goes
    <3>3. calls'[r].phase = "ok" /\ calls'[r] # NoCall /\ calls'[r].kind = calls[r].kind
      BY <1>2, <1>5, <2>1, <2>3, <3>1, <3>2 DEF At, Succeeds
    <3> QED BY <2>1, <2>3, <3>3 DEF Decided
  <2> QED BY <2>2, <2>3
<1>9. ASSUME NEW s \in Slots, handlers[s].pc \in Stored, handlers[s].peer = Me PROVE Owed'
  <2>1. CASE s = r
    BY <1>2, <1>7, <1>9, <2>1
  <2>2. CASE s # r
    BY <1>4, <1>9, <2>2 DEF Owed
  <2> QED BY <2>1, <2>2
<1>10. Owed => Owed'
  BY <1>1, <1>6, <1>8, <1>9 DEF Owed
<1>11. \A l \in ToSet(loads) : \E k \in ToSet(loads') : k.kind = l.kind
  BY <1>1, LoadKindsKept
<1>12. CountsOwed => CountsOwed'
  BY <1>5, <1>10, <1>11 DEF CountsOwed
<1>13. ASSUME NEW s \in Slots, calls[s] # NoCall, calls[s].kind = "send",
              calls[s].phase = "ok" \/ handlers[s].pc \in Stored
       PROVE  calls'[s].phase = "ok" \/ handlers'[s].pc \in Stored
  <2>1. CASE s # r
    BY <1>4, <1>5, <1>13, <2>1
  <2>2. CASE s = r
    <3>1. h.pc \in Stored
      BY <1>2, <1>3, <1>13, <2>2
    <3>2. CASE g # Idle
      BY <1>2, <1>4, <2>2, <3>1, <3>2 DEF Stored, Goes
    <3>3. CASE g = Idle
      <4>1. h.pc # "settleReply"
        <5> SUFFICES ASSUME h.pc = "settleReply" PROVE FALSE
          OBVIOUS
        <5>1. SettleReply(r)
          BY <1>1, <1>2, StepAt DEF At, MessageSteps
        <5>2. g.pc \in {"notifyReply", "notifyMessage"}
          BY <1>1, <1>2, <5>1 DEF SettleReply, Goto, Handler, TypeOK, HandlersTypeOK
        <5> QED BY <3>3, <5>2 DEF Idle
      <4>2. Succeeds(r) /\ ~At(r, "findPage")
        BY <1>2, <3>1, <4>1 DEF Succeeds, Stored, At
      <4> QED BY <1>5, <1>13, <2>2, <3>3, <4>2
    <3> QED BY <3>2, <3>3
  <2> QED BY <2>1, <2>2
<1>14. ListsOwed => ListsOwed'
  BY <1>5, <1>10, <1>11, <1>13 DEF ListsOwed
<1> QED BY <1>10, <1>12, <1>14

LEMMA BadgeIsNat ==
  TypeOK /\ Numbered => Badge \in Nat
  BY BadgeNumbers DEF Badge

LEMMA BadgeShrinks ==
  ASSUME TypeOK, Numbered, TypeOK', Numbered',
         CountedUnread(Me)' \subseteq CountedUnread(Me), PendingFor(Me)' \subseteq PendingFor(Me)
  PROVE  Badge' <= Badge
<1>1. PICK cu, pf, cu2, pf2 :
        /\ cu = CountedUnread(Me) /\ pf = PendingFor(Me)
        /\ cu2 = CountedUnread(Me)' /\ pf2 = PendingFor(Me)'
  OBVIOUS
<1>2. IsFiniteSet(cu) /\ IsFiniteSet(pf)
  BY <1>1, BadgeParts
<1>3. cu2 \subseteq cu /\ pf2 \subseteq pf
  BY <1>1
<1>4. /\ Cardinality(cu) \in Nat /\ Cardinality(pf) \in Nat
      /\ Cardinality(cu2) \in Nat /\ Cardinality(pf2) \in Nat
      /\ Cardinality(cu2) <= Cardinality(cu) /\ Cardinality(pf2) <= Cardinality(pf)
  BY <1>2, <1>3, FS_Subset, FS_CardinalityType
<1>5. Badge = Cardinality(cu) + Cardinality(pf) /\ Badge' = Cardinality(cu2) + Cardinality(pf2)
  BY <1>1 DEF Badge
<1> QED BY <1>4, <1>5

\* A query of a handler adds nothing to the lists that nobody will tell of.
LEMMA ServeLists ==
  ASSUME Typed, turns' \in Nat, NEW r \in Slots, Serve(r)
  PROVE  /\ Owed' \/ Uncovers(r) \/ Badge' <= Badge
         /\ \/ ListsOwed'
            \/ InboxOf(Me)' \subseteq InboxOf(Me) /\ PendingFor(Me)' \subseteq PendingFor(Me)
<1>1. /\ MessengerTypeOK /\ TypeOK /\ TypeOK' /\ Numbered /\ SlotsHold
      /\ MessageStep(r) \/ RejectInsert(r)
      /\ calls \in [Slots -> Call \cup {NoCall}]
      /\ messages \in SUBSET Message /\ messageRequests \in SUBSET MessageRequest
  BY ServeTypes DEF Typed, Serve, MessengerTypeOK, TypeOK, DatabaseTypeOK
<1>2. PICK h \in Handler, g \in Handler \cup {Idle} : h = handlers[r] /\ g = handlers'[r]
  BY <1>1, StepStarts DEF TypeOK, HandlersTypeOK
<1>3. handlers \in [Slots -> Handler \cup {Idle}] /\ h # Idle /\ h.pc # "idle" /\ Numbered'
  BY <1>1, <1>2, StepStarts, ServeOnward DEF TypeOK, HandlersTypeOK, Onward
<1>4. /\ Knows(h) /\ h.op # "scrollBack"
      /\ calls[r] # NoCall => calls[r].phase = "sent" /\ h.op = OpOf(calls[r].kind) /\ h.user = Me
      /\ calls[r] # NoCall /\ calls[r].kind = "send" => h.peer \in Partners
      /\ calls[r] = NoCall => h.user # Me /\ h.peer = Me
  <2>1. SlotHolds(calls[r], h)
    BY <1>1, <1>2 DEF SlotsHold
  <2>2. calls[r] # NoCall => calls[r].phase = "sent" /\ h.op = OpOf(calls[r].kind)
    BY <1>3, <2>1 DEF SlotHolds, Serves
  <2>3. h.op # "scrollBack"
    BY <1>3, <2>1, <2>2 DEF SlotHolds, Serves, OpOf
  <2> QED BY <1>3, <2>1, <2>2, <2>3 DEF SlotHolds, Serves
<1>5. h.pc \in MessageSteps
  BY <1>4 DEF Knows, StepsOf, MessageSteps, Stored
<1>6. g # Idle => /\ g.pc \in Goes(h) /\ g.op = h.op /\ g.user = h.user
                  /\ h.pc # "loadRequest" => g.peer = h.peer
  BY <1>1, <1>2, <1>4, StepGoes
<1>7. calls[r] # NoCall =>
        /\ calls'[r] # NoCall /\ calls'[r].kind = calls[r].kind
        /\ g = Idle /\ ~At(r, "findPage") =>
             calls'[r].phase = IF Succeeds(r) THEN "ok" ELSE "failed"
  <2> SUFFICES ASSUME calls[r] # NoCall
               PROVE  /\ calls'[r] # NoCall /\ calls'[r].kind = calls[r].kind
                      /\ g = Idle /\ ~At(r, "findPage") =>
                           calls'[r].phase = IF Succeeds(r) THEN "ok" ELSE "failed"
    OBVIOUS
  <2>1. PICK d \in Call : d = Progress(r, calls[r])
    BY <1>1, ProgressIs
  <2>2. calls'[r] = d
    BY <2>1 DEF Serve
  <2>3. /\ d.kind = calls[r].kind /\ d # NoCall
        /\ g = Idle /\ ~At(r, "findPage") =>
             d.phase = IF Succeeds(r) THEN "ok" ELSE "failed"
    BY <1>1, <1>2, <2>1, ProgressIs DEF Call, NoCall
  <2> QED BY <2>2, <2>3
<1>8. Owed' => ListsOwed'
  BY DEF ListsOwed
\* What has been stored: the partner is told, or the lists follow the answer.
<1>9. ASSUME g # Idle, g.pc \in Stored, h.pc # "loadRequest"
      PROVE  /\ ListsOwed'
             /\ calls[r] = NoCall => Owed'
  <2>1. CASE calls[r] = NoCall
    <3>1. handlers'[r].pc \in Stored /\ handlers'[r].peer = Me
      BY <1>2, <1>4, <1>6, <1>9, <2>1
    <3> QED BY <1>8, <3>1 DEF Owed
  <2>2. CASE calls[r] # NoCall
    <3>1. h.op = "sendMessage"
      <4>1. g.pc \in Goes(h) /\ h.pc \in StepsOf(h.op)
        BY <1>4, <1>6, <1>9 DEF Knows
      <4> QED BY <1>9, <4>1 DEF Goes, StepsOf, Stored
    <3>2. calls[r].kind = "send"
      BY <1>4, <2>2, <3>1 DEF OpOf
    <3> QED BY <1>2, <1>7, <1>9, <2>2, <3>2 DEF ListsOwed
  <2> QED BY <2>1, <2>2
<1> DEFINE Kept == /\ CountedUnread(Me)' \subseteq CountedUnread(Me)
                   /\ PendingFor(Me)' \subseteq PendingFor(Me)
           Fine == /\ Owed' \/ Uncovers(r) \/ Badge' <= Badge
                   /\ \/ ListsOwed'
                      \/ /\ InboxOf(Me)' \subseteq InboxOf(Me)
                         /\ PendingFor(Me)' \subseteq PendingFor(Me)
<1>10. Kept => Badge' <= Badge
  BY <1>1, <1>3, BadgeShrinks
<1>11. SUFFICES Fine
  OBVIOUS
<1> HIDE DEF Fine
<1>12. ASSUME UNCHANGED tables PROVE Fine
  <2>1. Kept /\ InboxOf(Me)' = InboxOf(Me)
    BY <1>12, TruthStays
  <2> QED BY <1>10, <2>1 DEF Fine
<1>13. CASE h.pc \in {"insertMessage", "insertOpening"}
  <2>1. CASE g = Idle
    BY <1>1, <1>2, <1>3, <1>5, <1>12, <1>13, <2>1, StepReads
  <2>2. CASE g # Idle
    <3>1. g.pc \in Stored
      BY <1>6, <1>13, <2>2 DEF Goes, Stored
    <3>2. ListsOwed' /\ (calls[r] = NoCall => Owed')
      BY <1>9, <1>13, <2>2, <3>1
    <3>3. calls[r] # NoCall => Kept
      <4> SUFFICES ASSUME calls[r] # NoCall PROVE Kept
        OBVIOUS
      <4>1. h.user = Me /\ h.peer # Me
        <5>1. h.op = "sendMessage"
          BY <1>4, <1>13 DEF Knows, StepsOf
        <5>2. calls[r].kind = "send"
          BY <1>4, <5>1 DEF OpOf
        <5> QED BY <1>4, <5>2 DEF Partners
      <4>2. PICK m, q : /\ m = NewMessage(r)
                        /\ q = [id |-> nextId, requester |-> Me, recipient |-> h.peer,
                                status |-> "pending"]
        OBVIOUS
      <4>3. /\ messages' = messages \cup {m} /\ m.recipient # Me
            /\ messageRequests \subseteq messageRequests'
            /\ messageRequests' \subseteq messageRequests \cup {q}
            /\ q.recipient # Me
        BY <1>1, <1>2, <1>13, <2>2, <4>1, <4>2, ServeStores
      <4> QED BY <4>3 DEF CountedUnread, PendingFor
    <3> QED BY <1>10, <3>2, <3>3 DEF Fine
  <2> QED BY <2>1, <2>2
<1>14. CASE h.pc = "settleReply"
  <2>1. SettleReply(r)
    BY <1>1, <1>2, <1>5, <1>14, StepAt DEF At
  <2>2. g.pc \in {"notifyReply", "notifyMessage"}
    BY <1>2, <1>3, <2>1 DEF SettleReply, Goto, Handler
  <2>3. ListsOwed' /\ (calls[r] = NoCall => Owed')
    BY <1>9, <1>14, <2>2 DEF Idle, Stored
  <2>4. calls[r] # NoCall => Uncovers(r) \/ Badge' <= Badge
    <3>1. Badge \in Nat /\ Badge' \in Nat
      <4>1. (TypeOK /\ Numbered)'
        BY <1>1, <1>3
      <4>2. (Badge \in Nat)'
        BY <4>1, BadgeIsNat, PTL
      <4> QED BY <1>1, <4>2, BadgeIsNat
    <3> QED BY <1>2, <1>14, <3>1 DEF Uncovers, At
  <2> QED BY <2>3, <2>4 DEF Fine
<1>15. CASE h.pc = "markRead"
  <2>1. MarkRead(r)
    BY <1>1, <1>2, <1>5, <1>15, StepAt DEF At
  <2> DEFINE R == ToMark(r)
  <2>2. R \in SUBSET messages /\ UNCHANGED messageRequests
        /\ messages' = (messages \ R) \cup {[m EXCEPT !.read = TRUE] : m \in R}
    BY <2>1 DEF MarkRead, ToMark, UnreadFrom
  <2> HIDE DEF R
  <2>3. \A n \in messages' : \/ n \in messages
                             \/ n.read /\ \E m \in messages : n.sender = m.sender
                                                             /\ n.recipient = m.recipient
    BY <1>1, <2>2 DEF Message
  <2>4. Kept
    BY <2>2, <2>3 DEF CountedUnread, PendingFor
  <2>5. InboxOf(Me)' \subseteq InboxOf(Me)
    <3>1. \A v : Conversation(Me, v)' # {} => Conversation(Me, v) # {}
      <4> SUFFICES ASSUME NEW v, NEW n \in Conversation(Me, v)' PROVE Conversation(Me, v) # {}
        OBVIOUS
      <4>1. \E m \in messages : n.sender = m.sender /\ n.recipient = m.recipient
        BY <2>3 DEF Conversation
      <4> QED BY <4>1 DEF Conversation, MessagePair
    <3> QED BY <2>2, <3>1 DEF InboxOf, RequestsBetween
  <2> QED BY <1>10, <2>4, <2>5 DEF Fine
<1>16. CASE h.pc = "setStatus"
  <2>1. AnswerSetStatus(r)
    BY <1>1, <1>2, <1>5, <1>16, StepAt DEF At
  <2>2. CASE calls[r] # NoCall
    <3>1. h.op \in {"acceptRequest", "declineRequest"} /\ calls[r].kind \in {"accept", "decline"}
      BY <1>4, <1>16, <2>2 DEF Knows, StepsOf, OpOf, Stored
    <3>2. CASE h.op = "acceptRequest"
      <4>1. g.pc = "notifyRequestAccepted"
        BY <1>2, <1>3, <2>1, <3>2 DEF AnswerSetStatus, Goto, Handler
      <4>2. Decided(r)'
        BY <1>2, <1>7, <2>2, <3>1, <4>1 DEF Decided, At
      <4> QED BY <1>8, <4>2 DEF Fine, Owed
    <3>3. CASE h.op = "declineRequest"
      <4>1. g = Idle
        BY <1>2, <1>3, <2>1, <3>3 DEF AnswerSetStatus, Respond
      <4>2. Succeeds(r) /\ ~At(r, "findPage")
        BY <1>2, <1>16, <3>3 DEF Succeeds, At
      <4>3. Decided(r)'
        BY <1>7, <2>2, <3>1, <4>1, <4>2 DEF Decided
      <4> QED BY <1>8, <4>3 DEF Fine, Owed
    <3> QED BY <3>1, <3>2, <3>3
  <2>3. CASE calls[r] = NoCall
    <3>1. h.user # Me /\ h.peer = Me
      BY <1>4, <2>3
    <3> DEFINE R == Undecided(h.row)
    <3>2. /\ R \in SUBSET messageRequests /\ UNCHANGED messages
          /\ \A q \in R : q.recipient # Me /\ q.requester = Me
      BY <1>4, <1>16, <2>1, <3>1 DEF Undecided, Knows, AnswerSetStatus
    <3>3. PICK status : messageRequests' = (messageRequests \ R) \cup
                                           {[q EXCEPT !.status = status] : q \in R}
      BY <1>2, <2>1 DEF AnswerSetStatus, SetStatus
    <3> HIDE DEF R
    <3>4. /\ \A q \in messageRequests : q.recipient = Me => q \in messageRequests'
          /\ \A q \in messageRequests' : q.recipient = Me => q \in messageRequests
          /\ \A q \in messageRequests : q.requester # Me => q \in messageRequests'
      BY <1>1, <3>2, <3>3 DEF MessageRequest
    <3>5. Kept
      BY <3>2, <3>4 DEF CountedUnread, PendingFor
    <3>6. InboxOf(Me)' \subseteq InboxOf(Me)
      BY <3>2, <3>4 DEF InboxOf, Conversation, MessagePair, RequestsBetween
    <3> QED BY <1>10, <3>5, <3>6 DEF Fine
  <2> QED BY <2>2, <2>3
<1>17. CASE h.pc \notin {"insertMessage", "insertOpening", "settleReply", "markRead", "setStatus"}
  BY <1>1, <1>2, <1>5, <1>12, <1>17, StepReads
<1> QED BY <1>13, <1>14, <1>15, <1>16, <1>17

LEMMA ServeListed ==
  ASSUME Typed, turns' \in Nat, CountsHold, ListsHold, NEW r \in Slots, Serve(r)
  PROVE  CountsHold' /\ ListsHold'
<1>1. /\ UNCHANGED lists
      /\ "counts" \in missed \/ Uncovers(r) => "counts" \in missed'
      /\ "lists" \in missed => "lists" \in missed'
  BY DEF Serve
<1>2. /\ CountsOwed => CountsOwed'
      /\ ListsOwed => ListsOwed'
      /\ Owed' \/ Uncovers(r) \/ Badge' <= Badge
      /\ \/ ListsOwed'
         \/ InboxOf(Me)' \subseteq InboxOf(Me) /\ PendingFor(Me)' \subseteq PendingFor(Me)
  BY ServeOwed, ServeLists
<1>3. ASSUME Badge' <= Badge, Badge <= counts.messages + counts.requests
      PROVE  Badge' <= counts'.messages + counts'.requests
  <2>1. /\ (TypeOK /\ Numbered)' /\ TypeOK /\ Numbered
        /\ counts \in [messages : Nat, requests : Nat]
    BY ServeTypes, ServeOnward DEF Typed, Serve, Onward, MessengerTypeOK
  <2>2. (Badge \in Nat)'
    BY <2>1, BadgeIsNat, PTL
  <2> QED BY <1>1, <1>3, <2>1, <2>2, BadgeIsNat DEF lists
<1>4. CountsHold'
  BY <1>1, <1>2, <1>3 DEF CountsHold, CountsOwed
<1>5. ListsHold'
  BY <1>1, <1>2 DEF ListsHold, lists
<1> QED BY <1>4, <1>5

LEMMA RelatesListed ==
  ASSUME Typed, turns' \in Nat, CountsHold, ListsHold, OthersRelate \/ RunAction
  PROVE  CountsHold' /\ ListsHold'
<1>1. /\ MessengerTypeOK /\ events \in Seq(Pushed)
      /\ UNCHANGED <<handlers, lists, missed>> /\ Overtaken
  BY DEF Typed, MessengerTypeOK, OthersRelate, RunAction
<1>2. CASE settling' = "page"
  BY <1>2 DEF CountsHold, ListsHold, CountsOwed, ListsOwed, Owed
<1> DEFINE e == [event |-> "friend:request_accepted", rows |-> {}]
<1>3. CASE events' = Append(events, e)
  <2>1. e \in Pushed /\ e.event \in Refreshers
    BY DEF Pushed, Refreshers
  <2> HIDE DEF e
  <2>2. e \in ToSet(events')
    BY <1>1, <1>3, <2>1, SetOfAppend
  <2> QED BY <2>1, <2>2 DEF CountsHold, ListsHold, CountsOwed, ListsOwed, Owed
<1>4. CASE settling' # "page" /\ events' # Append(events, e)
  <2>1. /\ UNCHANGED <<settling, events, messages, messageRequests>>
    BY <1>4 DEF OthersRelate, RunAction, PartWays, BlockEachOther
  <2>2. Badge' = Badge /\ InboxOf(Me)' = InboxOf(Me) /\ PendingFor(Me)' = PendingFor(Me)
    BY <2>1 DEF Badge, InboxOf, PendingFor, CountedUnread, Conversation, RequestsBetween
  <2>3. \A l \in ToSet(loads) : \E k \in ToSet(loads') : k.kind = l.kind
    BY <1>1, LoadKindsKept DEF Overtaken
  <2>4. \A s \in Slots :
          calls[s] # NoCall => /\ calls'[s] # NoCall
                               /\ calls'[s].kind = calls[s].kind
                               /\ calls'[s].phase = calls[s].phase
    BY <1>1, CallKindsKept DEF Overtaken
  <2>5. Owed => Owed'
    BY <1>1, <2>1, <2>4 DEF Owed, Decided, At
  <2>6. CountsOwed => CountsOwed'
    BY <2>3, <2>4, <2>5 DEF CountsOwed
  <2>7. ListsOwed => ListsOwed'
    BY <1>1, <2>3, <2>4, <2>5 DEF ListsOwed
  <2>8. CountsHold'
    BY <1>1, <2>2, <2>6 DEF CountsHold, lists
  <2>9. ListsHold'
    BY <1>1, <2>2, <2>7 DEF ListsHold, lists
  <2> QED BY <2>8, <2>9
<1> QED BY <1>2, <1>3, <1>4

-----------------------------------------------------------------------------
(* The panel starts with what the server says.                             *)

LEMMA TablesAtFirst ==
  ASSUME TablesInit
  PROVE  TypeOK /\ Numbered /\ nextId \in 1..2
<1>1. blocks = {} /\ handlers = [r \in Slots |-> Idle] /\ sent = {}
  BY DEF TablesInit, HandlersInit
<1>2. HandlersTypeOK
  BY <1>1 DEF HandlersTypeOK
<1>3. CASE /\ messages = {} /\ messageRequests = {} /\ friendships = {}
           /\ nextId = 1 /\ befriended = {}
  <2>1. DatabaseTypeOK
    BY <1>1, <1>3 DEF DatabaseTypeOK, RowId, NoId
  <2>2. Numbered
    BY <1>3, FS_EmptySet DEF Numbered, MessagesNumbered, RequestsNumbered
  <2> QED BY <1>2, <1>3, <2>1, <2>2 DEF TypeOK
<1>4. ASSUME NEW u \in Users, NEW v \in Users, NEW areFriends \in BOOLEAN,
             messages = {[id |-> 1, sender |-> u, recipient |-> v, read |-> FALSE]},
             messageRequests = IF areFriends THEN {}
               ELSE {[id |-> 1, requester |-> u, recipient |-> v, status |-> "pending"]},
             friendships = IF ~areFriends THEN {}
               ELSE {[id |-> 1, requester |-> u, addressee |-> v, status |-> "accepted"]},
             befriended = IF areFriends THEN {{u, v}} ELSE {},
             nextId = 2
      PROVE  TypeOK /\ Numbered
  <2> DEFINE m == [id |-> 1, sender |-> u, recipient |-> v, read |-> FALSE]
             q == [id |-> 1, requester |-> u, recipient |-> v, status |-> "pending"]
             f == [id |-> 1, requester |-> u, addressee |-> v, status |-> "accepted"]
  <2>1. /\ m \in Message /\ m.id = 1 /\ q \in MessageRequest /\ q.id = 1 /\ f \in Friendship
    BY DEF Message, MessageRequest, Friendship, RowId, NoId
  <2>2. messages = {m} /\ messageRequests \subseteq {q} /\ friendships \subseteq {f}
    BY <1>4
  <2> HIDE DEF m, q, f
  <2>3. DatabaseTypeOK
    BY <1>1, <1>4, <2>1, <2>2 DEF DatabaseTypeOK, RowId, NoId
  <2>4. IsFiniteSet(messages) /\ IsFiniteSet(messageRequests)
    BY <2>2, FS_Singleton, FS_Subset
  <2>5. Numbered
    BY <1>4, <2>1, <2>2, <2>4 DEF Numbered, MessagesNumbered, RequestsNumbered
  <2> QED BY <1>2, <2>3, <2>5 DEF TypeOK
<1> QED BY <1>3, <1>4 DEF TablesInit

LEMMA PanelAtFirst ==
  ASSUME MessengerInit
  PROVE  MessengerInv
<1>1. TablesInit /\ TypeOK /\ Numbered
  BY TablesAtFirst DEF MessengerInit
<1>2. /\ calls = [r \in Slots |-> NoCall] /\ handlers = [r \in Slots |-> Idle]
      /\ loads = <<>> /\ events = <<>> /\ turns = 0
  BY <1>1 DEF MessengerInit, TablesInit, HandlersInit
<1>3. \/ thread = NoThread
      \/ /\ partner \in Partners
         /\ thread = [with |-> partner, messages |-> NewestFirst(Conversation(Me, partner)),
                      state |-> StateWith(partner), request |-> RequestFrom(partner)]
  BY Zenon DEF MessengerInit
<1>4. MessengerTypeOK
  <2>1. thread \in Thread \cup {NoThread}
    <3>1. ASSUME partner \in Partners,
                 thread = [with |-> partner, messages |-> NewestFirst(Conversation(Me, partner)),
                           state |-> StateWith(partner), request |-> RequestFrom(partner)]
          PROVE  thread \in Thread
      <4>1. NewestFirst(Conversation(Me, partner)) \in Seq(Message)
        BY <1>1, ConversationLists
      <4>2. StateWith(partner) \in SendState /\ RequestFrom(partner) \in Nat
        BY <1>1, StateTypes
      <4> QED BY <3>1, <4>1, <4>2 DEF Thread
    <3> QED BY <1>3, <3>1
  <2>2. /\ counts \in [messages : Nat, requests : Nat]
        /\ conversations \subseteq Users /\ requests \subseteq MessageRequest
    BY <1>1, BadgeParts DEF MessengerInit
  <2>3. <<>> \in Seq(Load) /\ <<>> \in Seq(Pushed)
    OBVIOUS
  <2>4. isOpen \in BOOLEAN /\ partner \in Partners \cup {Nobody}
    BY Zenon DEF MessengerInit
  <2>5. settling = "nothing" /\ stale = FALSE /\ missed = {}
    BY Zenon DEF MessengerInit
  <2>6. calls \in [Slots -> Call \cup {NoCall}]
    BY <1>2
  <2> QED BY <1>1, <1>2, <2>1, <2>2, <2>3, <2>4, <2>5, <2>6 DEF MessengerTypeOK, TypeOK
<1>5. SlotsHold
  BY <1>2 DEF SlotsHold, SlotHolds, Serves, Sends
<1>6. ThreadHolds
  <2> SUFFICES ASSUME thread # NoThread PROVE Shown(ToSet(thread.messages))
    BY DEF ThreadHolds
  <2>1. PICK ms : ms = NewestFirst(Conversation(Me, partner))
    OBVIOUS
  <2>2. thread.messages = ms
    BY <1>3, <2>1
  <2>3. ToSet(ms) = Conversation(Me, partner)
    BY <1>1, <2>1, ConversationLists
  <2> QED BY <2>2, <2>3 DEF Shown, Ticked, Conversation
<1>7. EventsHold /\ LoadsHold
  BY <1>2 DEF EventsHold, LoadsHold, ToSet
<1>8. CountsHold /\ ListsHold
  <2>1. counts.messages + counts.requests = Badge
    BY DEF MessengerInit, Badge
  <2>2. Badge \in Nat
    BY <1>1, BadgeIsNat
  <2>3. conversations = InboxOf(Me) /\ requests = PendingFor(Me)
    BY DEF MessengerInit
  <2> QED BY <2>1, <2>2, <2>3 DEF CountsHold, ListsHold
<1> QED BY <1>1, <1>4, <1>5, <1>6, <1>7, <1>8 DEF MessengerInv

LEMMA LocalTypes ==
  ASSUME Typed, turns' \in Nat, LocalStep
  PROVE  MessengerTypeOK'
  BY UserTypes, ThreadArrivesTypes, SendArrivesTypes, DecisionArrivesTypes, SettleTypes,
     ServeLoadTypes, LoadEndsTypes, HandleEventTypes, ServeFailsTypes, RefreshMessengerTypes,
     PanelTypes DEF LocalStep

LEMMA NextIs ==
  ASSUME MessengerTypeOK, MessengerNext
  PROVE  /\ turns' \in Nat
         /\ LocalStep \/ OthersRelate \/ RunAction \/ \E r \in Slots : Serve(r)
  BY DEF MessengerTypeOK, MessengerNext, Turn, Follow, LocalStep

LEMMA NothingMoves ==
  ASSUME MessengerInv, UNCHANGED messengerVars
  PROVE  MessengerInv'
<1>1. UNCHANGED tables
  BY DEF messengerVars, vars
<1>2. /\ UNCHANGED <<handlers, sent, isOpen, partner, thread, counts, conversations, requests,
                     calls, loads, settling, events, turns, stale, missed>>
  BY DEF messengerVars, vars, panel, lists, history
<1>3. Typed
  BY DEF Typed, MessengerInv, MessengerTypeOK, TypeOK
<1>4. MessengerTypeOK' /\ Numbered'
  <2>1. DatabaseTypeOK'
    BY <1>1, <1>3 DEF tables, DatabaseTypeOK, MessengerTypeOK, Typed
  <2> QED BY <1>1, <1>2, <1>3, <2>1
          DEF MessengerTypeOK, HandlersTypeOK, Typed, Numbered, tables
<1>5. SlotsHold'
  BY <1>1, <1>2, <1>3, WithoutNone, QuietSlots
<1>6. ThreadHolds' /\ EventsHold'
  <2>1. Ticked(messages)' = Ticked(messages)
    BY <1>1, TruthStays
  <2>2. PICK ms : ms = ToSet(thread.messages)
    OBVIOUS
  <2>3. thread # NoThread => Shown(ms)
    BY <2>2 DEF ThreadHolds, MessengerInv
  <2>4. thread # NoThread => Shown(ms)'
    BY <1>1, <2>3, ShownSame
  <2> QED BY <1>2, <2>1, <2>2, <2>4 DEF ThreadHolds, EventsHold, EventHolds, MessengerInv
<1>7. LoadsHold'
  <2>1. \A l \in ToSet(loads) : LoadHolds(l)'
    BY <1>1, LoadStays DEF MessengerInv, LoadsHold
  <2> QED BY <1>2, <2>1 DEF LoadsHold
<1>8. CountsHold' /\ ListsHold'
  <2>1. Badge' = Badge /\ InboxOf(Me)' = InboxOf(Me) /\ PendingFor(Me)' = PendingFor(Me)
    BY <1>1, TruthStays DEF Badge
  <2> QED BY <1>2, <2>1 DEF CountsHold, ListsHold, CountsOwed, ListsOwed, Owed, Decided, At,
                            MessengerInv
<1> QED BY <1>4, <1>5, <1>6, <1>7, <1>8 DEF MessengerInv

LEMMA PanelHolds ==
  ASSUME MessengerInv, [MessengerNext]_messengerVars
  PROVE  MessengerInv'
<1>1. CASE UNCHANGED messengerVars
  BY <1>1, NothingMoves
<1>2. Typed /\ ThreadHolds /\ EventsHold /\ CountsHold /\ ListsHold
  BY DEF Typed, MessengerInv, MessengerTypeOK, TypeOK
<1>3. MessengerNext => turns' \in Nat
  BY NextIs DEF MessengerInv
<1>4. ASSUME LocalStep, MessengerNext PROVE MessengerInv'
  <2>1. MessengerTypeOK'
    BY <1>2, <1>3, <1>4, LocalTypes
  <2>2. Numbered' /\ SlotsHold'
    BY <1>2, <1>4, LocalSlots DEF Numbered, tables, Typed
  <2> QED BY <1>2, <1>4, <2>1, <2>2, LocalThread, LoadsLocal, CountsLocal, ListsLocal
          DEF MessengerInv
<1>5. ASSUME OthersRelate \/ RunAction, MessengerNext PROVE MessengerInv'
  <2>1. MessengerTypeOK' /\ Onward /\ TypeOK'
    BY <1>2, <1>3, <1>5, RelatesTypes
  <2>2. Numbered' /\ LoadsHold'
    BY <1>2, <1>5, <2>1, LoadsOvertaken DEF OthersRelate, RunAction, Overtaken, Onward
  <2>3. SlotsHold' /\ ThreadHolds' /\ EventsHold'
    BY <1>2, <1>3, <1>5, RelatesSlots
  <2>4. CountsHold' /\ ListsHold'
    BY <1>2, <1>3, <1>5, RelatesListed
  <2> QED BY <2>1, <2>2, <2>3, <2>4 DEF MessengerInv
<1>6. ASSUME NEW r \in Slots, Serve(r), MessengerNext PROVE MessengerInv'
  <2>1. MessengerTypeOK' /\ TypeOK'
    BY <1>2, <1>3, <1>6, ServeTypes
  <2>2. SlotsHold' /\ Onward
    BY <1>2, <1>3, <1>6, ServeSlots
  <2>3. Numbered' /\ LoadsHold'
    BY <1>2, <1>6, <2>1, <2>2, LoadsOvertaken DEF Serve, Onward
  <2>4. ThreadHolds' /\ EventsHold'
    BY <1>2, <1>3, <1>6, ServeThread
  <2>5. CountsHold' /\ ListsHold'
    BY <1>2, <1>3, <1>6, ServeListed
  <2> QED BY <2>1, <2>2, <2>3, <2>4, <2>5 DEF MessengerInv
<1> QED BY <1>1, <1>4, <1>5, <1>6, NextIs DEF MessengerInv

(***************************************************************************)
(* Whatever the users, the socket and the failures do, the panel, the      *)
(* calls in flight and the server fit together.                            *)
(***************************************************************************)
THEOREM MessengerInvariant == MessengerSpec => []MessengerInv
<1>1. MessengerInit => MessengerInv
  BY PanelAtFirst
<1>2. MessengerInv /\ [MessengerNext]_messengerVars => MessengerInv'
  BY PanelHolds
<1> QED BY <1>1, <1>2, PTL DEF MessengerSpec

(***************************************************************************)
(* Every answer, event and refresh leaves the panel and its calls what the *)
(* state of MessengerContext.jsx may hold: nothing arrives in a shape that *)
(* the next handler does not expect.                                       *)
(***************************************************************************)
THEOREM MessengerTypes == MessengerSpec => []MessengerTypeOK
<1>1. MessengerInv => MessengerTypeOK
  BY DEF MessengerInv
<1> QED BY <1>1, MessengerInvariant, PTL

(***************************************************************************)
(* A tick in the open thread is never wrong: each is a message that its    *)
(* reader's markConversationRead marked, whether the tick came with a      *)
(* page, with a message:read event or with an answer that arrived late.    *)
(***************************************************************************)
THEOREM TicksTell == MessengerSpec => []TicksAreTrue
<1>1. MessengerInv => TicksAreTrue
  BY DEF MessengerInv, ThreadHolds, Shown, TicksAreTrue
<1> QED BY <1>1, MessengerInvariant, PTL

(***************************************************************************)
(* Once everything has arrived, the badge counts what is unread or         *)
(* undecided and both lists hold everybody the server lists, unless        *)
(* something that brings them up to date was lost or overtaken: whoever    *)
(* adds to them still owes an event, an answer or a refresh (fetchCounts,  *)
(* fetchLists).                                                            *)
(***************************************************************************)
THEOREM NothingGoesUnnoticed == MessengerSpec => []NothingUnnoticed
<1>1. ASSUME MessengerInv, Quiet PROVE ~CountsOwed /\ ~ListsOwed
  <2>1. /\ ToSet(events) = {} /\ ToSet(loads) = {} /\ settling = "nothing"
        /\ \A r \in Slots : handlers[r].pc = "idle" /\ calls[r] = NoCall
    BY <1>1 DEF Quiet, Free, At, ToSet
  <2> QED BY <2>1 DEF CountsOwed, ListsOwed, Owed, Decided, Stored
<1>2. MessengerInv => NothingUnnoticed
  <2> SUFFICES ASSUME MessengerInv, Quiet
               PROVE  /\ "counts" \notin missed => counts.messages + counts.requests >= Badge
                      /\ "lists" \notin missed => InboxOf(Me) \subseteq conversations
                                                  /\ PendingFor(Me) \subseteq requests
    BY DEF NothingUnnoticed
  <2>1. TypeOK /\ Numbered /\ counts \in [messages : Nat, requests : Nat]
    BY DEF MessengerInv, MessengerTypeOK, TypeOK
  <2>2. Badge \in Nat
    BY <2>1, BadgeIsNat
  <2> QED BY <1>1, <2>1, <2>2 DEF MessengerInv, CountsHold, ListsHold
<1> QED BY <1>2, MessengerInvariant, PTL

-----------------------------------------------------------------------------
(* The open thread, with no query of a handler.                            *)

\* What is under way stays so, if its slots and events do.
LEMMA RereadingKept ==
  ASSUME UNCHANGED <<tables, partner>>, Rereading,
         settling # "nothing" => settling' # "nothing",
         \A e \in ToSet(events) : EventRereads(e) => e \in ToSet(events'),
         \A s \in Slots :
           /\ CallRereads(s) => calls'[s] = calls[s] /\ handlers'[s] = handlers[s]
           /\ HandlerRereads(handlers[s]) => handlers'[s] = handlers[s]
  PROVE  Rereading'
<1>1. CASE \E s \in Slots : CallRereads(s)
  <2>1. PICK s \in Slots : CallRereads(s)
    BY <1>1
  <2>2. calls'[s] = calls[s] /\ handlers'[s] = handlers[s]
    BY <2>1
  <2>3. CallRereads(s)'
    BY <2>1, <2>2 DEF CallRereads, Decided, At
  <2> QED BY <2>3 DEF Rereading
<1>2. CASE \E s \in Slots : HandlerRereads(handlers[s])
  <2>1. PICK s \in Slots : HandlerRereads(handlers[s])
    BY <1>2
  <2>2. HandlerRereads(handlers[s])'
    BY <2>1 DEF HandlerRereads
  <2> QED BY <2>2 DEF Rereading
<1>3. CASE \E e \in ToSet(events) : EventRereads(e)
  <2>1. PICK e \in ToSet(events) : EventRereads(e)
    BY <1>3
  <2>2. EventRereads(e)' /\ e \in ToSet(events')
    BY <2>1 DEF EventRereads, SenderOf, tables
  <2> QED BY <2>2 DEF Rereading
<1>4. CASE settling # "nothing"
  BY <1>4 DEF Rereading
<1> QED BY <1>1, <1>2, <1>3, <1>4 DEF Rereading

LEMMA UnshownKept ==
  ASSUME UNCHANGED partner, NEW S \in SUBSET Slots,
         \A s \in Slots \ S : SentHere(calls[s]) => calls'[s] = calls[s]
  PROVE  Unshown \subseteq
           Unshown' \cup UNION {Ids(ToSet(calls[s].messages)) :
                                  s \in {r \in S : SentHere(calls[r])}}
<1> SUFFICES ASSUME NEW s \in Slots \ S, SentHere(calls[s])
             PROVE  Ids(ToSet(calls[s].messages)) \subseteq Unshown'
  BY DEF Unshown
<1>1. calls'[s] = calls[s]
  OBVIOUS
<1>2. SentHere(calls[s])'
  BY <1>1 DEF SentHere
<1>3. Ids(ToSet(calls[s].messages)) \subseteq Ids(ToSet(calls[s].messages))'
  BY <1>1 DEF Ids
<1> QED BY <1>2, <1>3 DEF Unshown

LEMMA UntickedKept ==
  ASSUME \A e \in ToSet(events) : e.event = "message:read" => e \in ToSet(events'),
         \A s \in Slots : handlers[s].pc = "notifyRead" => handlers'[s] = handlers[s]
  PROVE  Unticked \subseteq Unticked'
  BY DEF Unticked

\* A read of the open thread has been asked for.
LEMMA RereadBegins ==
  ASSUME NEW cs, NEW r \in Slots, NEW kind \in Reads, NEW u, GetThread(r, kind, u, cs),
         cs \in [Slots -> Call \cup {NoCall}]
  PROVE  Rereading'
<1>1. calls'[r] = NewCall(kind, u)
  BY DEF GetThread
<1>2. calls'[r] # NoCall /\ calls'[r].kind \in Reads
  BY <1>1 DEF NewCall, NoCall
<1> QED BY <1>2 DEF Rereading, CallRereads

\* What happens without touching the thread, the calls or the server.
LEMMA WindowStays ==
  ASSUME WindowHolds,
         UNCHANGED <<tables, partner, thread, stale, events, settling>>,
         \A s \in Slots : \/ calls'[s] = calls[s] /\ handlers'[s] = handlers[s]
                          \/ /\ ~CallRereads(s) /\ ~SentHere(calls[s]) /\ handlers[s] = Idle
  PROVE  WindowHolds'
<1> SUFFICES ASSUME partner # Nobody, thread # NoThread, ~stale
             PROVE  Rereading' \/ Current'
  BY DEF WindowHolds
<1>1. CASE Rereading
  <2>1. \A s \in Slots :
          /\ CallRereads(s) => calls'[s] = calls[s] /\ handlers'[s] = handlers[s]
          /\ HandlerRereads(handlers[s]) => handlers'[s] = handlers[s]
    BY DEF HandlerRereads, Idle
  <2> QED BY <1>1, <2>1, RereadingKept
<1>2. CASE Current
  <2>1. Unshown \subseteq Unshown'
    <3>1. \A s \in Slots : SentHere(calls[s]) => calls'[s] = calls[s]
      OBVIOUS
    <3>2. {s \in {} : SentHere(calls[s])} = {}
      OBVIOUS
    <3>3. {} \in SUBSET Slots /\ \A s \in Slots \ {} : SentHere(calls[s]) => calls'[s] = calls[s]
      BY <3>1
    <3>4. Unshown \subseteq Unshown'
             \cup UNION {Ids(ToSet(calls[s].messages)) : s \in {r \in {} : SentHere(calls[r])}}
      BY <3>3, UnshownKept
    <3> QED BY <3>4
  <2>2. Unticked \subseteq Unticked'
    BY UntickedKept DEF Idle
  <2>3. PICK u, t, ms : u = partner /\ t = thread /\ ms = ToSet(thread.messages)
    OBVIOUS
  <2>4. /\ Conversation(Me, u)' = Conversation(Me, u)
        /\ StateShown(t.state, u) => StateShown(t.state, u)'
        /\ Unheard(t.state, u)' = Unheard(t.state, u)
    BY TruthStays, StateStays DEF tables
  <2>5. Ids(ms)' = Ids(ms) /\ Ticked(ms)' = Ticked(ms)
        /\ Ids(Conversation(Me, u))' = Ids(Conversation(Me, u))
        /\ Ticked(Conversation(Me, u))' = Ticked(Conversation(Me, u))
    BY <2>4 DEF Ids, Ticked
  <2>6. /\ t.with = u /\ StateShown(t.state, u)
        /\ Ids(ms) \subseteq Ids(Conversation(Me, u))
        /\ Covers(Ids(ms) \cup Unshown, Conversation(Me, u), Unheard(t.state, u))
        /\ Ticked(Conversation(Me, u)) \subseteq Ticked(ms) \cup Unticked \cup Unshown
    BY <1>2, <2>3 DEF Current
  <2> QED BY <2>1, <2>2, <2>3, <2>4, <2>5, <2>6 DEF Current, Covers
<1> QED BY <1>1, <1>2 DEF WindowHolds

\* A page arrives that nothing has overtaken.
LEMMA WindowFilled ==
  ASSUME Typed, NEW r \in Slots, ThreadArrives(r), partner # Nobody
  PROVE  thread' # NoThread /\ ~stale' => Current'
<1> SUFFICES ASSUME thread' # NoThread, ~stale' PROVE Current'
  OBVIOUS
<1>1. PICK c, h : /\ c \in Call /\ c = calls[r] /\ h = handlers[r]
                 /\ SlotHolds(c, h) /\ c # NoCall
  BY DEF ThreadArrives, Answered, Typed, MessengerTypeOK, SlotsHold
<1>2. /\ c.kind \notin {"send", "accept", "decline"}
      /\ UNCHANGED <<tables, partner>> /\ c.phase \in {"ok", "failed"}
  BY <1>1 DEF ThreadArrives, Answered, Call
<1>3. c.kind \in Reads
  BY <1>1, <1>2 DEF Call, Reads
<1>4. c.phase = "ok"
  BY <1>1, <1>2 DEF ThreadArrives
<1>5. /\ thread' = [with |-> c.with, messages |-> c.messages, state |-> c.state,
                    request |-> c.request]
      /\ ~c.late /\ c.with = partner
  BY <1>1, <1>4 DEF ThreadArrives, ShowThread
<1>6. PICK u, ms, t : u = partner /\ ms = ToSet(c.messages) /\ t = thread'
  OBVIOUS
<1>7. /\ Ids(ms) = Ids(Conversation(Me, u)) /\ c.state = StateWith(u)
      /\ Ticked(ms) = Ticked(Conversation(Me, u))
  BY <1>1, <1>3, <1>4, <1>5, <1>6 DEF SlotHolds, ReadHolds
<1>8. Conversation(Me, u)' = Conversation(Me, u) /\ StateWith(u)' = StateWith(u)
  BY <1>2, TruthStays
<1>9. Ids(ms)' = Ids(ms) /\ Ticked(ms)' = Ticked(ms)
      /\ Ids(Conversation(Me, u))' = Ids(Conversation(Me, u))
      /\ Ticked(Conversation(Me, u))' = Ticked(Conversation(Me, u))
      /\ StateShown(c.state, u)'
  BY <1>7, <1>8 DEF Ids, Ticked, StateShown
<1>10. partner' = u /\ thread' = t /\ t.with = u /\ t.state = c.state /\ ToSet(t.messages) = ms
  BY <1>2, <1>5, <1>6
<1>11. Covers(Ids(ms) \cup Unshown', Conversation(Me, u), Unheard(c.state, u)')
  BY <1>7 DEF Covers, Ids
<1> QED BY <1>7, <1>8, <1>9, <1>10, <1>11 DEF Current

\* A stored message is put on top of what the thread shows.
LEMMA WindowSent ==
  ASSUME Typed, WindowHolds, NEW r \in Slots, SendArrives(r), partner # Nobody,
         thread # NoThread, ~stale'
  PROVE  Rereading' \/ Current'
<1>1. PICK c, h : /\ c \in Call /\ c = calls[r] /\ h = handlers[r]
                 /\ SlotHolds(c, h) /\ c # NoCall
  BY DEF SendArrives, Answered, Typed, MessengerTypeOK, SlotsHold
<1>2. c.kind = "send" /\ c.phase \in {"ok", "failed"} /\ UNCHANGED <<partner, events, settling>>
      /\ UNCHANGED tables
  BY <1>1, SendArrivesSlots DEF SendArrives, Answered, Call
<1>3. CASE c.phase = "failed"
  <2>1. PICK s \in Slots : GetThread(s, "refresh", partner, Hangup(r))
    BY <1>1, <1>3 DEF SendArrives, Correction
  <2> QED BY <2>1, HangupType, RereadBegins DEF Typed, Reads
<1>4. CASE c.phase = "ok" /\ c.first
  <2>1. PICK s \in Slots : GetThread(s, "afterSend", c.with, Hangup(r))
    BY <1>1, <1>4 DEF SendArrives
  <2> QED BY <2>1, HangupType, RereadBegins DEF Typed, Reads
<1>5. CASE c.phase = "ok" /\ ~c.first
  <2>1. /\ thread' = [thread EXCEPT !.messages = c.messages \o thread.messages]
        /\ ~stale /\ ~c.late /\ c.with = partner
        /\ calls' = Hangup(r) /\ UNCHANGED handlers
    BY <1>1, <1>5 DEF SendArrives
  <2>2. \A s \in Slots \ {r} : calls'[s] = calls[s]
    BY <2>1 DEF Hangup, Typed, MessengerTypeOK
  <2>3. CASE Rereading
    <3>1. ~CallRereads(r)
      BY <1>1, <1>2, <1>5 DEF CallRereads, Decided, Reads
    <3> QED BY <1>2, <2>1, <2>2, <2>3, <3>1, RereadingKept
  <2>4. CASE Current
    <3>1. PICK u, t, ms, ns : /\ u = partner /\ t = thread
                              /\ ms = thread.messages /\ ns = c.messages
      OBVIOUS
    <3>2. t \in Thread /\ ms \in Seq(Message) /\ ns \in Seq(Message)
      BY <1>1, <3>1 DEF Thread, Call, Typed, MessengerTypeOK
    <3>3. ToSet(ns \o ms) = ToSet(ns) \cup ToSet(ms)
      BY <3>2, SetOfConcat
    <3>4. /\ Ids(ToSet(ns \o ms)) = Ids(ToSet(ns)) \cup Ids(ToSet(ms))
          /\ Ticked(ToSet(ns \o ms)) = Ticked(ToSet(ns)) \cup Ticked(ToSet(ms))
      BY <3>3 DEF Ids, Ticked
    <3>5. /\ Ids(ToSet(ns)) \subseteq Ids(Conversation(Me, u))
          /\ Ids(ToSet(ns)) \cap Ticked(messages) = {}
      BY <1>1, <1>2, <1>5, <2>1, <3>1 DEF SlotHolds, SendHolds
    <3>6. /\ t.with = u /\ StateShown(t.state, u)
          /\ Ids(ToSet(ms)) \subseteq Ids(Conversation(Me, u))
          /\ Covers(Ids(ToSet(ms)) \cup Unshown, Conversation(Me, u), Unheard(t.state, u))
          /\ Ticked(Conversation(Me, u)) \subseteq Ticked(ToSet(ms)) \cup Unticked \cup Unshown
      BY <2>4, <3>1 DEF Current
    <3>7. Unshown \subseteq Unshown' \cup Ids(ToSet(ns))
      <4>1. Unshown \subseteq Unshown'
              \cup UNION {Ids(ToSet(calls[s].messages)) : s \in {k \in {r} : SentHere(calls[k])}}
        BY <1>2, <2>2, UnshownKept
      <4> QED BY <1>1, <3>1, <4>1
    <3>8. Unticked \subseteq Unticked'
      BY <1>2, <2>1, UntickedKept
    <3>9. Ticked(Conversation(Me, u)) \subseteq Ticked(messages)
      BY DEF Ticked, Conversation
    <3>10. PICK ws : ws = ns \o ms
      OBVIOUS
    <3>11. thread'.messages = ws /\ thread'.with = u /\ thread'.state = t.state
      BY <2>1, <3>1, <3>2, <3>6, <3>10 DEF Thread
    <3>12. /\ Ids(ToSet(ws))' = Ids(ToSet(ws)) /\ Ticked(ToSet(ws))' = Ticked(ToSet(ws))
           /\ StateShown(t.state, u)' /\ Unheard(t.state, u)' = Unheard(t.state, u)
           /\ Ids(Conversation(Me, u))' = Ids(Conversation(Me, u))
           /\ Ticked(Conversation(Me, u))' = Ticked(Conversation(Me, u))
      <4>1. Conversation(Me, u)' = Conversation(Me, u)
        BY <1>2, TruthStays
      <4>2. StateShown(t.state, u)' /\ Unheard(t.state, u)' = Unheard(t.state, u)
        BY <1>2, <3>6, StateStays DEF tables
      <4> QED BY <4>1, <4>2 DEF Ids, Ticked
    <3>13. partner' = u
      BY <1>2, <3>1
    <3>14. /\ Ids(ToSet(ws)) \subseteq Ids(Conversation(Me, u))
           /\ Covers(Ids(ToSet(ws)) \cup Unshown', Conversation(Me, u), Unheard(t.state, u))
           /\ Ticked(Conversation(Me, u))
                \subseteq Ticked(ToSet(ws)) \cup Unticked' \cup Unshown'
      BY <3>4, <3>5, <3>6, <3>7, <3>8, <3>9, <3>10 DEF Covers
    <3>15. PICK w, vs : w = thread' /\ vs = ToSet(ws)
      OBVIOUS
    <3>16. thread' = w /\ w.with = u /\ w.state = t.state /\ ToSet(w.messages) = vs
      BY <3>11, <3>15
    <3>17. /\ Ids(vs)' = Ids(vs) /\ Ticked(vs)' = Ticked(vs)
           /\ Ids(vs) \subseteq Ids(Conversation(Me, u))
           /\ Covers(Ids(vs) \cup Unshown', Conversation(Me, u), Unheard(t.state, u))
           /\ Ticked(Conversation(Me, u)) \subseteq Ticked(vs) \cup Unticked' \cup Unshown'
      <4>1. Ids(vs)' = Ids(vs) /\ Ticked(vs)' = Ticked(vs)
        BY DEF Ids, Ticked
      <4> QED BY <3>14, <3>15, <4>1
    <3>18. /\ StateShown(t.state, u)' /\ Unheard(t.state, u)' = Unheard(t.state, u)
           /\ Conversation(Me, u)' = Conversation(Me, u)
      BY <1>2, <3>6, StateStays, TruthStays DEF tables
    <3> QED BY <3>12, <3>13, <3>16, <3>17, <3>18 DEF Current, Covers
  <2> QED BY <2>1, <2>3, <2>4 DEF WindowHolds
<1> QED BY <1>2, <1>3, <1>4, <1>5

\* The partner has read: the ticks are set, whatever else is missing.
LEMMA WindowTicked ==
  ASSUME Typed, ThreadHolds, EventsHold, HandleEvent, Head(events).event = "message:read",
         WindowHolds, partner # Nobody, thread # NoThread, ~stale
  PROVE  Rereading' \/ Current'
<1>1. PICK e : e = Head(events)
  OBVIOUS
<1>2. /\ events \in Seq(Pushed) /\ ToSet(events) = {e} \cup ToSet(events')
      /\ e.event = "message:read" /\ e \in ToSet(events)
  <2>1. events \in Seq(Pushed) /\ events # <<>> /\ events' = Tail(events)
    BY DEF HandleEvent, Typed, MessengerTypeOK
  <2> QED BY <1>1, <2>1, SetOfTail
<1>3. /\ UNCHANGED <<tables, handlers, calls, partner, settling>>
      /\ thread' = [thread EXCEPT !.messages = Tick(thread.messages, e.rows)]
  BY <1>1, <1>2 DEF HandleEvent, NoReread
<1>4. CASE Rereading
  <2>1. ~EventRereads(e)
    BY <1>2 DEF EventRereads
  <2> QED BY <1>2, <1>3, <1>4, <2>1, RereadingKept
<1>5. CASE Current
  <2>1. PICK u, t, ms : u = partner /\ t = thread /\ ms = thread.messages
    OBVIOUS
  <2>2. t \in Thread /\ ms \in Seq(Message) /\ ToSet(ms) \in SUBSET Message /\ Shown(ToSet(ms))
    BY <2>1, SetOf DEF Thread, Typed, MessengerTypeOK, ThreadHolds
  <2>3. PICK ws : ws = Tick(ms, e.rows)
    OBVIOUS
  <2>4. ToSet(ws) = {IF m.id \in e.rows THEN [m EXCEPT !.read = TRUE] ELSE m : m \in ToSet(ms)}
    BY <2>2, <2>3, TickType
  <2> DEFINE tick(m) == IF m.id \in e.rows THEN [m EXCEPT !.read = TRUE] ELSE m
  <2>5. \A m \in ToSet(ms) : /\ tick(m).id = m.id /\ tick(m).sender = m.sender
                             /\ m.read \/ m.id \in e.rows => tick(m).read
                             /\ tick(m) \in ToSet(ws)
    BY <2>2, <2>4 DEF Message
  <2>6. \A n \in ToSet(ws) : \E m \in ToSet(ms) : n = tick(m)
    BY <2>4
  <2> HIDE DEF tick
  <2>7. Ids(ToSet(ws)) = Ids(ToSet(ms))
    <3>1. Ids(ToSet(ms)) \subseteq Ids(ToSet(ws))
      BY <2>5 DEF Ids
    <3>2. Ids(ToSet(ws)) \subseteq Ids(ToSet(ms))
      BY <2>5, <2>6 DEF Ids
    <3> QED BY <3>1, <3>2
  <2>8. Ticked(ToSet(ms)) \subseteq Ticked(ToSet(ws))
    BY <2>5 DEF Ticked
  <2>9. /\ t.with = u /\ StateShown(t.state, u)
        /\ Ids(ToSet(ms)) \subseteq Ids(Conversation(Me, u))
        /\ Covers(Ids(ToSet(ms)) \cup Unshown, Conversation(Me, u), Unheard(t.state, u))
        /\ Ticked(Conversation(Me, u)) \subseteq Ticked(ToSet(ms)) \cup Unticked \cup Unshown
    BY <1>5, <2>1 DEF Current
  <2>10. Unshown \subseteq Unshown'
    BY <1>3 DEF Unshown, SentHere, Ids
  <2>11. Unticked \subseteq Unticked' \cup e.rows
    BY <1>2, <1>3 DEF Unticked
  <2>12. ASSUME NEW i \in Ticked(Conversation(Me, u)), i \in e.rows
         PROVE  i \in Ticked(ToSet(ws)) \cup Unshown
    <3>1. PICK m \in messages : m.id = i /\ m.sender = Me /\ m \in Conversation(Me, u)
      BY DEF Ticked, Conversation
    <3>2. i \in Ids(ToSet(ms)) \cup Unshown
      BY <2>9, <3>1 DEF Covers
    <3>3. ASSUME i \in Ids(ToSet(ms)) PROVE i \in Ticked(ToSet(ws))
      <4>1. PICK n \in ToSet(ms) : n.id = i
        BY <3>3 DEF Ids
      <4>2. PICK k \in messages : k.id = i /\ k.sender = n.sender
        BY <2>2, <4>1 DEF Shown
      <4>3. k = m
        BY <3>1, <4>2 DEF Typed, Numbered, MessagesNumbered
      <4>4. /\ tick(n) \in ToSet(ws) /\ tick(n).id = i /\ tick(n).sender = Me
            /\ tick(n).read
        BY <2>5, <2>12, <3>1, <4>1, <4>2, <4>3
      <4> QED BY <4>4 DEF Ticked
    <3> QED BY <3>2, <3>3
  <2>13. /\ Ids(ToSet(ws)) \subseteq Ids(Conversation(Me, u))
         /\ Covers(Ids(ToSet(ws)) \cup Unshown', Conversation(Me, u), Unheard(t.state, u))
         /\ Ticked(Conversation(Me, u)) \subseteq Ticked(ToSet(ws)) \cup Unticked' \cup Unshown'
    BY <2>7, <2>8, <2>9, <2>10, <2>11, <2>12 DEF Covers
  <2>14. /\ Ids(ToSet(ws))' = Ids(ToSet(ws)) /\ Ticked(ToSet(ws))' = Ticked(ToSet(ws))
         /\ StateShown(t.state, u)' /\ Unheard(t.state, u)' = Unheard(t.state, u)
         /\ Ids(Conversation(Me, u))' = Ids(Conversation(Me, u))
         /\ Ticked(Conversation(Me, u))' = Ticked(Conversation(Me, u))
    <3>1. Conversation(Me, u)' = Conversation(Me, u)
      BY <1>3, TruthStays
    <3>2. StateShown(t.state, u)' /\ Unheard(t.state, u)' = Unheard(t.state, u)
      BY <1>3, <2>9, StateStays DEF tables
    <3> QED BY <3>1, <3>2 DEF Ids, Ticked
  <2>15. thread'.messages = ws /\ thread'.with = u /\ thread'.state = t.state /\ partner' = u
    BY <1>3, <2>1, <2>2, <2>3, <2>9 DEF Thread
  <2>16. PICK w, vs : w = thread' /\ vs = ToSet(ws)
    OBVIOUS
  <2>17. thread' = w /\ w.with = u /\ w.state = t.state /\ ToSet(w.messages) = vs
         /\ partner' = u
    BY <2>15, <2>16
  <2>18. /\ Ids(vs)' = Ids(vs) /\ Ticked(vs)' = Ticked(vs)
         /\ Ids(vs) \subseteq Ids(Conversation(Me, u))
         /\ Covers(Ids(vs) \cup Unshown', Conversation(Me, u), Unheard(t.state, u))
         /\ Ticked(Conversation(Me, u)) \subseteq Ticked(vs) \cup Unticked' \cup Unshown'
    <3>1. Ids(vs)' = Ids(vs) /\ Ticked(vs)' = Ticked(vs)
      BY DEF Ids, Ticked
    <3> QED BY <2>13, <2>16, <3>1
  <2>19. /\ StateShown(t.state, u)' /\ Unheard(t.state, u)' = Unheard(t.state, u)
         /\ Conversation(Me, u)' = Conversation(Me, u)
    BY <1>3, <2>9, StateStays, TruthStays DEF tables
  <2> QED BY <2>14, <2>17, <2>18, <2>19 DEF Current, Covers
<1> QED BY <1>4, <1>5 DEF WindowHolds

\* An event is handled, or an earlier one than what the window waits for.
LEMMA WindowHeard ==
  ASSUME Typed, ThreadHolds, EventsHold, HandleEvent, WindowHolds
  PROVE  WindowHolds'
<1> SUFFICES ASSUME partner # Nobody, thread' # NoThread, ~stale
             PROVE  Rereading' \/ Current'
  BY DEF WindowHolds, HandleEvent, history
<1>1. PICK e : e = Head(events)
  OBVIOUS
<1>2. events \in Seq(Pushed) /\ ToSet(events) = {e} \cup ToSet(events') /\ e \in Pushed
  <2>1. events \in Seq(Pushed) /\ events # <<>> /\ events' = Tail(events)
    BY DEF HandleEvent, Typed, MessengerTypeOK
  <2> QED BY <1>1, <2>1, SetOfTail
<1>3. UNCHANGED <<partner, settling, stale>> /\ calls \in [Slots -> Call \cup {NoCall}]
  BY DEF HandleEvent, history, Typed, MessengerTypeOK
<1>4. ASSUME NEW kind \in Reads, Reread(kind) PROVE Rereading'
  BY <1>3, <1>4, RereadBegins DEF Reread
<1>5. ASSUME NoReread, UNCHANGED thread, ~EventRereads(e), e.event # "message:read"
      PROVE  Rereading' \/ Current'
  <2>1. UNCHANGED <<tables, handlers, calls>>
    BY <1>5 DEF NoReread
  <2>2. CASE Rereading
    BY <1>2, <1>3, <1>5, <2>1, <2>2, RereadingKept
  <2>3. CASE Current
    <3>1. Unshown \subseteq Unshown'
      BY <1>3, <2>1 DEF Unshown, SentHere, Ids
    <3>2. Unticked \subseteq Unticked'
      BY <1>2, <1>5, <2>1, UntickedKept
    <3>3. PICK u, t, ms : u = partner /\ t = thread /\ ms = ToSet(thread.messages)
      OBVIOUS
    <3>4. /\ Conversation(Me, u)' = Conversation(Me, u)
          /\ StateShown(t.state, u) => StateShown(t.state, u)'
          /\ Unheard(t.state, u)' = Unheard(t.state, u)
      BY <2>1, TruthStays, StateStays DEF tables
    <3>5. Ids(ms)' = Ids(ms) /\ Ticked(ms)' = Ticked(ms)
          /\ Ids(Conversation(Me, u))' = Ids(Conversation(Me, u))
          /\ Ticked(Conversation(Me, u))' = Ticked(Conversation(Me, u))
      BY <3>4 DEF Ids, Ticked
    <3>6. /\ t.with = u /\ StateShown(t.state, u)
          /\ Ids(ms) \subseteq Ids(Conversation(Me, u))
          /\ Covers(Ids(ms) \cup Unshown, Conversation(Me, u), Unheard(t.state, u))
          /\ Ticked(Conversation(Me, u)) \subseteq Ticked(ms) \cup Unticked \cup Unshown
      BY <2>3, <3>3 DEF Current
    <3>7. Current'
      BY <1>3, <1>5, <3>1, <3>2, <3>3, <3>4, <3>5, <3>6 DEF Current, Covers
    <3> QED BY <3>7
  <2> QED BY <1>3, <1>5, <2>2, <2>3 DEF WindowHolds
<1>6. CASE e.event = "message:read"
  <2>1. thread # NoThread
    BY <1>1, <1>6 DEF HandleEvent
  <2> QED BY <1>1, <1>6, <2>1, WindowTicked
<1>7. CASE e.event = "message:received"
  <2>1. HearMessage(e) /\ UNCHANGED thread
    BY <1>1, <1>7 DEF HandleEvent
  <2>2. CASE partner \in SenderOf(e.rows)
    BY <1>4, <2>1, <2>2 DEF HearMessage, Reads
  <2>3. CASE partner \notin SenderOf(e.rows)
    BY <1>5, <1>7, <2>1, <2>3 DEF HearMessage, EventRereads
  <2> QED BY <2>2, <2>3
<1>8. CASE e.event = "message:request_received"
  <2>1. NoReread /\ UNCHANGED thread
    BY <1>1, <1>8 DEF HandleEvent
  <2> QED BY <1>5, <1>8, <2>1 DEF EventRereads
<1>9. CASE e.event \in {"message:request_accepted", "friend:request_accepted"}
  <2>1. HearAccepted(e)
    BY <1>1, <1>9 DEF HandleEvent
  <2>2. PICK kind \in Reads : Reread(kind)
    BY <2>1 DEF HearAccepted, Reads
  <2> QED BY <1>4, <2>2
<1> QED BY <1>2, <1>6, <1>7, <1>8, <1>9 DEF Pushed

LEMMA WindowLocal ==
  ASSUME Typed, ThreadHolds, EventsHold, WindowHolds, LocalStep
  PROVE  WindowHolds'
<1>1. /\ UNCHANGED tables /\ calls \in [Slots -> Call \cup {NoCall}]
      /\ \A s \in Slots : handlers[s].pc = "idle" => handlers[s] = Idle
  <2>1. handlers \in [Slots -> Handler \cup {Idle}]
    BY DEF Typed, TypeOK, HandlersTypeOK
  <2>2. \A h \in Handler : h.pc # "idle"
    BY DEF Handler, MessageSteps, FriendSteps, BlockSteps
  <2>3. UNCHANGED tables /\ calls \in [Slots -> Call \cup {NoCall}]
    BY LocalSlots DEF Typed, MessengerTypeOK
  <2> QED BY <2>1, <2>2, <2>3
<1>2. CASE Close
  BY <1>2 DEF Close, CloseConversation, WindowHolds
<1>3. CASE ToggleMessenger \/ LoadFails \/ ServeLoad \/ LoadArrives
  <2>1. UNCHANGED <<partner, thread, stale, events, settling, calls, handlers>>
    BY <1>3 DEF ToggleMessenger, LoadFails, ServeLoad, LoadArrives, history, panel
  <2> QED BY <1>1, <2>1, WindowStays
<1>4. ASSUME NEW r \in Slots, OpenConversation(r) \/ ServeFails(r) PROVE WindowHolds'
  BY <1>4 DEF OpenConversation, ServeFails, WindowHolds
<1>5. CASE SocketDrops
  BY <1>5 DEF SocketDrops, WindowHolds
<1>6. ASSUME NEW r \in Slots, Send(r) \/ Decide(r) \/ OthersAct(r) PROVE WindowHolds'
  <2>1. /\ UNCHANGED <<partner, thread, stale, events, settling>>
        /\ Free(r)
        /\ \A s \in Slots \ {r} : calls'[s] = calls[s] /\ handlers'[s] = handlers[s]
    <3>1. ASSUME NEW op, NEW pc, NEW u, NEW v, NEW row, Receive(r, op, pc, u, v, row)
          PROVE  \A s \in Slots \ {r} : handlers'[s] = handlers[s]
      <4>1. PICK h : handlers' = [handlers EXCEPT ![r] = h]
        BY <3>1 DEF Receive
      <4> QED BY <4>1 DEF Typed, TypeOK, HandlersTypeOK
    <3>2. CASE Send(r)
      BY <1>1, <3>1, <3>2 DEF Send, panel, history
    <3>3. CASE Decide(r)
      <4>1. PICK c : calls' = [calls EXCEPT ![r] = c]
        BY <3>3 DEF Decide
      <4>2. \E op, pc, u, v, row : Receive(r, op, pc, u, v, row)
        BY <3>3 DEF Decide
      <4> QED BY <1>1, <3>1, <3>3, <4>1, <4>2 DEF Decide, panel, history
    <3>4. CASE OthersAct(r)
      <4>1. \E op, pc, u, v, row : Receive(r, op, pc, u, v, row)
        BY <3>4 DEF OthersAct, SendMessage, GetConversation, AnswerRequest
      <4> QED BY <3>1, <3>4, <4>1 DEF OthersAct, panel, history
    <3> QED BY <1>6, <3>2, <3>3, <3>4
  <2>2. ~CallRereads(r) /\ ~SentHere(calls[r]) /\ handlers[r] = Idle
    BY <1>1, <2>1 DEF Free, At, CallRereads, SentHere
  <2> QED BY <1>1, <2>1, <2>2, WindowStays
<1>7. ASSUME NEW r \in Slots, ThreadArrives(r) PROVE WindowHolds'
  <2>1. partner' = partner
    BY <1>7 DEF ThreadArrives
  <2> QED BY <1>7, <2>1, WindowFilled DEF WindowHolds
<1>8. ASSUME NEW r \in Slots, SendArrives(r) PROVE WindowHolds'
  <2>1. partner' = partner /\ (thread' # NoThread => thread # NoThread)
    BY <1>8 DEF SendArrives
  <2> QED BY <1>8, <2>1, WindowSent DEF WindowHolds
<1>9. ASSUME NEW r \in Slots, DecisionArrives(r) PROVE WindowHolds'
  <2>1. PICK c, h : /\ c \in Call /\ c = calls[r] /\ h = handlers[r] /\ SlotHolds(c, h)
                    /\ c # NoCall /\ c.kind \in {"accept", "decline"}
    BY <1>1, <1>9 DEF DecisionArrives, Answered, Typed, SlotsHold
  <2>2. c.phase \in {"ok", "failed"} /\ h = Idle
    BY <1>9, <2>1 DEF DecisionArrives, Answered, Call, SlotHolds, Serves
  <2>3. CASE c.phase = "ok"
    <3>1. settling' # "nothing"
      BY <1>9, <2>1, <2>3 DEF DecisionArrives
    <3> QED BY <3>1 DEF WindowHolds, Rereading
  <2>4. CASE c.phase = "failed"
    <3>1. /\ UNCHANGED <<partner, thread, stale, events, settling, handlers>>
          /\ calls' = Hangup(r)
      BY <1>9, <2>1, <2>4 DEF DecisionArrives, panel, history
    <3>2. \A s \in Slots \ {r} : calls'[s] = calls[s]
      BY <1>1, <3>1 DEF Hangup
    <3>3. ~CallRereads(r) /\ ~SentHere(calls[r])
      BY <2>1, <2>2, <2>4 DEF CallRereads, SentHere, Decided, Reads, At, Idle
    <3> QED BY <1>1, <2>1, <2>2, <3>1, <3>2, <3>3, WindowStays
  <2> QED BY <2>2, <2>3, <2>4
<1>10. CASE Settle
  <2>1. CASE settling = "accept" /\ partner # Nobody
    <3>1. PICK s \in Slots : GetThread(s, "afterAccept", partner, calls)
      BY <1>10, <2>1 DEF Settle
    <3> QED BY <1>1, <3>1, RereadBegins DEF Reads, WindowHolds
  <2>2. CASE ~(settling = "accept" /\ partner # Nobody)
    <3>1. partner' = Nobody
      <4>1. settling \in {"accept", "decline"}
        BY <1>10 DEF Settle, Typed, MessengerTypeOK
      <4> QED BY <1>10, <2>2, <4>1 DEF Settle, CloseConversation
    <3> QED BY <3>1 DEF WindowHolds
  <2> QED BY <2>1, <2>2
<1>11. CASE RefreshMessenger
  <2>1. CASE partner = Nobody
    BY <1>11, <2>1 DEF RefreshMessenger, panel, WindowHolds
  <2>2. CASE partner # Nobody
    <3>1. PICK s \in Slots : GetThread(s, "refresh", partner, calls)
      BY <1>11, <2>2 DEF RefreshMessenger, Reread
    <3> QED BY <1>1, <3>1, RereadBegins DEF Reads, WindowHolds
  <2> QED BY <2>1, <2>2
<1>12. CASE HandleEvent
  BY <1>12, WindowHeard
<1> QED
  BY <1>2, <1>3, <1>4, <1>5, <1>6, <1>7, <1>8, <1>9, <1>10, <1>11, <1>12 DEF LocalStep

\* What the friend and block services do is announced, read again or unheard.
LEMMA WindowRelates ==
  ASSUME Typed, OthersRelate \/ RunAction
  PROVE  WindowHolds'
<1>1. CASE RunAction
  BY <1>1 DEF RunAction, WindowHolds, Rereading
<1>2. CASE OthersRelate
  <2> DEFINE e == [event |-> "friend:request_accepted", rows |-> {}]
  <2>1. stale' \/ events' = Append(events, e)
    BY <1>2 DEF OthersRelate
  <2>2. CASE events' = Append(events, e)
    <3>1. e \in Pushed /\ e.event = "friend:request_accepted" /\ events \in Seq(Pushed)
      BY DEF Pushed, Typed, MessengerTypeOK
    <3> HIDE DEF e
    <3>2. e \in ToSet(events')
      BY <2>2, <3>1, SetOfAppend
    <3>3. EventRereads(e)'
      BY <3>1 DEF EventRereads
    <3> QED BY <3>2, <3>3 DEF WindowHolds, Rereading
  <2> QED BY <2>1, <2>2 DEF WindowHolds
<1> QED BY <1>1, <1>2

-----------------------------------------------------------------------------
(* The open thread, when the server works.                                 *)

\* A handler at work: whose it is, and where it goes.
LEMMA ServeMoves ==
  ASSUME Typed, turns' \in Nat, NEW r \in Slots, Serve(r),
         NEW h, NEW g, h = handlers[r], g = handlers'[r]
  PROVE  /\ TypeOK /\ TypeOK' /\ Numbered /\ Onward
         /\ MessageStep(r) \/ RejectInsert(r)
         /\ h \in Handler /\ h # Idle /\ h.pc \in MessageSteps /\ Knows(h)
         /\ g \in Handler \cup {Idle}
         /\ calls[r] # NoCall =>
              /\ calls[r].phase = "sent" /\ h.op = OpOf(calls[r].kind) /\ h.user = Me
              /\ calls[r].kind \in Reads \cup {"send"} => h.peer = calls[r].with
         /\ calls[r] = NoCall => h.user # Me /\ h.peer = Me
         /\ \A s \in Slots \ {r} : handlers'[s] = handlers[s]
         /\ g # Idle => /\ g.pc \in Goes(h) /\ g.op = h.op /\ g.user = h.user
                        /\ h.pc # "loadRequest" => g.peer = h.peer
<1>1. /\ MessengerTypeOK /\ TypeOK /\ TypeOK' /\ Numbered /\ SlotsHold /\ Onward
      /\ MessageStep(r) \/ RejectInsert(r)
      /\ calls \in [Slots -> Call \cup {NoCall}]
  BY ServeTypes, ServeOnward DEF Typed, Serve, MessengerTypeOK
<1>2. h \in Handler /\ h # Idle /\ h.pc # "idle" /\ g \in Handler \cup {Idle}
  BY <1>1, StepStarts DEF TypeOK, HandlersTypeOK
<1>3. SlotHolds(calls[r], h)
  BY <1>1 DEF SlotsHold
<1>4. calls[r] # NoCall =>
        /\ calls[r].phase = "sent" /\ h.op = OpOf(calls[r].kind) /\ h.user = Me
        /\ calls[r].kind \in Reads \cup {"send"} => h.peer = calls[r].with
  BY <1>2, <1>3 DEF SlotHolds, Serves
<1>5. calls[r] = NoCall => h.user # Me /\ h.peer = Me /\ h.op # "scrollBack"
  BY <1>2, <1>3 DEF SlotHolds, Serves
<1>6. h.op # "scrollBack" /\ Knows(h)
  BY <1>2, <1>3, <1>4, <1>5 DEF SlotHolds, OpOf
<1>7. h.pc \in MessageSteps
  BY <1>6 DEF Knows, StepsOf, MessageSteps, Stored
<1>8. /\ \A s \in Slots \ {r} : handlers'[s] = handlers[s]
      /\ g # Idle => /\ g.pc \in Goes(h) /\ g.op = h.op /\ g.user = h.user
                     /\ h.pc # "loadRequest" => g.peer = h.peer
  BY <1>1, <1>6, StepGoes
<1> QED BY <1>1, <1>2, <1>4, <1>5, <1>6, <1>7, <1>8

\* A call keeps what it is for, and what it has stored until it is answered.
LEMMA ServeCalls ==
  ASSUME Typed, turns' \in Nat, NEW r \in Slots, Serve(r), NEW s \in Slots, calls[s] # NoCall
  PROVE  /\ calls'[s] \in Call /\ calls'[s] # NoCall
         /\ calls'[s].kind = calls[s].kind /\ calls'[s].with = calls[s].with
         /\ calls'[s].first = calls[s].first
         /\ s # r \/ handlers[r].pc \notin {"findPage", "insertMessage", "insertOpening"} =>
              calls'[s].done = calls[s].done /\ calls'[s].messages = calls[s].messages
         /\ s # r => calls'[s].phase = calls[s].phase
         /\ s = r /\ handlers'[r] # Idle => calls'[s].phase = calls[s].phase
         /\ s = r /\ handlers'[r] = Idle /\ ~At(r, "findPage") =>
              calls'[s].phase = IF Succeeds(r) THEN "ok" ELSE "failed"
         /\ s = r /\ handlers'[r] # Idle
            /\ handlers[r].pc \in {"insertMessage", "insertOpening"} =>
              calls'[s].done /\ calls'[s].messages = <<NewMessage(r)>>
<1>1. /\ MessengerTypeOK /\ TypeOK /\ TypeOK' /\ Numbered
      /\ MessageStep(r) \/ RejectInsert(r)
      /\ calls \in [Slots -> Call \cup {NoCall}]
  BY ServeTypes DEF Typed, Serve, MessengerTypeOK
<1>2. CASE s # r
  <2>1. PICK c, d : c \in Call \cup {NoCall} /\ c # NoCall /\ c = calls[s] /\ d = LateCall(c)
    BY <1>1
  <2>2. d \in Call /\ d # NoCall /\ d \in {c, [c EXCEPT !.late = TRUE]}
    BY <2>1, LateCallIs
  <2>3. calls'[s] = d
    BY <1>2, <2>1 DEF Serve
  <2> QED BY <1>2, <2>1, <2>2, <2>3 DEF Call
<1>3. CASE s = r
  <2>1. PICK c, d : c \in Call /\ c = calls[r] /\ d = Progress(r, calls[r]) /\ d \in Call
    BY <1>1, <1>3, ProgressIs
  <2>2. calls'[s] = d /\ d # NoCall
    BY <1>3, <2>1 DEF Serve, Call, NoCall
  <2>3. /\ d.kind = c.kind /\ d.with = c.with /\ d.first = c.first
        /\ ~At(r, "findPage") /\ handlers[r].pc \notin {"insertMessage", "insertOpening"} =>
             d.done = c.done /\ d.messages = c.messages
        /\ handlers'[r] # Idle => d.phase = c.phase
        /\ ~At(r, "findPage") /\ handlers'[r] = Idle =>
             d.phase = IF Succeeds(r) THEN "ok" ELSE "failed"
    BY <1>1, <1>3, <2>1, ProgressIs
  <2>4. handlers'[r] # Idle /\ handlers[r].pc \in {"insertMessage", "insertOpening"} =>
          d.done /\ d.messages = <<NewMessage(r)>>
    <3> SUFFICES ASSUME handlers'[r] # Idle, handlers[r].pc \in {"insertMessage", "insertOpening"}
                 PROVE  d.done /\ d.messages = <<NewMessage(r)>>
      OBVIOUS
    <3>1. PICK ns : ns = <<NewMessage(r)>>
      OBVIOUS
    <3>2. d = [c EXCEPT !.done = TRUE, !.messages = ns]
      BY <1>1, <1>3, <2>1, <3>1, ProgressIs
    <3> QED BY <2>1, <3>1, <3>2 DEF Call
  <2> QED BY <1>3, <2>1, <2>2, <2>3, <2>4 DEF At
<1> QED BY <1>2, <1>3

\* What the server tells Me reaches the events.
LEMMA Announces ==
  ASSUME Typed, turns' \in Nat, NEW r \in Slots, Serve(r)
  PROVE  /\ ToSet(events) \subseteq ToSet(events')
         /\ \A e \in sent' : e.to = Me /\ e.event \in PushedNames =>
              \E p \in ToSet(events') : p.event = e.event /\ e.row \in p.rows
<1>1. events \in Seq(Pushed) /\ sent' \in SUBSET Event /\ Push
  BY ServeTypes DEF Typed, MessengerTypeOK, TypeOK, HandlersTypeOK, Serve
<1>2. ToSet(events') = ToSet(events) \cup
              {EventOf(sent', name) : name \in {n \in PushedNames : Told(sent', n) # {}}}
  BY <1>1, PushType
<1>3. ASSUME NEW e \in sent', e.to = Me, e.event \in PushedNames
      PROVE  \E p \in ToSet(events') : p.event = e.event /\ e.row \in p.rows
  <2>1. e \in Told(sent', e.event)
    BY <1>3 DEF Told
  <2>2. EventOf(sent', e.event) \in ToSet(events')
    BY <1>2, <1>3, <2>1
  <2>3. EventOf(sent', e.event).event = e.event /\ e.row \in EventOf(sent', e.event).rows
    BY <2>1 DEF EventOf
  <2> QED BY <2>2, <2>3
<1> QED BY <1>2, <1>3

\* A decision that has been stored is answered with 2xx.
LEMMA DecidedStays ==
  ASSUME Typed, turns' \in Nat, NEW r \in Slots, Serve(r), NEW s \in Slots, Decided(s)
  PROVE  Decided(s)'
<1>1. calls[s] # NoCall /\ calls[s].kind \in {"accept", "decline"}
  BY DEF Decided
<1>2. calls'[s] # NoCall /\ calls'[s].kind = calls[s].kind
  BY <1>1, ServeCalls
<1>3. CASE s # r
  <2>1. calls'[s].phase = calls[s].phase /\ handlers'[s] = handlers[s]
    BY <1>1, <1>3, ServeCalls, ServeMoves
  <2> QED BY <1>1, <1>2, <2>1 DEF Decided, At
<1>4. CASE s = r
  <2>1. PICK h, g : h = handlers[r] /\ g = handlers'[r]
    OBVIOUS
  <2>2. h.pc = "notifyRequestAccepted"
    BY <1>1, <1>4, <2>1, ServeMoves DEF Decided, At
  <2>3. g = Idle
    BY <2>1, <2>2, ServeMoves DEF Goes
  <2>4. calls'[r].phase = "ok"
    <3>1. Succeeds(r) /\ ~At(r, "findPage")
      BY <2>1, <2>2 DEF At, Succeeds
    <3>2. handlers'[r] = Idle /\ calls[r] # NoCall
      BY <1>1, <1>4, <2>1, <2>3
    <3> QED BY <3>1, <3>2, ServeCalls
  <2> QED BY <1>1, <1>2, <1>4, <2>4 DEF Decided
<1> QED BY <1>3, <1>4

\* A stored message of Me is still to be shown by the answer to its send.
LEMMA StoredStays ==
  ASSUME Typed, turns' \in Nat, NEW r \in Slots, Serve(r), NEW s \in Slots,
         calls[s] # NoCall, calls[s].kind = "send", calls[s].done, calls[s].phase # "failed"
  PROVE  /\ calls'[s].done /\ calls'[s].phase # "failed"
         /\ calls'[s].messages = calls[s].messages
<1>1. CASE s # r
  BY <1>1, ServeCalls
<1>2. CASE s = r
  <2>1. PICK h, g : h = handlers[r] /\ g = handlers'[r]
    OBVIOUS
  <2>2. h.pc \in Stored
    <3>1. SendHolds(calls[r], h) /\ calls[r].phase = "sent"
      BY <1>2, <2>1, ServeMoves DEF Typed, SlotsHold, SlotHolds
    <3> QED BY <1>2, <3>1 DEF SendHolds
  <2>3. calls'[r].done /\ calls'[r].messages = calls[r].messages
    BY <1>2, <2>1, <2>2, ServeCalls DEF Stored
  <2>4. CASE g # Idle
    BY <1>2, <2>1, <2>3, <2>4, ServeCalls
  <2>5. CASE g = Idle
    <3>1. h.pc # "settleReply"
      <4> SUFFICES ASSUME h.pc = "settleReply" PROVE FALSE
        OBVIOUS
      <4>1. SettleReply(r)
        BY <2>1, ServeMoves, StepAt DEF At
      <4>2. h \in Handler /\ handlers \in [Slots -> Handler \cup {Idle}]
        BY <2>1, ServeMoves DEF TypeOK, HandlersTypeOK
      <4>3. g.pc \in {"notifyReply", "notifyMessage"}
        BY <2>1, <4>1, <4>2 DEF SettleReply, Goto, Handler
      <4> QED BY <2>5, <4>3 DEF Idle
    <3>2. Succeeds(r) /\ ~At(r, "findPage")
      BY <2>1, <2>2, <3>1 DEF Succeeds, Stored, At
    <3>3. calls'[r].phase = "ok"
      BY <1>2, <2>1, <2>5, <3>2, ServeCalls
    <3> QED BY <1>2, <2>3, <3>3
  <2> QED BY <2>4, <2>5
<1> QED BY <1>1, <1>2

LEMMA UnshownServed ==
  ASSUME Typed, turns' \in Nat, NEW r \in Slots, Serve(r)
  PROVE  Unshown \subseteq Unshown'
<1> SUFFICES ASSUME NEW s \in Slots, SentHere(calls[s])
             PROVE  Ids(ToSet(calls[s].messages)) \subseteq Unshown'
  BY DEF Unshown
<1>1. /\ calls[s] # NoCall /\ calls[s].kind = "send" /\ calls[s].done
      /\ calls[s].phase # "failed" /\ calls[s].with = partner
  BY DEF SentHere
<1>2. partner' = partner
  BY DEF Serve, panel
<1>3. calls'[s] # NoCall /\ calls'[s].kind = "send" /\ calls'[s].with = partner
  BY <1>1, ServeCalls
<1>4. calls'[s].done /\ calls'[s].phase # "failed" /\ calls'[s].messages = calls[s].messages
  BY <1>1, StoredStays
<1>5. SentHere(calls[s])'
  BY <1>2, <1>3, <1>4 DEF SentHere
<1>6. Ids(ToSet(calls[s].messages)) \subseteq Ids(ToSet(calls[s].messages))'
  BY <1>4 DEF Ids
<1> QED BY <1>5, <1>6 DEF Unshown

\* The partner's handler tells Me of the messages it has marked.
LEMMA UntickedServed ==
  ASSUME Typed, turns' \in Nat, NEW r \in Slots, Serve(r)
  PROVE  Unticked \subseteq Unticked'
<1>1. ToSet(events) \subseteq ToSet(events')
  BY Announces
<1>2. ASSUME NEW e \in ToSet(events), e.event = "message:read" PROVE e.rows \subseteq Unticked'
  BY <1>1, <1>2 DEF Unticked
<1>3. ASSUME NEW s \in Slots, handlers[s].pc = "notifyRead", handlers[s].peer = Me
      PROVE  handlers[s].page \subseteq Unticked'
  <2>1. CASE s # r
    <3>1. handlers'[s] = handlers[s]
      BY <2>1, ServeMoves
    <3>2. /\ handlers'[s].pc = "notifyRead" /\ handlers'[s].peer = Me
          /\ handlers'[s].page = handlers[s].page
      BY <1>3, <3>1
    <3>3. handlers'[s].page \subseteq
            UNION {handlers'[k].page : k \in {x \in Slots : /\ handlers'[x].pc = "notifyRead"
                                                          /\ handlers'[x].peer = Me}}
      BY <3>2, Zenon
    <3> QED BY <3>2, <3>3 DEF Unticked
  <2>2. CASE s = r
    <3>1. NotifyRead(r)
      BY <1>3, <2>2, ServeMoves, StepAt DEF At
    <3>2. PICK page : page = handlers[r].page
      OBVIOUS
    <3>3. sent' = Events("message:read", Me, page)
      BY <1>3, <2>2, <3>1, <3>2 DEF NotifyRead, Emit
    <3>4. ASSUME NEW i \in page PROVE i \in Unticked'
      <4> DEFINE e == [event |-> "message:read", to |-> Me, row |-> i]
      <4>1. e \in sent' /\ e.to = Me /\ e.event = "message:read" /\ e.row = i
            /\ e.event \in PushedNames
        BY <3>3, <3>4 DEF Events, PushedNames
      <4> HIDE DEF e
      <4>2. PICK p \in ToSet(events') : p.event = "message:read" /\ i \in p.rows
        BY <4>1, Announces
      <4> QED BY <4>2 DEF Unticked
    <3> QED BY <2>2, <3>2, <3>4
  <2> QED BY <2>1, <2>2
<1>4. ASSUME NEW i \in Unticked PROVE i \in Unticked'
  <2>1. \/ \E e \in ToSet(events) : e.event = "message:read" /\ i \in e.rows
        \/ \E s \in Slots : /\ handlers[s].pc = "notifyRead" /\ handlers[s].peer = Me
                            /\ i \in handlers[s].page
    BY <1>4, Zenon DEF Unticked
  <2> QED BY <1>2, <1>3, <2>1
<1> QED BY <1>4

\* Whoever has sent a message stays its sender.
LEMMA SendersStay ==
  ASSUME Onward, NEW rows
  PROVE  SenderOf(rows) \subseteq SenderOf(rows)'
<1> SUFFICES ASSUME NEW m \in messages, m.id \in rows PROVE m.sender \in SenderOf(rows)'
  BY DEF SenderOf
<1>1. PICK n \in messages' : n.id = m.id /\ n.sender = m.sender
  BY DEF Onward, MessagesGrow
<1> QED BY <1>1 DEF SenderOf

\* A handler that is about to tell Me of the open thread, or has told.
LEMMA HandlerTells ==
  ASSUME Typed, turns' \in Nat, NEW r \in Slots, Serve(r), HandlerRereads(handlers[r])
  PROVE  Rereading'
<1>1. PICK h, g : h = handlers[r] /\ g = handlers'[r] /\ HandlerRereads(h)
  OBVIOUS
<1>2. /\ h \in Handler /\ Knows(h) /\ h.peer = Me /\ Onward /\ partner' = partner
      /\ handlers \in [Slots -> Handler \cup {Idle}]
  BY <1>1, ServeMoves DEF HandlerRereads, Serve, panel, TypeOK, HandlersTypeOK
<1>3. CASE h.pc = "settleReply"
  <2>1. SettleReply(r)
    BY <1>1, <1>3, ServeMoves, StepAt DEF At
  <2>2. /\ g.pc \in {"notifyReply", "notifyMessage"} /\ g.peer = Me /\ g.user = h.user
    BY <1>1, <1>2, <2>1 DEF SettleReply, Goto, Handler
  <2>3. h.user = partner
    BY <1>1, <1>3 DEF HandlerRereads
  <2>4. HandlerRereads(g)'
    BY <1>2, <2>2, <2>3 DEF HandlerRereads
  <2> QED BY <1>1, <2>4 DEF Rereading
<1>4. CASE h.pc \in {"notifyReply", "notifyRequestAccepted"}
  <2>1. NotifyReply(r) \/ NotifyRequestAccepted(r)
    BY <1>1, <1>4, ServeMoves, StepAt DEF At
  <2>2. PICK i : sent' = Events("message:request_accepted", Me, {i})
                 \/ \E j : sent' = Events("message:request_accepted", Me, {i})
                                   \cup Events("message:received", Me, {j})
    BY <1>1, <1>2, <2>1 DEF NotifyReply, NotifyRequestAccepted, Emit
  <2> DEFINE e == [event |-> "message:request_accepted", to |-> Me, row |-> i]
  <2>3. e \in sent' /\ e.to = Me /\ e.event = "message:request_accepted"
        /\ e.event \in PushedNames
    BY <2>2 DEF Events, PushedNames
  <2> HIDE DEF e
  <2>4. PICK p \in ToSet(events') : p.event = "message:request_accepted"
    BY <2>3, Announces
  <2>5. EventRereads(p)'
    BY <2>4 DEF EventRereads
  <2> QED BY <2>5 DEF Rereading
<1>5. CASE h.pc = "notifyMessage"
  <2>1. NotifyMessage(r)
    BY <1>1, <1>5, ServeMoves, StepAt DEF At
  <2>2. sent' = Events("message:received", Me, {h.row})
    BY <1>1, <1>2, <2>1 DEF NotifyMessage, Emit
  <2>3. PICK m \in messages : m.id = h.row /\ m.sender = partner
    BY <1>1, <1>2, <1>5 DEF Knows, Stored, HandlerRereads
  <2> DEFINE e == [event |-> "message:received", to |-> Me, row |-> h.row]
  <2>4. e \in sent' /\ e.to = Me /\ e.event = "message:received" /\ e.row = h.row
        /\ e.event \in PushedNames
    BY <2>2 DEF Events, PushedNames
  <2> HIDE DEF e
  <2>5. PICK p \in ToSet(events') : p.event = "message:received" /\ h.row \in p.rows
    BY <2>4, Announces
  <2>6. PICK rows : rows = p.rows
    OBVIOUS
  <2>7. partner \in SenderOf(rows)
    BY <2>3, <2>5, <2>6 DEF SenderOf
  <2>8. partner' \in SenderOf(rows)'
    BY <1>2, <2>7, SendersStay
  <2>9. EventRereads(p)'
    BY <2>5, <2>6, <2>8 DEF EventRereads
  <2> QED BY <2>9 DEF Rereading
<1> QED BY <1>1, <1>3, <1>4, <1>5 DEF HandlerRereads

LEMMA RereadingServed ==
  ASSUME Typed, turns' \in Nat, NEW r \in Slots, Serve(r), Rereading
  PROVE  Rereading'
<1>1. partner' = partner /\ settling' = settling /\ Onward
  BY ServeMoves DEF Serve, panel
<1>2. ASSUME NEW s \in Slots, CallRereads(s) PROVE Rereading'
  <2>1. /\ calls[s] # NoCall
        /\ \/ calls[s].kind \in Reads \/ Decided(s)
           \/ /\ calls[s].kind = "send" /\ calls[s].first
              /\ calls[s].done /\ calls[s].phase # "failed"
    BY <1>2 DEF CallRereads
  <2>2. calls'[s] # NoCall /\ calls'[s].kind = calls[s].kind /\ calls'[s].first = calls[s].first
    BY <2>1, ServeCalls
  <2>3. CASE calls[s].kind \in Reads
    BY <2>2, <2>3 DEF Rereading, CallRereads
  <2>4. CASE Decided(s)
    <3>1. Decided(s)'
      BY <2>4, DecidedStays
    <3> QED BY <2>2, <3>1 DEF Rereading, CallRereads
  <2>5. CASE /\ calls[s].kind = "send" /\ calls[s].first
             /\ calls[s].done /\ calls[s].phase # "failed"
    <3>1. calls'[s].done /\ calls'[s].phase # "failed"
      BY <2>1, <2>5, StoredStays
    <3> QED BY <2>2, <2>5, <3>1 DEF Rereading, CallRereads
  <2> QED BY <2>1, <2>3, <2>4, <2>5
<1>3. ASSUME NEW s \in Slots, HandlerRereads(handlers[s]) PROVE Rereading'
  <2>1. CASE s = r
    BY <1>3, <2>1, HandlerTells
  <2>2. CASE s # r
    <3>1. handlers'[s] = handlers[s]
      BY <2>2, ServeMoves
    <3>2. HandlerRereads(handlers[s])'
      BY <1>1, <1>3, <3>1 DEF HandlerRereads
    <3> QED BY <3>2 DEF Rereading
  <2> QED BY <2>1, <2>2
<1>4. ASSUME NEW e \in ToSet(events), EventRereads(e) PROVE Rereading'
  <2>1. e \in ToSet(events')
    BY Announces
  <2>2. PICK rows : rows = e.rows
    OBVIOUS
  <2>3. partner \in SenderOf(rows) => partner' \in SenderOf(rows)'
    BY <1>1, SendersStay
  <2>4. EventRereads(e)'
    BY <1>4, <2>2, <2>3 DEF EventRereads
  <2> QED BY <2>1, <2>4 DEF Rereading
<1>5. settling # "nothing" => Rereading'
  BY <1>1 DEF Rereading
<1> QED BY <1>2, <1>3, <1>4, <1>5 DEF Rereading

\* What a thread that was current still needs, after a query.
Follows(state, u) ==
  /\ StateShown(state, u)'
  /\ Ids(Conversation(Me, u)) \subseteq Ids(Conversation(Me, u))'
  /\ Covers(Ids(Conversation(Me, u)) \cup Unshown', Conversation(Me, u)', Unheard(state, u)')
  /\ Unheard(state, u) \subseteq Unheard(state, u)'
  /\ Ticked(Conversation(Me, u))' \subseteq Ticked(Conversation(Me, u)) \cup Unticked'

\* A new message with the partner is told, or shown by the answer to its send.
LEMMA FollowsMessage ==
  ASSUME Typed, turns' \in Nat, NEW r \in Slots, Serve(r), handlers[r].pc = "insertMessage",
         NEW u \in Partners, u = partner, tables' # tables,
         calls[r] # NoCall => calls[r].with = u, NEW state, StateShown(state, u)
  PROVE  Rereading' \/ Follows(state, u)
<1>1. PICK h, g : h = handlers[r] /\ g = handlers'[r]
  OBVIOUS
<1>2. /\ h \in Handler /\ Knows(h) /\ handlers \in [Slots -> Handler \cup {Idle}]
      /\ TypeOK /\ TypeOK' /\ Numbered /\ (MessageStep(r) \/ RejectInsert(r))
      /\ partner' = partner
  BY <1>1, ServeMoves DEF Serve, panel, TypeOK, HandlersTypeOK
<1>3. g # Idle
  BY <1>1, <1>2, StepReads DEF MessageSteps
<1>4. g.pc \in {"settleReply", "notifyMessage"} /\ g.user = h.user /\ g.peer = h.peer
  BY <1>1, <1>3, ServeMoves DEF Goes
<1>5. PICK m : m = NewMessage(r)
  OBVIOUS
<1>6. /\ messages' = messages \cup {m} /\ m.sender = h.user /\ m.recipient = h.peer
      /\ ~m.read /\ InsertMessage(r)
  BY <1>1, <1>2, <1>3, <1>5, ServeStores
<1>7. StateShown(state, u)' /\ Unheard(state, u)' = Unheard(state, u)
  BY <1>6, StateStays DEF InsertMessage
<1>8. /\ Conversation(Me, u) \subseteq Conversation(Me, u)'
      /\ \A n \in Conversation(Me, u)' : n \in Conversation(Me, u) \/ n = m
  BY <1>6 DEF Conversation
<1>9. Ids(Conversation(Me, u)) \subseteq Ids(Conversation(Me, u))'
  BY <1>8 DEF Ids
<1>10. Ticked(Conversation(Me, u))' \subseteq Ticked(Conversation(Me, u))
  BY <1>6, <1>8 DEF Ticked
<1>11. CASE calls[r] = NoCall
  <2>1. h.user # Me /\ h.peer = Me
    BY <1>1, <1>11, ServeMoves
  <2>2. CASE h.user = u
    <3>1. HandlerRereads(g)'
      BY <1>2, <1>4, <2>1, <2>2 DEF HandlerRereads
    <3> QED BY <1>1, <3>1 DEF Rereading
  <2>3. CASE h.user # u
    <3>1. m \notin Conversation(Me, u)'
      BY <1>6, <2>1, <2>3 DEF Conversation, MessagePair
    <3>2. Covers(Ids(Conversation(Me, u)) \cup Unshown', Conversation(Me, u)',
                 Unheard(state, u)')
      BY <1>8, <3>1 DEF Ids, Covers
    <3> QED BY <1>7, <1>9, <1>10, <3>2 DEF Follows
  <2> QED BY <2>2, <2>3
<1>12. CASE calls[r] # NoCall
  <2>1. calls[r].kind = "send" /\ calls[r].phase = "sent"
    <3>1. h.op = "sendMessage"
      BY <1>1, <1>2 DEF Knows, StepsOf
    <3> QED BY <1>1, <1>12, <3>1, ServeMoves DEF OpOf
  <2>2. /\ calls'[r] # NoCall /\ calls'[r].kind = "send" /\ calls'[r].with = u
        /\ calls'[r].first = calls[r].first /\ calls'[r].phase = "sent"
        /\ calls'[r].done /\ calls'[r].messages = <<m>>
    BY <1>1, <1>3, <1>5, <1>12, <2>1, ServeCalls
  <2>3. SentHere(calls[r])'
    BY <1>2, <2>2 DEF SentHere
  <2>4. m.id \in Ids(ToSet(calls[r].messages))'
    <3>1. ToSet(<<m>>) = {m}
      BY DEF ToSet
    <3> QED BY <2>2, <3>1 DEF Ids
  <2>5. m.id \in Unshown'
    BY <2>3, <2>4 DEF Unshown
  <2>6. Covers(Ids(Conversation(Me, u)) \cup Unshown', Conversation(Me, u)',
               Unheard(state, u)')
    BY <1>8, <2>5 DEF Ids, Covers
  <2> QED BY <1>7, <1>9, <1>10, <2>6 DEF Follows
<1> QED BY <1>11, <1>12

\* The partner has read what Me has sent: the ticks are told.
LEMMA FollowsRead ==
  ASSUME Typed, turns' \in Nat, NEW r \in Slots, Serve(r), handlers[r].pc = "markRead",
         NEW u \in Partners, tables' # tables, calls[r] = NoCall,
         NEW state, StateShown(state, u)
  PROVE  Follows(state, u)
<1>1. PICK h, g : h = handlers[r] /\ g = handlers'[r]
  OBVIOUS
<1>2. /\ h \in Handler /\ h.peer = Me /\ handlers \in [Slots -> Handler \cup {Idle}]
      /\ messages \in SUBSET Message
  BY <1>1, ServeMoves DEF TypeOK, HandlersTypeOK, DatabaseTypeOK
<1>3. MarkRead(r)
  BY <1>1, ServeMoves, StepAt DEF At
<1>4. PICK R : R = ToMark(r)
  OBVIOUS
<1>5. /\ messages' = (messages \ R) \cup {[m EXCEPT !.read = TRUE] : m \in R}
      /\ R \in SUBSET messages /\ \A m \in R : m.sender = Me
      /\ UNCHANGED <<friendships, messageRequests, blocks, nextId, befriended>>
  BY <1>1, <1>2, <1>3, <1>4 DEF MarkRead, ToMark, UnreadFrom
<1>6. R # {}
  BY <1>5 DEF tables
<1>7. handlers' = [handlers EXCEPT ![r].pc = "notifyRead", ![r].page = Ids(R)]
  BY <1>3, <1>4, <1>6 DEF MarkRead
<1>8. g.pc = "notifyRead" /\ g.page = Ids(R) /\ g.peer = Me
  BY <1>1, <1>2, <1>7 DEF Handler
<1>9. Ids(R) \subseteq Unticked'
  BY <1>1, <1>8 DEF Unticked
<1>10. StateShown(state, u)' /\ Unheard(state, u)' = Unheard(state, u)
  BY <1>5, StateStays
<1>11. \A m \in messages : LET n == [m EXCEPT !.read = TRUE] IN
         n.id = m.id /\ n.sender = m.sender /\ n.recipient = m.recipient
  BY <1>2 DEF Message
<1>12. ASSUME NEW m \in messages
       PROVE  \E n \in messages' :
                n.id = m.id /\ n.sender = m.sender /\ n.recipient = m.recipient
  <2>1. CASE m \in R
    <3>1. [m EXCEPT !.read = TRUE] \in messages'
      BY <1>5, <2>1
    <3> QED BY <1>11, <3>1
  <2>2. CASE m \notin R
    BY <1>5, <2>2
  <2> QED BY <2>1, <2>2
<1>13. ASSUME NEW n \in messages'
       PROVE  \E m \in messages :
                /\ n.id = m.id /\ n.sender = m.sender /\ n.recipient = m.recipient
                /\ n = m \/ m \in R
  <2>1. CASE n \in messages
    BY <2>1
  <2>2. CASE n \notin messages
    <3>1. PICK m \in R : n = [m EXCEPT !.read = TRUE]
      BY <1>5, <2>2
    <3> QED BY <1>5, <1>11, <3>1
  <2> QED BY <2>1, <2>2
<1>14. Ids(Conversation(Me, u)) = Ids(Conversation(Me, u))'
  <2>1. \A m \in Conversation(Me, u) : \E n \in Conversation(Me, u)' : n.id = m.id
    BY <1>12 DEF Conversation, MessagePair
  <2>2. \A n \in Conversation(Me, u)' : \E m \in Conversation(Me, u) : n.id = m.id
    BY <1>13 DEF Conversation, MessagePair
  <2> QED BY <2>1, <2>2 DEF Ids
<1>15. Ticked(Conversation(Me, u))' \subseteq Ticked(Conversation(Me, u)) \cup Ids(R)
  <2> SUFFICES ASSUME NEW n \in Conversation(Me, u)', n.sender = Me, n.read, n.id \notin Ids(R)
               PROVE  n.id \in Ticked(Conversation(Me, u))
    BY DEF Ticked
  <2>1. PICK m \in messages : n.id = m.id /\ (n = m \/ m \in R)
    BY <1>13 DEF Conversation
  <2>2. n = m
    BY <2>1 DEF Ids
  <2>3. n \in Conversation(Me, u)
    BY <2>1, <2>2 DEF Conversation, MessagePair
  <2> QED BY <2>3 DEF Ticked
<1>16. Covers(Ids(Conversation(Me, u)) \cup Unshown', Conversation(Me, u)', Unheard(state, u)')
  BY <1>14 DEF Covers, Ids
<1> QED BY <1>9, <1>10, <1>14, <1>15, <1>16 DEF Follows

\* A request is decided: its sender is told, or the answer reads the thread.
LEMMA FollowsDecision ==
  ASSUME Typed, turns' \in Nat, NEW r \in Slots, Serve(r), handlers[r].pc = "setStatus",
         calls[r] = NoCall => handlers[r].op # "declineRequest"
  PROVE  Rereading'
<1>1. PICK h, g : h = handlers[r] /\ g = handlers'[r]
  OBVIOUS
<1>2. /\ h \in Handler /\ Knows(h) /\ handlers \in [Slots -> Handler \cup {Idle}]
      /\ partner' = partner /\ h.op \in {"acceptRequest", "declineRequest"}
  <2>1. h \in Handler /\ Knows(h) /\ handlers \in [Slots -> Handler \cup {Idle}]
    BY <1>1, ServeMoves DEF TypeOK, HandlersTypeOK
  <2> QED BY <1>1, <2>1 DEF Serve, panel, Knows, StepsOf, Stored
<1>3. AnswerSetStatus(r)
  BY <1>1, ServeMoves, StepAt DEF At
<1>4. CASE calls[r] = NoCall
  <2>1. g.pc = "notifyRequestAccepted" /\ g.peer = Me
    <3>1. h.op = "acceptRequest" /\ h.peer = Me
      BY <1>1, <1>2, <1>4, ServeMoves
    <3> QED BY <1>1, <1>2, <1>3, <3>1 DEF AnswerSetStatus, Goto, Handler
  <2>2. HandlerRereads(g)'
    BY <2>1 DEF HandlerRereads
  <2> QED BY <1>1, <2>2 DEF Rereading
<1>5. CASE calls[r] # NoCall
  <2>1. calls[r].kind \in {"accept", "decline"}
    <3>1. h.op = OpOf(calls[r].kind)
      BY <1>1, <1>5, ServeMoves
    <3> QED BY <1>2, <3>1 DEF OpOf
  <2>2. calls'[r] # NoCall /\ calls'[r].kind = calls[r].kind
    BY <1>5, ServeCalls
  <2>3. CASE h.op = "acceptRequest"
    <3>1. g.pc = "notifyRequestAccepted"
      BY <1>1, <1>2, <1>3, <2>3 DEF AnswerSetStatus, Goto, Handler
    <3>2. Decided(r)'
      BY <1>1, <2>1, <2>2, <3>1 DEF Decided, At
    <3> QED BY <2>2, <3>2 DEF Rereading, CallRereads
  <2>4. CASE h.op = "declineRequest"
    <3>1. g = Idle
      BY <1>1, <1>2, <1>3, <2>4 DEF AnswerSetStatus, Respond
    <3>2. Succeeds(r) /\ ~At(r, "findPage")
      BY <1>1, <2>4 DEF Succeeds, At
    <3>3. handlers'[r] = Idle
      BY <1>1, <3>1
    <3>4. calls'[r].phase = "ok"
      BY <1>5, <3>2, <3>3, ServeCalls
    <3>5. Decided(r)'
      BY <2>1, <2>2, <3>4 DEF Decided
    <3> QED BY <2>2, <3>5 DEF Rereading, CallRereads
  <2> QED BY <1>2, <2>3, <2>4
<1> QED BY <1>4, <1>5

\* The reply to a request that the window asks to decide about.
LEMMA FollowsReply ==
  ASSUME Typed, turns' \in Nat, NEW r \in Slots, Serve(r), handlers[r].pc = "settleReply",
         NEW u \in Partners, u \in Touched, calls[r] # NoCall, calls[r].with = u,
         StateShown("reply_accepts", u)
  PROVE  Follows("reply_accepts", u)
<1>1. PICK h : h = handlers[r]
  OBVIOUS
<1>2. /\ h \in Handler /\ Knows(h) /\ h.user = Me /\ Numbered /\ tables' # tables
      /\ TypeOK
  BY <1>1, ServeMoves DEF Touched
<1>3. SettleReply(r)
  BY <1>1, ServeMoves, StepAt DEF At
<1>4. /\ UNCHANGED <<friendships, blocks, messages, nextId, befriended>>
      /\ SetStatus(h.ref, "accepted")
  BY <1>1, <1>3 DEF SettleReply
<1>5. PICK q \in messageRequests : q.id = h.ref /\ q.status = "pending"
  <2> SUFFICES ASSUME Undecided(h.ref) = {} PROVE FALSE
    BY DEF Undecided
  <2>1. messageRequests' = messageRequests
    BY <1>4 DEF SetStatus
  <2> QED BY <1>2, <1>4, <2>1 DEF tables
<1>6. Undecided(h.ref) = {q}
  BY <1>2, <1>5 DEF Undecided, Numbered, RequestsNumbered
<1>7. PICK p : p = [q EXCEPT !.status = "accepted"]
  OBVIOUS
<1>8. messageRequests' = (messageRequests \ {q}) \cup {p}
  BY <1>4, <1>6, <1>7 DEF SetStatus
<1>9. /\ q.recipient = Me /\ q \in MessageRequest
      /\ p.requester = q.requester /\ p.recipient = q.recipient /\ p.status = "accepted"
  <2>1. q \in MessageRequest
    BY <1>2, <1>5 DEF TypeOK, DatabaseTypeOK
  <2>2. q.recipient = h.user
    BY <1>1, <1>2, <1>5 DEF Knows
  <2> QED BY <1>2, <1>7, <2>1, <2>2 DEF MessageRequest
<1>10. Conversation(Me, u)' = Conversation(Me, u)
  BY <1>4 DEF Conversation
<1>11. RequestPair(q) = {Me, u}
  <2> SUFFICES ASSUME RequestPair(q) # {Me, u} PROVE FALSE
    OBVIOUS
  <2>1. RequestPair(p) # {Me, u}
    BY <1>9 DEF RequestPair
  <2>2. RequestsBetween(Me, u)' = RequestsBetween(Me, u)
    BY <1>8, <2>1 DEF RequestsBetween
  <2>3. StateWith(u)' = StateWith(u)
    BY <1>4, <2>2 DEF StateWith, RequestState, StateOf, BlockExistsBetween, AreFriends,
                      FriendshipsBetween
  <2>4. Truth(u)' = Truth(u)
    BY <1>10, <2>2, <2>3 DEF Truth, Ids, Ticked
  <2> QED BY <2>4 DEF Touched
<1>12. q \in RequestsBetween(Me, u) /\ p \in RequestsBetween(Me, u)'
  BY <1>5, <1>8, <1>9, <1>11 DEF RequestsBetween, RequestPair
<1>13. RequestState(u) = "reply_accepts"
  BY <1>2, <1>5, <1>9, <1>12, RequestStateIs DEF StateOf
<1>14. ~BlockExistsBetween(Me, u) /\ ~AreFriends(Me, u)
  BY <1>13, StateIs DEF StateShown
<1>15. RequestsBetween(Me, u)' = {p}
  <2>1. RequestsBetween(Me, u) = {q}
    BY <1>2, <1>12 DEF RequestsBetween, Numbered, RequestsNumbered
  <2> QED BY <1>8, <1>12, <2>1 DEF RequestsBetween
<1>16. RequestState(u)' = "open"
  <2>1. (CHOOSE k \in {p} : TRUE) = p
    OBVIOUS
  <2> QED BY <1>9, <1>15, <2>1 DEF RequestState, StateOf
<1>17. StateWith(u)' = "open"
  BY <1>4, <1>14, <1>16 DEF StateWith, BlockExistsBetween, AreFriends, FriendshipsBetween
<1>18. StateShown("reply_accepts", u)'
  BY <1>16, <1>17 DEF StateShown
<1>19. Unheard("reply_accepts", u) = {}
  BY DEF Unheard
<1>20. Covers(Ids(Conversation(Me, u)) \cup Unshown', Conversation(Me, u)',
              Unheard("reply_accepts", u)')
  BY <1>10 DEF Covers, Ids
<1> QED BY <1>10, <1>18, <1>19, <1>20 DEF Follows, Ids, Ticked

\* The opening message of the partner, which the window does not hear of.
LEMMA FollowsOpening ==
  ASSUME Typed, turns' \in Nat, NEW r \in Slots, Serve(r), handlers[r].pc = "insertOpening",
         NEW u \in Partners, u \in Touched, calls[r] = NoCall,
         NEW state, StateShown(state, u)
  PROVE  Follows(state, u)
<1>1. PICK h : h = handlers[r]
  OBVIOUS
<1>2. /\ h \in Handler /\ h.user # Me /\ h.peer = Me /\ Numbered /\ tables' # tables
      /\ TypeOK /\ TypeOK' /\ (MessageStep(r) \/ RejectInsert(r))
      /\ handlers \in [Slots -> Handler \cup {Idle}]
  BY <1>1, ServeMoves DEF Touched, TypeOK, HandlersTypeOK
<1>3. handlers'[r] # Idle
  BY <1>1, <1>2, ServeMoves, StepReads
<1>4. PICK m, q : /\ m = NewMessage(r)
                  /\ q = [id |-> nextId, requester |-> h.user, recipient |-> h.peer,
                          status |-> "pending"]
  OBVIOUS
<1>5. /\ messages' = messages \cup {m} /\ m.id = nextId /\ m.sender = h.user
      /\ m.recipient = Me
      /\ InsertOpening(r) /\ RequestsBetween(h.user, Me) = {}
      /\ messageRequests' = messageRequests \cup {q}
  BY <1>1, <1>2, <1>3, <1>4, ServeStores
<1>6. UNCHANGED <<friendships, blocks>>
  BY <1>5 DEF InsertOpening
<1>7. q.id = nextId /\ q.requester = h.user /\ q.recipient = Me /\ q.status = "pending"
  BY <1>2, <1>4
<1>8. h.user = u
  <2> SUFFICES ASSUME h.user # u PROVE FALSE
    OBVIOUS
  <2>1. Conversation(Me, u)' = Conversation(Me, u)
    BY <1>2, <1>5 DEF Conversation, MessagePair
  <2>2. RequestsBetween(Me, u)' = RequestsBetween(Me, u)
    BY <1>2, <1>5, <1>7 DEF RequestsBetween, RequestPair
  <2>3. StateWith(u)' = StateWith(u)
    BY <1>6, <2>2 DEF StateWith, RequestState, StateOf, BlockExistsBetween, AreFriends,
                      FriendshipsBetween
  <2>4. Truth(u)' = Truth(u)
    BY <2>1, <2>2, <2>3 DEF Truth, Ids, Ticked
  <2> QED BY <2>4 DEF Touched
<1>9. RequestsBetween(Me, u) = {} /\ RequestsBetween(Me, u)' = {q}
  <2>1. RequestsBetween(Me, u) = {}
    BY <1>5, <1>8 DEF RequestsBetween
  <2> QED BY <1>5, <1>7, <1>8, <2>1 DEF RequestsBetween, RequestPair
<1>10. RequestState(u) = "first_contact" /\ RequestState(u)' = "reply_accepts"
  <2>1. (CHOOSE k \in {q} : TRUE) = q
    OBVIOUS
  <2> QED BY <1>7, <1>9, <2>1 DEF RequestState, StateOf
<1>11. state = StateWith(u) /\ state # "reply_accepts"
  BY <1>10, StateIs DEF StateShown
<1>12. StateShown(state, u)'
  <2>1. /\ BlockExistsBetween(Me, u)' = BlockExistsBetween(Me, u)
        /\ AreFriends(Me, u)' = AreFriends(Me, u)
    BY <1>6 DEF BlockExistsBetween, AreFriends, FriendshipsBetween
  <2>2. CASE BlockExistsBetween(Me, u)
    BY <1>11, <2>1, <2>2 DEF StateShown, StateWith
  <2>3. CASE ~BlockExistsBetween(Me, u) /\ AreFriends(Me, u)
    BY <1>11, <2>1, <2>3 DEF StateShown, StateWith
  <2>4. CASE ~BlockExistsBetween(Me, u) /\ ~AreFriends(Me, u)
    BY <1>10, <1>11, <2>1, <2>4 DEF StateShown, StateWith
  <2> QED BY <2>2, <2>3, <2>4
<1>13. nextId \in Unheard(state, u)' /\ Unheard(state, u) \subseteq Unheard(state, u)'
  BY <1>5, <1>7, <1>8, <1>11 DEF Unheard, PendingFor, Ids
<1>14. /\ Conversation(Me, u) \subseteq Conversation(Me, u)'
       /\ \A n \in Conversation(Me, u)' : n \in Conversation(Me, u) \/ n = m
  BY <1>5 DEF Conversation
<1>15. Covers(Ids(Conversation(Me, u)) \cup Unshown', Conversation(Me, u)', Unheard(state, u)')
  BY <1>2, <1>5, <1>13, <1>14 DEF Covers, Ids
<1>16. /\ Ids(Conversation(Me, u)) \subseteq Ids(Conversation(Me, u))'
       /\ Ticked(Conversation(Me, u))' \subseteq Ticked(Conversation(Me, u))
  BY <1>2, <1>5, <1>14 DEF Ids, Ticked
<1> QED BY <1>12, <1>13, <1>15, <1>16 DEF Follows

\* A change with the partner that this tab gets to know of.
LEMMA AnnouncedFollows ==
  ASSUME Typed, turns' \in Nat, NEW r \in Slots, Serve(r), Announced(r), thread # NoThread,
         NEW u \in Partners, u = partner, u \in Touched,
         NEW state, state = thread.state, StateShown(state, u)
  PROVE  Rereading' \/ Follows(state, u)
<1>1. PICK h, g : h = handlers[r] /\ g = handlers'[r]
  OBVIOUS
<1>2. /\ h \in Handler /\ Knows(h) /\ handlers \in [Slots -> Handler \cup {Idle}]
      /\ partner' = partner /\ tables' # tables
  BY <1>1, ServeMoves DEF Serve, panel, TypeOK, HandlersTypeOK, Touched
<1>3. CASE h.pc = "insertMessage"
  BY <1>1, <1>2, <1>3, FollowsMessage DEF Announced
<1>4. CASE h.pc = "setStatus"
  BY <1>1, <1>4, FollowsDecision DEF Announced
<1>5. CASE h.pc = "markRead"
  BY <1>1, <1>2, <1>5, FollowsRead DEF Announced, At
<1>6. ASSUME h.pc = "settleReply", calls[r] = NoCall PROVE Rereading'
  <2>1. h.peer = Me
    BY <1>1, <1>6, ServeMoves
  <2>2. SettleReply(r)
    BY <1>1, <1>6, ServeMoves, StepAt DEF At
  <2>3. Undecided(h.ref) # {}
    <3> SUFFICES ASSUME Undecided(h.ref) = {} PROVE FALSE
      OBVIOUS
    <3>1. messageRequests' = messageRequests
      BY <1>1, <2>2 DEF SettleReply, SetStatus
    <3> QED BY <1>2, <2>2, <3>1 DEF SettleReply, tables
  <2>4. g.pc = "notifyReply" /\ g.peer = Me
    BY <1>1, <1>2, <2>1, <2>2, <2>3 DEF SettleReply, Goto, Handler
  <2>5. HandlerRereads(g)'
    BY <2>4 DEF HandlerRereads
  <2> QED BY <1>1, <2>5 DEF Rereading
<1>7. ASSUME h.pc = "settleReply", calls[r] # NoCall PROVE Rereading' \/ Follows(state, u)
  <2>1. calls[r].with = u /\ (calls[r].first \/ state = "reply_accepts")
    BY <1>1, <1>7 DEF Announced, AsksToDecide, At
  <2>2. CASE state = "reply_accepts"
    BY <1>1, <1>7, <2>1, <2>2, FollowsReply
  <2>3. CASE calls[r].first
    <3>1. calls[r].kind = "send" /\ calls[r].phase = "sent"
      <4>1. h.op = "sendMessage"
        BY <1>2, <1>7 DEF Knows, StepsOf
      <4> QED BY <1>1, <1>7, <4>1, ServeMoves DEF OpOf
    <3>2. calls[r].done
      <4>1. SendHolds(calls[r], h)
        BY <1>1, <1>7 DEF Typed, SlotsHold, SlotHolds
      <4> QED BY <1>7, <3>1, <4>1 DEF SendHolds, Stored
    <3>3. calls'[r].done /\ calls'[r].phase # "failed"
      BY <1>7, <3>1, <3>2, StoredStays
    <3>4. calls'[r] # NoCall /\ calls'[r].kind = "send" /\ calls'[r].first
      BY <1>7, <2>3, <3>1, ServeCalls
    <3> QED BY <3>3, <3>4 DEF Rereading, CallRereads
  <2> QED BY <2>1, <2>2, <2>3
<1>8. ASSUME h.pc = "insertOpening", calls[r] = NoCall PROVE Follows(state, u)
  BY <1>1, <1>8, FollowsOpening
<1>9. ASSUME h.pc = "insertOpening", calls[r] # NoCall PROVE Rereading'
  <2>1. calls[r].first
    BY <1>1, <1>9 DEF Announced, At
  <2>2. calls[r].kind = "send" /\ calls[r].phase = "sent"
    <3>1. h.op = "sendMessage"
      BY <1>2, <1>9 DEF Knows, StepsOf
    <3> QED BY <1>1, <1>9, <3>1, ServeMoves DEF OpOf
  <2>3. g # Idle
    BY <1>1, <1>2, <1>9, ServeMoves, StepReads
  <2>4. /\ calls'[r] # NoCall /\ calls'[r].kind = "send"
        /\ calls'[r].first = calls[r].first
    BY <1>9, <2>2, ServeCalls
  <2>5. calls'[r].done /\ calls'[r].phase = "sent"
    <3>1. handlers'[r] # Idle /\ handlers[r].pc \in {"insertMessage", "insertOpening"}
      BY <1>1, <1>9, <2>3
    <3> QED BY <1>9, <2>2, <3>1, ServeCalls
  <2> QED BY <2>1, <2>4, <2>5 DEF Rereading, CallRereads
<1> QED BY <1>1, <1>3, <1>4, <1>5, <1>6, <1>7, <1>8, <1>9 DEF Announced, At

LEMMA WindowServe ==
  ASSUME Typed, turns' \in Nat, WindowHolds, NEW r \in Slots, Serve(r)
  PROVE  WindowHolds'
<1> SUFFICES ASSUME partner # Nobody, thread # NoThread, ~stale'
             PROVE  Rereading' \/ Current'
  BY DEF WindowHolds, Serve, panel
<1>1. /\ ~stale /\ (partner \in Touched => Announced(r))
      /\ UNCHANGED <<partner, thread>>
  BY DEF Serve, panel
<1>2. CASE Rereading
  BY <1>2, RereadingServed
<1>3. CASE Current
  <2>1. PICK u, t, ms : u = partner /\ t = thread /\ ms = ToSet(thread.messages)
    OBVIOUS
  <2>2. u \in Partners
    BY <2>1 DEF Typed, MessengerTypeOK
  <2>3. /\ t.with = u /\ StateShown(t.state, u)
        /\ Ids(ms) \subseteq Ids(Conversation(Me, u))
        /\ Covers(Ids(ms) \cup Unshown, Conversation(Me, u), Unheard(t.state, u))
        /\ Ticked(Conversation(Me, u)) \subseteq Ticked(ms) \cup Unticked \cup Unshown
    BY <1>3, <2>1 DEF Current
  <2>4. Rereading' \/ Follows(t.state, u)
    <3>1. CASE u \in Touched
      BY <1>1, <2>1, <2>2, <2>3, <3>1, AnnouncedFollows
    <3>2. CASE u \notin Touched
      <4>1. /\ Ids(Conversation(Me, u)) = Ids(Conversation(Me, u))'
            /\ Ticked(Conversation(Me, u)) = Ticked(Conversation(Me, u))'
        BY <2>2, <3>2, Untouched
      <4>2. StateShown(t.state, u)' /\ Unheard(t.state, u)' = Unheard(t.state, u)
        BY <2>2, <2>3, <3>2, UntouchedState
      <4>3. Covers(Ids(Conversation(Me, u)) \cup Unshown', Conversation(Me, u)',
                   Unheard(t.state, u)')
        BY <4>1 DEF Covers, Ids
      <4> QED BY <4>1, <4>2, <4>3 DEF Follows
    <3> QED BY <3>1, <3>2
  <2>5. CASE Follows(t.state, u)
    <3>1. Onward
      BY ServeMoves
    <3>2. Unshown \subseteq Unshown' /\ Unticked \subseteq Unticked'
      BY UnshownServed, UntickedServed
    <3>3. Covers(Ids(ms) \cup Unshown', Conversation(Me, u)', Unheard(t.state, u)')
      <4> SUFFICES ASSUME NEW n \in Conversation(Me, u)', n.id \in Ids(Conversation(Me, u))
                   PROVE  \/ n.id \in Ids(ms) \cup Unshown
                          \/ n.sender # Me /\ n.id \in Unheard(t.state, u)
        BY <2>5, <3>2 DEF Covers, Follows
      <4>1. PICK m \in Conversation(Me, u) : m.id = n.id
        BY DEF Ids
      <4>2. m.sender = n.sender
        BY <3>1, <4>1 DEF Onward, MessagesGrow, Numbered, MessagesNumbered, Conversation
      <4> QED BY <2>3, <4>1, <4>2 DEF Covers
    <3>4. /\ StateShown(t.state, u)'
          /\ Ids(ms) \subseteq Ids(Conversation(Me, u))'
          /\ Ticked(Conversation(Me, u))' \subseteq Ticked(ms) \cup Unticked' \cup Unshown'
      BY <2>3, <2>5, <3>2 DEF Follows
    <3>5. Ids(ms)' = Ids(ms) /\ Ticked(ms)' = Ticked(ms)
      BY DEF Ids, Ticked
    <3>6. Current'
      BY <1>1, <2>1, <2>3, <3>3, <3>4, <3>5 DEF Current
    <3> QED BY <3>6
  <2> QED BY <2>4, <2>5
<1> QED BY <1>1, <1>2, <1>3 DEF WindowHolds

LEMMA WindowAtFirst ==
  ASSUME MessengerInit
  PROVE  WindowHolds
<1> SUFFICES ASSUME partner # Nobody, thread # NoThread PROVE Current
  BY DEF WindowHolds
<1>1. TypeOK /\ Numbered
  BY TablesAtFirst DEF MessengerInit
<1>2. thread = [with |-> partner, messages |-> NewestFirst(Conversation(Me, partner)),
                state |-> StateWith(partner), request |-> RequestFrom(partner)]
  BY Zenon DEF MessengerInit
<1>3. PICK ms : ms = NewestFirst(Conversation(Me, partner))
  OBVIOUS
<1>4. thread.with = partner /\ thread.messages = ms /\ thread.state = StateWith(partner)
  BY <1>2, <1>3
<1>5. ToSet(ms) = Conversation(Me, partner)
  BY <1>1, <1>3, ConversationLists
<1>6. StateShown(StateWith(partner), partner)
  BY DEF StateShown
<1>7. Covers(Ids(ToSet(ms)) \cup Unshown, Conversation(Me, partner),
             Unheard(StateWith(partner), partner))
  BY <1>5 DEF Covers, Ids
<1> QED BY <1>4, <1>5, <1>6, <1>7 DEF Current

LEMMA WindowKept ==
  ASSUME MessengerInv, WindowHolds, [MessengerNext]_messengerVars
  PROVE  WindowHolds'
<1>1. Typed /\ ThreadHolds /\ EventsHold
  BY DEF Typed, MessengerInv, MessengerTypeOK, TypeOK
<1>2. CASE UNCHANGED messengerVars
  <2>1. /\ UNCHANGED <<partner, thread, stale, events, settling>> /\ UNCHANGED tables
        /\ UNCHANGED <<calls, handlers>>
    BY <1>2 DEF messengerVars, vars, panel, history
  <2> QED BY <2>1, WindowStays
<1>3. CASE MessengerNext
  <2>1. /\ turns' \in Nat
        /\ LocalStep \/ OthersRelate \/ RunAction \/ \E r \in Slots : Serve(r)
    BY <1>3, NextIs DEF MessengerInv
  <2> QED BY <1>1, <2>1, WindowLocal, WindowRelates, WindowServe
<1> QED BY <1>2, <1>3

(***************************************************************************)
(* Whatever the two of a conversation and the network do, an open thread   *)
(* for which everything has arrived shows the partner's messages, ticks    *)
(* and send state as the server has them: the setThread calls of           *)
(* MessengerContext.jsx, in any order of answers and events.  Excepted are *)
(* the partner's undecided opening message and what it does to the state,  *)
(* the Accept / Decline row after a reply, and the windows that            *)
(* WindowIsCurrent lists as stale.                                         *)
(***************************************************************************)
THEOREM WindowsAreCurrent == MessengerSpec => []WindowIsCurrent
<1>1. MessengerInit => WindowHolds
  BY WindowAtFirst
<1>2. MessengerInv /\ WindowHolds /\ [MessengerNext]_messengerVars => WindowHolds'
  BY WindowKept
<1>3. ASSUME MessengerInv, WindowHolds PROVE WindowIsCurrent
  <2> SUFFICES ASSUME Quiet, partner # Nobody, thread # NoThread, ~stale
               PROVE  /\ thread.with = partner /\ StateShown(thread.state, partner)
                      /\ Ids(ToSet(thread.messages)) \subseteq Ids(Conversation(Me, partner))
                      /\ Ids(Conversation(Me, partner))
                           \subseteq Ids(ToSet(thread.messages))
                                       \cup Unheard(thread.state, partner)
                      /\ Ticked(ToSet(thread.messages)) = Ticked(Conversation(Me, partner))
    BY DEF WindowIsCurrent
  <2>1. /\ ToSet(events) = {} /\ settling = "nothing"
        /\ \A s \in Slots : calls[s] = NoCall /\ handlers[s].pc = "idle"
    BY DEF Quiet, Free, At, ToSet
  <2>2. ~Rereading
    BY <2>1 DEF Rereading, CallRereads, HandlerRereads
  <2>3. Unshown = {} /\ Unticked = {}
    BY <2>1 DEF Unshown, Unticked, SentHere
  <2>4. Current
    BY <1>3, <2>2 DEF WindowHolds
  <2>5. PICK ms : ms = ToSet(thread.messages)
    OBVIOUS
  <2>6. Shown(ms) /\ Numbered
    BY <1>3, <2>5 DEF MessengerInv, ThreadHolds
  <2>7. /\ thread.with = partner /\ StateShown(thread.state, partner)
        /\ Ids(ms) \subseteq Ids(Conversation(Me, partner))
        /\ Ids(Conversation(Me, partner)) \subseteq Ids(ms) \cup Unheard(thread.state, partner)
        /\ Ticked(Conversation(Me, partner)) \subseteq Ticked(ms)
    BY <2>3, <2>4, <2>5 DEF Current, Covers, Ids
  <2>8. ASSUME NEW i \in Ticked(ms) PROVE i \in Ticked(Conversation(Me, partner))
    <3>1. i \in Ids(Conversation(Me, partner)) /\ i \in Ticked(messages)
      BY <2>6, <2>7, <2>8 DEF Shown, Ticked, Ids
    <3>2. PICK m \in Conversation(Me, partner) : m.id = i
      BY <3>1 DEF Ids
    <3>3. PICK n \in messages : n.id = i /\ n.sender = Me /\ n.read
      BY <3>1 DEF Ticked
    <3>4. m = n
      BY <2>6, <3>2, <3>3 DEF Conversation, Numbered, MessagesNumbered
    <3> QED BY <3>2, <3>3, <3>4 DEF Ticked
  <2> QED BY <2>5, <2>7, <2>8
<1> QED BY <1>1, <1>2, <1>3, MessengerInvariant, PTL DEF MessengerSpec

=============================================================================
