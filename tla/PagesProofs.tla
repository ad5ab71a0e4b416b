----------------------------- MODULE PagesProofs -----------------------------
(***************************************************************************)
(* The feed and the profile page, for any users, posts, page size and      *)
(* number of loads, events and requests in flight: they are well-typed, no *)
(* post is listed twice, and once everything has arrived the list is what  *)
(* the server would list.                                                  *)
(*                                                                         *)
(* The last is proved for each post by itself.  A post is Covered while it *)
(* is Right in the list, or the answer to the page's own write will settle *)
(* it (OwnPending), or somebody will still tell (OnItsWay): a request that *)
(* has a promise to keep, or an event that waits.  That an event says what *)
(* is so unless something will come after it (EventsSay) rests on who the  *)
(* author of each post is (Signed).                                        *)
(***************************************************************************)
EXTENDS PostPages, SharingProofs, FiniteSetTheorems, SequenceTheorems

-----------------------------------------------------------------------------
(* Ranks: Nth(S, k) is there, and is another one for another k.            *)

\* How many of S are not above i.
Rank(S, i) == Cardinality({j \in S : j <= i})

LEMMA RankRange ==
  ASSUME NEW S \in SUBSET Nat, IsFiniteSet(S), NEW i \in S
  PROVE  Rank(S, i) \in 1..Cardinality(S)
<1> DEFINE T == {j \in S : j <= i}
<1>1. T \in SUBSET S /\ i \in T
  OBVIOUS
<1>2. IsFiniteSet(T) /\ Cardinality(T) <= Cardinality(S)
  BY <1>1, FS_Subset
<1>3. Cardinality(T) \in Nat /\ Cardinality(T) # 0
  BY <1>1, <1>2, FS_CardinalityType, FS_EmptySet
<1>4. Cardinality(S) \in Nat
  BY FS_CardinalityType
<1> QED BY <1>2, <1>3, <1>4 DEF Rank

LEMMA RankGrows ==
  ASSUME NEW S \in SUBSET Nat, IsFiniteSet(S), NEW i \in S, NEW j \in S, i < j
  PROVE  Rank(S, i) < Rank(S, j)
<1> DEFINE T == {k \in S : k <= i}
           U == {k \in S : k <= j}
<1>1. i \in Nat /\ j \in Nat /\ \A k \in S : k \in Nat
  OBVIOUS
<1>2. U \in SUBSET S /\ T \in SUBSET U /\ j \in U /\ j \notin T
  <2>1. \A k \in S : k <= i => k <= j
    BY <1>1
  <2>2. j <= j /\ ~(j <= i)
    BY <1>1
  <2> QED BY <2>1, <2>2, Zenon
<1>3. IsFiniteSet(U)
  BY <1>2, FS_Subset
<1>4. Cardinality(T) <= Cardinality(U) /\ Cardinality(T) # Cardinality(U)
  BY <1>2, <1>3, FS_Subset
<1>5. Cardinality(T) \in Nat /\ Cardinality(U) \in Nat
  BY <1>2, <1>3, FS_Subset, FS_CardinalityType
<1> QED BY <1>4, <1>5 DEF Rank

\* Every number up to how many there are is the rank of one of them.
LEMMA NthThere ==
  ASSUME NEW S \in SUBSET Nat, IsFiniteSet(S), NEW k \in 1..Cardinality(S)
  PROVE  Nth(S, k) \in S /\ Rank(S, Nth(S, k)) = k
<1>1. Cardinality(S) \in Nat
  BY FS_CardinalityType
<1>2. \E i \in S : Rank(S, i) = k
  <2> SUFFICES ASSUME \A i \in S : Rank(S, i) # k PROVE FALSE
    OBVIOUS
  <2> DEFINE n == Cardinality(S)
             T == (1..n) \ {k}
             f == [i \in S |-> Rank(S, i)]
  <2>1. IsFiniteSet(T) /\ Cardinality(T) = n - 1
    <3>1. IsFiniteSet(1..n) /\ Cardinality(1..n) = n
      BY <1>1, FS_Interval
    <3>2. k \in 1..n
      OBVIOUS
    <3> HIDE DEF n
    <3>3. IsFiniteSet(T) /\ Cardinality(T) = Cardinality(1..n) - 1
      BY <3>1, <3>2, FS_RemoveElement, Zenon
    <3> QED BY <3>1, <3>3
  <2>2. f \in [S -> T]
    BY RankRange
  <2>3. PICK x \in S, y \in S : x # y /\ f[x] = f[y]
    <3> HIDE DEF f, T
    <3>1. Cardinality(T) < Cardinality(S)
      BY <1>1, <2>1
    <3> QED BY <2>1, <2>2, <3>1, FS_PigeonHole
  <2>4. Rank(S, x) = Rank(S, y)
    BY <2>3
  <2>5. Rank(S, x) \in Nat
    BY <1>1, RankRange
  <2> QED BY <2>3, <2>4, <2>5, RankGrows
<1> QED BY <1>2 DEF Nth, Rank

-----------------------------------------------------------------------------
(* Sequences of posts without a post twice.                                *)

Apart(s) == \A j, k \in DOMAIN s : s[j].id = s[k].id => j = k

\* Posts of the table, or that were: numbered below n.
Listing(s, n) ==
  s \in Seq(Post) /\ Apart(s) /\ \A k \in DOMAIN s : s[k].id < n

\* What is picked from a sequence is of it, in places of its own.
LEMMA PickedOf ==
  ASSUME NEW s \in Seq(Post), NEW K \in SUBSET DOMAIN s
  PROVE  /\ Picked(s, K) \in Seq(Post)
         /\ \A k \in DOMAIN Picked(s, K) :
              \E i \in K : Picked(s, K)[k] = s[i] /\ i = Nth(K, k) /\ Rank(K, i) = k
<1>1. Len(s) \in Nat /\ DOMAIN s = 1..Len(s)
  BY LenProperties
<1>2. K \in SUBSET Nat /\ IsFiniteSet(K)
  <2>1. IsFiniteSet(1..Len(s))
    BY <1>1, FS_Interval
  <2> QED BY <1>1, <2>1, FS_Subset
<1>3. Cardinality(K) \in Nat
  BY <1>2, FS_CardinalityType
<1>4. \A k \in 1..Cardinality(K) : Nth(K, k) \in K /\ Rank(K, Nth(K, k)) = k
  BY <1>2, NthThere
<1>5. \A k \in 1..Cardinality(K) : s[Nth(K, k)] \in Post
  BY <1>1, <1>4, ElementOfSeq
<1>6. Picked(s, K) \in Seq(Post)
  BY <1>3, <1>5, IsASeq DEF Picked
<1> QED BY <1>4, <1>6 DEF Picked

LEMMA PickedApart ==
  ASSUME NEW s, NEW n, Listing(s, n), NEW K \in SUBSET DOMAIN s
  PROVE  Listing(Picked(s, K), n)
<1>1. s \in Seq(Post) /\ Apart(s) /\ \A k \in DOMAIN s : s[k].id < n
  BY DEF Listing
<1>2. /\ Picked(s, K) \in Seq(Post)
      /\ \A k \in DOMAIN Picked(s, K) :
           \E i \in K : Picked(s, K)[k] = s[i] /\ Rank(K, i) = k
  BY <1>1, PickedOf
<1> QED BY <1>1, <1>2 DEF Listing, Apart

\* A page of the server's answer, in any tab and on any profile.
LEMMA PageListing ==
  ASSUME SharingInv, NEW v, NEW before
  PROVE  Listing(Page(v, before), nextId)
<1> DEFINE rows == {p \in Listed(v) : before = 0 \/ p.id < before}
           ids == {p.id : p \in rows}
           n == Cardinality(ids)
           m == IF n < PageSize THEN n ELSE PageSize
           Row(k) == RowOf(PostById(Nth(ids, n + 1 - k)))
<1>1. rows \subseteq posts
  BY DEF Listed, Feed, PostsBy
<1>2. \A i \in ids : i \in Nat /\ i < nextId
  BY <1>1, Named
<1>3. nextId \in Nat
  BY DEF SharingInv, TypeOK, RowId
<1>4. ids \in SUBSET Nat
  BY <1>2
<1>5. IsFiniteSet(ids)
  <2>1. \A i \in ids : i <= nextId
    BY <1>2, <1>3
  <2> HIDE DEF ids
  <2> QED BY <1>3, <1>4, <2>1, FS_BoundedSetOfNaturals
<1>6. n \in Nat /\ m \in Nat /\ m <= n
  BY <1>5, FS_CardinalityType, PagesAssumption
<1>7. \A i \in ids : \E p \in posts : p.id = i
  BY <1>1
<1>8. TypeOK
  BY DEF SharingInv
<1>9. Page(v, before) = [k \in 1..m |-> Row(k)]
  BY DEF Page
<1> HIDE DEF ids
<1>10. \A k \in 1..m : n + 1 - k \in 1..n
  BY <1>6
<1>11. \A k \in 1..m : Nth(ids, n + 1 - k) \in ids /\ Rank(ids, Nth(ids, n + 1 - k)) = n + 1 - k
  BY <1>4, <1>5, <1>10, NthThere
<1>12. ASSUME NEW k \in 1..m
       PROVE  Row(k) \in Post /\ Row(k).id = Nth(ids, n + 1 - k) /\ Row(k).id < nextId
  <2>1. PostById(Nth(ids, n + 1 - k)) # {}
    BY <1>7, <1>11 DEF PostById
  <2> QED BY <1>2, <1>8, <1>11, <2>1, PostFound
<1> HIDE DEF n, m, Row
<1>13. Page(v, before) \in Seq(Post)
  BY <1>6, <1>9, <1>12, IsASeq
<1>14. ASSUME NEW j \in 1..m, NEW k \in 1..m, Row(j).id = Row(k).id PROVE j = k
  <2>1. n + 1 - j = n + 1 - k
    BY <1>11, <1>12, <1>14
  <2> QED BY <1>6, <2>1
<1> QED BY <1>9, <1>12, <1>13, <1>14 DEF Listing, Apart

-----------------------------------------------------------------------------
(* What events, answers and writes make of the list.                       *)

LEMMA WithoutKeeps == ASSUME NEW n, Listing(list, n), NEW i PROVE Listing(Without(i), n)
<1>1. {k \in DOMAIN list : list[k].id # i} \in SUBSET DOMAIN list
  OBVIOUS
<1> QED BY <1>1, PickedApart DEF Without, WithoutOf

LEMMA ReplacedKeeps ==
  ASSUME NEW n, Listing(list, n), NEW p \in Post, p.id < n PROVE Listing(Replaced(p), n)
<1>1. list \in Seq(Post) /\ Apart(list) /\ \A k \in DOMAIN list : list[k].id < n
  BY DEF Listing
<1>2. Len(list) \in Nat /\ DOMAIN list = 1..Len(list)
  BY <1>1, LenProperties
<1>3. \A k \in 1..Len(list) : list[k] \in Post
  BY <1>1, ElementOfSeq
<1> DEFINE New(k) == IF list[k].id = p.id THEN p ELSE list[k]
<1>4. \A k \in 1..Len(list) : New(k) \in Post /\ New(k).id = list[k].id /\ New(k).id < n
  BY <1>1, <1>2, <1>3
<1>5. Replaced(p) = [k \in 1..Len(list) |-> New(k)]
  BY <1>2 DEF Replaced
<1> HIDE DEF New
<1>6. Replaced(p) \in Seq(Post)
  BY <1>2, <1>4, <1>5, IsASeq
<1> QED BY <1>1, <1>2, <1>4, <1>5, <1>6 DEF Listing, Apart

LEMMA OnTopKeeps ==
  ASSUME NEW n, Listing(list, n), NEW p \in Post, p.id < n, ~Has(p.id)
  PROVE  Listing(<<p>> \o list, n)
<1>1. list \in Seq(Post) /\ Apart(list) /\ \A k \in DOMAIN list : list[k].id < n
  BY DEF Listing
<1>2. Len(list) \in Nat /\ DOMAIN list = 1..Len(list)
  BY <1>1, LenProperties
<1>3. <<p>> \in Seq(Post) /\ Len(<<p>>) = 1 /\ <<p>>[1] = p
  OBVIOUS
<1> DEFINE s == <<p>> \o list
<1>4. /\ s \in Seq(Post) /\ DOMAIN s = 1..(1 + Len(list))
      /\ \A k \in 1..(1 + Len(list)) : s[k] = IF k <= 1 THEN <<p>>[k] ELSE list[k - 1]
  BY <1>1, <1>3, ConcatProperties, LenProperties
<1> HIDE DEF s
<1>5. \A k \in DOMAIN s : \/ k = 1 /\ s[k] = p
                          \/ k - 1 \in DOMAIN list /\ s[k] = list[k - 1] /\ k \in Nat
  BY <1>2, <1>3, <1>4
<1>6. \A k \in DOMAIN list : list[k].id # p.id
  BY DEF Has
<1>7. ASSUME NEW j \in DOMAIN s, NEW k \in DOMAIN s, s[j].id = s[k].id PROVE j = k
  <2>1. CASE j = 1 /\ s[j] = p
    BY <1>5, <1>6, <1>7, <2>1
  <2>2. CASE k = 1 /\ s[k] = p
    BY <1>5, <1>6, <1>7, <2>2
  <2>3. CASE ~(j = 1 /\ s[j] = p) /\ ~(k = 1 /\ s[k] = p)
    <3>1. j - 1 = k - 1 /\ j \in Nat /\ k \in Nat
      BY <1>1, <1>5, <1>7, <2>3 DEF Apart
    <3> QED BY <3>1
  <2> QED BY <2>1, <2>2, <2>3
<1>8. \A k \in DOMAIN s : s[k].id < n
  BY <1>1, <1>5
<1> QED BY <1>4, <1>7, <1>8 DEF Listing, Apart, s

LEMMA AppendFreshKeeps ==
  ASSUME NEW n, Listing(list, n), NEW page, Listing(page, n)
  PROVE  Listing(AppendFresh(page), n)
<1> DEFINE K == {k \in DOMAIN page : ~Has(page[k].id)}
           f == Picked(page, K)
           s == list \o f
           c == Len(list)
<1>1. /\ list \in Seq(Post) /\ Apart(list) /\ page \in Seq(Post)
      /\ \A k \in DOMAIN list : list[k].id < n
  BY DEF Listing
<1>2. c \in Nat /\ DOMAIN list = 1..c
  BY <1>1, LenProperties
<1>3. K \in SUBSET DOMAIN page
  OBVIOUS
<1>4. f \in Seq(Post) /\ Apart(f) /\ \A k \in DOMAIN f : f[k].id < n
  BY <1>3, PickedApart DEF Listing
<1>5. \A k \in DOMAIN f : ~Has(f[k].id)
  <2>1. \A k \in DOMAIN f : \E i \in K : f[k] = page[i]
    BY <1>1, <1>3, PickedOf
  <2> QED BY <2>1
<1> HIDE DEF f
<1>6. Len(f) \in Nat /\ DOMAIN f = 1..Len(f)
  BY <1>4, LenProperties
<1>7. /\ s \in Seq(Post) /\ DOMAIN s = 1..(c + Len(f))
      /\ \A k \in 1..(c + Len(f)) : s[k] = IF k <= c THEN list[k] ELSE f[k - c]
  BY <1>1, <1>4, ConcatProperties, LenProperties
<1> HIDE DEF s, c
<1>8. \A k \in DOMAIN s : \/ k \in DOMAIN list /\ s[k] = list[k]
                          \/ k - c \in DOMAIN f /\ s[k] = f[k - c] /\ k \notin DOMAIN list
  BY <1>2, <1>6, <1>7
<1>9. ASSUME NEW j \in DOMAIN s, NEW k \in DOMAIN s, s[j].id = s[k].id PROVE j = k
  <2>1. CASE j \in DOMAIN list /\ k \in DOMAIN list
    BY <1>1, <1>8, <1>9, <2>1 DEF Apart
  <2>2. CASE j \notin DOMAIN list /\ k \notin DOMAIN list
    <3>1. j - c = k - c
      BY <1>4, <1>8, <1>9, <2>2 DEF Apart
    <3> QED BY <1>2, <1>6, <1>7, <3>1
  <2>3. CASE (j \in DOMAIN list) # (k \in DOMAIN list)
    BY <1>5, <1>8, <1>9, <2>3 DEF Has
  <2> QED BY <2>1, <2>2, <2>3
<1>10. AppendFresh(page) = s
  BY DEF AppendFresh, s, f
<1>11. \A k \in DOMAIN s : s[k].id < n
  BY <1>1, <1>4, <1>8
<1> QED BY <1>7, <1>9, <1>10, <1>11 DEF Listing, Apart

LEMMA InsertedKeeps ==
  ASSUME NEW n, Listing(list, n), NEW p \in Post, p.id < n PROVE Listing(Inserted(p), n)
  BY OnTopKeeps DEF Inserted

LEMMA UpsertKeeps ==
  ASSUME NEW n, Listing(list, n), NEW p \in Post, p.id < n PROVE Listing(Upsert(p), n)
  BY OnTopKeeps, ReplacedKeeps, WithoutKeeps DEF Upsert

-----------------------------------------------------------------------------
(* The invariant.                                                          *)

\* The requests there are: writes, each on its own way, and a post that has
\* been created is there to be told of.
Posting(q, n) ==
  /\ q.op \in {"createPost", "updatePost", "deletePost"}
  /\ q.pc \in {"insertPost", "loadPost", "updatePost", "refetchPost", "audience",
               "deletePost", "emit"}
  /\ q.row \in Post \cup {Undefined} /\ q.row.id < n
  /\ q.op = "createPost" => \/ q.pc = "insertPost"
                            \/ q.pc \in {"audience", "emit"} /\ q.row # Undefined

Posted == \A r \in Requests : ~At(r, "idle") => Posting(requests[r], nextId)

\* An event of a post carries the post, if the service still found it.
PostEvent(m, n) ==
  /\ m \in Sent /\ m.kind \in {"post:created", "post:updated", "post:deleted"}
  /\ m.carries \in Post \cup {Undefined} /\ m.carries.id < n
  /\ m.kind = "post:created" => m.carries # Undefined

Arriving(box, n) ==
  /\ box \in Seq(Event)
  /\ \A k \in DOMAIN box : box[k].kind # "friends" => PostEvent(box[k], n)

Loading(ls, n) == ls \subseteq Load /\ \A l \in ls : Listing(l.posts, n)

Saving(w, n) ==
  /\ w \in Writing \cup {NotWriting}
  /\ w # NotWriting => Listing(w.backup, n) /\ w.row.id < n

\* What the page holds, and what is on its way to it.
PageSound ==
  /\ view \in Tabs \cup Users /\ friendIds \subseteq Users /\ oldest \in Nat
  /\ hasMore \in BOOLEAN /\ loading \in BOOLEAN /\ overtaken \in BOOLEAN
  /\ Listing(list, nextId) /\ Loading(loads, nextId) /\ Saving(writing, nextId)
  /\ Arriving(inbox, nextId)

PagesInv ==
  /\ SharingInv /\ Posted /\ PageSound
  /\ turns \in Nat /\ untold \subseteq Nat

\* Numbers only grow.
LEMMA StillThere ==
  ASSUME NEW m \in Nat, NEW n \in Nat, m <= n
  PROVE  /\ \A s : Listing(s, m) => Listing(s, n)
         /\ \A ls : Loading(ls, m) => Loading(ls, n)
         /\ \A w : Saving(w, m) => Saving(w, n)
         /\ \A box : Arriving(box, m) => Arriving(box, n)
         /\ \A q : Posting(q, m) => Posting(q, n)
<1>1. \A p \in Post \cup {Undefined} : p.id < m => p.id < n
  BY DEF Post, Undefined, RowId, NoId
<1>2. ASSUME NEW s, Listing(s, m) PROVE Listing(s, n)
  <2>1. \A k \in DOMAIN s : s[k] \in Post
    BY <1>2, LenProperties, ElementOfSeq DEF Listing
  <2> QED BY <1>1, <1>2, <2>1 DEF Listing
<1>3. \A ls : Loading(ls, m) => Loading(ls, n)
  BY <1>2 DEF Loading
<1>4. \A w : Saving(w, m) => Saving(w, n)
  BY <1>1, <1>2 DEF Saving, Writing
<1>5. \A x : PostEvent(x, m) => PostEvent(x, n)
  BY <1>1 DEF PostEvent
<1>6. \A box : Arriving(box, m) => Arriving(box, n)
  BY <1>5 DEF Arriving
<1>7. \A q : Posting(q, m) => Posting(q, n)
  BY <1>1 DEF Posting
<1> QED BY <1>2, <1>3, <1>4, <1>6, <1>7

LEMMA NextIdIsNat == ASSUME SharingInv PROVE nextId \in Nat /\ 0 < nextId
  BY DEF SharingInv, TypeOK, RowId, NoId
-----------------------------------------------------------------------------
(* The service at work.                                                    *)

\* What a step of the service leaves behind, whatever the pages do with it.
Served ==
  /\ SharingInv' /\ Posted' /\ nextId' \in Nat /\ nextId <= nextId'
  /\ \A m \in wire' : PostEvent(m, nextId')

\* Nothing is served.
LEMMA ServerRests ==
  ASSUME PagesInv, UNCHANGED server, Silent PROVE Served
<1>1. UNCHANGED <<postTables, relations>> /\ UNCHANGED requests /\ wire' = {}
  BY DEF server, Silent
<1>2. SharingInv'
  <2>1. Grown
    BY <1>1, SameTables DEF PagesInv, SharingInv
  <2>2. /\ friends' \subseteq Pairs /\ blocked' \subseteq Pairs /\ everFriends' \subseteq Pairs
        /\ friends' \subseteq everFriends'
    BY <1>1 DEF PagesInv, SharingInv, TypeOK, relations
  <2> QED BY <1>1, <2>1, <2>2, FriendsOnly DEF PagesInv
<1>3. nextId' = nextId
  BY <1>1 DEF postTables
<1>4. Posted'
  BY <1>1, <1>3 DEF PagesInv, Posted, At
<1> QED BY <1>1, <1>2, <1>3, <1>4, NextIdIsNat DEF Served, PagesInv

\* One request is where it should be, and the others are where they were.
LEMMA OthersPosted ==
  ASSUME PagesInv, NEW r \in Requests, NEW q, requests' = [requests EXCEPT ![r] = q],
         q.pc # "idle" => Posting(q, nextId'), nextId' \in Nat, nextId <= nextId'
  PROVE  Posted'
<1>1. ASSUME NEW s \in Requests, requests'[s].pc # "idle" PROVE Posting(requests'[s], nextId')
  <2>1. requests \in [Requests -> Request \cup {Idle}]
    BY DEF PagesInv, SharingInv, TypeOK
  <2>2. CASE s = r
    BY <1>1, <2>1, <2>2
  <2>3. CASE s # r
    <3>1. requests'[s] = requests[s]
      BY <2>1, <2>3
    <3>2. Posting(requests[s], nextId)
      BY <1>1, <3>1 DEF PagesInv, Posted, At
    <3> QED BY <3>1, <3>2, StillThere, NextIdIsNat DEF PagesInv
  <2> QED BY <2>2, <2>3
<1> QED BY <1>1 DEF Posted, At

LEMMA EndedIsPosted ==
  ASSUME PagesInv, NEW r \in Requests, Respond(r), nextId' = nextId PROVE Posted'
<1>1. requests' = [requests EXCEPT ![r] = Idle] /\ Idle.pc = "idle"
  BY DEF Respond, Idle
<1>2. nextId' \in Nat /\ nextId <= nextId'
  BY NextIdIsNat DEF PagesInv
<1> HIDE DEF Idle
<1> QED BY <1>1, <1>2, OthersPosted

\* The event of a request that has come so far.
LEMMA TellsOfPost ==
  ASSUME PagesInv, NEW r \in Requests, NEW to, Tell(r, to), nextId' = nextId,
         requests[r].pc \in {"audience", "emit"}, Posting(requests[r], nextId), wire' \subseteq Sent
  PROVE  Posted' /\ \A m \in wire' : PostEvent(m, nextId')
<1> DEFINE q == requests[r]
           m == [kind |-> EventOf(q.op), about |-> q.found, carries |-> q.row,
                 from |-> q.user, to |-> to]
<1>1. wire' = {m} /\ Respond(r)
  BY DEF Tell, Send
<1>2. m.kind = EventOf(q.op) /\ m.carries = q.row
  OBVIOUS
<1>3. m \in Sent
  BY <1>1
<1> HIDE DEF m
<1>4. PostEvent(m, nextId)
  BY <1>2, <1>3 DEF PostEvent, Posting, EventOf
<1> QED BY <1>1, <1>4, EndedIsPosted

LEMMA WithoutRowPosted ==
  ASSUME PagesInv, NEW r \in Requests, WithoutRow(r), Posting(requests[r], nextId),
         requests[r] \in Request, requests[r].op # "createPost", nextId' = nextId
  PROVE  Posted'
<1>1. CASE Respond(r)
  BY <1>1, EndedIsPosted
<1>2. CASE ~Respond(r)
  <2> DEFINE q == [requests[r] EXCEPT !.pc = "audience", !.row = Undefined]
  <2>1. requests' = [requests EXCEPT ![r] = q]
    BY <1>2 DEF WithoutRow
  <2>2. q.op = requests[r].op /\ q.pc = "audience" /\ q.row = Undefined
    BY DEF Request
  <2> HIDE DEF q
  <2>3. nextId \in Nat /\ 0 < nextId /\ Undefined.id = 0
    BY NextIdIsNat DEF PagesInv, Undefined, NoId
  <2>4. Posting(q, nextId)
    BY <2>2, <2>3 DEF Posting
  <2>5. Posting(q, nextId') /\ nextId' \in Nat /\ nextId <= nextId'
    BY <2>3, <2>4
  <2> QED BY <2>1, <2>5, OthersPosted
<1> QED BY <1>1, <1>2
\* A step of the service, for requests that write posts.
LEMMA StepServes ==
  ASSUME PagesInv, NEW r \in Requests, PostStep(r)
  PROVE  Served /\ requests[r].row \in Post \cup {Undefined} /\ requests[r].row.id < nextId'
<1> DEFINE q == requests[r]
<1>0. SharingInv /\ nextId \in Nat /\ 0 < nextId
  BY NextIdIsNat DEF PagesInv
<1>1. ~At(r, "idle")
  BY DEF PostStep, InsertPost, LoadPost, CheckBlock, CheckFriends, UpdatePost, RefetchPost,
         Audience, DeletePost, EmitEvent, At
<1>2. q \in Request /\ Sound(q) /\ Posting(q, nextId)
  BY <1>0, <1>1, InFlight DEF PagesInv, Posted
<1>3. SharingInv'
  BY <1>0, ServeKeeps DEF Serve
<1>4. wire' \subseteq Sent
  BY <1>3 DEF SharingInv, TypeOK
<1> DEFINE Fine == /\ Posted' /\ \A m \in wire' : PostEvent(m, nextId')
                   /\ nextId' \in Nat /\ nextId <= nextId'
<1>5. ASSUME UNCHANGED postTables, wire' = {}, NEW p, p.pc # "idle" => Posting(p, nextId),
             requests' = [requests EXCEPT ![r] = p]
      PROVE  Fine
  <2>1. nextId' = nextId
    BY <1>5 DEF postTables
  <2>2. p.pc # "idle" => Posting(p, nextId')
    BY <1>5, <2>1
  <2>3. nextId' \in Nat /\ nextId <= nextId'
    BY <1>0, <2>1
  <2> QED BY <1>5, <2>2, <2>3, OthersPosted
<1>6. ASSUME Respond(r), Silent, UNCHANGED nextId PROVE Fine
  BY <1>0, <1>6, EndedIsPosted DEF Silent
<1>7. ASSUME InsertPost(r) PROVE Fine
  <2> DEFINE new == [id |-> nextId, author |-> q.user, visibility |-> q.wish]
             n == [q EXCEPT !.pc = "audience", !.post = nextId, !.found = new, !.row = new]
  <2>1. /\ requests' = [requests EXCEPT ![r] = n] /\ nextId' = nextId + 1 /\ wire' = {}
    BY <1>7 DEF InsertPost, Silent
  <2>2. new \in Post /\ new.id = nextId /\ new # Undefined
    BY <1>0, <1>2 DEF Post, Request, RowId, NoId, Undefined
  <2>3. n.pc = "audience" /\ n.row = new /\ n.op = q.op
    BY <1>2 DEF Request
  <2> HIDE DEF n, new
  <2>4. nextId' \in Nat /\ nextId <= nextId' /\ nextId < nextId'
    BY <1>0, <2>1
  <2>5. Posting(n, nextId')
    BY <1>2, <2>2, <2>3, <2>4 DEF Posting
  <2> QED BY <2>1, <2>4, <2>5, OthersPosted
<1>8. ASSUME LoadPost(r) PROVE Fine
  <2> DEFINE p == RowOf(PostById(q.post))
             n == [q EXCEPT !.found = p,
                            !.pc = IF q.op = "updatePost" THEN "updatePost" ELSE "audience"]
  <2>1. q.op \in {"updatePost", "deletePost"}
    BY <1>2, <1>8 DEF Posting, LoadPost, At, Sound, OnCourse
  <2>2. UNCHANGED postTables /\ nextId' = nextId /\ wire' = {}
    BY <1>8, <2>1 DEF LoadPost, Silent, postTables
  <2>3. Respond(r) \/ requests' = [requests EXCEPT ![r] = n]
    BY <1>8, <2>1 DEF LoadPost
  <2>4. n.op = q.op /\ n.row = q.row /\ n.pc \in {"updatePost", "audience"}
    BY <1>2 DEF Request
  <2> HIDE DEF n
  <2>5. Posting(n, nextId)
    BY <1>2, <2>1, <2>4 DEF Posting
  <2> QED BY <1>5, <1>6, <2>2, <2>3, <2>5 DEF Silent
<1>9. ASSUME UpdatePost(r) PROVE Fine
  <2> DEFINE n == [q EXCEPT !.pc = "refetchPost", !.wish = "public"]
  <2>1. q.op # "createPost" /\ nextId' = nextId /\ wire' = {}
    BY <1>2, <1>9 DEF Posting, UpdatePost, At, postTables, Silent
  <2>2. CASE WithoutRow(r)
    BY <1>0, <1>2, <2>1, <2>2, WithoutRowPosted
  <2>3. CASE ~WithoutRow(r)
    <3>1. requests' = [requests EXCEPT ![r] = n]
      BY <1>9, <2>3 DEF UpdatePost
    <3>2. n.op = q.op /\ n.row = q.row /\ n.pc = "refetchPost"
      BY <1>2 DEF Request
    <3> HIDE DEF n
    <3>3. Posting(n, nextId') /\ nextId' \in Nat /\ nextId <= nextId'
      BY <1>0, <1>2, <2>1, <3>2 DEF Posting
    <3> QED BY <2>1, <3>1, <3>3, OthersPosted
  <2> QED BY <2>2, <2>3
<1>10. ASSUME RefetchPost(r) PROVE Fine
  <2> DEFINE p == RowOf(PostById(q.post))
             n == [q EXCEPT !.pc = "audience", !.row = p]
  <2>1. q.op # "createPost" /\ UNCHANGED postTables /\ nextId' = nextId /\ wire' = {}
    BY <1>2, <1>10 DEF Posting, RefetchPost, At, postTables, Silent
  <2>2. CASE WithoutRow(r)
    BY <1>0, <1>2, <2>1, <2>2, WithoutRowPosted
  <2>3. CASE ~WithoutRow(r)
    <3>1. p # Undefined /\ requests' = [requests EXCEPT ![r] = n]
      BY <1>10, <2>3 DEF RefetchPost
    <3>2. p \in Post /\ p \in posts
      BY <1>0, <3>1, PostFound DEF SharingInv
    <3>3. p.id < nextId
      BY <1>0, <3>2, Named
    <3> HIDE DEF p
    <3>4. n.op = q.op /\ n.row = p /\ n.pc = "audience"
      BY <1>2 DEF Request
    <3> HIDE DEF n
    <3>5. Posting(n, nextId)
      BY <1>2, <2>1, <3>2, <3>3, <3>4 DEF Posting
    <3> QED BY <1>5, <2>1, <3>1, <3>5
  <2> QED BY <2>2, <2>3
<1>11. ASSUME Audience(r) PROVE Fine
  <2>1. q.pc = "audience" /\ UNCHANGED postTables /\ nextId' = nextId
    BY <1>11 DEF Audience, At, postTables
  <2>2. CASE \E to : Tell(r, to)
    <3>1. Posted' /\ \A m \in wire' : PostEvent(m, nextId')
      BY <1>2, <1>4, <2>1, <2>2, TellsOfPost
    <3> QED BY <1>0, <2>1, <3>1
  <2>3. CASE ~\E to : Tell(r, to)
    <3>1. \E to : /\ requests' = [requests EXCEPT ![r].to = to,
                       ![r].pc = IF q.op = "deletePost" THEN "deletePost" ELSE "emit"]
                  /\ Silent
      BY <1>11, <2>3 DEF Audience
    <3>2. PICK to : requests' = [requests EXCEPT ![r].to = to,
                       ![r].pc = IF q.op = "deletePost" THEN "deletePost" ELSE "emit"]
      BY <3>1
    <3> DEFINE n == [q EXCEPT !.to = to,
                       !.pc = IF q.op = "deletePost" THEN "deletePost" ELSE "emit"]
    <3>3. requests' = [requests EXCEPT ![r] = n]
      BY <3>2
    <3>4. /\ n.op = q.op /\ n.row = q.row
          /\ n.pc = IF q.op = "deletePost" THEN "deletePost" ELSE "emit"
      BY <1>2 DEF Request
    <3> HIDE DEF n
    <3>5. Posting(n, nextId)
      BY <1>2, <2>1, <3>4 DEF Posting
    <3> QED BY <1>5, <2>1, <3>1, <3>3, <3>5 DEF Silent
  <2> QED BY <2>2, <2>3
<1>12. ASSUME DeletePost(r) PROVE Fine
  <2> DEFINE n == [q EXCEPT !.pc = "emit"]
  <2>1. /\ q.op # "createPost" /\ nextId' = nextId /\ wire' = {}
        /\ requests' = [requests EXCEPT ![r] = n]
    BY <1>2, <1>12 DEF Posting, DeletePost, Goto, At, Silent
  <2>2. n.op = q.op /\ n.row = q.row /\ n.pc = "emit"
    BY <1>2 DEF Request
  <2> HIDE DEF n
  <2>3. Posting(n, nextId') /\ nextId' \in Nat /\ nextId <= nextId'
    BY <1>0, <1>2, <2>1, <2>2 DEF Posting
  <2> QED BY <2>1, <2>3, OthersPosted
<1>13. ASSUME EmitEvent(r) PROVE Fine
  <2>1. q.pc = "emit" /\ nextId' = nextId /\ Tell(r, q.to)
    BY <1>13 DEF EmitEvent, At, postTables
  <2> QED BY <1>0, <1>2, <1>4, <2>1, TellsOfPost
<1>14. ~CheckBlock(r) /\ ~CheckFriends(r)
  BY <1>2 DEF Posting, CheckBlock, CheckFriends, At
<1>15. Fine
  BY <1>7, <1>8, <1>9, <1>10, <1>11, <1>12, <1>13, <1>14 DEF PostStep
<1>16. q.row \in Post \cup {Undefined} /\ q.row.id < nextId /\ q.row.id \in Nat
  BY <1>2 DEF Posting, Post, Undefined, NoId, RowId
<1> QED BY <1>0, <1>3, <1>15, <1>16 DEF Served
\* A write arrives at the service.
LEMMA ArrivalServes ==
  ASSUME PagesInv, NEW r \in Requests, NEW u \in Users, NEW i \in Nat, i < nextId,
         NEW v \in Visibility, NEW op, NEW pc,
         \/ op = "createPost" /\ pc = "insertPost"
         \/ op \in {"updatePost", "deletePost"} /\ pc = "loadPost",
         Receive(r, op, pc, u, i, NoId, v, FALSE)
  PROVE  Served
<1>1. SharingInv /\ nextId \in Nat /\ 0 < nextId
  BY NextIdIsNat DEF PagesInv
<1>2. op \in {"createPost", "updatePost", "deletePost"} /\ pc \in {"insertPost", "loadPost"}
      /\ (pc = "loadPost" => op \in {"updatePost", "deletePost"})
      /\ (op = "createPost" => pc = "insertPost")
  OBVIOUS
<1>3. SharingInv'
  BY <1>1, <1>2, ReceiveKeeps DEF NoId, PostOps
<1>4. nextId' = nextId /\ wire' = {}
  BY DEF Receive, postTables, Silent
<1> DEFINE q == [op |-> op, pc |-> pc, user |-> u, post |-> i, comment |-> NoId, wish |-> v,
                 found |-> Undefined, row |-> Undefined, to |-> {}, barred |-> FALSE]
<1>5. requests' = [requests EXCEPT ![r] = q]
  BY DEF Receive
<1>6. q.op = op /\ q.pc = pc /\ q.row = Undefined /\ Undefined.id = 0
  BY DEF Undefined, NoId
<1> HIDE DEF q
<1>7. Posting(q, nextId') /\ nextId' \in Nat /\ nextId <= nextId'
  BY <1>1, <1>2, <1>4, <1>6 DEF Posting
<1>8. Posted'
  BY <1>5, <1>7, OthersPosted
<1> QED BY <1>3, <1>4, <1>7, <1>8 DEF Served

LEMMA OthersWriteServes ==
  ASSUME PagesInv, NEW r \in Requests, OthersWrite(r) PROVE Served
<1>1. SharingInv /\ nextId \in Nat /\ 0 < nextId
  BY NextIdIsNat DEF PagesInv
<1>2. CASE CreatePost(r)
  <2>1. PICK u \in Users, v \in Visibility :
          Receive(r, "createPost", "insertPost", u, NoId, NoId, v, FALSE)
    BY <1>2 DEF CreatePost
  <2>2. NoId \in Nat /\ NoId < nextId
    BY <1>1 DEF NoId
  <2> QED BY <2>1, <2>2, ArrivalServes
<1>3. CASE NamePost(r)
  <2>1. PICK u \in Users, p \in posts, v \in Visibility,
             op \in {"getPost", "updatePost", "deletePost"} :
               Receive(r, op, "loadPost", u, p.id, NoId, v,
                       op = "getPost" /\ BlockedPair(u, p.author))
    BY <1>3 DEF NamePost
  <2>2. requests'[r].op = op
    BY <1>1, <2>1 DEF Receive, SharingInv, TypeOK
  <2>3. op \in {"updatePost", "deletePost"}
    BY <2>2 DEF OthersWrite
  <2>4. Receive(r, op, "loadPost", u, p.id, NoId, v, FALSE)
    <3>1. (op = "getPost" /\ BlockedPair(u, p.author)) = FALSE
      BY <2>3
    <3> QED BY <2>1, <3>1
  <2>5. p.id \in Nat /\ p.id < nextId
    BY <1>1, Named
  <2> QED BY <2>3, <2>4, <2>5, ArrivalServes
<1> QED BY <1>2, <1>3 DEF OthersWrite

\* Me and somebody else become friends, part, block or are let off.
LEMMA RelationServes ==
  ASSUME PagesInv, NEW u \in Users, u # Me, RelationChanges(u) PROVE Served
<1>1. SharingInv /\ nextId \in Nat /\ Me \in Users
  BY NextIdIsNat, PagesAssumption DEF PagesInv
<1> DEFINE pair == {Me, u}
<1>2. pair \in Pairs
  BY <1>1 DEF Pairs
<1>3. Befriend(pair) \/ Unfriend(pair) \/ Block(pair) \/ Unblock(pair)
  BY DEF RelationChanges
<1> HIDE DEF pair
<1>4. SharingInv'
  BY <1>1, <1>2, <1>3, RelationsKeep DEF RelationsChange
<1>5. nextId' = nextId /\ wire' = {}
  BY <1>3 DEF Befriend, Unfriend, Block, Unblock, postTables
<1>6. ASSUME NEW r \in Requests, ~At(r, "idle")' PROVE Posting(requests'[r], nextId)
  <2>1. CASE requests' = requests
    BY <1>6, <2>1 DEF PagesInv, Posted, At
  <2>2. CASE Unblock(pair)
    <3>1. requests[r] # Idle /\ requests'[r] = [requests[r] EXCEPT !.barred = FALSE]
      BY <1>6, <2>2 DEF Unblock, At, Idle
    <3>2. requests[r] \in Request /\ ~At(r, "idle")
      BY <1>1, <3>1 DEF SharingInv, TypeOK, At, Request, Steps
    <3>3. Posting(requests[r], nextId)
      BY <3>2 DEF PagesInv, Posted
    <3>4. /\ requests'[r].op = requests[r].op /\ requests'[r].pc = requests[r].pc
          /\ requests'[r].row = requests[r].row
      BY <3>1, <3>2 DEF Request
    <3> QED BY <3>3, <3>4 DEF Posting
  <2> QED BY <1>3, <2>1, <2>2 DEF Befriend, Unfriend, Block
<1>7. Posted'
  BY <1>5, <1>6 DEF Posted
<1> QED BY <1>1, <1>4, <1>5, <1>7 DEF Served

LEMMA FailServes ==
  ASSUME PagesInv, NEW r \in Requests, Fail(r) PROVE Served
<1>1. SharingInv' /\ nextId' = nextId /\ wire' = {} /\ Respond(r)
  BY FailKeeps DEF PagesInv, Fail, postTables, Silent
<1> QED BY <1>1, EndedIsPosted, NextIdIsNat DEF Served, PagesInv

-----------------------------------------------------------------------------
(* The loads and the writes in flight.                                     *)

LEMMA LateKeeps ==
  ASSUME NEW n, NEW ls, Loading(ls, n)
  PROVE  Loading(Late(ls), n) /\ Loading({[l EXCEPT !.late = TRUE] : l \in ls}, n)
<1>1. ASSUME NEW l \in ls
      PROVE  LET o == [l EXCEPT !.late = TRUE] IN o \in Load /\ Listing(o.posts, n)
  <2>1. l \in Load /\ Listing(l.posts, n)
    BY DEF Loading
  <2> DEFINE o == [l EXCEPT !.late = TRUE]
  <2>2. o \in Load /\ o.posts = l.posts
    BY <2>1 DEF Load
  <2> QED BY <2>1, <2>2
<1> QED BY <1>1 DEF Late, Loading

LEMMA DisplacedKeeps ==
  ASSUME NEW n, NEW ls, Loading(ls, n) PROVE Loading(Displaced(ls), n)
<1> DEFINE ms == {IF l.kind = "more" THEN [l EXCEPT !.late = TRUE] ELSE l : l \in ls}
           late == {[l EXCEPT !.late = TRUE] : l \in ls}
<1>1. ms \subseteq ls \cup late /\ Loading(late, n)
  BY LateKeeps
<1>2. Loading(ms, n)
  BY <1>1 DEF Loading
<1> HIDE DEF ms
<1>3. Loading(Late(ms), n)
  BY <1>2, LateKeeps
<1> QED BY <1>3 DEF Displaced, ms

LEMMA NewLoadFits ==
  ASSUME NEW n, NEW kind \in {"first", "more", "friends", "profile"},
         NEW v \in Tabs \cup Users, NEW before \in Nat
  PROVE  LET l == NewLoad(kind, v, before) IN l \in Load /\ Listing(l.posts, n)
<1> DEFINE asks == CASE kind = "friends" -> {"friends"}
                     [] kind = "profile" -> {"posts", "friends"}
                     [] OTHER -> {"posts"}
           l == [kind |-> kind, view |-> v, before |-> before, asks |-> asks,
                 posts |-> <<>>, friends |-> {}, late |-> FALSE]
<1>1. NewLoad(kind, v, before) = l
  BY DEF NewLoad
<1>2. asks \in SUBSET {"posts", "friends"}
  OBVIOUS
<1> HIDE DEF asks
<1>3. <<>> \in Seq(Post) /\ DOMAIN <<>> = {}
  OBVIOUS
<1>4. l \in Load /\ l.posts = <<>>
  BY <1>2, <1>3 DEF Load
<1> HIDE DEF l
<1> QED BY <1>1, <1>3, <1>4 DEF Listing, Apart

LEMMA ReloadFits ==
  ASSUME NEW n, NEW v \in Tabs \cup Users
  PROVE  Reload(v) \in Load /\ Listing(Reload(v).posts, n)
  BY NewLoadFits DEF Reload

LEMMA MoreLoads ==
  ASSUME NEW n, NEW ls, Loading(ls, n), NEW l \in Load, Listing(l.posts, n)
  PROVE  Loading(ls \cup {l}, n)
  BY DEF Loading

LEMMA WriteFits ==
  ASSUME NEW n, 0 < n, Listing(list, n),
         NEW op \in {"createPost", "updatePost", "deletePost", "relate"},
         NEW r \in Requests \cup {Nowhere},
         NEW row \in Post \cup {Undefined}, row.id < n, NEW phase \in {"sent", "ok", "failed"}
  PROVE  Saving([Write(op, r, row) EXCEPT !.phase = phase], n) /\ Saving(Write(op, r, row), n)
<1>1. list \in Seq(Post)
  BY DEF Listing
<1> DEFINE w(ph) == [phase |-> ph, op |-> op, at |-> r, backup |-> list, row |-> row]
<1>2. ASSUME NEW ph \in {"sent", "ok", "failed"} PROVE Saving(w(ph), n)
  <2>1. w(ph) \in Writing /\ w(ph).backup = list /\ w(ph).row = row
    BY <1>1 DEF Writing
  <2> QED BY <2>1 DEF Saving
<1>3. Write(op, r, row) = w("sent") /\ [Write(op, r, row) EXCEPT !.phase = phase] = w(phase)
  BY DEF Write
<1> QED BY <1>2, <1>3
-----------------------------------------------------------------------------
(* The actions of the pages.                                               *)

\* What a step need not touch, after the service has gone on.
LEMMA PageWas ==
  ASSUME PagesInv, Served
  PROVE  /\ view \in Tabs \cup Users
         /\ hasMore \in BOOLEAN /\ loading \in BOOLEAN /\ overtaken \in BOOLEAN
         /\ friendIds \subseteq Users /\ oldest \in Nat
         /\ Listing(list, nextId') /\ Loading(loads, nextId') /\ Saving(writing, nextId')
         /\ Arriving(inbox, nextId') /\ Loading(Late(loads), nextId')
<1>1. nextId \in Nat /\ nextId' \in Nat /\ nextId <= nextId'
  BY NextIdIsNat DEF PagesInv, Served
<1>2. Loading(loads, nextId')
  BY <1>1, StillThere DEF PagesInv, PageSound
<1>3. Loading(Late(loads), nextId')
  BY <1>2, LateKeeps
<1> QED BY <1>1, <1>2, <1>3, StillThere DEF PagesInv, PageSound

LEMMA ReachType ==
  ASSUME NEW page, NEW n, Listing(page, n) PROVE Reach(page) \in Nat
<1>1. page \in Seq(Post) /\ Len(page) \in Nat
  BY LenProperties DEF Listing
<1>2. CASE Len(page) = PageSize
  <2>1. Len(page) \in 1..Len(page)
    BY <1>1, <1>2, PagesAssumption
  <2>2. page[Len(page)] \in Post
    BY <1>1, <2>1, ElementOfSeq
  <2> QED BY <1>2, <2>2 DEF Reach, Last, Post, RowId, NoId
<1>3. CASE Len(page) # PageSize
  BY <1>3 DEF Reach
<1> QED BY <1>2, <1>3

LEMMA EmptyListing == ASSUME NEW n PROVE Listing(<<>>, n)
<1>1. <<>> \in Seq(Post) /\ DOMAIN <<>> = {}
  OBVIOUS
<1> QED BY <1>1 DEF Listing, Apart

LEMMA SwitchKeeps ==
  ASSUME PagesInv, NEW v \in Views, Switch(v) PROVE Served /\ PageSound'
<1>1. Served
  BY ServerRests DEF Switch
<1>2. v \in Tabs \cup Users
  BY PagesAssumption
<1> DEFINE late == {[l EXCEPT !.late = TRUE] : l \in loads}
<1>3. Loading(late, nextId')
  BY <1>1, PageWas, LateKeeps
<1>4. Reload(v) \in Load /\ Listing(Reload(v).posts, nextId')
  BY <1>2, ReloadFits
<1>5. loads' = late \cup {Reload(v)}
  BY DEF Switch
<1> HIDE DEF late
<1>6. Loading(loads', nextId')
  BY <1>3, <1>4, <1>5, MoreLoads
<1> QED BY <1>1, <1>2, <1>6, PageWas DEF Switch, PageSound

LEMMA NavigateKeeps ==
  ASSUME PagesInv, NEW v \in Views, Navigate(v) PROVE Served /\ PageSound'
<1>1. Served
  BY ServerRests DEF Navigate
<1>2. v \in Tabs \cup Users
  BY PagesAssumption
<1>3. Reload(v) \in Load /\ Listing(Reload(v).posts, nextId')
  BY <1>2, ReloadFits
<1>4. NewLoad("friends", v, 0) \in Load /\ Listing(NewLoad("friends", v, 0).posts, nextId')
  BY <1>2, NewLoadFits
<1>5. Loading(loads', nextId')
  BY <1>3, <1>4 DEF Navigate, FirstLoads, Loading
<1>6. Saving(writing', nextId')
  BY DEF Navigate, Saving
<1>7. Listing(list', nextId')
  BY EmptyListing DEF Navigate
<1> QED BY <1>1, <1>2, <1>5, <1>6, <1>7, PageWas DEF Navigate, PageSound

LEMMA LoadMoreKeeps ==
  ASSUME PagesInv, LoadMore PROVE Served /\ PageSound'
<1>1. Served
  BY ServerRests DEF LoadMore
<1>2. list \in Seq(Post) /\ list # <<>>
  BY <1>1, PageWas DEF LoadMore, Listing
<1>3. Last(list).id \in Nat
  <2>1. Len(list) \in 1..Len(list)
    BY <1>2, EmptySeq
  <2>2. list[Len(list)] \in Post
    BY <1>2, <2>1, ElementOfSeq
  <2> QED BY <2>2 DEF Last, Post, RowId, NoId
<1> DEFINE l == NewLoad("more", view, Last(list).id)
<1>4. l \in Load /\ Listing(l.posts, nextId')
  BY <1>1, <1>3, PageWas, NewLoadFits
<1>5. loads' = loads \cup {l}
  BY DEF LoadMore
<1> HIDE DEF l
<1>6. Loading(loads', nextId')
  BY <1>1, <1>4, <1>5, PageWas, MoreLoads
<1> QED BY <1>1, <1>6, PageWas DEF LoadMore, PageSound

LEMMA ServeLoadKeeps ==
  ASSUME PagesInv, ServeLoad PROVE Served /\ PageSound'
<1>1. Served
  BY ServerRests DEF ServeLoad
<1>2. PICK l \in loads : \E what \in l.asks :
        loads' = (loads \ {l}) \cup
          {[l EXCEPT !.asks = @ \ {what},
                     !.posts = IF what = "posts" THEN Page(l.view, l.before) ELSE @,
                     !.friends = IF what = "friends" THEN FriendsOf(Me) ELSE @]}
  BY DEF ServeLoad
<1>3. PICK what \in l.asks : 
        loads' = (loads \ {l}) \cup
          {[l EXCEPT !.asks = @ \ {what},
                     !.posts = IF what = "posts" THEN Page(l.view, l.before) ELSE @,
                     !.friends = IF what = "friends" THEN FriendsOf(Me) ELSE @]}
  BY <1>2
<1>4. Loading(loads, nextId) /\ SharingInv /\ nextId' = nextId
  BY DEF PagesInv, PageSound, ServeLoad, server, postTables
<1>5. l \in Load /\ Listing(l.posts, nextId)
  BY <1>4 DEF Loading
<1> DEFINE page == IF what = "posts" THEN Page(l.view, l.before) ELSE l.posts
           names == IF what = "friends" THEN FriendsOf(Me) ELSE l.friends
           o == [l EXCEPT !.asks = l.asks \ {what}, !.posts = page, !.friends = names]
<1>6. Listing(page, nextId)
  BY <1>4, <1>5, PageListing
<1>7. names \subseteq Users
  BY <1>5 DEF FriendsOf, Load
<1>8. loads' = (loads \ {l}) \cup {o}
  BY <1>3
<1> HIDE DEF page, names
<1>9. o \in Load /\ o.posts = page
  BY <1>5, <1>6, <1>7 DEF Load, Listing
<1> HIDE DEF o
<1>10. Loading(loads', nextId')
  BY <1>4, <1>6, <1>8, <1>9 DEF Loading
<1> QED BY <1>1, <1>10, PageWas DEF ServeLoad, PageSound

LEMMA LoadArrivesKeeps ==
  ASSUME PagesInv, LoadArrives PROVE Served /\ PageSound'
<1>1. Served
  BY ServerRests DEF LoadArrives
<1>2. PICK l \in loads : 
      CASE l.kind = "friends" ->
              /\ friendIds' = l.friends
              /\ loads' = loads \ {l}
              /\ UNCHANGED <<list, hasMore, loading, oldest, overtaken>>
         [] l.kind = "more" ->
              /\ list' = AppendFresh(l.posts)
              /\ hasMore' = (Len(l.posts) = PageSize)
              /\ oldest' = Reach(l.posts)
              /\ overtaken' = (overtaken \/ l.late)
              /\ loads' = loads \ {l}
              /\ UNCHANGED <<loading, friendIds>>
         [] OTHER ->
              /\ ShowPage(l.posts)
              /\ loading' = FALSE
              /\ friendIds' = IF l.kind = "profile" THEN l.friends ELSE friendIds
              /\ overtaken' = l.late
              /\ loads' = Displaced(loads \ {l})
  BY DEF LoadArrives
<1>3. l \in Load /\ Listing(l.posts, nextId') /\ Loading(loads \ {l}, nextId')
  BY <1>1, PageWas DEF Loading
<1>4. l.friends \subseteq Users /\ l.late \in BOOLEAN
  BY <1>3 DEF Load
<1>5. Reach(l.posts) \in Nat
  BY <1>3, ReachType
<1>6. Loading(Displaced(loads \ {l}), nextId')
  BY <1>3, DisplacedKeeps
<1>7. Listing(AppendFresh(l.posts), nextId')
  BY <1>1, <1>3, PageWas, AppendFreshKeeps
<1>8. UNCHANGED <<view, writing, inbox>>
  BY DEF LoadArrives
<1>9. CASE l.kind = "friends"
  BY <1>1, <1>2, <1>3, <1>4, <1>8, <1>9, PageWas DEF PageSound
<1>10. CASE l.kind = "more"
  BY <1>1, <1>2, <1>3, <1>4, <1>5, <1>7, <1>8, <1>10, PageWas DEF PageSound
<1>11. CASE l.kind \notin {"friends", "more"}
  BY <1>1, <1>2, <1>3, <1>4, <1>5, <1>6, <1>8, <1>11, PageWas DEF PageSound, ShowPage
<1> QED BY <1>9, <1>10, <1>11

LEMMA LoadFailsKeeps ==
  ASSUME PagesInv, LoadFails PROVE Served /\ PageSound'
<1>1. Served
  BY ServerRests DEF LoadFails
<1>2. loads' \subseteq loads
  BY DEF LoadFails
<1>3. Loading(loads', nextId')
  BY <1>1, <1>2, PageWas DEF Loading
<1> QED BY <1>1, <1>3, PageWas DEF LoadFails, PageSound
LEMMA InList ==
  ASSUME PagesInv, NEW k \in DOMAIN list
  PROVE  list[k] \in Post /\ list[k].id \in Nat /\ list[k].id < nextId
<1>1. list \in Seq(Post) /\ list[k].id < nextId
  BY DEF PagesInv, PageSound, Listing
<1>2. list[k] \in Post
  BY <1>1, LenProperties, ElementOfSeq
<1> QED BY <1>1, <1>2 DEF Post, RowId, NoId

\* A write of the page sets out.
LEMMA SetsOut ==
  ASSUME PagesInv, NEW r \in Requests, NEW i \in Nat, i < nextId, NEW v \in Visibility,
         NEW op, NEW pc,
         \/ op = "createPost" /\ pc = "insertPost"
         \/ op \in {"updatePost", "deletePost"} /\ pc = "loadPost",
         Receive(r, op, pc, Me, i, NoId, v, FALSE), 
         NEW row \in Post \cup {Undefined}, row.id < nextId
  PROVE  Served /\ Saving(Write(op, r, row), nextId')
<1>1. Served
  BY ArrivalServes, PagesAssumption
<1>2. nextId' = nextId /\ nextId \in Nat /\ 0 < nextId
  BY NextIdIsNat DEF PagesInv, Receive, postTables
<1>3. Listing(list, nextId)
  BY DEF PagesInv, PageSound
<1> QED BY <1>1, <1>2, <1>3, WriteFits

LEMMA SubmitPostKeeps ==
  ASSUME PagesInv, NEW r \in Requests, SubmitPost(r) PROVE Served /\ PageSound'
<1>1. PICK v \in Visibility : Receive(r, "createPost", "insertPost", Me, NoId, NoId, v, FALSE)
  BY DEF SubmitPost
<1>2. NoId \in Nat /\ NoId < nextId /\ Undefined.id < nextId
  BY NextIdIsNat DEF PagesInv, NoId, Undefined
<1>3. Served /\ Saving(Write("createPost", r, Undefined), nextId')
  BY <1>1, <1>2, SetsOut
<1> QED BY <1>3, PageWas DEF SubmitPost, PageSound

LEMMA SaveEditKeeps ==
  ASSUME PagesInv, NEW r \in Requests, SaveEdit(r) PROVE Served /\ PageSound'
<1>1. PICK k \in DOMAIN list, v \in Visibility :
        Receive(r, "updatePost", "loadPost", Me, list[k].id, NoId, v, FALSE)
  BY DEF SaveEdit
<1>2. list[k].id \in Nat /\ list[k].id < nextId
  BY InList
<1>3. Undefined.id < nextId
  BY NextIdIsNat DEF PagesInv, NoId, Undefined
<1>4. Served /\ Saving(Write("updatePost", r, Undefined), nextId')
  BY <1>1, <1>2, <1>3, SetsOut
<1> QED BY <1>4, PageWas DEF SaveEdit, PageSound

LEMMA DeleteOwnKeeps ==
  ASSUME PagesInv, NEW r \in Requests, DeleteOwn(r) PROVE Served /\ PageSound'
<1>1. PICK k \in DOMAIN list :
       /\ Receive(r, "deletePost", "loadPost", Me, list[k].id, NoId, "public", FALSE)
       /\ list' = Without(list[k].id)
       /\ writing' = Write("deletePost", r, list[k])
  BY DEF DeleteOwn
<1>2. list[k] \in Post /\ list[k].id \in Nat /\ list[k].id < nextId
  BY InList
<1>3. "public" \in Visibility
  BY DEF Visibility
<1>4. Served /\ Saving(Write("deletePost", r, list[k]), nextId')
  BY <1>1, <1>2, <1>3, SetsOut
<1>5. Listing(list', nextId')
  BY <1>1, <1>4, PageWas, WithoutKeeps
<1> QED BY <1>1, <1>4, <1>5, PageWas DEF DeleteOwn, PageSound

LEMMA AfterWriteKeeps ==
  ASSUME NEW n, Listing(list, n), Saving(writing, n), writing # NotWriting
  PROVE  Listing(AfterWrite, n)
<1>1. /\ writing \in Writing /\ writing.row \in Post \cup {Undefined}
      /\ Listing(writing.backup, n) /\ writing.row.id < n
  BY DEF Saving, Writing
<1>2. CASE writing.op = "deletePost"
  BY <1>1, <1>2 DEF AfterWrite, RestoreBackup
<1>3. CASE writing.op # "deletePost"
  <2>1. CASE writing.phase = "failed" \/ writing.row = Undefined
    BY <1>3, <2>1 DEF AfterWrite
  <2>2. CASE ~(writing.phase = "failed" \/ writing.row = Undefined)
    <3>1. writing.row \in Post
      BY <1>1, <2>2
    <3>2. /\ Listing(Inserted(writing.row), n) /\ Listing(Upsert(writing.row), n)
          /\ Listing(Replaced(writing.row), n)
      BY <1>1, <3>1, InsertedKeeps, UpsertKeeps, ReplacedKeeps
    <3> QED BY <1>3, <2>2, <3>2 DEF AfterWrite
  <2> QED BY <2>1, <2>2
<1> QED BY <1>2, <1>3

LEMMA WriteArrivesKeeps ==
  ASSUME PagesInv, WriteArrives PROVE Served /\ PageSound'
<1>1. Served
  BY ServerRests DEF WriteArrives
<1>2. Listing(AfterWrite, nextId')
  BY <1>1, PageWas, AfterWriteKeeps DEF WriteArrives
<1>3. Saving(writing', nextId')
  BY DEF WriteArrives, Saving
<1>4. overtaken' \in BOOLEAN
  BY Zenon DEF WriteArrives
<1>5. list' = AfterWrite /\ loads' = Late(loads)
      /\ UNCHANGED <<view, hasMore, loading, friendIds, inbox, oldest>>
  BY DEF WriteArrives
<1> QED BY <1>1, <1>2, <1>3, <1>4, <1>5, PageWas DEF PageSound

LEMMA DoubtType ==
  ASSUME PagesInv, Doubt PROVE untold' \subseteq Nat
<1>1. {requests[r].post : r \in {q \in Requests : At(q, "deletePost")}} \subseteq Nat
  <2>1. \A r \in Requests : At(r, "deletePost") => requests[r].post \in Nat
    BY InFlight DEF PagesInv, Request, At
  <2> QED BY <2>1
<1>2. {m.about.id : m \in {m \in ToSet(inbox) : m.kind # "friends"}} \subseteq Nat
  <2>1. ASSUME NEW m \in ToSet(inbox), m.kind # "friends" PROVE m.about.id \in Nat
    <3>1. PICK k \in DOMAIN inbox : m = inbox[k]
      BY DEF ToSet
    <3>2. m \in Sent
      BY <2>1, <3>1 DEF PagesInv, PageSound, Arriving, PostEvent
    <3> QED BY <3>2 DEF Sent, Post, RowId, NoId
  <2> QED BY <2>1
<1>3. untold \subseteq Nat
  BY DEF PagesInv
<1> QED BY <1>1, <1>2, <1>3 DEF Doubt

LEMMA OneMore ==
  ASSUME NEW n, NEW box, Arriving(box, n), NEW m \in Event,
         m.kind # "friends" => PostEvent(m, n)
  PROVE  Arriving(Append(box, m), n)
<1>1. box \in Seq(Event)
  BY DEF Arriving
<1>2. Len(box) \in Nat /\ DOMAIN box = 1..Len(box)
  BY <1>1, LenProperties
<1>3. /\ Append(box, m) \in Seq(Event) /\ Len(Append(box, m)) = Len(box) + 1
      /\ \A k \in 1..Len(box) : Append(box, m)[k] = box[k]
      /\ Append(box, m)[Len(box) + 1] = m
  BY <1>1, AppendProperties
<1>4. DOMAIN Append(box, m) = 1..(Len(box) + 1)
  BY <1>3, LenProperties
<1>5. \A k \in DOMAIN Append(box, m) :
        Append(box, m)[k] = m \/ (k \in DOMAIN box /\ Append(box, m)[k] = box[k])
  BY <1>2, <1>3, <1>4
<1> QED BY <1>3, <1>5 DEF Arriving

LEMMA OthersRelateKeeps ==
  ASSUME PagesInv, OthersRelate PROVE Served /\ PageSound' /\ untold' \subseteq Nat
<1>1. Served
  BY RelationServes DEF OthersRelate
<1>2. [kind |-> "friends"] \in Event
  BY DEF Event
<1>3. Arriving(inbox', nextId')
  BY <1>1, <1>2, PageWas, OneMore DEF OthersRelate
<1> QED BY <1>1, <1>3, PageWas, DoubtType DEF OthersRelate, PageSound

LEMMA RunActionKeeps ==
  ASSUME PagesInv, RunAction PROVE Served /\ PageSound' /\ untold' \subseteq Nat
<1>1. view \in Users /\ view # Me
  BY DEF RunAction, PagesInv, PageSound, OnFeed
<1>2. Served
  BY <1>1, RelationServes DEF RunAction
<1>3. 0 < nextId' /\ Undefined.id < nextId'
  BY <1>2, NextIdIsNat DEF PagesInv, Served, Undefined, NoId
<1>4. Saving(writing', nextId')
  BY <1>2, <1>3, PageWas, WriteFits DEF RunAction
<1> QED BY <1>2, <1>4, PageWas, DoubtType DEF RunAction, PageSound

LEMMA StartLoads ==
  ASSUME PagesInv, Served, NEW v \in Tabs \cup Users, Start(v)
  PROVE  Loading(loads', nextId') /\ loading' \in BOOLEAN
<1>1. Reload(v) \in Load /\ Listing(Reload(v).posts, nextId')
  BY ReloadFits
<1>2. Loading(Late(loads), nextId')
  BY PageWas
<1> QED BY <1>1, <1>2, MoreLoads DEF Start

LEMMA ActionArrivesKeeps ==
  ASSUME PagesInv, ActionArrives PROVE Served /\ PageSound'
<1>1. Served
  BY ServerRests DEF ActionArrives
<1>2. Loading(loads', nextId') /\ loading' \in BOOLEAN
  BY <1>1, PageWas, StartLoads DEF ActionArrives
<1>3. Saving(writing', nextId')
  BY DEF ActionArrives, Saving
<1> QED BY <1>1, <1>2, <1>3, PageWas DEF ActionArrives, PageSound

LEMMA OthersWriteKeeps ==
  ASSUME PagesInv, NEW r \in Requests, OthersWrite(r) PROVE Served /\ PageSound'
<1>1. Served
  BY OthersWriteServes
<1> QED BY <1>1, PageWas DEF OthersWrite, pageVars, PageSound
\* The answer to a write of the page gets on its way.
LEMMA AnswerGoes ==
  ASSUME NEW n, Saving(writing, n), writing # NotWriting, NEW ph \in {"ok", "failed"},
         NEW row \in Post \cup {Undefined}, row.id < n
  PROVE  /\ Saving([writing EXCEPT !.phase = ph, !.row = row], n)
         /\ Saving([writing EXCEPT !.phase = ph], n)
<1>1. writing \in Writing /\ Listing(writing.backup, n) /\ writing.row.id < n
  BY DEF Saving
<1>2. ASSUME NEW z \in Post \cup {Undefined}, z.id < n
      PROVE  Saving([writing EXCEPT !.phase = ph, !.row = z], n)
  <2> DEFINE w == [writing EXCEPT !.phase = ph, !.row = z]
  <2>1. w \in Writing /\ w.backup = writing.backup /\ w.row = z
    BY <1>1 DEF Writing
  <2> HIDE DEF w
  <2>2. Saving(w, n)
    BY <1>1, <1>2, <2>1 DEF Saving
  <2> QED BY <2>2 DEF w
<1>3. [writing EXCEPT !.phase = ph] = [writing EXCEPT !.phase = ph, !.row = writing.row]
  BY <1>1 DEF Writing
<1>4. writing.row \in Post \cup {Undefined}
  BY <1>1 DEF Writing
<1> QED BY <1>1, <1>2, <1>3, <1>4

LEMMA ServeRequestKeeps ==
  ASSUME PagesInv, NEW r \in Requests, ServeRequest(r)
  PROVE  Served /\ PageSound' /\ untold' \subseteq Nat
<1>1. /\ Served /\ requests[r].row \in Post \cup {Undefined}
      /\ requests[r].row.id < nextId'
  BY StepServes DEF ServeRequest
<1>2. /\ UNCHANGED <<view, list, hasMore, loading, friendIds, oldest>>
      /\ overtaken' \in BOOLEAN /\ (loads' = loads \/ loads' = Late(loads))
  BY DEF ServeRequest
<1>3. Arriving(inbox', nextId')
  <2>1. CASE inbox' = inbox
    BY <1>1, <2>1, PageWas
  <2>2. CASE inbox' # inbox
    <3>1. inbox' = Append(inbox, CHOOSE m \in wire' : TRUE) /\ \E m \in wire' : TRUE
      BY <2>2 DEF ServeRequest
    <3>2. PICK m \in wire' : inbox' = Append(inbox, m)
      BY <3>1
    <3>3. PostEvent(m, nextId') /\ m \in Event
      BY <1>1, <3>2 DEF Served, PostEvent, Event
    <3> QED BY <1>1, <3>2, <3>3, PageWas, OneMore
  <2> QED BY <2>1, <2>2
<1>4. Saving(writing', nextId')
  <2>1. CASE writing' = writing
    BY <1>1, <2>1, PageWas
  <2>2. CASE writing' # writing
    <3>1. writing # NotWriting
      BY <2>2 DEF ServeRequest, Ours
    <3> DEFINE ph == IF wire' # {} THEN "ok" ELSE "failed"
               row == IF writing.op = "deletePost" THEN writing.row ELSE requests[r].row
    <3>2. writing' = [writing EXCEPT !.phase = ph, !.row = row]
      BY <2>2 DEF ServeRequest
    <3>3. Saving(writing, nextId')
      BY <1>1, PageWas
    <3>4. row \in Post \cup {Undefined} /\ row.id < nextId' /\ ph \in {"ok", "failed"}
      BY <1>1, <3>1, <3>3 DEF Saving, Writing
    <3> HIDE DEF row, ph
    <3> QED BY <3>1, <3>2, <3>3, <3>4, AnswerGoes
  <2> QED BY <2>1, <2>2
<1>5. ~At(r, "idle")
  BY DEF ServeRequest, PostStep, InsertPost, LoadPost, CheckBlock, CheckFriends, UpdatePost,
         RefetchPost, Audience, DeletePost, EmitEvent, At
<1>6. untold' \subseteq Nat
  <2>1. requests[r].post \in Nat
    BY InFlight, <1>5 DEF PagesInv, Request
  <2> QED BY <2>1 DEF ServeRequest, PagesInv
<1> QED BY <1>1, <1>2, <1>3, <1>4, <1>6, PageWas DEF PageSound

LEMMA ServeFailsKeeps ==
  ASSUME PagesInv, NEW r \in Requests, ServeFails(r)
  PROVE  Served /\ PageSound' /\ untold' \subseteq Nat
<1>1. Served /\ Fail(r)
  BY FailServes DEF ServeFails
<1>2. requests[r].post \in Nat
  BY <1>1, InFlight DEF PagesInv, Fail, Request
<1>3. untold' \subseteq Nat /\ overtaken' \in BOOLEAN
  BY <1>2 DEF ServeFails, PagesInv
<1>4. Saving(writing', nextId')
  <2>1. Saving(writing, nextId')
    BY <1>1, PageWas
  <2>2. CASE writing' = writing
    BY <2>1, <2>2
  <2>3. CASE writing' # writing
    <3>1. writing # NotWriting /\ writing' = [writing EXCEPT !.phase = "failed"]
      BY <2>3 DEF ServeFails, Ours
    <3>2. writing.row \in Post \cup {Undefined} /\ writing.row.id < nextId'
      BY <2>1, <3>1 DEF Saving, Writing
    <3> QED BY <2>1, <3>1, <3>2, AnswerGoes
  <2> QED BY <2>2, <2>3
<1> QED BY <1>1, <1>3, <1>4, PageWas DEF ServeFails, PageSound

\* The first of what waits in the socket, and the rest.
LEMMA Received ==
  ASSUME NEW n, NEW box, Arriving(box, n), box # <<>>
  PROVE  /\ Head(box) \in Event /\ (Head(box).kind # "friends" => PostEvent(Head(box), n))
         /\ Arriving(Tail(box), n)
<1>1. box \in Seq(Event)
  BY DEF Arriving
<1>2. Len(box) \in Nat \ {0} /\ DOMAIN box = 1..Len(box)
  BY <1>1, EmptySeq, LenProperties
<1>3. Head(box) = box[1] /\ 1 \in DOMAIN box
  BY <1>1, <1>2
<1>4. /\ Tail(box) \in Seq(Event) /\ Len(Tail(box)) = Len(box) - 1
      /\ \A i \in 1..Len(Tail(box)) : Tail(box)[i] = box[i + 1]
  BY <1>1, HeadTailProperties
<1>5. DOMAIN Tail(box) = 1..(Len(box) - 1)
  BY <1>4, LenProperties
<1>6. \A i \in DOMAIN Tail(box) : i + 1 \in DOMAIN box /\ Tail(box)[i] = box[i + 1]
  BY <1>2, <1>4, <1>5
<1>7. Arriving(Tail(box), n)
  BY <1>4, <1>6 DEF Arriving
<1> QED BY <1>1, <1>3, <1>7, HeadTailProperties DEF Arriving

LEMMA AfterEventKeeps ==
  ASSUME NEW n, Listing(list, n), NEW m, PostEvent(m, n) PROVE Listing(AfterEvent(m), n)
<1> DEFINE p == m.carries
<1>1. p \in Post \cup {Undefined} /\ p.id < n /\ (m.kind = "post:created" => p # Undefined)
  BY DEF PostEvent
<1>2. CASE m.kind = "post:deleted"
  BY <1>2, WithoutKeeps DEF AfterEvent
<1>3. CASE m.kind = "post:created"
  <2>1. p \in Post
    BY <1>1, <1>3
  <2> QED BY <1>1, <1>3, <2>1, InsertedKeeps DEF AfterEvent
<1>4. CASE m.kind \notin {"post:deleted", "post:created"}
  <2>1. CASE p = Undefined \/ p.author = Me \/ (~OnFeed /\ p.author # view)
    BY <1>4, <2>1 DEF AfterEvent
  <2>2. CASE ~(p = Undefined \/ p.author = Me \/ (~OnFeed /\ p.author # view))
    <3>1. p \in Post
      BY <1>1, <2>2
    <3>2. AfterEvent(m) = Upsert(p)
      BY <1>4, <2>2 DEF AfterEvent
    <3> QED BY <1>1, <3>1, <3>2, UpsertKeeps
  <2> QED BY <2>1, <2>2
<1> QED BY <1>2, <1>3, <1>4

LEMMA HandlePostEventKeeps ==
  ASSUME PagesInv, HandlePostEvent PROVE Served /\ PageSound'
<1>1. Served
  BY ServerRests DEF HandlePostEvent
<1>2. /\ inbox # <<>> /\ Head(inbox).kind # "friends" /\ list' = AfterEvent(Head(inbox))
      /\ inbox' = Tail(inbox) /\ loads' = Late(loads)
      /\ UNCHANGED <<view, hasMore, loading, friendIds, writing, oldest>>
  BY DEF HandlePostEvent
<1>3. overtaken' \in BOOLEAN
  BY Zenon DEF HandlePostEvent
<1>4. PostEvent(Head(inbox), nextId') /\ Arriving(Tail(inbox), nextId')
  BY <1>1, <1>2, PageWas, Received
<1>5. Listing(list', nextId')
  BY <1>1, <1>2, <1>4, PageWas, AfterEventKeeps
<1> QED BY <1>1, <1>2, <1>3, <1>4, <1>5, PageWas DEF PageSound

LEMMA HandleFriendEventKeeps ==
  ASSUME PagesInv, HandleFriendEvent PROVE Served /\ PageSound'
<1>1. Served
  BY ServerRests DEF HandleFriendEvent
<1>2. Arriving(inbox', nextId')
  BY <1>1, PageWas, Received DEF HandleFriendEvent
<1>3. Loading(loads', nextId') /\ loading' \in BOOLEAN
  <2>1. CASE OnFeed
    <3> DEFINE l == NewLoad("friends", view, 0)
    <3>1. loads' = loads \cup {l} /\ loading' = loading
      BY <2>1 DEF HandleFriendEvent
    <3>2. l \in Load /\ Listing(l.posts, nextId')
      BY <1>1, PageWas, NewLoadFits
    <3> HIDE DEF l
    <3> QED BY <1>1, <3>1, <3>2, PageWas, MoreLoads
  <2>2. CASE ~OnFeed
    BY <1>1, <2>2, PageWas, StartLoads DEF HandleFriendEvent
  <2> QED BY <2>1, <2>2
<1>4. UNCHANGED <<view, list, hasMore, friendIds, writing, oldest, overtaken>>
  BY DEF HandleFriendEvent
<1> QED BY <1>1, <1>2, <1>3, <1>4, PageWas DEF PageSound

LEMMA SocketDropsKeeps ==
  ASSUME PagesInv, SocketDrops PROVE Served /\ PageSound'
<1>1. Served
  BY ServerRests DEF SocketDrops
<1>2. Arriving(<<>>, nextId')
  <2>1. <<>> \in Seq(Event) /\ DOMAIN <<>> = {}
    OBVIOUS
  <2> QED BY <2>1 DEF Arriving
<1> QED BY <1>1, <1>2, PageWas DEF SocketDrops, PageSound

-----------------------------------------------------------------------------
(* The invariant holds throughout.                                         *)

LEMMA PagesStart == PagesInit => PagesInv
<1> SUFFICES ASSUME PagesInit PROVE PagesInv
  OBVIOUS
<1>1. Cardinality(Already) \in Nat
  BY PagesAssumption, FS_CardinalityType
<1>2. nextId \in RowId /\ nextId \in Nat /\ nextId = Cardinality(Already) + 1
  BY <1>1 DEF PagesInit, RowId, NoId
<1>3. \A p \in Already : p \in Post /\ p.id \in Nat /\ p.id < nextId
  BY <1>1, <1>2, PagesAssumption DEF Post, RowId, NoId
<1>4. friends \subseteq Pairs
  <2>1. PICK u \in Users : friends = {{Me, u}} \ {{Me}}
    BY DEF PagesInit
  <2> QED BY <2>1, PagesAssumption DEF Pairs
<1>5. everShown \subseteq RowId \X Visibility
  BY <1>3 DEF PagesInit, Post
<1>6. \A r \in Requests : requests[r] = Idle /\ At(r, "idle")
  BY DEF PagesInit, At, Idle
<1>7. TypeOK
  BY <1>2, <1>3, <1>4, <1>5, <1>6 DEF PagesInit, TypeOK
<1>8. PostsNumbered /\ CommentsWereAdmitted
  BY <1>3, PagesAssumption DEF PagesInit, PostsNumbered, Was, CommentsWereAdmitted
<1>9. SharingInv
  BY <1>6, <1>7, <1>8 DEF PagesInit, SharingInv
<1>10. Posted
  BY <1>6 DEF Posted
<1>11. PageSound
  <2>1. view \in Tabs \cup Users /\ friendIds \subseteq Users
    BY PagesAssumption DEF PagesInit, FriendsOf
  <2>2. Listing(list, nextId)
    BY <1>9, PageListing DEF PagesInit
  <2>3. oldest \in Nat
    BY <2>2, ReachType DEF PagesInit
  <2>4. <<>> \in Seq(Event) /\ DOMAIN <<>> = {}
    OBVIOUS
  <2>5. Loading(loads, nextId) /\ Saving(writing, nextId) /\ Arriving(inbox, nextId)
    BY <2>4 DEF PagesInit, Loading, Saving, Arriving
  <2>6. hasMore \in BOOLEAN /\ loading \in BOOLEAN /\ overtaken \in BOOLEAN
    BY DEF PagesInit
  <2> QED BY <2>1, <2>2, <2>3, <2>5, <2>6 DEF PageSound
<1> QED BY <1>9, <1>10, <1>11 DEF PagesInv, PagesInit

LEMMA TurnKeeps == ASSUME PagesInv, Turn PROVE PagesInv'
<1>1. turns' \in Nat
  BY DEF Turn, PagesInv
<1>2. Served /\ PageSound' /\ untold' \subseteq Nat
  <2>1. CASE untold' = untold /\ \E v \in Views : Switch(v) \/ Navigate(v)
    BY <2>1, SwitchKeeps, NavigateKeeps DEF PagesInv
  <2>2. CASE untold' = untold /\ (LoadMore \/ LoadFails \/ SocketDrops)
    BY <2>2, LoadMoreKeeps, LoadFailsKeeps, SocketDropsKeeps DEF PagesInv
  <2>3. CASE untold' = untold /\ \E r \in Requests :
               SubmitPost(r) \/ SaveEdit(r) \/ DeleteOwn(r) \/ OthersWrite(r)
    BY <2>3, SubmitPostKeeps, SaveEditKeeps, DeleteOwnKeeps, OthersWriteKeeps DEF PagesInv
  <2>4. CASE OthersRelate \/ RunAction \/ \E r \in Requests : ServeFails(r)
    BY <2>4, OthersRelateKeeps, RunActionKeeps, ServeFailsKeeps
  <2> QED BY <2>1, <2>2, <2>3, <2>4 DEF Turn
<1> QED BY <1>1, <1>2 DEF PagesInv, Served

LEMMA FollowKeeps == ASSUME PagesInv, Follow PROVE PagesInv'
<1>1. turns' \in Nat
  BY DEF Follow, PagesInv
<1>2. Served /\ PageSound' /\ untold' \subseteq Nat
  <2>1. CASE untold' = untold /\ (ServeLoad \/ LoadArrives)
    BY <2>1, ServeLoadKeeps, LoadArrivesKeeps DEF PagesInv
  <2>2. CASE untold' = untold /\ (WriteArrives \/ ActionArrives)
    BY <2>2, WriteArrivesKeeps, ActionArrivesKeeps DEF PagesInv
  <2>3. CASE untold' = untold /\ (HandlePostEvent \/ HandleFriendEvent)
    BY <2>3, HandlePostEventKeeps, HandleFriendEventKeeps DEF PagesInv
  <2>4. CASE \E r \in Requests : ServeRequest(r)
    BY <2>4, ServeRequestKeeps
  <2> QED BY <2>1, <2>2, <2>3, <2>4 DEF Follow
<1> QED BY <1>1, <1>2 DEF PagesInv, Served

LEMMA PagesStep == PagesInv /\ [PagesNext]_pagesVars => PagesInv'
<1>1. ASSUME PagesInv, UNCHANGED pagesVars PROVE PagesInv'
  <2>1. UNCHANGED vars /\ UNCHANGED <<pageVars, inbox, turns, untold>>
    BY <1>1 DEF pagesVars
  <2>2. SharingInv'
    BY <1>1, <2>1, StutterKeeps DEF PagesInv
  <2>3. nextId' = nextId /\ UNCHANGED requests
    BY <2>1 DEF vars, postTables
  <2> QED BY <1>1, <2>1, <2>2, <2>3 DEF PagesInv, Posted, At, PageSound, pageVars
<1> QED BY <1>1, TurnKeeps, FollowKeeps DEF PagesNext

(***************************************************************************)
(* PagesInv holds throughout: whatever an event, a page, a backup or an    *)
(* answer brings is a post of the table or one that was, and none brings a *)
(* post twice.                                                             *)
(***************************************************************************)
THEOREM PagesInvariant == PagesSpec => []PagesInv
  BY PagesStart, PagesStep, PTL DEF PagesSpec

(***************************************************************************)
(* The lists, the loads and writes in flight and what waits in the socket  *)
(* are well-typed: no undefined gets into a list (setPosts of FeedPage and *)
(* UserProfilePage), although a refetch of the service may find nothing.   *)
(***************************************************************************)
THEOREM PagesTypes == PagesSpec => []PagesTypeOK
<1>1. PagesInv => PagesTypeOK
  BY DEF PagesInv, SharingInv, PageSound, PagesTypeOK, Listing, Loading, Saving, Arriving
<1> QED BY <1>1, PagesInvariant, PTL

(***************************************************************************)
(* No post is listed twice, for any number of loads, events and writes in  *)
(* flight, any page size and any order in which they arrive.               *)
(***************************************************************************)
THEOREM NoPostTwice == PagesSpec => []NoDuplicates
<1>1. PagesInv => NoDuplicates
  BY DEF PagesInv, PageSound, Listing, Apart, NoDuplicates
<1> QED BY <1>1, PagesInvariant, PTL

-----------------------------------------------------------------------------
(* What operations on a list make of the set of its posts.                 *)

LEMMA PickedAll ==
  ASSUME NEW s \in Seq(Post), NEW K \in SUBSET DOMAIN s
  PROVE  ToSet(Picked(s, K)) = {s[i] : i \in K}
<1>1. \A k \in DOMAIN Picked(s, K) : \E i \in K : Picked(s, K)[k] = s[i]
  BY PickedOf
<1>2. Len(s) \in Nat /\ DOMAIN s = 1..Len(s)
  BY LenProperties
<1>3. K \in SUBSET Nat /\ IsFiniteSet(K)
  <2>1. IsFiniteSet(1..Len(s))
    BY <1>2, FS_Interval
  <2> QED BY <1>2, <2>1, FS_Subset
<1>4. ASSUME NEW i \in K PROVE \E k \in DOMAIN Picked(s, K) : Picked(s, K)[k] = s[i]
  <2>1. Rank(K, i) \in 1..Cardinality(K)
    BY <1>3, RankRange
  <2> DEFINE j == Nth(K, Rank(K, i))
  <2>2. j \in K /\ Rank(K, j) = Rank(K, i)
    BY <1>3, <2>1, NthThere
  <2>3. i \in Nat /\ j \in Nat
    BY <1>3, <2>2
  <2>4. Cardinality(K) \in Nat
    BY <1>3, FS_CardinalityType
  <2>5. Rank(K, i) \in Nat
    BY <2>1, <2>4
  <2> HIDE DEF j
  <2>6. ~(i < j)
    <3>1. ASSUME i < j PROVE Rank(K, i) < Rank(K, j)
      BY <1>3, <2>2, <3>1, RankGrows
    <3> QED BY <2>2, <2>5, <3>1
  <2>7. ~(j < i)
    <3>1. ASSUME j < i PROVE Rank(K, j) < Rank(K, i)
      BY <1>3, <2>2, <3>1, RankGrows
    <3> QED BY <2>2, <2>5, <3>1
  <2>8. j = i
    BY <2>3, <2>6, <2>7
  <2> QED BY <2>1, <2>8 DEF Picked, j
<1> QED BY <1>1, <1>4 DEF ToSet

LEMMA InSet ==
  ASSUME NEW s, NEW n, Listing(s, n)
  PROVE  ToSet(s) \subseteq Post /\ \A p \in ToSet(s) : p.id < n
<1>1. \A k \in DOMAIN s : s[k] \in Post
  BY LenProperties, ElementOfSeq DEF Listing
<1> QED BY <1>1 DEF ToSet, Listing

\* A list has one version of a post.
LEMMA OneVersion ==
  ASSUME NEW s, NEW n, Listing(s, n), NEW p \in ToSet(s), NEW q \in ToSet(s), p.id = q.id
  PROVE  p = q
  BY DEF ToSet, Listing, Apart

LEMMA WithoutSet ==
  ASSUME NEW s, NEW n, Listing(s, n), NEW i
  PROVE  ToSet(WithoutOf(s, i)) = {p \in ToSet(s) : p.id # i}
<1> DEFINE K == {k \in DOMAIN s : s[k].id # i}
<1>1. s \in Seq(Post) /\ K \in SUBSET DOMAIN s
  BY DEF Listing
<1>2. ToSet(Picked(s, K)) = {s[k] : k \in K}
  BY <1>1, PickedAll
<1> QED BY <1>2 DEF WithoutOf, ToSet

LEMMA HasSet == ASSUME NEW i PROVE Has(i) <=> \E p \in ToSet(list) : p.id = i
  BY DEF Has, ToSet

LEMMA ReplacedSet ==
  ASSUME NEW p
  PROVE  ToSet(Replaced(p)) = {q \in ToSet(list) : q.id # p.id} \cup (IF Has(p.id) THEN {p} ELSE {})
  BY DEF Replaced, ToSet, Has

LEMMA OnTopSet ==
  ASSUME NEW p \in Post, list \in Seq(Post)
  PROVE  ToSet(<<p>> \o list) = ToSet(list) \cup {p}
<1>1. Len(list) \in Nat /\ DOMAIN list = 1..Len(list)
  BY LenProperties
<1>2. <<p>> \in Seq(Post) /\ Len(<<p>>) = 1 /\ <<p>>[1] = p
  OBVIOUS
<1> DEFINE s == <<p>> \o list
<1>3. /\ s \in Seq(Post) /\ DOMAIN s = 1..(1 + Len(list))
      /\ \A k \in 1..(1 + Len(list)) : s[k] = IF k <= 1 THEN <<p>>[k] ELSE list[k - 1]
  BY <1>2, ConcatProperties, LenProperties
<1> HIDE DEF s
<1>4. \A k \in DOMAIN s : \/ k = 1 /\ s[k] = p
                          \/ k - 1 \in DOMAIN list /\ s[k] = list[k - 1]
  BY <1>1, <1>2, <1>3
<1>5. 1 \in DOMAIN s /\ s[1] = p
  BY <1>1, <1>2, <1>3
<1>6. \A k \in DOMAIN list : k + 1 \in DOMAIN s /\ s[k + 1] = list[k]
  BY <1>1, <1>3
<1>7. ToSet(s) \subseteq ToSet(list) \cup {p}
  BY <1>4 DEF ToSet
<1>8. ToSet(list) \cup {p} \subseteq ToSet(s)
  BY <1>5, <1>6 DEF ToSet
<1> QED BY <1>7, <1>8 DEF s

\* The older page beside the list.
Joined(page) == ToSet(list) \cup {p \in ToSet(page) : ~Has(p.id)}

LEMMA AppendFreshSet ==
  ASSUME list \in Seq(Post), NEW page \in Seq(Post)
  PROVE  ToSet(AppendFresh(page)) = Joined(page)
<1> DEFINE K == {k \in DOMAIN page : ~Has(page[k].id)}
           f == Picked(page, K)
           s == list \o f
           c == Len(list)
<1>1. c \in Nat /\ DOMAIN list = 1..c
  BY LenProperties
<1>2. f \in Seq(Post) /\ ToSet(f) = {page[k] : k \in K}
  BY PickedOf, PickedAll
<1>3. ToSet(f) = {p \in ToSet(page) : ~Has(p.id)}
  BY <1>2 DEF ToSet
<1> HIDE DEF f
<1>4. Len(f) \in Nat /\ DOMAIN f = 1..Len(f)
  BY <1>2, LenProperties
<1>5. /\ s \in Seq(Post) /\ DOMAIN s = 1..(c + Len(f))
      /\ \A k \in 1..(c + Len(f)) : s[k] = IF k <= c THEN list[k] ELSE f[k - c]
  BY <1>2, ConcatProperties, LenProperties
<1> HIDE DEF s, c
<1>6. \A k \in DOMAIN s : \/ k \in DOMAIN list /\ s[k] = list[k]
                          \/ k - c \in DOMAIN f /\ s[k] = f[k - c]
  BY <1>1, <1>4, <1>5
<1>7. \A k \in DOMAIN list : k \in DOMAIN s /\ s[k] = list[k]
  BY <1>1, <1>4, <1>5
<1>8. ASSUME NEW k \in DOMAIN f PROVE k + c \in DOMAIN s /\ s[k + c] = f[k]
  <2>1. k \in 1..Len(f) /\ k + c \in 1..(c + Len(f)) /\ ~(k + c <= c) /\ (k + c) - c = k
    BY <1>1, <1>4
  <2> QED BY <1>5, <2>1
<1>9. ToSet(s) \subseteq ToSet(list) \cup ToSet(f)
  BY <1>6 DEF ToSet
<1>10. ToSet(list) \cup ToSet(f) \subseteq ToSet(s)
  BY <1>7, <1>8 DEF ToSet
<1>11. AppendFresh(page) = s
  BY DEF AppendFresh, s, f
<1> QED BY <1>3, <1>9, <1>10, <1>11 DEF Joined

LEMMA InsertedSet ==
  ASSUME NEW p \in Post, list \in Seq(Post)
  PROVE  ToSet(Inserted(p)) = ToSet(list) \cup (IF Matches(p) /\ ~Has(p.id) THEN {p} ELSE {})
  BY OnTopSet DEF Inserted

LEMMA UpsertSet ==
  ASSUME NEW n, Listing(list, n), NEW p \in Post
  PROVE  ToSet(Upsert(p)) = {q \in ToSet(list) : q.id # p.id} \cup (IF Matches(p) THEN {p} ELSE {})
<1>0. list \in Seq(Post)
  BY DEF Listing
<1>1. CASE Matches(p) /\ Has(p.id)
  BY <1>1, ReplacedSet DEF Upsert
<1>2. CASE Matches(p) /\ ~Has(p.id)
  <2>1. ToSet(Upsert(p)) = ToSet(list) \cup {p}
    BY <1>0, <1>2, OnTopSet DEF Upsert
  <2>2. \A q \in ToSet(list) : q.id # p.id
    BY <1>2, HasSet
  <2> QED BY <1>2, <2>1, <2>2
<1>3. CASE ~Matches(p)
  <2>1. Upsert(p) = WithoutOf(list, p.id)
    BY <1>3 DEF Upsert, Without
  <2> QED BY <1>3, <2>1, WithoutSet
<1> QED BY <1>1, <1>2, <1>3

-----------------------------------------------------------------------------
(* What the server lists.                                                  *)

\* A page is of the posts listed, and leaves out none above its last one.
LEMMA PagePosts ==
  ASSUME SharingInv, NEW v, NEW before \in Nat
  PROVE  /\ \A p \in ToSet(Page(v, before)) :
              p \in Listed(v) /\ (before = 0 \/ p.id < before)
         /\ \A p \in Listed(v) :
              (before = 0 \/ p.id < before) /\ p.id >= Reach(Page(v, before))
              => p \in ToSet(Page(v, before))
<1> DEFINE rows == {p \in Listed(v) : before = 0 \/ p.id < before}
           ids == {p.id : p \in rows}
           n == Cardinality(ids)
           m == IF n < PageSize THEN n ELSE PageSize
           Row(k) == RowOf(PostById(Nth(ids, n + 1 - k)))
           page == Page(v, before)
<1>1. rows \subseteq posts
  BY DEF Listed, Feed, PostsBy
<1>2. \A i \in ids : i \in Nat /\ i < nextId
  BY <1>1, Named
<1>3. nextId \in Nat
  BY DEF SharingInv, TypeOK, RowId
<1>4. ids \in SUBSET Nat
  BY <1>2
<1>5. IsFiniteSet(ids)
  <2>1. \A i \in ids : i <= nextId
    BY <1>2, <1>3
  <2> HIDE DEF ids
  <2> QED BY <1>3, <1>4, <2>1, FS_BoundedSetOfNaturals
<1>6. n \in Nat /\ m \in Nat /\ m <= n /\ PageSize \in Nat /\ PageSize # 0
  BY <1>5, FS_CardinalityType, PagesAssumption
<1>7. \A i \in ids : \E p \in rows : p.id = i
  OBVIOUS
<1>8. TypeOK
  BY DEF SharingInv
<1>9. page = [k \in 1..m |-> Row(k)]
  BY DEF Page
<1>a. \A p \in rows : p.id \in ids
  OBVIOUS
<1>b. \A p, q \in posts : p.id = q.id => p = q
  BY DEF SharingInv, PostsNumbered
<1> HIDE DEF ids, rows
<1>10. \A k \in 1..m : n + 1 - k \in 1..n
  BY <1>6
<1>11. \A k \in 1..m : Nth(ids, n + 1 - k) \in ids /\ Rank(ids, Nth(ids, n + 1 - k)) = n + 1 - k
  BY <1>4, <1>5, <1>10, NthThere
<1>12. ASSUME NEW k \in 1..m
       PROVE  Row(k) \in rows /\ Row(k).id = Nth(ids, n + 1 - k)
  <2>1. PICK p \in rows : p.id = Nth(ids, n + 1 - k)
    BY <1>7, <1>11
  <2>2. p \in PostById(Nth(ids, n + 1 - k))
    BY <1>1, <2>1 DEF PostById
  <2>3. Row(k) \in PostById(Nth(ids, n + 1 - k))
    BY <2>2 DEF RowOf
  <2>4. Row(k) = p
    BY <1>1, <1>b, <2>1, <2>3 DEF PostById
  <2> QED BY <2>1, <2>4
<1> HIDE DEF n, m, Row
<1>13. page \in Seq(Post) /\ Len(page) = m /\ DOMAIN page = 1..m
  <2>1. Listing(page, nextId)
    BY PageListing
  <2>2. page \in Seq(Post) /\ DOMAIN page = 1..Len(page) /\ Len(page) \in Nat
    BY <2>1, LenProperties DEF Listing
  <2>3. DOMAIN page = 1..m
    BY <1>9
  <2> HIDE DEF page
  <2>4. Len(page) = m
    <3>1. 1..Len(page) = 1..m
      BY <2>2, <2>3
    <3>2. \A k \in 1..Len(page) : k \in 1..m
      BY <3>1
    <3>3. \A k \in 1..m : k \in 1..Len(page)
      BY <3>1
    <3> DEFINE c == Len(page)
    <3> HIDE DEF c
    <3>4. c \in Nat /\ (\A k \in 1..c : k \in 1..m) /\ (\A k \in 1..m : k \in 1..c)
      BY <2>2, <3>2, <3>3 DEF c
    <3>5. c = 0 \/ c \in 1..c
      BY <3>4
    <3>6. m = 0 \/ m \in 1..m
      BY <1>6
    <3>7. c <= m /\ m <= c
      BY <1>6, <3>4, <3>5, <3>6
    <3> QED BY <1>6, <3>4, <3>7 DEF c
  <2> QED BY <2>2, <2>3, <2>4
<1>14. \A p \in ToSet(page) : p \in rows
  BY <1>9, <1>12, <1>13 DEF ToSet
<1>15. ASSUME NEW p \in rows, p.id >= Reach(page) PROVE p \in ToSet(page)
  <2> DEFINE c == Rank(ids, p.id)
             k == n + 1 - c
  <2>1. p.id \in ids
    BY <1>a
  <2>2. c \in 1..n
    BY <1>4, <1>5, <2>1, RankRange DEF n
  <2>3. k \in 1..n
    BY <1>6, <2>2
  <2>4. k \in 1..m
    <3>1. CASE n < PageSize
      BY <2>3, <3>1 DEF m
    <3>2. CASE ~(n < PageSize)
      <4>1. m = PageSize /\ m \in 1..m
        BY <1>6, <3>2 DEF m
      <4>2. Reach(page) = page[m].id
        BY <1>13, <4>1 DEF Reach, Last
      <4>3. page[m].id = Nth(ids, n + 1 - m)
        BY <1>9, <1>12, <4>1
      <4> DEFINE j == Nth(ids, n + 1 - m)
      <4>4. j \in ids /\ Rank(ids, j) = n + 1 - m
        BY <1>11, <4>1
      <4>5. j \in Nat /\ p.id \in Nat /\ p.id >= j
        BY <1>4, <1>15, <2>1, <4>2, <4>3, <4>4
      <4> HIDE DEF j
      <4>6. CASE p.id = j
        BY <1>6, <2>3, <4>1, <4>4, <4>6
      <4>7. CASE p.id # j
        <5>1. j < p.id
          BY <4>5, <4>7
        <5>2. Rank(ids, j) < c
          BY <1>4, <1>5, <2>1, <4>4, <5>1, RankGrows
        <5> HIDE DEF c
        <5>3. n + 1 - m < c
          BY <4>4, <5>2
        <5>4. n + 1 - c <= m /\ 1 <= n + 1 - c
          BY <1>6, <2>2, <5>3
        <5> QED BY <1>6, <2>3, <5>4
      <4> QED BY <4>6, <4>7
    <3> QED BY <3>1, <3>2
  <2>5. Nth(ids, n + 1 - k) \in ids /\ Rank(ids, Nth(ids, n + 1 - k)) = n + 1 - k
    BY <1>11, <2>4
  <2>6. n + 1 - k = c
    BY <1>6, <2>2
  <2> DEFINE j == Nth(ids, n + 1 - k)
  <2>7. j \in ids /\ Rank(ids, j) = c
    BY <2>5, <2>6
  <2>8. j = p.id
    <3>a. c \in Nat
      <4> HIDE DEF c
      <4> QED BY <1>6, <2>2
    <3>1. j \in Nat /\ p.id \in Nat /\ c \in Nat
      BY <1>4, <2>1, <2>7, <3>a
    <3> HIDE DEF j
    <3>2. ~(j < p.id)
      <4>1. ASSUME j < p.id PROVE Rank(ids, j) < Rank(ids, p.id)
        BY <1>4, <1>5, <2>1, <2>7, <4>1, RankGrows
      <4> HIDE DEF c
      <4>2. c = Rank(ids, p.id)
        BY DEF c
      <4> QED BY <2>7, <3>1, <4>1, <4>2
    <3>3. ~(p.id < j)
      <4>1. ASSUME p.id < j PROVE Rank(ids, p.id) < Rank(ids, j)
        BY <1>4, <1>5, <2>1, <2>7, <4>1, RankGrows
      <4> HIDE DEF c
      <4>2. c = Rank(ids, p.id)
        BY DEF c
      <4> QED BY <2>7, <3>1, <4>1, <4>2
    <3> QED BY <3>1, <3>2, <3>3
  <2>9. Row(k) \in rows /\ Row(k).id = p.id
    BY <1>12, <2>4, <2>8
  <2>10. Row(k) = p
    BY <1>1, <1>b, <2>9
  <2> QED BY <1>9, <1>13, <2>4, <2>10 DEF ToSet
<1> QED BY <1>14, <1>15 DEF rows

\* Me may see this version of a post.
Vis(p) == InScope(p, Me, "all") /\ ~BlockedPair(Me, p.author)

\* Whose posts a tab or a profile is for.
Sought(v, a) ==
  CASE v = "mine" -> a = Me
    [] v = "friends" -> a # Me /\ {Me, a} \in friends
    [] v = "all" -> TRUE
    [] OTHER -> a = v

LEMMA OwnNotBlocked == ASSUME SharingInv PROVE ~BlockedPair(Me, Me)
<1>1. {Me, Me} \notin Pairs
  BY DEF Pairs
<1> QED BY <1>1 DEF SharingInv, TypeOK, BlockedPair

LEMMA ListedIs ==
  ASSUME SharingInv, NEW v, NEW p
  PROVE  p \in Listed(v) <=> p \in posts /\ Vis(p) /\ Sought(v, p.author)
<1>1. ~BlockedPair(Me, Me)
  BY OwnNotBlocked
<1>2. p \in posts => p.visibility \in Visibility
  BY DEF SharingInv, TypeOK, Post
<1>3. CASE v = "mine"
  BY <1>1, <1>3 DEF Listed, Tabs, Feed, InScope, Vis, Sought
<1>4. CASE v = "friends"
  BY <1>2, <1>4 DEF Listed, Tabs, Feed, InScope, Vis, Sought, Visibility
<1>5. CASE v = "all"
  BY <1>5 DEF Listed, Tabs, Feed, InScope, Vis, Sought
<1>6. CASE v \notin Tabs
  BY <1>6 DEF Listed, Tabs, Feed, InScope, Vis, Sought, PostsBy
<1> QED BY <1>3, <1>4, <1>5, <1>6 DEF Tabs

\* The page decides as the server does, when it knows the friends and there
\* is no block, and for a post of Me always.
LEMMA MatchesIs ==
  ASSUME SharingInv, NEW p \in Post, view \in Tabs \cup Users,
         \/ p.author = Me
         \/ friendIds = FriendsOf(Me) /\ ~BlockedPair(Me, p.author)
  PROVE  Matches(p) <=> Vis(p) /\ Sought(view, p.author)
<1>1. ~BlockedPair(Me, Me)
  BY OwnNotBlocked
<1>2. p.visibility \in Visibility /\ p.author \in Users
  BY DEF Post
<1>3. friendIds = FriendsOf(Me) => (p.author \in friendIds <=> {Me, p.author} \in friends)
  BY <1>2 DEF FriendsOf
<1>4. CASE view = "mine"
  BY <1>1, <1>4 DEF Matches, Vis, Sought, InScope
<1>5. CASE view = "friends"
  BY <1>1, <1>2, <1>3, <1>5 DEF Matches, Vis, Sought, InScope, Visibility
<1>6. CASE view = "all"
  BY <1>1, <1>3, <1>6 DEF Matches, CanViewerSee, Vis, Sought, InScope
<1>7. CASE view \notin Tabs
  BY <1>1, <1>3, <1>7 DEF Matches, CanViewerSee, Vis, Sought, InScope, Tabs
<1> QED BY <1>4, <1>5, <1>6, <1>7 DEF Tabs

-----------------------------------------------------------------------------
(* What holds while things are on their way.                               *)

\* by: who wrote which post.
SignsPosts(by, S) == \A p \in S : by[p.id] = p.author

\* A request is its author's, about one post and on the way of its operation.
SignsRequest(by, q) ==
  /\ q.found # Undefined => by[q.post] = q.user /\ q.found.id = q.post /\ q.found.author = q.user
  /\ q.row # Undefined => by[q.post] = q.user /\ q.row.id = q.post /\ q.row.author = q.user
  /\ q.pc = "insertPost" => q.op = "createPost"
  /\ q.pc \in {"updatePost", "refetchPost"} => q.op = "updatePost"
  /\ q.pc = "deletePost" => q.op = "deletePost"
  /\ q.pc \in {"audience", "emit"} /\ q.op = "createPost" => q.row = q.found
  /\ q.pc \in {"deletePost", "emit"} => q.user \notin q.to

SignsEvent(by, m, n) ==
  /\ m.about.id < n /\ m.from # Me
  /\ m.about.author = m.from /\ by[m.about.id] = m.from
  /\ m.carries # Undefined => m.carries.id = m.about.id /\ m.carries.author = m.from

SignsWriting(by, w) ==
  w # NotWriting =>
    /\ SignsPosts(by, ToSet(w.backup))
    /\ w.row # Undefined => by[w.row.id] = Me /\ w.row.author = Me
    /\ w.op = "deletePost" => w.row \in ToSet(w.backup)

SignsBox(by, box, n) == \A k \in DOMAIN box : box[k].kind # "friends" => SignsEvent(by, box[k], n)

SignsTables(by) ==
  /\ SignsPosts(by, posts)
  /\ \A r \in Requests : ~At(r, "idle") => SignsRequest(by, requests[r])

Signed(by) ==
  /\ SignsTables(by) /\ SignsPosts(by, ToSet(list))
  /\ \A l \in loads : SignsPosts(by, ToSet(l.posts))
  /\ SignsBox(by, inbox, nextId) /\ SignsWriting(by, writing)

\* The page waits for a request of Me.
Awaited ==
  writing # NotWriting /\ writing.phase = "sent" =>
    /\ writing.op # "relate" /\ writing.at \in Requests /\ ~At(writing.at, "idle")
    /\ Mine(writing.at) /\ requests[writing.at].op = writing.op
    /\ writing.op = "deletePost" => requests[writing.at].post = writing.row.id

\* A deletion knows whom to tell before the post goes.
Warned ==
  \A r \in Requests : requests[r].pc \in {"deletePost", "emit"} =>
    LET q == requests[r] IN
    /\ q.pc = "emit" /\ q.op = "deletePost" => PostById(q.post) = {}
    /\ /\ q.pc = "deletePost" /\ ~Mine(r) /\ q.post \notin untold
       /\ Vis(q.found)
       => Me \in q.to

Now(i) == \E p \in PostById(i) : Vis(p)

\* An edit past its write, or a deletion, that will tell Me what has become
\* of the post: one of the versions it knows, or what the post is now, is
\* for Me to see.
Tells(r, i) ==
  LET q == requests[r] IN
  /\ q.pc \in {"refetchPost", "audience", "emit"} /\ ~Mine(r) /\ q.post = i
  /\ \/ q.op = "updatePost" /\ q.pc = "refetchPost" /\ (Vis(q.found) \/ Now(i))
     \/ /\ q.op = "updatePost" /\ q.pc = "audience"
        /\ Vis(q.found) \/ (q.row # Undefined /\ Vis(q.row))
     \/ q.op \in {"updatePost", "deletePost"} /\ q.pc = "emit" /\ Me \in q.to

Promised(i) == \E r \in Requests : Tells(r, i)

Tidings(m, i) == m.kind # "friends" /\ m.about.id = i

\* An update is handled only if it carries the post.
Rewrites(m) == m.kind = "post:deleted" \/ (m.kind = "post:updated" /\ m.carries # Undefined)

\* What an event says is so: the post as it is, or that it is not for Me.
Says(m) ==
  IF m.kind # "post:deleted" /\ Vis(m.carries) THEN m.carries \in posts ELSE ~Now(m.about.id)

Reliable(m) ==
  /\ m.kind # "friends" /\ m.about.id \notin untold
  /\ m.kind = "post:updated" => m.carries # Undefined

EventsSay ==
  \A k \in DOMAIN inbox : Reliable(inbox[k]) =>
    \/ Promised(inbox[k].about.id)
    \/ \E j \in DOMAIN inbox : k < j /\ Rewrites(inbox[j]) /\ Tidings(inbox[j], inbox[k].about.id)
    \/ Says(inbox[k])

Coming(i) == \E k \in DOMAIN inbox : Rewrites(inbox[k]) /\ Tidings(inbox[k], i)

\* A post of somebody else of which Me will be told for the first time.
Announces(r, i) ==
  LET q == requests[r] IN
  /\ q.pc \in {"audience", "emit"} /\ ~Mine(r) /\ q.post = i /\ q.op = "createPost"
  /\ q.pc = "emit" => Me \in q.to

Announced(i) == \E k \in DOMAIN inbox : inbox[k].kind = "post:created" /\ Tidings(inbox[k], i)

Creating(i) == Announced(i) \/ \E r \in Requests : Announces(r, i)

Absent(S, i) == \A p \in S : p.id # i

\* In the tab or on the profile that is open.
Shown(p) == Vis(p) /\ Sought(view, p.author)

\* S has the post i as the server has it, if it reaches so far down.
Right(S, o, i) ==
  /\ \A p \in posts : p.id = i /\ Shown(p) => p \in S \/ (i < o /\ Absent(S, i))
  /\ \A p \in S : p.id = i => p \in posts /\ Shown(p)

\* The same of some version of it.
Placed(S, o, i) ==
  /\ \A p \in posts : p.id = i /\ Shown(p) => ~Absent(S, i) \/ i < o
  /\ ~Absent(S, i) => \E p \in posts : p.id = i /\ Shown(p)

\* The page's own write of post i is through, and its answer will come.
Written(i) ==
  \/ /\ writing.phase = "sent" /\ requests[writing.at].post = i
     /\ requests[writing.at].pc \in {"refetchPost", "audience", "emit"}
  \/ writing.phase = "ok" /\ writing.row # Undefined /\ writing.row.id = i

\* The page's own deletion of post i is not through, or has failed.
Deleting(i) ==
  /\ writing.row.id = i
  /\ \/ writing.phase = "failed"
     \/ /\ writing.phase = "sent"
        /\ requests[writing.at].pc \in {"loadPost", "audience", "deletePost"}

OwnPending(S, o, i) ==
  /\ writing # NotWriting
  /\ \/ writing.op = "createPost" /\ Written(i) /\ Absent(S, i)
     \/ writing.op = "updatePost" /\ Written(i) /\ Placed(S, o, i)
     \/ writing.op = "deletePost" /\ Deleting(i) /\ Absent(S, i)

OnItsWay(S, i) ==
  i \notin untold /\ (Promised(i) \/ Coming(i) \/ (Absent(S, i) /\ Creating(i)))

Covered(S, o, i) == Right(S, o, i) \/ OwnPending(S, o, i) \/ OnItsWay(S, i)

Mirror(S, o) ==
  /\ \A i \in RowId : Covered(S, o, i)
  /\ ~OnFeed => \A p \in S : p.author = view

ListHolds == ~overtaken => Mirror(ToSet(list), oldest)

\* A page that was loaded, beside the older ones or in their place.
LoadHolds(l) ==
  /\ l.view = view
  /\ l.kind \in {"first", "profile"} =>
       /\ l.before = 0
       /\ "posts" \notin l.asks => Mirror(ToSet(l.posts), Reach(l.posts))
  /\ l.kind = "more" /\ ~overtaken =>
       /\ l.before >= oldest /\ l.before # 0
       /\ "posts" \notin l.asks => Mirror(Joined(l.posts), Reach(l.posts))

LoadsHold ==
  /\ \A l \in loads : ~l.late => LoadHolds(l)
  /\ \A l, m \in loads : l.kind = "more" /\ m.kind = "more" => l = m

Holds ==
  /\ Awaited /\ Warned /\ EventsSay /\ ListHolds /\ LoadsHold
  /\ \A i \in untold : i < nextId

MirrorInv == PagesInv /\ Holds /\ \E by \in [RowId -> Users] : Signed(by)

-----------------------------------------------------------------------------
(* What the steps of the service do to a request and to its post.          *)

\* What every step knows of its request.
LEMMA AtWork ==
  ASSUME PagesInv, NEW r \in Requests, PostStep(r)
  PROVE  /\ ~At(r, "idle") /\ requests[r] \in Request /\ Sound(requests[r])
         /\ Posting(requests[r], nextId) /\ SharingInv /\ nextId \in Nat
         /\ requests \in [Requests -> Request \cup {Idle}]
         /\ UNCHANGED relations
<1>1. ~At(r, "idle") /\ UNCHANGED relations
  BY DEF PostStep, InsertPost, LoadPost, CheckBlock, CheckFriends, UpdatePost, RefetchPost,
         Audience, DeletePost, EmitEvent, At
<1>2. requests[r] \in Request /\ Sound(requests[r]) /\ Posting(requests[r], nextId)
  BY <1>1, InFlight DEF PagesInv, Posted
<1>3. SharingInv /\ nextId \in Nat /\ requests \in [Requests -> Request \cup {Idle}]
  BY NextIdIsNat DEF PagesInv, SharingInv, TypeOK
<1> QED BY <1>1, <1>2, <1>3

\* The other requests stay where they are.
LEMMA OthersStay ==
  ASSUME PagesInv, NEW r \in Requests, PostStep(r)
  PROVE  \A s \in Requests \ {r} : requests'[s] = requests[s]
<1>1. requests \in [Requests -> Request \cup {Idle}]
  BY AtWork
<1> QED BY <1>1 DEF PostStep, InsertPost, LoadPost, CheckBlock, CheckFriends, UpdatePost,
             RefetchPost,
         Audience, DeletePost, EmitEvent, Grant, Respond, Goto, Tell, WithoutRow

LEMMA InsertEffect ==
  ASSUME PagesInv, NEW r \in Requests, InsertPost(r), NEW by, SignsRequest(by, requests[r])
  PROVE  LET q == requests[r]
             n == requests'[r]
             new == n.found
         IN /\ q.pc = "insertPost" /\ q.op = "createPost"
            /\ n \in Request /\ n.pc = "audience" /\ n.op = q.op /\ n.user = q.user
            /\ n.post = nextId /\ n.row = new /\ new \in Post
            /\ new.id = nextId /\ new.author = q.user
            /\ posts' = posts \cup {new} /\ nextId' = nextId + 1 /\ wire' = {}
<1> DEFINE q == requests[r]
           new == [id |-> nextId, author |-> q.user, visibility |-> q.wish]
           n == [q EXCEPT !.pc = "audience", !.post = nextId, !.found = new, !.row = new]
<1>1. PostStep(r)
  BY DEF PostStep
<1>2. /\ q \in Request /\ Posting(q, nextId) /\ nextId \in Nat /\ SharingInv
      /\ requests \in [Requests -> Request \cup {Idle}]
  BY <1>1, AtWork
<1>3. q.pc = "insertPost" /\ q.op = "createPost"
  <2>1. q.pc = "insertPost"
    BY DEF InsertPost, At
  <2> QED BY <2>1 DEF SignsRequest
<1>4. /\ requests' = [requests EXCEPT ![r] = n] /\ posts' = posts \cup {new}
      /\ nextId' = nextId + 1 /\ wire' = {}
  BY DEF InsertPost, Silent
<1>5. new \in Post /\ new.id = nextId /\ new.author = q.user
  BY <1>2 DEF Post, Request, SharingInv, TypeOK
<1> HIDE DEF new
<1>6. /\ n \in Request /\ n.pc = "audience" /\ n.op = q.op /\ n.user = q.user
      /\ n.post = nextId /\ n.found = new /\ n.row = new
  BY <1>2, <1>5 DEF Request, Steps
<1> HIDE DEF n
<1>7. requests'[r] = n
  BY <1>2, <1>4
<1> QED BY <1>3, <1>4, <1>5, <1>6, <1>7

LEMMA LoadEffect ==
  ASSUME PagesInv, NEW r \in Requests, LoadPost(r)
  PROVE  LET q == requests[r]
             n == requests'[r]
         IN /\ q.pc = "loadPost" /\ q.op \in {"updatePost", "deletePost"}
            /\ posts' = posts /\ nextId' = nextId /\ wire' = {}
            /\ \/ n = Idle
               \/ /\ n \in Request /\ n.op = q.op /\ n.user = q.user /\ n.post = q.post
                  /\ n.row = q.row /\ n.found \in posts /\ n.found.id = q.post
                  /\ n.found.author = q.user
                  /\ n.pc = IF q.op = "updatePost" THEN "updatePost" ELSE "audience"
<1> DEFINE q == requests[r]
           p == RowOf(PostById(q.post))
           n == [q EXCEPT !.found = p,
                          !.pc = IF q.op = "updatePost" THEN "updatePost" ELSE "audience"]
<1>1. PostStep(r)
  BY DEF PostStep
<1>2. /\ q \in Request /\ Posting(q, nextId) /\ Sound(q) /\ SharingInv
      /\ requests \in [Requests -> Request \cup {Idle}]
  BY <1>1, AtWork
<1>3. q.pc = "loadPost"
  BY DEF LoadPost, At
<1>4. q.op \in {"updatePost", "deletePost"}
  BY <1>2, <1>3 DEF Posting, Sound, OnCourse
<1>5. posts' = posts /\ nextId' = nextId /\ wire' = {}
  BY <1>4 DEF LoadPost, Silent, postTables
<1>6. CASE Respond(r)
  BY <1>2, <1>3, <1>4, <1>5, <1>6 DEF Respond
<1>7. CASE ~Respond(r)
  <2>1. requests' = [requests EXCEPT ![r] = n] /\ p # Undefined /\ p.author = q.user
    BY <1>4, <1>7 DEF LoadPost
  <2>2. p \in posts /\ p \in Post /\ p.id = q.post
    BY <1>2, <2>1, PostFound DEF SharingInv
  <2> HIDE DEF p
  <2>3. /\ n \in Request /\ n.op = q.op /\ n.user = q.user /\ n.post = q.post /\ n.row = q.row
        /\ n.found = p /\ n.pc = IF q.op = "updatePost" THEN "updatePost" ELSE "audience"
    BY <1>2, <2>2 DEF Request, Steps
  <2> HIDE DEF n
  <2>4. requests'[r] = n
    BY <1>2, <2>1
  <2> QED BY <1>3, <1>4, <1>5, <2>1, <2>2, <2>3, <2>4
<1> QED BY <1>6, <1>7

\* A request goes on with its fields, or ends.
GoesOn(q, n) ==
  n \in Request /\ n.op = q.op /\ n.user = q.user /\ n.post = q.post /\ n.found = q.found

LEMMA UpdateEffect ==
  ASSUME PagesInv, NEW r \in Requests, UpdatePost(r), NEW by, SignsRequest(by, requests[r])
  PROVE  LET q == requests[r]
             n == requests'[r]
             New(p) == IF p.id = q.post THEN [p EXCEPT !.visibility = q.wish] ELSE p
         IN /\ q.pc = "updatePost" /\ q.op = "updatePost" /\ nextId' = nextId /\ wire' = {}
            /\ q.found # Undefined
            /\ \/ n = Idle
               \/ GoesOn(q, n) /\ n.pc \in {"refetchPost", "audience"}
                    /\ n.row \in {q.row, Undefined}
            /\ posts' = {New(p) : p \in posts} \/ posts' = posts
            /\ q.found \in posts => GoesOn(q, n) /\ n.pc = "refetchPost" /\ n.row = q.row
<1> DEFINE q == requests[r]
           New(p) == IF p.id = q.post THEN [p EXCEPT !.visibility = q.wish] ELSE p
           n == [q EXCEPT !.pc = "refetchPost", !.wish = "public"]
           m == [q EXCEPT !.pc = "audience", !.row = Undefined]
<1>1. PostStep(r)
  BY DEF PostStep
<1>2. /\ q \in Request /\ Posting(q, nextId) /\ Sound(q) /\ SharingInv
      /\ requests \in [Requests -> Request \cup {Idle}]
  BY <1>1, AtWork
<1>3. q.pc = "updatePost" /\ q.op = "updatePost"
  BY DEF UpdatePost, At, SignsRequest
<1>4. nextId' = nextId /\ wire' = {}
  BY DEF UpdatePost, Silent, postTables
<1>5. q.found # Undefined /\ q.found.id = q.post
  BY <1>2, <1>3 DEF Sound, Loaded
<1>6. n \in Request /\ GoesOn(q, n) /\ n.pc = "refetchPost" /\ n.row = q.row
  BY <1>2 DEF Request, Steps, Visibility, GoesOn
<1>7. m \in Request /\ GoesOn(q, m) /\ m.pc = "audience" /\ m.row = Undefined
  BY <1>2 DEF Request, Steps, GoesOn
<1> HIDE DEF n, m
<1>8. CASE PostById(q.post) = {}
  <2>1. posts' = posts /\ (Respond(r) \/ requests' = [requests EXCEPT ![r] = m])
    BY <1>8 DEF UpdatePost, WithoutRow, postTables, m
  <2>2. requests'[r] \in {Idle, m}
    BY <1>2, <2>1 DEF Respond
  <2>3. q.found \notin posts
    BY <1>5, <1>8 DEF PostById
  <2> QED BY <1>3, <1>4, <1>5, <1>7, <2>1, <2>2, <2>3
<1>9. CASE PostById(q.post) # {}
  <2>1. requests' = [requests EXCEPT ![r] = n] /\ posts' = {New(p) : p \in posts}
    BY <1>9 DEF UpdatePost, n
  <2>2. requests'[r] = n
    BY <1>2, <2>1
  <2> QED BY <1>3, <1>4, <1>5, <1>6, <2>1, <2>2
<1> QED BY <1>8, <1>9

LEMMA RefetchEffect ==
  ASSUME PagesInv, NEW r \in Requests, RefetchPost(r), NEW by, SignsRequest(by, requests[r])
  PROVE  LET q == requests[r]
             n == requests'[r]
         IN /\ q.pc = "refetchPost" /\ q.op = "updatePost"
            /\ posts' = posts /\ nextId' = nextId /\ wire' = {} /\ q.found # Undefined
            /\ \/ n = Idle
               \/ /\ GoesOn(q, n) /\ n.pc = "audience"
                  /\ n.row = Undefined \/ (n.row \in posts /\ n.row.id = q.post)
            /\ PostById(q.post) # {} => GoesOn(q, n) /\ n.row \in posts /\ n.row.id = q.post
                                          /\ n.row # Undefined
<1> DEFINE q == requests[r]
           p == RowOf(PostById(q.post))
           n == [q EXCEPT !.pc = "audience", !.row = p]
           m == [q EXCEPT !.pc = "audience", !.row = Undefined]
<1>1. PostStep(r)
  BY DEF PostStep
<1>2. /\ q \in Request /\ Posting(q, nextId) /\ Sound(q) /\ SharingInv
      /\ requests \in [Requests -> Request \cup {Idle}]
  BY <1>1, AtWork
<1>3. q.pc = "refetchPost" /\ q.op = "updatePost"
  BY DEF RefetchPost, At, SignsRequest
<1>4. posts' = posts /\ nextId' = nextId /\ wire' = {}
  BY DEF RefetchPost, Silent, postTables
<1>5. q.found # Undefined
  BY <1>2, <1>3 DEF Sound, Loaded
<1>6. m \in Request /\ GoesOn(q, m) /\ m.pc = "audience" /\ m.row = Undefined
  BY <1>2 DEF Request, Steps, GoesOn
<1> HIDE DEF m
<1>7. /\ p = Undefined <=> PostById(q.post) = {}
      /\ p # Undefined => p \in posts /\ p \in Post /\ p.id = q.post
  BY <1>2, PostFound DEF SharingInv
<1>8. CASE p = Undefined
  <2>1. Respond(r) \/ requests' = [requests EXCEPT ![r] = m]
    BY <1>8 DEF RefetchPost, WithoutRow, m
  <2>2. requests'[r] \in {Idle, m}
    BY <1>2, <2>1 DEF Respond
  <2> QED BY <1>3, <1>4, <1>5, <1>6, <1>7, <1>8, <2>2
<1>9. CASE p # Undefined
  <2>1. requests' = [requests EXCEPT ![r] = n]
    BY <1>9 DEF RefetchPost
  <2> HIDE DEF p
  <2>2. n \in Request /\ GoesOn(q, n) /\ n.pc = "audience" /\ n.row = p
    BY <1>2, <1>7, <1>9 DEF Request, Steps, GoesOn
  <2> HIDE DEF n
  <2>3. requests'[r] = n
    BY <1>2, <2>1
  <2> QED BY <1>3, <1>4, <1>5, <1>7, <1>9, <2>2, <2>3
<1> QED BY <1>8, <1>9

LEMMA DeleteEffect ==
  ASSUME PagesInv, NEW r \in Requests, DeletePost(r), NEW by, SignsRequest(by, requests[r])
  PROVE  LET q == requests[r]
             n == requests'[r]
         IN /\ q.pc = "deletePost" /\ q.op = "deletePost"
            /\ posts' = {p \in posts : p.id # q.post} /\ nextId' = nextId /\ wire' = {}
            /\ q.found # Undefined
            /\ GoesOn(q, n) /\ n.pc = "emit" /\ n.row = q.row /\ n.to = q.to
<1> DEFINE q == requests[r]
           n == [q EXCEPT !.pc = "emit"]
<1>1. PostStep(r)
  BY DEF PostStep
<1>2. /\ q \in Request /\ Sound(q) /\ requests \in [Requests -> Request \cup {Idle}]
  BY <1>1, AtWork
<1>3. q.pc = "deletePost" /\ q.op = "deletePost"
  BY DEF DeletePost, At, SignsRequest
<1>4. /\ nextId' = nextId /\ wire' = {} /\ requests' = [requests EXCEPT ![r] = n]
      /\ posts' = posts \ PostById(q.post)
  BY DEF DeletePost, Silent, Goto
<1>5. posts' = {p \in posts : p.id # q.post}
  BY <1>4 DEF PostById
<1>6. q.found # Undefined
  BY <1>2, <1>3 DEF Sound, Loaded
<1>7. n \in Request /\ GoesOn(q, n) /\ n.pc = "emit" /\ n.row = q.row /\ n.to = q.to
  BY <1>2 DEF Request, Steps, GoesOn
<1> HIDE DEF n
<1>8. requests'[r] = n
  BY <1>2, <1>4
<1> QED BY <1>3, <1>4, <1>5, <1>6, <1>7, <1>8

\* What is told of a request at its end.
Told(q, m, to) ==
  /\ m.kind = EventOf(q.op) /\ m.about = q.found /\ m.carries = q.row /\ m.from = q.user
  /\ m.to = to

LEMMA AudienceEffect ==
  ASSUME PagesInv, NEW r \in Requests, Audience(r)
  PROVE  LET q == requests[r]
             n == requests'[r]
             to == (IF q.op = "updatePost" THEN UpdateAudience(q.found, q.row)
                                           ELSE PostAudience(q.found)) \ {q.user}
         IN /\ q.pc = "audience" /\ posts' = posts /\ nextId' = nextId /\ q.found # Undefined
            /\ IF q.op # "deletePost" /\ ~TakesFindFriends(q)
                 THEN n = Idle /\ \E m : wire' = {m} /\ Told(q, m, to)
                 ELSE /\ GoesOn(q, n) /\ n.row = q.row /\ n.to = to /\ wire' = {}
                      /\ n.pc = IF q.op = "deletePost" THEN "deletePost" ELSE "emit"
<1> DEFINE q == requests[r]
           to == (IF q.op = "updatePost" THEN UpdateAudience(q.found, q.row)
                                         ELSE PostAudience(q.found)) \ {q.user}
           n == [q EXCEPT !.to = to, !.pc = IF q.op = "deletePost" THEN "deletePost" ELSE "emit"]
           m == [kind |-> EventOf(q.op), about |-> q.found, carries |-> q.row,
                 from |-> q.user, to |-> to]
<1>1. PostStep(r)
  BY DEF PostStep
<1>2. /\ q \in Request /\ Sound(q) /\ requests \in [Requests -> Request \cup {Idle}]
      /\ Posting(q, nextId)
  BY <1>1, AtWork
<1>3. q.pc = "audience" /\ posts' = posts /\ nextId' = nextId
  BY DEF Audience, At, postTables
<1>4. q.found # Undefined
  BY <1>2, <1>3 DEF Sound, Loaded
<1>5. CASE q.op # "deletePost" /\ ~TakesFindFriends(q)
  <2>1. wire' = {m} /\ requests' = [requests EXCEPT ![r] = Idle]
    BY <1>5 DEF Audience, Tell, Send, Respond
  <2>2. Told(q, m, to)
    BY DEF Told
  <2> HIDE DEF m
  <2>3. requests'[r] = Idle
    BY <1>2, <2>1
  <2> QED BY <1>3, <1>4, <1>5, <2>1, <2>2, <2>3
<1>6. CASE ~(q.op # "deletePost" /\ ~TakesFindFriends(q))
  <2>1. /\ wire' = {}
        /\ requests' = [requests EXCEPT ![r].to = to,
             ![r].pc = IF q.op = "deletePost" THEN "deletePost" ELSE "emit"]
    BY <1>6 DEF Audience, Silent
  <2>2. to \subseteq Users
    BY DEF UpdateAudience, PostAudience, FriendsOf
  <2>a. requests' = [requests EXCEPT ![r] = n]
    BY <2>1
  <2> HIDE DEF to
  <2>3. /\ n \in Request /\ GoesOn(q, n) /\ n.row = q.row /\ n.to = to
        /\ n.pc = IF q.op = "deletePost" THEN "deletePost" ELSE "emit"
    BY <1>2, <2>2 DEF Request, Steps, GoesOn
  <2> HIDE DEF n
  <2>4. requests'[r] = n
    BY <1>2, <2>a
  <2> QED BY <1>3, <1>4, <1>6, <2>1, <2>3, <2>4 DEF to
<1> QED BY <1>5, <1>6

LEMMA EmitEffect ==
  ASSUME PagesInv, NEW r \in Requests, EmitEvent(r)
  PROVE  LET q == requests[r] IN
         /\ q.pc = "emit" /\ posts' = posts /\ nextId' = nextId /\ q.found # Undefined
         /\ requests'[r] = Idle /\ \E m : wire' = {m} /\ Told(q, m, q.to)
<1> DEFINE q == requests[r]
           m == [kind |-> EventOf(q.op), about |-> q.found, carries |-> q.row,
                 from |-> q.user, to |-> q.to]
<1>1. PostStep(r)
  BY DEF PostStep
<1>2. Sound(q) /\ requests \in [Requests -> Request \cup {Idle}]
  BY <1>1, AtWork
<1>3. q.pc = "emit" /\ posts' = posts /\ nextId' = nextId
  BY DEF EmitEvent, At, postTables
<1>4. q.found # Undefined
  BY <1>2, <1>3 DEF Sound, Loaded
<1>5. wire' = {m} /\ requests' = [requests EXCEPT ![r] = Idle]
  BY DEF EmitEvent, Tell, Send, Respond
<1>6. Told(q, m, q.to)
  BY DEF Told
<1> HIDE DEF m
<1>7. requests'[r] = Idle
  BY <1>2, <1>5
<1> QED BY <1>3, <1>4, <1>5, <1>6, <1>7

\* Which steps there are: the requests are writes.
LEMMA WhichStep ==
  ASSUME PagesInv, NEW r \in Requests, PostStep(r)
  PROVE  \/ InsertPost(r) \/ LoadPost(r) \/ UpdatePost(r) \/ RefetchPost(r) \/ Audience(r)
         \/ DeletePost(r) \/ EmitEvent(r)
<1>1. Posting(requests[r], nextId)
  BY AtWork
<1>2. ~CheckBlock(r) /\ ~CheckFriends(r)
  BY <1>1 DEF Posting, CheckBlock, CheckFriends, At
<1> QED BY <1>2 DEF PostStep

-----------------------------------------------------------------------------
(* Everything stays signed.                                                *)

LEMMA OneSigned ==
  ASSUME PagesInv, NEW by, SignsTables(by), NEW r \in Requests, PostStep(r),
         requests'[r].pc # "idle" => SignsRequest(by, requests'[r]), SignsPosts(by, posts')
  PROVE  SignsTables(by)'
<1>1. ASSUME NEW s \in Requests, requests'[s].pc # "idle" PROVE SignsRequest(by, requests'[s])
  <2>1. CASE s = r
    BY <1>1, <2>1
  <2>2. CASE s # r
    BY <1>1, <2>2, OthersStay DEF SignsTables, At
  <2> QED BY <2>1, <2>2
<1> QED BY <1>1 DEF SignsTables, At

\* The event of a signed request is one.
LEMMA ToldSigned ==
  ASSUME NEW by, NEW n, NEW q, SignsRequest(by, q), q.post < n, q.found # Undefined,
         NEW m, NEW to, Told(q, m, to), q.user \notin to, Me \in to
  PROVE  SignsEvent(by, m, n)
  BY DEF SignsRequest, Told, SignsEvent

LEMMA WorkSigned ==
  ASSUME PagesInv, NEW by, SignsTables(by), NEW r \in Requests, PostStep(r),
         InsertPost(r) => by[nextId] = requests[r].user
  PROVE  SignsTables(by)' /\ \A m \in wire' : Me \in m.to => SignsEvent(by, m, nextId')
<1> DEFINE q == requests[r]
           n == requests'[r]
           Fine == /\ n.pc # "idle" => SignsRequest(by, n)
                   /\ SignsPosts(by, posts')
                   /\ \A m \in wire' : Me \in m.to => SignsEvent(by, m, nextId')
<1>1. /\ ~At(r, "idle") /\ q \in Request /\ Sound(q) /\ Posting(q, nextId) /\ nextId \in Nat
      /\ SharingInv
  BY AtWork
<1>2. SignsRequest(by, q) /\ SignsPosts(by, posts) /\ q.post < nextId
  BY <1>1 DEF SignsTables, Sound
<1>3. posts \subseteq Post
  BY <1>1 DEF SharingInv, TypeOK
<1>4. ASSUME InsertPost(r) PROVE Fine
  <2> DEFINE new == n.found
  <2>1. /\ n.pc = "audience" /\ n.op = "createPost" /\ n.user = q.user /\ n.post = nextId
        /\ n.row = new /\ new.id = nextId /\ new.author = q.user
        /\ posts' = posts \cup {new} /\ wire' = {}
    BY <1>2, <1>4, InsertEffect
  <2>2. SignsRequest(by, n)
    BY <1>4, <2>1 DEF SignsRequest
  <2>3. SignsPosts(by, posts')
    BY <1>2, <1>4, <2>1 DEF SignsPosts
  <2> QED BY <2>1, <2>2, <2>3
<1>5. ASSUME LoadPost(r) PROVE Fine
  <2>1. /\ q.op \in {"updatePost", "deletePost"} /\ posts' = posts /\ wire' = {}
        /\ \/ n = Idle
           \/ /\ n.op = q.op /\ n.user = q.user /\ n.post = q.post
              /\ n.row = q.row /\ n.found \in posts /\ n.found.id = q.post
              /\ n.found.author = q.user
              /\ n.pc = IF q.op = "updatePost" THEN "updatePost" ELSE "audience"
    BY <1>5, LoadEffect
  <2>2. ASSUME n # Idle PROVE SignsRequest(by, n)
    <3>1. by[q.post] = q.user
      BY <1>2, <2>1, <2>2 DEF SignsPosts
    <3> QED BY <1>2, <2>1, <2>2, <3>1 DEF SignsRequest
  <2>3. n = Idle => n.pc = "idle"
    BY DEF Idle
  <2> QED BY <1>2, <2>1, <2>2, <2>3
<1>6. ASSUME UpdatePost(r) PROVE Fine
  <2> DEFINE New(p) == IF p.id = q.post THEN [p EXCEPT !.visibility = q.wish] ELSE p
  <2>1. /\ q.op = "updatePost" /\ wire' = {} /\ q.pc = "updatePost"
        /\ \/ n = Idle
           \/ GoesOn(q, n) /\ n.pc \in {"refetchPost", "audience"} /\ n.row \in {q.row, Undefined}
        /\ posts' = {New(p) : p \in posts} \/ posts' = posts
    BY <1>2, <1>6, UpdateEffect
  <2>2. ASSUME n # Idle PROVE SignsRequest(by, n)
    BY <1>2, <2>1, <2>2 DEF SignsRequest, GoesOn
  <2>3. n = Idle => n.pc = "idle"
    BY DEF Idle
  <2>4. \A p \in posts : New(p).id = p.id /\ New(p).author = p.author
    BY <1>3 DEF Post
  <2> HIDE DEF New
  <2>5. SignsPosts(by, posts')
    BY <1>2, <2>1, <2>4 DEF SignsPosts
  <2> QED BY <2>1, <2>2, <2>3, <2>5
<1>7. ASSUME RefetchPost(r) PROVE Fine
  <2>1. /\ q.op = "updatePost" /\ posts' = posts /\ wire' = {}
        /\ \/ n = Idle
           \/ /\ GoesOn(q, n) /\ n.pc = "audience"
              /\ n.row = Undefined \/ (n.row \in posts /\ n.row.id = q.post)
        /\ q.found # Undefined
    BY <1>2, <1>7, RefetchEffect
  <2>2. ASSUME n # Idle PROVE SignsRequest(by, n)
    <3>1. by[q.post] = q.user
      BY <1>2, <2>1 DEF SignsRequest
    <3>2. n.row # Undefined => n.row.author = by[q.post]
      BY <1>2, <2>1, <2>2 DEF SignsPosts
    <3> QED BY <1>2, <2>1, <2>2, <3>1, <3>2 DEF SignsRequest, GoesOn
  <2>3. n = Idle => n.pc = "idle"
    BY DEF Idle
  <2> QED BY <1>2, <2>1, <2>2, <2>3
<1>8. ASSUME Audience(r) PROVE Fine
  <2> DEFINE to == (IF q.op = "updatePost" THEN UpdateAudience(q.found, q.row)
                                           ELSE PostAudience(q.found)) \ {q.user}
  <2>1. /\ posts' = posts /\ nextId' = nextId /\ q.found # Undefined /\ q.pc = "audience"
        /\ IF q.op # "deletePost" /\ ~TakesFindFriends(q)
             THEN n = Idle /\ \E m : wire' = {m} /\ Told(q, m, to)
             ELSE /\ GoesOn(q, n) /\ n.row = q.row /\ n.to = to /\ wire' = {}
                  /\ n.pc = IF q.op = "deletePost" THEN "deletePost" ELSE "emit"
    BY <1>8, AudienceEffect
  <2>2. q.user \notin to
    OBVIOUS
  <2> HIDE DEF to
  <2>3. n = Idle => n.pc = "idle"
    BY DEF Idle
  <2>4. CASE q.op # "deletePost" /\ ~TakesFindFriends(q)
    <3>1. PICK m : wire' = {m} /\ Told(q, m, to) /\ n = Idle
      BY <2>1, <2>4
    <3>2. Me \in m.to => SignsEvent(by, m, nextId)
      BY <1>2, <2>1, <2>2, <3>1, ToldSigned DEF Told
    <3> QED BY <1>2, <2>1, <2>3, <3>1, <3>2
  <2>5. CASE ~(q.op # "deletePost" /\ ~TakesFindFriends(q))
    <3>1. /\ GoesOn(q, n) /\ n.row = q.row /\ n.to = to /\ wire' = {}
          /\ n.pc = IF q.op = "deletePost" THEN "deletePost" ELSE "emit"
      BY <2>1, <2>5
    <3>2. SignsRequest(by, n)
      BY <1>2, <2>1, <2>2, <3>1 DEF SignsRequest, GoesOn
    <3> QED BY <1>2, <2>1, <3>1, <3>2
  <2> QED BY <2>4, <2>5
<1>9. ASSUME DeletePost(r) PROVE Fine
  <2>1. /\ q.pc = "deletePost" /\ q.op = "deletePost" /\ posts' = {p \in posts : p.id # q.post}
        /\ wire' = {} /\ GoesOn(q, n) /\ n.pc = "emit" /\ n.row = q.row /\ n.to = q.to
    BY <1>2, <1>9, DeleteEffect
  <2>2. SignsRequest(by, n)
    BY <1>2, <2>1 DEF SignsRequest, GoesOn
  <2>3. SignsPosts(by, posts')
    BY <1>2, <2>1 DEF SignsPosts
  <2> QED BY <2>1, <2>2, <2>3
<1>10. ASSUME EmitEvent(r) PROVE Fine
  <2>1. /\ q.pc = "emit" /\ posts' = posts /\ nextId' = nextId /\ q.found # Undefined
        /\ n = Idle /\ \E m : wire' = {m} /\ Told(q, m, q.to)
    BY <1>10, EmitEffect
  <2>2. PICK m : wire' = {m} /\ Told(q, m, q.to)
    BY <2>1
  <2>3. q.user \notin q.to
    BY <1>2, <2>1 DEF SignsRequest
  <2>4. Me \in m.to => SignsEvent(by, m, nextId)
    BY <1>2, <2>1, <2>2, <2>3, ToldSigned DEF Told
  <2>5. n = Idle => n.pc = "idle"
    BY DEF Idle
  <2> QED BY <1>2, <2>1, <2>2, <2>4, <2>5
<1>11. Fine
  BY <1>4, <1>5, <1>6, <1>7, <1>8, <1>9, <1>10, WhichStep
<1> QED BY <1>11, OneSigned

\* Signatures of posts below nextId stay when the next number is given.
LEMMA SignedEarlier ==
  ASSUME PagesInv, NEW by \in [RowId -> Users], NEW b2 \in [RowId -> Users],
         \A i \in RowId : i < nextId => b2[i] = by[i], Signed(by)
  PROVE  Signed(b2)
<1>1. nextId \in Nat /\ SharingInv /\ TypeOK
  BY NextIdIsNat DEF PagesInv, SharingInv
<1>2. ASSUME NEW S, S \subseteq Post, \A p \in S : p.id < nextId, SignsPosts(by, S)
      PROVE  SignsPosts(b2, S)
  BY <1>2 DEF SignsPosts, Post
<1>3. SignsPosts(b2, posts)
  <2>1. \A p \in posts : p.id < nextId
    BY <1>1, Named
  <2> QED BY <1>1, <1>2, <2>1 DEF Signed, SignsTables, TypeOK
<1>4. SignsPosts(b2, ToSet(list))
  BY <1>2, InSet DEF PagesInv, PageSound, Signed
<1>5. \A l \in loads : SignsPosts(b2, ToSet(l.posts))
  BY <1>2, InSet DEF PagesInv, PageSound, Loading, Signed
<1>6. ASSUME NEW r \in Requests, ~At(r, "idle") PROVE SignsRequest(b2, requests[r])
  <2> DEFINE q == requests[r]
  <2>1. q \in Request /\ q.post < nextId /\ SignsRequest(by, q)
    BY <1>1, <1>6, InFlight DEF Signed, SignsTables, Sound
  <2>2. q.found # Undefined => q.post \in RowId
    BY <2>1 DEF SignsRequest, Request, Post
  <2>3. q.row # Undefined => q.post \in RowId
    BY <2>1 DEF SignsRequest, Request, Post, Comment
  <2> QED BY <2>1, <2>2, <2>3 DEF SignsRequest
<1>7. SignsBox(b2, inbox, nextId)
  <2>1. ASSUME NEW k \in DOMAIN inbox, inbox[k].kind # "friends"
        PROVE  SignsEvent(b2, inbox[k], nextId)
    <3>1. SignsEvent(by, inbox[k], nextId)
      BY <2>1 DEF Signed, SignsBox
    <3>2. inbox[k].about.id \in RowId
      BY <2>1 DEF PagesInv, PageSound, Arriving, PostEvent, Sent, Post
    <3> QED BY <3>1, <3>2 DEF SignsEvent
  <2> QED BY <2>1 DEF SignsBox
<1>8. SignsWriting(b2, writing)
  <2> SUFFICES ASSUME writing # NotWriting
               PROVE  /\ SignsPosts(b2, ToSet(writing.backup))
                      /\ writing.row # Undefined =>
                           b2[writing.row.id] = Me /\ writing.row.author = Me
                      /\ writing.op = "deletePost" => writing.row \in ToSet(writing.backup)
    BY DEF SignsWriting
  <2>1. Listing(writing.backup, nextId) /\ writing.row.id < nextId
        /\ writing.row \in Post \cup {Undefined}
    BY DEF PagesInv, PageSound, Saving, Writing
  <2>2. SignsWriting(by, writing)
    BY DEF Signed
  <2>3. SignsPosts(b2, ToSet(writing.backup))
    BY <1>2, <2>1, <2>2, InSet DEF SignsWriting
  <2>4. writing.row # Undefined => writing.row.id \in RowId
    BY <2>1 DEF Post
  <2> QED BY <2>1, <2>2, <2>3, <2>4 DEF SignsWriting
<1> QED BY <1>3, <1>4, <1>5, <1>6, <1>7, <1>8 DEF Signed, SignsTables

\* What is late is another load of the same.
SameLoad(o, l) ==
  /\ o.kind = l.kind /\ o.view = l.view /\ o.before = l.before /\ o.asks = l.asks
  /\ o.posts = l.posts /\ (o.late \/ o = l)

LEMMA LateLoads ==
  ASSUME NEW ls, ls \subseteq Load
  PROVE  \A o \in Late(ls) : \E l \in ls : SameLoad(o, l) /\ (~o.late => "posts" \in o.asks)
<1> SUFFICES ASSUME NEW l \in ls
             PROVE  LET o == IF "posts" \in l.asks THEN l ELSE [l EXCEPT !.late = TRUE] IN
                    SameLoad(o, l) /\ (~o.late => "posts" \in o.asks)
  BY DEF Late
<1>1. l \in Load
  OBVIOUS
<1> QED BY <1>1 DEF Load, SameLoad

LEMMA AllLateLoads ==
  ASSUME NEW ls, ls \subseteq Load
  PROVE  \A o \in {[l EXCEPT !.late = TRUE] : l \in ls} : \E l \in ls : SameLoad(o, l) /\ o.late
<1> SUFFICES ASSUME NEW l \in ls
             PROVE  LET o == [l EXCEPT !.late = TRUE] IN SameLoad(o, l) /\ o.late
  OBVIOUS
<1>1. l \in Load
  OBVIOUS
<1> QED BY <1>1 DEF Load, SameLoad

LEMMA DisplacedLoads ==
  ASSUME NEW ls, ls \subseteq Load
  PROVE  \A o \in Displaced(ls) : \E l \in ls :
           SameLoad(o, l) /\ (~o.late => "posts" \in o.asks /\ o.kind # "more")
<1> DEFINE d(l) == IF l.kind = "more" THEN [l EXCEPT !.late = TRUE] ELSE l
           ms == {d(l) : l \in ls}
<1>1. ASSUME NEW l \in ls
      PROVE  d(l) \in Load /\ SameLoad(d(l), l) /\ (~d(l).late => d(l).kind # "more")
  <2>1. l \in Load
    OBVIOUS
  <2> QED BY <2>1 DEF Load, SameLoad
<1> HIDE DEF d
<1>2. ms \subseteq Load
  BY <1>1
<1>3. Displaced(ls) = Late(ms)
  BY DEF Displaced, d
<1>4. \A m \in ms : \E l \in ls : m = d(l)
  OBVIOUS
<1> HIDE DEF ms
<1> SUFFICES ASSUME NEW o \in Late(ms)
             PROVE  \E l \in ls :
                      SameLoad(o, l) /\ (~o.late => "posts" \in o.asks /\ o.kind # "more")
  BY <1>3
<1>5. PICK m \in ms : SameLoad(o, m) /\ (~o.late => "posts" \in o.asks)
  BY <1>2, LateLoads
<1>6. PICK l \in ls : m = d(l)
  BY <1>4
<1> QED BY <1>1, <1>5, <1>6 DEF SameLoad

SignsLoads(by, ls) == \A l \in ls : SignsPosts(by, ToSet(l.posts))

LEMMA SameSigned ==
  ASSUME NEW by, NEW ls, SignsLoads(by, ls), NEW ms,
         \A o \in ms : (\E l \in ls : SameLoad(o, l)) \/ SignsPosts(by, ToSet(o.posts))
  PROVE  SignsLoads(by, ms)
  BY DEF SignsLoads, SameLoad

LEMMA NewSigned ==
  ASSUME NEW by, NEW kind, NEW v, NEW before
  PROVE  /\ SignsPosts(by, ToSet(NewLoad(kind, v, before).posts))
         /\ SignsPosts(by, ToSet(Reload(v).posts))
<1>1. ToSet(<<>>) = {}
  BY DEF ToSet
<1> QED BY <1>1 DEF NewLoad, Reload, SignsPosts

LEMMA LateSigned ==
  ASSUME PagesInv, NEW by, SignsLoads(by, loads)
  PROVE  /\ SignsLoads(by, Late(loads)) /\ SignsLoads(by, {[l EXCEPT !.late = TRUE] : l \in loads})
         /\ \A ls \in SUBSET loads : SignsLoads(by, ls) /\ SignsLoads(by, Displaced(ls))
<1>1. loads \subseteq Load
  BY DEF PagesInv, PageSound, Loading
<1>2. SignsLoads(by, Late(loads))
  BY <1>1, LateLoads, SameSigned
<1>3. SignsLoads(by, {[l EXCEPT !.late = TRUE] : l \in loads})
  <2> DEFINE ms == {[l EXCEPT !.late = TRUE] : l \in loads}
  <2>1. \A o \in ms : \E l \in loads : SameLoad(o, l)
    BY <1>1, AllLateLoads
  <2> HIDE DEF ms
  <2> QED BY <2>1, SameSigned DEF ms
<1>4. ASSUME NEW ls \in SUBSET loads PROVE SignsLoads(by, ls) /\ SignsLoads(by, Displaced(ls))
  <2>1. SignsLoads(by, ls) /\ ls \subseteq Load
    BY <1>1 DEF SignsLoads
  <2>2. \A o \in Displaced(ls) : \E l \in ls : SameLoad(o, l)
    BY <2>1, DisplacedLoads
  <2> QED BY <2>1, <2>2, SameSigned
<1> QED BY <1>2, <1>3, <1>4

LEMMA MoreSigned ==
  ASSUME NEW by, NEW ls, SignsLoads(by, ls), NEW l, SignsPosts(by, ToSet(l.posts))
  PROVE  SignsLoads(by, ls \cup {l})
  BY DEF SignsLoads

-----------------------------------------------------------------------------

LEMMA TablesRest ==
  ASSUME NEW by, SignsTables(by), UNCHANGED server PROVE SignsTables(by)'
<1>1. posts' = posts /\ requests' = requests
  BY DEF server, postTables
<1> QED BY <1>1 DEF SignsTables, At

LEMMA ReceiveSigned ==
  ASSUME PagesInv, NEW by, SignsTables(by), NEW r \in Requests, NEW u, NEW i, NEW v, NEW op, NEW pc,
         \/ op = "createPost" /\ pc = "insertPost"
         \/ op \in {"updatePost", "deletePost"} /\ pc = "loadPost",
         Receive(r, op, pc, u, i, NoId, v, FALSE)
  PROVE  SignsTables(by)'
<1> DEFINE q == [op |-> op, pc |-> pc, user |-> u, post |-> i, comment |-> NoId, wish |-> v,
                 found |-> Undefined, row |-> Undefined, to |-> {}, barred |-> FALSE]
<1>1. requests' = [requests EXCEPT ![r] = q] /\ posts' = posts
  BY DEF Receive, postTables
<1>2. q.op = op /\ q.pc = pc /\ q.found = Undefined /\ q.row = Undefined
  OBVIOUS
<1> HIDE DEF q
<1>3. SignsRequest(by, q)
  BY <1>2 DEF SignsRequest
<1>4. requests \in [Requests -> Request \cup {Idle}]
  BY DEF PagesInv, SharingInv, TypeOK
<1>5. ASSUME NEW s \in Requests, requests'[s].pc # "idle" PROVE SignsRequest(by, requests'[s])
  <2>1. CASE s = r
    BY <1>1, <1>3, <1>4, <2>1
  <2>2. CASE s # r
    <3>1. requests'[s] = requests[s]
      BY <1>1, <1>4, <2>2
    <3> QED BY <1>5, <3>1 DEF SignsTables, At
  <2> QED BY <2>1, <2>2
<1> QED BY <1>1, <1>5 DEF SignsTables, At

\* Friendships and blocks touch nothing of a request that is signed.
SameRequest(q, n) ==
  /\ n.op = q.op /\ n.pc = q.pc /\ n.user = q.user /\ n.post = q.post
  /\ n.found = q.found /\ n.row = q.row /\ n.to = q.to

LEMMA RelationRequests ==
  ASSUME PagesInv, NEW u, RelationChanges(u)
  PROVE  /\ posts' = posts /\ nextId' = nextId /\ wire' = {}
         /\ \A r \in Requests : SameRequest(requests[r], requests'[r])
                                \/ (requests'[r] = Idle /\ requests[r] = Idle)
<1> DEFINE pair == {Me, u}
<1>1. Befriend(pair) \/ Unfriend(pair) \/ Block(pair) \/ Unblock(pair)
  BY DEF RelationChanges
<1> HIDE DEF pair
<1>2. posts' = posts /\ nextId' = nextId /\ wire' = {}
  BY <1>1 DEF Befriend, Unfriend, Block, Unblock, postTables
<1>3. ASSUME NEW r \in Requests
      PROVE  SameRequest(requests[r], requests'[r]) \/ (requests'[r] = Idle /\ requests[r] = Idle)
  <2>1. CASE requests' = requests
    BY <2>1 DEF SameRequest
  <2>2. CASE Unblock(pair)
    <3>1. CASE requests[r] = Idle
      BY <2>2, <3>1 DEF Unblock
    <3>2. CASE requests[r] # Idle
      <4>1. requests[r] \in Request
        BY <3>2 DEF PagesInv, SharingInv, TypeOK
      <4>2. requests'[r] = [requests[r] EXCEPT !.barred = FALSE]
        BY <2>2, <3>2 DEF Unblock
      <4> QED BY <4>1, <4>2 DEF Request, SameRequest
    <3> QED BY <3>1, <3>2
  <2> QED BY <1>1, <2>1, <2>2 DEF Befriend, Unfriend, Block
<1> QED BY <1>2, <1>3

LEMMA RelationSigned ==
  ASSUME PagesInv, NEW by, SignsTables(by), NEW u, RelationChanges(u) PROVE SignsTables(by)'
<1>1. posts' = posts /\ \A r \in Requests : SameRequest(requests[r], requests'[r])
                                \/ (requests'[r] = Idle /\ requests[r] = Idle)
  BY RelationRequests
<1>2. Idle.pc = "idle"
  BY DEF Idle
<1>3. ASSUME NEW r \in Requests, requests'[r].pc # "idle" PROVE SignsRequest(by, requests'[r])
  <2>1. SameRequest(requests[r], requests'[r])
    BY <1>1, <1>2, <1>3
  <2>2. SignsRequest(by, requests[r])
    BY <1>3, <2>1 DEF SignsTables, At, SameRequest
  <2> QED BY <2>1, <2>2 DEF SameRequest, SignsRequest
<1> QED BY <1>1, <1>3 DEF SignsTables, At

LEMMA FailSigned ==
  ASSUME PagesInv, NEW by, SignsTables(by), NEW r \in Requests, Fail(r) PROVE SignsTables(by)'
<1>1. requests' = [requests EXCEPT ![r] = Idle] /\ posts' = posts
  BY DEF Fail, Respond, postTables
<1>2. requests \in [Requests -> Request \cup {Idle}] /\ Idle.pc = "idle"
  BY DEF PagesInv, SharingInv, TypeOK, Idle
<1> HIDE DEF Idle
<1>3. ASSUME NEW s \in Requests, requests'[s].pc # "idle" PROVE SignsRequest(by, requests'[s])
  <2>1. s # r
    BY <1>1, <1>2, <1>3
  <2>2. requests'[s] = requests[s]
    BY <1>1, <1>2, <2>1
  <2> QED BY <1>3, <2>2 DEF SignsTables, At
<1> QED BY <1>1, <1>3 DEF SignsTables, At

-----------------------------------------------------------------------------

LEMMA SignedWas ==
  ASSUME PagesInv, Served, NEW by, Signed(by)
  PROVE  /\ SignsTables(by) /\ SignsPosts(by, ToSet(list)) /\ SignsLoads(by, loads)
         /\ SignsBox(by, inbox, nextId') /\ SignsWriting(by, writing)
         /\ SignsLoads(by, Late(loads))
<1>1. nextId \in Nat /\ nextId' \in Nat /\ nextId <= nextId'
  BY NextIdIsNat DEF PagesInv, Served
<1>2. SignsLoads(by, loads)
  BY DEF Signed, SignsLoads
<1>3. ASSUME NEW k \in DOMAIN inbox, inbox[k].kind # "friends"
      PROVE  SignsEvent(by, inbox[k], nextId')
  <2>1. SignsEvent(by, inbox[k], nextId)
    BY <1>3 DEF Signed, SignsBox
  <2>2. inbox[k].about.id \in Nat
    BY <1>3 DEF PagesInv, PageSound, Arriving, PostEvent, Sent, Post, RowId, NoId
  <2> QED BY <1>1, <2>1, <2>2 DEF SignsEvent
<1> QED BY <1>2, <1>3, LateSigned DEF Signed, SignsBox

\* The list and what waits stay as they are, or become something signed.
LEMMA AllSigned ==
  ASSUME NEW by, SignsTables(by)', SignsPosts(by, ToSet(list')), SignsLoads(by, loads'),
         SignsBox(by, inbox', nextId'), SignsWriting(by, writing')
  PROVE  Signed(by)'
  BY DEF Signed, SignsLoads

LEMMA BoxSigned ==
  ASSUME NEW by, NEW n, NEW box \in Seq(Event), SignsBox(by, box, n)
  PROVE  /\ box # <<>> => SignsBox(by, Tail(box), n)
         /\ \A m \in Event : (m.kind # "friends" => SignsEvent(by, m, n))
                             => SignsBox(by, Append(box, m), n)
         /\ SignsBox(by, <<>>, n)
<1>1. Len(box) \in Nat /\ DOMAIN box = 1..Len(box)
  BY LenProperties
<1>2. ASSUME box # <<>> PROVE SignsBox(by, Tail(box), n)
  <2>1. /\ Tail(box) \in Seq(Event) /\ Len(Tail(box)) = Len(box) - 1 /\ Len(box) # 0
        /\ \A i \in 1..Len(Tail(box)) : Tail(box)[i] = box[i + 1]
    BY <1>2, HeadTailProperties, EmptySeq
  <2>2. DOMAIN Tail(box) = 1..(Len(box) - 1)
    BY <2>1, LenProperties
  <2>3. \A i \in DOMAIN Tail(box) : i + 1 \in DOMAIN box /\ Tail(box)[i] = box[i + 1]
    BY <1>1, <2>1, <2>2
  <2> QED BY <2>3 DEF SignsBox
<1>3. ASSUME NEW m \in Event, m.kind # "friends" => SignsEvent(by, m, n)
      PROVE  SignsBox(by, Append(box, m), n)
  <2>1. /\ Append(box, m) \in Seq(Event) /\ Len(Append(box, m)) = Len(box) + 1
        /\ \A k \in 1..Len(box) : Append(box, m)[k] = box[k]
        /\ Append(box, m)[Len(box) + 1] = m
    BY AppendProperties
  <2>2. DOMAIN Append(box, m) = 1..(Len(box) + 1)
    BY <2>1, LenProperties
  <2>3. \A k \in DOMAIN Append(box, m) :
          Append(box, m)[k] = m \/ (k \in DOMAIN box /\ Append(box, m)[k] = box[k])
    BY <1>1, <2>1, <2>2
  <2> QED BY <1>3, <2>3 DEF SignsBox
<1>4. SignsBox(by, <<>>, n)
  <2>1. DOMAIN <<>> = {}
    OBVIOUS
  <2> QED BY <2>1 DEF SignsBox
<1> QED BY <1>2, <1>3, <1>4

LEMMA WriteSigned ==
  ASSUME NEW by, SignsPosts(by, ToSet(list)), NEW op, NEW r, NEW phase,
         NEW row, row # Undefined => by[row.id] = Me /\ row.author = Me,
         op = "deletePost" => row \in ToSet(list)
  PROVE  SignsWriting(by, Write(op, r, row))
         /\ SignsWriting(by, [Write(op, r, row) EXCEPT !.phase = phase])
  BY DEF SignsWriting, Write

LEMMA SignedSubset ==
  ASSUME NEW by, NEW S, SignsPosts(by, S), NEW T,
         T \subseteq S \/ \E p : T \subseteq S \cup {p} /\ by[p.id] = p.author
  PROVE  SignsPosts(by, T)
  BY DEF SignsPosts

\* What a page of the server's answer has is of the table.
LEMMA PageSigned ==
  ASSUME SharingInv, NEW by, SignsPosts(by, posts), NEW v, NEW before \in Nat
  PROVE  SignsPosts(by, ToSet(Page(v, before)))
<1>1. \A p \in ToSet(Page(v, before)) : p \in posts
  BY PagePosts, ListedIs
<1> QED BY <1>1 DEF SignsPosts

LEMMA MovesSigned ==
  ASSUME PagesInv, NEW by, Signed(by),
         (\E v \in Views : Switch(v) \/ Navigate(v)) \/ LoadMore \/ LoadFails \/ SocketDrops
  PROVE  Signed(by)'
<1>1. Served
  BY ServerRests DEF Switch, Navigate, LoadMore, LoadFails, SocketDrops
<1>2. SignsTables(by)'
  BY TablesRest DEF Signed, Switch, Navigate, LoadMore, LoadFails, SocketDrops
<1>3. inbox \in Seq(Event)
  BY DEF PagesInv, PageSound, Arriving
<1>4. CASE \E v \in Views : Switch(v)
  <2>1. PICK v \in Views : Switch(v)
    BY <1>4
  <2> DEFINE ls == {[l EXCEPT !.late = TRUE] : l \in loads}
  <2>2. loads' = ls \cup {Reload(v)} /\ UNCHANGED <<list, writing, inbox>>
    BY <2>1 DEF Switch
  <2>3. SignsLoads(by, ls)
    BY <1>1, SignedWas, LateSigned
  <2> HIDE DEF ls
  <2>4. SignsLoads(by, loads')
    BY <2>2, <2>3, MoreSigned, NewSigned
  <2> QED BY <1>1, <1>2, <2>2, <2>4, SignedWas, AllSigned
<1>5. CASE \E v \in Views : Navigate(v)
  <2>1. PICK v \in Views : Navigate(v)
    BY <1>5
  <2>2. loads' = FirstLoads(v) /\ list' = <<>> /\ writing' = NotWriting /\ inbox' = inbox
    BY <2>1 DEF Navigate
  <2>3. \A o \in loads' : SignsPosts(by, ToSet(o.posts))
    BY <2>2, NewSigned DEF FirstLoads
  <2>4. SignsPosts(by, ToSet(list'))
    BY <2>2 DEF SignsPosts, ToSet
  <2>5. SignsWriting(by, writing')
    BY <2>2 DEF SignsWriting
  <2> QED BY <1>1, <1>2, <2>2, <2>3, <2>4, <2>5, SignedWas, AllSigned DEF SignsLoads
<1>6. CASE LoadMore
  <2>1. /\ loads' = loads \cup {NewLoad("more", view, Last(list).id)}
        /\ UNCHANGED <<list, writing, inbox>>
    BY <1>6 DEF LoadMore
  <2>2. SignsLoads(by, loads')
    BY <1>1, <2>1, SignedWas, MoreSigned, NewSigned
  <2> QED BY <1>1, <1>2, <2>1, <2>2, SignedWas, AllSigned
<1>7. CASE LoadFails
  <2>1. loads' \subseteq loads /\ UNCHANGED <<list, writing, inbox>>
    BY <1>7 DEF LoadFails
  <2>2. SignsLoads(by, loads')
    BY <1>1, <2>1, SignedWas, LateSigned
  <2> QED BY <1>1, <1>2, <2>1, <2>2, SignedWas, AllSigned
<1>8. CASE SocketDrops
  <2>1. loads' = Late(loads) /\ inbox' = <<>> /\ UNCHANGED <<list, writing>>
    BY <1>8 DEF SocketDrops
  <2>2. SignsBox(by, inbox', nextId')
    BY <1>1, <1>3, <2>1, SignedWas, BoxSigned
  <2> QED BY <1>1, <1>2, <2>1, <2>2, SignedWas, AllSigned
<1> QED BY <1>4, <1>5, <1>6, <1>7, <1>8

LEMMA WritesSigned ==
  ASSUME PagesInv, NEW by, Signed(by), NEW r \in Requests,
         SubmitPost(r) \/ SaveEdit(r) \/ DeleteOwn(r) \/ OthersWrite(r)
  PROVE  Signed(by)'
<1>1. CASE SubmitPost(r)
  <2>1. Served
    BY <1>1, SubmitPostKeeps
  <2>2. SignsTables(by)'
    BY <1>1, ReceiveSigned DEF SubmitPost, Signed
  <2>3. writing' = Write("createPost", r, Undefined) /\ UNCHANGED <<list, loads, inbox>>
    BY <1>1 DEF SubmitPost
  <2>4. SignsWriting(by, writing')
    BY <2>1, <2>3, SignedWas, WriteSigned
  <2> QED BY <2>1, <2>2, <2>3, <2>4, SignedWas, AllSigned
<1>2. CASE SaveEdit(r)
  <2>1. Served
    BY <1>2, SaveEditKeeps
  <2>2. SignsTables(by)'
    BY <1>2, ReceiveSigned DEF SaveEdit, Signed
  <2>3. writing' = Write("updatePost", r, Undefined) /\ UNCHANGED <<list, loads, inbox>>
    BY <1>2 DEF SaveEdit
  <2>4. SignsWriting(by, writing')
    BY <2>1, <2>3, SignedWas, WriteSigned
  <2> QED BY <2>1, <2>2, <2>3, <2>4, SignedWas, AllSigned
<1>3. CASE DeleteOwn(r)
  <2>1. Served
    BY <1>3, DeleteOwnKeeps
  <2>2. PICK k \in DOMAIN list :
          /\ list[k].author = Me
          /\ Receive(r, "deletePost", "loadPost", Me, list[k].id, NoId, "public", FALSE)
          /\ list' = Without(list[k].id)
          /\ writing' = Write("deletePost", r, list[k])
    BY <1>3 DEF DeleteOwn
  <2>3. SignsTables(by)'
    BY <2>2, ReceiveSigned DEF Signed
  <2>4. list[k] \in ToSet(list)
    BY DEF ToSet
  <2>5. SignsPosts(by, ToSet(list))
    BY DEF Signed
  <2>6. by[list[k].id] = Me
    BY <2>2, <2>4, <2>5 DEF SignsPosts
  <2>7. SignsWriting(by, writing')
    BY <2>2, <2>4, <2>5, <2>6, WriteSigned
  <2>8. ToSet(list') \subseteq ToSet(list)
    BY <2>2, WithoutSet DEF Without, PagesInv, PageSound
  <2>9. SignsPosts(by, ToSet(list'))
    BY <2>5, <2>8, SignedSubset
  <2>10. loads' = Late(loads) /\ inbox' = inbox
    BY <1>3 DEF DeleteOwn
  <2> QED BY <2>1, <2>3, <2>7, <2>9, <2>10, SignedWas, AllSigned
<1>4. CASE OthersWrite(r)
  <2>1. Served
    BY <1>4, OthersWriteKeeps
  <2>2. UNCHANGED <<list, loads, inbox, writing>>
    BY <1>4 DEF OthersWrite, pageVars
  <2>3. SignsTables(by)'
    <3>1. CASE CreatePost(r)
      BY <3>1, ReceiveSigned DEF CreatePost, Signed
    <3>2. CASE NamePost(r)
      <4>1. PICK u \in Users, p \in posts, v \in Visibility,
                 op \in {"getPost", "updatePost", "deletePost"} :
                   Receive(r, op, "loadPost", u, p.id, NoId, v,
                           op = "getPost" /\ BlockedPair(u, p.author))
        BY <3>2 DEF NamePost
      <4>2. requests'[r].op = op
        BY <4>1 DEF Receive, PagesInv, SharingInv, TypeOK
      <4>3. op \in {"updatePost", "deletePost"}
        BY <1>4, <4>2 DEF OthersWrite
      <4>4. (op = "getPost" /\ BlockedPair(u, p.author)) = FALSE
        BY <4>3
      <4>5. Receive(r, op, "loadPost", u, p.id, NoId, v, FALSE)
        BY <4>1, <4>4
      <4> QED BY <4>3, <4>5, ReceiveSigned DEF Signed
    <3> QED BY <1>4, <3>1, <3>2 DEF OthersWrite
  <2> QED BY <2>1, <2>2, <2>3, SignedWas, AllSigned
<1> QED BY <1>1, <1>2, <1>3, <1>4

LEMMA LoadsSigned ==
  ASSUME PagesInv, NEW by, Signed(by), ServeLoad \/ LoadArrives
  PROVE  Signed(by)'
<1>1. Served /\ SharingInv
  BY ServerRests DEF ServeLoad, LoadArrives, PagesInv
<1>2. SignsTables(by)'
  BY TablesRest DEF Signed, ServeLoad, LoadArrives
<1>3. loads \subseteq Load /\ list \in Seq(Post)
  BY DEF PagesInv, PageSound, Loading, Listing
<1>4. CASE ServeLoad
  <2>1. PICK l \in loads : \E what \in l.asks :
          loads' = (loads \ {l}) \cup
            {[l EXCEPT !.asks = @ \ {what},
                       !.posts = IF what = "posts" THEN Page(l.view, l.before) ELSE @,
                       !.friends = IF what = "friends" THEN FriendsOf(Me) ELSE @]}
    BY <1>4 DEF ServeLoad
  <2>2. PICK what \in l.asks :
          loads' = (loads \ {l}) \cup
            {[l EXCEPT !.asks = @ \ {what},
                       !.posts = IF what = "posts" THEN Page(l.view, l.before) ELSE @,
                       !.friends = IF what = "friends" THEN FriendsOf(Me) ELSE @]}
    BY <2>1
  <2> DEFINE page == IF what = "posts" THEN Page(l.view, l.before) ELSE l.posts
             names == IF what = "friends" THEN FriendsOf(Me) ELSE l.friends
             o == [l EXCEPT !.asks = l.asks \ {what}, !.posts = page, !.friends = names]
  <2>3. loads' = (loads \ {l}) \cup {o}
    BY <2>2
  <2>4. SignsPosts(by, ToSet(page))
    <3>1. l.before \in Nat
      BY <1>3 DEF Load
    <3>2. SignsPosts(by, ToSet(Page(l.view, l.before)))
      BY <1>1, <3>1, PageSigned DEF Signed, SignsTables
    <3>3. SignsPosts(by, ToSet(l.posts))
      BY DEF Signed
    <3> QED BY <3>2, <3>3
  <2> HIDE DEF page, names
  <2>5. o.posts = page
    BY <1>3 DEF Load
  <2> HIDE DEF o
  <2>6. SignsLoads(by, loads \ {l})
    BY <1>1, SignedWas, LateSigned
  <2>7. SignsLoads(by, loads')
    BY <2>3, <2>4, <2>5, <2>6, MoreSigned
  <2>8. UNCHANGED <<list, writing, inbox>>
    BY <1>4 DEF ServeLoad
  <2> QED BY <1>1, <1>2, <2>7, <2>8, SignedWas, AllSigned
<1>5. CASE LoadArrives
  <2>1. UNCHANGED <<writing, inbox>>
    BY <1>5 DEF LoadArrives
  <2>2. PICK l \in loads :
        \/ loads' = loads \ {l} /\ (list' = list \/ list' = AppendFresh(l.posts))
        \/ loads' = Displaced(loads \ {l}) /\ list' = l.posts
    BY <1>5 DEF LoadArrives, ShowPage
  <2>3. SignsLoads(by, loads')
    BY <1>1, <2>2, SignedWas, LateSigned
  <2>4. SignsPosts(by, ToSet(l.posts)) /\ SignsPosts(by, ToSet(list))
    BY DEF Signed
  <2>5. l.posts \in Seq(Post)
    BY <1>3 DEF Load
  <2>6. ToSet(AppendFresh(l.posts)) \subseteq ToSet(list) \cup ToSet(l.posts)
    BY <1>3, <2>5, AppendFreshSet DEF Joined
  <2>7. SignsPosts(by, ToSet(list'))
    <3>1. SignsPosts(by, ToSet(AppendFresh(l.posts)))
      BY <2>4, <2>6 DEF SignsPosts
    <3> QED BY <2>2, <2>4, <3>1
  <2> QED BY <1>1, <1>2, <2>1, <2>3, <2>7, SignedWas, AllSigned
<1> QED BY <1>4, <1>5

\* What an update, or a new post, makes of the list.
LEMMA OneMoreSet ==
  ASSUME NEW n, Listing(list, n), NEW p \in Post
  PROVE  /\ ToSet(Upsert(p)) \subseteq ToSet(list) \cup {p}
         /\ ToSet(Inserted(p)) \subseteq ToSet(list) \cup {p}
         /\ ToSet(Replaced(p)) \subseteq ToSet(list) \cup {p}
         /\ \A i : ToSet(Without(i)) \subseteq ToSet(list)
<1>1. list \in Seq(Post)
  BY DEF Listing
<1>2. ToSet(Upsert(p)) \subseteq ToSet(list) \cup {p}
  BY UpsertSet
<1>3. ToSet(Inserted(p)) \subseteq ToSet(list) \cup {p}
  BY <1>1, InsertedSet
<1>4. ToSet(Replaced(p)) \subseteq ToSet(list) \cup {p}
  BY ReplacedSet
<1>5. \A i : ToSet(Without(i)) \subseteq ToSet(list)
  BY WithoutSet DEF Without
<1> QED BY <1>2, <1>3, <1>4, <1>5

LEMMA AnswersSigned ==
  ASSUME PagesInv, NEW by, Signed(by), WriteArrives \/ ActionArrives
  PROVE  Signed(by)'
<1>1. Served
  BY ServerRests DEF WriteArrives, ActionArrives
<1>2. SignsTables(by)'
  BY TablesRest DEF Signed, WriteArrives, ActionArrives
<1>3. SignsWriting(by, NotWriting)
  BY DEF SignsWriting
<1>4. CASE WriteArrives
  <2>1. /\ writing # NotWriting /\ list' = AfterWrite /\ writing' = NotWriting
        /\ loads' = Late(loads) /\ inbox' = inbox
    BY <1>4 DEF WriteArrives
  <2>2. /\ SignsPosts(by, ToSet(list)) /\ SignsPosts(by, ToSet(writing.backup))
        /\ writing.row # Undefined => by[writing.row.id] = Me /\ writing.row.author = Me
    BY <2>1 DEF Signed, SignsWriting
  <2>3. Listing(list, nextId) /\ writing.row \in Post \cup {Undefined}
    BY <2>1 DEF PagesInv, PageSound, Saving, Writing
  <2>4. SignsPosts(by, ToSet(AfterWrite))
    <3>1. CASE writing.row \in Post /\ writing.row # Undefined
      <4> DEFINE p == writing.row
      <4>1. /\ ToSet(Upsert(p)) \subseteq ToSet(list) \cup {p}
            /\ ToSet(Inserted(p)) \subseteq ToSet(list) \cup {p}
            /\ ToSet(Replaced(p)) \subseteq ToSet(list) \cup {p}
        BY <2>3, <3>1, OneMoreSet
      <4>2. by[p.id] = p.author
        BY <2>2, <3>1
      <4> HIDE DEF p
      <4>3. /\ SignsPosts(by, ToSet(Upsert(p))) /\ SignsPosts(by, ToSet(Inserted(p)))
            /\ SignsPosts(by, ToSet(Replaced(p)))
        BY <2>2, <4>1, <4>2, SignedSubset
      <4>4. AfterWrite \in {list, writing.backup, Upsert(p), Inserted(p), Replaced(p)}
        BY DEF AfterWrite, RestoreBackup, p
      <4> QED BY <2>2, <4>3, <4>4
    <3>2. CASE writing.row = Undefined
      <4>1. AfterWrite \in {list, writing.backup}
        BY <3>2 DEF AfterWrite, RestoreBackup
      <4> QED BY <2>2, <4>1
    <3> QED BY <2>3, <3>1, <3>2
  <2> QED BY <1>1, <1>2, <1>3, <2>1, <2>4, SignedWas, AllSigned
<1>5. CASE ActionArrives
  <2>1. /\ writing' = NotWriting /\ loads' = Late(loads) \cup {Reload(view)}
        /\ list' = list /\ inbox' = inbox
    BY <1>5 DEF ActionArrives, Start
  <2>2. SignsLoads(by, loads')
    BY <1>1, <2>1, SignedWas, MoreSigned, NewSigned
  <2> QED BY <1>1, <1>2, <1>3, <2>1, <2>2, SignedWas, AllSigned
<1> QED BY <1>4, <1>5

LEMMA RelatesSigned ==
  ASSUME PagesInv, NEW by, Signed(by), OthersRelate \/ RunAction
  PROVE  Signed(by)'
<1>1. Served
  BY OthersRelateKeeps, RunActionKeeps
<1>2. SignsTables(by)'
  BY RelationSigned DEF Signed, OthersRelate, RunAction
<1>3. inbox \in Seq(Event)
  BY DEF PagesInv, PageSound, Arriving
<1>4. CASE OthersRelate
  <2>1. /\ inbox' \in {inbox, Append(inbox, [kind |-> "friends"])} /\ loads' = Late(loads)
        /\ UNCHANGED <<list, writing>>
    BY <1>4 DEF OthersRelate
  <2>2. [kind |-> "friends"] \in Event
    BY DEF Event
  <2>3. SignsBox(by, inbox', nextId')
    BY <1>1, <1>3, <2>1, <2>2, SignedWas, BoxSigned
  <2> QED BY <1>1, <1>2, <2>1, <2>3, SignedWas, AllSigned
<1>5. CASE RunAction
  <2>1. /\ writing' = [Write("relate", Nowhere, Undefined) EXCEPT !.phase = "ok"]
        /\ loads' = Late(loads) /\ UNCHANGED <<list, inbox>>
    BY <1>5 DEF RunAction
  <2>2. SignsWriting(by, writing')
    BY <1>1, <2>1, SignedWas, WriteSigned
  <2> QED BY <1>1, <1>2, <2>1, <2>2, SignedWas, AllSigned
<1> QED BY <1>4, <1>5

\* The event at hand, if it is of a post.
LEMMA AtHand ==
  ASSUME PagesInv, NEW by, Signed(by), inbox # <<>>, Head(inbox).kind # "friends"
  PROVE  /\ SignsEvent(by, Head(inbox), nextId) /\ PostEvent(Head(inbox), nextId)
         /\ 1 \in DOMAIN inbox /\ Head(inbox) = inbox[1]
<1>1. inbox \in Seq(Event)
  BY DEF PagesInv, PageSound, Arriving
<1>2. Len(inbox) \in Nat \ {0} /\ DOMAIN inbox = 1..Len(inbox)
  BY <1>1, EmptySeq, LenProperties
<1>3. Head(inbox) = inbox[1] /\ 1 \in DOMAIN inbox
  BY <1>1, <1>2
<1> QED BY <1>3 DEF Signed, SignsBox, PagesInv, PageSound, Arriving

LEMMA HandledSigned ==
  ASSUME PagesInv, NEW by, Signed(by), HandlePostEvent \/ HandleFriendEvent
  PROVE  Signed(by)'
<1>1. Served
  BY ServerRests DEF HandlePostEvent, HandleFriendEvent
<1>2. SignsTables(by)'
  BY TablesRest DEF Signed, HandlePostEvent, HandleFriendEvent
<1>3. inbox \in Seq(Event) /\ inbox # <<>> /\ inbox' = Tail(inbox) /\ writing' = writing
  BY DEF PagesInv, PageSound, Arriving, HandlePostEvent, HandleFriendEvent
<1>4. SignsBox(by, inbox', nextId')
  BY <1>1, <1>3, SignedWas, BoxSigned
<1>5. CASE HandlePostEvent
  <2> DEFINE m == Head(inbox)
             p == m.carries
  <2>1. list' = AfterEvent(m) /\ loads' = Late(loads) /\ m.kind # "friends"
    BY <1>5 DEF HandlePostEvent
  <2>2. SignsEvent(by, m, nextId) /\ PostEvent(m, nextId)
    BY <1>3, <2>1, AtHand
  <2>3. Listing(list, nextId) /\ SignsPosts(by, ToSet(list))
    BY DEF PagesInv, PageSound, Signed
  <2>4. p \in Post \cup {Undefined} /\ (m.kind = "post:created" => p # Undefined)
    BY <2>2 DEF PostEvent
  <2> HIDE DEF m
  <2>5. \A i : ToSet(Without(i)) \subseteq ToSet(list)
    BY <2>3, WithoutSet DEF Without
  <2>6. SignsPosts(by, ToSet(list'))
    <3>1. CASE list' = list \/ \E i : list' = Without(i)
      BY <2>3, <2>5, <3>1, SignedSubset
    <3>2. CASE ~(list' = list \/ \E i : list' = Without(i))
      <4>1. list' = Inserted(p) \/ (list' = Upsert(p) /\ p # Undefined)
        BY <2>1, <3>2 DEF AfterEvent
      <4>2. p # Undefined
        <5>1. m.kind = "post:created" \/ p # Undefined
          BY <2>1, <3>2 DEF AfterEvent
        <5> QED BY <2>4, <5>1
      <4>3. p \in Post /\ by[p.id] = p.author
        BY <2>2, <2>4, <4>2 DEF SignsEvent
      <4>4. /\ ToSet(Upsert(p)) \subseteq ToSet(list) \cup {p}
            /\ ToSet(Inserted(p)) \subseteq ToSet(list) \cup {p}
        BY <2>3, <4>3, OneMoreSet
      <4> HIDE DEF p
      <4> QED BY <2>3, <4>1, <4>3, <4>4, SignedSubset
    <3> QED BY <3>1, <3>2
  <2> QED BY <1>1, <1>2, <1>3, <1>4, <2>1, <2>6, SignedWas, AllSigned
<1>6. CASE HandleFriendEvent
  <2>1. list' = list /\ (\/ loads' = loads \cup {NewLoad("friends", view, 0)}
                         \/ loads' = Late(loads) \cup {Reload(view)})
    BY <1>6 DEF HandleFriendEvent, Start
  <2>2. SignsLoads(by, loads')
    BY <1>1, <2>1, SignedWas, MoreSigned, NewSigned
  <2> QED BY <1>1, <1>2, <1>3, <1>4, <2>1, <2>2, SignedWas, AllSigned
<1> QED BY <1>5, <1>6

\* A step tells at most one thing, and then the request has ended.
LEMMA OneTold ==
  ASSUME PagesInv, NEW r \in Requests, PostStep(r), NEW by, SignsRequest(by, requests[r])
  PROVE  wire' = {} \/ (requests'[r] = Idle /\ \E m : wire' = {m})
<1>1. ASSUME Audience(r) PROVE wire' = {} \/ (requests'[r] = Idle /\ \E m : wire' = {m})
  BY <1>1, AudienceEffect
<1>2. ASSUME EmitEvent(r) PROVE wire' = {} \/ (requests'[r] = Idle /\ \E m : wire' = {m})
  BY <1>2, EmitEffect
<1>3. ASSUME InsertPost(r) PROVE wire' = {}
  BY <1>3, InsertEffect
<1>4. ASSUME LoadPost(r) PROVE wire' = {}
  BY <1>4, LoadEffect
<1>5. ASSUME UpdatePost(r) PROVE wire' = {}
  BY <1>5, UpdateEffect
<1>6. ASSUME RefetchPost(r) PROVE wire' = {}
  BY <1>6, RefetchEffect
<1>7. ASSUME DeletePost(r) PROVE wire' = {}
  BY <1>7, DeleteEffect
<1> QED BY <1>1, <1>2, <1>3, <1>4, <1>5, <1>6, <1>7, WhichStep

LEMMA ServedSigned ==
  ASSUME PagesInv, Awaited, NEW by, Signed(by), NEW r \in Requests, ServeRequest(r),
         InsertPost(r) => by[nextId] = requests[r].user
  PROVE  Signed(by)'
<1>1. /\ Served /\ requests[r].row \in Post \cup {Undefined}
  BY StepServes DEF ServeRequest
<1>2. SignsTables(by)' /\ \A m \in wire' : Me \in m.to => SignsEvent(by, m, nextId')
  BY WorkSigned DEF ServeRequest, Signed
<1>3. list' = list /\ (loads' = loads \/ loads' = Late(loads))
  BY DEF ServeRequest
<1>4. inbox \in Seq(Event)
  BY DEF PagesInv, PageSound, Arriving
<1>5. SignsBox(by, inbox', nextId')
  <2>1. CASE inbox' = inbox
    BY <1>1, <2>1, SignedWas
  <2>2. CASE inbox' # inbox
    <3>1. inbox' = Append(inbox, CHOOSE m \in wire' : TRUE) /\ \E m \in wire' : Me \in m.to
      BY <2>2 DEF ServeRequest
    <3>2. \A m, e \in wire' : m = e
      <4>1. SignsRequest(by, requests[r])
        BY AtWork DEF ServeRequest, Signed, SignsTables
      <4>2. wire' = {} \/ \E m : wire' = {m}
        BY <4>1, OneTold DEF ServeRequest
      <4> QED BY <4>2
    <3>3. PICK m \in wire' : inbox' = Append(inbox, m) /\ Me \in m.to
      BY <3>1, <3>2
    <3>4. m \in Event
      BY <1>1, <3>3 DEF Served, PostEvent, Event
    <3> QED BY <1>1, <1>2, <1>4, <3>3, <3>4, SignedWas, BoxSigned
  <2> QED BY <2>1, <2>2
<1>7. SignsWriting(by, writing')
  <2>1. CASE writing' = writing
    BY <2>1 DEF Signed
  <2>2. CASE writing' # writing
    <3>1. writing # NotWriting /\ writing.phase = "sent" /\ writing.at = r
      BY <2>2 DEF ServeRequest, Ours
    <3> DEFINE ph == IF wire' # {} THEN "ok" ELSE "failed"
               row == IF writing.op = "deletePost" THEN writing.row ELSE requests[r].row
    <3>2. writing' = [writing EXCEPT !.phase = ph, !.row = row]
      BY <2>2 DEF ServeRequest
    <3>3. Mine(r) /\ ~At(r, "idle")
      BY <3>1 DEF Awaited
    <3>4. SignsRequest(by, requests[r])
      BY <3>3 DEF Signed, SignsTables
    <3>5. requests[r].row # Undefined => by[requests[r].row.id] = Me /\ requests[r].row.author = Me
      BY <3>3, <3>4 DEF SignsRequest, Mine
    <3>6. SignsWriting(by, writing) /\ writing \in Writing
      BY <3>1 DEF Signed, PagesInv, PageSound, Saving
    <3>7. row # Undefined => by[row.id] = Me /\ row.author = Me
      BY <3>1, <3>5, <3>6 DEF SignsWriting
    <3>8. writing.op = "deletePost" => row \in ToSet(writing.backup)
      BY <3>1, <3>6 DEF SignsWriting
    <3> HIDE DEF ph, row
    <3>9. /\ writing'.backup = writing.backup /\ writing'.row = row /\ writing'.op = writing.op
      BY <3>2, <3>6 DEF Writing
    <3> QED BY <3>1, <3>6, <3>7, <3>8, <3>9 DEF SignsWriting
  <2> QED BY <2>1, <2>2
<1> QED BY <1>1, <1>2, <1>3, <1>5, <1>7, SignedWas, AllSigned

LEMMA FailedSigned ==
  ASSUME PagesInv, NEW by, Signed(by), NEW r \in Requests, ServeFails(r)
  PROVE  Signed(by)'
<1>1. Served /\ SignsTables(by)'
  BY FailServes, FailSigned DEF ServeFails, Signed
<1>2. list' = list /\ loads' = Late(loads) /\ inbox' = inbox
  BY DEF ServeFails
<1>3. SignsWriting(by, writing')
  <2>1. CASE writing' = writing
    BY <2>1 DEF Signed
  <2>2. CASE writing' # writing
    <3>1. writing' = [writing EXCEPT !.phase = "failed"] /\ writing # NotWriting
      BY <2>2 DEF ServeFails, Ours
    <3>2. SignsWriting(by, writing) /\ writing \in Writing
      BY <3>1 DEF Signed, PagesInv, PageSound, Saving
    <3>3. /\ writing'.backup = writing.backup /\ writing'.row = writing.row
          /\ writing'.op = writing.op
      BY <3>1, <3>2 DEF Writing
    <3> QED BY <3>1, <3>2, <3>3 DEF SignsWriting
  <2> QED BY <2>1, <2>2
<1> QED BY <1>1, <1>2, <1>3, SignedWas, AllSigned

LEMMA SignedKeeps ==
  ASSUME PagesInv, Awaited, NEW by, Signed(by), PagesNext,
         \A r \in Requests : InsertPost(r) => by[nextId] = requests[r].user
  PROVE  Signed(by)'
  BY MovesSigned, WritesSigned, LoadsSigned, AnswersSigned, RelatesSigned, HandledSigned,
     ServedSigned, FailedSigned DEF PagesNext, Turn, Follow

-----------------------------------------------------------------------------
(* What a step of the service does to what Me will be told.                *)

LEMMA VisRests ==
  ASSUME UNCHANGED <<friends, blocked>>, NEW p PROVE Vis(p)' <=> Vis(p)
  BY DEF Vis, InScope, BlockedPair

\* Post i stays as it is, or away.
Kept(i) == \A p : p.id = i => (p \in posts' <=> p \in posts)

LEMMA NowKept ==
  ASSUME UNCHANGED <<friends, blocked>>, NEW i, Kept(i) PROVE Now(i)' <=> Now(i)
<1>1. \A p : Vis(p)' <=> Vis(p)
  BY VisRests
<1> QED BY <1>1 DEF Now, PostById, Kept

\* The one version of a post that there is.
LEMMA OneInTable ==
  ASSUME PagesInv, NEW p \in posts
  PROVE  /\ p \in Post /\ p # Undefined /\ p.id \in RowId /\ p.id < nextId
         /\ p.author \in Users /\ p.visibility \in Visibility
         /\ \A q \in posts : q.id = p.id => q = p
         /\ Now(p.id) <=> Vis(p)
<1>1. p \in Post /\ \A q \in posts : q.id = p.id => q = p
  BY DEF PagesInv, SharingInv, TypeOK, PostsNumbered
<1>2. p.id < nextId
  BY Named DEF PagesInv
<1>3. p # Undefined
  BY <1>1 DEF Post, Undefined, RowId
<1>4. Now(p.id) <=> Vis(p)
  BY <1>1 DEF Now, PostById
<1> QED BY <1>1, <1>2, <1>3, <1>4 DEF Post

\* Which posts a step changes.
LEMMA Changes ==
  ASSUME PagesInv, NEW by, SignsTables(by), NEW r \in Requests, PostStep(r), NEW i, ~Kept(i)
  PROVE  \/ InsertPost(r) /\ i = nextId
         \/ (UpdatePost(r) \/ DeletePost(r)) /\ i = requests[r].post
<1> DEFINE q == requests[r]
<1>1. SignsRequest(by, q)
  BY AtWork DEF SignsTables
<1>2. ASSUME InsertPost(r) PROVE i = nextId
  BY <1>1, <1>2, InsertEffect DEF Kept
<1>3. ASSUME LoadPost(r) PROVE FALSE
  BY <1>3, LoadEffect DEF Kept
<1>4. ASSUME UpdatePost(r) PROVE i = q.post
  <2> DEFINE New(p) == IF p.id = q.post THEN [p EXCEPT !.visibility = q.wish] ELSE p
  <2>1. posts' = {New(p) : p \in posts} \/ posts' = posts
    BY <1>1, <1>4, UpdateEffect
  <2>2. \A p \in posts : New(p).id = p.id
    BY OneInTable DEF Post
  <2>3. \A p \in posts : p.id # q.post => New(p) = p
    OBVIOUS
  <2> HIDE DEF New
  <2> SUFFICES ASSUME i # q.post PROVE Kept(i)
    OBVIOUS
  <2> QED BY <2>1, <2>2, <2>3 DEF Kept
<1>5. ASSUME RefetchPost(r) PROVE FALSE
  BY <1>1, <1>5, RefetchEffect DEF Kept
<1>6. ASSUME Audience(r) PROVE FALSE
  BY <1>6, AudienceEffect DEF Kept
<1>7. ASSUME DeletePost(r) PROVE i = q.post
  BY <1>1, <1>7, DeleteEffect DEF Kept
<1>8. ASSUME EmitEvent(r) PROVE FALSE
  BY <1>8, EmitEffect DEF Kept
<1> QED BY <1>2, <1>3, <1>4, <1>5, <1>6, <1>7, <1>8, WhichStep

\* Tells of a request, now and after a step.
TellsAs(n, i) ==
  /\ n.pc \in {"refetchPost", "audience", "emit"} /\ n.user # Me /\ n.post = i
  /\ \/ n.op = "updatePost" /\ n.pc = "refetchPost" /\ Vis(n.found)
     \/ /\ n.op = "updatePost" /\ n.pc = "audience"
        /\ Vis(n.found) \/ (n.row # Undefined /\ Vis(n.row))
     \/ n.op \in {"updatePost", "deletePost"} /\ n.pc = "emit" /\ Me \in n.to

Rereads(n, i) == n.pc = "refetchPost" /\ n.op = "updatePost" /\ n.user # Me /\ n.post = i

LEMMA TellsIs ==
  ASSUME NEW r, NEW i
  PROVE  Tells(r, i) <=> TellsAs(requests[r], i) \/ (Rereads(requests[r], i) /\ Now(i))
  BY DEF Tells, TellsAs, Rereads, Mine

LEMMA TellsThen ==
  ASSUME UNCHANGED <<friends, blocked>>, NEW r, NEW i
  PROVE  Tells(r, i)' <=> TellsAs(requests'[r], i) \/ (Rereads(requests'[r], i) /\ Now(i)')
<1>1. \A p : Vis(p)' <=> Vis(p)
  BY VisRests
<1> QED BY <1>1 DEF Tells, TellsAs, Rereads, Mine, Vis, InScope, BlockedPair

\* Whoever of the others may see a post is in its audience.
LEMMA AudienceSees ==
  ASSUME NEW p \in Post, p.author # Me, Vis(p) PROVE Me \in PostAudience(p) \ {p.author}
<1>1. Me \in Users /\ p.author \in Users /\ p.visibility \in Visibility
  BY PagesAssumption DEF Post
<1>2. {Me, p.author} = {p.author, Me}
  OBVIOUS
<1> QED BY <1>1, <1>2 DEF Vis, InScope, PostAudience, FriendsOf, Visibility

LEMMA UpdateSees ==
  ASSUME NEW p \in Post, p.author # Me, NEW row \in Post \cup {Undefined},
         row # Undefined => row.author = p.author,
         Vis(p) \/ (row # Undefined /\ Vis(row))
  PROVE  Me \in UpdateAudience(p, row) \ {p.author}
<1>1. Me \in Users /\ p.author \in Users /\ p.visibility \in Visibility
  BY PagesAssumption DEF Post
<1>2. row # Undefined => row.visibility \in Visibility
  BY DEF Post
<1>3. {Me, p.author} = {p.author, Me}
  OBVIOUS
<1> QED BY <1>1, <1>2, <1>3 DEF Vis, InScope, UpdateAudience, EitherPublic, FriendsOf, Visibility

\* A request past its first query knows its post, and so its author.
LEMMA KnowsPost ==
  ASSUME PagesInv, NEW by, SignsTables(by), NEW r \in Requests,
         requests[r].pc \in {"updatePost", "refetchPost", "audience", "deletePost", "emit"}
  PROVE  LET q == requests[r] IN
         /\ q \in Request /\ SignsRequest(by, q) /\ q.post < nextId
         /\ q.found \in Post /\ q.found # Undefined /\ q.found.id = q.post
         /\ q.found.author = q.user /\ by[q.post] = q.user /\ q.post \in RowId
         /\ q.row \in Post \cup {Undefined}
         /\ q.row # Undefined => q.row.id = q.post /\ q.row.author = q.user
<1> DEFINE q == requests[r]
<1>1. ~At(r, "idle")
  BY DEF At
<1>2. q \in Request /\ Sound(q) /\ Posting(q, nextId) /\ SignsRequest(by, q)
  BY <1>1, InFlight DEF PagesInv, Posted, SignsTables
<1>3. q.found # Undefined /\ q.found.id = q.post /\ q.post < nextId
  BY <1>2 DEF Sound, Loaded
<1>4. q.found \in Post /\ q.row \in Post \cup {Undefined}
  BY <1>2, <1>3 DEF Request, Posting
<1> QED BY <1>2, <1>3, <1>4 DEF SignsRequest, Post

\* A post that somebody else changes under the eyes of Me is told of.
LEMMA ChangeTold ==
  ASSUME PagesInv, Warned, NEW by, SignsTables(by), NEW r \in Requests, PostStep(r),
         NEW i, i # nextId, by[i] # Me, i \notin untold, ~Overtakes(r), ~Kept(i),
         Now(i) \/ Now(i)'
  PROVE  Tells(r, i)'
<1> DEFINE q == requests[r]
           n == requests'[r]
<1>1. (UpdatePost(r) \/ DeletePost(r)) /\ i = q.post
  BY Changes
<1>2. q.pc \in {"updatePost", "deletePost"}
  BY <1>1 DEF UpdatePost, DeletePost, At
<1>3. /\ SignsRequest(by, q) /\ q.found \in Post /\ q.found.id = i /\ q.user # Me
      /\ q.found.author = q.user
  BY <1>1, <1>2, KnowsPost
<1>4. q.found \in posts
  BY <1>2 DEF Overtakes
<1>5. UNCHANGED <<friends, blocked>>
  BY AtWork DEF relations
<1>6. Now(i) <=> Vis(q.found)
  BY <1>3, <1>4, OneInTable
<1>7. CASE UpdatePost(r)
  <2>1. GoesOn(q, n) /\ n.pc = "refetchPost" /\ q.op = "updatePost"
    BY <1>3, <1>4, <1>7, UpdateEffect
  <2>2. Rereads(n, i) /\ n.found = q.found
    BY <1>1, <1>3, <2>1 DEF Rereads, GoesOn
  <2>3. Vis(q.found) \/ Now(i)'
    BY <1>6
  <2>4. Vis(n.found) => TellsAs(n, i)
    BY <2>2 DEF TellsAs, Rereads
  <2> QED BY <1>5, <2>2, <2>3, <2>4, TellsThen
<1>8. CASE DeletePost(r)
  <2>1. /\ GoesOn(q, n) /\ n.pc = "emit" /\ n.to = q.to /\ q.op = "deletePost"
        /\ posts' = {p \in posts : p.id # q.post} /\ q.pc = "deletePost"
    BY <1>3, <1>8, DeleteEffect
  <2>2. ~Now(i)'
    BY <1>1, <2>1 DEF Now, PostById
  <2>3. Vis(q.found)
    BY <1>6, <2>2
  <2>4. Me \in q.to
    BY <1>1, <1>3, <2>1, <2>3 DEF Warned, Mine
  <2>5. TellsAs(n, i)
    BY <1>1, <1>3, <2>1, <2>4 DEF TellsAs, GoesOn
  <2> QED BY <1>5, <2>5, TellsThen
<1> QED BY <1>1, <1>7, <1>8

\* What Me will be told is still to come, or on its way.
LEMMA TellsOn ==
  ASSUME PagesInv, Warned, NEW by, SignsTables(by), NEW r \in Requests, PostStep(r),
         NEW i, Promised(i), i \notin untold, i = requests[r].post => ~Overtakes(r)
  PROVE  Promised(i)' \/ \E m : wire' = {m} /\ Me \in m.to /\ Rewrites(m) /\ Tidings(m, i)
<1> DEFINE q == requests[r]
           n == requests'[r]
<1>0. UNCHANGED <<friends, blocked>>
  BY AtWork DEF relations
<1>1. PICK s \in Requests : Tells(s, i)
  BY DEF Promised
<1>2. TellsAs(requests[s], i) \/ (Rereads(requests[s], i) /\ Now(i))
  BY <1>1, TellsIs
<1>3. requests[s].pc \in {"refetchPost", "audience", "emit"} /\ requests[s].post = i
      /\ requests[s].user # Me
  BY <1>2 DEF TellsAs, Rereads
<1>4. by[i] # Me /\ i < nextId /\ i \in RowId /\ SignsRequest(by, requests[s])
  BY <1>3, KnowsPost
<1>5. i # nextId
  BY <1>4, NextIdIsNat DEF PagesInv, RowId
<1>6. CASE s # r
  <2>1. requests'[s] = requests[s]
    BY <1>6, OthersStay
  <2>2. CASE TellsAs(requests[s], i)
    BY <1>0, <2>1, <2>2, TellsThen DEF Promised
  <2>3. CASE ~TellsAs(requests[s], i)
    <3>1. Rereads(requests[s], i) /\ Now(i)
      BY <1>2, <2>3
    <3>2. CASE Now(i)'
      BY <1>0, <2>1, <3>1, <3>2, TellsThen DEF Promised
    <3>3. CASE ~Now(i)'
      <4>1. ~Kept(i)
        BY <1>0, <3>1, <3>3, NowKept
      <4>2. i = q.post
        BY <1>5, <4>1, Changes
      <4>3. Tells(r, i)'
        BY <1>4, <1>5, <3>1, <4>1, <4>2, ChangeTold
      <4> QED BY <4>3 DEF Promised
    <3> QED BY <3>2, <3>3
  <2> QED BY <2>2, <2>3
<1>7. CASE s = r
  <2>1. /\ SignsRequest(by, q) /\ q.found \in Post /\ q.found.id = i /\ q.found.author = q.user
        /\ q.user # Me /\ q.post = i /\ q.row \in Post \cup {Undefined}
        /\ q.row # Undefined => q.row.author = q.user
        /\ q.pc \in {"refetchPost", "audience", "emit"}
    BY <1>3, <1>7, KnowsPost
  <2>2. ~Overtakes(r)
    BY <1>3, <1>7
  <2>3. TellsAs(q, i) \/ (Rereads(q, i) /\ Now(i))
    BY <1>2, <1>7
  <2>4. CASE q.pc = "refetchPost"
    <3>1. RefetchPost(r)
      BY <2>4, WhichStep DEF InsertPost, LoadPost, UpdatePost, Audience, DeletePost, EmitEvent, At
    <3>2. PostById(q.post) # {}
      BY <2>2, <2>4 DEF Overtakes
    <3>3. /\ GoesOn(q, n) /\ n.pc = "audience" /\ n.row \in posts /\ n.row.id = i
          /\ n.row # Undefined /\ q.op = "updatePost"
      <4>1. /\ q.op = "updatePost" /\ GoesOn(q, n) /\ n.row \in posts /\ n.row.id = q.post
            /\ n.row # Undefined /\ (n = Idle \/ n.pc = "audience")
        BY <2>1, <3>1, <3>2, RefetchEffect
      <4>2. n.op = "updatePost" /\ n.pc \in Steps
        BY <4>1 DEF GoesOn, Request
      <4>3. n # Idle
        <5>1. Idle.pc = "idle" /\ "idle" \notin Steps
          BY DEF Idle, Steps
        <5> HIDE DEF Idle
        <5> QED BY <4>2, <5>1
      <4> QED BY <2>1, <4>1, <4>3
    <3>4. Now(i) <=> Vis(n.row)
      <4> DEFINE w == n.row
      <4>1. w \in posts /\ w.id = i
        BY <3>3
      <4> HIDE DEF w
      <4>2. Now(i) <=> Vis(w)
        BY <4>1, OneInTable
      <4> QED BY <4>2 DEF w
    <3>5. Vis(q.found) \/ Now(i)
      BY <2>3, <2>4 DEF TellsAs
    <3>6. TellsAs(n, i)
      BY <2>1, <3>3, <3>4, <3>5 DEF TellsAs, GoesOn
    <3> QED BY <1>0, <3>6, TellsThen DEF Promised
  <2>5. CASE q.pc = "audience"
    <3>1. Audience(r)
      BY <2>5, WhichStep DEF InsertPost, LoadPost, UpdatePost, RefetchPost, DeletePost,
              EmitEvent, At
    <3> DEFINE to == UpdateAudience(q.found, q.row) \ {q.user}
    <3>2. /\ q.op = "updatePost"
          /\ Vis(q.found) \/ (q.row # Undefined /\ Vis(q.row))
      BY <2>3, <2>5 DEF TellsAs, Rereads
    <3>3. Me \in to
      <4> DEFINE f == q.found
                 w == q.row
      <4>1. /\ f \in Post /\ f.author # Me /\ w \in Post \cup {Undefined}
            /\ w # Undefined => w.author = f.author
            /\ Vis(f) \/ (w # Undefined /\ Vis(w))
        BY <2>1, <3>2
      <4> HIDE DEF f, w
      <4>2. Me \in UpdateAudience(f, w) \ {f.author}
        BY <4>1, UpdateSees
      <4> QED BY <2>1, <4>2 DEF f, w
    <3>4. IF q.op # "deletePost" /\ ~TakesFindFriends(q)
            THEN n = Idle /\ \E m : wire' = {m} /\ Told(q, m, to)
            ELSE /\ GoesOn(q, n) /\ n.row = q.row /\ n.to = to /\ wire' = {}
                 /\ n.pc = IF q.op = "deletePost" THEN "deletePost" ELSE "emit"
      BY <3>1, <3>2, AudienceEffect
    <3> HIDE DEF to
    <3>5. CASE ~TakesFindFriends(q)
      <4>1. PICK m : wire' = {m} /\ Told(q, m, to)
        BY <3>2, <3>4, <3>5
      <4>2. q.row # Undefined
        <5>1. q.row \in posts
          BY <2>2, <2>5, <3>2 DEF Overtakes
        <5> QED BY <5>1, OneInTable
      <4>3. m.kind = "post:updated" /\ m.carries # Undefined /\ m.about.id = i /\ Me \in m.to
        BY <2>1, <3>2, <3>3, <4>1, <4>2 DEF Told, EventOf
      <4> QED BY <4>1, <4>3 DEF Rewrites, Tidings
    <3>6. CASE TakesFindFriends(q)
      <4>1. GoesOn(q, n) /\ n.to = to /\ n.pc = "emit"
        BY <3>2, <3>4, <3>6
      <4>2. TellsAs(n, i)
        BY <2>1, <3>2, <3>3, <4>1 DEF TellsAs, GoesOn
      <4> QED BY <1>0, <4>2, TellsThen DEF Promised
    <3> QED BY <3>5, <3>6
  <2>6. CASE q.pc = "emit"
    <3>1. EmitEvent(r)
      BY <2>6, WhichStep DEF InsertPost, LoadPost, UpdatePost, RefetchPost, DeletePost, Audience, At
    <3>2. q.op \in {"updatePost", "deletePost"} /\ Me \in q.to
      BY <2>3, <2>6 DEF TellsAs, Rereads
    <3>3. PICK m : wire' = {m} /\ Told(q, m, q.to)
      BY <3>1, EmitEffect
    <3>4. q.op = "updatePost" => q.row # Undefined
      <4>1. q.op = "updatePost" => q.row \in posts
        BY <2>2, <2>6 DEF Overtakes
      <4> QED BY <4>1, OneInTable
    <3>5. /\ m.about.id = i /\ Me \in m.to
          /\ \/ m.kind = "post:deleted"
             \/ m.kind = "post:updated" /\ m.carries # Undefined
      BY <2>1, <3>2, <3>3, <3>4 DEF Told, EventOf
    <3> QED BY <3>3, <3>5 DEF Rewrites, Tidings
  <2> QED BY <2>1, <2>4, <2>5, <2>6
<1> QED BY <1>6, <1>7

\* A new post goes to whoever may see it.
LEMMA AnnouncesOn ==
  ASSUME PagesInv, NEW by, SignsTables(by), NEW r \in Requests, PostStep(r),
         NEW s \in Requests, NEW i, Announces(s, i), i = requests[r].post => ~Overtakes(r)
  PROVE  \/ Announces(s, i)'
         \/ \E m : wire' = {m} /\ Me \in m.to /\ m.kind = "post:created" /\ Tidings(m, i)
         \/ ~Now(i) /\ Kept(i)
<1> DEFINE q == requests[r]
           n == requests'[r]
<1>1. CASE s # r
  <2>1. requests'[s] = requests[s]
    BY <1>1, OthersStay
  <2> QED BY <2>1 DEF Announces, Mine
<1>2. CASE s = r
  <2>1. /\ q.pc \in {"audience", "emit"} /\ q.user # Me /\ q.post = i /\ q.op = "createPost"
        /\ q.pc = "emit" => Me \in q.to
    BY <1>2 DEF Announces, Mine
  <2>2. /\ q.found \in Post /\ q.found.id = i /\ q.found.author = q.user /\ SignsRequest(by, q)
    BY <2>1, KnowsPost
  <2>3. q.row = q.found /\ q.row \in posts
    BY <1>2, <2>1, <2>2 DEF SignsRequest, Overtakes
  <2>4. CASE q.pc = "audience"
    <3>1. Audience(r)
      BY <2>4, WhichStep DEF InsertPost, LoadPost, UpdatePost, RefetchPost, DeletePost,
              EmitEvent, At
    <3> DEFINE to == PostAudience(q.found) \ {q.user}
    <3>2. /\ posts' = posts
          /\ IF q.op # "deletePost" /\ ~TakesFindFriends(q)
               THEN n = Idle /\ \E m : wire' = {m} /\ Told(q, m, to)
               ELSE /\ GoesOn(q, n) /\ n.row = q.row /\ n.to = to /\ wire' = {}
                    /\ n.pc = IF q.op = "deletePost" THEN "deletePost" ELSE "emit"
      BY <2>1, <3>1, AudienceEffect
    <3>3. CASE Me \notin to
      <4> DEFINE f == q.found
      <4>1. f \in Post /\ f.author = q.user /\ q.user # Me /\ f \in posts /\ f.id = i
        BY <2>1, <2>2, <2>3
      <4>2. Me \notin PostAudience(f) \ {q.user}
        BY <3>3
      <4> HIDE DEF f
      <4>3. ~Vis(f)
        BY <4>1, <4>2, AudienceSees
      <4>4. ~Now(i)
        BY <4>1, <4>3, OneInTable
      <4> QED BY <3>2, <4>4 DEF Kept
    <3>4. CASE Me \in to
      <4> HIDE DEF to
      <4>1. CASE ~TakesFindFriends(q)
        <5>1. PICK m : wire' = {m} /\ Told(q, m, to)
          BY <2>1, <3>2, <4>1
        <5>2. m.kind = "post:created" /\ m.about.id = i /\ Me \in m.to
          BY <2>1, <2>2, <3>4, <5>1 DEF Told, EventOf
        <5> QED BY <5>1, <5>2 DEF Tidings
      <4>2. CASE TakesFindFriends(q)
        <5>1. GoesOn(q, n) /\ n.to = to /\ n.pc = "emit"
          BY <2>1, <3>2, <4>2
        <5> QED BY <1>2, <2>1, <3>4, <5>1 DEF Announces, Mine, GoesOn
      <4> QED BY <4>1, <4>2
    <3> QED BY <3>3, <3>4
  <2>5. CASE q.pc = "emit"
    <3>1. EmitEvent(r)
      BY <2>5, WhichStep DEF InsertPost, LoadPost, UpdatePost, RefetchPost, DeletePost, Audience, At
    <3>2. PICK m : wire' = {m} /\ Told(q, m, q.to)
      BY <3>1, EmitEffect
    <3>3. m.kind = "post:created" /\ m.about.id = i /\ Me \in m.to
      BY <2>1, <2>2, <2>5, <3>2 DEF Told, EventOf
    <3> QED BY <3>2, <3>3 DEF Tidings
  <2> QED BY <2>1, <2>4, <2>5
<1> QED BY <1>1, <1>2

LEMMA NewAnnounced ==
  ASSUME PagesInv, NEW by, SignsTables(by), NEW r \in Requests, InsertPost(r), ~Mine(r),
         NEW i, i = nextId
  PROVE  Announces(r, i)'
<1>1. PostStep(r)
  BY DEF PostStep
<1>2. SignsRequest(by, requests[r])
  BY <1>1, AtWork DEF SignsTables
<1>3. /\ requests'[r].pc = "audience" /\ requests'[r].op = "createPost"
      /\ requests'[r].user = requests[r].user /\ requests'[r].post = nextId
  BY <1>2, InsertEffect
<1> QED BY <1>3 DEF Announces, Mine

-----------------------------------------------------------------------------
(* What waits in the socket.                                               *)

SayAll(box) ==
  \A k \in DOMAIN box : Reliable(box[k]) =>
    \/ Promised(box[k].about.id)
    \/ \E j \in DOMAIN box : k < j /\ Rewrites(box[j]) /\ Tidings(box[j], box[k].about.id)
    \/ Says(box[k])

LEMMA SayAllThen == ASSUME NEW box, box = inbox', SayAll(box)' PROVE EventsSay'
<1>1. ASSUME NEW k \in DOMAIN inbox', Reliable(inbox[k])'
      PROVE  (\/ Promised(inbox[k].about.id)
              \/ \E j \in DOMAIN inbox :
                   k < j /\ Rewrites(inbox[j]) /\ Tidings(inbox[j], inbox[k].about.id)
              \/ Says(inbox[k]))'
  <2> DEFINE m == box[k]
  <2>1. m = inbox'[k]
    OBVIOUS
  <2>2. Reliable(m)'
    BY <1>1, <2>1 DEF Reliable
  <2>3. \/ Promised(m.about.id)'
        \/ \E j \in DOMAIN box : k < j /\ Rewrites(box[j]) /\ Tidings(box[j], m.about.id)
        \/ Says(m)'
    BY <2>2 DEF SayAll, Rewrites, Tidings
  <2> HIDE DEF m
  <2>4. Promised(m.about.id)' => Promised(inbox[k].about.id)'
    BY <2>1 DEF Promised, Tells, Mine
  <2>5. Says(m)' => Says(inbox[k])'
    BY <2>1 DEF Says, Now, PostById, Vis, InScope, BlockedPair
  <2>6. ASSUME NEW j \in DOMAIN box, k < j, Rewrites(box[j]), Tidings(box[j], m.about.id)
        PROVE  (\E e \in DOMAIN inbox :
                  k < e /\ Rewrites(inbox[e]) /\ Tidings(inbox[e], inbox[k].about.id))'
    BY <2>1, <2>6 DEF Rewrites, Tidings
  <2> QED BY <2>3, <2>4, <2>5, <2>6
<1> QED BY <1>1 DEF EventsSay

LEMMA SayAllNow == EventsSay => SayAll(inbox)
  BY DEF EventsSay, SayAll

LEMMA ComingThen ==
  ASSUME NEW i, NEW k \in DOMAIN inbox', NEW m, m = inbox'[k]
  PROVE  /\ Rewrites(m) /\ Tidings(m, i) => Coming(i)'
         /\ m.kind = "post:created" /\ Tidings(m, i) => Announced(i)' /\ Creating(i)'
  BY DEF Coming, Announced, Creating, Rewrites, Tidings

LEMMA BoxGrown ==
  ASSUME NEW box \in Seq(Event), NEW m \in Event
  PROVE  LET n == Len(box) + 1
             b == Append(box, m)
         IN /\ \A k \in DOMAIN box : k \in DOMAIN b /\ b[k] = box[k] /\ k < n
            /\ n \in DOMAIN b /\ b[n] = m
            /\ \A k \in DOMAIN b : k \in DOMAIN box \/ k = n
<1>1. Len(box) \in Nat /\ DOMAIN box = 1..Len(box)
  BY LenProperties
<1>2. /\ Append(box, m) \in Seq(Event) /\ Len(Append(box, m)) = Len(box) + 1
      /\ \A k \in 1..Len(box) : Append(box, m)[k] = box[k]
      /\ Append(box, m)[Len(box) + 1] = m
  BY AppendProperties
<1>3. DOMAIN Append(box, m) = 1..(Len(box) + 1)
  BY <1>2, LenProperties
<1> QED BY <1>1, <1>2, <1>3

LEMMA BoxTail ==
  ASSUME NEW box \in Seq(Event), box # <<>>
  PROVE  /\ 1 \in DOMAIN box /\ Head(box) = box[1]
         /\ \A k \in DOMAIN Tail(box) :
              k \in Nat /\ k + 1 \in DOMAIN box /\ Tail(box)[k] = box[k + 1]
         /\ \A k \in DOMAIN box : k = 1 \/ (k - 1 \in DOMAIN Tail(box) /\ k \in Nat /\ 1 < k
                                              /\ Tail(box)[k - 1] = box[k])
<1>1. Len(box) \in Nat \ {0} /\ DOMAIN box = 1..Len(box)
  BY EmptySeq, LenProperties
<1>2. Head(box) = box[1] /\ 1 \in DOMAIN box
  BY <1>1
<1>3. /\ Tail(box) \in Seq(Event) /\ Len(Tail(box)) = Len(box) - 1
      /\ \A i \in 1..Len(Tail(box)) : Tail(box)[i] = box[i + 1]
  BY HeadTailProperties
<1>4. DOMAIN Tail(box) = 1..(Len(box) - 1)
  BY <1>3, LenProperties
<1>5. \A k \in DOMAIN Tail(box) : k \in Nat /\ k + 1 \in DOMAIN box /\ Tail(box)[k] = box[k + 1]
  BY <1>1, <1>3, <1>4
<1>6. ASSUME NEW k \in DOMAIN box, k # 1
      PROVE  k - 1 \in DOMAIN Tail(box) /\ k \in Nat /\ 1 < k /\ Tail(box)[k - 1] = box[k]
  <2>1. k - 1 \in DOMAIN Tail(box) /\ k \in Nat /\ 1 < k /\ (k - 1) + 1 = k
    BY <1>1, <1>4, <1>6
  <2> QED BY <1>5, <2>1
<1> QED BY <1>2, <1>5, <1>6

\* What a step sends to Me waits in the socket then.
LEMMA BoxServed ==
  ASSUME PagesInv, NEW by, SignsTables(by), NEW r \in Requests, ServeRequest(r)
  PROVE  /\ inbox \in Seq(Event)
         /\ \/ inbox' = inbox
            \/ \E m \in Event : wire' = {m} /\ Me \in m.to /\ inbox' = Append(inbox, m)
                                /\ PostEvent(m, nextId')
         /\ \A m : wire' = {m} /\ Me \in m.to => m \in Event /\ inbox' = Append(inbox, m)
         /\ \A k \in DOMAIN inbox : k \in DOMAIN inbox' /\ inbox'[k] = inbox[k]
<1>1. PostStep(r) /\ SignsRequest(by, requests[r])
  BY AtWork DEF ServeRequest, SignsTables
<1>2. wire' = {} \/ \E m : wire' = {m}
  BY <1>1, OneTold
<1>3. inbox \in Seq(Event)
  BY DEF PagesInv, PageSound, Arriving
<1>4. \A m \in wire' : m \in Event /\ PostEvent(m, nextId')
  BY <1>1, StepServes DEF Served, PostEvent, Event
<1>5. ASSUME NEW m, wire' = {m}, Me \in m.to PROVE m \in Event /\ inbox' = Append(inbox, m)
  <2>1. (CHOOSE e \in wire' : TRUE) = m
    BY <1>5
  <2> QED BY <1>4, <1>5, <2>1 DEF ServeRequest
<1>6. ASSUME ~\E m \in wire' : Me \in m.to PROVE inbox' = inbox
  BY <1>6 DEF ServeRequest
<1>7. \/ inbox' = inbox
      \/ \E m \in Event : wire' = {m} /\ Me \in m.to /\ inbox' = Append(inbox, m)
                          /\ PostEvent(m, nextId')
  BY <1>2, <1>4, <1>5, <1>6
<1>8. \A k \in DOMAIN inbox : k \in DOMAIN inbox' /\ inbox'[k] = inbox[k]
  BY <1>3, <1>7, BoxGrown
<1> QED BY <1>3, <1>5, <1>7, <1>8

\* The event carries its post, unless it says that the post has gone.
Whole(m) == m.kind # "post:deleted" => m.carries # Undefined /\ m.carries.id = m.about.id

LEMMA ReliableWhole ==
  ASSUME NEW by, NEW m, NEW n, SignsEvent(by, m, n), PostEvent(m, n), Reliable(m)
  PROVE  Whole(m)
  BY DEF Whole, SignsEvent, PostEvent, Reliable

LEMMA SaysKept ==
  ASSUME UNCHANGED <<friends, blocked>>, NEW m, Whole(m), Kept(m.about.id), Says(m)
  PROVE  Says(m)'
<1>1. Vis(m.carries)' <=> Vis(m.carries)
  BY VisRests
<1>2. Now(m.about.id)' <=> Now(m.about.id)
  BY NowKept
<1>3. m.kind # "post:deleted" => (m.carries \in posts' <=> m.carries \in posts)
  BY DEF Whole, Kept
<1> QED BY <1>1, <1>2, <1>3 DEF Says

\* A post that is not, and has not come, for Me to see.
LEMMA SaysUnseen ==
  ASSUME PagesInv, UNCHANGED <<friends, blocked>>, NEW m, Whole(m), Says(m),
         ~Now(m.about.id), ~Now(m.about.id)'
  PROVE  Says(m)'
<1>1. Vis(m.carries)' <=> Vis(m.carries)
  BY VisRests
<1>2. m.kind # "post:deleted" => ~Vis(m.carries)
  <2>1. ASSUME m.kind # "post:deleted", Vis(m.carries) PROVE FALSE
    <3>1. m.carries \in posts /\ m.carries.id = m.about.id
      BY <2>1 DEF Says, Whole
    <3>2. Now(m.carries.id)
      BY <2>1, <3>1, OneInTable
    <3> QED BY <3>1, <3>2
  <2> QED BY <2>1
<1> QED BY <1>1, <1>2 DEF Says

\* What is told is of the request's post.
LEMMA ToldOf ==
  ASSUME PagesInv, NEW by, SignsTables(by), NEW r \in Requests, PostStep(r), NEW m, wire' = {m}
  PROVE  LET q == requests[r] IN
         /\ q.pc \in {"audience", "emit"} /\ posts' = posts
         /\ q.op \in {"createPost", "updatePost", "deletePost"}
         /\ q.op = "deletePost" => q.pc = "emit"
         /\ m.about.id = q.post /\ m.carries = q.row /\ m.kind = EventOf(q.op)
<1> DEFINE q == requests[r]
<1>1. SignsRequest(by, q) /\ UNCHANGED <<friends, blocked>>
  BY AtWork DEF SignsTables, relations
<1>2. Audience(r) \/ EmitEvent(r)
  <2>1. InsertPost(r) \/ LoadPost(r) \/ UpdatePost(r) \/ RefetchPost(r) \/ DeletePost(r)
        => wire' = {}
    BY <1>1, InsertEffect, LoadEffect, UpdateEffect, RefetchEffect, DeleteEffect
  <2> QED BY <2>1, WhichStep
<1>3. /\ q.pc \in {"audience", "emit"} /\ posts' = posts /\ \E to : Told(q, m, to)
      /\ q.op = "deletePost" => q.pc = "emit"
  <2>1. CASE Audience(r)
    <3>1. /\ q.pc = "audience" /\ posts' = posts
          /\ q.op # "deletePost"
          /\ \E e, to : wire' = {e} /\ Told(q, e, to)
      BY <2>1, AudienceEffect
    <3> QED BY <3>1
  <2>2. CASE EmitEvent(r)
    BY <2>2, EmitEffect
  <2> QED BY <1>2, <2>1, <2>2
<1>4. q.found.id = q.post /\ q.op \in {"createPost", "updatePost", "deletePost"}
  <2>1. Posting(q, nextId)
    BY AtWork
  <2> QED BY <1>3, <2>1, KnowsPost DEF Posting
<1> QED BY <1>3, <1>4 DEF Told

\* What the service tells is so, unless another write has come between.
LEMMA ToldSays ==
  ASSUME PagesInv, Warned, NEW by, SignsTables(by), NEW r \in Requests, PostStep(r),
         NEW m, wire' = {m}, ~Overtakes(r), m.kind = "post:updated" => m.carries # Undefined
  PROVE  Says(m)'
<1> DEFINE q == requests[r]
<1>1. UNCHANGED <<friends, blocked>>
  BY AtWork DEF relations
<1>3. /\ q.pc \in {"audience", "emit"} /\ posts' = posts
      /\ q.op = "deletePost" => q.pc = "emit"
      /\ q.op \in {"createPost", "updatePost", "deletePost"}
      /\ m.about.id = q.post /\ m.carries = q.row /\ m.kind = EventOf(q.op)
  BY ToldOf
<1>4. /\ q.found \in Post /\ q.found.id = q.post /\ q.row \in Post \cup {Undefined}
      /\ q.row # Undefined => q.row.id = q.post
  BY <1>3, KnowsPost
<1>6. CASE q.op = "deletePost"
  <2>1. PostById(q.post) = {} /\ m.kind = "post:deleted"
    BY <1>3, <1>6 DEF Warned, EventOf
  <2>2. Says(m)
    BY <1>3, <2>1 DEF Says, Now
  <2>3. Whole(m) /\ Kept(m.about.id)
    BY <1>3, <2>1 DEF Whole, Kept
  <2> QED BY <1>1, <2>2, <2>3, SaysKept
<1>7. CASE q.op # "deletePost"
  <2> DEFINE w == q.row
  <2>1. w \in posts
    BY <1>3, <1>7 DEF Overtakes
  <2>2. w # Undefined /\ w.id = q.post
    BY <1>4, <2>1, OneInTable
  <2>3. m.carries = w /\ m.about.id = w.id /\ m.kind # "post:deleted"
    BY <1>3, <1>7, <2>2 DEF EventOf
  <2> HIDE DEF w
  <2>4. Now(w.id) <=> Vis(w)
    BY <2>1, OneInTable
  <2>5. Says(m)
    BY <2>1, <2>3, <2>4 DEF Says
  <2>6. Whole(m) /\ Kept(m.about.id)
    BY <1>3, <2>2, <2>3 DEF Whole, Kept
  <2> QED BY <1>1, <2>5, <2>6, SaysKept
<1> QED BY <1>6, <1>7

\* Somebody's event is somebody else's post, numbered before now.
LEMMA FromOthers ==
  ASSUME NEW by, SignsBox(by, inbox, nextId), PagesInv, NEW k \in DOMAIN inbox,
         inbox[k].kind # "friends"
  PROVE  /\ SignsEvent(by, inbox[k], nextId) /\ PostEvent(inbox[k], nextId)
         /\ by[inbox[k].about.id] # Me /\ inbox[k].about.id # nextId
<1>1. SignsEvent(by, inbox[k], nextId) /\ PostEvent(inbox[k], nextId)
  BY DEF SignsBox, PagesInv, PageSound, Arriving
<1>2. nextId \in Nat /\ inbox[k].about.id < nextId
  BY <1>1, NextIdIsNat DEF PagesInv, SignsEvent
<1>3. inbox[k].about.id # nextId
  BY <1>2
<1> QED BY <1>1, <1>3 DEF SignsEvent

LEMMA ServedSays ==
  ASSUME PagesInv, Warned, EventsSay, NEW by, SignsTables(by), SignsBox(by, inbox, nextId),
         NEW r \in Requests, ServeRequest(r)
  PROVE  EventsSay'
<1> DEFINE q == requests[r]
<1>0. PostStep(r) /\ UNCHANGED <<friends, blocked>>
  BY AtWork DEF ServeRequest, relations
<1>1. untold' = IF Overtakes(r) THEN untold \cup {q.post} ELSE untold
  BY DEF ServeRequest
<1> SUFFICES ASSUME NEW box, box = inbox' PROVE SayAll(box)'
  BY SayAllThen
<1>2. ASSUME NEW k \in DOMAIN box, NEW m, m = box[k], NEW i, i = m.about.id, Reliable(m)'
      PROVE  \/ Promised(i)'
             \/ \E j \in DOMAIN box : k < j /\ Rewrites(box[j]) /\ Tidings(box[j], i)
             \/ Says(m)'
  <2>1. i \notin untold' /\ m.kind # "friends" /\ (m.kind = "post:updated" => m.carries # Undefined)
    BY <1>2 DEF Reliable
  <2>2. i \notin untold /\ (i = q.post => ~Overtakes(r))
    BY <1>1, <2>1
  <2>3. CASE k \in DOMAIN inbox
    <3>1. m = inbox[k]
      BY <1>2, <2>3, BoxServed
    <3>2. Reliable(m)
      BY <1>2, <2>1, <2>2 DEF Reliable
    <3>3. \/ Promised(i)
          \/ \E j \in DOMAIN inbox : k < j /\ Rewrites(inbox[j]) /\ Tidings(inbox[j], i)
          \/ Says(m)
      BY <1>2, <2>3, <3>1, <3>2, SayAllNow DEF SayAll
    <3>4. SignsEvent(by, m, nextId) /\ PostEvent(m, nextId) /\ by[i] # Me /\ i # nextId
      BY <1>2, <2>1, <2>3, <3>1, FromOthers
    <3>5. Whole(m)
      BY <3>2, <3>4, ReliableWhole
    <3>6. CASE Promised(i)
      <4>1. Promised(i)' \/ \E e : wire' = {e} /\ Me \in e.to /\ Rewrites(e) /\ Tidings(e, i)
        BY <1>0, <2>2, <3>6, TellsOn
      <4>2. ASSUME NEW e, wire' = {e}, Me \in e.to, Rewrites(e), Tidings(e, i)
            PROVE  \E j \in DOMAIN box : k < j /\ Rewrites(box[j]) /\ Tidings(box[j], i)
        <5>1. e \in Event /\ box = Append(inbox, e) /\ inbox \in Seq(Event)
          BY <1>2, <4>2, BoxServed
        <5> DEFINE j == Len(inbox) + 1
        <5>2. k < j /\ j \in DOMAIN box /\ box[j] = e
          BY <2>3, <5>1, BoxGrown
        <5> QED BY <4>2, <5>2
      <4> QED BY <4>1, <4>2
    <3>7. CASE \E j \in DOMAIN inbox : k < j /\ Rewrites(inbox[j]) /\ Tidings(inbox[j], i)
      BY <1>2, <3>7, BoxServed
    <3>8. CASE Says(m)
      <4>1. CASE Kept(i)
        BY <1>0, <1>2, <3>5, <3>8, <4>1, SaysKept
      <4>2. CASE ~Kept(i) /\ (Now(i) \/ Now(i)')
        <5>1. i = q.post
          BY <1>0, <3>4, <4>2, Changes
        <5>2. Tells(r, i)'
          BY <1>0, <2>2, <3>4, <4>2, <5>1, ChangeTold
        <5> QED BY <5>2 DEF Promised
      <4>3. CASE ~Now(i) /\ ~Now(i)'
        BY <1>0, <1>2, <3>5, <3>8, <4>3, SaysUnseen
      <4> QED BY <4>1, <4>2, <4>3
    <3> QED BY <3>3, <3>6, <3>7, <3>8
  <2>4. CASE k \notin DOMAIN inbox
    <3>1. PICK e \in Event : wire' = {e} /\ Me \in e.to /\ box = Append(inbox, e)
      BY <1>2, <2>4, BoxServed
    <3>2. m = e
      BY <1>2, <2>4, <3>1, BoxServed, BoxGrown
    <3>4. e.about.id = q.post
      BY <1>0, <3>1, ToldOf
    <3>5. ~Overtakes(r)
      BY <1>2, <2>2, <3>2, <3>4
    <3> QED BY <1>0, <2>1, <3>1, <3>2, <3>5, ToldSays
  <2> QED BY <2>3, <2>4
<1> QED BY <1>2 DEF SayAll

-----------------------------------------------------------------------------
(* What a list may be wrong about.                                         *)

LEMMA ShownThen ==
  ASSUME UNCHANGED <<friends, blocked, view>>, NEW p PROVE Shown(p)' <=> Shown(p)
  BY DEF Shown, Sought, Vis, InScope, BlockedPair

LEMMA RightKept ==
  ASSUME UNCHANGED <<friends, blocked, view>>, NEW S, NEW o, NEW i, Kept(i)
  PROVE  /\ Right(S, o, i) => Right(S, o, i)'
         /\ Placed(S, o, i) => Placed(S, o, i)'
<1>1. \A p : Shown(p)' <=> Shown(p)
  BY ShownThen
<1>2. Absent(S, i)' <=> Absent(S, i)
  BY DEF Absent
<1> QED BY <1>1, <1>2 DEF Right, Placed, Kept

LEMMA RightUnseen ==
  ASSUME NEW S, NEW o, NEW i
  PROVE  /\ Right(S, o, i) /\ ~Now(i) => Absent(S, i)
         /\ Absent(S, i) /\ ~Now(i)' => Right(S, o, i)'
         /\ Absent(S, i)' <=> Absent(S, i)
<1>1. Right(S, o, i) /\ ~Now(i) => Absent(S, i)
  BY DEF Right, Now, PostById, Absent, Shown
<1>2. Absent(S, i)' <=> Absent(S, i)
  BY DEF Absent
<1>3. ASSUME Absent(S, i), ~Now(i)' PROVE Right(S, o, i)'
  <2>1. \A p \in posts' : p.id = i => ~Shown(p)'
    BY <1>3 DEF Now, PostById, Shown
  <2>2. \A p \in S : p.id # i
    BY <1>3 DEF Absent
  <2> QED BY <2>1, <2>2 DEF Right
<1> QED BY <1>1, <1>2, <1>3

LEMMA CoveredThen ==
  ASSUME NEW S, NEW o, NEW i
  PROVE  /\ Right(S, o, i)' => Covered(S, o, i)'
         /\ OwnPending(S, o, i)' => Covered(S, o, i)'
         /\ i \notin untold' /\ Promised(i)' => Covered(S, o, i)'
         /\ i \notin untold' /\ Coming(i)' => Covered(S, o, i)'
         /\ i \notin untold' /\ Absent(S, i) /\ Creating(i)' => Covered(S, o, i)'
<1>1. Absent(S, i)' <=> Absent(S, i)
  BY DEF Absent
<1> QED BY <1>1 DEF Covered, OnItsWay

\* What waits for an answer is of a post of Me.
LEMMA OwnIsMine ==
  ASSUME PagesInv, Awaited, NEW by, SignsTables(by), SignsWriting(by, writing),
         NEW S, NEW o, NEW i, OwnPending(S, o, i)
  PROVE  by[i] = Me /\ i < nextId /\ writing \in Writing
<1>1. /\ writing \in Writing /\ Listing(writing.backup, nextId) /\ writing.row.id < nextId
      /\ writing # NotWriting
  BY DEF OwnPending, PagesInv, PageSound, Saving
<1>2. ASSUME Written(i) PROVE by[i] = Me /\ i < nextId
  <2>1. CASE writing.phase = "sent"
    <3>1. /\ writing.at \in Requests /\ Mine(writing.at) /\ requests[writing.at].post = i
          /\ requests[writing.at].pc \in {"refetchPost", "audience", "emit"}
      BY <1>1, <1>2, <2>1 DEF Written, Awaited
    <3> QED BY <3>1, KnowsPost DEF Mine
  <2>2. CASE writing.phase # "sent"
    <3>1. writing.row # Undefined /\ writing.row.id = i
      BY <1>2, <2>2 DEF Written
    <3> QED BY <1>1, <3>1 DEF SignsWriting
  <2> QED BY <2>1, <2>2
<1>3. ASSUME writing.op = "deletePost", Deleting(i) PROVE by[i] = Me /\ i < nextId
  <2>1. writing.row \in ToSet(writing.backup) /\ writing.row.id = i
    BY <1>1, <1>3 DEF SignsWriting, Deleting
  <2>2. writing.row \in Post
    BY <1>1, <2>1, InSet
  <2>3. writing.row # Undefined
    BY <2>2 DEF Post, Undefined, RowId
  <2> QED BY <1>1, <2>1, <2>3 DEF SignsWriting
<1> QED BY <1>1, <1>2, <1>3 DEF OwnPending

\* The answer to the page's own write.
LEMMA OurAnswer ==
  ASSUME PagesInv, NEW r \in Requests, ServeRequest(r), Ours(r)
  PROVE  /\ requests'[r] # Idle => writing' = writing
         /\ requests'[r] = Idle =>
              /\ writing' # NotWriting /\ writing'.op = writing.op /\ writing'.at = writing.at
              /\ writing'.phase = IF wire' # {} THEN "ok" ELSE "failed"
              /\ writing'.row = IF writing.op = "deletePost" THEN writing.row ELSE requests[r].row
<1> DEFINE ph == IF wire' # {} THEN "ok" ELSE "failed"
           row == IF writing.op = "deletePost" THEN writing.row ELSE requests[r].row
           w == [writing EXCEPT !.phase = ph, !.row = row]
<1>1. writing' = IF requests'[r] # Idle THEN writing ELSE w
  BY DEF ServeRequest
<1>2. writing \in Writing
  BY DEF Ours, PagesInv, PageSound, Saving
<1> HIDE DEF ph, row
<1>3. w.op = writing.op /\ w.phase = ph /\ w.row = row /\ w.at = writing.at
  BY <1>2 DEF Writing
<1>4. w # NotWriting
  <2>1. ph \in {"ok", "failed"} /\ NotWriting.phase = "none"
    BY DEF ph, NotWriting
  <2> HIDE DEF w, NotWriting
  <2> QED BY <1>3, <2>1
<1> HIDE DEF w
<1> QED BY <1>1, <1>3, <1>4 DEF ph, row

LEMMA NotOurs ==
  ASSUME PagesInv, NEW r \in Requests, ServeRequest(r), ~Ours(r)
  PROVE  /\ writing' = writing
         /\ writing # NotWriting /\ writing.phase = "sent" /\ writing.at \in Requests =>
              requests'[writing.at] = requests[writing.at]
<1>1. PostStep(r)
  BY DEF ServeRequest
<1>2. writing' = writing
  BY DEF ServeRequest
<1>3. ASSUME writing # NotWriting, writing.phase = "sent", writing.at \in Requests
      PROVE  requests'[writing.at] = requests[writing.at]
  <2>1. writing.at # r
    BY <1>3 DEF Ours
  <2> QED BY <1>1, <1>3, <2>1, OthersStay
<1> QED BY <1>2, <1>3

-----------------------------------------------------------------------------
(* A step of the service that the list can follow.                         *)

\* What was on its way is, or the post is not for Me.
LEMMA WayServed ==
  ASSUME PagesInv, Warned, NEW by, SignsTables(by), NEW r \in Requests, ServeRequest(r),
         ~Astray(r), NEW S, NEW o, NEW i, OnItsWay(S, i)
  PROVE  Covered(S, o, i)'
<1>1. PostStep(r) /\ UNCHANGED <<friends, blocked, view>> /\ untold' = untold /\ ~Overtakes(r)
  BY AtWork DEF ServeRequest, relations, Astray
<1>2. i \notin untold'
  BY <1>1 DEF OnItsWay
<1>3. CASE Promised(i)
  <2>1. Promised(i)' \/ \E e : wire' = {e} /\ Me \in e.to /\ Rewrites(e) /\ Tidings(e, i)
    BY <1>1, <1>2, <1>3, TellsOn
  <2>2. ASSUME NEW e, wire' = {e}, Me \in e.to, Rewrites(e), Tidings(e, i) PROVE Coming(i)'
    <3>1. e \in Event /\ inbox' = Append(inbox, e) /\ inbox \in Seq(Event)
      BY <2>2, BoxServed
    <3> DEFINE j == Len(inbox) + 1
    <3>2. j \in DOMAIN inbox' /\ inbox'[j] = e
      BY <3>1, BoxGrown
    <3> QED BY <2>2, <3>2, ComingThen
  <2> QED BY <1>2, <2>1, <2>2, CoveredThen
<1>4. CASE Coming(i)
  <2>1. PICK k \in DOMAIN inbox : Rewrites(inbox[k]) /\ Tidings(inbox[k], i)
    BY <1>4 DEF Coming
  <2>2. k \in DOMAIN inbox' /\ inbox'[k] = inbox[k]
    BY BoxServed
  <2>3. Coming(i)'
    BY <2>1, <2>2, ComingThen
  <2> QED BY <1>2, <2>3, CoveredThen
<1>5. CASE Absent(S, i) /\ Announced(i)
  <2>1. PICK k \in DOMAIN inbox : inbox[k].kind = "post:created" /\ Tidings(inbox[k], i)
    BY <1>5 DEF Announced
  <2>2. k \in DOMAIN inbox' /\ inbox'[k] = inbox[k]
    BY BoxServed
  <2>3. Creating(i)'
    BY <2>1, <2>2, ComingThen
  <2> QED BY <1>2, <1>5, <2>3, CoveredThen
<1>6. CASE Absent(S, i) /\ \E s \in Requests : Announces(s, i)
  <2>1. PICK s \in Requests : Announces(s, i)
    BY <1>6
  <2>2. \/ Announces(s, i)'
        \/ \E m : wire' = {m} /\ Me \in m.to /\ m.kind = "post:created" /\ Tidings(m, i)
        \/ ~Now(i) /\ Kept(i)
    BY <1>1, <2>1, AnnouncesOn
  <2>3. ASSUME Announces(s, i)' PROVE Creating(i)'
    BY <2>3 DEF Creating
  <2>4. ASSUME NEW m, wire' = {m}, Me \in m.to, m.kind = "post:created", Tidings(m, i)
        PROVE  Creating(i)'
    <3>1. m \in Event /\ inbox' = Append(inbox, m) /\ inbox \in Seq(Event)
      BY <2>4, BoxServed
    <3> DEFINE j == Len(inbox) + 1
    <3>2. j \in DOMAIN inbox' /\ inbox'[j] = m
      BY <3>1, BoxGrown
    <3> QED BY <2>4, <3>2, ComingThen
  <2>5. ASSUME ~Now(i), Kept(i) PROVE Right(S, o, i)'
    BY <1>1, <1>6, <2>5, NowKept, RightUnseen
  <2> QED BY <1>2, <1>6, <2>2, <2>3, <2>4, <2>5, CoveredThen
<1> QED BY <1>3, <1>4, <1>5, <1>6 DEF OnItsWay, Creating

\* A post of Me is for Me to see, whatever its visibility.
LEMMA OwnShown ==
  ASSUME PagesInv, NEW p, p.author = Me PROVE Vis(p) /\ (Shown(p) <=> Sought(view, Me))
<1>1. ~BlockedPair(Me, Me)
  BY OwnNotBlocked DEF PagesInv
<1>2. Vis(p)
  BY <1>1 DEF Vis, InScope
<1> QED BY <1>2 DEF Shown

LEMMA NewCovered ==
  ASSUME PagesInv, Awaited, \A i \in untold : i < nextId, NEW by, SignsTables(by),
         NEW r \in Requests, ServeRequest(r), ~Astray(r), InsertPost(r),
         NEW S, NEW o, NEW i, i = nextId, \A p \in S : p.id < nextId
  PROVE  Covered(S, o, i)'
<1> DEFINE q == requests[r]
           n == requests'[r]
<1>1. nextId \in Nat /\ untold' = untold
  BY NextIdIsNat DEF PagesInv, ServeRequest, Astray
<1>2. Absent(S, i) /\ i \notin untold'
  <2>1. ~(nextId < nextId)
    BY <1>1
  <2> QED BY <1>1, <2>1 DEF Absent
<1>3. CASE ~Mine(r)
  <2>1. Announces(r, i)'
    BY <1>3, NewAnnounced
  <2>2. Creating(i)'
    BY <2>1 DEF Creating
  <2> QED BY <1>2, <2>2, CoveredThen
<1>4. CASE Mine(r)
  <2>1. /\ q.pc = "insertPost" /\ q.op = "createPost" /\ n.pc = "audience" /\ n.post = i
        /\ posts' = posts \cup {n.found} /\ n.found.id = i
    BY InsertEffect, AtWork DEF ServeRequest, SignsTables
  <2>2. posts' # posts
    <3>1. n.found \notin posts
      <4>1. \A p \in posts : p.id # i
        BY <1>1, Named DEF PagesInv
      <4> QED BY <2>1, <4>1
    <3> QED BY <2>1, <3>1
  <2>3. Ours(r)
    BY <1>4, <2>2 DEF Astray, Unheard
  <2>4. /\ writing.op = "createPost" /\ writing.at = r /\ writing.phase = "sent"
        /\ writing # NotWriting
    BY <2>1, <2>3 DEF Ours, Awaited
  <2>5. n # Idle
    BY <2>1 DEF Idle
  <2>6. writing' = writing
    BY <2>3, <2>5, OurAnswer
  <2>7. Written(i)'
    BY <2>1, <2>4, <2>6 DEF Written
  <2>8. OwnPending(S, o, i)'
    BY <1>2, <2>4, <2>6, <2>7, RightUnseen DEF OwnPending
  <2> QED BY <2>8, CoveredThen
<1> QED BY <1>3, <1>4

\* What the list is right about stays so, or will be put right.
LEMMA RightServed ==
  ASSUME PagesInv, Warned, Awaited, NEW by, SignsTables(by), NEW r \in Requests, ServeRequest(r),
         ~Astray(r), NEW S, NEW o, NEW i, Right(S, o, i), ~(InsertPost(r) /\ i = nextId),
         Mine(r) /\ At(r, "deletePost") => Absent(S, requests[r].post)
  PROVE  Covered(S, o, i)'
<1> DEFINE q == requests[r]
           n == requests'[r]
<1>1. PostStep(r) /\ UNCHANGED <<friends, blocked, view>> /\ untold' = untold /\ ~Overtakes(r)
  BY AtWork DEF ServeRequest, relations, Astray
<1>2. CASE Kept(i)
  BY <1>1, <1>2, RightKept, CoveredThen
<1>3. CASE ~Kept(i)
  <2>1. (UpdatePost(r) \/ DeletePost(r)) /\ i = q.post
    BY <1>1, <1>3, Changes
  <2>2. q.pc \in {"updatePost", "deletePost"}
    BY <2>1 DEF UpdatePost, DeletePost, At
  <2>3. /\ SignsRequest(by, q) /\ q.found \in Post /\ q.found.id = i /\ by[i] = q.user
        /\ q.found.author = q.user /\ i < nextId /\ i \in RowId
    BY <2>1, <2>2, KnowsPost
  <2>4. q.found \in posts /\ i \notin untold /\ i # nextId
    <3>1. i # nextId
      BY <2>3, NextIdIsNat DEF PagesInv, RowId
    <3> QED BY <1>1, <2>1, <2>2, <3>1 DEF Overtakes, Astray
  <2>5. CASE q.user # Me
    <3>1. CASE Now(i) \/ Now(i)'
      <4>1. Tells(r, i)'
        BY <1>1, <1>3, <2>3, <2>4, <2>5, <3>1, ChangeTold
      <4>2. Promised(i)'
        BY <4>1 DEF Promised
      <4> QED BY <1>1, <2>4, <4>2, CoveredThen
    <3>2. CASE ~Now(i) /\ ~Now(i)'
      BY <3>2, RightUnseen, CoveredThen
    <3> QED BY <3>1, <3>2
  <2>6. CASE q.user = Me
    <3>1. posts' # posts
      BY <1>3 DEF Kept
    <3>2. Ours(r) /\ Mine(r)
      BY <2>6, <3>1 DEF Astray, Unheard, Mine
    <3>3. CASE DeletePost(r)
      <4>1. posts' = {p \in posts : p.id # q.post} /\ q.pc = "deletePost"
        BY <2>3, <3>3, DeleteEffect
      <4>2. ~Now(i)'
        BY <2>1, <4>1 DEF Now, PostById
      <4>3. Absent(S, i)
        BY <2>1, <3>2, <4>1 DEF At
      <4> QED BY <4>2, <4>3, RightUnseen, CoveredThen
    <3>4. CASE UpdatePost(r)
      <4> DEFINE New(p) == IF p.id = q.post THEN [p EXCEPT !.visibility = q.wish] ELSE p
                 f == q.found
      <4>1. /\ GoesOn(q, n) /\ n.pc = "refetchPost" /\ q.op = "updatePost"
            /\ posts' = {New(p) : p \in posts} \/ posts' = posts
        BY <2>3, <2>4, <3>4, UpdateEffect
      <4>2. posts' = {New(p) : p \in posts}
        BY <3>1, <4>1
      <4>0. PICK g : g = [f EXCEPT !.visibility = q.wish]
        OBVIOUS
      <4>3. g.id = i /\ g.author = Me
        BY <2>3, <2>6, <4>0 DEF Post
      <4>4. New(f) = g
        BY <2>1, <2>3, <4>0
      <4>5. \A p \in posts : New(p).id = p.id
        BY OneInTable DEF Post
      <4>6. \A p \in posts : p.id = i => p = f
        BY <2>3, <2>4, OneInTable
      <4> HIDE DEF New
      <4>7. \A p \in posts' : p.id = i => p = g
        BY <4>2, <4>4, <4>5, <4>6
      <4>8. g \in posts' /\ f \in posts /\ f.id = i /\ f.author = Me
        BY <2>3, <2>4, <2>6, <4>2, <4>4
      <4> HIDE DEF f
      <4>9. (Shown(f) <=> Sought(view, Me)) /\ (Shown(g) <=> Sought(view, Me))
        BY <4>3, <4>8, OwnShown
      <4>10. Shown(g)' <=> Shown(f)
        BY <1>1, <4>9, ShownThen
      <4>11. Absent(S, i)' <=> Absent(S, i)
        BY RightUnseen
      <4>12. Placed(S, o, i)'
        <5>1. /\ Shown(f) => f \in S \/ (i < o /\ Absent(S, i))
              /\ \A p \in S : p.id = i => p \in posts /\ Shown(p)
          BY <4>8 DEF Right
        <5>2. ~Absent(S, i) => Shown(f)
          BY <4>6, <5>1 DEF Absent
        <5>3. Shown(f) => ~Absent(S, i) \/ i < o
          BY <4>8, <5>1 DEF Absent
        <5> QED BY <4>3, <4>7, <4>8, <4>10, <4>11, <5>2, <5>3 DEF Placed
      <4>13. writing.op = "updatePost" /\ writing.at = r /\ writing.phase = "sent"
             /\ writing # NotWriting
        BY <3>2, <4>1 DEF Ours, Awaited
      <4>14. n # Idle
        BY <4>1 DEF Idle
      <4>15. writing' = writing
        BY <3>2, <4>14, OurAnswer
      <4>16. Written(i)'
        BY <2>1, <4>1, <4>13, <4>15 DEF Written, GoesOn
      <4>17. OwnPending(S, o, i)'
        BY <4>12, <4>13, <4>15, <4>16 DEF OwnPending
      <4> QED BY <4>17, CoveredThen
    <3> QED BY <2>1, <3>3, <3>4
  <2> QED BY <2>5, <2>6
<1> QED BY <1>2, <1>3

\* The answer that puts the list right is still to come.
LEMMA PendingServed ==
  ASSUME PagesInv, Warned, Awaited, NEW by, SignsTables(by), SignsWriting(by, writing),
         NEW r \in Requests, ServeRequest(r), ~Astray(r),
         NEW S, NEW o, NEW i, OwnPending(S, o, i),
         Mine(r) /\ At(r, "deletePost") => Absent(S, requests[r].post)
  PROVE  Covered(S, o, i)'
<1> DEFINE q == requests[r]
           n == requests'[r]
<1>1. PostStep(r) /\ UNCHANGED <<friends, blocked, view>> /\ untold' = untold /\ ~Overtakes(r)
  BY AtWork DEF ServeRequest, relations, Astray
<1>2. by[i] = Me /\ i < nextId /\ writing \in Writing /\ writing # NotWriting
  BY OwnIsMine DEF OwnPending
<1>3. Absent(S, i)' <=> Absent(S, i)
  BY RightUnseen
<1>4. CASE ~Ours(r)
  <2>1. /\ writing' = writing
        /\ writing.phase = "sent" => requests'[writing.at] = requests[writing.at]
    BY <1>2, <1>4, NotOurs DEF Awaited
  <2>2. Kept(i)
    <3> SUFFICES ASSUME ~Kept(i) PROVE FALSE
      OBVIOUS
    <3>1. i # nextId
      <4>1. nextId \in Nat
        BY NextIdIsNat DEF PagesInv
      <4> QED BY <1>2, <4>1
    <3>2. (UpdatePost(r) \/ DeletePost(r)) /\ i = q.post
      BY <1>1, <3>1, Changes
    <3>3. q.pc \in {"updatePost", "deletePost"}
      BY <3>2 DEF UpdatePost, DeletePost, At
    <3>4. q.user = Me
      BY <1>2, <3>2, <3>3, KnowsPost
    <3>5. posts' # posts
      BY DEF Kept
    <3> QED BY <1>4, <3>4, <3>5 DEF Astray, Unheard, Mine
  <2>3. Placed(S, o, i) => Placed(S, o, i)'
    BY <1>1, <2>2, RightKept
  <2>4. (Written(i) => Written(i)') /\ (Deleting(i) => Deleting(i)')
    BY <2>1 DEF Written, Deleting
  <2>5. OwnPending(S, o, i)'
    BY <1>3, <2>1, <2>3, <2>4 DEF OwnPending
  <2> QED BY <2>5, CoveredThen
<1>5. CASE Ours(r)
  <2>1. writing.at = r /\ writing.phase = "sent" /\ writing.op = q.op /\ Mine(r)
    BY <1>5 DEF Ours, Awaited
  <2>2. CASE writing.op # "deletePost"
    <3>1. Written(i) /\ q.post = i /\ q.pc \in {"refetchPost", "audience", "emit"}
      BY <2>1, <2>2 DEF OwnPending, Written
    <3>2. /\ SignsRequest(by, q) /\ q.found \in Post /\ q.row \in Post \cup {Undefined}
          /\ q.row # Undefined => q.row.id = i
      BY <3>1, KnowsPost
    <3>3. /\ posts' = posts
          /\ \/ n # Idle /\ n.post = i /\ n.pc \in {"audience", "emit"}
             \/ n = Idle /\ wire' # {} /\ q.pc \in {"audience", "emit"}
      <4>1. CASE q.pc = "refetchPost"
        <5>1. RefetchPost(r)
          BY <1>1, <4>1, WhichStep DEF InsertPost, LoadPost, UpdatePost, Audience, DeletePost,
             EmitEvent, At
        <5>2. PostById(q.post) # {}
          BY <1>1, <4>1 DEF Overtakes
        <5>3. posts' = posts /\ GoesOn(q, n) /\ (n = Idle \/ n.pc = "audience")
          BY <3>2, <5>1, <5>2, RefetchEffect
        <5>4. n # Idle
          <6>1. n.pc \in Steps
            BY <5>3 DEF GoesOn, Request
          <6>2. Idle.pc = "idle" /\ "idle" \notin Steps
            BY DEF Idle, Steps
          <6> HIDE DEF Idle
          <6> QED BY <6>1, <6>2
        <5> QED BY <3>1, <5>3, <5>4 DEF GoesOn
      <4>2. CASE q.pc = "audience"
        <5>1. Audience(r)
          BY <1>1, <4>2, WhichStep DEF InsertPost, LoadPost, UpdatePost, RefetchPost, DeletePost,
             EmitEvent, At
        <5>2. /\ posts' = posts
              /\ \/ n = Idle /\ \E m : wire' = {m}
                 \/ GoesOn(q, n) /\ n.pc = "emit"
          BY <2>1, <2>2, <5>1, AudienceEffect
        <5>3. GoesOn(q, n) /\ n.pc = "emit" => n # Idle
          BY DEF Idle
        <5> QED BY <3>1, <4>2, <5>2, <5>3 DEF GoesOn
      <4>3. CASE q.pc = "emit"
        <5>1. EmitEvent(r)
          BY <1>1, <4>3, WhichStep DEF InsertPost, LoadPost, UpdatePost, RefetchPost, DeletePost,
             Audience, At
        <5> QED BY <4>3, <5>1, EmitEffect
      <4> QED BY <3>1, <4>1, <4>2, <4>3
    <3>4. Written(i)' /\ writing'.op = writing.op /\ writing' # NotWriting
      <4>1. CASE n # Idle
        <5>1. writing' = writing
          BY <1>5, <4>1, OurAnswer
        <5> QED BY <1>2, <2>1, <3>3, <4>1, <5>1 DEF Written
      <4>2. CASE n = Idle
        <5>1. /\ writing' # NotWriting /\ writing'.op = writing.op
              /\ writing'.phase = "ok" /\ writing'.row = q.row
          BY <1>5, <2>2, <3>3, <4>2, OurAnswer
        <5>2. q.row \in posts
          BY <1>1, <2>1, <2>2, <3>3, <4>2 DEF Overtakes
        <5>3. q.row # Undefined
          BY <5>2, OneInTable
        <5> QED BY <3>2, <5>1, <5>3 DEF Written
      <4> QED BY <4>1, <4>2
    <3>5. Placed(S, o, i) => Placed(S, o, i)'
      BY <1>1, <3>3, RightKept DEF Kept
    <3>6. OwnPending(S, o, i)'
      BY <1>3, <2>2, <3>4, <3>5 DEF OwnPending
    <3> QED BY <3>6, CoveredThen
  <2>3. CASE writing.op = "deletePost"
    <3>1. /\ Deleting(i) /\ Absent(S, i) /\ q.post = i /\ writing.row.id = i
          /\ q.pc \in {"loadPost", "audience", "deletePost"}
      BY <1>2, <2>1, <2>3 DEF OwnPending, Deleting, Awaited
    <3>2. CASE q.pc = "deletePost"
      <4>1. DeletePost(r)
        BY <1>1, <3>2, WhichStep DEF InsertPost, LoadPost, UpdatePost, RefetchPost, EmitEvent,
           Audience, At
      <4>2. posts' = {p \in posts : p.id # q.post}
        BY <3>2, <4>1, KnowsPost, DeleteEffect
      <4>3. ~Now(i)'
        BY <3>1, <4>2 DEF Now, PostById
      <4> QED BY <3>1, <4>3, RightUnseen, CoveredThen
    <3>3. CASE q.pc # "deletePost"
      <4>1. (n = Idle /\ wire' = {}) \/ (n # Idle /\ n.pc \in {"audience", "deletePost"})
        <5>1. CASE q.pc = "loadPost"
          <6>1. LoadPost(r)
            BY <1>1, <5>1, WhichStep DEF InsertPost, DeletePost, UpdatePost, RefetchPost,
               EmitEvent, Audience, At
          <6>a. q.op # "updatePost"
            BY <2>1, <2>3
          <6>b. wire' = {}
            BY <6>1, LoadEffect
          <6>c. n = Idle \/ n.pc = IF q.op = "updatePost" THEN "updatePost" ELSE "audience"
            BY <6>1, LoadEffect
          <6>2. wire' = {} /\ (n = Idle \/ n.pc = "audience")
            BY <6>a, <6>b, <6>c
          <6> QED BY <6>2 DEF Idle
        <5>2. CASE q.pc = "audience"
          <6>1. Audience(r)
            BY <1>1, <5>2, WhichStep DEF InsertPost, LoadPost, UpdatePost, RefetchPost,
               DeletePost, EmitEvent, At
          <6>2. n.pc = "deletePost"
            BY <2>1, <2>3, <6>1, AudienceEffect
          <6> QED BY <6>2 DEF Idle
        <5> QED BY <3>1, <3>3, <5>1, <5>2
      <4>2. Deleting(i)' /\ writing'.op = writing.op /\ writing' # NotWriting
        <5>1. CASE n # Idle
          <6>1. writing' = writing
            BY <1>5, <5>1, OurAnswer
          <6> QED BY <1>2, <2>1, <3>1, <4>1, <5>1, <6>1 DEF Deleting
        <5>2. CASE n = Idle
          <6>1. /\ writing' # NotWriting /\ writing'.op = writing.op
                /\ writing'.phase = "failed" /\ writing'.row = writing.row
            BY <1>5, <2>3, <4>1, <5>2, OurAnswer
          <6> QED BY <3>1, <6>1 DEF Deleting
        <5> QED BY <5>1, <5>2
      <4>3. OwnPending(S, o, i)'
        BY <1>3, <2>3, <3>1, <4>2 DEF OwnPending
      <4> QED BY <4>3, CoveredThen
    <3> QED BY <3>2, <3>3
  <2> QED BY <2>2, <2>3
<1> QED BY <1>4, <1>5

LEMMA ServedCovered ==
  ASSUME PagesInv, Warned, Awaited, \A i \in untold : i < nextId,
         NEW by, SignsTables(by), SignsWriting(by, writing),
         NEW r \in Requests, ServeRequest(r), ~Astray(r),
         NEW S, NEW o, \A p \in S : p.id < nextId,
         Mine(r) /\ At(r, "deletePost") => Absent(S, requests[r].post),
         NEW i, Covered(S, o, i)
  PROVE  Covered(S, o, i)'
<1>1. CASE InsertPost(r) /\ i = nextId
  BY <1>1, NewCovered
<1>2. CASE ~(InsertPost(r) /\ i = nextId)
  BY <1>2, RightServed, PendingServed, WayServed DEF Covered
<1> QED BY <1>1, <1>2

-----------------------------------------------------------------------------
(* Whose answer is awaited, and whom a deletion will tell.                 *)

\* A request keeps its author, operation and post while it goes on.
LEMMA StepGoesOn ==
  ASSUME PagesInv, NEW by, SignsTables(by), NEW r \in Requests, PostStep(r)
  PROVE  LET q == requests[r]
             n == requests'[r]
         IN \/ n = Idle
            \/ /\ n.pc # "idle" /\ n.user = q.user /\ n.op = q.op
               /\ n.post = q.post \/ n.op = "createPost"
<1> DEFINE q == requests[r]
           n == requests'[r]
           Fine == \/ n = Idle
                   \/ /\ n.pc # "idle" /\ n.user = q.user /\ n.op = q.op
                      /\ n.post = q.post \/ n.op = "createPost"
<1>1. SignsRequest(by, q)
  BY AtWork DEF SignsTables
<1>2. ASSUME GoesOn(q, n) PROVE Fine
  <2>1. n.pc \in Steps
    BY <1>2 DEF GoesOn, Request
  <2>2. n.pc # "idle"
    BY <2>1 DEF Steps
  <2> QED BY <1>2, <2>2 DEF GoesOn
<1>3. ASSUME InsertPost(r) PROVE Fine
  <2>1. n.pc = "audience" /\ n.op = q.op /\ n.user = q.user /\ q.op = "createPost"
    BY <1>1, <1>3, InsertEffect
  <2> QED BY <2>1
<1>4. ASSUME LoadPost(r) PROVE Fine
  <2>1. \/ n = Idle
        \/ /\ n \in Request /\ n.op = q.op /\ n.user = q.user /\ n.post = q.post
    BY <1>4, LoadEffect
  <2>2. n \in Request => n.pc # "idle"
    BY DEF Request, Steps
  <2> QED BY <2>1, <2>2
<1>5. ASSUME UpdatePost(r) PROVE Fine
  <2>1. n = Idle \/ GoesOn(q, n)
    BY <1>1, <1>5, UpdateEffect
  <2> QED BY <1>2, <2>1
<1>6. ASSUME RefetchPost(r) PROVE Fine
  <2>1. n = Idle \/ GoesOn(q, n)
    BY <1>1, <1>6, RefetchEffect
  <2> QED BY <1>2, <2>1
<1>7. ASSUME Audience(r) PROVE Fine
  <2>1. n = Idle \/ GoesOn(q, n)
    BY <1>7, AudienceEffect
  <2> QED BY <1>2, <2>1
<1>8. ASSUME DeletePost(r) PROVE Fine
  <2>1. GoesOn(q, n)
    BY <1>1, <1>8, DeleteEffect
  <2> QED BY <1>2, <2>1
<1>9. ASSUME EmitEvent(r) PROVE Fine
  BY <1>9, EmitEffect
<1> QED BY <1>3, <1>4, <1>5, <1>6, <1>7, <1>8, <1>9, WhichStep

LEMMA AwaitedRests ==
  ASSUME Awaited,
         \/ writing' = NotWriting
         \/ writing' = writing /\ UNCHANGED requests
         \/ writing' # NotWriting /\ writing'.phase # "sent"
  PROVE  Awaited'
  BY DEF Awaited, At, Mine

LEMMA AwaitedReceive ==
  ASSUME PagesInv, Awaited, NEW r \in Requests, NEW op, NEW pc, NEW u, NEW i, NEW v,
         pc # "idle", Receive(r, op, pc, u, i, NoId, v, FALSE),
         \/ writing' = writing
         \/ \E row : /\ writing' = Write(op, r, row) /\ u = Me /\ op # "relate"
                     /\ op = "deletePost" => row.id = i
  PROVE  Awaited'
<1> DEFINE q == [op |-> op, pc |-> pc, user |-> u, post |-> i, comment |-> NoId, wish |-> v,
                 found |-> Undefined, row |-> Undefined, to |-> {}, barred |-> FALSE]
<1>1. requests' = [requests EXCEPT ![r] = q] /\ At(r, "idle")
  BY DEF Receive
<1>2. q.op = op /\ q.pc = pc /\ q.user = u /\ q.post = i
  OBVIOUS
<1> HIDE DEF q
<1>3. requests \in [Requests -> Request \cup {Idle}]
  BY DEF PagesInv, SharingInv, TypeOK
<1>4. requests'[r] = q /\ \A s \in Requests : s # r => requests'[s] = requests[s]
  BY <1>1, <1>3
<1>5. CASE writing' = writing
  <2>1. writing # NotWriting /\ writing.phase = "sent" =>
          writing.at # r /\ requests'[writing.at] = requests[writing.at]
    BY <1>1, <1>4 DEF Awaited
  <2> QED BY <1>5, <2>1 DEF Awaited, At, Mine
<1>6. CASE \E row : /\ writing' = Write(op, r, row) /\ u = Me /\ op # "relate"
                    /\ op = "deletePost" => row.id = i
  <2>1. PICK row : /\ writing' = Write(op, r, row) /\ u = Me /\ op # "relate"
                   /\ op = "deletePost" => row.id = i
    BY <1>6
  <2>2. writing'.op = op /\ writing'.at = r /\ writing'.row = row
    BY <2>1 DEF Write
  <2> QED BY <1>2, <1>4, <2>1, <2>2 DEF Awaited, At, Mine
<1> QED BY <1>5, <1>6

LEMMA AwaitedServed ==
  ASSUME PagesInv, Awaited, NEW by, SignsTables(by), NEW r \in Requests, ServeRequest(r)
  PROVE  Awaited'
<1> DEFINE q == requests[r]
           n == requests'[r]
<1>0. PostStep(r)
  BY DEF ServeRequest
<1>1. CASE ~Ours(r)
  <2>1. /\ writing' = writing
        /\ writing # NotWriting /\ writing.phase = "sent" =>
             requests'[writing.at] = requests[writing.at]
    BY <1>1, NotOurs DEF Awaited
  <2> QED BY <2>1 DEF Awaited, At, Mine
<1>2. CASE Ours(r) /\ n = Idle
  <2>1. writing' # NotWriting /\ writing'.phase = IF wire' # {} THEN "ok" ELSE "failed"
    BY <1>2, OurAnswer
  <2>2. writing'.phase # "sent"
    BY <2>1
  <2> QED BY <2>1, <2>2, AwaitedRests
<1>3. CASE Ours(r) /\ n # Idle
  <2>1. writing' = writing /\ writing # NotWriting /\ writing.phase = "sent" /\ writing.at = r
    BY <1>3, OurAnswer DEF Ours
  <2>2. /\ n.pc # "idle" /\ n.user = q.user /\ n.op = q.op
        /\ n.post = q.post \/ n.op = "createPost"
    BY <1>0, <1>3, StepGoesOn
  <2>3. /\ writing.op # "relate" /\ writing.at \in Requests /\ q.user = Me /\ q.op = writing.op
        /\ writing.op = "deletePost" => q.post = writing.row.id
    BY <2>1 DEF Awaited, Mine
  <2> QED BY <2>1, <2>2, <2>3 DEF Awaited, At, Mine
<1> QED BY <1>1, <1>2, <1>3

LEMMA AwaitedFails ==
  ASSUME PagesInv, Awaited, NEW r \in Requests, ServeFails(r) PROVE Awaited'
<1>1. requests' = [requests EXCEPT ![r] = Idle] /\ requests \in [Requests -> Request \cup {Idle}]
  BY DEF ServeFails, Fail, Respond, PagesInv, SharingInv, TypeOK
<1>2. CASE ~Ours(r)
  <2>1. writing' = writing
    BY <1>2 DEF ServeFails
  <2>2. writing # NotWriting /\ writing.phase = "sent" =>
          requests'[writing.at] = requests[writing.at]
    BY <1>1, <1>2 DEF Awaited, Ours
  <2> QED BY <2>1, <2>2 DEF Awaited, At, Mine
<1>3. CASE Ours(r)
  <2>1. writing' = [writing EXCEPT !.phase = "failed"] /\ writing \in Writing
    BY <1>3 DEF ServeFails, Ours, PagesInv, PageSound, Saving
  <2>2. writing'.phase = "failed"
    BY <2>1 DEF Writing
  <2> QED BY <2>2 DEF Awaited
<1> QED BY <1>2, <1>3

LEMMA AwaitedRelates ==
  ASSUME PagesInv, Awaited, NEW u, RelationChanges(u), writing' = writing PROVE Awaited'
<1>1. \A r \in Requests : SameRequest(requests[r], requests'[r])
                          \/ (requests'[r] = Idle /\ requests[r] = Idle)
  BY RelationRequests
<1>2. Idle.pc = "idle"
  BY DEF Idle
<1>3. \A r \in Requests : ~At(r, "idle") => SameRequest(requests[r], requests'[r])
  BY <1>1, <1>2 DEF At
<1> QED BY <1>3 DEF Awaited, At, Mine, SameRequest

WarnedOf(q) ==
  /\ q.pc = "emit" /\ q.op = "deletePost" => \A p \in posts : p.id # q.post
  /\ q.pc = "deletePost" /\ q.user # Me /\ q.post \notin untold /\ Vis(q.found) => Me \in q.to

LEMMA WarnedNow ==
  ASSUME Warned, NEW r \in Requests PROVE WarnedOf(requests[r])
  BY DEF Warned, WarnedOf, Mine, PostById

LEMMA WarnedThen ==
  ASSUME \A r \in Requests : \A q :
           q = requests'[r] /\ q.pc \in {"deletePost", "emit"} => WarnedOf(q)'
  PROVE  Warned'
<1> SUFFICES ASSUME NEW r \in Requests, (requests[r].pc \in {"deletePost", "emit"})'
             PROVE  (LET q == requests[r] IN
                    /\ q.pc = "emit" /\ q.op = "deletePost" => PostById(q.post) = {}
                    /\ /\ q.pc = "deletePost" /\ ~Mine(r) /\ q.post \notin untold
                       /\ Vis(q.found)
                       => Me \in q.to)'
  BY DEF Warned
<1>1. PICK q : q = requests'[r]
  OBVIOUS
<1>2. WarnedOf(q)'
  BY <1>1
<1> QED BY <1>1, <1>2 DEF WarnedOf, Mine, PostById, Vis, InScope, BlockedPair

LEMMA WarnedOfRests ==
  ASSUME UNCHANGED <<friends, blocked>>, NEW q, WarnedOf(q), untold \subseteq untold',
         \A p \in posts' : p \in posts \/ p.id # q.post \/ \E e \in posts : e.id = p.id
  PROVE  WarnedOf(q)'
<1>1. Vis(q.found)' <=> Vis(q.found)
  BY VisRests
<1> QED BY <1>1 DEF WarnedOf

\* The other requests are warned as they were.
LEMMA WarnedRests ==
  ASSUME Warned, UNCHANGED <<friends, blocked, posts>>, untold \subseteq untold',
         \A r \in Requests : requests'[r] = requests[r]
                             \/ requests'[r].pc \notin {"deletePost", "emit"}
  PROVE  Warned'
<1> SUFFICES ASSUME NEW r \in Requests, NEW q, q = requests'[r], q.pc \in {"deletePost", "emit"}
             PROVE  WarnedOf(q)'
  BY WarnedThen
<1>1. WarnedOf(q)
  BY WarnedNow
<1> QED BY <1>1, WarnedOfRests

LEMMA WarnedRelates ==
  ASSUME PagesInv, Warned, NEW u, RelationChanges(u), Doubt PROVE Warned'
<1>1. /\ posts' = posts
      /\ \A r \in Requests : SameRequest(requests[r], requests'[r])
                              \/ (requests'[r] = Idle /\ requests[r] = Idle)
  BY RelationRequests
<1> SUFFICES ASSUME NEW r \in Requests, NEW q, q = requests'[r], q.pc \in {"deletePost", "emit"}
             PROVE  WarnedOf(q)'
  BY WarnedThen
<1>2. Idle.pc = "idle"
  BY DEF Idle
<1>3. SameRequest(requests[r], q)
  BY <1>1, <1>2
<1>4. WarnedOf(requests[r])
  BY WarnedNow
<1>5. q.pc = "emit" /\ q.op = "deletePost" => \A p \in posts' : p.id # q.post
  BY <1>1, <1>3, <1>4 DEF SameRequest, WarnedOf
<1>6. q.pc = "deletePost" => q.post \in untold'
  BY <1>3 DEF SameRequest, Doubt, At
<1> QED BY <1>5, <1>6 DEF WarnedOf

LEMMA WarnedFails ==
  ASSUME PagesInv, Warned, NEW r \in Requests, ServeFails(r) PROVE Warned'
<1>1. /\ requests' = [requests EXCEPT ![r] = Idle]
      /\ requests \in [Requests -> Request \cup {Idle}] /\ Idle.pc = "idle"
      /\ UNCHANGED <<friends, blocked, posts>> /\ untold \subseteq untold'
  BY DEF ServeFails, Fail, Respond, PagesInv, SharingInv, TypeOK, Idle, relations, postTables
<1> HIDE DEF Idle
<1>2. \A s \in Requests : requests'[s] = requests[s] \/ requests'[s].pc = "idle"
  BY <1>1
<1> QED BY <1>1, <1>2, WarnedRests

LEMMA WarnedServed ==
  ASSUME PagesInv, Warned, NEW by, SignsTables(by), NEW r \in Requests, ServeRequest(r)
  PROVE  Warned'
<1> DEFINE w == requests[r]
           n == requests'[r]
<1>1. PostStep(r) /\ UNCHANGED <<friends, blocked>> /\ untold \subseteq untold' /\ nextId \in Nat
      /\ SignsRequest(by, w)
  BY AtWork DEF ServeRequest, relations, SignsTables
<1> SUFFICES ASSUME NEW s \in Requests, NEW q, q = requests'[s], q.pc \in {"deletePost", "emit"}
             PROVE  WarnedOf(q)'
  BY WarnedThen
<1>2. CASE s # r
  <2>1. q = requests[s]
    BY <1>1, <1>2, OthersStay
  <2>2. WarnedOf(q) /\ q.post < nextId
    BY <2>1, WarnedNow, KnowsPost
  <2>3. Kept(q.post) \/ \E p \in posts : p.id = q.post
    <3> SUFFICES ASSUME ~Kept(q.post) PROVE \E p \in posts : p.id = q.post
      OBVIOUS
    <3>1. (UpdatePost(r) \/ DeletePost(r)) /\ q.post = w.post
      BY <1>1, <2>2, Changes
    <3>2. CASE DeletePost(r)
      <4>1. posts' = {p \in posts : p.id # w.post}
        BY <1>1, <3>2, DeleteEffect
      <4> QED BY <3>1, <4>1 DEF Kept
    <3>3. CASE UpdatePost(r)
      <4>1. ASSUME PostById(w.post) = {} PROVE FALSE
        BY <3>1, <3>3, <4>1 DEF UpdatePost, postTables, Kept
      <4> QED BY <3>1, <4>1 DEF PostById
    <3> QED BY <3>1, <3>2, <3>3
  <2>4. \A p \in posts' : p \in posts \/ p.id # q.post \/ \E e \in posts : e.id = p.id
    BY <2>3 DEF Kept
  <2> QED BY <1>1, <2>2, <2>4, WarnedOfRests
<1>3. CASE s = r
  <2>1. CASE Audience(r)
    <3> DEFINE to == (IF w.op = "updatePost" THEN UpdateAudience(w.found, w.row)
                                             ELSE PostAudience(w.found)) \ {w.user}
    <3>1. IF w.op # "deletePost" /\ ~TakesFindFriends(w)
            THEN n = Idle
            ELSE /\ GoesOn(w, n) /\ n.to = to
                 /\ n.pc = IF w.op = "deletePost" THEN "deletePost" ELSE "emit"
      BY <2>1, AudienceEffect
    <3>2. n # Idle
      BY <1>3 DEF Idle
    <3>3. GoesOn(w, q) /\ q.to = to /\ q.pc = IF w.op = "deletePost" THEN "deletePost" ELSE "emit"
      BY <1>3, <3>1, <3>2
    <3>4. w.pc = "audience"
      BY <2>1 DEF Audience, At
    <3>5. w.found \in Post /\ w.found.author = w.user
      BY <3>4, KnowsPost
    <3>6. CASE w.op # "deletePost"
      <4>1. q.op # "deletePost" /\ q.pc = "emit"
        BY <3>3, <3>6 DEF GoesOn
      <4> QED BY <4>1 DEF WarnedOf
    <3>7. CASE w.op = "deletePost"
      <4>1. q.pc = "deletePost" /\ to = PostAudience(w.found) \ {w.user}
        BY <3>3, <3>7
      <4>2. q.found = w.found /\ q.user = w.user
        BY <3>3 DEF GoesOn
      <4>3. ASSUME q.user # Me, Vis(q.found) PROVE Me \in q.to
        <5>1. q.found \in Post /\ q.found.author = q.user
          BY <3>5, <4>2
        <5>2. Me \in PostAudience(q.found) \ {q.user}
          BY <4>3, <5>1, AudienceSees
        <5> QED BY <3>3, <4>1, <4>2, <5>2
      <4>4. Vis(q.found)' <=> Vis(q.found)
        BY <1>1, VisRests
      <4> QED BY <4>1, <4>3, <4>4 DEF WarnedOf
    <3> QED BY <3>6, <3>7
  <2>2. CASE DeletePost(r)
    <3>1. posts' = {p \in posts : p.id # w.post} /\ GoesOn(w, n) /\ n.pc = "emit"
      BY <1>1, <2>2, DeleteEffect
    <3>2. q.post = w.post /\ q.pc = "emit"
      BY <1>3, <3>1 DEF GoesOn
    <3> QED BY <3>1, <3>2 DEF WarnedOf
  <2>3. CASE ~Audience(r) /\ ~DeletePost(r)
    <3>1. Idle.pc = "idle"
      BY DEF Idle
    <3>2. n.pc \notin {"deletePost", "emit"}
      <4>1. ASSUME InsertPost(r) PROVE n.pc = "audience"
        BY <1>1, <4>1, InsertEffect
      <4>2. ASSUME LoadPost(r) PROVE n = Idle \/ n.pc \in {"updatePost", "audience"}
        BY <4>2, LoadEffect
      <4>3. ASSUME UpdatePost(r) PROVE n = Idle \/ n.pc \in {"refetchPost", "audience"}
        BY <1>1, <4>3, UpdateEffect
      <4>4. ASSUME RefetchPost(r) PROVE n = Idle \/ n.pc = "audience"
        BY <1>1, <4>4, RefetchEffect
      <4>5. ASSUME EmitEvent(r) PROVE n = Idle
        BY <4>5, EmitEffect
      <4> HIDE DEF n, Idle
      <4> QED BY <1>1, <2>3, <3>1, <4>1, <4>2, <4>3, <4>4, <4>5, WhichStep
    <3> QED BY <1>3, <3>2
  <2> QED BY <2>1, <2>2, <2>3
<1> QED BY <1>2, <1>3

-----------------------------------------------------------------------------
(* Steps that leave the posts as they are, and who may see them.           *)

\* Whoever will tell of post i goes on with it.
Stays(i) == \A s \in Requests : requests'[s] = requests[s] \/ (~Tells(s, i) /\ ~Announces(s, i))

\* What there is to hear of post i still waits.
Waits(i) ==
  \A k \in DOMAIN inbox :
    Tidings(inbox[k], i) /\ (Rewrites(inbox[k]) \/ inbox[k].kind = "post:created")
    => \E j \in DOMAIN inbox' : inbox'[j] = inbox[k]

LEMMA IdleStays ==
  ASSUME \A s \in Requests : At(s, "idle") \/ requests'[s] = requests[s], NEW i
  PROVE  Stays(i)
  BY DEF Stays, At, Tells, Announces

LEMMA PromisedRests ==
  ASSUME UNCHANGED <<posts, friends, blocked>>, NEW i, Stays(i)
  PROVE  /\ Promised(i) => Promised(i)'
         /\ (\E s \in Requests : Announces(s, i)) => (\E s \in Requests : Announces(s, i))'
<1>1. Now(i)' <=> Now(i)
  BY NowKept DEF Kept
<1>2. ASSUME NEW s \in Requests, Tells(s, i) PROVE Tells(s, i)'
  <2>1. requests'[s] = requests[s]
    BY <1>2 DEF Stays
  <2> QED BY <1>1, <1>2, <2>1, TellsIs, TellsThen
<1>3. ASSUME NEW s \in Requests, Announces(s, i) PROVE Announces(s, i)'
  <2>1. requests'[s] = requests[s]
    BY <1>3 DEF Stays
  <2> QED BY <1>3, <2>1 DEF Announces, Mine
<1> QED BY <1>2, <1>3 DEF Promised

LEMMA WayRests ==
  ASSUME UNCHANGED <<posts, friends, blocked>>, NEW i, Stays(i), Waits(i), i \notin untold',
         NEW S, NEW o, OnItsWay(S, i)
  PROVE  Covered(S, o, i)'
<1>1. CASE Promised(i)
  BY <1>1, PromisedRests, CoveredThen
<1>2. CASE Coming(i)
  <2>1. PICK k \in DOMAIN inbox : Rewrites(inbox[k]) /\ Tidings(inbox[k], i)
    BY <1>2 DEF Coming
  <2>2. PICK j \in DOMAIN inbox' : inbox'[j] = inbox[k]
    BY <2>1 DEF Waits
  <2>3. Coming(i)'
    BY <2>1, <2>2, ComingThen
  <2> QED BY <2>3, CoveredThen
<1>3. CASE Absent(S, i) /\ Creating(i)
  <2>1. CASE Announced(i)
    <3>1. PICK k \in DOMAIN inbox : inbox[k].kind = "post:created" /\ Tidings(inbox[k], i)
      BY <2>1 DEF Announced
    <3>2. PICK j \in DOMAIN inbox' : inbox'[j] = inbox[k]
      BY <3>1 DEF Waits
    <3>3. Creating(i)'
      BY <3>1, <3>2, ComingThen
    <3> QED BY <1>3, <3>3, CoveredThen
  <2>2. CASE \E s \in Requests : Announces(s, i)
    <3>1. Creating(i)'
      BY <2>2, PromisedRests DEF Creating
    <3> QED BY <1>3, <3>1, CoveredThen
  <2> QED BY <1>3, <2>1, <2>2 DEF Creating
<1> QED BY <1>1, <1>2, <1>3 DEF OnItsWay

LEMMA CoveredRests ==
  ASSUME Awaited, UNCHANGED <<posts, friends, blocked, view, untold>>,
         \A s \in Requests : At(s, "idle") \/ requests'[s] = requests[s],
         NEW S, NEW o, NEW i, Waits(i), writing' = writing \/ ~OwnPending(S, o, i), Covered(S, o, i)
  PROVE  Covered(S, o, i)'
<1>0. Kept(i)
  BY DEF Kept
<1>1. CASE Right(S, o, i)
  BY <1>0, <1>1, RightKept, CoveredThen
<1>2. CASE OnItsWay(S, i)
  <2>1. i \notin untold'
    BY <1>2 DEF OnItsWay
  <2> QED BY <1>2, <2>1, IdleStays, WayRests
<1>3. CASE OwnPending(S, o, i)
  <2>1. writing' = writing /\ writing # NotWriting
    BY <1>3 DEF OwnPending
  <2>2. writing.phase = "sent" => requests'[writing.at] = requests[writing.at]
    BY <2>1 DEF Awaited
  <2>3. Placed(S, o, i) => Placed(S, o, i)'
    BY <1>0, RightKept
  <2>4. Absent(S, i)' <=> Absent(S, i)
    BY DEF Absent
  <2>5. Written(i) => Written(i)'
    BY <2>1, <2>2 DEF Written
  <2>6. Deleting(i) => Deleting(i)'
    BY <2>1, <2>2 DEF Deleting
  <2>7. OwnPending(S, o, i)'
    BY <1>3, <2>1, <2>3, <2>4, <2>5, <2>6 DEF OwnPending
  <2> QED BY <2>7, CoveredThen
<1> QED BY <1>1, <1>2, <1>3 DEF Covered

\* What covers a post depends on nothing else in the list.
LEMMA Agree ==
  ASSUME NEW S, NEW T, NEW o, NEW i, \A p : p.id = i => (p \in S <=> p \in T)
  PROVE  /\ Right(S, o, i) => Right(T, o, i)
         /\ OwnPending(S, o, i) => OwnPending(T, o, i)
         /\ OnItsWay(S, i) => OnItsWay(T, i)
         /\ Covered(S, o, i) => Covered(T, o, i)
<1>1. Absent(S, i) <=> Absent(T, i)
  BY DEF Absent
<1>2. Right(S, o, i) => Right(T, o, i)
  BY <1>1 DEF Right
<1>3. OwnPending(S, o, i) => OwnPending(T, o, i)
  BY <1>1 DEF OwnPending, Placed
<1>4. OnItsWay(S, i) => OnItsWay(T, i)
  BY <1>1 DEF OnItsWay
<1> QED BY <1>2, <1>3, <1>4 DEF Covered

\* The reach may only go up.
LEMMA Nearer ==
  ASSUME NEW S, NEW o \in Nat, NEW n \in Nat, o <= n, NEW i \in Nat, Covered(S, o, i)
  PROVE  Covered(S, n, i)
<1>1. i < o => i < n
  OBVIOUS
<1> QED BY <1>1 DEF Covered, Right, OwnPending, Placed

-----------------------------------------------------------------------------
(* A query of the service rejects.                                         *)

\* What ends before its write was of no account yet.
LEMMA FailStays ==
  ASSUME PagesInv, NEW by, SignsTables(by), NEW r \in Requests, ServeFails(r)
  PROVE  LET written == At(r, "refetchPost") \/ At(r, "emit")
                          \/ (At(r, "audience") /\ requests[r].op # "deletePost")
         IN /\ UNCHANGED <<posts, friends, blocked, nextId, view, list, oldest, inbox>>
            /\ \A s \in Requests \ {r} : requests'[s] = requests[s]
            /\ requests'[r] = Idle
            /\ ~written => untold' = untold /\ overtaken' = overtaken /\ \A i : Stays(i)
            /\ written => overtaken' /\ untold' = untold \cup {requests[r].post}
            /\ \A i : i \notin untold' => Stays(i)
            /\ loads' = Late(loads)
<1> DEFINE written == At(r, "refetchPost") \/ At(r, "emit")
                       \/ (At(r, "audience") /\ requests[r].op # "deletePost")
<1>1. /\ requests' = [requests EXCEPT ![r] = Idle] /\ requests \in [Requests -> Request \cup {Idle}]
      /\ UNCHANGED <<posts, friends, blocked, nextId, view, list, oldest, inbox>>
      /\ loads' = Late(loads)
  BY DEF ServeFails, Fail, Respond, PagesInv, SharingInv, TypeOK, relations, postTables
<1>2. \A s \in Requests \ {r} : requests'[s] = requests[s]
  BY <1>1
<1>3. overtaken' = (overtaken \/ written)
      /\ untold' = IF written THEN untold \cup {requests[r].post} ELSE untold
  BY DEF ServeFails
<1>4. overtaken \in BOOLEAN
  BY DEF PagesInv, PageSound
<1>5. ~written => \A i : ~Tells(r, i) /\ ~Announces(r, i)
  BY DEF At, Tells, Announces
<1>6. \A i : i # requests[r].post => ~Tells(r, i) /\ ~Announces(r, i)
  BY DEF Tells, Announces
<1> HIDE DEF written
<1>7. ~written => \A i : Stays(i)
  BY <1>2, <1>5 DEF Stays
<1>8. \A i : i \notin untold' => Stays(i)
  <2>1. CASE ~written
    BY <1>7, <2>1
  <2>2. CASE written
    BY <1>2, <1>3, <1>6, <2>2 DEF Stays
  <2> QED BY <2>1, <2>2
<1>9. requests'[r] = Idle
  BY <1>1
<1> QED BY <1>1, <1>2, <1>3, <1>4, <1>7, <1>8, <1>9 DEF written

LEMMA FailCovered ==
  ASSUME PagesInv, Awaited, NEW by, SignsTables(by), NEW r \in Requests, ServeFails(r), ~overtaken',
         NEW S, NEW o, NEW i, Covered(S, o, i)
  PROVE  Covered(S, o, i)'
<1> DEFINE written == At(r, "refetchPost") \/ At(r, "emit")
                       \/ (At(r, "audience") /\ requests[r].op # "deletePost")
<1>1. /\ ~written /\ untold' = untold /\ \A j : Stays(j)
      /\ UNCHANGED <<posts, friends, blocked, view, inbox>>
      /\ \A s \in Requests \ {r} : requests'[s] = requests[s]
  BY FailStays
<1>2. Kept(i) /\ Waits(i)
  BY <1>1 DEF Kept, Waits
<1>3. CASE Right(S, o, i)
  BY <1>1, <1>2, <1>3, RightKept, CoveredThen
<1>4. CASE OnItsWay(S, i)
  BY <1>1, <1>2, <1>4, WayRests DEF OnItsWay
<1>5. CASE OwnPending(S, o, i)
  <2>0. writing \in Writing /\ writing # NotWriting
    BY <1>5 DEF OwnPending, PagesInv, PageSound, Saving
  <2>1. /\ Placed(S, o, i) => Placed(S, o, i)'
        /\ Absent(S, i)' <=> Absent(S, i)
    BY <1>1, <1>2, RightKept DEF Absent
  <2>2. CASE ~Ours(r)
    <3>1. writing' = writing
      BY <2>2 DEF ServeFails
    <3>2. writing.phase = "sent" => requests'[writing.at] = requests[writing.at]
      BY <1>1, <2>0, <2>2 DEF Awaited, Ours
    <3>3. (Written(i) => Written(i)') /\ (Deleting(i) => Deleting(i)')
      BY <3>1, <3>2 DEF Written, Deleting
    <3>4. OwnPending(S, o, i)'
      BY <1>5, <2>1, <3>1, <3>3 DEF OwnPending
    <3> QED BY <3>4, CoveredThen
  <2>3. CASE Ours(r)
    <3>1. /\ writing.phase = "sent" /\ writing.at = r /\ requests[r].op = writing.op
          /\ writing' = [writing EXCEPT !.phase = "failed"]
      BY <2>0, <2>3 DEF ServeFails, Ours, Awaited
    <3>2. ASSUME Written(i) PROVE writing.op = "deletePost"
      <4>1. requests[r].pc \in {"refetchPost", "audience", "emit"}
        BY <3>1, <3>2 DEF Written
      <4> QED BY <1>1, <3>1, <4>1 DEF At
    <3>3. writing.op = "deletePost" /\ Deleting(i) /\ Absent(S, i)
      BY <1>5, <3>2 DEF OwnPending
    <3> DEFINE w == [writing EXCEPT !.phase = "failed"]
    <3>4. w.op = "deletePost" /\ w.phase = "failed" /\ w.row = writing.row
      BY <2>0, <3>3 DEF Writing
    <3>5. w # NotWriting
      <4>1. NotWriting.phase = "none"
        BY DEF NotWriting
      <4> HIDE DEF w, NotWriting
      <4> QED BY <3>4, <4>1
    <3> HIDE DEF w
    <3>6. writing' = w
      BY <3>1 DEF w
    <3>7. OwnPending(S, o, i)'
      BY <2>1, <3>3, <3>4, <3>5, <3>6 DEF OwnPending, Deleting
    <3> QED BY <3>7, CoveredThen
  <2> QED BY <2>2, <2>3
<1> QED BY <1>3, <1>4, <1>5 DEF Covered

-----------------------------------------------------------------------------
(* What events say, while the posts rest.                                  *)

LEMMA SaysRest ==
  ASSUME PagesInv, EventsSay, NEW by, SignsBox(by, inbox, nextId),
         UNCHANGED <<posts, friends, blocked>>, untold \subseteq untold',
         \A i : i \notin untold' => Stays(i),
         inbox' = inbox \/ (inbox # <<>> /\ inbox' = Tail(inbox))
  PROVE  EventsSay'
<1> SUFFICES ASSUME NEW box, box = inbox' PROVE SayAll(box)'
  BY SayAllThen
<1>1. inbox \in Seq(Event)
  BY DEF PagesInv, PageSound, Arriving
<1>2. PICK d \in {0, 1} : (d = 0 /\ box = inbox) \/ (d = 1 /\ inbox # <<>> /\ box = Tail(inbox))
  OBVIOUS
<1>3. /\ \A k \in DOMAIN box : k \in Nat /\ k + d \in DOMAIN inbox /\ box[k] = inbox[k + d]
      /\ \A k \in DOMAIN inbox :
           k \in Nat /\ (k > d => k - d \in DOMAIN box /\ box[k - d] = inbox[k])
  <2>1. DOMAIN inbox \subseteq Nat
    BY <1>1, LenProperties
  <2>2. CASE d = 0
    BY <1>2, <2>1, <2>2
  <2>3. CASE d = 1
    <3>1. box = Tail(inbox) /\ inbox # <<>>
      BY <1>2, <2>3
    <3>2. \A k \in DOMAIN box : k \in Nat /\ k + 1 \in DOMAIN inbox /\ box[k] = inbox[k + 1]
      BY <1>1, <3>1, BoxTail
    <3>3. \A k \in DOMAIN inbox : k = 1 \/ (k - 1 \in DOMAIN box /\ box[k - 1] = inbox[k])
      BY <1>1, <3>1, BoxTail
    <3> QED BY <2>1, <2>3, <3>2, <3>3
  <2> QED BY <2>2, <2>3
<1>4. ASSUME NEW k \in DOMAIN box, NEW m, m = box[k], NEW i, i = m.about.id, Reliable(m)'
      PROVE  \/ Promised(i)'
             \/ \E j \in DOMAIN box : k < j /\ Rewrites(box[j]) /\ Tidings(box[j], i)
             \/ Says(m)'
  <2>1. i \notin untold' /\ m.kind # "friends" /\ (m.kind = "post:updated" => m.carries # Undefined)
    BY <1>4 DEF Reliable
  <2>2. Reliable(m)
    BY <1>4, <2>1 DEF Reliable
  <2> DEFINE c == k + d
  <2>3. c \in DOMAIN inbox /\ m = inbox[c] /\ k \in Nat
    BY <1>3, <1>4
  <2>4. SignsEvent(by, m, nextId) /\ PostEvent(m, nextId)
    BY <2>1, <2>3, FromOthers
  <2>5. Whole(m) /\ Kept(m.about.id)
    BY <2>2, <2>4, ReliableWhole DEF Kept
  <2>6. \/ Promised(i)
        \/ \E j \in DOMAIN inbox : c < j /\ Rewrites(inbox[j]) /\ Tidings(inbox[j], i)
        \/ Says(m)
    BY <1>4, <2>2, <2>3, SayAllNow DEF SayAll
  <2>7. CASE Promised(i)
    BY <2>1, <2>7, PromisedRests
  <2>8. CASE \E j \in DOMAIN inbox : c < j /\ Rewrites(inbox[j]) /\ Tidings(inbox[j], i)
    <3>1. PICK j \in DOMAIN inbox : c < j /\ Rewrites(inbox[j]) /\ Tidings(inbox[j], i)
      BY <2>8
    <3>2. j \in Nat /\ j > d /\ k < j - d
      BY <1>3, <2>3, <3>1
    <3> QED BY <1>3, <3>1, <3>2
  <2>9. CASE Says(m)
    BY <2>5, <2>9, SaysKept
  <2> QED BY <2>6, <2>7, <2>8, <2>9
<1> QED BY <1>4 DEF SayAll

LEMMA SaysNothing ==
  ASSUME NEW box, box = inbox', \A k \in DOMAIN box : ~Reliable(box[k])'
  PROVE  EventsSay'
<1>1. SayAll(box)'
  BY DEF SayAll
<1> QED BY <1>1, SayAllThen

\* After a friendship has changed no event that waits is relied on.
LEMMA SaysRelates ==
  ASSUME PagesInv, Doubt, inbox' \in {inbox, Append(inbox, [kind |-> "friends"])}
  PROVE  EventsSay'
<1> DEFINE f == [kind |-> "friends"]
<1>1. inbox \in Seq(Event) /\ f \in Event /\ f.kind = "friends"
  BY DEF PagesInv, PageSound, Arriving, Event
<1>2. inbox' = inbox \/ inbox' = Append(inbox, f)
  OBVIOUS
<1> HIDE DEF f
<1>3. PICK box : box = inbox'
  OBVIOUS
<1>4. ASSUME NEW k \in DOMAIN box PROVE box[k].kind = "friends" \/ box[k].about.id \in untold'
  <2>1. \A j \in DOMAIN inbox : inbox[j].kind = "friends" \/ inbox[j].about.id \in untold'
    BY DEF Doubt, ToSet
  <2>2. CASE k \in DOMAIN inbox
    <3>1. box[k] = inbox[k]
      BY <1>1, <1>2, <1>3, <2>2, BoxGrown
    <3> QED BY <2>1, <2>2, <3>1
  <2>3. CASE k \notin DOMAIN inbox
    <3>1. box[k] = f
      BY <1>1, <1>2, <1>3, <2>3, BoxGrown
    <3> QED BY <1>1, <3>1
  <2> QED BY <2>2, <2>3
<1>5. ASSUME NEW k \in DOMAIN box PROVE ~Reliable(box[k])'
  BY <1>4 DEF Reliable
<1> QED BY <1>3, <1>5, SaysNothing

-----------------------------------------------------------------------------
(* What Me may not have been told of is a post that there was.             *)

LEMMA DoubtNumbered ==
  ASSUME PagesInv, NEW by, SignsBox(by, inbox, nextId), SignsTables(by),
         \A i \in untold : i < nextId,
         Doubt, nextId' = nextId
  PROVE  \A i \in untold' : i < nextId'
<1>1. \A r \in Requests : At(r, "deletePost") => requests[r].post < nextId
  BY KnowsPost DEF At
<1>2. \A m \in ToSet(inbox) : m.kind # "friends" => m.about.id < nextId
  BY FromOthers DEF ToSet, SignsEvent
<1> QED BY <1>1, <1>2 DEF Doubt

LEMMA ServedNumbered ==
  ASSUME PagesInv, NEW by, SignsTables(by), \A i \in untold : i < nextId,
         NEW r \in Requests, ServeRequest(r)
  PROVE  \A i \in untold' : i < nextId'
<1>1. PostStep(r) /\ untold' = IF Overtakes(r) THEN untold \cup {requests[r].post} ELSE untold
  BY DEF ServeRequest
<1>2. nextId \in Nat /\ nextId' \in Nat /\ nextId <= nextId'
  BY <1>1, StepServes, NextIdIsNat DEF Served, PagesInv
<1>3. Overtakes(r) => requests[r].post < nextId /\ requests[r].post \in Nat
  <2>1. ASSUME Overtakes(r)
        PROVE  requests[r].pc \in {"updatePost", "refetchPost", "audience", "deletePost", "emit"}
    BY <2>1 DEF Overtakes
  <2> QED BY <2>1, KnowsPost DEF RowId
<1>4. untold \subseteq Nat
  BY DEF PagesInv
<1> QED BY <1>1, <1>2, <1>3, <1>4

LEMMA FailNumbered ==
  ASSUME PagesInv, NEW by, SignsTables(by), \A i \in untold : i < nextId,
         NEW r \in Requests, ServeFails(r)
  PROVE  \A i \in untold' : i < nextId'
<1> DEFINE written == At(r, "refetchPost") \/ At(r, "emit")
                       \/ (At(r, "audience") /\ requests[r].op # "deletePost")
<1>1. untold' = (IF written THEN untold \cup {requests[r].post} ELSE untold) /\ nextId' = nextId
  BY FailStays
<1>2. written => requests[r].post < nextId
  BY KnowsPost DEF At
<1> QED BY <1>1, <1>2

-----------------------------------------------------------------------------
(* The loads in flight.                                                    *)

Sole(ls) == \A l, m \in ls : l.kind = "more" /\ m.kind = "more" => l = m

LEMMA SoleLate ==
  ASSUME NEW ls, ls \subseteq Load, Sole(ls)
  PROVE  /\ Sole(Late(ls)) /\ Sole({[l EXCEPT !.late = TRUE] : l \in ls}) /\ Sole(Displaced(ls))
         /\ \A ms \in SUBSET ls : Sole(ms)
         /\ \A l : l.kind # "more" \/ (\A m \in ls : m.kind # "more") => Sole(ls \cup {l})
<1>1. ASSUME NEW ms, ms \subseteq Load, Sole(ms) PROVE Sole(Late(ms))
  <2> DEFINE d(l) == IF "posts" \in l.asks THEN l ELSE [l EXCEPT !.late = TRUE]
  <2>1. \A l \in ms : d(l).kind = l.kind
    BY <1>1 DEF Load
  <2>2. Late(ms) = {d(l) : l \in ms}
    BY DEF Late
  <2> HIDE DEF d
  <2> QED BY <1>1, <2>1, <2>2 DEF Sole
<1>2. Sole({[l EXCEPT !.late = TRUE] : l \in ls})
  <2> DEFINE d(l) == [l EXCEPT !.late = TRUE]
  <2>1. \A l \in ls : d(l).kind = l.kind
    BY DEF Load
  <2> HIDE DEF d
  <2>2. Sole({d(l) : l \in ls})
    BY <2>1 DEF Sole
  <2> QED BY <2>2 DEF d
<1>3. Sole(Displaced(ls))
  <2> DEFINE d(l) == IF l.kind = "more" THEN [l EXCEPT !.late = TRUE] ELSE l
             ms == {d(l) : l \in ls}
  <2>1. \A l \in ls : d(l).kind = l.kind /\ d(l) \in Load
    BY DEF Load
  <2>2. Displaced(ls) = Late(ms)
    BY DEF Displaced
  <2> HIDE DEF d
  <2>3. Sole(ms) /\ ms \subseteq Load
    BY <2>1 DEF Sole
  <2> HIDE DEF ms
  <2> QED BY <1>1, <2>2, <2>3
<1> QED BY <1>1, <1>2, <1>3 DEF Sole

\* A load whose posts have not been asked for yet.
LEMMA FreshHolds ==
  ASSUME NEW l, l.view = view', "posts" \in l.asks \/ l.kind = "friends",
         l.kind \in {"first", "profile"} => l.before = 0,
         l.kind = "more" /\ ~overtaken' => l.before >= oldest' /\ l.before # 0
  PROVE  LoadHolds(l)'
  BY DEF LoadHolds

LEMMA MirrorThen ==
  ASSUME NEW S, NEW o, \A i \in RowId : Covered(S, o, i)', ~OnFeed' => \A p \in S : p.author = view'
  PROVE  Mirror(S, o)'
  BY DEF Mirror

LEMMA JoinedThen ==
  ASSUME NEW S, NEW page, NEW o, S = Joined(page)', Mirror(S, o)' PROVE Mirror(Joined(page), o)'
<1>1. /\ \A i \in RowId : Covered(S, o, i)'
      /\ ~OnFeed' => \A p \in S : p.author = view'
  BY DEF Mirror
<1>2. ASSUME NEW i \in RowId PROVE Covered(Joined(page), o, i)'
  BY <1>1 DEF Covered, Right, OwnPending, OnItsWay, Placed, Absent
<1>3. (~OnFeed => \A p \in Joined(page) : p.author = view)'
  BY <1>1
<1> QED BY <1>2, <1>3 DEF Mirror

LEMMA ReloadIs ==
  ASSUME NEW v, NEW before
  PROVE  /\ Reload(v).view = v /\ "posts" \in Reload(v).asks /\ Reload(v).before = 0
         /\ Reload(v).kind \in {"first", "profile"} /\ Reload(v).posts = <<>>
         /\ LET l == NewLoad("friends", v, before) IN l.view = v /\ l.kind = "friends"
         /\ LET l == NewLoad("more", v, before) IN
              l.view = v /\ l.kind = "more" /\ l.before = before /\ "posts" \in l.asks
  BY DEF Reload, NewLoad

LEMMA ReloadHolds ==
  ASSUME NEW v, view' = v
  PROVE  \A l : l \in {Reload(v), NewLoad("friends", v, 0)} => LoadHolds(l)' /\ l.kind # "more"
<1> SUFFICES ASSUME NEW l, l \in {Reload(v), NewLoad("friends", v, 0)}
             PROVE  LoadHolds(l)' /\ l.kind # "more"
  OBVIOUS
<1>1. CASE l = Reload(v)
  <2>1. l.view = v /\ "posts" \in l.asks /\ l.before = 0 /\ l.kind \in {"first", "profile"}
    BY <1>1, ReloadIs
  <2> QED BY <2>1, FreshHolds
<1>2. CASE l = NewLoad("friends", v, 0)
  <2>1. l.view = v /\ l.kind = "friends"
    BY <1>2, ReloadIs
  <2> QED BY <2>1, FreshHolds
<1> QED BY <1>1, <1>2

\* An answer that was not overtaken has what it had.
LEMMA LoadRests ==
  ASSUME PagesInv, view' = view, NEW l \in loads, LoadHolds(l),
         l.kind = "more" => UNCHANGED <<list, oldest>> /\ (overtaken => overtaken'),
         "posts" \notin l.asks => \A S, o, i :
           (\A p \in S : p.id < nextId) /\ Covered(S, o, i) => Covered(S, o, i)'
  PROVE  LoadHolds(l)'
<1>1. Listing(l.posts, nextId) /\ Listing(list, nextId)
  BY DEF PagesInv, PageSound, Loading
<1> DEFINE o == Reach(l.posts)
<1>2. ASSUME NEW S, \A p \in S : p.id < nextId, Mirror(S, o), "posts" \notin l.asks
      PROVE  Mirror(S, o)'
  BY <1>2, MirrorThen DEF Mirror, OnFeed
<1>3. PICK T : T = ToSet(l.posts)
  OBVIOUS
<1>4. PICK J : J = Joined(l.posts)
  OBVIOUS
<1>5. l.kind = "more" => J = Joined(l.posts)'
  BY <1>4 DEF Joined, Has
<1>6. (\A p \in T : p.id < nextId) /\ (\A p \in J : p.id < nextId)
  BY <1>1, <1>3, <1>4, InSet DEF Joined
<1>7. l.kind \in {"first", "profile"} /\ "posts" \notin l.asks => Mirror(T, o)'
  BY <1>2, <1>3, <1>6 DEF LoadHolds
<1>8. l.kind = "more" /\ ~overtaken' /\ "posts" \notin l.asks => Mirror(Joined(l.posts), o)'
  BY <1>2, <1>4, <1>5, <1>6, JoinedThen DEF LoadHolds
<1> HIDE DEF o
<1>9. l.kind \in {"first", "profile"} /\ "posts" \notin l.asks => Mirror(ToSet(l.posts), o)'
  BY <1>3, <1>7
<1> QED BY <1>8, <1>9 DEF LoadHolds, o

LEMMA LoadsRest ==
  ASSUME PagesInv, LoadsHold, UNCHANGED <<view, list, oldest>>, overtaken => overtaken',
         Sole(loads'), \A l \in loads' : l.late \/ l \in loads \/ LoadHolds(l)',
         \A S, o, i : (\A p \in S : p.id < nextId) /\ Covered(S, o, i) => Covered(S, o, i)'
  PROVE  LoadsHold'
<1>1. PICK ls : ls = loads'
  OBVIOUS
<1>2. \A l \in ls : ~l.late => LoadHolds(l)'
  BY <1>1, LoadRests DEF LoadsHold
<1> QED BY <1>1, <1>2 DEF LoadsHold, Sole

\* The others are late, or not answered yet.
LEMMA LateRest ==
  ASSUME PagesInv, LoadsHold, UNCHANGED <<view, oldest>>, overtaken => overtaken',
         Sole(loads'), \A l \in loads' : l \in Late(loads) \/ l.late \/ LoadHolds(l)'
  PROVE  LoadsHold'
<1>1. PICK ls : ls = loads'
  OBVIOUS
<1>2. ASSUME NEW l \in ls, ~l.late PROVE LoadHolds(l)'
  <2>1. CASE l \in Late(loads)
    <3>1. loads \subseteq Load
      BY DEF PagesInv, PageSound, Loading
    <3>2. l \in loads /\ "posts" \in l.asks
      BY <1>2, <2>1, <3>1, LateLoads DEF SameLoad
    <3>3. LoadHolds(l)
      BY <1>2, <3>2 DEF LoadsHold
    <3> QED BY <3>2, <3>3, FreshHolds DEF LoadHolds
  <2> QED BY <1>1, <1>2, <2>1
<1> QED BY <1>1, <1>2 DEF LoadsHold, Sole

\* The page goes on, and nothing that covers a post has changed.
LEMMA ReceiveCovers ==
  ASSUME PagesInv, Awaited, UNCHANGED <<view, inbox, untold>>,
         writing = NotWriting \/ writing' = writing, NEW r \in Requests, NEW q, At(r, "idle"),
         requests' = [requests EXCEPT ![r] = q], UNCHANGED <<posts, friends, blocked>>
  PROVE  \A S, o, i : Covered(S, o, i) => Covered(S, o, i)'
<1>1. \A s \in Requests : At(s, "idle") \/ requests'[s] = requests[s]
  BY DEF PagesInv, SharingInv, TypeOK
<1>2. \A i : Waits(i)
  BY DEF Waits
<1> SUFFICES ASSUME NEW S, NEW o, NEW i, Covered(S, o, i) PROVE Covered(S, o, i)'
  OBVIOUS
<1>3. writing' = writing \/ ~OwnPending(S, o, i)
  BY DEF OwnPending
<1> QED BY <1>1, <1>2, <1>3, CoveredRests

LEMMA RestCovers ==
  ASSUME PagesInv, Awaited, UNCHANGED server, UNCHANGED <<view, untold>>,
         writing' = writing \/ writing.op = "relate",
         inbox' = inbox \/ (inbox # <<>> /\ Head(inbox).kind = "friends" /\ inbox' = Tail(inbox))
  PROVE  \A S, o, i : Covered(S, o, i) => Covered(S, o, i)'
<1>1. UNCHANGED <<posts, friends, blocked, requests>>
  BY DEF server, postTables, relations
<1>2. \A i : Waits(i)
  <2>1. CASE inbox' = inbox
    BY <2>1 DEF Waits
  <2>2. CASE inbox # <<>> /\ Head(inbox).kind = "friends" /\ inbox' = Tail(inbox)
    <3>1. inbox \in Seq(Event)
      BY DEF PagesInv, PageSound, Arriving
    <3>2. Head(inbox) = inbox[1]
      BY <2>2, <3>1, BoxTail
    <3>3. \A k \in DOMAIN inbox : k = 1 \/ (k - 1 \in DOMAIN inbox' /\ inbox'[k - 1] = inbox[k])
      BY <2>2, <3>1, BoxTail
    <3> QED BY <2>2, <3>2, <3>3 DEF Waits, Tidings
  <2> QED BY <2>1, <2>2
<1> SUFFICES ASSUME NEW S, NEW o, NEW i, Covered(S, o, i) PROVE Covered(S, o, i)'
  OBVIOUS
<1>3. writing' = writing \/ ~OwnPending(S, o, i)
  BY DEF OwnPending
<1> QED BY <1>1, <1>2, <1>3, CoveredRests

LEMMA PageCovers ==
  ASSUME PagesInv, Awaited, untold' = untold,
         \/ LoadMore \/ LoadFails \/ ServeLoad \/ LoadArrives \/ HandleFriendEvent \/ ActionArrives
         \/ \E r \in Requests : SubmitPost(r) \/ SaveEdit(r) \/ DeleteOwn(r) \/ OthersWrite(r)
  PROVE  view' = view /\ \A S, o, i : Covered(S, o, i) => Covered(S, o, i)'
<1>1. CASE LoadMore \/ LoadFails \/ ServeLoad
  BY <1>1, RestCovers DEF LoadMore, LoadFails, ServeLoad
<1>2. CASE LoadArrives
  BY <1>2, RestCovers DEF LoadArrives
<1>3. CASE HandleFriendEvent
  BY <1>3, RestCovers DEF HandleFriendEvent
<1>4. CASE ActionArrives
  BY <1>4, RestCovers DEF ActionArrives
<1>5. CASE \E r \in Requests : SubmitPost(r) \/ SaveEdit(r) \/ DeleteOwn(r)
  <2>1. PICK r \in Requests : SubmitPost(r) \/ SaveEdit(r) \/ DeleteOwn(r)
    BY <1>5
  <2>2. \E q : requests' = [requests EXCEPT ![r] = q]
    BY <2>1, Zenon DEF SubmitPost, SaveEdit, DeleteOwn, Receive
  <2>3. At(r, "idle") /\ UNCHANGED <<postTables, relations>>
    BY <2>1, Zenon DEF SubmitPost, SaveEdit, DeleteOwn, Receive
  <2>4. UNCHANGED <<view, inbox>> /\ writing = NotWriting
    BY <2>1 DEF SubmitPost, SaveEdit, DeleteOwn
  <2>5. UNCHANGED <<posts, friends, blocked>>
    BY <2>3 DEF postTables, relations
  <2> QED BY <2>2, <2>3, <2>4, <2>5, ReceiveCovers
<1>6. CASE \E r \in Requests : OthersWrite(r)
  <2>1. PICK r \in Requests : OthersWrite(r)
    BY <1>6
  <2>2. \E q : requests' = [requests EXCEPT ![r] = q]
    BY <2>1, Zenon DEF OthersWrite, CreatePost, NamePost, Receive
  <2>3. At(r, "idle") /\ UNCHANGED <<postTables, relations>>
    BY <2>1, Zenon DEF OthersWrite, CreatePost, NamePost, Receive
  <2>4. UNCHANGED <<view, inbox, writing>>
    BY <2>1 DEF OthersWrite, pageVars
  <2>5. UNCHANGED <<posts, friends, blocked>>
    BY <2>3 DEF postTables, relations
  <2> QED BY <2>2, <2>3, <2>4, <2>5, ReceiveCovers
<1> QED BY <1>1, <1>2, <1>3, <1>4, <1>5, <1>6

-----------------------------------------------------------------------------
(* What the loads in flight have, after each action.                       *)

LEMMA AllNew ==
  ASSUME Sole(loads'), \A l \in loads' : l.late \/ LoadHolds(l)' PROVE LoadsHold'
<1>1. PICK ls : ls = loads'
  OBVIOUS
<1> QED BY <1>1 DEF LoadsHold, Sole

LEMMA LoadsWere == ASSUME PagesInv, LoadsHold PROVE loads \subseteq Load /\ Sole(loads)
  BY DEF PagesInv, PageSound, Loading, LoadsHold, Sole

LEMMA MovesLoads ==
  ASSUME PagesInv, LoadsHold, NEW v \in Views, Switch(v) \/ Navigate(v) PROVE LoadsHold'
<1>1. loads \subseteq Load /\ Sole(loads)
  BY LoadsWere
<1>2. view' = v
  BY DEF Switch, Navigate
<1>3. \A l : l \in {Reload(v), NewLoad("friends", v, 0)} => LoadHolds(l)' /\ l.kind # "more"
  BY <1>2, ReloadHolds
<1>4. CASE Switch(v)
  <2> DEFINE late == {[l EXCEPT !.late = TRUE] : l \in loads}
  <2>1. loads' = late \cup {Reload(v)}
    BY <1>4 DEF Switch
  <2>2. late \subseteq Load /\ Sole(late)
    BY <1>1, SoleLate DEF Load
  <2>3. \A l \in late : l.late
    BY <1>1, AllLateLoads
  <2> HIDE DEF late
  <2>4. Sole(loads')
    BY <1>3, <2>1, <2>2, SoleLate
  <2> QED BY <1>3, <2>1, <2>3, <2>4, AllNew
<1>5. CASE Navigate(v)
  <2>1. \A l \in loads' : l \in {Reload(v), NewLoad("friends", v, 0)}
    BY <1>5 DEF Navigate, FirstLoads
  <2> QED BY <1>3, <2>1, AllNew DEF Sole
<1> QED BY <1>4, <1>5

LEMMA WritesLoads ==
  ASSUME PagesInv, Awaited, LoadsHold, untold' = untold,
         \E r \in Requests : SubmitPost(r) \/ SaveEdit(r) \/ OthersWrite(r)
  PROVE  LoadsHold'
<1>1. UNCHANGED <<view, list, oldest, overtaken, loads>>
  BY DEF SubmitPost, SaveEdit, OthersWrite, pageVars
<1>2. \A S, o, i : Covered(S, o, i) => Covered(S, o, i)'
  BY PageCovers
<1> QED BY <1>1, <1>2, LoadsWere, LoadsRest

LEMMA LateLoadsHold ==
  ASSUME PagesInv, LoadsHold, UNCHANGED <<view, oldest>>, overtaken => overtaken',
         loads' = Late(loads) \/ loads' = Late(loads) \cup {Reload(view)}
  PROVE  LoadsHold'
<1>1. Late(loads) \subseteq Load /\ Sole(Late(loads))
  BY LoadsWere, LateKeeps, SoleLate DEF PagesInv, PageSound, Loading
<1>2. \A l : l = Reload(view) => LoadHolds(l)' /\ l.kind # "more"
  <2>1. PICK v : v = view
    OBVIOUS
  <2> QED BY <2>1, ReloadHolds
<1>3. Sole(loads')
  <2>1. CASE loads' = Late(loads)
    BY <1>1, <2>1
  <2>2. CASE loads' = Late(loads) \cup {Reload(view)}
    <3>1. PICK l : l = Reload(view)
      OBVIOUS
    <3>2. PICK ls : ls = Late(loads)
      OBVIOUS
    <3>3. Sole(ls \cup {l})
      BY <1>1, <1>2, <3>1, <3>2, SoleLate
    <3> QED BY <2>2, <3>1, <3>2, <3>3
  <2> QED BY <2>1, <2>2
<1> QED BY <1>2, <1>3, LateRest

LEMMA LateActionsLoads ==
  ASSUME PagesInv, LoadsHold,
         \/ SocketDrops \/ OthersRelate \/ RunAction \/ WriteArrives \/ ActionArrives
         \/ HandlePostEvent
         \/ \E r \in Requests : DeleteOwn(r) \/ ServeFails(r)
  PROVE  LoadsHold'
<1>1. overtaken \in BOOLEAN
  BY DEF PagesInv, PageSound
<1>2. CASE SocketDrops \/ OthersRelate \/ RunAction
  BY <1>2, LateLoadsHold DEF SocketDrops, OthersRelate, RunAction
<1>3. CASE WriteArrives \/ HandlePostEvent
  BY <1>1, <1>3, LateLoadsHold DEF WriteArrives, HandlePostEvent
<1>4. CASE ActionArrives
  BY <1>4, LateLoadsHold DEF ActionArrives, Start
<1>5. CASE \E r \in Requests : DeleteOwn(r)
  BY <1>5, LateLoadsHold DEF DeleteOwn
<1>6. CASE \E r \in Requests : ServeFails(r)
  <2>1. UNCHANGED <<view, oldest>> /\ loads' = Late(loads)
    BY <1>6 DEF ServeFails
  <2>2. overtaken => overtaken'
    BY <1>6, Zenon DEF ServeFails
  <2> QED BY <2>1, <2>2, LateLoadsHold
<1> QED BY <1>2, <1>3, <1>4, <1>5, <1>6

LEMMA ServedLoads ==
  ASSUME PagesInv, Warned, Awaited, LoadsHold, \A i \in untold : i < nextId,
         NEW by, SignsTables(by), SignsWriting(by, writing), NEW r \in Requests, ServeRequest(r)
  PROVE  LoadsHold'
<1>1. UNCHANGED <<view, list, oldest>> /\ (overtaken => overtaken')
      /\ loads' = IF Astray(r) \/ (Mine(r) /\ At(r, "deletePost")) THEN Late(loads) ELSE loads
  BY DEF ServeRequest
<1>2. CASE Astray(r) \/ (Mine(r) /\ At(r, "deletePost"))
  BY <1>1, <1>2, LateLoadsHold
<1>3. CASE ~(Astray(r) \/ (Mine(r) /\ At(r, "deletePost")))
  <2>1. \A S, o, i : (\A p \in S : p.id < nextId) /\ Covered(S, o, i) => Covered(S, o, i)'
    BY <1>3, ServedCovered
  <2>2. loads' = loads
    BY <1>1, <1>3
  <2>3. \A l \in loads' : l.late \/ l \in loads \/ LoadHolds(l)'
    BY <2>2
  <2>4. Sole(loads')
    BY <2>2, LoadsWere
  <2> QED BY <1>1, <2>1, <2>3, <2>4, LoadsRest
<1> QED BY <1>2, <1>3

-----------------------------------------------------------------------------
(* A page that the server answers.                                         *)

LEMMA ListedShown ==
  ASSUME PagesInv, NEW p
  PROVE  /\ p \in Listed(view) <=> p \in posts /\ Shown(p)
         /\ ~OnFeed /\ Shown(p) => p.author = view
<1>1. p \in Listed(view) <=> p \in posts /\ Shown(p)
  BY ListedIs DEF PagesInv, Shown
<1>2. ~OnFeed /\ Shown(p) => p.author = view
  BY DEF OnFeed, Tabs, Shown, Sought
<1> QED BY <1>1, <1>2

\* Down to its last post a page is right, and it goes no further up than it
\* was asked for.
LEMMA PageRight ==
  ASSUME PagesInv, NEW before \in Nat, NEW page, page = Page(view, before), NEW i \in RowId
  PROVE  /\ before = 0 \/ i < before => Right(ToSet(page), Reach(page), i)
         /\ before # 0 /\ i >= before => Absent(ToSet(page), i)
         /\ ~OnFeed => \A p \in ToSet(page) : p.author = view
         /\ Reach(page) \in Nat
<1> DEFINE S == ToSet(page)
           o == Reach(page)
<1>1. /\ \A p \in S : p \in posts /\ Shown(p) /\ (before = 0 \/ p.id < before)
      /\ \A p \in posts : Shown(p) /\ (before = 0 \/ p.id < before) /\ p.id >= o => p \in S
  BY PagePosts, ListedShown DEF PagesInv
<1>2. o \in Nat
  BY PageListing, ReachType DEF PagesInv
<1>3. i \in Nat
  BY DEF RowId
<1> HIDE DEF S, o
<1>4. ASSUME before = 0 \/ i < before PROVE Right(S, o, i)
  <2>1. ASSUME NEW p \in posts, p.id = i, Shown(p) PROVE p \in S \/ (i < o /\ Absent(S, i))
    <3>1. CASE i >= o
      BY <1>1, <1>4, <2>1, <3>1
    <3>2. CASE i < o
      <4>1. \A q \in S : q.id = i => q = p
        BY <1>1, <2>1, OneInTable
      <4> QED BY <3>2, <4>1 DEF Absent
    <3> QED BY <1>2, <1>3, <3>1, <3>2
  <2>2. \A p \in S : p.id = i => p \in posts /\ Shown(p)
    BY <1>1
  <2> QED BY <2>1, <2>2 DEF Right
<1>5. ASSUME before # 0, i >= before PROVE Absent(S, i)
  <2> SUFFICES ASSUME NEW p \in S, p.id = i PROVE FALSE
    BY DEF Absent
  <2>1. i < before
    BY <1>1, <1>5
  <2> QED BY <1>3, <1>5, <2>1
<1>6. ~OnFeed => \A p \in S : p.author = view
  BY <1>1, ListedShown
<1> QED BY <1>2, <1>4, <1>5, <1>6 DEF S, o

LEMMA PageMirror ==
  ASSUME PagesInv, NEW page, page = Page(view, 0) PROVE Mirror(ToSet(page), Reach(page))
<1>1. \A i \in RowId : Right(ToSet(page), Reach(page), i)
  BY PageRight
<1>2. 1 \in RowId
  BY DEF RowId, NoId
<1>3. ~OnFeed => \A p \in ToSet(page) : p.author = view
  BY <1>2, PageRight
<1> QED BY <1>1, <1>3 DEF Mirror, Covered

\* An older page beside the list it continues.
LEMMA JoinedMirror ==
  ASSUME PagesInv, NEW before \in Nat, before # 0, before >= oldest,
         NEW page, page = Page(view, before), Mirror(ToSet(list), oldest)
  PROVE  Mirror(Joined(page), Reach(page))
<1> DEFINE S == ToSet(list)
           T == ToSet(page)
           J == Joined(page)
           o == Reach(page)
<1>1. oldest \in Nat
  BY DEF PagesInv, PageSound
<1>2. \A i : Has(i) <=> ~Absent(S, i)
  BY HasSet DEF Absent
<1>3. J = S \cup {p \in T : ~Has(p.id)}
  BY DEF Joined
<1> HIDE DEF J, T, S
<1>4. ASSUME NEW i \in RowId PROVE Covered(J, o, i)
  <2>1. Covered(S, oldest, i) /\ i \in Nat
    BY DEF Mirror, S, RowId
  <2>2. /\ before = 0 \/ i < before => Right(T, o, i)
        /\ before # 0 /\ i >= before => Absent(T, i)
    BY PageRight DEF T
  <2> HIDE DEF o
  <2>3. CASE ~Absent(S, i)
    <3>1. \A p : p.id = i => (p \in S <=> p \in J)
      BY <1>2, <1>3, <2>3
    <3>2. ~Absent(J, i)
      BY <1>3, <2>3 DEF Absent
    <3>3. Right(S, oldest, i) => Right(J, o, i)
      BY <2>3, <3>1 DEF Right
    <3>4. OwnPending(S, oldest, i) => OwnPending(J, o, i)
      BY <2>3, <3>2 DEF OwnPending, Placed
    <3>5. OnItsWay(S, i) => OnItsWay(J, i)
      BY <2>3 DEF OnItsWay
    <3> QED BY <2>1, <3>3, <3>4, <3>5 DEF Covered
  <2>4. CASE Absent(S, i) /\ i < before
    <3>1. \A p : p.id = i => (p \in T <=> p \in J)
      BY <1>2, <1>3, <2>4 DEF Absent
    <3>2. Right(J, o, i)
      BY <2>2, <2>4, <3>1, Agree
    <3> QED BY <3>2 DEF Covered
  <2>5. CASE Absent(S, i) /\ i >= before
    <3>1. Absent(J, i)
      BY <1>3, <2>2, <2>5 DEF Absent
    <3>2. ~(i < oldest)
      BY <1>1, <2>1, <2>5
    <3>3. Right(S, oldest, i) => Right(J, o, i)
      <4>1. ASSUME Right(S, oldest, i), NEW p \in posts, p.id = i, Shown(p) PROVE FALSE
        BY <2>5, <3>2, <4>1 DEF Right, Absent
      <4> QED BY <3>1, <4>1 DEF Right, Absent
    <3>4. OwnPending(S, oldest, i) => OwnPending(J, o, i)
      <4>1. Placed(S, oldest, i) => Placed(J, o, i)
        BY <2>5, <3>1, <3>2 DEF Placed
      <4> QED BY <3>1, <4>1 DEF OwnPending
    <3>5. OnItsWay(S, i) => OnItsWay(J, i)
      BY <3>1 DEF OnItsWay
    <3> QED BY <2>1, <3>3, <3>4, <3>5 DEF Covered
  <2>6. i < before \/ i >= before
    BY <2>1
  <2> QED BY <2>3, <2>4, <2>5, <2>6
<1>5. ASSUME ~OnFeed, NEW p \in J PROVE p.author = view
  <2>1. 1 \in RowId
    BY DEF RowId, NoId
  <2>2. \A q \in T : q.author = view
    BY <1>5, <2>1, PageRight DEF T
  <2>3. \A q \in S : q.author = view
    BY <1>5 DEF Mirror, S
  <2> QED BY <1>3, <2>2, <2>3
<1> QED BY <1>4, <1>5 DEF Mirror, J

-----------------------------------------------------------------------------

LEMMA LoadMoreLoads ==
  ASSUME PagesInv, Awaited, LoadsHold, untold' = untold, LoadMore PROVE LoadsHold'
<1>1. /\ loads' = loads \cup {NewLoad("more", view, Last(list).id)}
      /\ UNCHANGED <<view, list, oldest>> /\ \A l \in loads : l.kind # "more"
      /\ overtaken' = (overtaken \/ Last(list).id < oldest) /\ list # <<>>
  BY DEF LoadMore
<1>2. list \in Seq(Post) /\ oldest \in Nat
  BY DEF PagesInv, PageSound, Listing
<1>3. Last(list).id \in Nat /\ Last(list).id # 0
  <2>1. Len(list) \in 1..Len(list)
    BY <1>1, <1>2, EmptySeq
  <2>2. list[Len(list)] \in Post
    BY <1>2, <2>1, ElementOfSeq
  <2> QED BY <2>2 DEF Last, Post, RowId, NoId
<1>4. PICK l : l = NewLoad("more", view, Last(list).id)
  OBVIOUS
<1>5. PICK c \in Nat : c = Last(list).id
  BY <1>3
<1>6. l.view = view /\ l.kind = "more" /\ l.before = c /\ "posts" \in l.asks
  BY <1>4, <1>5, ReloadIs
<1>7. ~overtaken' => l.before >= oldest /\ l.before # 0
  <2>1. ~overtaken' => ~(c < oldest)
    BY <1>1, <1>5, Zenon
  <2> QED BY <1>2, <1>3, <1>5, <1>6, <2>1
<1>8. LoadHolds(l)'
  BY <1>1, <1>6, <1>7, FreshHolds
<1>9. loads' = loads \cup {l} /\ loads \subseteq Load /\ Sole(loads)
  BY <1>1, <1>4, LoadsWere
<1>10. Sole(loads')
  BY <1>1, <1>9, SoleLate
<1>11. \A S, o, i : Covered(S, o, i) => Covered(S, o, i)'
  BY PageCovers
<1>12. overtaken => overtaken'
  BY <1>1
<1> QED BY <1>1, <1>8, <1>9, <1>10, <1>11, <1>12, LoadsRest

LEMMA LoadFailsLoads ==
  ASSUME PagesInv, Awaited, LoadsHold, untold' = untold, LoadFails PROVE LoadsHold'
<1>1. loads' \subseteq loads /\ UNCHANGED <<view, list, oldest>>
  BY DEF LoadFails
<1>2. overtaken => overtaken'
  BY Zenon DEF LoadFails
<1>3. \A S, o, i : Covered(S, o, i) => Covered(S, o, i)'
  BY PageCovers
<1>4. Sole(loads')
  BY <1>1, LoadsWere, SoleLate
<1> QED BY <1>1, <1>2, <1>3, <1>4, LoadsRest

LEMMA FriendEventLoads ==
  ASSUME PagesInv, Awaited, LoadsHold, untold' = untold, HandleFriendEvent PROVE LoadsHold'
<1>1. UNCHANGED <<view, list, oldest, overtaken>>
  BY DEF HandleFriendEvent
<1>2. CASE OnFeed
  <2>1. PICK l : l = NewLoad("friends", view, 0)
    OBVIOUS
  <2>2. LoadHolds(l)' /\ l.kind # "more"
    <3>1. PICK v : v = view
      OBVIOUS
    <3> QED BY <1>1, <2>1, <3>1, ReloadHolds
  <2>3. loads' = loads \cup {l}
    BY <1>2, <2>1 DEF HandleFriendEvent
  <2>4. Sole(loads')
    BY <2>2, <2>3, LoadsWere, SoleLate
  <2>5. \A S, o, i : Covered(S, o, i) => Covered(S, o, i)'
    BY PageCovers
  <2> QED BY <1>1, <2>2, <2>3, <2>4, <2>5, LoadsRest
<1>3. CASE ~OnFeed
  BY <1>1, <1>3, LateLoadsHold DEF HandleFriendEvent, Start
<1> QED BY <1>2, <1>3

LEMMA ServeLoadLoads ==
  ASSUME PagesInv, Awaited, LoadsHold, ListHolds, untold' = untold, ServeLoad PROVE LoadsHold'
<1>1. PICK l \in loads : \E what \in l.asks :
        loads' = (loads \ {l}) \cup
          {[l EXCEPT !.asks = @ \ {what},
                     !.posts = IF what = "posts" THEN Page(l.view, l.before) ELSE @,
                     !.friends = IF what = "friends" THEN FriendsOf(Me) ELSE @]}
  BY DEF ServeLoad
<1>2. PICK what \in l.asks :
        loads' = (loads \ {l}) \cup
          {[l EXCEPT !.asks = @ \ {what},
                     !.posts = IF what = "posts" THEN Page(l.view, l.before) ELSE @,
                     !.friends = IF what = "friends" THEN FriendsOf(Me) ELSE @]}
  BY <1>1
<1>3. UNCHANGED <<view, list, oldest, overtaken>> /\ loads \subseteq Load /\ Sole(loads)
  BY LoadsWere DEF ServeLoad
<1>4. \A S, o, i : Covered(S, o, i) => Covered(S, o, i)'
  BY PageCovers
<1> DEFINE page == IF what = "posts" THEN Page(l.view, l.before) ELSE l.posts
           names == IF what = "friends" THEN FriendsOf(Me) ELSE l.friends
           new == [l EXCEPT !.asks = l.asks \ {what}, !.posts = page, !.friends = names]
<1>5. PICK e : e = new
  OBVIOUS
<1>6. loads' = (loads \ {l}) \cup {e}
  BY <1>2, <1>5
<1>7. /\ e.kind = l.kind /\ e.view = l.view /\ e.before = l.before /\ e.asks = l.asks \ {what}
      /\ e.posts = page /\ e.late = l.late /\ l.before \in Nat /\ what \in {"posts", "friends"}
  <2>1. l \in Load
    BY <1>3
  <2> HIDE DEF page, names
  <2> QED BY <1>5, <2>1 DEF Load
<1> HIDE DEF new
<1>8. Sole(loads')
  BY <1>3, <1>6, <1>7 DEF Sole
<1>9. ASSUME ~l.late, what = "friends" PROVE LoadHolds(e)'
  <2>1. LoadHolds(l)'
    BY <1>3, <1>4, <1>9, LoadRests DEF LoadsHold
  <2>2. e.posts = l.posts /\ ("posts" \in e.asks <=> "posts" \in l.asks)
    BY <1>7, <1>9
  <2> QED BY <1>7, <2>1, <2>2 DEF LoadHolds
<1>10. ASSUME ~l.late, what = "posts" PROVE LoadHolds(e)'
  <2>1. LoadHolds(l)
    BY <1>10 DEF LoadsHold
  <2>2. e.posts = Page(view, l.before) /\ e.view = view
    BY <1>7, <1>10, <2>1 DEF LoadHolds
  <2> DEFINE o == Reach(e.posts)
  <2>3. ASSUME NEW S, Mirror(S, o) PROVE Mirror(S, o)'
    BY <1>3, <1>4, <2>3, MirrorThen DEF Mirror, OnFeed
  <2>4. l.kind \in {"first", "profile"} => l.before = 0 /\ Mirror(ToSet(e.posts), o)'
    <3>1. PICK T : T = ToSet(e.posts)
      OBVIOUS
    <3>2. l.kind \in {"first", "profile"} => l.before = 0 /\ Mirror(T, o)
      BY <2>1, <2>2, <3>1, PageMirror DEF LoadHolds
    <3>3. l.kind \in {"first", "profile"} => l.before = 0 /\ Mirror(T, o)'
      BY <2>3, <3>2
    <3> QED BY <3>1, <3>3
  <2>5. l.kind = "more" /\ ~overtaken' =>
          l.before >= oldest /\ l.before # 0 /\ Mirror(Joined(e.posts), o)'
    <3>1. PICK J : J = Joined(e.posts)
      OBVIOUS
    <3>2. J = Joined(e.posts)'
      BY <1>3, <3>1 DEF Joined, Has
    <3>3. l.kind = "more" /\ ~overtaken' => l.before >= oldest /\ l.before # 0 /\ Mirror(J, o)
      BY <1>3, <1>7, <2>1, <2>2, <3>1, JoinedMirror DEF LoadHolds, ListHolds
    <3>4. l.kind = "more" /\ ~overtaken' => Mirror(J, o)'
      BY <2>3, <3>3
    <3> QED BY <3>2, <3>3, <3>4, JoinedThen
  <2> QED BY <1>3, <1>7, <2>2, <2>4, <2>5 DEF LoadHolds
<1>11. \A m \in loads' : m.late \/ m \in loads \/ LoadHolds(m)'
  BY <1>6, <1>7, <1>9, <1>10
<1>12. overtaken => overtaken'
  BY <1>3
<1> QED BY <1>3, <1>4, <1>8, <1>11, <1>12, LoadsRest

LEMMA LoadArrivesLoads ==
  ASSUME PagesInv, Awaited, LoadsHold, untold' = untold, LoadArrives PROVE LoadsHold'
<1>1. PICK l \in loads :
      CASE l.kind = "friends" ->
              /\ friendIds' = l.friends
              /\ loads' = loads \ {l}
              /\ UNCHANGED <<list, hasMore, loading, oldest, overtaken>>
         [] l.kind = "more" ->
              /\ list' = AppendFresh(l.posts)
              /\ hasMore' = (Len(l.posts) = PageSize)
              /\ oldest' = Reach(l.posts)
              /\ overtaken' = (overtaken \/ l.late)
              /\ loads' = loads \ {l}
              /\ UNCHANGED <<loading, friendIds>>
         [] OTHER ->
              /\ ShowPage(l.posts)
              /\ loading' = FALSE
              /\ friendIds' = IF l.kind = "profile" THEN l.friends ELSE friendIds
              /\ overtaken' = l.late
              /\ loads' = Displaced(loads \ {l})
  BY DEF LoadArrives
<1>2. \A S, o, i : Covered(S, o, i) => Covered(S, o, i)'
  BY PageCovers
<1>3. loads \subseteq Load /\ Sole(loads) /\ view' = view
  BY LoadsWere DEF LoadArrives
<1>4. CASE l.kind = "friends"
  <2>1. loads' = loads \ {l} /\ UNCHANGED <<list, oldest, overtaken>>
    BY <1>1, <1>4
  <2>2. Sole(loads')
    BY <1>3, <2>1, SoleLate
  <2> QED BY <1>2, <1>3, <2>1, <2>2, LoadsRest
<1>5. CASE l.kind = "more"
  <2>1. loads' = loads \ {l}
    BY <1>1, <1>5
  <2>2. Sole(loads')
    BY <1>3, <2>1, SoleLate
  <2>3. \A m \in loads' : m.kind # "more"
    BY <1>3, <1>5, <2>1 DEF Sole
  <2>4. PICK ls : ls = loads'
    OBVIOUS
  <2>5. \A m \in ls : m.late \/ LoadHolds(m)'
    BY <1>2, <1>3, <2>1, <2>3, <2>4, LoadRests DEF LoadsHold
  <2> QED BY <2>2, <2>4, <2>5, AllNew
<1>6. CASE l.kind \notin {"friends", "more"}
  <2>1. loads' = Displaced(loads \ {l})
    BY <1>1, <1>6
  <2>2. Sole(loads')
    <3>1. PICK ls : ls = loads \ {l}
      OBVIOUS
    <3>2. ls \subseteq Load /\ Sole(ls)
      BY <1>3, <3>1, SoleLate
    <3> QED BY <2>1, <3>1, <3>2, SoleLate
  <2>3. PICK ls : ls = loads'
    OBVIOUS
  <2>4. ASSUME NEW m \in ls, ~m.late PROVE LoadHolds(m)'
    <3>1. PICK e \in loads : SameLoad(m, e) /\ "posts" \in m.asks /\ m.kind # "more"
      BY <1>3, <2>1, <2>3, <2>4, DisplacedLoads
    <3>2. m = e /\ LoadHolds(m)
      BY <2>4, <3>1 DEF SameLoad, LoadsHold
    <3> QED BY <1>3, <3>1, <3>2, FreshHolds DEF LoadHolds
  <2> QED BY <2>2, <2>3, <2>4, AllNew
<1> QED BY <1>4, <1>5, <1>6

-----------------------------------------------------------------------------
(* What the list has, after each action.                                   *)

LEMMA ListThen ==
  ASSUME NEW S, S = ToSet(list'), NEW o, o = oldest', ~overtaken' => Mirror(S, o)'
  PROVE  ListHolds'
<1> SUFFICES ASSUME ~overtaken' PROVE Mirror(ToSet(list), oldest)'
  BY DEF ListHolds
<1>1. /\ \A i \in RowId : Covered(S, o, i)'
      /\ ~OnFeed' => \A p \in S : p.author = view'
  BY DEF Mirror
<1>2. ASSUME NEW i \in RowId PROVE Covered(ToSet(list), oldest, i)'
  BY <1>1 DEF Covered, Right, OwnPending, OnItsWay, Placed, Absent
<1>3. (~OnFeed => \A p \in ToSet(list) : p.author = view)'
  BY <1>1
<1> QED BY <1>2, <1>3 DEF Mirror

LEMMA OvertakenHolds == ASSUME overtaken' PROVE ListHolds'
  BY DEF ListHolds

LEMMA OvertakenStays == ASSUME PagesInv PROVE overtaken \in BOOLEAN
  BY DEF PagesInv, PageSound

LEMMA ListRests ==
  ASSUME PagesInv, ListHolds, UNCHANGED <<view, list, oldest>>, overtaken => overtaken',
         ~overtaken' => \A i \in RowId : Covered(ToSet(list), oldest, i) =>
           \A S, o : S = ToSet(list) /\ o = oldest => Covered(S, o, i)'
  PROVE  ListHolds'
<1>1. PICK S : S = ToSet(list)
  OBVIOUS
<1>2. PICK o : o = oldest
  OBVIOUS
<1>3. ~overtaken' => Mirror(S, o)'
  <2> SUFFICES ASSUME ~overtaken' PROVE Mirror(S, o)'
    OBVIOUS
  <2>1. Mirror(S, o)
    BY <1>1, <1>2 DEF ListHolds
  <2>2. \A i \in RowId : Covered(S, o, i)'
    BY <1>1, <1>2, <2>1 DEF Mirror
  <2>3. ~OnFeed' => \A p \in S : p.author = view'
    BY <2>1 DEF Mirror, OnFeed
  <2> QED BY <2>2, <2>3, MirrorThen
<1> QED BY <1>1, <1>2, <1>3, ListThen

LEMMA RestList ==
  ASSUME PagesInv, Awaited, ListHolds, untold' = untold,
         \/ LoadMore \/ LoadFails \/ ServeLoad \/ HandleFriendEvent \/ ActionArrives
         \/ \E r \in Requests : SubmitPost(r) \/ SaveEdit(r) \/ OthersWrite(r)
  PROVE  ListHolds'
<1>1. \A S, o, i : Covered(S, o, i) => Covered(S, o, i)'
  BY PageCovers
<1>2. UNCHANGED <<view, list, oldest>>
  BY DEF LoadMore, LoadFails, ServeLoad, HandleFriendEvent, ActionArrives, SubmitPost, SaveEdit,
         OthersWrite, pageVars
<1>3. overtaken => overtaken'
  BY Zenon DEF LoadMore, LoadFails, ServeLoad, HandleFriendEvent, ActionArrives, SubmitPost,
         SaveEdit,
         OthersWrite, pageVars
<1> QED BY <1>1, <1>2, <1>3, ListRests

LEMMA FailsList ==
  ASSUME PagesInv, Awaited, ListHolds, NEW by, SignsTables(by), NEW r \in Requests, ServeFails(r)
  PROVE  ListHolds'
<1>1. UNCHANGED <<view, list, oldest>>
  BY DEF ServeFails
<1>2. overtaken => overtaken'
  BY Zenon DEF ServeFails
<1>3. ~overtaken' => \A S, o, i : Covered(S, o, i) => Covered(S, o, i)'
  BY FailCovered
<1> QED BY <1>1, <1>2, <1>3, ListRests

LEMMA ServedList ==
  ASSUME PagesInv, Warned, Awaited, ListHolds, \A i \in untold : i < nextId,
         NEW by, SignsTables(by), SignsWriting(by, writing), NEW r \in Requests, ServeRequest(r)
  PROVE  ListHolds'
<1> DEFINE q == requests[r]
<1>1. UNCHANGED <<view, list, oldest>> /\ PostStep(r)
  BY DEF ServeRequest
<1>2. (overtaken => overtaken') /\ (~overtaken' => ~Astray(r))
  BY Zenon DEF ServeRequest
<1>3. PICK S : S = ToSet(list)
  OBVIOUS
<1>4. \A p \in S : p.id < nextId
  BY <1>3, InSet DEF PagesInv, PageSound
<1>5. ASSUME ~Astray(r), Mine(r), At(r, "deletePost") PROVE Absent(S, q.post)
  <2>1. q.pc = "deletePost" /\ DeletePost(r)
    <3>1. q.pc = "deletePost" /\ "deletePost" \notin {"insertPost", "loadPost", "updatePost",
                 "refetchPost", "audience", "emit"}
      BY <1>5 DEF At
    <3> QED BY <1>1, <3>1, WhichStep DEF InsertPost, LoadPost, UpdatePost, RefetchPost, Audience,
                 EmitEvent, At
  <2>2. q.found \in posts
    BY <1>5, <2>1 DEF Astray, Overtakes
  <2>3. q.found.id = q.post /\ SignsRequest(by, q)
    BY <2>1, KnowsPost
  <2>4. posts' = {p \in posts : p.id # q.post}
    BY <2>1, <2>3, DeleteEffect
  <2>5. posts' # posts
    BY <2>2, <2>3, <2>4
  <2>6. ~Has(q.post)
    BY <1>5, <2>5 DEF Astray, Unheard
  <2> QED BY <1>3, <2>6, HasSet DEF Absent
<1>6. ~overtaken' => \A o : \A i \in RowId : Covered(S, o, i) => Covered(S, o, i)'
  BY <1>2, <1>4, <1>5, ServedCovered
<1> QED BY <1>1, <1>2, <1>3, <1>6, ListRests

LEMMA ArrivesList ==
  ASSUME PagesInv, Awaited, ListHolds, LoadsHold, untold' = untold, LoadArrives PROVE ListHolds'
<1>1. PICK l \in loads : l.asks = {} /\
      CASE l.kind = "friends" ->
              /\ friendIds' = l.friends
              /\ loads' = loads \ {l}
              /\ UNCHANGED <<list, hasMore, loading, oldest, overtaken>>
         [] l.kind = "more" ->
              /\ list' = AppendFresh(l.posts)
              /\ hasMore' = (Len(l.posts) = PageSize)
              /\ oldest' = Reach(l.posts)
              /\ overtaken' = (overtaken \/ l.late)
              /\ loads' = loads \ {l}
              /\ UNCHANGED <<loading, friendIds>>
         [] OTHER ->
              /\ ShowPage(l.posts)
              /\ loading' = FALSE
              /\ friendIds' = IF l.kind = "profile" THEN l.friends ELSE friendIds
              /\ overtaken' = l.late
              /\ loads' = Displaced(loads \ {l})
  BY DEF LoadArrives
<1>2. view' = view /\ \A S, o, i : Covered(S, o, i) => Covered(S, o, i)'
  BY PageCovers
<1>3. ASSUME NEW S, NEW o, Mirror(S, o) PROVE Mirror(S, o)'
  BY <1>2, <1>3, MirrorThen DEF Mirror, OnFeed
<1>4. l \in Load /\ Listing(l.posts, nextId) /\ list \in Seq(Post)
  BY DEF PagesInv, PageSound, Loading, Listing
<1>5. l.kind \in {"first", "more", "friends", "profile"} /\ l.late \in BOOLEAN
  BY <1>4 DEF Load
<1>6. PICK S : S = ToSet(list')
  OBVIOUS
<1>7. PICK o : o = oldest'
  OBVIOUS
<1>8. CASE l.kind = "friends"
  <2>1. UNCHANGED <<list, oldest, overtaken>>
    BY <1>1, <1>8
  <2> QED BY <1>2, <2>1, ListRests
<1>9. CASE l.kind = "more"
  <2>1. /\ list' = AppendFresh(l.posts) /\ oldest' = Reach(l.posts)
        /\ overtaken' = (overtaken \/ l.late)
    BY <1>1, <1>9
  <2>2. ToSet(AppendFresh(l.posts)) = Joined(l.posts)
    BY <1>4, AppendFreshSet DEF Listing
  <2>3. ~overtaken' => ~overtaken /\ ~l.late
    BY <2>1, Zenon
  <2>4. ~overtaken' => Mirror(S, o)
    BY <1>1, <1>6, <1>7, <1>9, <2>1, <2>2, <2>3 DEF LoadsHold, LoadHolds
  <2> QED BY <1>3, <1>6, <1>7, <2>4, ListThen
<1>10. CASE l.kind \in {"first", "profile"}
  <2>1. list' = l.posts /\ oldest' = Reach(l.posts) /\ overtaken' = l.late
    BY <1>1, <1>10 DEF ShowPage
  <2>2. ~overtaken' => Mirror(S, o)
    BY <1>1, <1>6, <1>7, <1>10, <2>1 DEF LoadsHold, LoadHolds
  <2> QED BY <1>3, <1>6, <1>7, <2>2, ListThen
<1> QED BY <1>5, <1>8, <1>9, <1>10

LEMMA DeleteOwnList ==
  ASSUME PagesInv, Awaited, ListHolds, untold' = untold, NEW r \in Requests, DeleteOwn(r)
  PROVE  ListHolds'
<1>1. PICK k \in DOMAIN list :
       /\ Receive(r, "deletePost", "loadPost", Me, list[k].id, NoId, "public", FALSE)
       /\ list' = Without(list[k].id)
       /\ writing' = Write("deletePost", r, list[k])
  BY DEF DeleteOwn
<1>2. PICK i : i = list[k].id
  OBVIOUS
<1>3. PICK S : S = ToSet(list)
  OBVIOUS
<1>4. PICK T : T = ToSet(list')
  OBVIOUS
<1>5. T = {p \in S : p.id # i}
  BY <1>1, <1>2, <1>3, <1>4, WithoutSet DEF Without, PagesInv, PageSound
<1>6. PICK o : o = oldest
  OBVIOUS
<1>7. oldest' = oldest /\ overtaken' = overtaken /\ view' = view
  BY DEF DeleteOwn
<1>8. \A U, j : Covered(U, o, j) => Covered(U, o, j)'
  BY PageCovers
<1>9. Covered(T, o, i)'
  <2>1. requests'[r].pc = "loadPost"
    BY <1>1 DEF Receive, PagesInv, SharingInv, TypeOK
  <2>2. /\ writing' # NotWriting /\ writing'.op = "deletePost" /\ writing'.phase = "sent"
        /\ writing'.at = r /\ writing'.row.id = i
    <3>1. PICK w : w = Write("deletePost", r, list[k])
      OBVIOUS
    <3>2. w.op = "deletePost" /\ w.phase = "sent" /\ w.at = r /\ w.row.id = i
      BY <1>2, <3>1 DEF Write
    <3>3. NotWriting.phase = "none"
      BY DEF NotWriting
    <3> HIDE DEF NotWriting
    <3>4. w # NotWriting
      BY <3>2, <3>3
    <3> QED BY <1>1, <3>1, <3>2, <3>4
  <2>3. Absent(T, i)'
    BY <1>5 DEF Absent
  <2>4. OwnPending(T, o, i)'
    BY <2>1, <2>2, <2>3 DEF OwnPending, Deleting
  <2> QED BY <2>4, CoveredThen
<1>10. ~overtaken' => Mirror(T, o)'
  <2> SUFFICES ASSUME ~overtaken' PROVE Mirror(T, o)'
    OBVIOUS
  <2>1. Mirror(S, o)
    BY <1>3, <1>6, <1>7 DEF ListHolds
  <2>2. ASSUME NEW j \in RowId PROVE Covered(T, o, j)'
    <3>1. CASE j = i
      BY <1>9, <3>1
    <3>2. CASE j # i
      <4>1. \A p : p.id = j => (p \in S <=> p \in T)
        BY <1>5, <3>2
      <4>2. Covered(T, o, j)
        BY <2>1, <4>1, Agree DEF Mirror
      <4> QED BY <1>8, <4>2
    <3> QED BY <3>1, <3>2
  <2>3. ~OnFeed' => \A p \in T : p.author = view'
    BY <1>5, <1>7, <2>1 DEF Mirror, OnFeed
  <2> QED BY <2>2, <2>3, MirrorThen
<1> QED BY <1>4, <1>6, <1>7, <1>10, ListThen

-----------------------------------------------------------------------------
(* The answer to the page's own write.                                     *)

\* No longer a matter of the answer that has just come.
Settled(T, o, j) == Right(T, o, j) \/ (Covered(T, o, j) /\ ~OwnPending(T, o, j))

Answered == writing # NotWriting /\ writing.phase \in {"ok", "failed"} /\ writing.op # "relate"

LEMMA SettledSame ==
  ASSUME NEW S, NEW T, NEW o, NEW j, \A p : p.id = j => (p \in S <=> p \in T),
         Covered(S, o, j), ~OwnPending(S, o, j)
  PROVE  Settled(T, o, j)
<1>1. Covered(T, o, j)
  BY Agree
<1>2. OwnPending(T, o, j) => OwnPending(S, o, j)
  BY Agree
<1> QED BY <1>1, <1>2 DEF Settled

LEMMA PendingAnswer ==
  ASSUME Answered, NEW S, NEW o, NEW j, OwnPending(S, o, j)
  PROVE  /\ writing.row.id = j
         /\ writing.op = "deletePost" => writing.phase = "failed"
         /\ writing.op # "deletePost" => writing.phase = "ok" /\ writing.row # Undefined
         /\ writing.op = "createPost" => Absent(S, j)
         /\ writing.op = "updatePost" => Placed(S, o, j)
  BY DEF Answered, OwnPending, Written, Deleting

\* What the answer brings is a version of Me's own, and the one of the table.
LEMMA AnswerOf ==
  ASSUME PagesInv, NEW by, Signed(by), Answered, writing.op # "deletePost", ~Outdated,
         writing.row # Undefined
  PROVE  LET p == writing.row IN
         /\ p \in posts /\ p \in Post /\ by[p.id] = Me /\ p.author = Me
         /\ \A q \in posts : q.id = p.id => q = p
         /\ Matches(p) <=> Shown(p)
<1> DEFINE p == writing.row
<1>1. p \in posts
  BY DEF Outdated
<1>2. by[p.id] = Me /\ p.author = Me
  BY DEF Signed, SignsWriting, Answered
<1>3. p \in Post /\ \A q \in posts : q.id = p.id => q = p
  BY <1>1, OneInTable
<1>4. SharingInv /\ view \in Tabs \cup Users
  BY DEF PagesInv, PageSound
<1>5. Matches(p) <=> Shown(p)
  <2> HIDE DEF p
  <2> QED BY <1>2, <1>3, <1>4, MatchesIs DEF Shown
<1> QED BY <1>1, <1>2, <1>3, <1>5

LEMMA CreateAnswers ==
  ASSUME PagesInv, NEW by, Signed(by), Answered, writing.op = "createPost", ~Outdated,
         NEW S, S = ToSet(list), NEW T, T = ToSet(AfterWrite), NEW o, NEW j, Covered(S, o, j)
  PROVE  Settled(T, o, j) /\ T \subseteq S \cup {p \in posts : Shown(p)}
<1> DEFINE p == writing.row
<1>1. CASE writing.phase = "failed" \/ p = Undefined
  <2>1. T = S
    BY <1>1 DEF AfterWrite
  <2>2. ~OwnPending(S, o, j)
    BY <1>1, PendingAnswer DEF Answered
  <2> QED BY <2>1, <2>2, SettledSame
<1>2. CASE ~(writing.phase = "failed" \/ p = Undefined)
  <2>1. /\ p \in posts /\ p \in Post /\ (Matches(p) <=> Shown(p))
        /\ \A q \in posts : q.id = p.id => q = p
    BY <1>2, AnswerOf
  <2>2. AfterWrite = Inserted(p)
    BY <1>2 DEF AfterWrite
  <2>3. list \in Seq(Post)
    BY DEF PagesInv, PageSound, Listing
  <2>4. ToSet(Inserted(p)) = ToSet(list) \cup (IF Matches(p) /\ ~Has(p.id) THEN {p} ELSE {})
    BY <2>1, <2>3, InsertedSet
  <2>5. T = S \cup (IF Matches(p) /\ ~Has(p.id) THEN {p} ELSE {})
    BY <2>2, <2>4
  <2>6. Has(p.id) <=> ~Absent(S, p.id)
    BY HasSet DEF Absent
  <2>7. CASE j # p.id
    <3>1. \A q : q.id = j => (q \in S <=> q \in T)
      BY <2>5, <2>7
    <3>2. ~OwnPending(S, o, j)
      BY <2>7, PendingAnswer
    <3> QED BY <2>1, <2>5, <3>1, <3>2, SettledSame
  <2>8. CASE j = p.id /\ Has(p.id)
    <3>1. T = S
      BY <2>5, <2>8
    <3>2. ~OwnPending(S, o, j)
      BY <2>6, <2>8, PendingAnswer
    <3> QED BY <3>1, <3>2, SettledSame
  <2>9. CASE j = p.id /\ ~Has(p.id)
    <3>1. \A q \in S : q.id # j
      BY <2>6, <2>9 DEF Absent
    <3>2. T = S \cup (IF Shown(p) THEN {p} ELSE {})
      BY <2>1, <2>5, <2>9
    <3>3. Right(T, o, j)
      BY <2>1, <2>9, <3>1, <3>2 DEF Right
    <3> QED BY <2>1, <3>2, <3>3 DEF Settled
  <2> QED BY <2>7, <2>8, <2>9
<1> QED BY <1>1, <1>2

LEMMA UpdateAnswers ==
  ASSUME PagesInv, NEW by, Signed(by), Answered, writing.op = "updatePost", ~Outdated,
         NEW S, S = ToSet(list), NEW T, T = ToSet(AfterWrite), NEW o, NEW j, Covered(S, o, j),
         ~OnFeed => \A p \in S : p.author = view
  PROVE  Settled(T, o, j) /\ T \subseteq S \cup {p \in posts : Shown(p)}
<1> DEFINE p == writing.row
<1>1. CASE writing.phase = "failed" \/ p = Undefined
  <2>1. T = S
    BY <1>1 DEF AfterWrite
  <2>2. ~OwnPending(S, o, j)
    BY <1>1, PendingAnswer DEF Answered
  <2> QED BY <2>1, <2>2, SettledSame
<1>2. CASE ~(writing.phase = "failed" \/ p = Undefined)
  <2>1. /\ p \in posts /\ p \in Post /\ (Matches(p) <=> Shown(p))
        /\ by[p.id] = Me /\ p.author = Me /\ \A q \in posts : q.id = p.id => q = p
    BY <1>2, AnswerOf
  <2>2. Listing(list, nextId)
    BY DEF PagesInv, PageSound
  <2>3. CASE OnFeed
    <3>1. AfterWrite = Upsert(p)
      BY <1>2, <2>3 DEF AfterWrite
    <3>2. ToSet(Upsert(p)) = {q \in ToSet(list) : q.id # p.id} \cup (IF Matches(p) THEN {p} ELSE {})
      BY <2>1, <2>2, UpsertSet
    <3>3. T = {q \in S : q.id # p.id} \cup (IF Shown(p) THEN {p} ELSE {})
      BY <2>1, <3>1, <3>2
    <3>4. CASE j # p.id
      <4>1. \A q : q.id = j => (q \in S <=> q \in T)
        BY <3>3, <3>4
      <4>2. ~OwnPending(S, o, j)
        BY <3>4, PendingAnswer
      <4> QED BY <2>1, <3>3, <4>1, <4>2, SettledSame
    <3>5. CASE j = p.id
      <4>1. Right(T, o, j)
        BY <2>1, <3>3, <3>5 DEF Right
      <4> QED BY <2>1, <3>3, <4>1 DEF Settled
    <3> QED BY <3>4, <3>5
  <2>4. CASE ~OnFeed
    <3>1. AfterWrite = Replaced(p)
      BY <1>2, <2>4 DEF AfterWrite
    <3>2. ToSet(Replaced(p)) =
            {q \in ToSet(list) : q.id # p.id} \cup (IF Has(p.id) THEN {p} ELSE {})
      BY ReplacedSet
    <3>3. T = {q \in S : q.id # p.id} \cup (IF Has(p.id) THEN {p} ELSE {})
      BY <3>1, <3>2
    <3>4. Has(p.id) <=> ~Absent(S, p.id)
      BY HasSet DEF Absent
    <3>5. Has(p.id) => Shown(p)
      <4> SUFFICES ASSUME Has(p.id) PROVE Shown(p)
        OBVIOUS
      <4>1. PICK q \in S : q.id = p.id
        BY <3>4 DEF Absent
      <4>2. q.author = view /\ by[q.id] = q.author
        BY <2>4, <4>1 DEF Signed, SignsPosts
      <4>3. view = Me /\ view \notin Tabs
        BY <2>1, <2>4, <4>1, <4>2 DEF OnFeed
      <4>4. Sought(view, Me)
        BY <4>3 DEF Sought, Tabs
      <4> QED BY <2>1, <4>4, OwnShown
    <3>6. CASE j # p.id
      <4>1. \A q : q.id = j => (q \in S <=> q \in T)
        BY <3>3, <3>6
      <4>2. ~OwnPending(S, o, j)
        BY <3>6, PendingAnswer
      <4> QED BY <2>1, <3>3, <3>5, <4>1, <4>2, SettledSame
    <3>7. CASE j = p.id /\ Has(p.id)
      <4>1. T = {q \in S : q.id # p.id} \cup {p}
        BY <3>3, <3>7
      <4>2. Right(T, o, j)
        BY <2>1, <3>5, <3>7, <4>1 DEF Right
      <4> QED BY <2>1, <3>5, <3>7, <4>1, <4>2 DEF Settled
    <3>8. CASE j = p.id /\ ~Has(p.id)
      <4>1. T = S
        BY <3>3, <3>4, <3>8 DEF Absent
      <4>2. Absent(S, j)
        BY <3>4, <3>8
      <4>3. CASE OwnPending(S, o, j)
        <5>1. Placed(S, o, j)
          BY <4>3, PendingAnswer
        <5>2. Right(S, o, j)
          BY <4>2, <5>1 DEF Right, Placed, Absent
        <5> QED BY <4>1, <5>2 DEF Settled
      <4>4. CASE ~OwnPending(S, o, j)
        BY <4>1, <4>4, SettledSame
      <4> QED BY <4>1, <4>3, <4>4
    <3> QED BY <3>6, <3>7, <3>8
  <2> QED BY <2>3, <2>4
<1> QED BY <1>1, <1>2

LEMMA DeleteAnswers ==
  ASSUME PagesInv, NEW by, Signed(by), Answered, writing.op = "deletePost", ~Outdated,
         NEW S, S = ToSet(list), NEW T, T = ToSet(AfterWrite), NEW o, NEW j, Covered(S, o, j)
  PROVE  Settled(T, o, j) /\ T \subseteq S \cup {p \in posts : Shown(p)}
<1> DEFINE p == writing.row
           b == writing.backup
<1>1. CASE writing.phase = "ok"
  <2>1. T = S
    BY <1>1 DEF AfterWrite
  <2>2. ~OwnPending(S, o, j)
    BY <1>1, PendingAnswer
  <2> QED BY <2>1, <2>2, SettledSame
<1>2. CASE writing.phase = "failed"
  <2>1. AfterWrite = b
    BY <1>2 DEF AfterWrite, RestoreBackup
  <2>2. list = WithoutOf(b, p.id) /\ p \in Listed(view)
    BY <1>2 DEF Outdated
  <2>3. Listing(b, nextId)
    BY DEF PagesInv, PageSound, Saving, Answered
  <2>4. p \in ToSet(b)
    BY DEF Signed, SignsWriting, Answered
  <2>5. p \in posts /\ Shown(p)
    BY <2>2, ListedShown
  <2>6. \A q \in posts : q.id = p.id => q = p
    BY <2>5, OneInTable
  <2>7. T = ToSet(b)
    BY <2>1
  <2>8. S = {q \in T : q.id # p.id}
    BY <2>2, <2>3, <2>7, WithoutSet
  <2>9. \A q \in T : q.id = p.id => q = p
    BY <2>3, <2>4, <2>7, OneVersion
  <2>10. CASE j # p.id
    <3>1. \A q : q.id = j => (q \in S <=> q \in T)
      BY <2>8, <2>10
    <3>2. ~OwnPending(S, o, j)
      BY <2>10, PendingAnswer
    <3> QED BY <2>5, <2>8, <2>9, <3>1, <3>2, SettledSame
  <2>11. CASE j = p.id
    <3>1. Right(T, o, j)
      BY <2>4, <2>5, <2>6, <2>7, <2>9, <2>11 DEF Right
    <3> QED BY <2>5, <2>8, <2>9, <3>1 DEF Settled
  <2> QED BY <2>10, <2>11
<1> QED BY <1>1, <1>2 DEF Answered

LEMMA SettledRests ==
  ASSUME Awaited, UNCHANGED <<server, view, untold, inbox>>, NEW T, NEW o, NEW j, Settled(T, o, j)
  PROVE  Covered(T, o, j)'
<1>1. UNCHANGED <<posts, friends, blocked, requests>>
  BY DEF server, postTables, relations
<1>2. Waits(j)
  BY DEF Waits
<1>3. Kept(j)
  BY <1>1 DEF Kept
<1>4. CASE Right(T, o, j)
  BY <1>1, <1>3, <1>4, RightKept, CoveredThen
<1>5. CASE Covered(T, o, j) /\ ~OwnPending(T, o, j)
  BY <1>1, <1>2, <1>5, CoveredRests
<1> QED BY <1>4, <1>5 DEF Settled

LEMMA WriteArrivesList ==
  ASSUME PagesInv, Awaited, ListHolds, NEW by, Signed(by), untold' = untold, WriteArrives
  PROVE  ListHolds'
<1>1. /\ writing # NotWriting /\ writing.phase # "sent" /\ writing.op # "relate"
      /\ list' = AfterWrite /\ UNCHANGED <<server, view, inbox, oldest>>
  BY DEF WriteArrives
<1>2. (overtaken => overtaken') /\ (~overtaken' => ~Outdated)
  BY Zenon DEF WriteArrives
<1>3. Answered /\ writing.op \in {"createPost", "updatePost", "deletePost"}
  BY <1>1 DEF Answered, PagesInv, PageSound, Saving, Writing
<1>4. PICK S : S = ToSet(list)
  OBVIOUS
<1>5. PICK T : T = ToSet(AfterWrite)
  OBVIOUS
<1>6. T = ToSet(list')
  BY <1>1, <1>5
<1>7. PICK o : o = oldest
  OBVIOUS
<1>8. ~overtaken' => Mirror(T, o)'
  <2> SUFFICES ASSUME ~overtaken' PROVE Mirror(T, o)'
    OBVIOUS
  <2>1. Mirror(S, o) /\ ~Outdated
    BY <1>2, <1>4, <1>7 DEF ListHolds
  <2>2. ~OnFeed => \A p \in S : p.author = view
    BY <2>1 DEF Mirror
  <2>3. ASSUME NEW j \in RowId
        PROVE  Settled(T, o, j) /\ T \subseteq S \cup {p \in posts : Shown(p)}
    <3>1. Covered(S, o, j)
      BY <2>1 DEF Mirror
    <3>2. CASE writing.op = "createPost"
      BY <1>3, <1>4, <1>5, <2>1, <3>1, <3>2, CreateAnswers
    <3>3. CASE writing.op = "updatePost"
      BY <1>3, <1>4, <1>5, <2>1, <2>2, <3>1, <3>3, UpdateAnswers
    <3>4. CASE writing.op = "deletePost"
      BY <1>3, <1>4, <1>5, <2>1, <3>1, <3>4, DeleteAnswers
    <3> QED BY <1>3, <3>2, <3>3, <3>4
  <2>4. \A j \in RowId : Covered(T, o, j)'
    BY <1>1, <2>3, SettledRests
  <2>5. ~OnFeed' => \A p \in T : p.author = view'
    <3>1. 1 \in RowId
      BY DEF RowId, NoId
    <3>2. T \subseteq S \cup {p \in posts : Shown(p)}
      BY <2>3, <3>1
    <3>3. ~OnFeed => \A p \in posts : Shown(p) => p.author = view
      BY ListedShown
    <3> QED BY <1>1, <2>2, <3>2, <3>3 DEF OnFeed
  <2> QED BY <2>4, <2>5, MirrorThen
<1> QED BY <1>1, <1>6, <1>7, <1>8, ListThen

-----------------------------------------------------------------------------
(* An event of somebody else's post.                                       *)

LEMMA GoneRight ==
  ASSUME NEW S, NEW o, NEW i, Absent(S, i), ~Now(i) PROVE Right(S, o, i)
  BY DEF Right, Absent, Now, PostById, Shown

\* The event at hand, for a page that knows its friends.
EventKnown(m) ==
  /\ inbox # <<>> /\ m = Head(inbox) /\ m.kind # "friends"
  /\ friendIds = FriendsOf(Me) /\ ~BlockedPair(Me, m.from)

LEMMA EventIs ==
  ASSUME PagesInv, NEW by, Signed(by), NEW m, EventKnown(m)
  PROVE  /\ m.from # Me /\ by[m.about.id] = m.from
         /\ m.kind \in {"post:created", "post:updated", "post:deleted"}
         /\ \A p \in ToSet(list) : p.id = m.about.id => p.author = m.from
         /\ \A p \in posts : p.id = m.about.id => p.author = m.from
         /\ \A k \in DOMAIN list : list[k].id = m.about.id => list[k].author # Me
         /\ m.kind = "post:created" => m.carries # Undefined
         /\ m.carries # Undefined =>
              /\ m.carries \in Post /\ m.carries.id = m.about.id /\ m.carries.author = m.from
              /\ Matches(m.carries) <=> Shown(m.carries)
<1>1. SignsEvent(by, m, nextId) /\ PostEvent(m, nextId)
  BY AtHand DEF EventKnown
<1>2. m.from # Me /\ by[m.about.id] = m.from
  BY <1>1 DEF SignsEvent
<1>3. \A p \in ToSet(list) : by[p.id] = p.author
  BY DEF Signed, SignsPosts
<1>4. \A p \in posts : by[p.id] = p.author
  BY DEF Signed, SignsTables, SignsPosts
<1>5. \A k \in DOMAIN list : list[k] \in ToSet(list)
  BY DEF ToSet
<1>6. m.carries # Undefined =>
        m.carries \in Post /\ m.carries.id = m.about.id /\ m.carries.author = m.from
  BY <1>1 DEF SignsEvent, PostEvent
<1>7. m.carries # Undefined => (Matches(m.carries) <=> Shown(m.carries))
  <2> SUFFICES ASSUME m.carries # Undefined PROVE Matches(m.carries) <=> Shown(m.carries)
    OBVIOUS
  <2>1. PICK p \in Post : p = m.carries
    BY <1>6
  <2>2. SharingInv /\ view \in Tabs \cup Users
    BY DEF PagesInv, PageSound
  <2>3. friendIds = FriendsOf(Me) /\ ~BlockedPair(Me, p.author)
    BY <1>6, <2>1 DEF EventKnown
  <2> QED BY <2>1, <2>2, <2>3, MatchesIs DEF Shown
<1>8. /\ m.kind \in {"post:created", "post:updated", "post:deleted"}
      /\ m.kind = "post:created" => m.carries # Undefined
  BY <1>1 DEF PostEvent
<1> QED BY <1>2, <1>3, <1>4, <1>5, <1>6, <1>7, <1>8

\* What the list becomes.
LEMMA EventSet ==
  ASSUME PagesInv, NEW by, Signed(by), NEW m, EventKnown(m),
         NEW S, S = ToSet(list), NEW T, T = ToSet(AfterEvent(m))
  PROVE  LET i == m.about.id
             p == m.carries
             rest == {q \in S : q.id # i}
         IN /\ m.kind = "post:deleted" => T = rest
            /\ m.kind = "post:created" =>
                 T = S \cup (IF Shown(p) /\ Absent(S, i) THEN {p} ELSE {})
            /\ m.kind = "post:updated" =>
                 IF p = Undefined \/ (~OnFeed /\ p.author # view) THEN T = S
                 ELSE T = rest \cup (IF Shown(p) THEN {p} ELSE {})
<1> DEFINE i == m.about.id
           p == m.carries
<1>1. Listing(list, nextId) /\ list \in Seq(Post)
  BY DEF PagesInv, PageSound, Listing
<1>2. CASE m.kind = "post:deleted"
  <2>1. AfterEvent(m) = Without(i)
    BY <1>2, EventIs DEF AfterEvent
  <2> QED BY <1>1, <1>2, <2>1, WithoutSet DEF Without
<1>3. CASE m.kind = "post:created"
  <2>1. /\ p \in Post /\ p.id = i /\ p.author # Me
        /\ Matches(p) <=> Shown(p)
    BY <1>3, EventIs
  <2>2. AfterEvent(m) = Inserted(p)
    BY <1>3, <2>1 DEF AfterEvent
  <2>3. ToSet(Inserted(p)) = ToSet(list) \cup (IF Matches(p) /\ ~Has(p.id) THEN {p} ELSE {})
    BY <1>1, <2>1, InsertedSet
  <2>4. Has(p.id) <=> ~Absent(S, i)
    BY <2>1, HasSet DEF Absent
  <2> QED BY <1>3, <2>1, <2>2, <2>3, <2>4
<1>4. CASE m.kind = "post:updated" /\ (p = Undefined \/ (~OnFeed /\ p.author # view))
  <2>1. AfterEvent(m) = list
    BY <1>4 DEF AfterEvent
  <2> QED BY <1>4, <2>1
<1>5. CASE m.kind = "post:updated" /\ ~(p = Undefined \/ (~OnFeed /\ p.author # view))
  <2>1. /\ p \in Post /\ p.id = i /\ p.author # Me
        /\ Matches(p) <=> Shown(p)
    BY <1>5, EventIs
  <2>2. AfterEvent(m) = Upsert(p)
    BY <1>5, <2>1 DEF AfterEvent
  <2>3. ToSet(Upsert(p)) = {q \in ToSet(list) : q.id # p.id} \cup (IF Matches(p) THEN {p} ELSE {})
    BY <1>1, <2>1, UpsertSet
  <2>4. T = {q \in S : q.id # i} \cup (IF Shown(p) THEN {p} ELSE {})
    BY <2>1, <2>2, <2>3
  <2> QED BY <1>5, <2>4
<1>6. m.kind \in {"post:created", "post:updated", "post:deleted"}
  BY EventIs
<1> QED BY <1>2, <1>3, <1>4, <1>5, <1>6

\* The post it is about, if the event says what is so.
LEMMA EventSettles ==
  ASSUME PagesInv, Awaited, NEW by, Signed(by), NEW m, EventKnown(m), Says(m),
         m.kind = "post:updated" => m.carries # Undefined,
         NEW S, S = ToSet(list), NEW T, T = ToSet(AfterEvent(m)), NEW o, NEW i, i = m.about.id,
         Covered(S, o, i), ~OnFeed => \A p \in S : p.author = view
  PROVE  Right(T, o, i) \/ Promised(i) \/ (m.kind = "post:created" /\ Coming(i))
<1> DEFINE p == m.carries
<1>1. m.kind = "post:deleted" \/ ~Vis(p) => ~Now(i)
  BY DEF Says
<1>2. m.kind # "post:deleted" /\ Vis(p) => p \in posts /\ \A q \in posts : q.id = p.id => q = p
  BY OneInTable DEF Says
<1>3. Shown(p) => Vis(p)
  BY DEF Shown
<1>4. m.kind # "post:deleted" => p # Undefined /\ p.id = i /\ p.author = m.from
  BY EventIs
<1>5. CASE m.kind = "post:deleted"
  <2>1. T = {q \in S : q.id # i}
    BY <1>5, EventSet
  <2>2. Absent(T, i)
    BY <2>1 DEF Absent
  <2> QED BY <1>1, <1>5, <2>2, GoneRight
<1>6. CASE m.kind = "post:created"
  <2>1. T = S \cup (IF Shown(p) /\ Absent(S, i) THEN {p} ELSE {})
    BY <1>6, EventSet
  <2>2. CASE Absent(S, i) /\ Vis(p)
    <3>1. \A q \in S : q.id # i
      BY <2>2 DEF Absent
    <3>2. T = S \cup (IF Shown(p) THEN {p} ELSE {})
      BY <2>1, <2>2
    <3>3. Right(T, o, i)
      BY <1>2, <1>4, <1>6, <2>2, <3>1, <3>2 DEF Right
    <3> QED BY <3>3
  <2>3. CASE Absent(S, i) /\ ~Vis(p)
    <3>1. T = S
      BY <1>3, <2>1, <2>3
    <3> QED BY <1>1, <2>3, <3>1, GoneRight
  <2>4. CASE ~Absent(S, i)
    <3>1. T = S
      BY <2>1, <2>4
    <3>2. ~OwnPending(S, o, i)
      BY OwnIsMine, EventIs DEF Signed
    <3> QED BY <1>6, <2>4, <3>1, <3>2 DEF Covered, OnItsWay
  <2> QED BY <2>2, <2>3, <2>4
<1>7. CASE m.kind = "post:updated"
  <2>1. CASE ~OnFeed /\ p.author # view
    <3>1. T = S
      BY <1>7, <2>1, EventSet
    <3>2. \A q \in S : q.id # i
      BY <1>4, <1>7, <2>1, EventIs
    <3>3. \A q \in posts : q.id = i => ~Shown(q)
      BY <1>4, <1>7, <2>1, EventIs, ListedShown
    <3> QED BY <3>1, <3>2, <3>3 DEF Right
  <2>2. CASE ~(~OnFeed /\ p.author # view)
    <3>1. T = {q \in S : q.id # i} \cup (IF Shown(p) THEN {p} ELSE {})
      BY <1>4, <1>7, <2>2, EventSet
    <3>2. CASE Vis(p)
      BY <1>2, <1>4, <1>7, <3>1, <3>2 DEF Right
    <3>3. CASE ~Vis(p)
      <4>1. Absent(T, i)
        BY <1>3, <3>1, <3>3 DEF Absent
      <4> QED BY <1>1, <3>3, <4>1, GoneRight
    <3> QED BY <3>2, <3>3
  <2> QED BY <2>1, <2>2
<1>8. m.kind \in {"post:created", "post:updated", "post:deleted"}
  BY EventIs
<1> QED BY <1>5, <1>6, <1>7, <1>8

LEMMA EventElsewhere ==
  ASSUME PagesInv, NEW by, Signed(by), NEW m, EventKnown(m),
         NEW S, S = ToSet(list), NEW T, T = ToSet(AfterEvent(m))
  PROVE  /\ \A p : p.id # m.about.id => (p \in S <=> p \in T)
         /\ m.kind = "post:updated" /\ m.carries = Undefined => T = S
         /\ ~OnFeed /\ (\A p \in S : p.author = view) => \A p \in T : p.author = view
<1>1. /\ m.kind \in {"post:created", "post:updated", "post:deleted"}
      /\ m.kind = "post:created" => m.carries # Undefined
      /\ m.carries # Undefined => m.carries.id = m.about.id
  BY EventIs
<1>2. ~OnFeed /\ Shown(m.carries) => m.carries.author = view
  BY ListedShown
<1>3. CASE m.kind = "post:deleted"
  BY <1>3, EventSet
<1>4. CASE m.kind = "post:created"
  BY <1>1, <1>2, <1>4, EventSet
<1>5. CASE m.kind = "post:updated"
  BY <1>1, <1>2, <1>5, EventSet
<1> QED BY <1>1, <1>3, <1>4, <1>5

LEMMA HandledList ==
  ASSUME PagesInv, Awaited, ListHolds, EventsSay, NEW by, Signed(by), untold' = untold,
         HandlePostEvent
  PROVE  ListHolds'
<1> DEFINE m == Head(inbox)
           i == m.about.id
<1>1. /\ inbox # <<>> /\ m.kind # "friends" /\ list' = AfterEvent(m) /\ inbox' = Tail(inbox)
      /\ UNCHANGED <<server, view, writing, oldest>>
  BY DEF HandlePostEvent
<1>2. UNCHANGED <<posts, friends, blocked, requests>>
  BY <1>1 DEF server, postTables, relations
<1>3. ~overtaken' => /\ ~overtaken /\ friendIds = FriendsOf(Me) /\ ~BlockedPair(Me, m.from)
                     /\ i \notin untold
  BY Zenon DEF HandlePostEvent
<1>4. PICK S : S = ToSet(list)
  OBVIOUS
<1>5. PICK T : T = ToSet(AfterEvent(m))
  OBVIOUS
<1>6. T = ToSet(list')
  BY <1>1, <1>5
<1>7. PICK o : o = oldest
  OBVIOUS
<1>8. inbox \in Seq(Event)
  BY DEF PagesInv, PageSound, Arriving
<1>9. /\ 1 \in DOMAIN inbox /\ m = inbox[1]
      /\ \A k \in DOMAIN inbox : k = 1 \/ (k - 1 \in DOMAIN inbox' /\ inbox'[k - 1] = inbox[k])
  BY <1>1, <1>8, BoxTail
<1>10. \A j : Stays(j)
  BY <1>2, IdleStays
<1>11. ~overtaken' => Mirror(T, o)'
  <2> SUFFICES ASSUME ~overtaken' PROVE Mirror(T, o)'
    OBVIOUS
  <2>1. EventKnown(m) /\ i \notin untold /\ Mirror(S, o)
    BY <1>1, <1>3, <1>4, <1>7 DEF EventKnown, ListHolds
  <2>2. \A p : p.id # i => (p \in S <=> p \in T)
    BY <1>4, <1>5, <2>1, EventElsewhere
  <2>3. ASSUME NEW j \in RowId, j # i PROVE Covered(T, o, j)'
    <3>1. Covered(S, o, j)
      BY <2>1 DEF Mirror
    <3>2. Covered(T, o, j)
      BY <2>2, <2>3, <3>1, Agree
    <3>3. Waits(j)
      BY <1>9, <2>3 DEF Waits, Tidings
    <3> QED BY <1>1, <1>2, <3>2, <3>3, CoveredRests
  <2>4. ASSUME NEW j \in RowId, j = i PROVE Covered(T, o, j)'
    <3>1. Covered(S, o, j) /\ (~OnFeed => \A p \in S : p.author = view)
      BY <2>1 DEF Mirror
    <3>2. CASE m.kind = "post:updated" /\ m.carries = Undefined
      <4>1. T = S
        BY <1>4, <1>5, <2>1, <3>2, EventElsewhere
      <4>2. ~Rewrites(m) /\ m.kind # "post:created"
        BY <3>2 DEF Rewrites
      <4>3. Waits(j)
        BY <1>9, <4>2 DEF Waits
      <4> QED BY <1>1, <1>2, <3>1, <4>1, <4>3, CoveredRests
    <3>3. CASE ~(m.kind = "post:updated" /\ m.carries = Undefined)
      <4>1. Reliable(m)
        BY <1>1, <2>1, <3>3 DEF Reliable
      <4>2. Promised(j) => Covered(T, o, j)'
        BY <1>2, <1>10, <2>1, <2>4, PromisedRests, CoveredThen
      <4>3. ASSUME NEW k \in DOMAIN inbox, k # 1, Rewrites(inbox[k]), Tidings(inbox[k], j)
            PROVE  Covered(T, o, j)'
        <5>1. k - 1 \in DOMAIN inbox' /\ inbox'[k - 1] = inbox[k]
          BY <1>9, <4>3
        <5>2. Coming(j)'
          BY <4>3, <5>1, ComingThen
        <5> QED BY <2>1, <2>4, <5>2, CoveredThen
      <4>4. \/ Promised(j)
            \/ \E k \in DOMAIN inbox : 1 < k /\ Rewrites(inbox[k]) /\ Tidings(inbox[k], j)
            \/ Says(m)
        BY <1>9, <2>4, <4>1 DEF EventsSay
      <4>5. CASE Says(m)
        <5>1. \/ Right(T, o, j) \/ Promised(j) \/ (m.kind = "post:created" /\ Coming(j))
          BY <1>4, <1>5, <2>1, <2>4, <3>1, <3>3, <4>5, EventSettles
        <5>2. CASE Right(T, o, j)
          <6>1. Kept(j)
            BY <1>2 DEF Kept
          <6> QED BY <1>1, <1>2, <5>2, <6>1, RightKept, CoveredThen
        <5>3. CASE m.kind = "post:created" /\ Coming(j)
          <6>1. PICK k \in DOMAIN inbox : Rewrites(inbox[k]) /\ Tidings(inbox[k], j)
            BY <5>3 DEF Coming
          <6>2. ~Rewrites(m)
            BY <5>3 DEF Rewrites
          <6>3. k # 1
            BY <1>9, <6>1, <6>2
          <6> QED BY <4>3, <6>1, <6>3
        <5> QED BY <4>2, <5>1, <5>2, <5>3
      <4>6. CASE \E k \in DOMAIN inbox : 1 < k /\ Rewrites(inbox[k]) /\ Tidings(inbox[k], j)
        <5>1. PICK k \in DOMAIN inbox : 1 < k /\ Rewrites(inbox[k]) /\ Tidings(inbox[k], j)
          BY <4>6
        <5>2. k # 1
          BY <5>1
        <5> QED BY <4>3, <5>1, <5>2
      <4> QED BY <4>2, <4>4, <4>5, <4>6
    <3> QED BY <3>2, <3>3
  <2>5. \A j \in RowId : Covered(T, o, j)'
    BY <2>3, <2>4
  <2>6. ~OnFeed => \A p \in T : p.author = view
    BY <1>4, <1>5, <2>1, EventElsewhere DEF Mirror
  <2>7. ~OnFeed' => \A p \in T : p.author = view'
    BY <1>1, <2>6 DEF OnFeed
  <2> QED BY <2>5, <2>7, MirrorThen
<1> QED BY <1>1, <1>6, <1>7, <1>11, ListThen

-----------------------------------------------------------------------------
(* All of it, after each action.                                           *)

Numbered == \A i \in untold : i < nextId

\* The invariant, in terms of who wrote what.
Steady(by) == PagesInv /\ Holds /\ Signed(by)

LEMMA SteadyHas ==
  ASSUME NEW by, Steady(by)
  PROVE  /\ PagesInv /\ Holds /\ Signed(by)
         /\ Awaited /\ Warned /\ EventsSay /\ ListHolds /\ LoadsHold
         /\ \A i \in untold : i < nextId
         /\ SignsTables(by) /\ SignsBox(by, inbox, nextId) /\ SignsWriting(by, writing)
  BY DEF Steady, Holds, Signed

LEMMA NumberedThen ==
  ASSUME \A i \in untold' : i < nextId' PROVE Numbered'
  BY DEF Numbered

\* The server and what it sent stay, but for what is handled.
LEMMA RestTells ==
  ASSUME NEW by, Steady(by), UNCHANGED <<posts, friends, blocked, nextId, untold>>,
         \A s \in Requests : At(s, "idle") \/ requests'[s] = requests[s],
         \A s \in Requests : requests'[s] = requests[s]
                             \/ requests'[s].pc \notin {"deletePost", "emit"},
         inbox' = inbox \/ (inbox # <<>> /\ inbox' = Tail(inbox))
  PROVE  Warned' /\ EventsSay' /\ Numbered'
<1>1. Warned'
  BY SteadyHas, WarnedRests
<1>2. \A i : Stays(i)
  BY IdleStays
<1>3. EventsSay'
  BY <1>2, SteadyHas, SaysRest
<1>4. Numbered'
  BY SteadyHas DEF Numbered
<1> QED BY <1>1, <1>3, <1>4

LEMMA ServerTells ==
  ASSUME NEW by, Steady(by), UNCHANGED <<server, untold>>,
         inbox' = inbox \/ (inbox # <<>> /\ inbox' = Tail(inbox)),
         writing' = NotWriting \/ writing' = writing
  PROVE  Awaited' /\ Warned' /\ EventsSay' /\ Numbered'
<1>1. UNCHANGED <<posts, friends, blocked, nextId, requests>>
  BY DEF server, postTables, relations
<1>2. Awaited'
  BY <1>1, SteadyHas, AwaitedRests
<1> QED BY <1>1, <1>2, RestTells

LEMMA HoldsThen ==
  ASSUME Awaited', Warned', EventsSay', Numbered', ListHolds', LoadsHold' PROVE Holds'
  BY DEF Holds, Numbered

\* The user moves, or what was loaded arrives or does not.
LEMMA PageHolds ==
  ASSUME NEW by, Steady(by), untold' = untold,
         \/ \E v \in Views : Switch(v) \/ Navigate(v)
         \/ LoadMore \/ LoadFails \/ ServeLoad \/ LoadArrives
  PROVE  Holds'
<1>0. /\ PagesInv /\ Awaited /\ ListHolds /\ LoadsHold
  BY SteadyHas
<1>1. CASE \E v \in Views : Switch(v)
  <2>1. overtaken' /\ UNCHANGED <<server, inbox, writing>>
    BY <1>1 DEF Switch
  <2>2. LoadsHold'
    BY <1>0, <1>1, MovesLoads
  <2> QED BY <2>1, <2>2, ServerTells, OvertakenHolds, HoldsThen
<1>2. CASE \E v \in Views : Navigate(v)
  <2>1. overtaken' /\ UNCHANGED <<server, inbox>> /\ writing' = NotWriting
    BY <1>2 DEF Navigate
  <2>2. LoadsHold'
    BY <1>0, <1>2, MovesLoads
  <2> QED BY <2>1, <2>2, ServerTells, OvertakenHolds, HoldsThen
<1>3. CASE LoadMore
  <2>1. UNCHANGED <<server, inbox, writing>>
    BY <1>3 DEF LoadMore
  <2> QED BY <1>0, <1>3, <2>1, LoadMoreLoads, RestList, ServerTells, HoldsThen
<1>4. CASE LoadFails
  <2>1. UNCHANGED <<server, inbox, writing>>
    BY <1>4 DEF LoadFails
  <2> QED BY <1>0, <1>4, <2>1, LoadFailsLoads, RestList, ServerTells, HoldsThen
<1>5. CASE ServeLoad
  <2>1. UNCHANGED <<server, inbox, writing>>
    BY <1>5 DEF ServeLoad
  <2> QED BY <1>0, <1>5, <2>1, ServeLoadLoads, RestList, ServerTells, HoldsThen
<1>6. CASE LoadArrives
  <2>1. UNCHANGED <<server, inbox, writing>>
    BY <1>6 DEF LoadArrives
  <2> QED BY <1>0, <1>6, <2>1, LoadArrivesLoads, ArrivesList, ServerTells, HoldsThen
<1> QED BY <1>1, <1>2, <1>3, <1>4, <1>5, <1>6

\* An answer to the page, or an event, comes.
LEMMA ArrivalHolds ==
  ASSUME NEW by, Steady(by), untold' = untold,
         WriteArrives \/ ActionArrives \/ HandlePostEvent \/ HandleFriendEvent
  PROVE  Holds'
<1>0. /\ PagesInv /\ Awaited /\ ListHolds /\ LoadsHold /\ EventsSay /\ Signed(by)
  BY SteadyHas
<1>1. CASE WriteArrives
  <2>1. UNCHANGED <<server, inbox>> /\ writing' = NotWriting
    BY <1>1 DEF WriteArrives
  <2> QED BY <1>0, <1>1, <2>1, LateActionsLoads, WriteArrivesList, ServerTells, HoldsThen
<1>2. CASE ActionArrives
  <2>1. UNCHANGED <<server, inbox>> /\ writing' = NotWriting
    BY <1>2 DEF ActionArrives
  <2> QED BY <1>0, <1>2, <2>1, LateActionsLoads, RestList, ServerTells, HoldsThen
<1>3. CASE HandlePostEvent
  <2>1. UNCHANGED <<server, writing>> /\ inbox # <<>> /\ inbox' = Tail(inbox)
    BY <1>3 DEF HandlePostEvent
  <2> QED BY <1>0, <1>3, <2>1, LateActionsLoads, HandledList, ServerTells, HoldsThen
<1>4. CASE HandleFriendEvent
  <2>1. UNCHANGED <<server, writing>> /\ inbox # <<>> /\ inbox' = Tail(inbox)
    BY <1>4 DEF HandleFriendEvent
  <2> QED BY <1>0, <1>4, <2>1, FriendEventLoads, RestList, ServerTells, HoldsThen
<1> QED BY <1>1, <1>2, <1>3, <1>4

LEMMA ReceiveTells ==
  ASSUME NEW by, Steady(by), UNCHANGED <<inbox, untold>>, NEW r \in Requests, NEW op, NEW pc,
         pc \in {"insertPost", "loadPost"}, NEW u, NEW i, NEW v, NEW b,
         Receive(r, op, pc, u, i, NoId, v, b)
  PROVE  /\ Warned' /\ EventsSay' /\ Numbered'
         /\ writing' = writing => Awaited'
         /\ requests'[r].op = op
<1> DEFINE q == [op |-> op, pc |-> pc, user |-> u, post |-> i, comment |-> NoId, wish |-> v,
                 found |-> Undefined, row |-> Undefined, to |-> {}, barred |-> b]
<1>1. requests' = [requests EXCEPT ![r] = q] /\ At(r, "idle")
      /\ UNCHANGED <<posts, friends, blocked, nextId>>
  BY DEF Receive, postTables, relations
<1>2. q.op = op /\ q.pc = pc
  OBVIOUS
<1> HIDE DEF q
<1>3. requests \in [Requests -> Request \cup {Idle}]
  BY SteadyHas DEF PagesInv, SharingInv, TypeOK
<1>4. requests'[r] = q /\ \A s \in Requests : s # r => requests'[s] = requests[s]
  BY <1>1, <1>3
<1>5. Warned' /\ EventsSay' /\ Numbered'
  <2>1. q.pc \notin {"deletePost", "emit"}
    BY <1>2
  <2> QED BY <1>1, <1>4, <2>1, RestTells
<1>6. ASSUME writing' = writing PROVE Awaited'
  <2>1. writing # NotWriting /\ writing.phase = "sent" =>
          writing.at # r /\ requests'[writing.at] = requests[writing.at]
    BY <1>1, <1>4, SteadyHas DEF Awaited
  <2>2. Awaited
    BY SteadyHas
  <2> QED BY <1>6, <2>1, <2>2 DEF Awaited, At, Mine
<1> QED BY <1>2, <1>4, <1>5, <1>6

\* A write sets out, of Me or of somebody else.
LEMMA WritesHold ==
  ASSUME NEW by, Steady(by), untold' = untold, NEW r \in Requests,
         SubmitPost(r) \/ SaveEdit(r) \/ DeleteOwn(r) \/ OthersWrite(r)
  PROVE  Holds'
<1>0. /\ PagesInv /\ Awaited /\ ListHolds /\ LoadsHold
  BY SteadyHas
<1>1. CASE SubmitPost(r)
  <2>1. PICK v \in Visibility : Receive(r, "createPost", "insertPost", Me, NoId, NoId, v, FALSE)
    BY <1>1 DEF SubmitPost
  <2>2. inbox' = inbox /\ writing' = Write("createPost", r, Undefined)
    BY <1>1 DEF SubmitPost
  <2>3. Awaited'
    BY <1>0, <2>1, <2>2, AwaitedReceive
  <2>4. Warned' /\ EventsSay' /\ Numbered'
    BY <2>1, <2>2, ReceiveTells
  <2> QED BY <1>0, <1>1, <2>3, <2>4, WritesLoads, RestList, HoldsThen
<1>2. CASE SaveEdit(r)
  <2>1. PICK k \in DOMAIN list, v \in Visibility :
          Receive(r, "updatePost", "loadPost", Me, list[k].id, NoId, v, FALSE)
    BY <1>2 DEF SaveEdit
  <2>2. inbox' = inbox /\ writing' = Write("updatePost", r, Undefined)
    BY <1>2 DEF SaveEdit
  <2>3. Awaited'
    BY <1>0, <2>1, <2>2, AwaitedReceive
  <2>4. Warned' /\ EventsSay' /\ Numbered'
    BY <2>1, <2>2, ReceiveTells
  <2> QED BY <1>0, <1>2, <2>3, <2>4, WritesLoads, RestList, HoldsThen
<1>3. CASE DeleteOwn(r)
  <2>1. PICK k \in DOMAIN list :
          /\ Receive(r, "deletePost", "loadPost", Me, list[k].id, NoId, "public", FALSE)
          /\ writing' = Write("deletePost", r, list[k])
    BY <1>3 DEF DeleteOwn
  <2>2. inbox' = inbox
    BY <1>3 DEF DeleteOwn
  <2>3. Awaited'
    BY <1>0, <2>1, <2>2, AwaitedReceive
  <2>4. Warned' /\ EventsSay' /\ Numbered'
    BY <2>1, <2>2, ReceiveTells
  <2> QED BY <1>0, <1>3, <2>3, <2>4, LateActionsLoads, DeleteOwnList, HoldsThen
<1>4. CASE OthersWrite(r)
  <2>1. inbox' = inbox /\ writing' = writing /\ (CreatePost(r) \/ NamePost(r))
    BY <1>4 DEF OthersWrite, pageVars
  <2>2. \E op, u, i, v, b : \E pc \in {"insertPost", "loadPost"} :
          Receive(r, op, pc, u, i, NoId, v, b)
    BY <2>1, Zenon DEF CreatePost, NamePost
  <2>3. PICK op, u, i, v, b : \E pc \in {"insertPost", "loadPost"} :
          Receive(r, op, pc, u, i, NoId, v, b)
    BY <2>2
  <2>4. PICK pc \in {"insertPost", "loadPost"} : Receive(r, op, pc, u, i, NoId, v, b)
    BY <2>3
  <2>5. Awaited' /\ Warned' /\ EventsSay' /\ Numbered'
    BY <2>1, <2>4, ReceiveTells
  <2> QED BY <1>0, <1>4, <2>5, WritesLoads, RestList, HoldsThen
<1> QED BY <1>1, <1>2, <1>3, <1>4

LEMMA DropsHold ==
  ASSUME NEW by, Steady(by), untold' = untold, SocketDrops PROVE Holds'
<1>1. inbox' = <<>> /\ overtaken' /\ UNCHANGED <<server, writing>>
  BY DEF SocketDrops
<1>2. UNCHANGED <<posts, friends, blocked, nextId, requests>>
  BY <1>1 DEF server, postTables, relations
<1>3. Awaited'
  BY <1>1, <1>2, SteadyHas, AwaitedRests
<1>4. Warned'
  BY <1>2, SteadyHas, WarnedRests
<1>5. EventsSay'
  <2>1. PICK box : box = inbox'
    OBVIOUS
  <2>2. DOMAIN box = {}
    BY <1>1, <2>1
  <2> QED BY <2>1, <2>2, SaysNothing
<1>6. Numbered'
  BY <1>2, SteadyHas DEF Numbered
<1> QED BY <1>1, <1>3, <1>4, <1>5, <1>6, SteadyHas, LateActionsLoads, OvertakenHolds, HoldsThen

LEMMA RelatesHold ==
  ASSUME NEW by, Steady(by), OthersRelate \/ RunAction PROVE Holds'
<1>1. PICK u : RelationChanges(u)
  BY DEF OthersRelate, RunAction
<1>2. Doubt /\ overtaken'
  BY DEF OthersRelate, RunAction
<1>3. inbox' \in {inbox, Append(inbox, [kind |-> "friends"])}
  BY DEF OthersRelate, RunAction
<1>4. Awaited'
  <2>1. CASE OthersRelate
    BY <1>1, <2>1, SteadyHas, AwaitedRelates DEF OthersRelate
  <2>2. CASE RunAction
    <3>1. writing' = [Write("relate", Nowhere, Undefined) EXCEPT !.phase = "ok"]
      BY <2>2 DEF RunAction
    <3>2. writing'.phase = "ok"
      BY <3>1 DEF Write
    <3> QED BY <3>2 DEF Awaited
  <2> QED BY <2>1, <2>2
<1>5. Warned'
  BY <1>1, <1>2, SteadyHas, WarnedRelates
<1>6. EventsSay'
  BY <1>2, <1>3, SteadyHas, SaysRelates
<1>7. nextId' = nextId
  BY <1>1, SteadyHas, RelationRequests
<1>8. Numbered'
  BY <1>2, <1>7, SteadyHas, DoubtNumbered, NumberedThen
<1> QED BY <1>2, <1>4, <1>5, <1>6, <1>8, SteadyHas, LateActionsLoads, OvertakenHolds, HoldsThen

LEMMA ServedHolds ==
  ASSUME NEW by, Steady(by), NEW r \in Requests, ServeRequest(r) PROVE Holds'
<1>1. Awaited'
  BY SteadyHas, AwaitedServed
<1>2. Warned'
  BY SteadyHas, WarnedServed
<1>3. EventsSay'
  BY SteadyHas, ServedSays
<1>4. Numbered'
  BY SteadyHas, ServedNumbered, NumberedThen
<1>5. ListHolds'
  BY SteadyHas, ServedList
<1>6. LoadsHold'
  BY SteadyHas, ServedLoads
<1> QED BY <1>1, <1>2, <1>3, <1>4, <1>5, <1>6, HoldsThen

LEMMA FailedHolds ==
  ASSUME NEW by, Steady(by), NEW r \in Requests, ServeFails(r) PROVE Holds'
<1>1. Awaited'
  BY SteadyHas, AwaitedFails
<1>2. Warned'
  BY SteadyHas, WarnedFails
<1>3. EventsSay'
  <2>1. /\ UNCHANGED <<posts, friends, blocked, inbox>> /\ \A i : i \notin untold' => Stays(i)
        /\ untold \subseteq untold'
    BY SteadyHas, FailStays
  <2> QED BY <2>1, SteadyHas, SaysRest
<1>4. Numbered'
  BY SteadyHas, FailNumbered, NumberedThen
<1>5. ListHolds'
  BY SteadyHas, FailsList
<1>6. LoadsHold'
  BY SteadyHas, LateActionsLoads
<1> QED BY <1>1, <1>2, <1>3, <1>4, <1>5, <1>6, HoldsThen

LEMMA HoldsKeeps ==
  ASSUME NEW by, Steady(by), PagesNext PROVE Holds'
<1>1. CASE Turn
  BY <1>1, PageHolds, DropsHold, WritesHold, RelatesHold, FailedHolds DEF Turn
<1>2. CASE Follow
  BY <1>2, PageHolds, ArrivalHolds, ServedHolds DEF Follow
<1> QED BY <1>1, <1>2 DEF PagesNext

-----------------------------------------------------------------------------
(* It starts so, and stays so.                                             *)

\* Who wrote the posts that there are.
AuthorsOf(S) == [i \in RowId |-> IF \E p \in S : p.id = i THEN (CHOOSE p \in S : p.id = i).author
                                 ELSE Me]

LEMMA AuthorsSign ==
  ASSUME NEW S \in SUBSET Post, \A p, q \in S : p.id = q.id => p = q
  PROVE  AuthorsOf(S) \in [RowId -> Users] /\ SignsPosts(AuthorsOf(S), S)
<1>1. ASSUME NEW p \in S PROVE p.id \in RowId /\ p.author \in Users
  BY DEF Post
<1>2. ASSUME NEW i \in RowId
      PROVE  (IF \E p \in S : p.id = i THEN (CHOOSE p \in S : p.id = i).author ELSE Me) \in Users
  BY <1>1, PagesAssumption
<1>3. ASSUME NEW p \in S PROVE AuthorsOf(S)[p.id] = p.author
  <2>1. (CHOOSE q \in S : q.id = p.id) = p
    OBVIOUS
  <2> QED BY <1>1, <2>1 DEF AuthorsOf
<1> QED BY <1>2, <1>3 DEF AuthorsOf, SignsPosts

LEMMA MirrorStart == PagesInit => MirrorInv
<1> SUFFICES ASSUME PagesInit PROVE MirrorInv
  OBVIOUS
<1>1. PagesInv /\ SharingInv
  BY PagesStart DEF PagesInv
<1>2. PICK by : by = AuthorsOf(posts)
  OBVIOUS
<1>3. posts = Already /\ posts \subseteq Post
  BY PagesAssumption DEF PagesInit
<1>4. by \in [RowId -> Users] /\ SignsPosts(by, posts)
  BY <1>2, <1>3, AuthorsSign, PagesAssumption
<1>5. \A r \in Requests : requests[r].pc = "idle"
  BY DEF PagesInit, Idle
<1>6. DOMAIN inbox = {} /\ loads = {} /\ writing = NotWriting /\ untold = {}
  BY DEF PagesInit
<1>7. Signed(by)
  <2>1. SignsTables(by)
    BY <1>4, <1>5 DEF SignsTables, At
  <2>2. SignsPosts(by, ToSet(list))
    BY <1>1, <1>4, PageSigned DEF PagesInit
  <2> QED BY <1>6, <2>1, <2>2 DEF Signed, SignsBox, SignsWriting
<1>8. Awaited /\ Warned /\ EventsSay
  BY <1>5, <1>6 DEF Awaited, Warned, EventsSay
<1>9. ListHolds
  <2>1. PICK page : page = Page(view, 0)
    OBVIOUS
  <2>2. Mirror(ToSet(page), Reach(page))
    BY <1>1, <2>1, PageMirror
  <2>3. list = page /\ oldest = Reach(page)
    BY <2>1 DEF PagesInit
  <2> QED BY <2>2, <2>3 DEF ListHolds
<1>10. LoadsHold
  BY <1>6 DEF LoadsHold
<1>11. Holds
  BY <1>6, <1>8, <1>9, <1>10 DEF Holds
<1> QED BY <1>1, <1>4, <1>7, <1>11 DEF MirrorInv

LEMMA MirrorStutters ==
  ASSUME NEW by, Steady(by), UNCHANGED pagesVars PROVE Holds' /\ Signed(by)'
<1>1. UNCHANGED <<vars, inbox, untold, view, list, oldest, overtaken, loads, writing>>
  BY DEF pagesVars, pageVars
<1>2. UNCHANGED server /\ nextId' = nextId
  BY <1>1 DEF vars, server, postTables
<1>3. Awaited' /\ Warned' /\ EventsSay' /\ Numbered'
  BY <1>1, <1>2, ServerTells
<1>4. \A S, o, i : Covered(S, o, i) => Covered(S, o, i)'
  BY <1>1, <1>2, SteadyHas, RestCovers
<1>5. ListHolds'
  BY <1>1, <1>4, SteadyHas, ListRests
<1>6. Sole(loads')
  BY <1>1, SteadyHas, LoadsWere
<1>7. LoadsHold'
  BY <1>1, <1>4, <1>6, SteadyHas, LoadsRest
<1>8. SignsTables(by)'
  BY <1>2, SteadyHas, TablesRest
<1>9. /\ SignsPosts(by, ToSet(list')) /\ SignsLoads(by, loads') /\ SignsBox(by, inbox', nextId')
      /\ SignsWriting(by, writing')
  BY <1>1, <1>2 DEF Steady, Signed, SignsLoads
<1>10. Signed(by)'
  BY <1>8, <1>9, AllSigned
<1> QED BY <1>3, <1>5, <1>7, <1>10, HoldsThen

\* A new post is its author's.
LEMMA SignedNext ==
  ASSUME PagesInv, NEW b \in [RowId -> Users], Signed(b)
  PROVE  \E by \in [RowId -> Users] :
           Signed(by) /\ \A r \in Requests : InsertPost(r) => by[nextId] = requests[r].user
<1>1. CASE \A r \in Requests : ~InsertPost(r)
  BY <1>1
<1>2. ASSUME NEW r \in Requests, InsertPost(r)
      PROVE  \E by \in [RowId -> Users] :
               Signed(by) /\ \A s \in Requests : InsertPost(s) => by[nextId] = requests[s].user
  <2>1. PostStep(r)
    BY <1>2 DEF PostStep
  <2>2. requests[r].user \in Users
    BY <2>1, AtWork DEF Request
  <2>3. nextId \in RowId /\ nextId \in Nat
    BY NextIdIsNat DEF PagesInv, SharingInv, TypeOK
  <2>4. ASSUME NEW s \in Requests, InsertPost(s) PROVE s = r
    <3>1. requests[s].pc = "insertPost"
      BY <2>4 DEF InsertPost, At
    <3>2. requests'[s].pc = "audience"
      BY <2>4 DEF InsertPost, PagesInv, SharingInv, TypeOK
    <3> QED BY <2>1, <3>1, <3>2, OthersStay
  <2>5. PICK by : by = [b EXCEPT ![nextId] = requests[r].user]
    OBVIOUS
  <2>6. by \in [RowId -> Users] /\ by[nextId] = requests[r].user
        /\ \A i \in RowId : i < nextId => by[i] = b[i]
    BY <2>2, <2>3, <2>5
  <2>7. Signed(by)
    BY <2>6, SignedEarlier
  <2> QED BY <2>4, <2>6, <2>7
<1> QED BY <1>1, <1>2

LEMMA MirrorStep == MirrorInv /\ [PagesNext]_pagesVars => MirrorInv'
<1> SUFFICES ASSUME MirrorInv, [PagesNext]_pagesVars PROVE MirrorInv'
  OBVIOUS
<1>1. PagesInv'
  BY PagesStep DEF MirrorInv
<1>2. PICK b \in [RowId -> Users] : Signed(b)
  BY DEF MirrorInv
<1>3. PagesInv /\ Holds /\ Awaited
  BY DEF MirrorInv, Holds
<1>4. PICK by \in [RowId -> Users] :
        Signed(by) /\ \A r \in Requests : InsertPost(r) => by[nextId] = requests[r].user
  BY <1>2, <1>3, SignedNext
<1>5. Steady(by)
  BY <1>3, <1>4 DEF Steady
<1>6. CASE PagesNext
  BY <1>1, <1>3, <1>4, <1>5, <1>6, SignedKeeps, HoldsKeeps DEF MirrorInv
<1>7. CASE UNCHANGED pagesVars
  BY <1>1, <1>5, <1>7, MirrorStutters DEF MirrorInv
<1> QED BY <1>6, <1>7

LEMMA QuietRight ==
  ASSUME Quiet, NEW S, NEW o, NEW i, Covered(S, o, i) PROVE Right(S, o, i)
<1>1. ~OwnPending(S, o, i)
  BY DEF Quiet, OwnPending
<1>2. ~Promised(i) /\ \A r \in Requests : ~Announces(r, i)
  BY DEF Quiet, Promised, Tells, Announces, At
<1>3. DOMAIN inbox = {}
  BY DEF Quiet
<1>4. ~Coming(i) /\ ~Announced(i)
  BY <1>3 DEF Coming, Announced
<1> QED BY <1>1, <1>2, <1>4 DEF Covered, OnItsWay, Creating

LEMMA MirrorShows == MirrorInv => MirrorsServer
<1> SUFFICES ASSUME MirrorInv, Quiet, ~overtaken
             PROVE  /\ ToSet(list) \subseteq Listed(view)
                    /\ \A p \in Listed(view) : p.id >= oldest => p \in ToSet(list)
  BY DEF MirrorsServer
<1>1. PagesInv /\ Mirror(ToSet(list), oldest)
  BY DEF MirrorInv, Holds, ListHolds
<1>2. \A i \in RowId : Right(ToSet(list), oldest, i)
  BY <1>1, QuietRight DEF Mirror
<1>3. ASSUME NEW p \in ToSet(list) PROVE p \in Listed(view)
  <2>1. p.id \in RowId
    BY <1>1, InSet DEF PagesInv, PageSound, Post
  <2> QED BY <1>1, <1>2, <2>1, ListedShown DEF Right
<1>4. ASSUME NEW p \in Listed(view), p.id >= oldest PROVE p \in ToSet(list)
  <2>1. p \in posts /\ Shown(p)
    BY <1>1, ListedShown
  <2>2. p.id \in RowId /\ p.id \in Nat /\ oldest \in Nat
    BY <1>1, <2>1, OneInTable DEF PagesInv, PageSound, RowId
  <2>3. ~(p.id < oldest)
    BY <1>4, <2>2
  <2> QED BY <1>2, <2>1, <2>2, <2>3 DEF Right
<1> QED BY <1>3, <1>4

(***************************************************************************)
(* The mirror's invariant holds throughout: every post is either in the    *)
(* list as the server has it, or the answer to the page's own write, an    *)
(* event that waits or a request that will still tell settles it.          *)
(***************************************************************************)
THEOREM MirrorInvariant == PagesSpec => []MirrorInv
  BY MirrorStart, MirrorStep, PTL DEF PagesSpec

(***************************************************************************)
(* MirrorsServer: once everything has arrived, and if nothing overtook an  *)
(* answer, the list is what the server would list, down to the last page   *)
(* loaded, with every post as it is now.  postService.js tells a broad     *)
(* audience of an edit and lets FeedPage and UserProfilePage add, replace  *)
(* or remove; that is enough for every change of visibility.               *)
(***************************************************************************)
THEOREM PagesMirror == PagesSpec => []MirrorsServer
  BY MirrorInvariant, MirrorShows, PTL
=============================================================================
