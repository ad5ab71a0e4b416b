------------------------------ MODULE PostPages ------------------------------
(***************************************************************************)
(* The two pages of the client that list posts, in the browser of Me:      *)
(* pages/FeedPage (a tab shows 'all', 'mine' or 'friends') and             *)
(* pages/UserProfilePage (somebody's posts), with PostCard and CreatePost, *)
(* beside the post service of module PostService.                          *)
(*                                                                         *)
(* Two channels join them.  The socket brings the server's events in the   *)
(* order they were emitted (inbox).  An HTTP answer is computed by its     *)
(* query at one moment and arrives at another (loads, writing), and        *)
(* nothing orders it with the events.                                      *)
(***************************************************************************)
EXTENDS PostService, SequencesExt

CONSTANTS Me, PageSize,
          Nowhere,   \* no slot
          Already,   \* bound: the posts there are when the page is opened
          Views,     \* bound: the tabs and profiles this instance opens
          MaxLoads,  \* bound: how many loads may be in flight
          MaxInbox,  \* bound: how many events may wait in the socket
          MaxTurns   \* bound: how many things happen that nothing asked for

Tabs == {"all", "mine", "friends"}

\* The posts there are have been numbered as the service numbers its own.
ASSUME PagesAssumption ==
  /\ Me \in Users /\ PageSize \in Nat \ {0} /\ Views \subseteq Tabs \cup Users
  /\ Already \subseteq Post /\ IsFiniteSet(Already)
  /\ \A p \in Already : p.id <= Cardinality(Already)         \* numbered as created
  /\ \A p, q \in Already : p.id = q.id => p = q             \* PRIMARY KEY

VARIABLES view,        \* the tab, or the user whose profile is open
          list,        \* posts
          hasMore, loading,
          friendIds,   \* friends, on a profile
          loads,       \* GETs in flight
          writing,     \* the page's own POST, PUT or DELETE in flight
          inbox,
          turns,       \* how many writes, moves and failures there have been
          oldest,      \* history: how far down the pages loaded so far reach
          overtaken,   \* history: see Late
          untold       \* history: posts with a write whose event may have missed Me

server == <<postTables, relations, requests>>   \* but for what it sends
pageVars == <<view, list, hasMore, loading, friendIds, loads, writing, oldest, overtaken>>
pagesVars == <<vars, pageVars, inbox, turns, untold>>

OnFeed == view \in Tabs

\* A GET, what it still asks for, and the answers there are so far.
Load == [kind : {"first", "more", "friends", "profile"},
         view : Tabs \cup Users, before : Nat,
         asks : SUBSET {"posts", "friends"},
         posts : Seq(Post), friends : SUBSET Users,
         late : BOOLEAN]   \* history: see Late

NotWriting == [phase |-> "none"]
Writing == [phase : {"sent", "ok", "failed"},
            op : {"createPost", "updatePost", "deletePost", "relate"},
            at : Requests \cup {Nowhere},   \* the slot that serves it
            backup : Seq(Post), row : Post \cup {Undefined}]

Event == Sent \cup [kind : {"friends"}]

PagesTypeOK ==
  /\ TypeOK
  /\ view \in Tabs \cup Users
  /\ list \in Seq(Post)
  /\ hasMore \in BOOLEAN /\ loading \in BOOLEAN /\ overtaken \in BOOLEAN
  /\ friendIds \subseteq Users
  /\ loads \subseteq Load
  /\ writing \in Writing \cup {NotWriting}
  /\ inbox \in Seq(Event)
  /\ oldest \in Nat /\ turns \in Nat /\ untold \subseteq Nat

-----------------------------------------------------------------------------
(* What the server would list, newest first, and one page of it.           *)

Listed(v) == IF v \in Tabs THEN Feed(Me, v) ELSE PostsBy(v, Me)

\* The k-th number of S, in ascending order.
Nth(S, k) == CHOOSE i \in S : Cardinality({j \in S : j <= i}) = k

\* The sequence of what s has at the positions K, in their order.
Picked(s, K) == [k \in 1..Cardinality(K) |-> s[Nth(K, k)]]

\* ORDER BY created_at DESC LIMIT PageSize, created_at < before.
Page(v, before) ==
  LET ids == {p.id : p \in {p \in Listed(v) : before = 0 \/ p.id < before}}
      n == Cardinality(ids)
  IN [k \in 1..(IF n < PageSize THEN n ELSE PageSize) |-> RowOf(PostById(Nth(ids, n + 1 - k)))]

-----------------------------------------------------------------------------
(* The list.                                                               *)

Has(i) == \E k \in DOMAIN list : list[k].id = i

WithoutOf(ps, i) == Picked(ps, {k \in DOMAIN ps : ps[k].id # i})

Without(i) == WithoutOf(list, i)

Replaced(p) == [k \in DOMAIN list |-> IF list[k].id = p.id THEN p ELSE list[k]]

CanViewerSee(p) ==
  \/ p.author = Me
  \/ p.visibility = "public"
  \/ p.visibility = "friends" /\ p.author \in friendIds

\* matchesFilter on the feed; on a profile, the posts of its user.
Matches(p) ==
  CASE view = "mine" -> p.author = Me
    [] view = "friends" ->
         p.author # Me /\ p.visibility # "private" /\ p.author \in friendIds
    [] view = "all" -> CanViewerSee(p)
    [] OTHER -> p.author = view /\ CanViewerSee(p)

\* Slip: an older page is appended as it came.
AppendAsIs(page) == list \o page

\* The older page without the posts that are there already.
AppendFresh(page) == list \o Picked(page, {k \in DOMAIN page : ~Has(page[k].id)})

\* Slip: an update that no longer matches is only replaced.
UpsertOnly(p) == IF Has(p.id) THEN Replaced(p) ELSE IF Matches(p) THEN <<p>> \o list ELSE list

\* An update adds, replaces or removes.
Upsert(p) ==
  CASE Matches(p) /\ Has(p.id) -> Replaced(p)
    [] Matches(p) /\ ~Has(p.id) -> <<p>> \o list
    [] OTHER -> Without(p.id)

Inserted(p) == IF Matches(p) /\ ~Has(p.id) THEN <<p>> \o list ELSE list

\* handleCreated, handleUpdated, handleDeleted: the viewer's own posts are
\* left to the page's own handlers, a profile looks at its user's only.
AfterEvent(m) ==
  LET p == m.carries IN
  CASE m.kind = "post:deleted" ->
         IF \E k \in DOMAIN list : list[k].id = m.about.id /\ list[k].author = Me
           THEN list ELSE Without(m.about.id)
    [] m.kind = "post:created" -> IF p.author = Me THEN list ELSE Inserted(p)
    [] OTHER -> IF p = Undefined                                     \* TypeError
                   \/ p.author = Me \/ (~OnFeed /\ p.author # view) THEN list
                ELSE Upsert(p)

-----------------------------------------------------------------------------
(* Loading.                                                                *)

NewLoad(kind, v, before) ==
  [kind |-> kind, view |-> v, before |-> before,
   asks |-> CASE kind = "friends" -> {"friends"}
              [] kind = "profile" -> {"posts", "friends"}
              [] OTHER -> {"posts"},
   posts |-> <<>>, friends |-> {}, late |-> FALSE]

\* What a page starts with, and what a new tab or another profile loads.
Reload(v) == NewLoad(IF v \in Tabs THEN "first" ELSE "profile", v, 0)

\* FeedPage asks for the friends apart.
FirstLoads(v) == {Reload(v)} \cup (IF v \in Tabs THEN {NewLoad("friends", v, 0)} ELSE {})

\* The history variables.  The list can only be expected to agree with the
\* server if no answer was overtaken: something changed the list, or what Me
\* may see, after an answer was computed and before it arrived.
Late(ls) == {IF "posts" \in l.asks THEN l ELSE [l EXCEPT !.late = TRUE] : l \in ls}

\* A new first page also leaves older pages without their place.
Displaced(ls) == Late({IF l.kind = "more" THEN [l EXCEPT !.late = TRUE] ELSE l : l \in ls})

\* A full page reaches down to its last post, a shorter one to the end.
Reach(page) == IF Len(page) = PageSize THEN Last(page).id ELSE 0

MayLoad == Cardinality(loads) < MaxLoads

Start(v) == loading' = TRUE /\ loads' = Late(loads) \cup {Reload(v)}

\* A page that has just loaded.
PagesInit ==
  /\ posts = Already /\ nextId = Cardinality(Already) + 1 /\ comments = {}
  /\ everShown = {<<p.id, p.visibility>> : p \in Already}
  /\ \E u \in Users : friends = {{Me, u}} \ {{Me}}
  /\ everFriends = friends /\ blocked = {}
  /\ requests = [r \in Requests |-> Idle] /\ wire = {}
  /\ view \in Views
  /\ list = Page(view, 0) /\ oldest = Reach(list)
  /\ hasMore = (Len(list) = PageSize) /\ loading = FALSE
  /\ friendIds = FriendsOf(Me)
  /\ loads = {} /\ writing = NotWriting /\ inbox = <<>> /\ turns = 0
  /\ overtaken = FALSE /\ untold = {}

\* Another tab, or another profile: the component stays and so does its list,
\* until the new answer is there.
Switch(v) ==
  /\ v # view /\ (v \in Tabs <=> OnFeed) /\ MayLoad
  /\ view' = v /\ loading' = TRUE
  /\ loads' = {[l EXCEPT !.late = TRUE] : l \in loads} \cup {Reload(v)}
  /\ overtaken' = TRUE
  /\ Silent /\ UNCHANGED <<server, list, hasMore, friendIds, writing, inbox, oldest>>

\* From the feed to a profile or back: a new component; what was in flight
\* for the old one has nowhere to arrive.
Navigate(v) ==
  /\ (v \in Tabs) # OnFeed /\ (v \in Tabs => v = "all")
  /\ view' = v
  /\ list' = <<>> /\ hasMore' = TRUE /\ loading' = TRUE /\ friendIds' = {}
  /\ loads' = FirstLoads(v) /\ writing' = NotWriting
  /\ oldest' = 0 /\ overtaken' = TRUE
  /\ Silent /\ UNCHANGED <<server, inbox>>

\* The sentinel comes into view, and no older page is on its way.
LoadMore ==
  /\ hasMore /\ ~loading /\ list # <<>> /\ MayLoad
  /\ \A l \in loads : l.kind # "more"
  /\ loads' = loads \cup {NewLoad("more", view, Last(list).id)}
  /\ overtaken' = (overtaken \/ Last(list).id < oldest)
  /\ Silent /\ UNCHANGED <<server, view, list, hasMore, loading, friendIds, writing, inbox, oldest>>

\* One query of a load is served.
ServeLoad ==
  \E l \in loads : \E what \in l.asks :
    /\ loads' = (loads \ {l}) \cup
         {[l EXCEPT !.asks = @ \ {what},
                    !.posts = IF what = "posts" THEN Page(l.view, l.before) ELSE @,
                    !.friends = IF what = "friends" THEN FriendsOf(Me) ELSE @]}
    /\ Silent /\ UNCHANGED <<server, view, list, hasMore, loading, friendIds, writing, inbox,
                   oldest, overtaken>>

\* Slip: the rows are taken by index up to the page's size.
ShowFullPage(page) ==
  /\ list' = [k \in 1..PageSize |-> IF k \in DOMAIN page THEN page[k] ELSE Undefined]
  /\ hasMore' = (Len(page) = PageSize) /\ oldest' = Reach(page)

ShowPage(page) ==
  list' = page /\ hasMore' = (Len(page) = PageSize) /\ oldest' = Reach(page)

\* An answer arrives: it changes the page as the page is by now.
LoadArrives ==
  \E l \in loads :
    /\ l.asks = {}
    /\ CASE l.kind = "friends" ->
              /\ friendIds' = l.friends
              /\ loads' = loads \ {l}
              /\ UNCHANGED <<list, hasMore, loading, oldest, overtaken>>
         [] l.kind = "more" ->
              /\ list' = AppendFresh(l.posts)
              /\ hasMore' = (Len(l.posts) = PageSize)
              /\ oldest' = Reach(l.posts)
              /\ overtaken' = (overtaken \/ l.late)
              /\ loads' = loads \ {l}
              /\ UNCHANGED <<loading, friendIds>>
         [] OTHER ->
              /\ ShowPage(l.posts)
              /\ loading' = FALSE
              /\ friendIds' = IF l.kind = "profile" THEN l.friends ELSE friendIds
              /\ overtaken' = l.late
              /\ loads' = Displaced(loads \ {l})
    /\ Silent /\ UNCHANGED <<server, view, writing, inbox>>

\* A GET fails: the page says so and keeps what it has.
LoadFails ==
  \E l \in loads :
    /\ loads' = loads \ {l}
    /\ loading' = (loading /\ l.kind \notin {"first", "profile"})
    /\ overtaken' = (overtaken \/ l.kind \in {"first", "profile"})
    /\ Silent /\ UNCHANGED <<server, view, list, hasMore, friendIds, writing, inbox, oldest>>

-----------------------------------------------------------------------------
(* The page's own writes.                                                  *)

Write(op, r, row) == [phase |-> "sent", op |-> op, at |-> r, backup |-> list, row |-> row]

\* CreatePost, which only the feed has.
SubmitPost(r) ==
  /\ OnFeed /\ writing = NotWriting /\ ~NoPostLeft
  /\ \E v \in Visibility : Receive(r, "createPost", "insertPost", Me, NoId, NoId, v, FALSE)
  /\ writing' = Write("createPost", r, Undefined)
  /\ UNCHANGED <<view, list, hasMore, loading, friendIds, loads, inbox, oldest, overtaken>>

\* PostCard.handleSave: the fields that differ from the card's post.
SaveEdit(r) ==
  /\ writing = NotWriting
  /\ \E k \in DOMAIN list, v \in Visibility :
       /\ list[k].author = Me
       /\ Receive(r, "updatePost", "loadPost", Me, list[k].id, NoId, v, FALSE)
  /\ writing' = Write("updatePost", r, Undefined)
  /\ UNCHANGED <<view, list, hasMore, loading, friendIds, loads, inbox, oldest, overtaken>>

\* handleDelete: the post goes at once, the list is kept for a failure.
DeleteOwn(r) ==
  /\ writing = NotWriting
  /\ \E k \in DOMAIN list :
       /\ list[k].author = Me
       /\ Receive(r, "deletePost", "loadPost", Me, list[k].id, NoId, "public", FALSE)
       /\ list' = Without(list[k].id)
       /\ writing' = Write("deletePost", r, list[k])
  /\ loads' = Late(loads)
  /\ UNCHANGED <<view, hasMore, loading, friendIds, inbox, oldest, overtaken>>

RestoreBackup == writing.backup

\* handlePostCreated and handlePostUpdated, or handleDelete's catch.
AfterWrite ==
  LET p == writing.row
      nothing == writing.phase = "failed" \/ p = Undefined
  IN
  CASE writing.op = "deletePost" -> IF writing.phase = "ok" THEN list ELSE RestoreBackup
    [] writing.op = "createPost" -> IF nothing THEN list ELSE Inserted(p)
    [] OTHER -> IF nothing THEN list ELSE IF OnFeed THEN Upsert(p) ELSE Replaced(p)

\* What the list gets back, or gets, is not what the server has by now.
Outdated ==
  CASE writing.op = "deletePost" -> /\ writing.phase = "failed"
                                    /\ \/ list # WithoutOf(writing.backup, writing.row.id)
                                       \/ writing.row \notin Listed(view)
    [] OTHER -> writing.row \notin posts \cup {Undefined}

WriteArrives ==
  /\ writing # NotWriting /\ writing.phase # "sent" /\ writing.op # "relate"
  /\ list' = AfterWrite
  /\ writing' = NotWriting
  /\ loads' = Late(loads)
  /\ overtaken' = (overtaken \/ Outdated)
  /\ Silent /\ UNCHANGED <<server, view, hasMore, loading, friendIds, inbox, oldest>>

-----------------------------------------------------------------------------
(* Friendships and blocks.                                                 *)

RelationChanges(u) ==
  LET pair == {Me, u} IN Befriend(pair) \/ Unfriend(pair) \/ Block(pair) \/ Unblock(pair)

\* The audience of a write in flight may be the old or the new one, and an
\* event on its way may be of a post that Me was not told more about.
Doubt ==
  untold' = UNION {untold,
                   {requests[r].post : r \in {q \in Requests : At(q, "deletePost")}},
                   {m.about.id : m \in {m \in ToSet(inbox) : m.kind # "friends"}}}

\* Somebody else did it, or Me on another device: an event may come.
OthersRelate ==
  /\ Len(inbox) < MaxInbox
  /\ \E u \in Users \ {Me} : RelationChanges(u)
  /\ inbox' \in {inbox, Append(inbox, [kind |-> "friends"])}
  /\ loads' = Late(loads) /\ overtaken' = TRUE /\ Doubt
  /\ UNCHANGED <<view, list, hasMore, loading, friendIds, writing, oldest>>

\* runAction on a profile: the call, then loadAll.
RunAction ==
  /\ ~OnFeed /\ view # Me /\ writing = NotWriting
  /\ RelationChanges(view)
  /\ writing' = [Write("relate", Nowhere, Undefined) EXCEPT !.phase = "ok"]
  /\ loads' = Late(loads) /\ overtaken' = TRUE /\ Doubt
  /\ UNCHANGED <<view, list, hasMore, loading, friendIds, inbox, oldest>>

ActionArrives ==
  /\ writing # NotWriting /\ writing.op = "relate" /\ MayLoad
  /\ writing' = NotWriting
  /\ Start(view)
  /\ Silent /\ UNCHANGED <<server, view, list, hasMore, friendIds, inbox, oldest, overtaken>>

-----------------------------------------------------------------------------
(* The server at work, and its events.                                     *)

\* Others write, and ask only for what the service would not refuse.
OthersWrite(r) ==
  /\ Len(inbox) < MaxInbox
  /\ CreatePost(r) \/ NamePost(r)
  /\ LET q == requests'[r] IN
       /\ q.user # Me /\ q.op # "getPost"
       /\ q.op = "createPost" \/ \A p \in PostById(q.post) : p.author = q.user
  /\ UNCHANGED <<pageVars, inbox>>

Mine(r) == requests[r].user = Me

\* The page waits for the answer to this request.
Ours(r) == writing # NotWriting /\ writing.phase = "sent" /\ writing.at = r

\* A write of Me that the page will not hear of: the page is a new one, or
\* the post has come back by a load before its DELETE.
Unheard(r) ==
  /\ Mine(r) /\ posts' # posts
  /\ ~Ours(r) \/ (At(r, "deletePost") /\ Has(requests[r].post))

\* Another request has changed the post since this one read it: whom it tells,
\* or what, is no longer right.
Overtakes(r) ==
  LET q == requests[r] IN
  CASE q.pc \in {"updatePost", "deletePost"} -> q.found \notin posts
    [] q.pc = "refetchPost" -> PostById(q.post) = {}
    [] q.pc \in {"audience", "emit"} /\ q.op # "deletePost" -> q.row \notin posts
    [] OTHER -> FALSE

\* The list cannot follow what this step does.
Astray(r) == Unheard(r) \/ Overtakes(r) \/ requests[r].post \in untold

\* A step of the service; its event for Me enters the socket, its answer to
\* a write of the page gets on its way.
ServeRequest(r) ==
  /\ PostStep(r)
  /\ inbox' = IF \E m \in wire' : Me \in m.to
                THEN Append(inbox, CHOOSE m \in wire' : TRUE) ELSE inbox
  /\ writing' = IF ~Ours(r) \/ requests'[r] # Idle THEN writing
                ELSE [writing EXCEPT !.phase = IF wire' # {} THEN "ok" ELSE "failed",
                        !.row = IF writing.op = "deletePost" THEN @ ELSE requests[r].row]
  /\ loads' = IF Astray(r) \/ (Mine(r) /\ At(r, "deletePost")) THEN Late(loads) ELSE loads
  /\ overtaken' = (overtaken \/ Astray(r))
  /\ untold' = IF Overtakes(r) THEN untold \cup {requests[r].post} ELSE untold
  /\ UNCHANGED <<view, list, hasMore, loading, friendIds, oldest>>

\* A query of the service rejects; after the write, the others are not told.
ServeFails(r) ==
  /\ Fail(r)
  /\ writing' = IF Ours(r) THEN [writing EXCEPT !.phase = "failed"] ELSE writing
  /\ LET written == At(r, "refetchPost") \/ At(r, "emit")
                    \/ (At(r, "audience") /\ requests[r].op # "deletePost") IN
       /\ overtaken' = (overtaken \/ written)
       /\ untold' = IF written THEN untold \cup {requests[r].post} ELSE untold
  /\ loads' = Late(loads)
  /\ UNCHANGED <<view, list, hasMore, loading, friendIds, inbox, oldest>>

\* A post event is handled with the friends the page knows of.
HandlePostEvent ==
  /\ inbox # <<>> /\ Head(inbox).kind # "friends"
  /\ list' = AfterEvent(Head(inbox))
  /\ inbox' = Tail(inbox)
  /\ loads' = Late(loads)
  /\ overtaken' = (\/ overtaken \/ friendIds # FriendsOf(Me)
                   \/ BlockedPair(Me, Head(inbox).from)
                   \/ Head(inbox).about.id \in untold)
  /\ Silent /\ UNCHANGED <<server, view, hasMore, loading, friendIds, writing, oldest>>

\* The feed loads its friends again, a profile everything.
HandleFriendEvent ==
  /\ inbox # <<>> /\ Head(inbox).kind = "friends" /\ MayLoad
  /\ inbox' = Tail(inbox)
  /\ IF OnFeed THEN /\ loads' = loads \cup {NewLoad("friends", view, 0)}
                    /\ UNCHANGED loading
               ELSE Start(view)
  /\ Silent /\ UNCHANGED <<server, view, list, hasMore, friendIds, writing, oldest, overtaken>>

\* The socket goes down: what was on its way is not sent again.
SocketDrops ==
  /\ inbox # <<>> /\ inbox' = <<>>
  /\ loads' = Late(loads) /\ overtaken' = TRUE
  /\ Silent /\ UNCHANGED <<server, view, list, hasMore, loading, friendIds, writing, oldest>>

\* What the users, the other clients and the failures do.
Turn ==
  /\ turns < MaxTurns
  /\ turns' = turns + 1
  /\ \/ /\ \/ \E v \in Views : Switch(v) \/ Navigate(v)
           \/ LoadMore \/ LoadFails \/ SocketDrops
           \/ \E r \in Requests :
                SubmitPost(r) \/ SaveEdit(r) \/ DeleteOwn(r) \/ OthersWrite(r)
        /\ UNCHANGED untold
     \/ OthersRelate \/ RunAction \/ \E r \in Requests : ServeFails(r)

\* What follows from it.
Follow ==
  /\ UNCHANGED turns
  /\ \/ /\ \/ ServeLoad \/ LoadArrives \/ WriteArrives \/ ActionArrives
           \/ HandlePostEvent \/ HandleFriendEvent
        /\ UNCHANGED untold
     \/ \E r \in Requests : ServeRequest(r)

PagesNext == Turn \/ Follow

PagesSpec == PagesInit /\ [][PagesNext]_pagesVars

-----------------------------------------------------------------------------
(***************************************************************************)
(* No post is listed twice, whatever comes by event, by an older page, by  *)
(* the page's own writes or by the backup of a deletion that failed.       *)
(***************************************************************************)
NoDuplicates == \A j, k \in DOMAIN list : list[j].id = list[k].id => j = k

Quiet ==
  /\ loads = {} /\ writing = NotWriting /\ inbox = <<>>
  /\ \A r \in Requests : At(r, "idle")

(***************************************************************************)
(* postService.js promises "correctness in every visibility-change case"   *)
(* by sending updates to a broad audience and letting the client decide:   *)
(* once everything has arrived, and if no answer was overtaken, the list   *)
(* is what the server would list, down to the last page loaded, with every *)
(* post as it is now.                                                      *)
(***************************************************************************)
MirrorsServer ==
  Quiet /\ ~overtaken =>
    /\ ToSet(list) \subseteq Listed(view)
    /\ \A p \in Listed(view) : p.id >= oldest => p \in ToSet(list)

-----------------------------------------------------------------------------
(* What the documentation says and the pages do not keep.                  *)

(***************************************************************************)
(* FeedPage.jsx: "Switching the filter resets the list", and an event that *)
(* does not match the tab "is correctly ignored".  When the load of the    *)
(* tab fails, the former tab's list stays; and the answer for a tab left   *)
(* behind may arrive after the answer for the tab that is open.            *)
(***************************************************************************)
TabShowsItsOwn ==
  Quiet /\ view = "mine" => \A k \in DOMAIN list : list[k].author = Me

(***************************************************************************)
(* README.md: the blocked "find out the same way they would in person:     *)
(* things stop arriving".  Public posts are broadcast, and the pages know  *)
(* of no blocks.                                                           *)
(***************************************************************************)
ThingsStopArriving ==
  [][\A p \in ToSet(list') : BlockedPair(Me, p.author) /\ UNCHANGED server =>
       \/ Has(p.id) \/ \E l \in loads : p \in ToSet(l.posts)]_pagesVars

(***************************************************************************)
(* postService.js: the updates are sent with the full post "for            *)
(* correctness in every visibility-change case".  Two edits of one post    *)
(* may cross between UPDATE and emit: the event of the first leaves last,  *)
(* and the pages keep what it carries.                                     *)
(***************************************************************************)
UpdatesAreCurrent ==
  [][\A m \in wire' : m.kind = "post:updated" /\ m.carries # Undefined => m.carries \in posts]_vars

(***************************************************************************)
(* FeedPage.jsx: "Stable cursors mean real-time inserts at the top don't   *)
(* cause duplicate or skipped rows in older pages".  The cursor is the     *)
(* last post of the list, which an update may have inserted.               *)
(***************************************************************************)
CursorSkipsNothing == \A l \in loads : l.kind = "more" => l.before >= oldest \/ overtaken
=============================================================================
