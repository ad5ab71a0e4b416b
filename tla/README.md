# BestiZ in TLA+

BestiZ is a small social network: an Express server over PostgreSQL, Socket.IO
events to the browsers, and a React client. This directory specifies the parts
of it whose correctness depends on more than one request, tab, container or message
at a time. The modules are translated from the repository's source; paths below are
relative to `src/` of the server or of the client.

## The system

| part | state it keeps | operations | interacts by |
| --- | --- | --- | --- |
| friend service | `friendships` rows, pending or accepted | ask, accept, delete (decline, withdraw, unfriend) | reads `blocks`; deletes from `message_requests`; emits `friend:*` |
| block service | `blocks` rows, directed | block, unblock | deletes from `friendships` in the same transaction; emits `friend:removed` |
| message service | `messages`, `message_requests` | send (open, reply, first contact), open a conversation and mark it read, accept or decline a request, count | reads `blocks` and `friendships`; emits `message:*` |
| post and comment services | `posts`, `comments` | create, edit, delete, feed, visibility | read `friendships` and `blocks`; emit `post:*`, `comment:*` to audiences |
| authentication | none on the server: signed cookies | register, log in, refresh, log out | the client's interceptor refreshes once for many failed calls |
| accounts and profiles | `users` rows | register, log in, edit | unique indexes; the edit form keeps what it was mounted with |
| socket server | rooms per user | connect, emit | every service calls it after its writes; nothing is replayed |
| repositories, `withTransaction` | the pool of connections | one SQL statement each; BEGIN, COMMIT, ROLLBACK | every service |
| migrations runner | `schema_migrations` ledger | apply the files not applied | before the server of each container |
| messenger client | open thread, inbox, requests, badge | open, send, accept, decline, socket handlers | REST calls and events |
| feed, profile and friend pages | lists of posts, comments, friends | load, page, edit, socket handlers | REST calls and events |
| session client | user, single refresh promise | restore, log in, log out, expire | drives the socket connection |

What is hard about it:

* **Interleaving.** Node gives way at every `await`. A service that checks with
  one query and writes with the next acts on an answer that may be stale:
  `sendRequest` (block, existing row, INSERT), `sendMessage` (block, friendship,
  request, INSERT), `getConversation` (page, three queries, UPDATE), a comment (post,
  block, friendship, INSERT), `register` (conflicts, bcrypt, INSERT).
* **Transactions.** `acceptRequest` of a friendship, `blockUser` and the opening
  message write twice and must be seen whole or not at all; they hold row locks
  while they wait for others. A migration file and its ledger row commit together.
* **Unique indexes** are the only thing that keeps pairs and emails single under races.
* **Partial failure.** A reply is inserted and its request accepted by two
  statements with no transaction round them; an UPDATE is followed by a read that
  may find nothing.
* **Two channels to the browser.** Socket events come in the order they were
  emitted; an HTTP answer is computed at one moment and applied at another, to
  whatever the page has become. Nothing orders the two, and lost events are not sent
  again.
* **Shared refresh.** Any number of calls may fail with 401 at once; they join one
  refresh and are replayed once, while logins, logouts and reloads go on.
* **Crashes and restarts** of the container that migrates, with others at work.

What makes each part correct: one friendship and one request per pair; no
friendship that outlives a block; one message from a stranger until they are
accepted; no read receipt and no badge before consent; a request decided once, by
its recipient; events only of what was committed; every request answered; a post
reaches no one outside its author's circle; a block overrides visibility; the
pages and the panel agree with the server once everything has arrived; the user
never notices an access token expire; one account per email; the ledger is the schema.

## The modules

```
Database      tables, SELECTs                                    TLC: MCBestiz
  Handlers    requests in flight, locks, events              proofs: CoreProofs
    FriendService   BlockService   MessageService                    PromiseProofs
          \              |          /        \
                      Bestiz  ---------- Promise ---> Consent
                      BestizInv (strengthenings)
                                             \
                                              Messenger          TLC: MCMessenger
                                                             proofs: MessengerProofs

Posts         posts, comments, relations, requests in flight
  PostService
    CommentService
      Sharing                                                    TLC: MCSharing
                                                             proofs: SharingProofs
    PostPages                                                    TLC: MCPostPages
                                                             proofs: PagesProofs

Session                                                          TLC: MCSession
                                                             proofs: SessionProofs
Accounts                                                         TLC: MCAccounts
                                                             proofs: AccountsProofs
Migrate                                                          TLC: MCMigrate
                                                             proofs: MigrateProofs
```

### The relationship core

**Database.** The four tables a pair of users shares, as sets of records with
the committed rows, and the SELECTs over them. PostgreSQL runs here at READ
COMMITTED, its default, so a query sees what is committed when it runs. A row's
UUID is a number, given in the order of the INSERTs: the actions only compare it
for equality, the properties use the order to say "before" and "after".
`befriended` is a history variable: the pairs that were ever friends.

**Handlers.** `handlers[r]` is the HTTP request in slot `r`: idle, or a record with
`pc`, the query it makes next, and what it remembers of the ones before (`row`, the
friendship, message or request it is about; `ref`, a message request it read or
deletes, or the number of an uncommitted block; `state`, what `resolveSendState`
returned; `page`, message ids). The writes of a transaction stay in this record
until COMMIT. While they are there the others wait: `FriendshipLocked`,
`RequestLocked` and `BlockLocked` are the row locks and index entries an open
transaction holds, read off the `pc` of its handler. `sent` is the set of events the
latest step emitted. `Fail(r)` ends a handler at any query: the connection is lost,
or the server stops; an open transaction is rolled back, earlier statements stay.

**FriendService, BlockService, MessageService.** One action per query of a service
function, in the code's order, with its early returns (the comments give the status
code), and one for the emission that follows. `CommitAccept` and `CommitBlock` are
the COMMITs of the two transactions whose locks others can meet; their earlier
statements are steps of their own, which take locks and change no table.

| function | steps |
| --- | --- |
| `friendService.sendRequest` | `SendRequest` `CheckBlock` `FindExisting` `InsertFriendship` `NotifyRequest` |
| `friendService.acceptRequest` | `NameFriendship` `LoadFriendship` `AcceptFriendship` `SettleRequest` `CommitAccept` `NotifyAccepted` |
| `friendService.deleteFriendship` | `NameFriendship` `LoadFriendship` `DeleteFriendship` `NotifyRemoved` |
| `blockService.blockUser` | `BlockUser` `InsertBlock` `FindFriendship` `RemoveFriendship` `CommitBlock` `NotifyRemoved` |
| `blockService.unblockUser` | `UnblockUser` `RemoveBlock` |
| `messageService.sendMessage` | `SendMessage` `ResolveBlock` `ResolveFriends` `ResolveRequest`, then `InsertMessage` (`SettleReply` `NotifyReply`) `NotifyMessage`, or `InsertOpening` `NotifyOpening` |
| `messageService.getConversation` | `GetConversation` `FindPage` `Resolve...` `MarkRead` `NotifyRead` |
| `messageService.acceptRequest`, `declineRequest` | `AnswerRequest` `LoadRequest` `AnswerSetStatus` (`NotifyRequestAccepted`) |

**Bestiz** puts the three together (`Init`, `Next`, `Spec`, `FairSpec`) and states the
properties. **Consent** says what the services promise, on sets of pairs, with no
handlers and no rows: who has asked, is friends, has blocked, has opened, accepted or
declined, what was written and seen, and when each may change. Its essence is
`MayWrite`: after a first message a user writes only with the other's approval (a
friendship at some time, an accepted request) or in answer to an approach of the
other's. `Promise` maps the tables to it. **BestizInv** holds the inductive
strengthenings, so that TLC checks the formulas the proofs use.

### Posts, comments and the pages that list them

**Posts** has the two tables, the queries and the requests in flight; a request is a
record with the query it makes next (`pc`), the post as it was loaded (`found`), the
row as it was written (`row`) and the audience computed so far (`to`). Friendships
and blocks are sets of pairs here, changed by `Befriend`, `Unfriend`, `Block` and
`Unblock` between any two queries: which sequences of requests bring those about is
the subject of the core. A post is its author and its visibility. `wire` is what the
latest step sent, a response or an event: to whom, about which post, carrying which
row. Histories: `everFriends`, `everShown` (every visibility a post ever had) and
`barred` (the caller was blocked when the request arrived and ever since).

| function | steps |
| --- | --- |
| `postService.create` | `CreatePost` `InsertPost` `Audience` (`EmitEvent`) |
| `postService.getById` | `NamePost` `LoadPost` (`CheckBlock` (`CheckFriends`)) |
| `postService.update` | `NamePost` `LoadPost` `UpdatePost` `RefetchPost` `Audience` (`EmitEvent`) |
| `postService.deletePost` | `NamePost` `LoadPost` `Audience` `DeletePost` `EmitEvent` |
| `commentService.create` | `NameParent` `LoadPost` `CheckBlock` `CheckFriends` `InsertComment` `RefetchComment` `Audience` (`EmitEvent`) |
| `commentService.getByPost` | `NameParent` `LoadPost` `CheckBlock` `CheckFriends` `FindComments` |
| `commentService.update` | `NameComment` `LoadComment` `UpdateComment` `RefetchComment` `LoadParent` `Audience` (`EmitEvent`) |
| `commentService.deleteComment` | `NameComment` `LoadComment` `LoadParent` `DeleteComment` `Audience` (`EmitEvent`) |

`Audience` is a step of its own because an audience of friends takes a query; one that
is everybody or nobody is known at once and the event leaves with it. A query that
finds nothing returns `Undefined`, and the service does with it what JavaScript does:
a TypeError and a 500, or an event that carries nothing (`WithoutRow`).

**Sharing** lets all of it run together, states who may come to see what, and holds the
strengthening `SharingInv`.

**PostPages** is one browser (`Me`) beside `PostService`: `FeedPage` on a tab, or
`UserProfilePage`. `list`, `hasMore`, `loading` and `friendIds` are React state; `loads`
the GETs in flight, with the answers their queries gave when they ran; `writing` the
page's own POST, PUT or DELETE; `inbox` the socket. The events come from the service's
own steps (`ServeRequest` appends what `wire` sends to `Me`, and gives the page the answer
to the request it waits for, `Ours`). Handlers are actions: `LoadArrives`, `WriteArrives`,
`HandlePostEvent`, `HandleFriendEvent`, `ActionArrives`. The history `overtaken` remembers
that an answer was applied after something had changed what it says (`Outdated`, a late
load), that an event was lost or never sent, or that friends changed under the page: then
the list is not expected to be right until the next first page. The same goes for two
requests that change one post at once (`Overtakes`): the one that has read the post before
the other wrote it tells too few, or what is no longer so. `untold` remembers the posts of
which this, a failure or a change of friends leaves it open whether `Me` was told.

### The messenger panel

**Messenger** is `MessengerContext.jsx` in one tab of `Me`, with the composer of
`ConversationView` and the buttons of `RequestList`, beside the real `MessageService`:
a call of the tab occupies a slot of `handlers`, so its queries interleave with the
other users' (`OthersAct`), and the events it hears are those the service's steps put
into `sent`. `thread`, `counts`, `conversations`, `requests` are the panel's state.
`loads` are refreshes in flight, `settling` what `accept`, `decline` or a page behind the
panel still awaits. Friendships and blocks change in one step here (`BecomeFriends`,
`PartWays`, `BlockEachOther`). The histories `stale` and `missed` say when the window,
and when the counts and lists, are not expected to be current: an answer overtaken, an
event lost with the socket, a change the panel is deliberately not told of, or a query
that failed after a write. The window is `stale` besides after the answer for a partner left
behind, and after a send from a window that was behind or had another partner. Two changes
never reach it and are not excused by `stale` but said in `WindowIsCurrent`: an opening
message of the partner's, which `onRequest` brings to the counts and lists alone (`Unheard`,
as long as `Me` has not decided), and the Accept / Decline row, which stands after a reply
because `send` reads the thread again after a first contact only (`StateShown`). `Announced`
lists what the tab gets to know of. The counts are excused (`missed`) after a reply that
uncovers older messages (`Uncovers`): `send`
reads the lists again and not the counts, which is enough for the badge as long as the
request that the reply accepts had one unread message; where there are more, from before a friendship
ended, they join the server's count and the badge stays short of it. The sequences that
the pages and the panel show are defined by rank (`Nth`, `Picked`, `NewestFirst`: the
k-th row is the one with k - 1 on its one side), which is what can be proved about.

### The session

**Session** is one tab: the user shown (`AuthContext`), the two cookies, the calls in
flight, `refreshPromise`, the socket. A token is the name of its owner; an expired or
absent one is `Nobody`. The steps are those of `client.js`: a call is answered
(`Serve`) by `authenticate` or a controller, a 401 that may be recovered from waits for
the refresh (`Recover`), `RefreshArrives` replays those who wait or ends the session
(`SessionExpired`). `crossed` remembers that a login or logout met another request in
flight, `lapsed` that the refresh token died or a refresh was lost. `SessionInv` is the strengthening
the proofs use.

**Accounts** is the `users` table with `register`, `login`, `updateProfile` and the edit
form. A username or an email is a word in a spelling, lower case or not, which is all
that `LOWER()` and the exact unique indexes tell apart. The form is mounted on the own page
of `UserProfilePage` when an answer to `loadAll` comes first (`opened`); answers to other
calls of `loadAll`, which friend events start, come later, held up or not (`HoldUp`,
`ProfileArrives`), and replace the prop under it (`shown`), with which `Submit` compares.
`holds` is a history: that a login's identifier and password have been those of a single
account since it arrived.

### Migrations

**Migrate** is `migrate.js` in every container, then `index.js`. A file is its number and its
effect a member of `schema`. A container may crash between any two statements and is
started again by docker-compose, with whatever has been released by then.

Definitions whose comment begins with "Slip:" are used by no action. Each is a
plausible mistake in the definition below it (an index not created, a status not
checked, an event sent before COMMIT), kept so that every property can be seen to
fail when the code has that mistake.

## What is abstracted

* Message text, the text and images of posts, profile fields other than the display
  name and the email, and timestamps. Rows are numbered in the order of their INSERTs
  and the numbers stand for `created_at`: no two rows of a list have the same time.
* A page of a conversation always holds all of it (at most three messages here, 50 in
  the code); a page of posts holds `PageSize`.
* Ids in requests: a client names a row it was shown, or a user that exists. Unknown
  ids and malformed input end in 400 or 404 before anything is written. The code
  never deletes a user.
* `sendOpeningMessage` is one step. Nobody can see or wait for anything it holds but
  the unique pair index, and on 23505 both rows go. Its two rows share a number.
* The friendships and blocks of **Posts** change in one step, and in **Messenger** too:
  their own queries are the subject of the core.
* In **PostPages** the viewer's cards show no comments, and a write of the page is the
  only one in flight. Other users ask only for what the service would not refuse.
* In **Session** there is one tab; the browser drops a cookie when its token expires, and
  the cookies of an answer are applied when the answer arrives.
* In **Accounts** a password is known by the account that has it, and bcrypt is a moment
  at which others run.
* In **Migrate** a file's statements succeed or fail together, as they do inside one
  transaction, and a later file refers to tables of the first one only.

## The runs

Users, slots and the like are interchangeable, and symmetry is used except where liveness
is checked. Deadlock is checked except in `feed`, `messenger` and `migrate`: the first
two bound how many things users and failures do (`MaxTurns`) and end when everything has
arrived; `migrate` ends when every server listens on the last release.

| run | instance | shows |
| --- | --- | --- |
| `tables` | 2 users, 2 rows, 2 requests in flight | `TypeOK`, `OneRowPerPair`, `NoFriendshipPredatesBlock`, `EventsFollowCommits`, `RequestLifecycle`; `ConsentKept`: `Spec` implements `Consent`; `CoreInv`, which the proofs use |
| `strangers` | 2 users, 3 rows, no blocks | `OneOpeningMessage`, `NoReceiptBeforeConsent`, `StrangersAreNotCounted` |
| `outsiders` | 3 users, 2 rows, no page views | `OnlyTheEntitled`, with a third user who names others' rows |
| `answered` | 2 users, 3 rows, `FairSpec`, every operation that takes or waits for the lock of a friendship or a block | `EveryRequestAnswered` |
| `posts` | 2 users, 2 requests in flight, a post and a comment | `WithinCircle`, `PrivateIsQuiet`, `CommentsWereAdmitted`, `BlockHolds`, and `SharingInv` (`TypeOK` is its first part), which the proofs use |
| `feed` | a viewer and an author, 2 requests in flight, 2 posts at the start, 1 more, pages of 1, 2 loads, 2 events, 3 turns | `NoDuplicates`, `MirrorsServer` |
| `messenger` | 2 users, 2 slots, 3 rows, 2 refreshes, 2 events, 2 turns | `WindowIsCurrent`, `NothingUnnoticed`, `TicksAreTrue` |
| `session` | 2 users, 2 calls in flight | `CookiesAreTheUsers`, `ExpiryIsSilent`, `RequestsSettle`, and `SessionInv`, which the proofs use |
| `accounts` | 2 words in 2 spellings, 1 display name, 2 accounts, 2 requests or forms | `EmailsDistinct`, `CredentialsOpen`, and `AccountsInv`, which the proofs use |
| `migrate` | 2 containers, 3 releases, 2 failures | `LedgerIsSchema`, `InOrder`, `ServesItsSchema`, `EverybodyServes`, and `MigrateInv`, which the proofs use |

Why these bounds are enough to meet the cases:

* `MaxRows` bounds the INSERTs of the core; one beyond it is rejected like a failed
  query (`RejectInsert`). Two rows suffice for a block and the friendship it
  meets, or for two opening messages; three for an opening message, a friendship and a
  further message (`strangers`; blocks only take permissions away there, and the same
  formulas are checked with blocks, on two rows, as parts of `CoreInv`), and for two
  friends who block each other at once (`answered`). The properties speak of one pair of
  users, or of the rows of one pair and an outsider, and every race listed among the
  hazards is between two handlers, or between one and several that come and go one
  after the other in the second slot.
* `posts`: every audience is decided by one post, its author and one other user, and
  every race is between two requests about that post, any number of which come and go;
  friendships and blocks change without bound.
* `feed`: pages of one post make two posts span two pages. A turn is something a user,
  another client or a failure does: three are enough for an edit overtaken by a page and
  followed by another event, or for two edits of one post that cross, and a load. `messenger`: two turns are a call of this tab and one of the
  other user's, or a failure, with all that follows from both; the tab opens on strangers, on a message
  between friends or on a request `Me` has to decide about, and a request of `Me`'s own is
  sent within the run.
* `messenger` lets the tab make one decision at a time (`NoOtherDecision`): an accept
  or a decline, or an action of a page behind the panel, ends before the next begins. The
  request list disables only the row that is being decided. There is one partner; an answer for
  a partner left behind takes two (`ThreadIsPartners`, below).
* `session` is bounded by its two slots alone: logins, expiries, losses and reloads
  repeat without end. Two calls that fail together, and one that fails after the refresh
  they shared, are among its behaviours.
* `accounts`: two forms of one account, or two registrations of one email, or an edit
  and a login. Display names decide nothing in what is checked there and one stands for
  all; it takes two to refute `EditsKeepApart` (below). `migrate`: two runners of different releases, with one crash each.

The proofs below remove the bounds for the invariants they cover.

Fairness. `EveryRequestAnswered` assumes that each handler whose next query can go
on infinitely often does go on (`SF_vars(Step(r))`). Node's loop and the database
serve every query, which alone is weak fairness; a statement that waits for a row
lock can be enabled and disabled again by others that take the lock, and under weak
fairness TLC shows it overtaken for ever. PostgreSQL queues lock waits in order of
arrival, so this does not happen, and strong fairness says so. No fairness is assumed
of clients (`Arrive`) or of failures (`Fail`). `RequestsSettle` assumes weak fairness of
answering the tab's calls and its refresh, a network error being an answer, and of
handling what arrives; logins, reloads and expiries are free. `EverybodyServes` assumes
weak fairness of each container's next step: docker-compose says `restart`, and
`MaxFailures` says that failures end. A runner that waits for another's CREATE goes on
once that transaction has ended, which it does.

### Where the code does not do what it says

Two more runs each refute one sentence of the repository, quoted in `PROJECT.json`:

* `blocked_friends`. Bob asks Ann for friendship; his handler finds no block. Ann
  blocks Bob. Bob's INSERT lands. Somebody accepts it later (accepting never looks for a block):
  friends beside a block, although `blockService.js:62` says none can exist. What
  does hold is `NoFriendshipPredatesBlock`: only friendships asked for after the
  block escape.
* `private_edit`. Ann edits the text of a post that is and was private. `getUpdateAudience`
  looks only for a side that is public; everything else goes to her friends, with the
  post, although `postService.js:168` says that private is invisible to others. What does
  hold is `WithinCircle` (nobody who was never her friend gets it) and `PrivateIsQuiet`
  (no other event or response does this).

The modules state more such sentences, next to the stories that TLC finds when the
formula is named as an INVARIANT, or as a PROPERTY if it is about steps, on the instance
of the run given here:

| formula | run's instance | story |
| --- | --- | --- |
| `NothingWrittenAcrossBlock` | `tables` | a send that looked for a block before it was placed writes after it (`blockService.js:7`) |
| `AcceptanceToldIsTrue` | `tables` | a phone declines while a laptop accepts; the laptop's UPDATE finds nothing pending, and the sender is told they were accepted (`messageRequestRepository.js:63-65`) |
| `FriendsHaveNothingPending` | `tables` | a first message resolved before a friendship creates the pending request after the transaction that clears it (`friendService.js:94-95`) |
| `OneMessageUntilAccepted` | `strangers` | a message resolved while friends is inserted after they parted and a new request was opened (`messageRequestRepository.js:118-120`) |
| `AnsweredIsNotPending` | `tables` | the reply is stored, the UPDATE that accepts the request fails (`messageService.js:154-157`) |
| `MarkedWasFetched` | `tables` | a message that arrives between the page query and the marking is marked read unseen (`messageService.js:231-234`) |
| `EventsCarryRows` | `posts` | a public post deleted between its UPDATE and the read after it is announced as updated, with no post |
| `AuthorHears` | `posts` | a friend comments on a post for friends: its author, who is not a friend of themselves, is not told (`commentService.js:30`) |
| `TabShowsItsOwn` | `feed` | the load of a tab fails and the former tab's list stays; or the answer for a tab left behind arrives after the answer for the open one |
| `ThingsStopArriving` | `feed` | public posts are broadcast to the blocked as well, and the pages know of no blocks |
| `CursorSkipsNothing` | `feed` | an old post that an update put on top of the list is its last one, and becomes the cursor |
| `UpdatesAreCurrent` | `feed` | two edits of one post cross between UPDATE and emit: an event leaves with a version that has been replaced by then, and if it leaves last the pages keep it (`postService.js:14`) |
| `ThreadIsPartners` | `messenger`, with 3 users and 1 row | `Me` opens the conversation with Ann and, before its answer, the one with Bob; Bob's answer arrives, then Ann's: her thread stands under his name (`MessengerContext.jsx:48`) |
| `ReadWasLookedAt` | `messenger` | hiding the panel leaves the thread open; what arrives is marked read |
| `WindowIsExact` | `messenger` | Ann's opening message to `Me`, whose thread with her is open and empty, is delivered to the lists and the counts and not to the thread; or the Accept / Decline row stands after a reply (README.md:82, live delivery) |
| `BadgeSettles` | `messenger` | `accept` refreshes the counts before it reads the thread, whose messages stay counted |
| `SocketIsUsers` | `session` | a login as somebody else keeps the connection of the former user |
| `EditsKeepApart` | `accounts`, with 2 display names | Ann's own page is open in two tabs, and in the second one more answer to `loadAll` is outstanding (a friend event asked for it). She saves a new display name in the first. The answer replaces the profile under the second tab's open form, whose fields stay; whatever she sends that form for, the display name in it differs from the profile shown now, goes along as changed and undoes the first edit (`EditProfileModal.jsx:31`, "Only include fields that actually changed") |
| `UsernamesDistinct` | `accounts` | two registrations that look before either inserts leave two names that differ in case |

These are also why `Consent` is as weak as it is: a friendship "at some time" rather
than now, `PlaceBlock` and `Befriend` with the outcomes a race can leave; why
`MirrorsServer` and `WindowIsCurrent` except answers that were overtaken; and why
`WindowIsCurrent` lets a partner's opening message be missing.

## The proofs

TLAPS checks these for every set of users, slots, words, posts or containers and every
bound. They assume what the modules say of their constants, which the runs evaluate:
`MaxRows \in Nat`, that `Nobody` is not a user (`SessionAssumption`, `MessengerAssumption`),
that a browser's `Me` is one, that the posts there are at the start are numbered as they
were created and a page holds at least one (`PagesAssumption`), `AccountsAssumption` and
`MigrateAssumption`; `SharingProofs` assumes nothing.

1. `CoreProofs`: `TypeCorrect`, `Spec => []TypeOK`. One lemma per service shows that its
   steps keep the types; the arriving requests and failures have their own.
2. `CoreProofs`: `BlockInvariant` and from it `FriendshipsYoungerThanBlocks`,
   `Spec => []NoFriendshipPredatesBlock`. `NoFriendshipPredatesBlock` is not
   inductive: between the INSERT of a block and its COMMIT the block is not in the
   table, so nothing says what its handler must still remove. `BlockInv` adds it: while a
   block numbered `ref` is being placed, nobody else places the same one, and once the
   handler has looked, a friendship of the pair numbered below `ref` can only be
   the one it found and is about to remove. Numbers in use are below `nextId`.
3. `CoreProofs`: `ConsentInvariant`, and from it `OneMessageRule`, `ReceiptsFollowConsent`,
   `BadgeFollowsConsent` and `PairsAreUnique`. The strengthening `ConsentInv` says that rows
   are numbered below `nextId` and apart (`RowsNumbered`, `RequestsApart`), that friends are
   remembered (`FriendsRemembered`), that every message between two who were never friends
   is covered by a request of the pair (`MessagesAccountedFor`), and that every handler
   about to write or mark something still has the justification it read, or one that
   replaced it (`StillJustified`): an answer once given by `resolveSendState` can become
   stale only by way of a friendship, because decided requests never change and undecided
   ones are deleted only by an acceptance.
4. `PromiseProofs`: `CoreInvariant`, and from it `EventsAreTrue` (`EventsFollowCommits`) and
   the action properties `OnlyTheEntitledAct` and `DecisionsAreFinal`
   (`RequestLifecycle`). `CoreInv` is `BlockInv`, `ConsentInv` and `RowInv`: what a
   handler knows of the rows it named or loaded some queries ago stays true, because
   numbers are not used again, a row keeps its users and a decision is final
   (`MayActOnRow`, `MayTell`), and a row that an open transaction has written stays as
   it was and is nobody else's until COMMIT (`LockedRowsWait`). `EventsFollowCommits` speaks
   of the moment of the emission and of rows that are still there: an event about a row deleted
   meanwhile is not constrained, nor is who gets `friend:removed`, and
   `message:request_accepted` says that its row is decided and its requester told, not that the
   decision was to accept (`AcceptanceToldIsTrue`, above). `OnlyCommits` says which
   ten steps change a row at all; each theorem goes through those.
5. `PromiseProofs`: `RulesAreKept`, `Spec => ConsentKept`, the refinement of `Consent`
   under the mapping `Promise`. One lemma per commit names the step of `Consent` it is:
   `COMMIT` of an acceptance is `Befriend` because its row is still pending
   (`LockedRowsWait`), the INSERT of a message is `Write` because its justification is
   still on record (`StillJustified`), the DELETE of a friendship is `Part` because
   the pair has no other row (`BlockInv`).
6. `MigrateProofs`: `MigrateInvariant`, and from it `MigrateTypes`, `LedgerTellsTheTruth`,
   `FilesInOrder` and `ServersHaveTheirSchema`. That files take effect in order does not
   follow from the order of the loop alone, since others commit meanwhile. `MigrateInv` adds
   what keeps a list read once good enough: whatever is of the runner's release and not on
   its list has taken effect (`ListIsEnough`, kept because effects are only added), the file
   in a transaction is the first of the list (`FileIsFirst`), and a runner that is done has
   seen its release take effect (`DoneIsDone`).
7. `AccountsProofs`: `AccountsInvariant`, and from it `AccountsTypes`, `OneAccountPerEmail`
   and the action property `LoginsEndRight`. The unique index compares
   exactly; `EmailsStored` says that what it compares has been through `LOWER()`, which
   makes exact uniqueness uniqueness in any spelling. `LoginHolds` says that the row a login has
   found is the one account its identifier still names. What an edit may undo is not
   proved, because it may (`EditsKeepApart`, above).
8. `SharingProofs`: `SharingInvariant`, and from it `PostsStayInCircle`,
   `PrivatePostsAreQuiet`, `CommentersWereAdmitted` and the action property
   `BlocksHold`. What a request answers, stores or emits rests on queries made before
   posts, friendships and blocks changed again. `SharingInv` says of every request in flight
   that it is `Sound`: the post it has loaded was once that (`Loaded`), whoever
   `canViewerSeePost` let through was someone it had been open to, and whoever is in the
   audience is in the author's circle (`Entitled`), and a caller who was blocked from the
   start has not got past the block (`StillBarred`). Histories only grow, so that
   the steps of others keep all of it (`SoundKept`); a comment is stored only
   while its post exists, because the foreign key is checked by the INSERT.
9. `SessionProofs`: `SessionInvariant`, and from it `SessionTypes`, `CookiesFollowUser`
   (`CookiesAreTheUsers`) and the action property `ExpiryStaysSilent` (`ExpiryIsSilent`).
   That the cookies of a tab at rest are its user's is not inductive: what they will be is
   in the answers on their way. `SessionInv` says what each phase of a call tells about it
   (`CallHolds`), that at most one call restores the session (`RestoredOnce`), that callers
   who wait do so for the one refresh (`RefreshHolds`), that two cookies never have
   different owners (`CookiesAgree`), and, while answers of two sessions have not crossed,
   that there is one owner for whom the user shown, the cookies and every call in flight
   speak (`Uncrossed`: `Speaks(u)`), except a login or logout that is alone. A refresh that
   fails while its token lives was asked for by nobody (`RefusedIsNobodys`), and a call is
   refused after its replay only if the refresh token died or a refresh was lost, which is
   why expiry stays silent.
10. `PagesProofs`: `PagesInvariant`, and from it `PagesTypes` and `NoPostTwice`
   (`NoDuplicates`). The list has no post twice because `AppendFresh`, `Upsert` and
   `Inserted` look before they add, if what they add has none twice itself and one number
   means one post: `PagesInv` says that of every page, answer, event and backup in flight,
   on top of the `SharingInv` of item 8, which the page's server keeps as well. Pages are
   sequences by rank, and `NthThere` and `PickedOf` say what a rank finds.
   `MirrorInvariant`, and from it `PagesMirror` (`MirrorsServer`). That the list is the
   server's once everything has arrived says nothing of the way there; `MirrorInv` does, post
   by post. A post is `Covered` if the list has it as the server has it (`Right`), or the
   answer to the page's own write will put it right (`OwnPending`), or somebody will still
   tell (`OnItsWay`): an edit or deletion past its write that has `Me` in its audience
   (`Promised`), an event that waits (`Coming`), or, while the list is without the post, its
   announcement (`Creating`). The same is required of every load that was not overtaken, as
   the list it would make (`LoadHolds`). `EventsSay` is what makes an event enough: what it
   says is so, the post as it is or that it is not for `Me`, unless a request or a later
   event will tell of the post again. The audiences of the service are wide enough for this
   (`UpdateSees`, `AudienceSees`, `Warned`), and the filters of the page narrow enough:
   `MatchesIs` shows that they agree with the feed's query wherever no block is involved. All
   of it needs to know whose post is whose, also of posts that are gone: `Signed` says that
   some assignment of authors agrees with every table, request, event, load and list. TLC
   checked `MirrorInv` on instances with two requests in flight before it was proved.
11. `MessengerProofs`: `MessengerInvariant`, and from it `MessengerTypes`, `TicksTell`
   (`TicksAreTrue`), `NothingGoesUnnoticed` (`NothingUnnoticed`) and `WindowsAreCurrent`
   (`WindowIsCurrent`). The three properties speak of the panel at rest or of the open
   thread; the invariant says what everything under way is good for. `SlotsHold`: a slot
   serves this tab's call or somebody who turns to `Me`, what its handler has found out is
   still so (`Knows`), and the page or the message it will answer with is of the table,
   complete and ticked as the table is unless the call was overtaken (`ReadHolds`,
   `SendHolds`, `Shown`). Tables only grow where this counts (`Onward`): messages stay and
   ticks are not taken back, so that a tick that was true when a page was read or an event
   was sent is true when it arrives (`TicksTell`). `LoadsHold`: a refresh that was not
   overtaken holds what the server would say now. `CountsHold` and `ListsHold`: whenever the
   badge or the lists fall short, an event, an answer, a page or a refresh is on its way
   that reads them again (`Owed`). A step that adds a row keeps this by owing the event it
   will emit, a step that takes what is owed away by the refresh it starts, and a refresh by
   what it brings. With nothing under way nothing is owed (`NothingGoesUnnoticed`).
   `WindowHolds` is the same idea for the thread, proved relative to the invariant: unless
   the window is `stale`, something that reads the thread again is under way (`Rereading`),
   or it has the partner, the send state (`StateShown`) and the messages of the server but for
   those the answer to a send will add (`Unshown`), a partner's opening message that was never
   announced to the thread (`Unheard`, in `Covers`) and the ticks an event will bring
   (`Unticked`). Each query of the other side's handlers is either the first of those that end in
   an event for the thread, or changes nothing the thread shows but by these (`Follows`,
   `FollowsOpening`, `FollowsReply`).

Each step lemma has one step per action, and each theorem combines initialisation,
preservation and implication with the temporal rule.

Three things were found by proofs that would not go through. The badge may fall short after
a reply (`Uncovers`, above): the instance of run `messenger` is too small for the
friendship, the parting, the opening message and the reply it takes. `PagesAssumption` has
to say that the posts of the start are numbered apart and below the next one. And two edits
of one post may cross (`UpdatesAreCurrent`, above), which one request in flight at a time
never showed: `MirrorsServer` is false of a page that hears of both, and holds of every
other (`Overtakes`).

Only model-checked: the liveness properties `EveryRequestAnswered`, `RequestsSettle` and
`EverybodyServes` (fairness and ENABLED are beyond the prover). The sentences the code does
not keep are refuted by TLC and are not theorems. Every other property that a run checks is
proved.

## Not modelled

* The pool of 20 connections. A handler takes its connections one after another and none
  inside a transaction, so exhaustion delays requests and then fails them, which `Fail`
  covers; the waiting list and its timeout are the driver's.
* The comments shown under an open card (`CommentsList`), the friend, friend request and
  blocked user pages (lists that load everything again on every friend event), user
  search (late answers are dropped and nothing is kept), profile views, and the count of
  friends, which `handleProfileUpdated` drops.
* Several tabs of one browser, which share the cookies, and several sockets of one user.
* Posts created in the same millisecond, which the cursor `created_at < before` can skip at
  a page's end: times are numbers here and never equal.
* Start-up but for its order, configuration and seed data, validators, rate limits and
  presentation: no behaviour over time that a state machine would add to.

## What could follow

In order of importance: a second tab in **Session**, whose shared cookies the refresh of one
tab rotates under the other; `CommentsList` beside **CommentService**, with the dialogue of
**PostPages**.
