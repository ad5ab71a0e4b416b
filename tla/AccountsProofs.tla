---------------------------- MODULE AccountsProofs ----------------------------
(***************************************************************************)
(* The users table and the requests that write it, for any words, display  *)
(* names, number of accounts and of requests in flight: AccountsInv is     *)
(* inductive, emails stay apart, and a login ends as it should.            *)
(***************************************************************************)
EXTENDS Accounts, TLAPS

Waiting == {Idle} \cup Registration \cup Login \cup Page \cup Edit

\* What LOWER() returns.
LEMMA Lowered ==
  ASSUME NEW s \in Spelling
  PROVE  /\ LOWER(s) \in Spelling /\ LOWER(s).lower = TRUE
         /\ s.lower = TRUE => LOWER(s) = s
  BY DEF LOWER, Spelling

\* Which request is at which query.
LEMMA ByStep ==
  ASSUME NEW q \in Waiting
  PROVE  /\ q.pc \in {"findConflicts", "create"} => q \in Registration
         /\ q.pc \in {"findUser", "compare"} => q \in Login
         /\ q.pc = "loading" => q \in Page
         /\ q.pc \in {"editing", "findEmailConflict", "updateProfile"} => q \in Edit
         /\ q.pc = "idle" => q = Idle
  BY DEF Waiting, Idle, Registration, Login, Page, Edit

\* A step that writes no account answers for its own request alone.
LEMMA OnlyRequest ==
  ASSUME AccountsInv, NEW r \in Slots, NEW q \in Waiting,
         requests' = [requests EXCEPT ![r] = q], LoginHolds(q),
         UNCHANGED <<users, nextId>>, outcome' \in Outcome
  PROVE  AccountsInv'
<1>1. requests' \in [Slots -> Waiting]
  BY DEF AccountsInv, AccountsTypeOK, Waiting
<1>2. AccountsTypeOK'
  BY <1>1 DEF AccountsInv, AccountsTypeOK, Waiting
<1>3. IdsApart' /\ EmailsStored'
  BY DEF AccountsInv, IdsApart, EmailsStored
<1>4. ASSUME NEW s \in Slots PROVE LoginHolds(requests[s])'
  <2>1. requests'[s] = q \/ requests'[s] = requests[s]
    BY DEF AccountsInv, AccountsTypeOK
  <2>2. LoginHolds(requests[s])
    BY DEF AccountsInv
  <2>3. users' = users
    OBVIOUS
  <2>4. LoginHolds(requests'[s])
    BY <2>1, <2>2
  <2> QED BY <2>3, <2>4 DEF LoginHolds, Holds, Named
<1> QED BY <1>2, <1>3, <1>4 DEF AccountsInv

\* A slot that is idle has nothing to answer for.
LEMMA IdleIsFine == Idle \in Waiting /\ LoginHolds(Idle)
  BY DEF Idle, Waiting, LoginHolds, IsLogin

\* Ending a request without a write.
LEMMA RespondKeeps ==
  ASSUME AccountsInv, NEW r \in Slots,
         NEW status \in {"ok", "unauthorized", "conflict", "error"}, NEW as \in Nat,
         Respond(r, status, as), UNCHANGED <<users, nextId>>
  PROVE  AccountsInv'
<1>1. outcome' \in Outcome
  BY DEF Respond, Outcome
<1> QED BY <1>1, IdleIsFine, OnlyRequest DEF Respond

-----------------------------------------------------------------------------
(* The steps that write nothing.                                           *)

LEMMA StartKeeps ==
  ASSUME AccountsInv, NEW r \in Slots, NEW q \in Waiting, Start(r, q),
         LoginHolds(q)
  PROVE  AccountsInv'
<1>1. outcome' \in Outcome
  BY DEF Start, Quiet, Outcome
<1> QED BY <1>1, OnlyRequest DEF Start

LEMMA RegisterKeeps ==
  ASSUME AccountsInv, NEW r \in Slots, Register(r) PROVE AccountsInv'
<1>1. PICK n \in Spelling, e \in Spelling, d \in Displays :
        Start(r, [pc |-> "findConflicts", username |-> n, email |-> e, display |-> d])
  BY DEF Register
<1> DEFINE q == [pc |-> "findConflicts", username |-> n, email |-> e, display |-> d]
<1>2. q \in Waiting /\ q.pc = "findConflicts"
  BY DEF Waiting, Registration
<1>3. LoginHolds(q)
  BY <1>2 DEF LoginHolds, IsLogin
<1> QED BY <1>1, <1>2, <1>3, StartKeeps

LEMMA LogInKeeps ==
  ASSUME AccountsInv, NEW r \in Slots, LogIn(r) PROVE AccountsInv'
<1>1. PICK by \in {"email", "username"}, s \in Spelling, i \in 0..MaxUsers :
        Start(r, [pc |-> "findUser", by |-> by, identifier |-> s, knows |-> i,
                  found |-> NoUser, holds |-> Holds(users, by, s, i)])
  BY DEF LogIn
<1> DEFINE h == Holds(users, by, s, i)
           q == [pc |-> "findUser", by |-> by, identifier |-> s, knows |-> i,
                 found |-> NoUser, holds |-> h]
<1>2. h \in BOOLEAN
  BY DEF Holds
<1>3. i \in Nat /\ by \in Fields \cup {"username"} /\ NoUser \in User \cup {NoUser}
  BY AccountsAssumption DEF Fields
<1> HIDE DEF h
<1>4. q \in Login
  BY <1>2, <1>3 DEF Login
<1>5. q \in Waiting
  BY <1>4 DEF Waiting
<1>6. LoginHolds(q)
  BY DEF LoginHolds, h
<1>7. Start(r, q)
  BY <1>1 DEF h
<1> QED BY <1>5, <1>6, <1>7, StartKeeps

\* A request that goes on to its next query.
LEMMA GotoKeeps ==
  ASSUME AccountsInv, NEW r \in Slots, NEW pc, Goto(r, pc),
         [requests[r] EXCEPT !.pc = pc] \in Waiting,
         LoginHolds([requests[r] EXCEPT !.pc = pc]),
         UNCHANGED <<users, nextId>>
  PROVE  AccountsInv'
<1>1. outcome' \in Outcome
  BY DEF Goto, Quiet, Outcome
<1>2. requests' = [requests EXCEPT ![r] = [requests[r] EXCEPT !.pc = pc]]
  BY DEF Goto
<1> QED BY <1>1, <1>2, OnlyRequest

LEMMA FindConflictsKeeps ==
  ASSUME AccountsInv, NEW r \in Slots, FindConflicts(r) PROVE AccountsInv'
<1>1. CASE Respond(r, "conflict", 0)
  BY <1>1, RespondKeeps DEF FindConflicts
<1>2. CASE Goto(r, "create")
  <2> DEFINE q == [requests[r] EXCEPT !.pc = "create"]
  <2>1. requests[r] \in Registration
    BY ByStep DEF FindConflicts, At, AccountsInv, AccountsTypeOK, Waiting
  <2>2. q \in Waiting /\ q.pc = "create"
    BY <2>1 DEF Waiting, Registration
  <2>3. LoginHolds(q)
    BY <2>2 DEF LoginHolds, IsLogin
  <2> QED BY <1>2, <2>2, <2>3, GotoKeeps DEF FindConflicts
<1> QED BY <1>1, <1>2 DEF FindConflicts

\* The account that a login finds is the one it names, if it names just one.
LEMMA FindUserKeeps ==
  ASSUME AccountsInv, NEW r \in Slots, FindUser(r) PROVE AccountsInv'
<1> DEFINE q == requests[r]
           rows == {u \in users : Matches(u, q.by, q.identifier)}
<1>1. q \in Login /\ q.pc = "findUser" /\ LoginHolds(q)
  BY ByStep DEF FindUser, At, AccountsInv, AccountsTypeOK, Waiting
<1>2. CASE rows = {}
  BY <1>2, RespondKeeps DEF FindUser
<1>3. CASE rows # {}
  <2>1. PICK u \in rows :
          requests' = [requests EXCEPT ![r].pc = "compare", ![r].found = u]
    BY <1>3 DEF FindUser
  <2> DEFINE n == [q EXCEPT !.pc = "compare", !.found = u]
  <2>2. requests' = [requests EXCEPT ![r] = n]
    BY <2>1 DEF AccountsInv, AccountsTypeOK
  <2>3. u \in User
    BY DEF AccountsInv, AccountsTypeOK
  <2>4. n \in Login
    BY <1>1, <2>3 DEF Login
  <2>5. /\ n.pc = "compare" /\ n.found = u /\ n.by = q.by /\ n.holds = q.holds
        /\ n.identifier = q.identifier /\ n.knows = q.knows
    BY <1>1 DEF Login
  <2>6. LoginHolds(n)
    <3> SUFFICES ASSUME q.holds
                 PROVE Holds(users, q.by, q.identifier, q.knows) /\ u.id = q.knows
      BY <2>5 DEF LoginHolds
    <3>1. Holds(users, q.by, q.identifier, q.knows)
      BY <1>1 DEF LoginHolds, IsLogin
    <3>2. u \in Named(users, q.by, q.identifier)
      BY DEF Named, Matches
    <3> QED BY <3>1, <3>2 DEF Holds
  <2>7. outcome' \in Outcome /\ UNCHANGED <<users, nextId>>
    BY <1>3 DEF FindUser, Quiet, Outcome
  <2>8. n \in Waiting
    BY <2>4 DEF Waiting
  <2> QED BY <2>2, <2>6, <2>7, <2>8, OnlyRequest
<1> QED BY <1>2, <1>3

LEMMA CompareKeeps ==
  ASSUME AccountsInv, NEW r \in Slots, Compare(r) PROVE AccountsInv'
<1>1. requests[r] \in Login
  BY ByStep DEF Compare, At, AccountsInv, AccountsTypeOK, Waiting
<1>2. requests[r].found.id \in Nat
  BY <1>1 DEF Login, User, NoUser, Id
<1> QED BY <1>2, RespondKeeps DEF Compare

-----------------------------------------------------------------------------
(* The own profile page and its form.                                      *)

\* What a page or a form waits for.
LEMMA OwnPage ==
  ASSUME AccountsInv, NEW r \in Slots, OnOwnPage(r)
  PROVE  /\ requests[r] \in Page \cup Edit /\ requests[r].user \in Id
         /\ requests[r].late \in Profile \cup {NoProfile}
         /\ requests[r].pc = "loading" => requests[r] \in Page
         /\ requests[r].pc # "loading" => requests[r] \in Edit /\ requests[r].pc = "editing"
<1>1. requests[r] \in Waiting
  BY DEF AccountsInv, AccountsTypeOK, Waiting
<1>2. requests[r] \in Page \/ (requests[r] \in Edit /\ requests[r].pc = "editing")
  BY <1>1, ByStep DEF OnOwnPage
<1> QED BY <1>2 DEF Page, Edit

\* A page or a form changes what it has received, and nothing else.
LEMMA PageKeeps ==
  ASSUME AccountsInv, NEW r \in Slots, NEW q \in Page \cup Edit,
         requests' = [requests EXCEPT ![r] = q],
         UNCHANGED <<users, nextId>>, outcome' \in Outcome
  PROVE  AccountsInv'
<1>1. q \in Waiting
  BY DEF Waiting
<1>2. LoginHolds(q)
  BY DEF Page, Edit, LoginHolds, IsLogin
<1> QED BY <1>1, <1>2, OnlyRequest

LEMMA Profiles == ASSUME AccountsInv, NEW u \in users PROVE ProfileOf(u) \in Profile
  BY DEF AccountsInv, AccountsTypeOK, User, ProfileOf, Profile

LEMMA OpenPageKeeps ==
  ASSUME AccountsInv, NEW r \in Slots, OpenPage(r) PROVE AccountsInv'
<1>1. PICK u \in users : Start(r, [pc |-> "loading", user |-> u.id, late |-> NoProfile])
  BY DEF OpenPage
<1> DEFINE q == [pc |-> "loading", user |-> u.id, late |-> NoProfile]
<1>2. u.id \in Id
  BY DEF AccountsInv, AccountsTypeOK, User
<1>3. q \in Page
  BY <1>2 DEF Page
<1>4. outcome' \in Outcome
  BY <1>1 DEF Start, Quiet, Outcome
<1> QED BY <1>1, <1>3, <1>4, PageKeeps DEF Start

LEMMA HoldUpKeeps ==
  ASSUME AccountsInv, NEW r \in Slots, HoldUp(r) PROVE AccountsInv'
<1>1. PICK u \in users : requests' = [requests EXCEPT ![r].late = ProfileOf(u)]
  BY DEF HoldUp
<1> DEFINE p == ProfileOf(u)
           q == [requests[r] EXCEPT !.late = p]
<1>2. p \in Profile
  BY Profiles
<1>3. requests' = [requests EXCEPT ![r] = q]
  BY <1>1 DEF AccountsInv, AccountsTypeOK
<1> HIDE DEF p
<1>4. q \in Page \cup Edit
  BY <1>2, OwnPage DEF HoldUp, Page, Edit
<1>5. outcome' \in Outcome
  BY DEF HoldUp, Quiet, Outcome
<1> QED BY <1>3, <1>4, <1>5, PageKeeps DEF HoldUp

LEMMA ProfileArrivesKeeps ==
  ASSUME AccountsInv, NEW r \in Slots, ProfileArrives(r) PROVE AccountsInv'
<1>1. OnOwnPage(r) /\ UNCHANGED <<users, nextId>> /\ outcome' \in Outcome
  BY DEF ProfileArrives, Quiet, Outcome
<1>2. PICK p \in ({requests[r].late} \ {NoProfile})
                   \cup {ProfileOf(u) : u \in {v \in users : v.id = requests[r].user}} :
        requests' = [requests EXCEPT ![r] = Received(requests[r], p)]
  BY DEF ProfileArrives
<1>3. p \in Profile
  BY <1>1, <1>2, OwnPage, Profiles
<1> DEFINE late == IF p = requests[r].late THEN NoProfile ELSE requests[r].late
<1>4. late \in Profile \cup {NoProfile}
  BY <1>1, OwnPage
<1> HIDE DEF late
<1>5. CASE requests[r].pc = "loading"
  <2> DEFINE q == [pc |-> "editing", user |-> requests[r].user, opened |-> p, shown |-> p,
                   late |-> late, typed |-> p, fields |-> {}]
  <2>1. Received(requests[r], p) = q
    BY <1>5 DEF Received, late
  <2>2. q \in Edit
    BY <1>1, <1>3, <1>4, OwnPage DEF Edit
  <2> QED BY <1>1, <1>2, <2>1, <2>2, PageKeeps
<1>6. CASE requests[r].pc # "loading"
  <2> DEFINE q == [requests[r] EXCEPT !.shown = p, !.late = late]
  <2>1. Received(requests[r], p) = q
    BY <1>6 DEF Received, late
  <2>2. q \in Edit
    BY <1>1, <1>3, <1>4, <1>6, OwnPage DEF Edit
  <2> QED BY <1>1, <1>2, <2>1, <2>2, PageKeeps
<1> QED BY <1>5, <1>6

LEMMA SubmitKeeps ==
  ASSUME AccountsInv, NEW r \in Slots, Submit(r) PROVE AccountsInv'
<1>1. PICK d \in Displays, e \in Spelling :
        LET typed == [display |-> d, email |-> e]
            fields == ChangedFields(requests[r].shown, typed) IN
        requests' = [requests EXCEPT ![r] =
          IF fields = {} THEN Idle
          ELSE [@ EXCEPT !.pc = IF "email" \in fields THEN "findEmailConflict"
                                                      ELSE "updateProfile",
                 !.typed = typed, !.fields = fields]]
  BY DEF Submit
<1> DEFINE typed == [display |-> d, email |-> e]
           fields == ChangedFields(requests[r].shown, typed)
           pc == IF "email" \in fields THEN "findEmailConflict" ELSE "updateProfile"
           n == [requests[r] EXCEPT !.pc = pc, !.typed = typed, !.fields = fields]
<1>2. requests' = [requests EXCEPT ![r] = IF fields = {} THEN Idle ELSE n]
  BY <1>1 DEF AccountsInv, AccountsTypeOK
<1>3. requests[r] \in Edit
  BY ByStep DEF Submit, At, AccountsInv, AccountsTypeOK, Waiting
<1>4. fields \in SUBSET Fields /\ typed \in Profile
  BY DEF ChangedFields, Profile
<1>5. pc \in {"findEmailConflict", "updateProfile"}
  OBVIOUS
<1>6. outcome' \in Outcome /\ UNCHANGED <<users, nextId>>
  BY DEF Submit, Quiet, Outcome
<1> HIDE DEF fields, typed, pc
<1>7. n \in Edit
  BY <1>3, <1>4, <1>5 DEF Edit
<1> HIDE DEF n
<1>8. CASE fields = {}
  BY <1>2, <1>6, <1>8, IdleIsFine, OnlyRequest
<1>9. CASE fields # {}
  BY <1>2, <1>6, <1>7, <1>9, PageKeeps
<1> QED BY <1>8, <1>9

\* A refused save, which leaves the form open or finds it closed.
LEMMA RefuseKeeps ==
  ASSUME AccountsInv, NEW r \in Slots, NEW status \in {"conflict", "error"},
         Refuse(r, status), UNCHANGED <<users, nextId>>,
         requests[r].pc \in {"findEmailConflict", "updateProfile"}
  PROVE  AccountsInv'
<1>1. CASE Respond(r, status, 0)
  BY <1>1, RespondKeeps
<1>2. CASE /\ requests' = [requests EXCEPT ![r].pc = "editing", ![r].fields = {},
                                           ![r].typed = requests[r].opened]
           /\ outcome' = [status |-> status, as |-> 0]
  <2> DEFINE q == [requests[r] EXCEPT !.pc = "editing", !.fields = {},
                                      !.typed = requests[r].opened]
  <2>1. requests' = [requests EXCEPT ![r] = q]
    BY <1>2 DEF AccountsInv, AccountsTypeOK
  <2>2. requests[r] \in Edit
    BY ByStep DEF AccountsInv, AccountsTypeOK, Waiting
  <2>3. q \in Edit
    BY <2>2 DEF Edit
  <2>4. outcome' \in Outcome
    BY <1>2 DEF Outcome
  <2> QED BY <2>1, <2>3, <2>4, PageKeeps
<1> QED BY <1>1, <1>2 DEF Refuse

LEMMA FindEmailConflictKeeps ==
  ASSUME AccountsInv, NEW r \in Slots, FindEmailConflict(r) PROVE AccountsInv'
<1>1. requests[r].pc = "findEmailConflict" /\ UNCHANGED <<users, nextId>>
  BY DEF FindEmailConflict, At
<1>2. CASE Refuse(r, "conflict")
  BY <1>1, <1>2, RefuseKeeps
<1>3. CASE Goto(r, "updateProfile")
  <2> DEFINE q == [requests[r] EXCEPT !.pc = "updateProfile"]
  <2>1. requests[r] \in Edit
    BY <1>1, ByStep DEF AccountsInv, AccountsTypeOK, Waiting
  <2>2. q \in Edit
    BY <2>1 DEF Edit
  <2>3. requests' = [requests EXCEPT ![r] = q] /\ outcome' \in Outcome
    BY <1>3 DEF Goto, Quiet, Outcome
  <2> QED BY <1>1, <2>2, <2>3, PageKeeps
<1> QED BY <1>2, <1>3 DEF FindEmailConflict

LEMMA FailKeeps ==
  ASSUME AccountsInv, NEW r \in Slots, Fail(r) PROVE AccountsInv'
<1>1. CASE Respond(r, "error", 0)
  BY <1>1, RespondKeeps DEF Fail
<1>2. CASE requests[r].pc \in {"findEmailConflict", "updateProfile"} /\ Refuse(r, "error")
  BY <1>2, RefuseKeeps DEF Fail
<1> QED BY <1>1, <1>2 DEF Fail

-----------------------------------------------------------------------------
(* The two steps that write.                                               *)

\* After a write, whoever is logging in still names a single account, or is
\* no longer held to.
LEMMA WatchedKeeps ==
  ASSUME AccountsInv, NEW r \in Slots,
         requests' = Watched([requests EXCEPT ![r] = Idle], users')
  PROVE  /\ requests' \in [Slots -> Waiting]
         /\ \A s \in Slots : LoginHolds(requests[s])'
<1> DEFINE rs == [requests EXCEPT ![r] = Idle]
<1>1. rs \in [Slots -> Waiting]
  BY IdleIsFine DEF AccountsInv, AccountsTypeOK, Waiting
<1>2. ASSUME NEW s \in Slots
      PROVE  LoginHolds(rs[s])
  BY IdleIsFine DEF AccountsInv, AccountsTypeOK
<1> HIDE DEF rs
<1>3. ASSUME NEW s \in Slots
      PROVE  requests'[s] \in Waiting /\ LoginHolds(requests[s])'
  <2> DEFINE held == Holds(users', rs[s].by, rs[s].identifier, rs[s].knows)
             n == [rs[s] EXCEPT !.holds = FALSE]
  <2>1. requests'[s] = IF IsLogin(rs[s]) /\ ~held THEN n ELSE rs[s]
    BY DEF Watched, rs
  <2>2. CASE IsLogin(rs[s]) /\ ~held
    <3>1. rs[s] \in Login
      BY <1>1, <2>2, ByStep DEF IsLogin
    <3>2. n \in Login /\ n.pc = rs[s].pc /\ n.holds = FALSE
      BY <3>1 DEF Login
    <3>3. n \in Waiting
      BY <3>2 DEF Waiting
    <3>4. LoginHolds(requests[s])'
      BY <2>1, <2>2, <3>2 DEF LoginHolds
    <3> QED BY <2>1, <2>2, <3>3, <3>4
  <2>3. CASE ~(IsLogin(rs[s]) /\ ~held)
    <3>1. requests'[s] = rs[s]
      BY <2>1, <2>3
    <3>2. LoginHolds(requests[s])'
      BY <3>1, <1>2, <2>3 DEF LoginHolds, IsLogin
    <3> QED BY <1>1, <3>1, <3>2
  <2> QED BY <2>2, <2>3
<1>4. requests' = [s \in Slots |-> requests'[s]]
  BY DEF Watched
<1> QED BY <1>3, <1>4

\* The INSERT: the unique index compares what LOWER() has left.
LEMMA CreateKeeps ==
  ASSUME AccountsInv, NEW r \in Slots, Create(r) PROVE AccountsInv'
<1> DEFINE q == requests[r]
           new == NewUser(q)
<1>1. q \in Registration
  BY ByStep DEF Create, At, AccountsInv, AccountsTypeOK, Waiting
<1>2. CASE ~UniqueFor(new.username, new.email)
  <2>1. Respond(r, "error", 0) /\ UNCHANGED <<users, nextId>>
    BY <1>2 DEF Create
  <2> QED BY <2>1, RespondKeeps
<1>3. CASE UniqueFor(new.username, new.email)
  <2>1. /\ users' = users \cup {new} /\ nextId' = nextId + 1
        /\ requests' = Watched([requests EXCEPT ![r] = Idle], users')
        /\ outcome' = [status |-> "ok", as |-> new.id]
    BY <1>3 DEF Create
  <2>2. nextId \in Id /\ nextId \in Nat /\ nextId' \in Id /\ nextId' \in Nat /\ nextId < nextId'
    BY <2>1 DEF AccountsInv, AccountsTypeOK, Id
  <2>3. new \in User /\ new.id = nextId /\ new.email.lower = TRUE
    BY <1>1, <2>2, Lowered DEF NewUser, StoredEmail, User, Registration
  <2>4. ASSUME NEW u \in users
        PROVE  /\ u \in User /\ u.id \in Nat /\ u.id < nextId /\ u.id # nextId
               /\ u.email # new.email /\ u.email.lower = TRUE
    BY <1>3, <2>2 DEF AccountsInv, AccountsTypeOK, IdsApart, EmailsStored, UniqueFor, User, Id
  <2> HIDE DEF new
  <2>5. IdsApart'
    <3>1. \A u \in users' : u.id < nextId'
      <4> SUFFICES ASSUME NEW u \in users' PROVE u.id < nextId'
        OBVIOUS
      <4>1. CASE u = new
        BY <4>1, <2>2, <2>3
      <4>2. CASE u \in users
        <5>1. u.id \in Nat /\ u.id < nextId
          BY <4>2, <2>4
        <5> QED BY <5>1, <2>2
      <4> QED BY <4>1, <4>2, <2>1
    <3>2. \A u, v \in users' : u.id = v.id => u = v
      BY <2>1, <2>3, <2>4 DEF AccountsInv, IdsApart
    <3> QED BY <3>1, <3>2 DEF IdsApart
  <2>6. EmailsStored'
    BY <2>1, <2>3, <2>4 DEF AccountsInv, EmailsStored
  <2>7. outcome' \in Outcome
    BY <2>1, <2>2, <2>3 DEF Outcome
  <2>8. /\ requests' \in [Slots -> Waiting]
        /\ \A s \in Slots : LoginHolds(requests[s])'
    BY <2>1, WatchedKeeps
  <2>9. users' \subseteq User
    BY <2>1, <2>3, <2>4
  <2>10. AccountsTypeOK'
    BY <2>2, <2>7, <2>8, <2>9 DEF AccountsTypeOK, Waiting
  <2> QED BY <2>5, <2>6, <2>8, <2>10 DEF AccountsInv
<1> QED BY <1>2, <1>3

\* The UPDATE: one row changes, to an email that no other row has.
LEMMA UpdateProfileKeeps ==
  ASSUME AccountsInv, NEW r \in Slots, UpdateProfile(r) PROVE AccountsInv'
<1> DEFINE q == requests[r]
<1>1. q \in Edit /\ q.pc = "updateProfile"
  BY ByStep DEF UpdateProfile, At, AccountsInv, AccountsTypeOK, Waiting
<1>2. CASE EmailRefused(q)
  <2>1. Refuse(r, "error") /\ UNCHANGED <<users, nextId>>
    BY <1>2 DEF UpdateProfile
  <2> QED BY <1>1, <2>1, RefuseKeeps
<1>3. CASE ~EmailRefused(q)
  <2> DEFINE new(u) == IF u.id = q.user THEN Updated(u, q) ELSE u
  <2>1. /\ users' = {new(u) : u \in users}
        /\ requests' = Watched([requests EXCEPT ![r] = Idle], users')
        /\ outcome' = [status |-> "ok", as |-> q.user] /\ nextId' = nextId
    BY <1>3 DEF UpdateProfile
  <2>2. q.user \in Id /\ q.typed \in Profile /\ q.fields \subseteq Fields
    BY <1>1 DEF Edit
  <2>3. /\ q.typed.display \in Displays /\ LOWER(q.typed.email) \in Spelling
        /\ LOWER(q.typed.email).lower = TRUE
    BY <2>2, Lowered DEF Profile
  <2>4. ASSUME NEW u \in users
        PROVE  /\ u \in User /\ new(u) \in User /\ new(u).id = u.id /\ u.id < nextId
               /\ new(u).email = IF u.id = q.user /\ "email" \in q.fields
                                   THEN LOWER(q.typed.email) ELSE u.email
    <3>1. u \in User /\ u.id < nextId
      BY DEF AccountsInv, AccountsTypeOK, IdsApart
    <3>2. CASE u.id # q.user
      BY <3>1, <3>2
    <3>3. CASE u.id = q.user
      <4>1. /\ Updated(u, q) \in User /\ Updated(u, q).id = u.id
            /\ Updated(u, q).email = IF "email" \in q.fields THEN LOWER(q.typed.email)
                                                             ELSE u.email
        BY <3>1, <2>3 DEF Updated, User, StoredEmail
      <4> QED BY <3>1, <3>3, <4>1
    <3> QED BY <3>2, <3>3
  <2>5. ASSUME NEW u \in users
        PROVE  /\ new(u).email.lower = TRUE
               /\ u.id # q.user => new(u).email = u.email
               /\ u.id = q.user => \/ new(u).email = u.email
                                   \/ \A v \in users : v.id # q.user => v.email # new(u).email
    <3>1. u.email.lower = TRUE
      BY DEF AccountsInv, EmailsStored
    <3>2. CASE ~(u.id = q.user /\ "email" \in q.fields)
      BY <2>4, <3>1, <3>2
    <3>3. CASE u.id = q.user /\ "email" \in q.fields
      <4>1. new(u).email = LOWER(q.typed.email)
        BY <2>4, <3>3
      <4>2. \A v \in users : v.id # q.user => v.email # LOWER(q.typed.email)
        BY <1>3, <3>3 DEF EmailRefused, StoredEmail
      <4> QED BY <2>3, <3>3, <4>1, <4>2
    <3> QED BY <3>2, <3>3
  <2> HIDE DEF new
  <2>6. IdsApart'
    <3>1. \A u \in users' : u.id < nextId'
      BY <2>1, <2>4
    <3>2. \A u, v \in users : new(u).id = new(v).id => new(u) = new(v)
      BY <2>4 DEF AccountsInv, IdsApart
    <3>3. \A u, v \in users' : u.id = v.id => u = v
      BY <2>1, <3>2
    <3> QED BY <3>1, <3>3 DEF IdsApart
  <2>7. EmailsStored'
    <3>1. \A u \in users' : u.email.lower = TRUE
      BY <2>1, <2>5
    <3>2. ASSUME NEW u \in users, NEW v \in users, new(u).email = new(v).email
          PROVE  new(u) = new(v)
      <4>1. u.email = v.email => u = v
        BY DEF AccountsInv, EmailsStored
      <4>2. u.id = v.id => u = v
        BY DEF AccountsInv, IdsApart
      <4> QED BY <2>5, <3>2, <4>1, <4>2
    <3>3. \A u, v \in users' : u.email = v.email => u = v
      BY <2>1, <3>2
    <3> QED BY <3>1, <3>3 DEF EmailsStored
  <2>8. users' \subseteq User
    BY <2>1, <2>4
  <2>9. /\ requests' \in [Slots -> Waiting]
        /\ \A s \in Slots : LoginHolds(requests[s])'
    BY <2>1, WatchedKeeps
  <2>10. outcome' \in Outcome /\ nextId' \in Id
    BY <2>1, <2>2 DEF Outcome, Id, AccountsInv, AccountsTypeOK
  <2>11. AccountsTypeOK'
    BY <2>8, <2>9, <2>10 DEF AccountsTypeOK, Waiting
  <2> QED BY <2>6, <2>7, <2>9, <2>11 DEF AccountsInv
<1> QED BY <1>2, <1>3

-----------------------------------------------------------------------------
LEMMA Initially == AccountsInit => AccountsInv
<1> SUFFICES ASSUME AccountsInit PROVE AccountsInv
  OBVIOUS
<1>1. AccountsTypeOK
  BY DEF AccountsInit, AccountsTypeOK, Quiet, Outcome, Id
<1>2. IdsApart /\ EmailsStored
  BY DEF AccountsInit, IdsApart, EmailsStored
<1>3. \A r \in Slots : LoginHolds(requests[r])
  BY IdleIsFine DEF AccountsInit
<1> QED BY <1>1, <1>2, <1>3 DEF AccountsInv

LEMMA NextKeeps == AccountsInv /\ [AccountsNext]_accountVars => AccountsInv'
<1> SUFFICES ASSUME AccountsInv, [AccountsNext]_accountVars PROVE AccountsInv'
  OBVIOUS
<1>1. ASSUME NEW r \in Slots, AccountStep(r) PROVE AccountsInv'
  <2>1. CASE Register(r)
    BY <2>1, RegisterKeeps
  <2>2. CASE FindConflicts(r)
    BY <2>2, FindConflictsKeeps
  <2>3. CASE Create(r)
    BY <2>3, CreateKeeps
  <2>4. CASE LogIn(r)
    BY <2>4, LogInKeeps
  <2>5. CASE FindUser(r)
    BY <2>5, FindUserKeeps
  <2>6. CASE Compare(r)
    BY <2>6, CompareKeeps
  <2>7. CASE OpenPage(r)
    BY <2>7, OpenPageKeeps
  <2>8. CASE HoldUp(r)
    BY <2>8, HoldUpKeeps
  <2>9. CASE ProfileArrives(r)
    BY <2>9, ProfileArrivesKeeps
  <2>10. CASE Submit(r)
    BY <2>10, SubmitKeeps
  <2>11. CASE FindEmailConflict(r)
    BY <2>11, FindEmailConflictKeeps
  <2>12. CASE UpdateProfile(r)
    BY <2>12, UpdateProfileKeeps
  <2>13. CASE Fail(r)
    BY <2>13, FailKeeps
  <2> QED
    BY <1>1, <2>1, <2>2, <2>3, <2>4, <2>5, <2>6, <2>7, <2>8, <2>9, <2>10, <2>11, <2>12,
       <2>13 DEF AccountStep
<1>2. CASE UNCHANGED accountVars
  BY <1>2 DEF accountVars, AccountsInv, AccountsTypeOK, IdsApart, EmailsStored,
              LoginHolds, Holds, Named
<1> QED BY <1>1, <1>2 DEF AccountsNext

-----------------------------------------------------------------------------
(***************************************************************************)
(* AccountsInv holds throughout (authService.js, userService.js).          *)
(***************************************************************************)
THEOREM AccountsInvariant == AccountsSpec => []AccountsInv
<1>1. AccountsInit => AccountsInv
  BY Initially
<1>2. AccountsInv /\ [AccountsNext]_accountVars => AccountsInv'
  BY NextKeeps
<1> QED BY <1>1, <1>2, PTL DEF AccountsSpec

(***************************************************************************)
(* The rows of users, and every registration, login and edit in flight,    *)
(* are well-typed (authService.js, userService.js).                        *)
(***************************************************************************)
THEOREM AccountsTypes == AccountsSpec => []AccountsTypeOK
<1>1. AccountsInv => AccountsTypeOK
  BY DEF AccountsInv
<1> QED BY <1>1, AccountsInvariant, PTL

(***************************************************************************)
(* No two accounts share an email in any spelling, however registrations   *)
(* and edits race (LOWER() in every write).                                *)
(***************************************************************************)
THEOREM OneAccountPerEmail == AccountsSpec => []EmailsDistinct
<1>1. AccountsInv => EmailsDistinct
  <2> SUFFICES ASSUME AccountsInv, NEW u \in users, NEW v \in users,
                      LOWER(u.email) = LOWER(v.email)
               PROVE  u = v
    BY DEF EmailsDistinct
  <2>1. LOWER(u.email) = u.email /\ LOWER(v.email) = v.email
    BY Lowered DEF AccountsInv, AccountsTypeOK, EmailsStored, User
  <2> QED BY <2>1 DEF AccountsInv, EmailsStored
<1> QED BY <1>1, AccountsInvariant, PTL

(***************************************************************************)
(* One's own credentials open one's own account and no other's             *)
(* (authService.login).                                                    *)
(***************************************************************************)
THEOREM LoginsEndRight == AccountsSpec => CredentialsOpen
<1> DEFINE Right(r) == IsLogin(requests[r]) /\ requests'[r] = Idle =>
             /\ requests[r].holds => outcome' = [status |-> "ok", as |-> requests[r].knows]
                                     \/ outcome'.status = "error"
             /\ outcome'.status = "ok" => outcome'.as = requests[r].knows
<1>1. ASSUME AccountsInv, [AccountsNext]_accountVars, NEW r \in Slots PROVE Right(r)
  <2> SUFFICES ASSUME IsLogin(requests[r]), requests'[r] = Idle
               PROVE  /\ requests[r].holds =>
                           outcome' = [status |-> "ok", as |-> requests[r].knows]
                           \/ outcome'.status = "error"
                      /\ outcome'.status = "ok" => outcome'.as = requests[r].knows
    OBVIOUS
  <2>1. requests \in [Slots -> Waiting] /\ requests[r] \in Waiting /\ requests[r] # Idle
    BY <1>1 DEF AccountsInv, AccountsTypeOK, Waiting, IsLogin, Idle
  <2>2. requests[r] \in Login /\ LoginHolds(requests[r])
    BY <1>1, <2>1, ByStep DEF IsLogin, AccountsInv
  <2>3. PICK s \in Slots : AccountStep(s)
    BY <1>1, <2>1 DEF AccountsNext, accountVars
  <2>4. ASSUME s # r PROVE requests'[r] # Idle
    <3>1. CASE \E q : requests' = [requests EXCEPT ![s] = q]
      BY <3>1, <2>1, <2>4
    <3>2. CASE \E us : requests' = Watched([requests EXCEPT ![s] = Idle], us)
      <4>1. PICK us : requests' = Watched([requests EXCEPT ![s] = Idle], us)
        BY <3>2
      <4>2. [requests EXCEPT ![s] = Idle][r] = requests[r]
        BY <2>1, <2>4
      <4>3. requests'[r] = requests[r] \/ requests'[r] = [requests[r] EXCEPT !.holds = FALSE]
        BY <4>1, <4>2 DEF Watched
      <4> QED BY <4>3, <2>1, <2>2 DEF Login, Idle
    <3>3. CASE Register(s) \/ LogIn(s) \/ OpenPage(s)
      BY <3>3, <3>1 DEF Register, LogIn, OpenPage, Start
    <3>4. CASE FindConflicts(s) \/ Compare(s)
      <4>1. requests' = [requests EXCEPT ![s] = Idle]
            \/ \E pc : requests' = [requests EXCEPT ![s].pc = pc]
        BY <3>4 DEF FindConflicts, Compare, Respond, Goto
      <4> QED BY <4>1, <2>1, <2>4
    <3>5. CASE FindUser(s)
      BY <3>5, <2>1, <2>4 DEF FindUser, Respond
    <3>6. CASE HoldUp(s) \/ ProfileArrives(s) \/ Submit(s)
      BY <3>6, <2>1, <2>4 DEF HoldUp, ProfileArrives, Submit
    <3>7. CASE Create(s)
      BY <3>7, <3>1, <3>2 DEF Create, Respond
    <3>8. ASSUME NEW status, Refuse(s, status) PROVE requests'[r] # Idle
      BY <3>8, <2>1, <2>4 DEF Refuse, Respond
    <3>9. CASE FindEmailConflict(s)
      BY <3>9, <3>8, <2>1, <2>4 DEF FindEmailConflict, Goto
    <3>10. CASE UpdateProfile(s)
      BY <3>10, <3>2, <3>8 DEF UpdateProfile
    <3>11. CASE Fail(s)
      BY <3>11, <3>8, <3>1 DEF Fail, Respond
    <3> QED
      BY <2>3, <3>3, <3>4, <3>5, <3>6, <3>7, <3>9, <3>10, <3>11 DEF AccountStep
  <2>5. s = r
    BY <2>4
  <2>6. CASE FindUser(r)
    <3> DEFINE q == requests[r]
               rows == {u \in users : Matches(u, q.by, q.identifier)}
    <3>1. CASE rows = {}
      <4>1. outcome' = [status |-> "unauthorized", as |-> 0]
        BY <2>6, <3>1 DEF FindUser, Respond
      <4>2. ~q.holds
        <5> SUFFICES ASSUME q.holds PROVE FALSE
          OBVIOUS
        <5>1. \E u \in users : u \in Named(users, q.by, q.identifier)
          BY <2>2 DEF LoginHolds, Holds
        <5> QED BY <3>1, <5>1 DEF Named, Matches
      <4> QED BY <4>1, <4>2
    <3>2. CASE rows # {}
      <4>1. \E u \in rows : requests' = [requests EXCEPT ![r].pc = "compare", ![r].found = u]
        BY <2>6, <3>2 DEF FindUser
      <4>2. requests'[r].pc = "compare"
        BY <4>1, <2>1, <2>2 DEF Login
      <4> QED BY <4>2 DEF Idle
    <3> QED BY <3>1, <3>2
  <2>7. CASE Compare(r)
    BY <2>7, <2>2 DEF Compare, Respond, LoginHolds, IsLogin, At
  <2>8. CASE Fail(r)
    <3>1. requests[r].pc \in {"findUser", "compare"}
      BY DEF IsLogin
    <3> QED BY <2>8, <3>1 DEF Fail, Respond
  <2>9. CASE ~(FindUser(r) \/ Compare(r) \/ Fail(r))
    <3>1. requests[r].pc \in {"idle", "findConflicts", "create", "loading", "editing",
                              "findEmailConflict", "updateProfile"}
      BY <2>3, <2>5, <2>9
         DEF AccountStep, Register, LogIn, OpenPage, Start, FindConflicts, Create, HoldUp,
             ProfileArrives, OnOwnPage, Submit, FindEmailConflict, UpdateProfile, At
    <3> QED BY <3>1 DEF IsLogin
  <2> QED BY <2>6, <2>7, <2>8, <2>9
<1>2. AccountsInv /\ [AccountsNext]_accountVars => [\A r \in Slots : Right(r)]_accountVars
  BY <1>1
<1> QED BY <1>2, AccountsInvariant, PTL DEF AccountsSpec, CredentialsOpen
=============================================================================
