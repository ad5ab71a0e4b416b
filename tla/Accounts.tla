------------------------------- MODULE Accounts -------------------------------
(***************************************************************************)
(* The users table with the services that write it: register and login of  *)
(* services/authService.js, updateProfile of services/userService.js with  *)
(* EditProfileModal on the own page of UserProfilePage, and the queries of *)
(* userRepository.js.  One action per await: others run in between.        *)
(*                                                                         *)
(* A username or email is a word in some spelling: what LOWER() keeps and  *)
(* what it drops.  A password is known by the account that has it.         *)
(***************************************************************************)
EXTENDS Naturals

CONSTANTS Words, Displays,
          Slots,      \* bound: requests and open forms together
          MaxUsers    \* bound: how many accounts are created

ASSUME AccountsAssumption == MaxUsers \in Nat

VARIABLES users, nextId,
          requests,
          outcome     \* what the latest step has answered

accountVars == <<users, nextId, requests, outcome>>

Spelling == [word : Words, lower : BOOLEAN]

LOWER(s) == [s EXCEPT !.lower = TRUE]

Id == Nat \ {0}
NoUser == [id |-> 0]

User == [id : Id, username : Spelling, email : Spelling, display : Displays]
Profile == [display : Displays, email : Spelling]
Fields == {"display", "email"}

Idle == [pc |-> "idle"]

Registration == [pc : {"findConflicts", "create"}, username : Spelling, email : Spelling,
                 display : Displays]

Login == [pc : {"findUser", "compare"}, by : Fields \cup {"username"}, identifier : Spelling,
          knows : Nat,       \* whose password is typed
          found : User \cup {NoUser},
          holds : BOOLEAN]   \* history: see Holds

NoProfile == [display |-> "none"]

\* An own profile page that waits for the first answer to loadAll.
Page == [pc : {"loading"}, user : Id,
         late : Profile \cup {NoProfile}]   \* an answer that is held up

\* With the form mounted on it, and while its PATCH is in flight.
Edit == [pc : {"editing", "findEmailConflict", "updateProfile"}, user : Id,
         opened : Profile,        \* what the form was mounted with
         shown : Profile,         \* profileUser, the form's prop
         late : Profile \cup {NoProfile},
         typed : Profile, fields : SUBSET Fields]   \* the PATCH

Quiet == [status |-> "none", as |-> 0]
Outcome == [status : {"none", "ok", "unauthorized", "conflict", "error"}, as : Nat]

AccountsTypeOK ==
  /\ users \subseteq User /\ nextId \in Id
  /\ requests \in [Slots -> {Idle} \cup Registration \cup Login \cup Page \cup Edit]
  /\ outcome \in Outcome

AccountsInit ==
  /\ users = {} /\ nextId = 1
  /\ requests = [r \in Slots |-> Idle]
  /\ outcome = Quiet

-----------------------------------------------------------------------------
(* The queries.                                                            *)

At(r, pc) == requests[r].pc = pc

Respond(r, status, as) ==
  /\ requests' = [requests EXCEPT ![r] = Idle]
  /\ outcome' = [status |-> status, as |-> as]

Goto(r, pc) == requests' = [requests EXCEPT ![r].pc = pc] /\ outcome' = Quiet

Start(r, request) ==
  /\ At(r, "idle")
  /\ requests' = [requests EXCEPT ![r] = request]
  /\ outcome' = Quiet
  /\ UNCHANGED <<users, nextId>>

EmailTaken(e) == \E u \in users : LOWER(u.email) = LOWER(e)
UsernameTaken(n) == \E u \in users : LOWER(u.username) = LOWER(n)

\* Slip: an email is stored as it was typed.
AsTyped(e) == e

StoredEmail(e) == LOWER(e)

\* UNIQUE (username), UNIQUE (email): exact, as rows are stored.
UniqueFor(n, e) == \A u \in users : u.username # n /\ u.email # e

\* Slip: what is typed is compared as it was typed.
MatchesAsTyped(u, by, identifier) ==
  IF by = "email" THEN u.email = identifier ELSE LOWER(u.username) = LOWER(identifier)

\* findByEmailWithPassword, findByUsernameWithPassword.
Matches(u, by, identifier) ==
  LOWER(IF by = "email" THEN u.email ELSE u.username) = LOWER(identifier)

-----------------------------------------------------------------------------
(* The history of logins: the identifier and the password are those of an  *)
(* account, and of no other, from the arrival of the request on.           *)

Named(us, by, identifier) ==
  {u \in us : LOWER(IF by = "email" THEN u.email ELSE u.username) = LOWER(identifier)}

Holds(us, by, identifier, knows) ==
  \E u \in us : u.id = knows /\ Named(us, by, identifier) = {u}

IsLogin(q) == q.pc \in {"findUser", "compare"}

Watched(rs, us) ==
  [r \in Slots |-> IF IsLogin(rs[r]) /\ ~Holds(us, rs[r].by, rs[r].identifier, rs[r].knows)
                     THEN [rs[r] EXCEPT !.holds = FALSE] ELSE rs[r]]

-----------------------------------------------------------------------------
(* register                                                                *)

Register(r) ==
  \E n, e \in Spelling, d \in Displays :
    Start(r, [pc |-> "findConflicts", username |-> n, email |-> e, display |-> d])

\* findConflicts, and then bcrypt.hash, which gives way.
FindConflicts(r) ==
  /\ At(r, "findConflicts")
  /\ IF EmailTaken(requests[r].email) \/ UsernameTaken(requests[r].username)
       THEN Respond(r, "conflict", 0)
       ELSE Goto(r, "create")
  /\ UNCHANGED <<users, nextId>>

\* Slip: the INSERT does not return the id.
NewUserWithoutId(q) ==
  [id |-> 0, username |-> q.username, email |-> StoredEmail(q.email), display |-> q.display]

NewUser(q) ==
  [id |-> nextId, username |-> q.username, email |-> StoredEmail(q.email),
   display |-> q.display]

\* The INSERT, which a unique index may refuse with a 500.
Create(r) ==
  LET new == NewUser(requests[r]) IN
  /\ At(r, "create") /\ nextId <= MaxUsers
  /\ IF UniqueFor(new.username, new.email)
       THEN /\ users' = users \cup {new} /\ nextId' = nextId + 1
            /\ requests' = Watched([requests EXCEPT ![r] = Idle], users')
            /\ outcome' = [status |-> "ok", as |-> new.id]
       ELSE Respond(r, "error", 0) /\ UNCHANGED <<users, nextId>>

-----------------------------------------------------------------------------
(* login                                                                   *)

LogIn(r) ==
  \E by \in {"email", "username"}, s \in Spelling, i \in 0..MaxUsers :
    Start(r, [pc |-> "findUser", by |-> by, identifier |-> s, knows |-> i,
              found |-> NoUser, holds |-> Holds(users, by, s, i)])

\* rows[0], of rows in any order.
FindUser(r) ==
  LET q == requests[r]
      rows == {u \in users : Matches(u, q.by, q.identifier)} IN
  /\ At(r, "findUser")
  /\ IF rows = {} THEN Respond(r, "unauthorized", 0)
     ELSE /\ \E u \in rows :
               requests' = [requests EXCEPT ![r].pc = "compare", ![r].found = u]
          /\ outcome' = Quiet
  /\ UNCHANGED <<users, nextId>>

\* bcrypt.compare, and the tokens of the row that was found.
Compare(r) ==
  LET found == requests[r].found IN
  /\ At(r, "compare")
  /\ IF found.id = requests[r].knows THEN Respond(r, "ok", found.id)
                                     ELSE Respond(r, "unauthorized", 0)
  /\ UNCHANGED <<users, nextId>>

-----------------------------------------------------------------------------
(* updateProfile                                                           *)

ProfileOf(u) == [display |-> u.display, email |-> u.email]

OnOwnPage(r) == requests[r].pc \in {"loading", "editing"}

\* The user's own page, in any of their tabs, calls loadAll; so does every
\* friend event that comes before an answer (UserProfilePage.jsx).
OpenPage(r) ==
  \E u \in users : Start(r, [pc |-> "loading", user |-> u.id, late |-> NoProfile])

\* The server answers one of these calls; the answer is held up.
HoldUp(r) ==
  /\ OnOwnPage(r)
  /\ \E u \in users : /\ u.id = requests[r].user
                      /\ requests' = [requests EXCEPT ![r].late = ProfileOf(u)]
  /\ outcome' = Quiet
  /\ UNCHANGED <<users, nextId>>

\* setProfileUser(p).  The first answer clears loading, and EditProfileModal
\* mounts; a later one replaces the prop under the form and leaves what the
\* form has in its fields.
Received(q, p) ==
  LET late == IF p = q.late THEN NoProfile ELSE q.late IN
  IF q.pc = "loading"
    THEN [pc |-> "editing", user |-> q.user, opened |-> p, shown |-> p, late |-> late,
          typed |-> p, fields |-> {}]
    ELSE [q EXCEPT !.shown = p, !.late = late]

\* An answer arrives: one that was held up, or what the server says now.
ProfileArrives(r) ==
  /\ OnOwnPage(r)
  /\ \E p \in ({requests[r].late} \ {NoProfile})
                \cup {ProfileOf(u) : u \in {v \in users : v.id = requests[r].user}} :
       requests' = [requests EXCEPT ![r] = Received(requests[r], p)]
  /\ outcome' = Quiet
  /\ UNCHANGED <<users, nextId>>

\* "Only include fields that actually changed": compared with the user shown,
\* emails in lower case.
ChangedFields(user, typed) ==
  {f \in Fields : IF f = "email" THEN LOWER(typed.email) # user.email
                                 ELSE typed.display # user.display}

\* handleSubmit; without a change the form just closes.
Submit(r) ==
  /\ At(r, "editing")
  /\ \E d \in Displays, e \in Spelling :
       LET typed == [display |-> d, email |-> e]
           fields == ChangedFields(requests[r].shown, typed) IN
       requests' = [requests EXCEPT ![r] =
         IF fields = {} THEN Idle
         ELSE [@ EXCEPT !.pc = IF "email" \in fields THEN "findEmailConflict"
                                                     ELSE "updateProfile",
                !.typed = typed, !.fields = fields]]
  /\ outcome' = Quiet
  /\ UNCHANGED <<users, nextId>>

\* An error is shown in the form, which stays, unless it was closed meanwhile.
Refuse(r, status) ==
  \/ Respond(r, status, 0)
  \/ /\ requests' = [requests EXCEPT ![r].pc = "editing", ![r].fields = {},
                                     ![r].typed = requests[r].opened]
     /\ outcome' = [status |-> status, as |-> 0]

OthersWithEmail(i, e) == {u \in users : u.id # i /\ LOWER(u.email) = LOWER(e)}

FindEmailConflict(r) ==
  /\ At(r, "findEmailConflict")
  /\ IF OthersWithEmail(requests[r].user, requests[r].typed.email) # {}
       THEN Refuse(r, "conflict") ELSE Goto(r, "updateProfile")
  /\ UNCHANGED <<users, nextId>>

Updated(u, q) ==
  [u EXCEPT !.display = IF "display" \in q.fields THEN q.typed.display ELSE @,
            !.email = IF "email" \in q.fields THEN StoredEmail(q.typed.email) ELSE @]

\* Taken since it was looked for: the unique index refuses, with a 500.
EmailRefused(q) ==
  "email" \in q.fields
  /\ \E u \in users : u.id # q.user /\ u.email = StoredEmail(q.typed.email)

UpdateProfile(r) ==
  LET q == requests[r] IN
  /\ At(r, "updateProfile")
  /\ IF EmailRefused(q)
       THEN Refuse(r, "error") /\ UNCHANGED users
       ELSE /\ users' = {IF u.id = q.user THEN Updated(u, q) ELSE u : u \in users}
            /\ requests' = Watched([requests EXCEPT ![r] = Idle], users')
            /\ outcome' = [status |-> "ok", as |-> q.user]
  /\ UNCHANGED nextId

-----------------------------------------------------------------------------
\* A query rejects, or a page or form is closed.
Fail(r) ==
  /\ ~At(r, "idle")
  /\ \/ Respond(r, "error", 0)
     \/ requests[r].pc \in {"findEmailConflict", "updateProfile"} /\ Refuse(r, "error")
  /\ UNCHANGED <<users, nextId>>

AccountStep(r) ==
  \/ Register(r) \/ FindConflicts(r) \/ Create(r)
  \/ LogIn(r) \/ FindUser(r) \/ Compare(r)
  \/ OpenPage(r) \/ HoldUp(r) \/ ProfileArrives(r) \/ Submit(r)
  \/ FindEmailConflict(r) \/ UpdateProfile(r)
  \/ Fail(r)

AccountsNext == \E r \in Slots : AccountStep(r)

AccountsSpec == AccountsInit /\ [][AccountsNext]_accountVars

-----------------------------------------------------------------------------
(***************************************************************************)
(* No two accounts share an email in any spelling, although register and   *)
(* updateProfile look for a conflict some awaits before they write and the *)
(* unique index compares exactly: LOWER() in every write is what closes    *)
(* the gap (userRepository.create, updateProfile).                         *)
(***************************************************************************)
EmailsDistinct ==
  \A u, v \in users : LOWER(u.email) = LOWER(v.email) => u = v

(***************************************************************************)
(* One's own credentials open one's own account: a login with an email or  *)
(* username, in any spelling, and the password that are those of a single  *)
(* account from the arrival of the request to its end is answered with     *)
(* that account's tokens unless a query fails, and no login is ever        *)
(* answered with the tokens of an account whose password was not typed.    *)
(***************************************************************************)
CredentialsOpen ==
  [][\A r \in Slots : IsLogin(requests[r]) /\ requests'[r] = Idle =>
       /\ requests[r].holds => outcome' = [status |-> "ok", as |-> requests[r].knows]
                               \/ outcome'.status = "error"
       /\ outcome'.status = "ok" => outcome'.as = requests[r].knows]_accountVars

-----------------------------------------------------------------------------
(* Why these hold.                                                         *)

IdsApart ==
  /\ \A u \in users : u.id < nextId
  /\ \A u, v \in users : u.id = v.id => u = v

\* What the unique index compares is what LOWER() has left.
EmailsStored ==
  /\ \A u \in users : u.email.lower = TRUE
  /\ \A u, v \in users : u.email = v.email => u = v

\* A login on its way has found, or will find, the one account it names.
LoginHolds(q) ==
  IsLogin(q) /\ q.holds =>
    /\ Holds(users, q.by, q.identifier, q.knows)
    /\ q.pc = "compare" => q.found.id = q.knows

(***************************************************************************)
(* The inductive invariant of the accounts: with emails stored in lower    *)
(* case the exact unique index is enough, and a login that has found a row *)
(* has found the account it names, if it has named one and no other ever   *)
(* since (authService.js, userService.js, userRepository.js).              *)
(***************************************************************************)
AccountsInv ==
  /\ AccountsTypeOK
  /\ IdsApart /\ EmailsStored
  /\ \A r \in Slots : LoginHolds(requests[r])

-----------------------------------------------------------------------------
(* What comments of the code say and the services do not keep.             *)

(***************************************************************************)
(* userRepository.js: findConflicts tells whether a username is "already   *)
(* taken by another user (case-insensitive)".  Two registrations that look *)
(* before either inserts leave two usernames that differ in case only,     *)
(* and login by that name then reads whichever row comes first.            *)
(***************************************************************************)
UsernamesDistinct ==
  \A u, v \in users : LOWER(u.username) = LOWER(v.username) => u = v

(***************************************************************************)
(* EditProfileModal.jsx: "Only include fields that actually changed".  The *)
(* form compares what is in its fields with the user the page shows now,   *)
(* not with the one it was mounted with: after a late answer to loadAll a  *)
(* save alters a field its owner has left alone, and undoes what another   *)
(* tab has changed.                                                        *)
(***************************************************************************)
EditsKeepApart ==
  \A r \in Slots, u \in users :
    LET q == requests[r] IN
    At(r, "updateProfile") /\ u.id = q.user /\ ~EmailRefused(q) =>
      \A f \in Fields \ ChangedFields(q.opened, q.typed) :
        ProfileOf(Updated(u, q))[f] = ProfileOf(u)[f]
=============================================================================
