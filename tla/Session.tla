------------------------------- MODULE Session -------------------------------
(***************************************************************************)
(* The session of one browser tab: api/client.js, contexts/AuthContext.jsx *)
(* and socket/socketClient.js, against the authentication middleware and   *)
(* controllers and the socket's handshake.                                 *)
(*                                                                         *)
(* A token is its owner, or Nobody: absent, expired or forged, which the   *)
(* server answers alike.  The browser drops a cookie when its token        *)
(* expires (both live equally long) and applies the cookies of an answer   *)
(* when the answer arrives.                                                *)
(***************************************************************************)
EXTENDS Naturals, FiniteSets

CONSTANTS Users, Nobody,
          Slots      \* bound: how many requests the tab has in flight

ASSUME SessionAssumption == Nobody \notin Users

VARIABLES user,      \* AuthContext's user
          loading,   \* the session is being restored
          access, refresh,       \* the cookies
          calls,     \* per slot: a request of the tab
          refreshing,            \* refreshPromise
          socket,
          crossed,   \* history: a login or logout met another request in flight
          lapsed     \* history: the refresh token died, or a refresh or getMe was lost

tab == <<user, loading>>
cookies == <<access, refresh>>
sessionVars == <<tab, cookies, calls, refreshing, socket, crossed, lapsed>>

Owner == Users \cup {Nobody}

Kinds == {"api", "me", "login", "logout"}

NoCall == [phase |-> "none"]
Call == [phase : {"sent", "waiting", "answered"}, kind : Kinds,
         token : Owner,       \* the access token it carries
         as : Owner,          \* whom it logs in, or was served as
         shown : Owner,       \* history: whom the tab showed when it was made
         status : {"ok", "unauthorized", "lost"}, retried : BOOLEAN]

NoRefresh == [phase |-> "none"]
Refresh == [phase : {"sent", "answered"}, token : Owner,
            status : {"ok", "unauthorized", "lost"}]

NoSocket == [state |-> "none"]
Socket == [state : {"opening", "open", "refused"}, as : Owner]

SessionTypeOK ==
  /\ user \in Owner /\ loading \in BOOLEAN
  /\ access \in Owner /\ refresh \in Owner
  /\ calls \in [Slots -> Call \cup {NoCall}]
  /\ refreshing \in Refresh \cup {NoRefresh}
  /\ socket \in Socket \cup {NoSocket}
  /\ crossed \in BOOLEAN /\ lapsed \in BOOLEAN

-----------------------------------------------------------------------------
InFlight(r) == calls[r].phase # "none"
Signing(r) == InFlight(r) /\ calls[r].kind \in {"login", "logout"}

Alone(r) == refreshing = NoRefresh /\ \A s \in Slots \ {r} : ~InFlight(s)

NewCall(kind, as) ==
  [phase |-> "sent", kind |-> kind,
   token |-> IF kind \in {"api", "me"} THEN access ELSE Nobody, as |-> as,
   shown |-> IF kind = "api" THEN user ELSE Nobody, status |-> "ok", retried |-> FALSE]

Request(r, kind, as) ==
  /\ ~InFlight(r)
  /\ calls' = [calls EXCEPT ![r] = NewCall(kind, as)]
  /\ crossed' = (crossed \/ IF kind \in {"login", "logout"}
                              THEN ~Alone(r) ELSE \E s \in Slots : Signing(s))

\* connectSocket: whatever is connected stays as it is.
connectSocket == IF socket.state = "open" THEN socket
                                          ELSE [state |-> "opening", as |-> Nobody]

\* setUser, and the effect on user that opens or closes the socket.
setUser(u) ==
  /\ user' = u
  /\ socket' = IF u = Nobody THEN NoSocket ELSE connectSocket

HangUp(cs, r) == [cs EXCEPT ![r] = NoCall]

-----------------------------------------------------------------------------
\* The page is loaded, with or without cookies of an earlier visit.
SessionInit ==
  /\ user = Nobody /\ loading = TRUE
  /\ refresh \in Owner /\ access \in {Nobody, refresh}
  /\ socket = NoSocket /\ refreshing = NoRefresh
  /\ crossed = FALSE /\ lapsed = (refresh = Nobody)
  /\ \E first \in Slots :
       calls = [r \in Slots |-> IF r = first THEN NewCall("me", Nobody) ELSE NoCall]

\* What is in flight is dropped with the page, its answers' cookies included.
Reload ==
  /\ ~loading
  /\ user' = Nobody /\ loading' = TRUE /\ socket' = NoSocket
  /\ refreshing' = NoRefresh /\ crossed' = FALSE
  /\ \E first \in Slots :
       calls' = [r \in Slots |-> IF r = first THEN NewCall("me", Nobody)
                                              ELSE NoCall]
  /\ UNCHANGED <<cookies, lapsed>>

AccessExpires ==
  /\ access # Nobody /\ access' = Nobody
  /\ UNCHANGED <<tab, refresh, calls, refreshing, socket, crossed, lapsed>>

RefreshExpires ==
  /\ refresh # Nobody /\ refresh' = Nobody /\ lapsed' = TRUE
  /\ UNCHANGED <<tab, access, calls, refreshing, socket, crossed>>

\* Any call of a page behind ProtectedRoute.
CallApi(r) ==
  /\ user # Nobody
  /\ Request(r, "api", Nobody)
  /\ UNCHANGED <<tab, cookies, refreshing, socket, lapsed>>

\* The routes /login and /register are open to everybody at any time.
login(r) ==
  /\ \E u \in Users : Request(r, "login", u)
  /\ UNCHANGED <<tab, cookies, refreshing, socket, lapsed>>

logout(r) ==
  /\ user # Nobody
  /\ Request(r, "logout", Nobody)
  /\ UNCHANGED <<tab, cookies, refreshing, socket, lapsed>>

-----------------------------------------------------------------------------
(* The server.                                                             *)

Answered(c, status, as) ==
  [c EXCEPT !.phase = "answered", !.status = status, !.as = as, !.token = Nobody]

\* authenticate; the token may have expired on its way.
authenticate(c) ==
  {Answered(c, "unauthorized", Nobody)} \cup
  {Answered(c, "ok", t) : t \in {c.token} \ {Nobody}}

\* What a request may be answered: a login may have the wrong password.
Answers(c) ==
  CASE c.kind = "login" ->
         {Answered(c, "ok", c.as), Answered(c, "unauthorized", Nobody)}
    [] c.kind = "logout" -> {Answered(c, "ok", Nobody)}
    [] OTHER -> authenticate(c)

\* A request is answered, or it or its answer is lost.  A replay that is turned
\* away had its new token expire at once.
Serve(r) ==
  /\ calls[r].phase = "sent"
  /\ \E c \in Answers(calls[r]) \cup {Answered(calls[r], "lost", Nobody)} :
       /\ calls' = [calls EXCEPT ![r] = c]
       /\ lapsed' = (lapsed \/ (c.kind = "me" /\ c.status = "lost")
                            \/ (c.retried /\ calls[r].token # Nobody /\ c.status = "unauthorized"))
  /\ UNCHANGED <<tab, cookies, refreshing, socket, crossed>>

\* refresh: no access token is asked for.  Losing it, or the token expiring on
\* its way, is a lapse.
ServeRefresh ==
  /\ refreshing.phase = "sent"
  /\ \E s \in {"lost", IF refreshing.token = Nobody THEN "unauthorized" ELSE "ok"} :
       /\ refreshing' = [phase |-> "answered", status |-> s,
                          token |-> IF s = "ok" THEN refreshing.token ELSE Nobody]
       /\ lapsed' = (lapsed \/ s = "lost")
  /\ UNCHANGED <<tab, cookies, calls, socket, crossed>>

-----------------------------------------------------------------------------
(* Answers at the tab.                                                     *)

\* Slip: a call that fails while the refresh is running is not kept for it.
OnlyTheFirst(c) ==
  /\ c.status = "unauthorized" /\ ~c.retried /\ c.kind \notin {"login", "logout"}
  /\ refreshing = NoRefresh

\* NO_REFRESH_PATHS and _retried.
Recoverable(c) ==
  c.status = "unauthorized" /\ ~c.retried /\ c.kind \notin {"login", "logout"}

\* The interceptor: the first to fail asks for the refresh, the rest join it.
Recover(r) ==
  /\ calls[r].phase = "answered" /\ Recoverable(calls[r])
  /\ calls' = [calls EXCEPT ![r].phase = "waiting", ![r].retried = TRUE]
  /\ refreshing' = IF refreshing = NoRefresh
                     THEN [phase |-> "sent", token |-> refresh, status |-> "ok"]
                     ELSE refreshing
  /\ UNCHANGED <<tab, cookies, socket, crossed, lapsed>>

\* Slip: logout leaves the refresh cookie.
clearAccessOnly == access' = Nobody /\ UNCHANGED refresh

clearCookies == access' = Nobody /\ refresh' = Nobody

setAuthCookies(u) == access' = u /\ refresh' = u

\* Slip: the whole body is taken for the user.
wholeBody(c) == [user |-> c.as]

\* response.data.user of getMe.
getMe(c) == c.as

\* login and register.
LoginArrives(r) ==
  LET c == calls[r] IN
  IF c.status = "ok"
    THEN setAuthCookies(c.as) /\ setUser(c.as) /\ lapsed' = (lapsed /\ ~Alone(r))
    ELSE UNCHANGED <<user, cookies, socket, lapsed>>

LogoutArrives(r) ==
  IF calls[r].status = "ok"
    THEN clearCookies /\ setUser(Nobody) /\ UNCHANGED lapsed
    ELSE UNCHANGED <<user, cookies, socket, lapsed>>

Arrive(r) ==
  LET c == calls[r] IN
  /\ c.phase = "answered" /\ ~Recoverable(c)
  /\ CASE c.kind = "login" -> LoginArrives(r)
       [] c.kind = "logout" -> LogoutArrives(r)
       [] c.kind = "me" ->                                     \* restoreSession
            /\ setUser(IF c.status = "ok" THEN getMe(c) ELSE Nobody)
            /\ UNCHANGED <<cookies, lapsed>>
       [] OTHER -> UNCHANGED <<user, cookies, socket, lapsed>>
  /\ loading' = (loading /\ c.kind # "me")
  /\ calls' = HangUp(calls, r)
  /\ crossed' = (crossed /\ ~(Alone(r) /\ c.kind \in {"login", "logout"} /\ c.status = "ok"))
  /\ UNCHANGED refreshing

\* Slip: the refresh's own 401 is recovered from, by waiting for itself.
settlesUnlessTurnedAway == refreshing.phase = "answered" /\ refreshing.status # "unauthorized"

\* The promise of the refresh settles with its answer.
refreshSettles == refreshing.phase = "answered"

Waiting == {r \in Slots : calls[r].phase = "waiting"}

\* The session is over for everybody who waited, whatever became of the refresh.
SessionExpired ==
  /\ setUser(Nobody)
  /\ loading' = (loading /\ \A r \in Waiting : calls[r].kind # "me")
  /\ calls' = [r \in Slots |-> IF r \in Waiting THEN NoCall ELSE calls[r]]
  /\ refreshing' = NoRefresh
  /\ UNCHANGED cookies

\* Those who waited are replayed, with the new cookies.
RefreshArrives ==
  /\ refreshSettles
  /\ IF refreshing.status = "ok"
       THEN /\ setAuthCookies(refreshing.token)
            /\ calls' = [r \in Slots |-> IF r \in Waiting
                                           THEN [calls[r] EXCEPT !.phase = "sent",
                                                                 !.token = refreshing.token]
                                           ELSE calls[r]]
            /\ refreshing' = NoRefresh /\ UNCHANGED <<tab, socket>>
       ELSE SessionExpired
  /\ UNCHANGED <<crossed, lapsed>>

-----------------------------------------------------------------------------
(* The socket.                                                             *)

\* socketAuth takes the access cookie of the moment.  A refused handshake is
\* not tried again.
Handshake ==
  /\ socket.state = "opening"
  /\ socket' = IF access = Nobody THEN [state |-> "refused", as |-> Nobody]
                                  ELSE [state |-> "open", as |-> access]
  /\ UNCHANGED <<tab, cookies, calls, refreshing, crossed, lapsed>>

\* The connection drops, and socket.io opens it again.
Drop ==
  /\ socket.state = "open"
  /\ socket' = [state |-> "opening", as |-> Nobody]
  /\ UNCHANGED <<tab, cookies, calls, refreshing, crossed, lapsed>>

-----------------------------------------------------------------------------
SessionNext ==
  \/ Reload \/ AccessExpires \/ RefreshExpires
  \/ ServeRefresh \/ RefreshArrives \/ Handshake \/ Drop
  \/ \E r \in Slots :
       CallApi(r) \/ login(r) \/ logout(r) \/ Serve(r) \/ Recover(r) \/ Arrive(r)

\* A request is answered or reported lost, and what arrives is handled.
SessionFairness ==
  /\ WF_sessionVars(ServeRefresh) /\ WF_sessionVars(RefreshArrives)
  /\ \A r \in Slots : WF_sessionVars(Serve(r) \/ Recover(r) \/ Arrive(r))

SessionSpec == SessionInit /\ [][SessionNext]_sessionVars /\ SessionFairness

-----------------------------------------------------------------------------
(***************************************************************************)
(* The user shown is the user the cookies speak for: unless a login or a   *)
(* logout met another request in flight, what setUser showed and what      *)
(* setAuthCookies and clearCookie left agree at every moment, so that a    *)
(* call is never made in somebody else's name and none survives a logout.  *)
(* (AuthContext.jsx and authController.js write the two apart.)            *)
(***************************************************************************)
CookiesAreTheUsers ==
  ~crossed /\ ~loading =>
    /\ user # Nobody \/ ~lapsed => {access, refresh} \subseteq {user, Nobody}
    /\ \A r \in Slots : InFlight(r) /\ calls[r].kind = "api" /\ calls[r].status = "ok"
                          /\ calls[r].phase = "answered" => calls[r].as = calls[r].shown

(***************************************************************************)
(* The user never sees the expiry of an access token: as long as the       *)
(* refresh token lives and no refresh is lost, the session ends only by a  *)
(* logout or with the page, and no call of a page comes back unauthorized, *)
(* whichever calls fail together, join the refresh or fail after it.       *)
(***************************************************************************)
ExpiryIsSilent ==
  [][~crossed /\ ~lapsed =>
       /\ user # Nobody /\ user' = Nobody =>
            \/ loading'
            \/ \E r \in Slots : Signing(r) /\ calls[r].kind = "logout" /\ calls'[r] = NoCall
       /\ \A r \in Slots :
            InFlight(r) /\ calls'[r] = NoCall /\ ~loading' /\ calls[r].kind = "api"
              => calls[r].phase = "answered" /\ calls[r].status # "unauthorized"]_sessionVars

(***************************************************************************)
(* What the proofs of module SessionProofs add, to make these inductive.   *)
(***************************************************************************)
Loading(r) == InFlight(r) /\ calls[r].kind = "me"

RestoredOnce ==
  /\ loading <=> \E r \in Slots : Loading(r)
  /\ \A r, s \in Slots : Loading(r) /\ Loading(s) => r = s

\* What each phase of a request says of it; the lapses it remembers are not
\* forgotten while it is in flight.
CallHolds(c) ==
  /\ c.kind = "login" /\ (c.phase = "sent" \/ c.status = "ok") => c.as \in Users
  /\ c.kind = "api" => c.shown \in Users
  /\ c.kind \in {"login", "logout"} => ~c.retried /\ c.phase # "waiting"
  /\ c.phase = "waiting" => c.retried
  /\ c.retried /\ c.phase = "sent" => c.token \in Users
  /\ c.kind \in {"api", "me"} /\ c.phase = "answered" =>
       /\ c.status = "ok" => c.as \in Users
       /\ c.status = "unauthorized" /\ c.retried => lapsed
       /\ c.status = "lost" /\ c.kind = "me" => lapsed

CallsHold == \A r \in Slots : InFlight(r) => CallHolds(calls[r])

RefreshHolds ==
  /\ Waiting # {} => refreshing # NoRefresh
  /\ refreshing.phase = "answered" =>
       /\ refreshing.status = "ok" <=> refreshing.token \in Users
       /\ refreshing.status = "lost" => lapsed

\* The cookies are one user's, and while the session is alive the access token
\* is not without its refresh token.
CookiesAgree ==
  access = refresh \/ access = Nobody \/ (lapsed /\ refresh = Nobody)

\* Everything that says who the user is says u: what the tab shows, the cookies,
\* the requests in flight and the answers on their way.
Speaks(u) ==
  /\ {user, access, refresh} \subseteq {u, Nobody}
  /\ refreshing # NoRefresh => refreshing.token \in {u, Nobody}
  /\ \A r \in Slots : InFlight(r) /\ ~Signing(r) =>
       /\ {calls[r].token, calls[r].as} \subseteq {u, Nobody}
       /\ calls[r].kind = "api" => calls[r].shown = u

Uncrossed ==
  /\ \E u \in Owner :
       /\ Speaks(u)
       /\ ~lapsed => refresh = u /\ (user = u \/ loading)
  /\ ~lapsed /\ refreshing # NoRefresh => refreshing.token = refresh
  /\ loading => user = Nobody
  /\ \A r \in Slots : Signing(r) => Alone(r)

SessionInv ==
  /\ SessionTypeOK
  /\ RestoredOnce /\ CallsHold /\ RefreshHolds /\ CookiesAgree
  /\ ~crossed => Uncrossed

(***************************************************************************)
(* Every request settles: a call, replayed at most once, and the refresh   *)
(* it may wait for end in an answer or an error, however many fail at once *)
(* and whether or not the refresh succeeds (_retried, NO_REFRESH_PATHS).   *)
(***************************************************************************)
RequestsSettle ==
  \A r \in Slots : InFlight(r) ~> ~InFlight(r)

(***************************************************************************)
(* AuthContext.jsx: the connection is open "whenever a user is             *)
(* authenticated", and socketClient.js: it is closed so that the server    *)
(* "stops sending events to a user who's no longer signed in".  A login as *)
(* somebody else finds the socket connected, and keeps the connection.     *)
(***************************************************************************)
SocketIsUsers ==
  socket.state = "open" /\ ~crossed => socket.as = user
=============================================================================
