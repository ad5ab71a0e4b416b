---------------------------- MODULE SessionProofs ----------------------------
(***************************************************************************)
(* The session of one tab, for any users and any number of calls in        *)
(* flight: SessionInv is inductive, the cookies are those of the user      *)
(* shown, and tokens expire without the user noticing.                     *)
(***************************************************************************)
EXTENDS Session, TLAPS

LEMMA NewCallTypes ==
  ASSUME NEW kind \in Kinds, NEW as \in Owner, user \in Owner, access \in Owner
  PROVE  NewCall(kind, as) \in Call
<1>1. ASSUME NEW token \in Owner, NEW shown \in Owner
      PROVE  [phase |-> "sent", kind |-> kind, token |-> token, as |-> as,
              shown |-> shown, status |-> "ok", retried |-> FALSE] \in Call
  BY Zenon DEF Call 
<1>2. (IF kind \in {"api", "me"} THEN access ELSE Nobody) \in Owner
  BY DEF Owner
<1>3. (IF kind = "api" THEN user ELSE Nobody) \in Owner
  BY DEF Owner
<1> QED
  BY <1>1, <1>2, <1>3, Zenon DEF NewCall

LEMMA FirstCallTypes ==
  ASSUME NEW first \in Slots, access \in Owner, user \in Owner
  PROVE  [r \in Slots |-> IF r = first THEN NewCall("me", Nobody) ELSE NoCall]
           \in [Slots -> Call \cup {NoCall}]
<1>1. NewCall("me", Nobody) \in Call
  BY NewCallTypes DEF Kinds, Owner
<1> QED
  BY <1>1

\* A page that has just been loaded, with whatever cookies there are.
LEMMA FreshPage ==
  ASSUME NEW first \in Slots, user \in Owner, access \in Owner,
         calls' = [r \in Slots |-> IF r = first THEN NewCall("me", Nobody) ELSE NoCall],
         access' \in Owner, access' = access, refresh' \in Owner, lapsed' \in BOOLEAN,
         user' = Nobody, loading' = TRUE, socket' = NoSocket,
         refreshing' = NoRefresh, crossed' = FALSE, CookiesAgree'
  PROVE  SessionInv'
<1> USE SessionAssumption
<1>1. /\ \A r \in Slots : InFlight(r)' => r = first
      /\ InFlight(first)' /\ calls'[first] = NewCall("me", Nobody)
  <2>1. calls'[first] = NewCall("me", Nobody)
    OBVIOUS
  <2>2. \A r \in Slots : r # first => calls'[r] = NoCall
    OBVIOUS
  <2> QED
    BY <2>1, <2>2, Zenon DEF NewCall, InFlight, NoCall
<1>2. /\ calls'[first].phase = "sent" /\ calls'[first].kind = "me"
      /\ calls'[first].token = access /\ calls'[first].as = Nobody
      /\ calls'[first].retried = FALSE
  BY <1>1 DEF NewCall
<1>3. SessionTypeOK'
  BY FirstCallTypes DEF SessionTypeOK, Owner
<1>4. RestoredOnce'
  BY <1>1, <1>2 DEF RestoredOnce, Loading
<1>5. CallsHold'
  BY <1>1, <1>2 DEF CallsHold, CallHolds
<1>6. RefreshHolds'
  BY <1>1, <1>2 DEF RefreshHolds, Waiting, InFlight, NoRefresh
<1>7. Uncrossed'
  <2>1. \A r \in Slots : ~Signing(r)'
    BY <1>1, <1>2 DEF Signing
  <2>3. PICK u \in Owner : u = IF refresh' # Nobody THEN refresh' ELSE access'
    OBVIOUS
  <2>2. Speaks(u)' /\ (~lapsed' => refresh' = u)
    BY <1>1, <1>2, <2>3 DEF Speaks, CookiesAgree
  <2> QED
    BY <2>1, <2>2 DEF Uncrossed
<1> QED
  BY <1>3, <1>4, <1>5, <1>6, <1>7 DEF SessionInv

-----------------------------------------------------------------------------
LEMMA InCall ==
  ASSUME SessionTypeOK, NEW r \in Slots, InFlight(r)
  PROVE  calls[r] \in Call
BY DEF SessionTypeOK, InFlight, NoCall

\* Cookies that expire, and a socket that comes and goes.
LEMMA CookiesFade ==
  ASSUME SessionInv, UNCHANGED <<tab, calls, refreshing, crossed>>,
         access' \in {access, Nobody}, refresh' \in {refresh, Nobody},
         lapsed' \in BOOLEAN, lapsed => lapsed', refresh' # refresh => lapsed',
         socket' \in Socket \cup {NoSocket}
  PROVE  SessionInv'
<1> USE SessionAssumption
<1>1. /\ \A r \in Slots : /\ InFlight(r)' = InFlight(r) /\ Signing(r)' = Signing(r)
                          /\ Alone(r)' = Alone(r) /\ Loading(r)' = Loading(r)
      /\ Waiting' = Waiting
      /\ user' = user /\ loading' = loading
  BY DEF InFlight, Signing, Alone, Loading, Waiting, tab
<1>2. SessionTypeOK'
  BY DEF SessionInv, SessionTypeOK, tab, Owner
<1>3. RestoredOnce'
  BY <1>1 DEF SessionInv, RestoredOnce
<1>4. CallsHold'
  BY <1>1 DEF SessionInv, CallsHold, CallHolds
<1>5. RefreshHolds' /\ CookiesAgree'
  BY <1>1 DEF SessionInv, RefreshHolds, CookiesAgree
<1>6. ASSUME ~crossed' PROVE Uncrossed'
  <2>1. PICK u \in Owner : Speaks(u) /\ (~lapsed => refresh = u /\ (user = u \/ loading))
    BY <1>6 DEF SessionInv, Uncrossed
  <2>2. Speaks(u)'
    BY <1>1, <2>1 DEF Speaks
  <2>3. ~lapsed' => refresh' = u /\ (user' = u \/ loading')
    BY <1>1, <2>1
  <2> QED
    BY <1>1, <1>6, <2>2, <2>3 DEF SessionInv, Uncrossed
<1> QED
  BY <1>2, <1>3, <1>4, <1>5, <1>6 DEF SessionInv

LEMMA RequestHolds ==
  ASSUME SessionInv, NEW r \in Slots, NEW kind \in {"api", "login", "logout"},
         NEW as \in Owner, Request(r, kind, as),
         kind = "api" => user # Nobody /\ as = Nobody, kind = "login" => as \in Users,
         UNCHANGED <<tab, cookies, refreshing, socket, lapsed>>
  PROVE  SessionInv'
<1> USE SessionAssumption
<1> DEFINE c == NewCall(kind, as)
<1>1. /\ ~InFlight(r) /\ calls' = [calls EXCEPT ![r] = c]
      /\ calls \in [Slots -> Call \cup {NoCall}]
      /\ user' = user /\ loading' = loading /\ access' = access /\ refresh' = refresh
  BY DEF Request, SessionInv, SessionTypeOK, tab, cookies
<1>2. /\ c.phase = "sent" /\ c.kind = kind /\ c.as = as /\ c.retried = FALSE
      /\ kind = "api" => c.token = access /\ c.shown = user
  BY DEF NewCall
<1>3. c \in Call
  BY NewCallTypes DEF SessionInv, SessionTypeOK, Kinds
<1> HIDE DEF c
<1>4. /\ calls'[r] = c /\ InFlight(r)'
      /\ \A s \in Slots \ {r} : calls'[s] = calls[s] /\ InFlight(s)' = InFlight(s)
                               /\ Signing(s)' = Signing(s) /\ Loading(s)' = Loading(s)
      /\ Signing(r)' = (kind \in {"login", "logout"}) /\ ~Loading(r)' /\ ~Loading(r)
  BY <1>1, <1>2 DEF InFlight, Signing, Loading
<1>5. SessionTypeOK'
  <2>1. crossed' \in BOOLEAN
    BY DEF Request, SessionInv, SessionTypeOK
  <2> QED
    BY <1>1, <1>3, <2>1 DEF SessionInv, SessionTypeOK, tab, cookies
<1>6. RestoredOnce'
  BY <1>1, <1>4 DEF SessionInv, RestoredOnce
<1>7. CallsHold'
  BY <1>2, <1>4 DEF CallsHold, CallHolds, SessionInv, SessionTypeOK, Owner
<1>8. RefreshHolds' /\ CookiesAgree'
  <2>1. Waiting' = Waiting
    BY <1>1, <1>2, <1>4 DEF Waiting, InFlight, NoCall
  <2> QED
    BY <1>1, <2>1 DEF SessionInv, RefreshHolds, CookiesAgree
<1>9. ASSUME ~crossed' PROVE Uncrossed'
  <2>1. ~crossed /\ Uncrossed
    BY <1>9 DEF Request, SessionInv
  <2>2. /\ kind = "api" => \A s \in Slots : ~Signing(s)
        /\ kind # "api" => Alone(r)
    BY <1>9 DEF Request
  <2>3. PICK u \in Owner : Speaks(u) /\ (~lapsed => refresh = u /\ (user = u \/ loading))
    BY <2>1 DEF Uncrossed
  <2>4. Speaks(u)'
    BY <1>1, <1>2, <1>4, <2>3 DEF Speaks
  <2>5. \A s \in Slots : Signing(s)' => Alone(s)'
    BY <1>4, <2>1, <2>2 DEF Alone, Signing, Uncrossed
  <2> QED
    BY <1>1, <2>1, <2>3, <2>4, <2>5 DEF Uncrossed
<1> QED
  BY <1>5, <1>6, <1>7, <1>8, <1>9 DEF SessionInv

-----------------------------------------------------------------------------
\* What an answer keeps of its request, and what it says.
LEMMA AnswerSays ==
  ASSUME NEW c \in Call, NEW d \in Answers(c) \cup {Answered(c, "lost", Nobody)}
  PROVE  /\ d \in Call
         /\ d.phase = "answered" /\ d.token = Nobody
         /\ d.kind = c.kind /\ d.shown = c.shown /\ d.retried = c.retried
         /\ d.as \in {c.as, c.token, Nobody}
         /\ c.kind \in {"api", "me"} => d.as \in {c.token, Nobody}
         /\ d.status = "ok" /\ c.kind \in {"api", "me"} => d.as = c.token /\ d.as # Nobody
         /\ d.status = "ok" /\ c.kind = "login" => d.as = c.as
<1>1. PICK status \in {"ok", "unauthorized", "lost"}, as \in Owner :
        /\ d = Answered(c, status, as)
        /\ as \in {c.as, c.token, Nobody}
        /\ c.kind \in {"api", "me"} => as \in {c.token, Nobody}
        /\ status = "ok" /\ c.kind \in {"api", "me"} => as = c.token /\ as # Nobody
        /\ status = "ok" /\ c.kind = "login" => as = c.as
  <2>0. c.as \in Owner /\ c.token \in Owner /\ Nobody \in Owner
    BY DEF Call, Owner
  <2>1. CASE d = Answered(c, "lost", Nobody)
    BY <2>1, <2>0
  <2>2. CASE d \in Answers(c)
    <3>1. CASE c.kind = "login"
      BY <2>0, <2>2, <3>1 DEF Answers
    <3>2. CASE c.kind = "logout"
      BY <2>0, <2>2, <3>2 DEF Answers
    <3>3. CASE c.kind \in {"api", "me"}
      <4>1. d \in authenticate(c)
        BY <2>2, <3>3 DEF Answers
      <4> QED
        BY <4>1, <2>0, <3>3 DEF authenticate
    <3> QED
      BY <3>1, <3>2, <3>3 DEF Call, Kinds
  <2> QED
    BY <2>1, <2>2
<1>2. d = [c EXCEPT !.phase = "answered", !.status = status, !.as = as, !.token = Nobody]
  BY <1>1 DEF Answered
<1>3. d \in Call
  BY <1>2 DEF Call, Owner
<1>4. /\ d.phase = "answered" /\ d.token = Nobody /\ d.status = status /\ d.as = as
      /\ d.kind = c.kind /\ d.shown = c.shown /\ d.retried = c.retried
  BY <1>2 DEF Call
<1> QED
  BY <1>1, <1>3, <1>4

LEMMA ServeHolds ==
  ASSUME SessionInv, NEW r \in Slots, Serve(r)
  PROVE  SessionInv'
<1> USE SessionAssumption
<1>0. /\ calls[r].phase = "sent" /\ InFlight(r) /\ calls[r] \in Call
      /\ calls \in [Slots -> Call \cup {NoCall}] /\ CallHolds(calls[r])
  BY InCall DEF Serve, InFlight, SessionInv, SessionTypeOK, CallsHold
<1>1. PICK c \in Answers(calls[r]) \cup {Answered(calls[r], "lost", Nobody)} :
        /\ calls' = [calls EXCEPT ![r] = c]
        /\ lapsed' = (lapsed \/ (c.kind = "me" /\ c.status = "lost")
                      \/ (c.retried /\ calls[r].token # Nobody /\ c.status = "unauthorized"))
  BY DEF Serve
<1>2. /\ c \in Call
      /\ c.phase = "answered" /\ c.token = Nobody
      /\ c.kind = calls[r].kind /\ c.shown = calls[r].shown /\ c.retried = calls[r].retried
      /\ c.kind \in {"api", "me"} => c.as \in {calls[r].token, Nobody}
      /\ c.status = "ok" /\ c.kind \in {"api", "me"} => c.as = calls[r].token /\ c.as # Nobody
      /\ c.status = "ok" /\ c.kind = "login" => c.as = calls[r].as
  BY <1>0, <1>1, AnswerSays
<1>3. /\ UNCHANGED <<user, loading, access, refresh, refreshing, socket, crossed>>
      /\ lapsed => lapsed'
  BY <1>1 DEF Serve, tab, cookies
<1>4. /\ calls'[r] = c /\ InFlight(r)'
      /\ \A s \in Slots \ {r} : calls'[s] = calls[s]
      /\ \A s \in Slots : InFlight(s)' = InFlight(s)
                          /\ Signing(s)' = Signing(s) /\ Loading(s)' = Loading(s)
  BY <1>0, <1>1, <1>2 DEF InFlight, Signing, Loading
<1>5. SessionTypeOK'
  BY <1>0, <1>1, <1>2, <1>3 DEF SessionInv, SessionTypeOK
<1>6. RestoredOnce'
  BY <1>3, <1>4 DEF SessionInv, RestoredOnce
<1>7. CallsHold'
  <2>1. CallHolds(calls[r])'
    BY <1>0, <1>1, <1>2, <1>4 DEF CallHolds, Call, Owner
  <2>2. \A s \in Slots \ {r} : InFlight(s)' => CallHolds(calls[s])'
    BY <1>3, <1>4 DEF SessionInv, CallsHold, CallHolds
  <2> QED
    BY <2>1, <2>2 DEF CallsHold
<1>8. RefreshHolds' /\ CookiesAgree'
  <2>1. Waiting' = Waiting
    BY <1>0, <1>2, <1>4 DEF Waiting
  <2> QED
    BY <1>3, <2>1 DEF SessionInv, RefreshHolds, CookiesAgree
<1>9. ASSUME ~crossed' PROVE Uncrossed'
  <2>1. ~crossed /\ Uncrossed
    BY <1>3, <1>9 DEF SessionInv
  <2>3. PICK u \in Owner : Speaks(u) /\ (~lapsed => refresh = u /\ (user = u \/ loading))
    BY <2>1 DEF Uncrossed
  <2>4. Speaks(u)'
    BY <1>0, <1>2, <1>3, <1>4, <2>3 DEF Speaks, Signing, Call, Kinds
  <2>5. \A s \in Slots : Signing(s)' => Alone(s)'
    BY <1>3, <1>4, <2>1 DEF Alone, Uncrossed
  <2> QED
    BY <1>3, <2>1, <2>3, <2>4, <2>5 DEF Uncrossed
<1> QED
  BY <1>5, <1>6, <1>7, <1>8, <1>9 DEF SessionInv

LEMMA ServeRefreshHolds ==
  ASSUME SessionInv, ServeRefresh
  PROVE  SessionInv'
<1> USE SessionAssumption
<1>1. PICK s \in {"lost", IF refreshing.token = Nobody THEN "unauthorized" ELSE "ok"} :
        /\ refreshing' = [phase |-> "answered", status |-> s,
                          token |-> IF s = "ok" THEN refreshing.token ELSE Nobody]
        /\ lapsed' = (lapsed \/ s = "lost")
  BY DEF ServeRefresh
<1>2. /\ refreshing.phase = "sent" /\ refreshing # NoRefresh /\ refreshing.token \in Owner
      /\ refreshing' # NoRefresh
      /\ refreshing'.phase = "answered" /\ refreshing'.status = s
      /\ refreshing'.token = IF s = "ok" THEN refreshing.token ELSE Nobody
  BY <1>1 DEF ServeRefresh, NoRefresh, SessionInv, SessionTypeOK, Refresh
<1>3. /\ UNCHANGED <<user, loading, access, refresh, calls, socket, crossed>>
      /\ lapsed => lapsed'
  BY <1>1 DEF ServeRefresh, tab, cookies
<1>4. \A r \in Slots : /\ InFlight(r)' = InFlight(r) /\ Signing(r)' = Signing(r)
                       /\ Loading(r)' = Loading(r)
                       /\ ~Alone(r)
  BY <1>2, <1>3 DEF InFlight, Signing, Loading, Alone
<1>5. SessionTypeOK'
  <2>1. refreshing' \in Refresh
    BY <1>1, <1>2 DEF Refresh, Owner
  <2> QED
    BY <1>1, <1>3, <2>1 DEF SessionInv, SessionTypeOK
<1>6. RestoredOnce' /\ CallsHold' /\ CookiesAgree'
  BY <1>3, <1>4 DEF SessionInv, RestoredOnce, CallsHold, CallHolds, CookiesAgree
<1>7. RefreshHolds'
  BY <1>1, <1>2, <1>3 DEF RefreshHolds, Owner
<1>8. ASSUME ~crossed' PROVE Uncrossed'
  <2>1. ~crossed /\ Uncrossed
    BY <1>3, <1>8 DEF SessionInv
  <2>2. PICK u \in Owner : Speaks(u) /\ (~lapsed => refresh = u /\ (user = u \/ loading))
    BY <2>1 DEF Uncrossed
  <2>3. Speaks(u)'
    BY <1>2, <1>3, <1>4, <2>2 DEF Speaks
  <2>4. ~lapsed' => refreshing'.token = refresh'
    BY <1>1, <1>2, <1>3, <2>1 DEF Uncrossed
  <2> QED
    BY <1>3, <1>4, <2>1, <2>2, <2>3, <2>4 DEF Uncrossed
<1> QED
  BY <1>5, <1>6, <1>7, <1>8 DEF SessionInv

LEMMA RecoverHolds ==
  ASSUME SessionInv, NEW r \in Slots, Recover(r)
  PROVE  SessionInv'
<1> USE SessionAssumption
<1> DEFINE c == [calls[r] EXCEPT !.phase = "waiting", !.retried = TRUE]
<1>0. /\ calls[r].phase = "answered" /\ InFlight(r) /\ calls[r] \in Call
      /\ calls \in [Slots -> Call \cup {NoCall}] /\ CallHolds(calls[r])
      /\ calls[r].kind \in {"api", "me"}
      /\ calls' = [calls EXCEPT ![r] = c]
  <2>1. calls[r].phase = "answered" /\ InFlight(r)
    BY DEF Recover, InFlight
  <2>2. calls[r] \in Call
    BY <2>1, InCall DEF SessionInv
  <2>3. calls[r].kind \in {"api", "me"}
    BY <2>2 DEF Recover, Recoverable, Call, Kinds
  <2> QED
    BY <2>1, <2>2, <2>3 DEF Recover, SessionInv, SessionTypeOK, CallsHold
<1>1. /\ c \in Call /\ c.phase = "waiting" /\ c.retried = TRUE
      /\ c.kind = calls[r].kind /\ c.token = calls[r].token /\ c.as = calls[r].as
      /\ c.shown = calls[r].shown
  BY <1>0 DEF Call
<1> HIDE DEF c
<1>2. /\ UNCHANGED <<user, loading, access, refresh, socket, crossed, lapsed>>
      /\ refreshing' # NoRefresh
      /\ IF refreshing = NoRefresh
           THEN /\ refreshing'.phase = "sent" /\ refreshing'.token = refresh
                /\ refreshing' \in Refresh
           ELSE refreshing' = refreshing
  BY DEF Recover, tab, cookies, NoRefresh, Refresh, SessionInv, SessionTypeOK
<1>3. /\ calls'[r] = c /\ InFlight(r)'
      /\ \A s \in Slots \ {r} : calls'[s] = calls[s]
      /\ \A s \in Slots : InFlight(s)' = InFlight(s)
                          /\ Signing(s)' = Signing(s) /\ Loading(s)' = Loading(s)
  BY <1>0, <1>1 DEF InFlight, Signing, Loading
<1>4. SessionTypeOK'
  BY <1>0, <1>1, <1>2 DEF SessionInv, SessionTypeOK
<1>5. RestoredOnce'
  BY <1>2, <1>3 DEF SessionInv, RestoredOnce
<1>6. CallsHold'
  <2>1. CallHolds(calls[r])'
    BY <1>0, <1>1, <1>3 DEF CallHolds
  <2>2. \A s \in Slots \ {r} : InFlight(s)' => CallHolds(calls[s])'
    BY <1>2, <1>3 DEF SessionInv, CallsHold, CallHolds
  <2> QED
    BY <2>1, <2>2 DEF CallsHold
<1>7. RefreshHolds' /\ CookiesAgree'
  BY <1>2 DEF SessionInv, RefreshHolds, CookiesAgree
<1>8. ASSUME ~crossed' PROVE Uncrossed'
  <2>1. ~crossed /\ Uncrossed
    BY <1>2, <1>8 DEF SessionInv
  <2>2. PICK u \in Owner : Speaks(u) /\ (~lapsed => refresh = u /\ (user = u \/ loading))
    BY <2>1 DEF Uncrossed
  <2>3. Speaks(u)'
    BY <1>0, <1>1, <1>2, <1>3, <2>2 DEF Speaks, Signing
  <2>4. \A s \in Slots : ~Signing(s)
    BY <1>0, <2>1 DEF Uncrossed, Alone, Signing
  <2> QED
    BY <1>2, <1>3, <2>1, <2>2, <2>3, <2>4 DEF Uncrossed
<1> QED
  BY <1>4, <1>5, <1>6, <1>7, <1>8 DEF SessionInv

-----------------------------------------------------------------------------
\* An answer that has arrived is no longer in flight, and all else is as it was.
LEMMA AnswerGone ==
  ASSUME SessionInv, NEW r \in Slots, calls[r].phase = "answered", calls' = HangUp(calls, r)
  PROVE  /\ calls' \in [Slots -> Call \cup {NoCall}]
         /\ InFlight(r) /\ ~InFlight(r)' /\ ~Signing(r)' /\ ~Loading(r)'
         /\ calls[r] \in Call /\ CallHolds(calls[r])
         /\ \A s \in Slots \ {r} :
              /\ calls'[s] = calls[s] /\ InFlight(s)' = InFlight(s)
              /\ Signing(s)' = Signing(s) /\ Loading(s)' = Loading(s)
         /\ Waiting' = Waiting
<1>1. calls' = [calls EXCEPT ![r] = NoCall] /\ calls \in [Slots -> Call \cup {NoCall}]
  BY DEF HangUp, SessionInv, SessionTypeOK
<1>2. calls'[r] = NoCall /\ \A s \in Slots \ {r} : calls'[s] = calls[s]
  BY <1>1
<1>3. calls' \in [Slots -> Call \cup {NoCall}]
  BY <1>1
<1>4. InFlight(r) /\ calls[r] \in Call /\ CallHolds(calls[r])
  BY InCall DEF InFlight, SessionInv, CallsHold
<1> QED
  BY <1>2, <1>3, <1>4 DEF InFlight, Signing, Loading, Waiting, NoCall

LEMMA SocketTypes ==
  ASSUME SessionTypeOK, NEW u \in Owner, setUser(u)
  PROVE  user' \in Owner /\ socket' \in Socket \cup {NoSocket}
BY DEF SessionTypeOK, setUser, connectSocket, Socket, NoSocket, Owner

\* A login or a logout that succeeds.  It may have met other requests; if it did
\* not, nothing is in flight any more.
LEMMA SignedHolds ==
  ASSUME SessionInv, NEW r \in Slots, Signing(r), calls[r].phase = "answered",
         calls[r].status = "ok", calls' = HangUp(calls, r), NEW u \in Owner,
         setUser(u), setAuthCookies(u), loading' = loading, refreshing' = refreshing,
         lapsed' \in BOOLEAN, lapsed' => lapsed, lapsed /\ ~lapsed' => Alone(r),
         crossed' = (crossed /\ ~Alone(r))
  PROVE  SessionInv'
<1> USE SessionAssumption
<1>1. /\ calls' \in [Slots -> Call \cup {NoCall}]
      /\ InFlight(r) /\ ~InFlight(r)' /\ ~Signing(r)' /\ ~Loading(r)' /\ ~Loading(r)
      /\ \A s \in Slots \ {r} :
           /\ calls'[s] = calls[s] /\ InFlight(s)' = InFlight(s)
           /\ Signing(s)' = Signing(s) /\ Loading(s)' = Loading(s)
      /\ Waiting' = Waiting
  BY AnswerGone DEF Signing, Loading
<1>2. user' = u /\ access' = u /\ refresh' = u
  BY DEF setUser, setAuthCookies
<1>3. SessionTypeOK'
  <2>1. socket' \in Socket \cup {NoSocket}
    BY SocketTypes DEF SessionInv
  <2> QED
    BY <1>1, <1>2, <2>1 DEF SessionInv, SessionTypeOK
<1>4. RestoredOnce'
  BY <1>1 DEF SessionInv, RestoredOnce
<1>5. ASSUME Alone(r) PROVE refreshing = NoRefresh /\ \A s \in Slots : ~InFlight(s)'
  BY <1>1, <1>5 DEF Alone
<1>6. CallsHold'
  BY <1>1, <1>5 DEF SessionInv, CallsHold, CallHolds, SessionTypeOK
<1>7. RefreshHolds' /\ CookiesAgree'
  BY <1>1, <1>2, <1>5 DEF SessionInv, RefreshHolds, CookiesAgree, SessionTypeOK, NoRefresh
<1>8. ASSUME ~crossed' PROVE Uncrossed'
  <2>1. Alone(r)
    BY <1>8 DEF SessionInv, Uncrossed, SessionTypeOK
  <2>2. ~loading'
    BY <1>4, <1>5, <2>1 DEF RestoredOnce, Loading
  <2>3. Speaks(u)'
    BY <1>2, <1>5, <2>1 DEF Speaks
  <2> QED
    BY <1>2, <1>5, <2>1, <2>2, <2>3 DEF Uncrossed, Signing
<1> QED
  BY <1>3, <1>4, <1>6, <1>7, <1>8 DEF SessionInv

\* Any other answer, but for that of restoreSession, is for its caller alone.
LEMMA TakenHolds ==
  ASSUME SessionInv, NEW r \in Slots, calls[r].phase = "answered", calls[r].kind # "me",
         calls' = HangUp(calls, r),
         UNCHANGED <<user, loading, cookies, socket, refreshing, crossed, lapsed>>
  PROVE  SessionInv'
<1> USE SessionAssumption
<1>1. /\ calls' \in [Slots -> Call \cup {NoCall}]
      /\ InFlight(r) /\ ~InFlight(r)' /\ ~Signing(r)' /\ ~Loading(r)' /\ ~Loading(r)
      /\ \A s \in Slots \ {r} :
           /\ calls'[s] = calls[s] /\ InFlight(s)' = InFlight(s)
           /\ Signing(s)' = Signing(s) /\ Loading(s)' = Loading(s)
      /\ Waiting' = Waiting
  BY AnswerGone DEF Loading
<1>2. access' = access /\ refresh' = refresh
  BY DEF cookies
<1>3. SessionTypeOK'
  BY <1>1, <1>2 DEF SessionInv, SessionTypeOK
<1>4. RestoredOnce'
  BY <1>1 DEF SessionInv, RestoredOnce
<1>5. CallsHold'
  BY <1>1 DEF SessionInv, CallsHold, CallHolds
<1>6. RefreshHolds' /\ CookiesAgree'
  BY <1>1, <1>2 DEF SessionInv, RefreshHolds, CookiesAgree
<1>7. ASSUME ~crossed' PROVE Uncrossed'
  <2>1. Uncrossed
    BY <1>7 DEF SessionInv
  <2>2. PICK u \in Owner : Speaks(u) /\ (~lapsed => refresh = u /\ (user = u \/ loading))
    BY <2>1 DEF Uncrossed
  <2>3. Speaks(u)'
    BY <1>1, <1>2, <2>2 DEF Speaks
  <2>4. \A s \in Slots : Signing(s)' => Alone(s)'
    BY <1>1, <2>1 DEF Uncrossed, Alone
  <2> QED
    BY <1>2, <2>1, <2>2, <2>3, <2>4 DEF Uncrossed
<1> QED
  BY <1>3, <1>4, <1>5, <1>6, <1>7 DEF SessionInv

\* restoreSession ends: with the user of the cookies, unless something lapsed.
LEMMA RestoredHolds ==
  ASSUME SessionInv, NEW r \in Slots, calls[r].phase = "answered", calls[r].kind = "me",
         ~Recoverable(calls[r]), calls' = HangUp(calls, r),
         setUser(IF calls[r].status = "ok" THEN getMe(calls[r]) ELSE Nobody),
         loading' = FALSE, UNCHANGED <<cookies, refreshing, crossed, lapsed>>
  PROVE  SessionInv'
<1> USE SessionAssumption
<1>1. /\ calls' \in [Slots -> Call \cup {NoCall}]
      /\ InFlight(r) /\ ~InFlight(r)' /\ ~Signing(r)' /\ ~Loading(r)' /\ Loading(r)
      /\ \A s \in Slots \ {r} :
           /\ calls'[s] = calls[s] /\ InFlight(s)' = InFlight(s)
           /\ Signing(s)' = Signing(s) /\ Loading(s)' = Loading(s)
      /\ Waiting' = Waiting
      /\ calls[r] \in Call /\ CallHolds(calls[r])
  BY AnswerGone DEF Loading
<1>2. access' = access /\ refresh' = refresh
  BY DEF cookies
<1>3. PICK v \in Owner : /\ v = IF calls[r].status = "ok" THEN calls[r].as ELSE Nobody
                         /\ setUser(v) /\ user' = v
  BY <1>1 DEF getMe, Call, Owner, setUser
<1>4. SessionTypeOK'
  <2>1. socket' \in Socket \cup {NoSocket}
    BY <1>3, SocketTypes DEF SessionInv
  <2> QED
    BY <1>1, <1>2, <1>3, <2>1 DEF SessionInv, SessionTypeOK
<1>5. RestoredOnce'
  BY <1>1 DEF SessionInv, RestoredOnce
<1>6. CallsHold'
  BY <1>1 DEF SessionInv, CallsHold, CallHolds
<1>7. RefreshHolds' /\ CookiesAgree'
  BY <1>1, <1>2 DEF SessionInv, RefreshHolds, CookiesAgree
<1>8. ASSUME ~crossed' PROVE Uncrossed'
  <2>1. Uncrossed
    BY <1>8 DEF SessionInv
  <2>2. PICK u \in Owner : Speaks(u) /\ (~lapsed => refresh = u /\ (user = u \/ loading))
    BY <2>1 DEF Uncrossed
  <2>3. v \in {u, Nobody} /\ (~lapsed => v = u)
    <3>1. calls[r].as \in {u, Nobody}
      BY <1>1, <2>2 DEF Speaks, Loading, Signing
    <3>2. calls[r].status = "ok" => calls[r].as \in Users
      BY <1>1 DEF CallHolds
    <3>3. ~lapsed => calls[r].status = "ok"
      BY <1>1 DEF CallHolds, Recoverable, Call
    <3> QED
      BY <1>3, <3>1, <3>2, <3>3
  <2>4. Speaks(u)'
    BY <1>1, <1>2, <1>3, <2>2, <2>3 DEF Speaks
  <2>5. \A s \in Slots : Signing(s)' => Alone(s)'
    BY <1>1, <2>1 DEF Uncrossed, Alone
  <2> QED
    BY <1>2, <1>3, <2>1, <2>2, <2>3, <2>4, <2>5 DEF Uncrossed
<1> QED
  BY <1>4, <1>5, <1>6, <1>7, <1>8 DEF SessionInv

LEMMA ArriveHolds ==
  ASSUME SessionInv, NEW r \in Slots, Arrive(r)
  PROVE  SessionInv'
<1> USE SessionAssumption
<1>1. /\ calls[r].phase = "answered" /\ ~Recoverable(calls[r]) /\ calls' = HangUp(calls, r)
      /\ calls[r] \in Call /\ CallHolds(calls[r]) /\ InFlight(r)
      /\ UNCHANGED refreshing
      /\ loading \in BOOLEAN /\ crossed \in BOOLEAN /\ lapsed \in BOOLEAN
  BY AnswerGone DEF Arrive, SessionInv, SessionTypeOK
<1>2. CASE calls[r].kind \in {"login", "logout"} /\ calls[r].status = "ok"
  <2>1. /\ loading' = loading /\ crossed' = (crossed /\ ~Alone(r)) /\ Signing(r)
    BY <1>1, <1>2 DEF Arrive, Signing
  <2>2. CASE calls[r].kind = "login"
    <3>1. LoginArrives(r)
      BY <1>2, <2>2 DEF Arrive
    <3>2. PICK u \in Owner : u = calls[r].as
      BY <1>1 DEF Call
    <3>3. setAuthCookies(u) /\ setUser(u) /\ lapsed' = (lapsed /\ ~Alone(r))
      BY <1>2, <3>1, <3>2 DEF LoginArrives
    <3>4. lapsed' \in BOOLEAN /\ (lapsed' => lapsed) /\ (lapsed /\ ~lapsed' => Alone(r))
      BY <3>3
    <3> QED
      BY <1>1, <1>2, <2>1, <3>3, <3>4, SignedHolds
  <2>3. CASE calls[r].kind = "logout"
    <3>1. LogoutArrives(r)
      BY <1>2, <2>3 DEF Arrive
    <3>2. setAuthCookies(Nobody) /\ setUser(Nobody) /\ lapsed' = lapsed
      BY <1>2, <3>1 DEF LogoutArrives, clearCookies, setAuthCookies
    <3>3. Nobody \in Owner
      BY DEF Owner
    <3> QED
      BY <1>1, <1>2, <2>1, <3>2, <3>3, SignedHolds
  <2> QED
    BY <1>2, <2>2, <2>3
<1>3. CASE calls[r].kind = "me"
  <2>1. /\ setUser(IF calls[r].status = "ok" THEN getMe(calls[r]) ELSE Nobody)
        /\ UNCHANGED <<cookies, lapsed>> /\ loading' = FALSE /\ crossed' = crossed
    BY <1>1, <1>3 DEF Arrive
  <2> QED
    BY <1>1, <1>3, <2>1, RestoredHolds
<1>4. CASE calls[r].kind = "api" \/ (calls[r].kind \in {"login", "logout"} /\ calls[r].status # "ok")
  <2>1. /\ UNCHANGED <<user, cookies, socket, lapsed>> /\ loading' = loading
        /\ crossed' = crossed
    BY <1>1, <1>4 DEF Arrive, LoginArrives, LogoutArrives
  <2> QED
    BY <1>1, <1>4, <2>1, TakenHolds
<1> QED
  BY <1>1, <1>2, <1>3, <1>4 DEF Call, Kinds

-----------------------------------------------------------------------------
\* Those who waited are sent again as the user the new cookies speak for.
LEMMA ReplayHolds ==
  ASSUME SessionInv, RefreshArrives, refreshing.status = "ok"
  PROVE  SessionInv'
<1> USE SessionAssumption
<1>1. PICK v \in Users : v = refreshing.token
  BY DEF RefreshArrives, refreshSettles, SessionInv, RefreshHolds
<1>2. /\ access' = v /\ refresh' = v /\ refreshing # NoRefresh
      /\ refreshing' = NoRefresh
      /\ calls' = [r \in Slots |-> IF r \in Waiting
                                     THEN [calls[r] EXCEPT !.phase = "sent", !.token = v]
                                     ELSE calls[r]]
      /\ UNCHANGED <<user, loading, socket, crossed, lapsed>>
  <2>0. refreshSettles
    BY DEF RefreshArrives
  <2>1. refreshing.phase = "answered" /\ refreshing # NoRefresh
    BY <2>0 DEF refreshSettles, NoRefresh
  <2>2. access' = v /\ refresh' = v /\ refreshing' = NoRefresh
    BY <1>1 DEF RefreshArrives, setAuthCookies
  <2>3. UNCHANGED <<user, loading, socket, crossed, lapsed>>
    BY DEF RefreshArrives, tab
  <2> QED
    BY <1>1, <2>1, <2>2, <2>3 DEF RefreshArrives
<1>3. \A r \in Slots : r \in Waiting =>
        /\ calls[r] \in Call /\ InFlight(r) /\ calls[r].retried = TRUE /\ ~Signing(r)
        /\ calls'[r] \in Call
        /\ calls'[r].phase = "sent" /\ calls'[r].token = v /\ calls'[r].as = calls[r].as
        /\ calls'[r].kind = calls[r].kind /\ calls'[r].shown = calls[r].shown
        /\ calls'[r].retried = TRUE /\ calls'[r].status = calls[r].status
  <2> SUFFICES ASSUME NEW r \in Slots, r \in Waiting
               PROVE  /\ calls[r] \in Call /\ InFlight(r) /\ calls[r].retried = TRUE /\ ~Signing(r)
                      /\ calls'[r] \in Call
                      /\ calls'[r].phase = "sent" /\ calls'[r].token = v
                      /\ calls'[r].as = calls[r].as
                      /\ calls'[r].kind = calls[r].kind /\ calls'[r].shown = calls[r].shown
                      /\ calls'[r].retried = TRUE /\ calls'[r].status = calls[r].status
    OBVIOUS
  <2>1. calls[r].phase = "waiting" /\ InFlight(r)
    BY DEF Waiting, InFlight
  <2>2. calls[r] \in Call /\ CallHolds(calls[r])
    BY <2>1, InCall DEF SessionInv, CallsHold
  <2>3. calls[r].retried = TRUE /\ ~Signing(r)
    BY <2>1, <2>2 DEF CallHolds, Signing, Call
  <2>4. calls'[r] = [calls[r] EXCEPT !.phase = "sent", !.token = v]
    BY <1>2
  <2> QED
    BY <2>1, <2>2, <2>3, <2>4 DEF Call, Owner
<1>4. \A r \in Slots : r \notin Waiting => calls'[r] = calls[r] /\ calls'[r].phase # "waiting"
  BY <1>2 DEF Waiting
<1>5. \A r \in Slots : /\ InFlight(r)' = InFlight(r) /\ Loading(r)' = Loading(r)
                       /\ Signing(r)' = Signing(r)
  BY <1>3, <1>4 DEF InFlight, Loading, Signing
<1>6. SessionTypeOK'
  <2>1. calls' \in [Slots -> Call \cup {NoCall}]
    BY <1>2, <1>3, <1>4 DEF SessionInv, SessionTypeOK
  <2> QED
    BY <1>2, <2>1 DEF SessionInv, SessionTypeOK, Owner
<1>7. RestoredOnce'
  BY <1>2, <1>5 DEF SessionInv, RestoredOnce
<1>8. CallsHold'
  <2>1. ASSUME NEW r \in Slots, InFlight(r)' PROVE CallHolds(calls[r])'
    <3>1. CallHolds(calls[r])
      BY <1>5, <2>1 DEF SessionInv, CallsHold
    <3>2. CASE r \in Waiting
      <4>1. calls[r].kind \notin {"login", "logout"}
        BY <1>3, <3>2 DEF Signing
      <4> QED
        BY <1>3, <3>1, <3>2, <4>1 DEF CallHolds
    <3>3. CASE r \notin Waiting
      BY <1>2, <1>4, <3>1, <3>3 DEF CallHolds
    <3> QED
      BY <3>2, <3>3
  <2> QED
    BY <2>1 DEF CallsHold
<1>9. RefreshHolds' /\ CookiesAgree'
  <2>1. Waiting' = {}
    BY <1>3, <1>4 DEF Waiting
  <2> QED
    BY <1>2, <2>1 DEF RefreshHolds, CookiesAgree, NoRefresh
<1>10. ASSUME ~crossed' PROVE Uncrossed'
  <2>1. Uncrossed
    BY <1>2, <1>10 DEF SessionInv
  <2>2. PICK u \in Owner : Speaks(u) /\ (~lapsed => refresh = u /\ (user = u \/ loading))
    BY <2>1 DEF Uncrossed
  <2>3. v = u
    BY <1>1, <1>2, <2>2 DEF Speaks
  <2>4. Speaks(u)'
    <3>1. ASSUME NEW r \in Slots, InFlight(r)', ~Signing(r)'
          PROVE  /\ {calls'[r].token, calls'[r].as} \subseteq {u, Nobody}
                 /\ calls'[r].kind = "api" => calls'[r].shown = u
      BY <1>3, <1>4, <1>5, <2>2, <2>3, <3>1 DEF Speaks
    <3> QED
      BY <1>2, <2>2, <2>3, <3>1 DEF Speaks
  <2>5. \A r \in Slots : ~Signing(r)
    BY <1>2, <2>1 DEF Uncrossed, Alone
  <2> QED
    BY <1>2, <1>5, <2>1, <2>2, <2>3, <2>4, <2>5 DEF Uncrossed
<1> QED
  BY <1>6, <1>7, <1>8, <1>9, <1>10 DEF SessionInv

\* A refresh that fails while the session is alive was asked for by nobody:
\* there was no refresh token.
LEMMA RefusedIsNobodys ==
  ASSUME SessionInv, ~crossed, ~lapsed, refreshing.phase = "answered", refreshing.status # "ok"
  PROVE  refresh = Nobody
<1>1. refreshing # NoRefresh /\ refreshing \in Refresh
  BY DEF NoRefresh, SessionInv, SessionTypeOK
<1>2. refreshing.token = refresh /\ refreshing.token \notin Users
  BY <1>1 DEF SessionInv, Uncrossed, RefreshHolds
<1> QED
  BY <1>1, <1>2 DEF Refresh, Owner

LEMMA ExpiredHolds ==
  ASSUME SessionInv, RefreshArrives, refreshing.status # "ok"
  PROVE  SessionInv'
<1> USE SessionAssumption
<1>1. /\ refreshing # NoRefresh /\ refreshing.phase = "answered" /\ refreshing' = NoRefresh
      /\ setUser(Nobody) /\ user' = Nobody
      /\ loading' = (loading /\ \A r \in Waiting : calls[r].kind # "me")
      /\ calls' = [r \in Slots |-> IF r \in Waiting THEN NoCall ELSE calls[r]]
      /\ UNCHANGED <<access, refresh, crossed, lapsed>>
  BY DEF RefreshArrives, refreshSettles, SessionExpired, setUser, cookies, NoRefresh
<1>2. \A r \in Slots :
        /\ InFlight(r)' = (InFlight(r) /\ r \notin Waiting)
        /\ InFlight(r)' => calls'[r] = calls[r]
        /\ r \in Waiting => InFlight(r) /\ calls'[r] = NoCall
  BY <1>1 DEF InFlight, Waiting, NoCall
<1>3. \A r \in Slots : /\ Loading(r)' = (Loading(r) /\ r \notin Waiting)
                       /\ Signing(r)' => Signing(r)
  BY <1>2 DEF Loading, Signing
<1>4. SessionTypeOK'
  <2>1. calls' \in [Slots -> Call \cup {NoCall}]
    BY <1>1 DEF SessionInv, SessionTypeOK
  <2>2. socket' \in Socket \cup {NoSocket}
    BY <1>1, SocketTypes DEF SessionInv, Owner
  <2> QED
    BY <1>1, <2>1, <2>2 DEF SessionInv, SessionTypeOK, Refresh, Owner
<1>5. RestoredOnce'
  <2>1. \A r \in Waiting : calls[r].kind # "me" <=> ~Loading(r)
    BY <1>2 DEF Loading, Waiting
  <2>2. Waiting \subseteq Slots
    BY DEF Waiting
  <2> QED
    BY <1>1, <1>3, <2>1, <2>2 DEF SessionInv, RestoredOnce
<1>6. CallsHold'
  BY <1>1, <1>2 DEF SessionInv, CallsHold, CallHolds
<1>7. RefreshHolds' /\ CookiesAgree'
  <2>1. Waiting' = {}
    BY <1>2 DEF Waiting, InFlight
  <2> QED
    BY <1>1, <2>1 DEF SessionInv, RefreshHolds, CookiesAgree, NoRefresh
<1>8. ASSUME ~crossed' PROVE Uncrossed'
  <2>1. ~crossed /\ Uncrossed
    BY <1>1, <1>8 DEF SessionInv
  <2>2. PICK u \in Owner : Speaks(u) /\ (~lapsed => refresh = u /\ (user = u \/ loading))
    BY <2>1 DEF Uncrossed
  <2>3. Speaks(u)'
    BY <1>1, <1>2, <1>3, <2>2 DEF Speaks, Signing
  <2>4. ~lapsed' => refresh' = u /\ user' = u
    BY <1>1, <2>1, <2>2, RefusedIsNobodys
  <2>5. \A r \in Slots : ~Signing(r)
    BY <1>1, <2>1 DEF Uncrossed, Alone
  <2> QED
    BY <1>1, <1>3, <2>3, <2>4, <2>5 DEF Uncrossed
<1> QED
  BY <1>4, <1>5, <1>6, <1>7, <1>8 DEF SessionInv

-----------------------------------------------------------------------------
LEMMA InitHolds == SessionInit => SessionInv
<1> SUFFICES ASSUME SessionInit PROVE SessionInv
  OBVIOUS
<1> USE SessionAssumption
<1>1. PICK first \in Slots :
        calls = [r \in Slots |-> IF r = first THEN NewCall("me", Nobody) ELSE NoCall]
  BY DEF SessionInit
<1>0. user \in Owner /\ access \in Owner /\ refresh \in Owner
  BY DEF SessionInit, Owner
<1>2. /\ \A r \in Slots : InFlight(r) => r = first
      /\ InFlight(first) /\ calls[first] = NewCall("me", Nobody)
  BY <1>1 DEF InFlight, NewCall, NoCall
<1>3. /\ calls[first].phase = "sent" /\ calls[first].kind = "me"
      /\ calls[first].token = access /\ calls[first].as = Nobody
      /\ calls[first].retried = FALSE
  BY <1>2 DEF NewCall
<1>4. SessionTypeOK
  <2>1. lapsed \in BOOLEAN
    BY DEF SessionInit
  <2>2. calls \in [Slots -> Call \cup {NoCall}]
    BY <1>0, <1>1, FirstCallTypes
  <2> QED
    BY <1>0, <2>1, <2>2 DEF SessionInit, SessionTypeOK
<1>5. RestoredOnce
  BY <1>2, <1>3 DEF SessionInit, RestoredOnce, Loading
<1>6. CallsHold
  BY <1>2, <1>3 DEF CallsHold, CallHolds
<1>7. RefreshHolds /\ CookiesAgree
  BY <1>2, <1>3 DEF SessionInit, RefreshHolds, Waiting, InFlight, NoRefresh, CookiesAgree
<1>8. Uncrossed
  <2>1. \A r \in Slots : ~Signing(r)
    BY <1>2, <1>3 DEF Signing
  <2>2. Speaks(refresh)
    BY <1>2, <1>3 DEF SessionInit, Speaks
  <2> QED
    BY <1>0, <2>1, <2>2 DEF Uncrossed, SessionInit
<1> QED
  BY <1>4, <1>5, <1>6, <1>7, <1>8 DEF SessionInv

LEMMA StepHolds == SessionInv /\ [SessionNext]_sessionVars => SessionInv'
<1> SUFFICES ASSUME SessionInv, [SessionNext]_sessionVars PROVE SessionInv'
  OBVIOUS
<1> USE SessionAssumption
<1>0. SessionTypeOK
  BY DEF SessionInv
<1>1. CASE Reload
  <2>1. PICK first \in Slots :
          calls' = [r \in Slots |-> IF r = first THEN NewCall("me", Nobody) ELSE NoCall]
    BY <1>1 DEF Reload
  <2>2. access' = access /\ refresh' = refresh /\ lapsed' = lapsed /\ CookiesAgree'
    BY <1>1 DEF Reload, cookies, SessionInv, CookiesAgree
  <2> QED
    BY <1>0, <1>1, <2>1, <2>2, FreshPage DEF Reload, SessionTypeOK
<1>2. CASE AccessExpires \/ RefreshExpires \/ Handshake \/ Drop \/ UNCHANGED sessionVars
  <2>1. UNCHANGED <<tab, calls, refreshing, crossed>>
    BY <1>2 DEF AccessExpires, RefreshExpires, Handshake, Drop, sessionVars
  <2>2. /\ access' \in {access, Nobody} /\ refresh' \in {refresh, Nobody}
        /\ lapsed' \in BOOLEAN /\ (lapsed => lapsed') /\ (refresh' # refresh => lapsed')
    BY <1>0, <1>2 DEF AccessExpires, RefreshExpires, Handshake, Drop, sessionVars, cookies,
                      SessionTypeOK
  <2>3. socket' \in Socket \cup {NoSocket}
    BY <1>0, <1>2 DEF AccessExpires, RefreshExpires, Handshake, Drop, sessionVars,
                      SessionTypeOK, Socket, Owner
  <2> QED
    BY <2>1, <2>2, <2>3, CookiesFade
<1>3. CASE ServeRefresh
  BY <1>3, ServeRefreshHolds
<1>4. CASE RefreshArrives
  BY <1>4, ReplayHolds, ExpiredHolds
<1>5. ASSUME NEW r \in Slots, CallApi(r) PROVE SessionInv'
  BY <1>5, RequestHolds DEF CallApi, Owner
<1>6. ASSUME NEW r \in Slots, login(r) PROVE SessionInv'
  BY <1>6, RequestHolds DEF login, Owner
<1>7. ASSUME NEW r \in Slots, logout(r) PROVE SessionInv'
  BY <1>7, RequestHolds DEF logout, Owner
<1>8. ASSUME NEW r \in Slots, Serve(r) \/ Recover(r) \/ Arrive(r) PROVE SessionInv'
  BY <1>8, ServeHolds, RecoverHolds, ArriveHolds
<1> QED
  BY <1>1, <1>2, <1>3, <1>4, <1>5, <1>6, <1>7, <1>8 DEF SessionNext

(***************************************************************************)
(* Whatever requests, refreshes, expiries and losses are in flight, what   *)
(* each of them says of the user stays one story until a login or a logout *)
(* meets another request (client.js, AuthContext.jsx, authController.js).  *)
(***************************************************************************)
THEOREM SessionInvariant == SessionSpec => []SessionInv
<1> QED
  BY InitHolds, StepHolds, PTL DEF SessionSpec

\* The state of the tab, the cookies and every request keeps its type: the one
\* promise and the calls that wait for it included.
THEOREM SessionTypes == SessionSpec => []SessionTypeOK
<1>1. SessionInv => SessionTypeOK
  BY DEF SessionInv
<1> QED
  BY <1>1, SessionInvariant, PTL

(***************************************************************************)
(* The user shown is the user the cookies speak for, and every call is     *)
(* answered as the user who made it, for any number of users and requests. *)
(***************************************************************************)
THEOREM CookiesFollowUser == SessionSpec => []CookiesAreTheUsers
<1>1. SessionInv => CookiesAreTheUsers
  <2> SUFFICES ASSUME SessionInv, ~crossed, ~loading
               PROVE  /\ user # Nobody \/ ~lapsed => {access, refresh} \subseteq {user, Nobody}
                      /\ \A r \in Slots :
                           InFlight(r) /\ calls[r].kind = "api" /\ calls[r].status = "ok"
                             /\ calls[r].phase = "answered" => calls[r].as = calls[r].shown
    BY DEF CookiesAreTheUsers
  <2> USE SessionAssumption
  <2>1. PICK u \in Owner : Speaks(u) /\ (~lapsed => refresh = u /\ (user = u \/ loading))
    BY DEF SessionInv, Uncrossed
  <2>2. user # Nobody \/ ~lapsed => {access, refresh} \subseteq {user, Nobody}
    BY <2>1 DEF Speaks
  <2>3. ASSUME NEW r \in Slots, InFlight(r), calls[r].kind = "api", calls[r].status = "ok",
               calls[r].phase = "answered"
        PROVE  calls[r].as = calls[r].shown
    <3>1. CallHolds(calls[r])
      BY <2>3 DEF SessionInv, CallsHold
    <3> QED
      BY <2>1, <2>3, <3>1 DEF CallHolds, Speaks, Signing
  <2> QED
    BY <2>2, <2>3
<1> QED
  BY <1>1, SessionInvariant, PTL

-----------------------------------------------------------------------------
\* The step of ExpiryIsSilent.
Silently ==
  ~crossed /\ ~lapsed =>
    /\ user # Nobody /\ user' = Nobody =>
         \/ loading'
         \/ \E r \in Slots : Signing(r) /\ calls[r].kind = "logout" /\ calls'[r] = NoCall
    /\ \A r \in Slots :
         InFlight(r) /\ calls'[r] = NoCall /\ ~loading' /\ calls[r].kind = "api"
           => calls[r].phase = "answered" /\ calls[r].status # "unauthorized"

LEMMA NothingEnds ==
  ASSUME user' = user, \A r \in Slots : InFlight(r) => calls'[r] # NoCall
  PROVE  Silently
BY DEF Silently

LEMMA StepIsSilent == SessionInv /\ [SessionNext]_sessionVars => Silently
<1> SUFFICES ASSUME SessionInv, SessionNext \/ UNCHANGED sessionVars PROVE Silently
  OBVIOUS
<1> USE SessionAssumption
<1>0. calls \in [Slots -> Call \cup {NoCall}]
  BY DEF SessionInv, SessionTypeOK
<1>1. CASE Reload
  BY <1>1 DEF Reload, Silently
<1>2. CASE AccessExpires \/ RefreshExpires \/ ServeRefresh \/ Handshake \/ Drop
             \/ UNCHANGED sessionVars
  <2>1. user' = user /\ calls' = calls
    BY <1>2 DEF AccessExpires, RefreshExpires, ServeRefresh, Handshake, Drop, sessionVars, tab
  <2> QED
    BY <2>1, NothingEnds DEF InFlight, NoCall
<1>3. CASE RefreshArrives /\ refreshing.status = "ok"
  <2>1. user' = user
    BY <1>3 DEF RefreshArrives, tab
  <2>2. ASSUME NEW r \in Slots, InFlight(r) PROVE calls'[r] # NoCall
    <3>1. calls[r] \in Call
      BY <2>2, InCall DEF SessionInv
    <3>2. calls'[r] = IF r \in Waiting
                        THEN [calls[r] EXCEPT !.phase = "sent", !.token = refreshing.token]
                        ELSE calls[r]
      BY <1>3 DEF RefreshArrives
    <3>3. calls'[r].phase # "none"
      BY <2>2, <3>1, <3>2 DEF Call, InFlight
    <3> QED
      BY <3>3 DEF NoCall
  <2> QED
    BY <2>1, <2>2, NothingEnds
<1>4. CASE RefreshArrives /\ refreshing.status # "ok"
  <2> SUFFICES ASSUME ~crossed, ~lapsed
               PROVE  /\ user = Nobody \/ loading'
                      /\ \A r \in Slots : ~(InFlight(r) /\ calls[r].kind = "api")
    BY DEF Silently
  <2>1. PICK u \in Owner : Speaks(u) /\ refresh = u /\ (user = u \/ loading)
    BY DEF SessionInv, Uncrossed
  <2>2. u = Nobody
    BY <1>4, <2>1, RefusedIsNobodys DEF RefreshArrives, refreshSettles
  <2>3. user = Nobody
    BY <2>1, <2>2 DEF Speaks
  <2>4. ASSUME NEW r \in Slots, InFlight(r), calls[r].kind = "api" PROVE FALSE
    BY <2>1, <2>2, <2>4 DEF Speaks, Signing, SessionInv, CallsHold, CallHolds
  <2> QED
    BY <2>3, <2>4
<1>5. ASSUME NEW r \in Slots, CallApi(r) \/ login(r) \/ logout(r) PROVE Silently
  <2>1. PICK kind \in Kinds, as \in Owner : Request(r, kind, as)
    BY <1>5 DEF CallApi, login, logout, Kinds, Owner
  <2>2. user' = user
    BY <1>5 DEF CallApi, login, logout, tab
  <2>3. \A s \in Slots : InFlight(s) => calls'[s] = calls[s]
    BY <1>0, <2>1 DEF Request
  <2> QED
    BY <2>2, <2>3, NothingEnds DEF InFlight, NoCall
<1>6. ASSUME NEW r \in Slots, Serve(r) \/ Recover(r) PROVE Silently
  <2>1. user' = user
    BY <1>6 DEF Serve, Recover, tab
  <2>2. \A s \in Slots \ {r} : calls'[s] = calls[s]
    BY <1>0, <1>6 DEF Serve, Recover
  <2>3. calls'[r].phase # "none"
    <3>1. calls[r] \in Call
      BY <1>6, InCall DEF Serve, Recover, InFlight, SessionInv
    <3>2. CASE Serve(r)
      <4>1. PICK c \in Answers(calls[r]) \cup {Answered(calls[r], "lost", Nobody)} :
              calls' = [calls EXCEPT ![r] = c]
        BY <3>2 DEF Serve
      <4>2. c.phase = "answered"
        BY <3>1, <4>1, AnswerSays
      <4> QED
        BY <1>0, <4>1, <4>2
    <3>3. CASE Recover(r)
      BY <1>0, <3>1, <3>3 DEF Recover, Call
    <3> QED
      BY <1>6, <3>2, <3>3
  <2> QED
    BY <2>1, <2>2, <2>3, NothingEnds DEF InFlight, NoCall
<1>7. ASSUME NEW r \in Slots, Arrive(r) PROVE Silently
  <2>1. /\ calls[r].phase = "answered" /\ ~Recoverable(calls[r]) /\ InFlight(r)
        /\ calls' = HangUp(calls, r)
        /\ calls'[r] = NoCall /\ \A s \in Slots \ {r} : calls'[s] = calls[s]
        /\ calls[r] \in Call /\ CallHolds(calls[r])
    BY <1>0, <1>7, AnswerGone DEF Arrive, HangUp
  <2> SUFFICES ASSUME ~crossed, ~lapsed
               PROVE  /\ user # Nobody /\ user' = Nobody => calls[r].kind = "logout"
                      /\ calls[r].kind = "api" => calls[r].status # "unauthorized"
    BY <2>1 DEF Silently, Signing, InFlight, NoCall
  <2>2. calls[r].kind = "api" => calls[r].status # "unauthorized"
    BY <2>1 DEF CallHolds, Recoverable
  <2>3. CASE calls[r].kind = "login"
    BY <1>7, <2>1, <2>3 DEF Arrive, LoginArrives, setUser, CallHolds
  <2>4. CASE calls[r].kind = "me"
    BY <2>1, <2>4 DEF SessionInv, Uncrossed, RestoredOnce, Loading
  <2>5. CASE calls[r].kind = "api"
    BY <1>7, <2>2, <2>5 DEF Arrive
  <2> QED
    BY <2>1, <2>2, <2>3, <2>4, <2>5 DEF Call, Kinds
<1> QED
  BY <1>1, <1>2, <1>3, <1>4, <1>5, <1>6, <1>7 DEF SessionNext

(***************************************************************************)
(* As long as the refresh token lives and no refresh is lost, the session  *)
(* ends only by a logout or with the page, and no call comes back          *)
(* unauthorized, however many calls fail together, for any number of them. *)
(***************************************************************************)
THEOREM ExpiryStaysSilent == SessionSpec => ExpiryIsSilent
<1>1. SessionInv /\ [SessionNext]_sessionVars => [Silently]_sessionVars
  BY StepIsSilent
<1>2. ExpiryIsSilent <=> [][Silently]_sessionVars
  BY DEF ExpiryIsSilent, Silently
<1> QED
  BY <1>1, <1>2, SessionInvariant, PTL DEF SessionSpec
=============================================================================
