------------------------------- MODULE Consent -------------------------------
(***************************************************************************)
(* What the relationship services promise, without handlers, rows or       *)
(* transactions: who may come to be friends with, write to, and be read    *)
(* by whom.  A stranger opens a conversation with one message; nothing     *)
(* more reaches the other side, and no receipt comes back, until the other *)
(* side accepts or answers, or the two become friends.                     *)
(***************************************************************************)
CONSTANTS Users, MessageIds

VARIABLES asks,        \* <<u, v>>: u's friend request to v is pending
          friends,     \* {u, v}
          befriended,  \* {u, v}: friends now or at some earlier time
          blocked,     \* <<u, v>>: u has blocked v
          opened,      \* <<u, v>>: u's message request to v is undecided
          accepted, declined,   \* <<u, v>>: and how v decided
          written,     \* <<i, u, v>>: message i from u to v
          seen         \* i: message i is marked read

social == <<asks, friends, befriended>>
requests == <<opened, accepted, declined>>
cvars == <<social, blocked, requests, written, seen>>

Both(u, v) == {<<u, v>>, <<v, u>>}

Init ==
  /\ asks = {} /\ friends = {} /\ befriended = {} /\ blocked = {}
  /\ opened = {} /\ accepted = {} /\ declined = {}
  /\ written = {} /\ seen = {}

Ask(u, v) ==
  /\ asks \cap Both(u, v) = {} /\ {u, v} \notin friends
  /\ asks' = asks \cup {<<u, v>>}
  /\ UNCHANGED <<friends, befriended, blocked, requests, written, seen>>

\* v accepts.  An undecided message request goes with it, unless it was
\* opened while v was accepting.
Befriend(u, v) ==
  /\ <<u, v>> \in asks
  /\ asks' = asks \ {<<u, v>>}
  /\ friends' = friends \cup {{u, v}}
  /\ befriended' = befriended \cup {{u, v}}
  /\ opened' \in {opened, opened \ Both(u, v)}
  /\ UNCHANGED <<accepted, declined, blocked, written, seen>>

\* Decline, withdraw or unfriend.
Separate(u, v) ==
  /\ asks' = asks \ Both(u, v)
  /\ friends' = friends \ {{u, v}}
  /\ UNCHANGED befriended

Part(u, v) ==
  /\ Separate(u, v)
  /\ UNCHANGED <<blocked, requests, written, seen>>

\* A friendship that began while the block was being placed may stay.
PlaceBlock(u, v) ==
  /\ blocked' = blocked \cup {<<u, v>>}
  /\ Separate(u, v) \/ UNCHANGED social
  /\ UNCHANGED <<requests, written, seen>>

LiftBlock(u, v) ==
  /\ blocked' = blocked \ {<<u, v>>}
  /\ UNCHANGED <<social, requests, written, seen>>

Opening(u, v, i) ==
  /\ (opened \cup accepted \cup declined) \cap Both(u, v) = {}
  /\ opened' = opened \cup {<<u, v>>}
  /\ written' = written \cup {<<i, u, v>>}
  /\ UNCHANGED <<social, blocked, accepted, declined, seen>>

Decide(u, v) ==
  /\ <<u, v>> \in opened
  /\ opened' = opened \ {<<u, v>>}
  /\ \/ accepted' = accepted \cup {<<u, v>>} /\ UNCHANGED declined
     \/ declined' = declined \cup {<<u, v>>} /\ UNCHANGED accepted
  /\ UNCHANGED <<social, blocked, written, seen>>

\* Their approval, or an approach of theirs that u answers.
MayWrite(u, v) ==
  \/ {u, v} \in befriended
  \/ <<u, v>> \in accepted
  \/ <<v, u>> \in opened \cup accepted \cup declined

Write(u, v, i) ==
  /\ MayWrite(u, v)
  /\ written' = written \cup {<<i, u, v>>}
  /\ UNCHANGED <<social, blocked, requests, seen>>

Read(u, v) ==
  /\ {u, v} \in befriended \/ accepted \cap Both(u, v) # {}
  /\ seen' = seen \cup {i \in {w[1] : w \in written} : <<i, v, u>> \in written}
  /\ UNCHANGED <<social, blocked, requests, written>>

Next ==
  \E u, v \in Users :
    \/ Ask(u, v) \/ Befriend(u, v) \/ Part(u, v)
    \/ PlaceBlock(u, v) \/ LiftBlock(u, v)
    \/ Decide(u, v) \/ Read(u, v)
    \/ \E i \in MessageIds \ {w[1] : w \in written} : Opening(u, v, i) \/ Write(u, v, i)

Spec == Init /\ [][Next]_cvars
=============================================================================
