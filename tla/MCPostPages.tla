----------------------------- MODULE MCPostPages -----------------------------
(***************************************************************************)
(* PostPages on a small instance: one viewer, one other author.            *)
(***************************************************************************)
EXTENDS PostPages

CONSTANTS me, ann, r1, r2

TwoUsers == {me, ann}
TwoRequests == {r1, r2}
Interchangeable == Permutations(TwoRequests)
\* Two posts of the other author, the older for friends.
TwoPosts == {[id |-> 1, author |-> ann, visibility |-> "friends"],
             [id |-> 2, author |-> ann, visibility |-> "public"]}
FeedAndProfile == {"all", "mine", ann}
=============================================================================
