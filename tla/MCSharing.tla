------------------------------ MODULE MCSharing ------------------------------
(***************************************************************************)
(* Sharing on a small instance.                                            *)
(***************************************************************************)
EXTENDS Sharing, TLC

CONSTANTS ann, bob, cat, r1, r2

TwoUsers == {ann, bob}
ThreeUsers == {ann, bob, cat}
OneRequest == {r1}
TwoRequests == {r1, r2}

\* Users and requests are only ever compared for equality.
Interchangeable == Permutations(Users) \cup Permutations(Requests)
=============================================================================
