------------------------------ MODULE MCBestiz ------------------------------
(***************************************************************************)
(* Bestiz on small instances.                                              *)
(***************************************************************************)
EXTENDS BestizInv, TLC

CONSTANTS ann, bob, cat, r1, r2

TwoUsers == {ann, bob}
ThreeUsers == {ann, bob, cat}
TwoSlots == {r1, r2}

\* Users and slots are only ever compared for equality.
Interchangeable == Permutations(Users) \cup Permutations(Slots)

AllOps == Ops
FriendOps == {"sendRequest", "acceptFriend", "deleteFriendship"}
BlockOps == {"blockUser", "unblockUser"}
MessageOps == {"sendMessage", "openConversation", "acceptRequest", "declineRequest"}
ConsentOps == FriendOps \cup MessageOps
LockingOps == {"sendRequest", "acceptFriend", "deleteFriendship", "blockUser"}
RowOps == FriendOps \cup BlockOps \cup {"sendMessage", "acceptRequest", "declineRequest"}
=============================================================================
