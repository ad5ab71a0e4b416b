----------------------------- MODULE MCMessenger -----------------------------
(***************************************************************************)
(* Messenger on a small instance.                                          *)
(***************************************************************************)
EXTENDS Messenger

CONSTANTS me, ann, bob, r1, r2

TwoUsers == {me, ann}
ThreeUsers == {me, ann, bob}
TwoSlots == {r1, r2}

\* Slots are only ever compared for equality.
Interchangeable == Permutations(Slots)
=============================================================================
