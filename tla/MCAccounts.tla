----------------------------- MODULE MCAccounts -----------------------------
(***************************************************************************)
(* Accounts on a small instance.                                           *)
(***************************************************************************)
EXTENDS Accounts, TLC

CONSTANTS ann, bob, d1, d2, r1, r2

TwoWords == {ann, bob}
TwoDisplays == {d1, d2}
\* A display name plays no part in whose email or login it is.
OneDisplay == {d1}
TwoSlots == {r1, r2}

\* Words, display names and slots are only ever compared for equality.
Interchangeable ==
  Permutations(Words) \cup Permutations(Displays) \cup Permutations(Slots)
=============================================================================
