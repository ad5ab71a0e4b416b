------------------------------ MODULE MCSession ------------------------------
(***************************************************************************)
(* Session on a small instance.                                            *)
(***************************************************************************)
EXTENDS Session

CONSTANTS ann, bob, r1, r2

TwoUsers == {ann, bob}
TwoSlots == {r1, r2}
=============================================================================
