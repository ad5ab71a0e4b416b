------------------------------ MODULE MCMigrate ------------------------------
(***************************************************************************)
(* Migrate on a small instance.                                            *)
(***************************************************************************)
EXTENDS Migrate

CONSTANTS s1, s2

TwoRunners == {s1, s2}
=============================================================================
