----------------------------- MODULE MCAuthSession -----------------------------
(***************************************************************************)
(* The requests of AuthSession are alike.                                  *)
(***************************************************************************)
EXTENDS AuthSession, TLC

Symmetry == Permutations(Requests)
================================================================================
