----------------------------- MODULE MCWebhooks -----------------------------
(***************************************************************************)
(* Small instances of Webhooks for TLC.                                    *)
(***************************************************************************)
EXTENDS Webhooks, TLC

Symmetry == Permutations(Requests) \cup Permutations(Executors)
=============================================================================
