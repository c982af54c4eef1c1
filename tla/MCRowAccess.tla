------------------------------ MODULE MCRowAccess ------------------------------
(***************************************************************************)
(* Two containers with an owner each.                                      *)
(***************************************************************************)
EXTENDS RowAccess

TwoOwners == [c \in {"annsOne", "bobsOne"} |-> IF c = "annsOne" THEN "ann" ELSE "bob"]
================================================================================
