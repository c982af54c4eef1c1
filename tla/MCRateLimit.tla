------------------------------ MODULE MCRateLimit ------------------------------
(***************************************************************************)
(* Two keys with limits of one and two.                                    *)
(***************************************************************************)
EXTENDS RateLimit

CONSTANTS Login, Intake

TwoLimits == [k \in {Login, Intake} |-> IF k = Login THEN 1 ELSE 2]
================================================================================
