----------------------------- MODULE MCCredentials -----------------------------
(* Small instances of the credential cache for TLC.                        *)
EXTENDS Credentials

MCCohortOf == [w \in Worker |-> IF w = 3 THEN 2 ELSE 1]
MCHashOf == [c \in Cohort |-> 1]
=============================================================================
