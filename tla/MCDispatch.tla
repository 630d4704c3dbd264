------------------------------ MODULE MCDispatch ------------------------------
(* Small instances of the dispatcher for TLC.                              *)
EXTENDS Dispatch

MCPathOf == [id \in Id |-> IF id = 3 THEN 2 ELSE 1]
MCChunk == [c \in Class |-> IF c = "bulk" THEN 2 ELSE 1]
MCCap == [c \in Class |-> IF c = "bulk" THEN 2 ELSE 1]
MCBatch == [c \in Class |-> IF c = "small" THEN 1 ELSE 2]
=============================================================================
