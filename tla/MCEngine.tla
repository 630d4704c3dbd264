------------------------------- MODULE MCEngine -------------------------------
(* Small instances of the engine's life for TLC.                           *)
EXTENDS Engine
=============================================================================
