----------------------------- MODULE MCFlowFrame -----------------------------
(* Instances of FlowFrame and of the replay window for TLC.                *)
EXTENDS FlowFrame, ReplayWindow, TLC

\* Flow ids are hashes: only their equality matters.
FlowSymmetry == Permutations(Flow)

\* The replay window of session.rs accepts a packet exactly when its counter is
\* ahead of the window or in it and new, over two laps of the sequence number
\* (ReplayExact of ReplayWindow).  A fact about functions: evaluated once, in the
\* initial state.
ReplayWindowExact == Init => ReplayExact
=============================================================================
