---------------------------- MODULE MCTurnClient ----------------------------
(***************************************************************************)
(* TLC instances of TurnClient, with the stream reader it is fed by.       *)
(***************************************************************************)
EXTENDS TurnClient, TurnStream

\* Control frames without and with attributes, ChannelData with and without
\* padding, down to the empty one.
MCFrames ==
    [kind : {"control"}, declared : {0, 4}] \cup [kind : {"data"}, declared : {0, 1, 3, 4, 6}]

\* However the connection splits the stream, read_frame returns each frame once
\* and in order (FramesSurviveSplits of TurnStream).  A fact about functions:
\* evaluated in the initial states.
FramesIntact == Init => FramesSurviveSplits
=============================================================================
