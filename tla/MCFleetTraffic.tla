---------------------------- MODULE MCFleetTraffic ----------------------------
(* The fleet of MCFleet with the decisions that act on it, for TLC.        *)
EXTENDS MCFleet, TrafficWatch, StreamRepair

\* A stalled, an answered and a nearly silent poll, with and without a path.
MCPollRuns ==
    LET Polls == {[up |-> 2, down |-> 0, ready |-> TRUE], [up |-> 2, down |-> 1, ready |-> TRUE],
                  [up |-> 1, down |-> 0, ready |-> TRUE], [up |-> 1, down |-> 0, ready |-> FALSE]}
    IN  [1 .. 7 -> Polls]

MCPacketRuns ==
    {run \in [1 .. 5 -> [at : 0 .. 4, syn : BOOLEAN]] :
        \A i \in 1 .. 4 : run[i].at <= run[i + 1].at}

MCQuietRuns == UNION {[1 .. k -> [noisy : BOOLEAN, burst : BOOLEAN]] : k \in 1 .. 6}

(* Facts about the functions of rebind.rs, idle.rs and repair.rs, compared  *)
(* with definitions over whole runs of observations.  They do not depend on *)
(* the behaviour: each is evaluated once, in the initial state.             *)

\* A stall is probed when it has lasted StallPolls, and neither sooner nor again
\* within the gap (ProbesOnStall of TrafficWatch).
StallIsProbed == Init => ProbesOnStall

\* A test of rebind.rs has a stall of a hundred bytes per poll probed, far below
\* STALL_MIN_UPLINK_DELTA (TrickleProbed of TrafficWatch); the code does not.
TrickleIsProbed == Init => \A run \in PollRuns : TrickleProbed(run)

\* Idle mode is entered after silence and left at a burst (IdleFollowsTraffic of
\* TrafficWatch).
IdleTracksTraffic == Init => IdleFollowsTraffic

\* A repair request restarts its worker once, however often and late its copies
\* arrive (RepairOncePerRequest of StreamRepair).
RepairsCounted == Init => RepairOncePerRequest
=============================================================================
