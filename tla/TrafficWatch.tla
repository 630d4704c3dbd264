----------------------------- MODULE TrafficWatch -----------------------------
(***************************************************************************)
(* The decisions taken from traffic counters: the stall detector that      *)
(* probes the paths (rebind.rs), the bursts that end idle mode and the     *)
(* silence that begins it (idle.rs).                                       *)
(*                                                                         *)
(* Each decision is a function of a small state and of one observation;    *)
(* the properties compare what a run of observations leads to with a       *)
(* definition over the whole run.  Module Fleet is what the decisions do.  *)
(***************************************************************************)
EXTENDS Integers, Sequences, FiniteSets

CONSTANTS StallPolls,        \* STALL_POLLS
          StallMinUplink,    \* STALL_MIN_UPLINK_DELTA
          ProbeMinGap,       \* PROBE_MIN_GAP, in polls
          ExitSyns, ExitSynsWindow,
          ExitPackets, ExitPacketsWindow,
          QuietPolls,        \* IdleConfig.after, in polls
          PollRuns, PacketRuns, QuietRuns   \* bounds: the runs the check tries

ASSUME TrafficAssumption ==
    /\ {StallPolls, StallMinUplink, ProbeMinGap, ExitSynsWindow, ExitPacketsWindow} \subseteq Nat
    /\ {ExitSyns, ExitPackets, QuietPolls} \subseteq Nat \ {0}
    /\ PollRuns \subseteq Seq([up : Nat, down : Nat, ready : BOOLEAN])
    /\ PacketRuns \subseteq Seq([at : Nat, syn : BOOLEAN]) \ {<<>>}
    /\ \A run \in PacketRuns : \A i, j \in 1 .. Len(run) : i <= j => run[i].at <= run[j].at
    /\ QuietRuns \subseteq Seq([noisy : BOOLEAN, burst : BOOLEAN]) \ {<<>>}

Never == -1

-----------------------------------------------------------------------------
(* StallDetector and stall_monitor.                                        *)

NewDetector == [up |-> 0, down |-> 0, stalled |-> 0, probed |-> Never, probes |-> {}]

observeStuck(d, up, down, now) ==
    LET moved == up - d.up >= StallMinUplink
        stalled == IF down # d.down THEN d.stalled ELSE IF ~moved THEN 0 ELSE d.stalled + 1
        probe == stalled >= StallPolls /\ (d.probed = Never \/ now - d.probed >= ProbeMinGap)
    IN  [up |-> up, down |-> down,
         stalled |-> IF probe THEN 0 ELSE stalled,
         probed |-> IF probe THEN now ELSE d.probed,
         probes |-> IF probe THEN d.probes \cup {now} ELSE d.probes]

\* observe, at poll number now; probes collects the polls it answered TRUE to.
observe(d, up, down, now) ==
    LET moved == up - d.up >= StallMinUplink
        stalled == IF down # d.down \/ ~moved THEN 0 ELSE d.stalled + 1
        probe == stalled >= StallPolls /\ (d.probed = Never \/ now - d.probed >= ProbeMinGap)
    IN  [up |-> up, down |-> down,
         stalled |-> IF probe THEN 0 ELSE stalled,
         probed |-> IF probe THEN now ELSE d.probed,
         probes |-> IF probe THEN d.probes \cup {now} ELSE d.probes]

\* The byte counters after each poll of a run, before the first one at 0.
Counters(run) ==
    LET count[i \in 0 .. Len(run)] ==
            IF i = 0 THEN [up |-> 0, down |-> 0]
            ELSE [up |-> count[i - 1].up + run[i].up, down |-> count[i - 1].down + run[i].down]
    IN  count

\* The detector after each round of the loop: without a READY path there is
\* nothing to probe.
stall_monitor(run) ==
    LET d[i \in 0 .. Len(run)] ==
            IF i = 0 THEN NewDetector
            ELSE IF run[i].ready THEN observe(d[i - 1], Counters(run)[i].up, Counters(run)[i].down, i)
            ELSE d[i - 1]
    IN  d

\* Probes go out exactly at the polls that end a stall: the last StallPolls
\* observations each saw enough uplink and no downlink since the one before,
\* all of them after the last probe, and that is ProbeMinGap old.  Polls
\* without a READY path neither break nor extend a stall, but their bytes
\* count at the next observation.
ProbesWhenStalled(run) ==
    LET probes == stall_monitor(run)[Len(run)].probes
        count == Counters(run)
        seen == {i \in 1 .. Len(run) : run[i].ready}
        Before(i) == {j \in seen : j < i}
        Since(i) == IF Before(i) = {} THEN 0 ELSE CHOOSE j \in Before(i) : Before(i) \subseteq 1 .. j
        Stalled(i) == /\ count[i].up - count[Since(i)].up >= StallMinUplink
                      /\ count[i].down = count[Since(i)].down
        Streak(i, last) ==
            {j \in seen : last < j /\ j <= i /\ \A k \in seen : j <= k /\ k <= i => Stalled(k)}
    IN  \A i \in seen :
            i \in probes <=>
                \A last \in {j \in probes \cup {0} : j < i /\ \A k \in probes : k < i => k <= j} :
                    /\ Cardinality(Streak(i, last)) >= StallPolls
                    /\ last = 0 \/ i - last >= ProbeMinGap

\* So it is in every run of polls.
ProbesOnStall == \A run \in PollRuns : ProbesWhenStalled(run)

\* What the comment on StallDetector and its test
\* downlink_or_silence_resets_the_streak expect: any uplink at all counts, so
\* StallPolls polls in a row with some of it and no downlink end in a probe.
\* observe asks for StallMinUplink at each poll.
TrickleProbed(run) ==
    LET probes == stall_monitor(run)[Len(run)].probes
    IN  \A i \in StallPolls .. Len(run) :
            (\A j \in i - StallPolls + 1 .. i : run[j].ready /\ run[j].up > 0 /\ run[j].down = 0)
            => \E p \in probes : p <= i

-----------------------------------------------------------------------------
(* window_hit and note_uplink.                                             *)

window_hitGrowing(w, now, size, limit) ==
    LET n == [start |-> IF now - w.start > size THEN now ELSE w.start, count |-> w.count + 1]
    IN  [window |-> n, hit |-> n.count >= limit]

window_hit(w, now, size, limit) ==
    LET n == IF now - w.start > size THEN [start |-> now, count |-> 1]
                                     ELSE [w EXCEPT !.count = @ + 1]
    IN  [window |-> n, hit |-> n.count >= limit]

\* enter clears the counts and leaves the starts of the windows alone.
Entered(start) ==
    [active |-> TRUE, syns |-> [start |-> start, count |-> 0],
     packets |-> [start |-> start, count |-> 0], left |-> 0]

\* note_uplink for packet number i; left is the packet that ended idle mode.
note_uplink(s, packet, i) ==
    LET syns == IF packet.syn THEN window_hit(s.syns, packet.at, ExitSynsWindow, ExitSyns)
                              ELSE [window |-> s.syns, hit |-> FALSE]
        packets == window_hit(s.packets, packet.at, ExitPacketsWindow, ExitPackets)
    IN  IF ~s.active THEN s
        ELSE IF syns.hit THEN [s EXCEPT !.active = FALSE, !.syns = syns.window, !.left = i]
        ELSE [active |-> ~packets.hit, syns |-> syns.window, packets |-> packets.window,
              left |-> IF packets.hit THEN i ELSE 0]

\* The state after each packet of a run, before the first one at 0.
Uplink(start, run) ==
    LET s[i \in 0 .. Len(run)] ==
            IF i = 0 THEN Entered(start) ELSE note_uplink(s[i - 1], run[i], i)
    IN  s

\* Idle mode ends only at a packet that completes a burst, ExitPackets packets
\* or ExitSyns new connections within their window; and since a window is only
\* restarted once it is over, twice a burst less one within a window always
\* ends it, wherever the window happened to start.
LeavesAtBurst(start, run) ==
    LET left == Uplink(start, run)[Len(run)].left
        Within(i, size) == {j \in 1 .. i : run[i].at - run[j].at <= size}
        Syns(i) == {j \in Within(i, ExitSynsWindow) : run[j].syn}
    IN  /\ left # 0 =>
              \/ Cardinality(Within(left, ExitPacketsWindow)) >= ExitPackets
              \/ run[left].syn /\ Cardinality(Syns(left)) >= ExitSyns
        /\ \A i \in 1 .. Len(run) :
              \/ Cardinality(Within(i, ExitPacketsWindow)) >= 2 * ExitPackets - 1
              \/ run[i].syn /\ Cardinality(Syns(i)) >= 2 * ExitSyns - 1
              => left \in 1 .. i

\* So it is in every run of packets, whenever idle mode was entered before it.
BurstLeavesIdle ==
    \A run \in PacketRuns : \A start \in 0 .. run[1].at : LeavesAtBurst(start, run)

-----------------------------------------------------------------------------
(* monitor and should_enter.                                               *)

\* One poll; burst says that note_uplink has ended idle mode since the last one.
monitor(m, poll, now) ==
    LET active == m.active /\ ~poll.burst
        quiet == IF poll.noisy THEN now ELSE m.quiet
        enters == ~poll.noisy /\ ~active /\ now - quiet >= QuietPolls
    IN  [active |-> active \/ enters, quiet |-> quiet,
         entered |-> IF enters THEN m.entered \cup {now} ELSE m.entered]

\* The state after each poll of a run, before the first one at 0.
Monitored(run) ==
    LET m[i \in 0 .. Len(run)] ==
            IF i = 0 THEN [active |-> FALSE, quiet |-> 0, entered |-> {}]
            ELSE monitor(m[i - 1], run[i], i)
    IN  m

\* While the polls stay below ACTIVE_BYTES_PER_POLL for QuietPolls, idle mode
\* is in force after every poll: a burst of small packets that ends it is
\* undone by the next poll.  Idle mode is never entered sooner.
IdleWhenSilent(run) ==
    LET m == Monitored(run)
        Silent(i) == i >= QuietPolls /\ \A j \in i - QuietPolls + 1 .. i : ~run[j].noisy
    IN  /\ \A i \in m[Len(run)].entered : Silent(i)
        /\ \A i \in 1 .. Len(run) : Silent(i) => m[i].active

\* So it is in every run of polls.
SilenceIsIdle == \A run \in QuietRuns : IdleWhenSilent(run)

\* Idle mode is entered after silence and left at a burst, no sooner and, within
\* the slack of the two definitions, no later.
IdleFollowsTraffic == BurstLeavesIdle /\ SilenceIsIdle
=============================================================================
