--------------------------- MODULE DataPathGuard ---------------------------
(***************************************************************************)
(* dataPathGuard of the Go helper (csqtt_datapath.go): it holds the engine *)
(* while the host is offline, rebinds or restarts it when the data path is *)
(* dead, and gives up by exiting.                                          *)
(*                                                                         *)
(* Every section under g.mu is one step; calls into the engine (pause,     *)
(* rebind, stop, start, wait) are made outside the lock and are steps of   *)
(* their own.  A task is a goroutine: the host event reader, the two       *)
(* monitors, or one of the goroutines they start.                          *)
(*                                                                         *)
(* Durations are windows that end at any moment: the gap since the last    *)
(* rebind, the grace after a wake, the age of the last recycle.  A         *)
(* generation counter is only ever compared with its current value, so a   *)
(* task keeps whether the generation it captured is still the current one. *)
(***************************************************************************)
EXTENDS Naturals, FiniteSets

CONSTANTS Host, Netwatch, Waker, \* the host event reader and the two monitors
          Thread,        \* those of the three that are at work in this instance
          Pool,          \* goroutines that may be running at a time
          FailThreshold, \* dataPathDialFailThreshold
          MaxRecycles,   \* dataPathMaxRecycles
          CanRebind      \* whether the engine library exports rebind

ASSUME GuardAssumption ==
    /\ Host # Netwatch /\ Host # Waker /\ Netwatch # Waker
    /\ Host \in Thread /\ Thread \subseteq {Host, Netwatch, Waker}
    /\ Pool \cap Thread = {}
    /\ FailThreshold \in Nat \ {0} /\ MaxRecycles \in Nat
    /\ CanRebind \in BOOLEAN

VARIABLES
    paused, pendingRecycle, pendingReason,          \* the offline hold and the deferred heal
    recycling, recycles, recycleAge, exiting,       \* engine restarts
    rebindRecent, rebindInFlight, pendingHandover,  \* soft handovers
    dialFails, grace,                               \* evidence of a dead path
    gate,        \* the engine's PauseGate: none, open or held
    booting,     \* a started engine has not registered its gate yet
    hasPath,     \* the engine reports a READY path
    task         \* per task: its step and its local variables

offline == <<paused, pendingRecycle, pendingReason>>
cycle == <<recycling, recycles, recycleAge, exiting>>
rebinds == <<rebindRecent, rebindInFlight, pendingHandover>>
dials == <<dialFails, grace>>
engine == <<gate, booting, hasPath>>
vars == <<offline, cycle, rebinds, dials, engine, task>>

Task == Thread \cup Pool
Reason == {"plain", "escalated"}   \* escalated: "-rebind-timeout", "-rebind-gap"
Source == {"netback", "probe", "handover"}

RecycleSteps == {"stop", "start", "wait", "finish", "fail"}
RebindHolders == {"rebind", "settle", "watch", "unflag", "giveUp"}  \* hold a rebindGen
PauseHolders == {"hold", "pausedWatch", "wakeProbe", "probed"}      \* hold a pauseGen
Steps == RecycleSteps \cup RebindHolders \cup PauseHolders
    \cup {"idle", "resume", "release", "handover", "heal", "healGap", "request", "softArm", "soft"}

Local == [step : Steps, reason : Reason, source : Source, need : BOOLEAN, current : BOOLEAN]

At(step) == [step |-> step, reason |-> "plain", source |-> "netback", need |-> FALSE, current |-> FALSE]
Idle == At("idle")
Heal(reason) == [At("heal") EXCEPT !.reason = reason]
Request(reason) == [At("request") EXCEPT !.reason = reason]
OnHandover == [At("resume") EXCEPT !.source = "handover"]
Holding(step) == [At(step) EXCEPT !.current = TRUE]

\* A generation counter is incremented: what the tasks at these steps hold is old.
Bump(tasks, steps) ==
    [q \in Task |-> IF tasks[q].step \in steps THEN [tasks[q] EXCEPT !.current = FALSE] ELSE tasks[q]]

Become(p, local) == task' = [task EXCEPT ![p] = local]

End(p) == Become(p, Idle)

\* A go statement that is the last thing p does: a goroutine of the pool
\* simply goes on as the new one, a thread needs a free one.
Go(p, local) ==
    \/ p \in Pool /\ Become(p, local)
    \/ /\ p \in Thread
       /\ \E q \in Pool : task[q] = Idle /\ task' = [task EXCEPT ![p] = Idle, ![q] = local]

\* The helper starts the guard when the engine is up and has a path.
Init ==
    /\ paused = FALSE /\ pendingRecycle = FALSE /\ pendingReason = "plain"
    /\ recycling = FALSE /\ recycles = 0 /\ recycleAge = "stable" /\ exiting = FALSE
    /\ rebindRecent = FALSE /\ rebindInFlight = FALSE /\ pendingHandover = FALSE
    /\ dialFails = 0 /\ grace = FALSE
    /\ gate = "open" /\ booting = FALSE /\ hasPath = TRUE
    /\ task = [p \in Task |-> Idle]

-----------------------------------------------------------------------------
(* Time and the engine.                                                    *)

GraceEnds == grace /\ grace' = FALSE /\ UNCHANGED <<offline, cycle, rebinds, dialFails, engine, task>>

RebindGapEnds ==
    /\ rebindRecent /\ rebindRecent' = FALSE
    /\ UNCHANGED <<offline, cycle, rebindInFlight, pendingHandover, dials, engine, task>>

\* dataPathRecycleMinGap, then dataPathRecycleStable, since the last recycle.
RecycleAges ==
    /\ recycleAge # "stable"
    /\ recycleAge' = IF recycleAge = "gap" THEN "young" ELSE "stable"
    /\ UNCHANGED <<offline, recycling, recycles, exiting, rebinds, dials, engine, task>>

\* A new engine registers its gate, not paused.
EngineUp ==
    /\ booting
    /\ booting' = FALSE /\ gate' = "open"
    /\ UNCHANGED <<offline, cycle, rebinds, dials, hasPath, task>>

PathUp ==
    /\ gate = "open" /\ ~hasPath
    /\ hasPath' = TRUE
    /\ UNCHANGED <<offline, cycle, rebinds, dials, gate, booting, task>>

PathDown ==
    /\ hasPath
    /\ hasPath' = FALSE
    /\ UNCHANGED <<offline, cycle, rebinds, dials, gate, booting, task>>

-----------------------------------------------------------------------------
(* SOCKS connections.                                                      *)

\* noteDialResult(nil)
DialSucceeds ==
    /\ hasPath
    /\ dialFails' = 0
    /\ pendingRecycle' = FALSE /\ pendingReason' = "plain"
    /\ recycles' = IF recycleAge = "stable" THEN 0 ELSE recycles
    /\ UNCHANGED <<paused, recycling, recycleAge, exiting, rebinds, grace, engine, task>>

\* noteDialResult of a dial timeout, and the heal it starts at the threshold.
DialTimesOut ==
    \/ /\ paused \/ exiting
       /\ pendingRecycle' = TRUE
       /\ pendingReason' = IF pendingRecycle THEN pendingReason ELSE "plain"
       /\ dialFails' = 0
       /\ UNCHANGED <<paused, cycle, rebinds, grace, engine, task>>
    \/ /\ ~paused /\ ~exiting /\ ~grace
       /\ dialFails < FailThreshold - 1
       /\ dialFails' = dialFails + 1
       /\ UNCHANGED <<offline, cycle, rebinds, grace, engine, task>>
    \/ /\ ~paused /\ ~exiting /\ ~grace
       /\ dialFails >= FailThreshold - 1
       /\ dialFails' = FailThreshold
       /\ \E q \in Pool : task[q] = Idle /\ Become(q, Heal("plain"))
       /\ UNCHANGED <<offline, cycle, rebinds, grace, engine>>

\* waitForPath runs into its cap with no READY path.
ZeroPaths ==
    /\ ~paused /\ ~exiting /\ ~hasPath
    /\ \E q \in Pool : task[q] = Idle /\ Become(q, Heal("plain"))
    /\ UNCHANGED <<offline, cycle, rebinds, dials, engine>>

-----------------------------------------------------------------------------
(* Host events and the monitors.                                           *)

NetlostUnnumbered ==
    /\ task[Host] = Idle
    /\ paused' = TRUE /\ dialFails' = 0
    /\ task' = [Bump(task, PauseHolders) EXCEPT ![Host] = At("hold")]
    /\ UNCHANGED <<pendingRecycle, pendingReason, cycle, rebinds, grace, engine>>

Netlost ==
    /\ task[Host] = Idle
    /\ paused' = TRUE /\ dialFails' = 0
    /\ task' = [Bump(task, PauseHolders) EXCEPT ![Host] = Holding("hold")]
    /\ UNCHANGED <<pendingRecycle, pendingReason, cycle, rebinds, grace, engine>>

\* applyEnginePause(true), a no-op without an engine, and go pausedWatchdog.
NetlostHold ==
    /\ task[Host].step = "hold"
    /\ gate' = IF gate = "none" THEN "none" ELSE "held"
    /\ Go(Host, [task[Host] EXCEPT !.step = "pausedWatch"])
    /\ UNCHANGED <<offline, cycle, rebinds, dials, booting, hasPath>>

Netback ==
    /\ task[Host] = Idle
    /\ Become(Host, At("resume"))
    /\ UNCHANGED <<offline, cycle, rebinds, dials, engine>>

\* "handover" and "stall" from the host, "netchange" from the own detector.
NetworkChanged ==
    /\ \E p \in Thread \ {Waker} : task[p] = Idle /\ Become(p, OnHandover)
    /\ UNCHANGED <<offline, cycle, rebinds, dials, engine>>

OnWake ==
    /\ Waker \in Thread /\ task[Waker] = Idle /\ ~exiting
    /\ grace' = TRUE /\ dialFails' = 0
    /\ IF paused THEN Become(Waker, Holding("wakeProbe")) ELSE Go(Waker, At("softArm"))
    /\ UNCHANGED <<offline, cycle, rebinds, engine>>

ProbeFails(p) ==
    /\ task[p].step = "wakeProbe"
    /\ End(p)
    /\ UNCHANGED <<offline, cycle, rebinds, dials, engine>>

PausedWatchEnds(p) ==
    /\ task[p].step = "pausedWatch"
    /\ ~paused \/ ~task[p].current \/ exiting
    /\ End(p)
    /\ UNCHANGED <<offline, cycle, rebinds, dials, engine>>

\* The check of the watchdog and the probe that follows it.
ProbeSucceeds(p) ==
    /\ \/ task[p].step = "wakeProbe"
       \/ task[p].step = "pausedWatch" /\ paused /\ task[p].current /\ ~exiting
    /\ Become(p, [task[p] EXCEPT !.step = "probed"])
    /\ UNCHANGED <<offline, cycle, rebinds, dials, engine>>

\* probeSucceeded, up to its call of resumeFromPause.
Probed(p) ==
    /\ task[p].step = "probed"
    /\ IF paused /\ task[p].current
       THEN Become(p, [At("resume") EXCEPT !.source = "probe", !.need = pendingRecycle,
                                           !.reason = pendingReason])
       ELSE End(p)
    /\ UNCHANGED <<offline, cycle, rebinds, dials, engine>>

-----------------------------------------------------------------------------
(* resumeFromPause and what its caller does next.                          *)

\* go heal, or afterSoftResume.
HealOrWatch(p, need, reason) == Go(p, IF need THEN Heal(reason) ELSE At("softArm"))

Resume(p) ==
    /\ task[p].step = "resume"
    /\ \/ /\ ~paused
          /\ \/ task[p].source = "netback" /\ End(p)
             \/ task[p].source = "handover" /\ Become(p, At("handover"))
             \/ task[p].source = "probe" /\ HealOrWatch(p, task[p].need, task[p].reason)
          /\ UNCHANGED <<offline, dials>>
       \/ /\ paused
          /\ paused' = FALSE /\ dialFails' = 0 /\ grace' = TRUE
          /\ pendingRecycle' = FALSE /\ pendingReason' = "plain"
          /\ task' = [Bump(task, PauseHolders) EXCEPT
                        ![p] = IF task[p].source = "netback"
                               THEN [At("release") EXCEPT !.need = pendingRecycle, !.reason = pendingReason]
                               ELSE [task[p] EXCEPT !.step = "release"]]
    /\ UNCHANGED <<cycle, rebinds, engine>>

\* applyEnginePause(false).
Release(p) ==
    /\ task[p].step = "release"
    /\ gate' = IF gate = "none" THEN "none" ELSE "open"
    /\ IF task[p].source = "handover"
       THEN Become(p, At("handover"))
       ELSE HealOrWatch(p, task[p].need, task[p].reason)
    /\ UNCHANGED <<offline, cycle, rebinds, dials, booting, hasPath>>

-----------------------------------------------------------------------------
(* heal, onHandover and the watchdogs.                                     *)

HealStart(p) ==
    /\ task[p].step = "heal"
    /\ Become(p, IF task[p].reason = "escalated" THEN Request("escalated")
                 ELSE IF exiting THEN Idle
                 ELSE IF paused THEN Request("plain")
                 ELSE IF rebindRecent THEN [At("healGap") EXCEPT !.need = rebindInFlight]
                 ELSE OnHandover)
    /\ UNCHANGED <<offline, cycle, rebinds, dials, engine>>

\* Inside the gap: leave it to the watchdog in flight, or recycle.
HealGap(p) ==
    /\ task[p].step = "healGap"
    /\ IF task[p].need /\ ~hasPath THEN End(p) ELSE Become(p, Request("escalated"))
    /\ UNCHANGED <<offline, cycle, rebinds, dials, engine>>

Handover(p) ==
    /\ task[p].step = "handover"
    /\ IF exiting \/ recycling \/ rebindRecent
       THEN /\ pendingHandover' = (pendingHandover \/ (recycling /\ ~exiting))
            /\ End(p)
            /\ UNCHANGED <<rebindRecent, rebindInFlight, dials>>
       ELSE /\ rebindRecent' = TRUE /\ rebindInFlight' = TRUE
            /\ dialFails' = 0 /\ grace' = TRUE
            /\ task' = [Bump(task, RebindHolders) EXCEPT ![p] = Holding("rebind")]
            /\ UNCHANGED pendingHandover
    /\ UNCHANGED <<offline, cycle, engine>>

\* engineRebind, then go rebindWatchdog.
Rebind(p) ==
    /\ task[p].step = "rebind"
    /\ IF CanRebind
       THEN Go(p, [task[p] EXCEPT !.step = "settle"])
       ELSE Become(p, [task[p] EXCEPT !.step = "giveUp"])
    /\ UNCHANGED <<offline, cycle, rebinds, dials, engine>>

WatchPollEnds(p) ==
    /\ task[p].step \in {"settle", "watch"}
    /\ IF ~task[p].current \/ exiting \/ paused \/ recycling \/ hasPath
       THEN End(p) ELSE Become(p, [task[p] EXCEPT !.step = "watch"])
    /\ UNCHANGED <<offline, cycle, rebinds, dials, engine>>

\* One poll of rebindWatchdog, the first one after dataPathRebindSettle.
WatchPoll(p) ==
    /\ task[p].step \in {"settle", "watch"}
    /\ Become(p, [task[p] EXCEPT !.step =
                     IF ~task[p].current \/ exiting \/ paused \/ recycling \/ hasPath
                     THEN "unflag" ELSE "watch"])
    /\ UNCHANGED <<offline, cycle, rebinds, dials, engine>>

\* dataPathRebindWait is over and the last poll saw no path; by then the
\* much shorter gap after this rebind is over too.
WatchTimeout(p) ==
    /\ task[p].step = "watch"
    /\ task[p].current => ~rebindRecent
    /\ Become(p, IF ~task[p].current \/ exiting \/ paused
                 THEN [task[p] EXCEPT !.step = "unflag"]
                 ELSE [task[p] EXCEPT !.step = "giveUp", !.reason = "escalated"])
    /\ UNCHANGED <<offline, cycle, rebinds, dials, engine>>

\* finishRebind, and the recycle that follows a rebind that failed.
FinishRebind(p) ==
    /\ task[p].step \in {"unflag", "giveUp"}
    /\ rebindInFlight' = (rebindInFlight /\ ~task[p].current)
    /\ IF task[p].step = "unflag"
       THEN End(p)
       ELSE IF task[p].reason = "plain" THEN Go(p, Request("plain")) ELSE Become(p, Request("escalated"))
    /\ UNCHANGED <<offline, cycle, rebindRecent, pendingHandover, dials, engine>>

\* watchSoftResume takes a new softResumeGen, sleeps and looks once.
SoftArm(p) ==
    /\ task[p].step = "softArm"
    /\ task' = [Bump(task, {"soft"}) EXCEPT ![p] = Holding("soft")]
    /\ UNCHANGED <<offline, cycle, rebinds, dials, engine>>

SoftCheck(p) ==
    /\ task[p].step = "soft"
    /\ IF exiting \/ paused \/ recycling \/ ~task[p].current \/ hasPath
       THEN End(p) ELSE Become(p, Request("plain"))
    /\ UNCHANGED <<offline, cycle, rebinds, dials, engine>>

-----------------------------------------------------------------------------
(* requestRecycle.                                                         *)

RequestDropped(p) ==
    /\ task[p].step = "request"
    /\ ~paused /\ ~exiting
    /\ recycling \/ recycleAge = "gap"
    /\ End(p)
    /\ UNCHANGED <<offline, cycle, rebinds, dials, engine>>

RequestWhileExiting(p) ==
    /\ task[p].step = "request" /\ exiting
    /\ End(p)
    /\ UNCHANGED <<offline, cycle, rebinds, dials, engine>>

RequestDeferred(p) ==
    /\ task[p].step = "request" /\ ~exiting /\ paused
    /\ pendingRecycle' = TRUE /\ pendingReason' = task[p].reason
    /\ End(p)
    /\ UNCHANGED <<paused, cycle, rebinds, dials, engine>>

RequestExhausted(p) ==
    /\ task[p].step = "request"
    /\ ~paused /\ ~exiting /\ ~recycling /\ recycleAge # "gap"
    /\ recycles >= MaxRecycles
    /\ exiting' = TRUE
    /\ End(p)
    /\ UNCHANGED <<offline, recycling, recycles, recycleAge, rebinds, dials, engine>>

RequestAcceptedTwice(p) ==
    /\ task[p].step = "request"
    /\ ~paused /\ ~exiting /\ recycleAge # "gap"
    /\ recycles < MaxRecycles
    /\ recycling' = TRUE /\ recycleAge' = "gap" /\ recycles' = recycles + 1
    /\ Become(p, [task[p] EXCEPT !.step = "stop"])
    /\ UNCHANGED <<offline, exiting, rebinds, dials, engine>>

RequestAccepted(p) ==
    /\ task[p].step = "request"
    /\ ~paused /\ ~exiting /\ ~recycling /\ recycleAge # "gap"
    /\ recycles < MaxRecycles
    /\ recycling' = TRUE /\ recycleAge' = "gap" /\ recycles' = recycles + 1
    /\ Become(p, [task[p] EXCEPT !.step = "stop"])
    /\ UNCHANGED <<offline, exiting, rebinds, dials, engine>>

\* engineStop drops the gate and every path.
RecycleStop(p) ==
    /\ task[p].step = "stop"
    /\ gate' = "none" /\ booting' = FALSE /\ hasPath' = FALSE
    /\ Become(p, [task[p] EXCEPT !.step = "start"])
    /\ UNCHANGED <<offline, cycle, rebinds, dials>>

RecycleStart(p) ==
    /\ task[p].step = "start"
    /\ booting' = TRUE
    /\ Become(p, [task[p] EXCEPT !.step = "wait"])
    /\ UNCHANGED <<offline, cycle, rebinds, dials, gate, hasPath>>

\* engineWaitReady: the gate is registered long before the TUN address is known.
RecycleReady(p) ==
    /\ task[p].step = "wait" /\ gate # "none"
    /\ Become(p, [task[p] EXCEPT !.step = "finish"])
    /\ UNCHANGED <<offline, cycle, rebinds, dials, engine>>

\* engineStart, engineWaitReady, the new netstack or the packet port fails.
\* engineWaitReady gives up after readyWaitBudget, longer than the recycle gap.
RecycleFails(p) ==
    /\ task[p].step \in {"start", "wait", "finish"}
    /\ task[p].step = "wait" => recycleAge # "gap"
    /\ Become(p, [task[p] EXCEPT !.step = "fail"])
    /\ UNCHANGED <<offline, cycle, rebinds, dials, engine>>

RecycleFinishForgets(p) ==
    /\ task[p].step = "finish"
    /\ recycling' = FALSE /\ dialFails' = 0
    /\ End(p)
    /\ UNCHANGED <<offline, recycles, recycleAge, exiting, rebinds, grace, engine>>

RecycleFinishKeepsFlag(p) ==
    /\ task[p].step = "finish"
    /\ dialFails' = 0 /\ pendingHandover' = FALSE
    /\ rebindRecent' = (rebindRecent /\ ~pendingHandover)
    /\ Become(p, IF pendingHandover THEN OnHandover ELSE Idle)
    /\ UNCHANGED <<offline, cycle, rebindInFlight, grace, engine>>

\* The last section of requestRecycle, and the handover it remembered.
RecycleFinish(p) ==
    /\ task[p].step = "finish"
    /\ recycling' = FALSE /\ dialFails' = 0 /\ pendingHandover' = FALSE
    /\ rebindRecent' = (rebindRecent /\ ~pendingHandover)
    /\ Become(p, IF pendingHandover THEN OnHandover ELSE Idle)
    /\ UNCHANGED <<offline, recycles, recycleAge, exiting, rebindInFlight, grace, engine>>

FailRecycleFatal(p) ==
    /\ task[p].step = "fail"
    /\ recycling' = FALSE
    /\ exiting' = TRUE
    /\ End(p)
    /\ UNCHANGED <<offline, recycles, recycleAge, rebinds, dials, engine>>

FailRecycle(p) ==
    /\ task[p].step = "fail"
    /\ recycling' = FALSE
    /\ exiting' = (exiting \/ ~paused)
    /\ pendingRecycle' = (pendingRecycle \/ paused)
    /\ pendingReason' = IF paused THEN task[p].reason ELSE pendingReason
    /\ End(p)
    /\ UNCHANGED <<paused, recycles, recycleAge, rebinds, dials, engine>>

-----------------------------------------------------------------------------
Windows == GraceEnds \/ RebindGapEnds \/ RecycleAges

\* What the outside world does: nothing forces it to.
Environment ==
    \/ PathUp \/ PathDown \/ DialSucceeds \/ DialTimesOut
    \/ Netlost \/ Netback \/ NetworkChanged \/ OnWake
    \/ \E p \in Task : RecycleFails(p) \/ ProbeFails(p)

\* The steps a running goroutine takes on its own.
Step(p) ==
    \/ PausedWatchEnds(p) \/ ProbeSucceeds(p) \/ Probed(p) \/ Resume(p) \/ Release(p)
    \/ HealStart(p) \/ HealGap(p) \/ Handover(p) \/ Rebind(p)
    \/ WatchPoll(p) \/ WatchTimeout(p) \/ FinishRebind(p) \/ SoftArm(p) \/ SoftCheck(p)
    \/ RequestDropped(p) \/ RequestWhileExiting(p) \/ RequestDeferred(p) \/ RequestExhausted(p)
    \/ RequestAccepted(p) \/ RecycleStop(p) \/ RecycleStart(p) \/ RecycleReady(p)
    \/ RecycleFinish(p) \/ FailRecycle(p)

Next ==
    \/ ~exiting /\ (Windows \/ Environment \/ ZeroPaths \/ EngineUp)
    \/ NetlostHold
    \/ \E p \in Task : Step(p)

Spec == Init /\ [][Next]_vars

\* Windows end, a started engine registers its gate and goroutines keep
\* running; the watchdog's probe succeeds once the network is usable.
FairSpec ==
    /\ Spec
    /\ WF_vars(GraceEnds) /\ WF_vars(RebindGapEnds) /\ WF_vars(RecycleAges)
    /\ WF_vars(EngineUp) /\ WF_vars(NetlostHold)
    /\ \A p \in Task : WF_vars(Step(p))

\* Besides, applications keep opening connections.
BusySpec == FairSpec /\ WF_vars(ZeroPaths)

-----------------------------------------------------------------------------
(* Properties.                                                             *)

\* Every variable has the shape of its Go field.
TypeOK ==
    /\ paused \in BOOLEAN /\ pendingRecycle \in BOOLEAN /\ pendingReason \in Reason
    /\ recycling \in BOOLEAN /\ exiting \in BOOLEAN
    /\ recycles \in 0 .. MaxRecycles /\ recycleAge \in {"gap", "young", "stable"}
    /\ rebindRecent \in BOOLEAN /\ rebindInFlight \in BOOLEAN /\ pendingHandover \in BOOLEAN
    /\ dialFails \in 0 .. FailThreshold /\ grace \in BOOLEAN
    /\ gate \in {"none", "open", "held"} /\ booting \in BOOLEAN /\ hasPath \in BOOLEAN
    /\ task \in [Task -> Local]

Recycling(p) == task[p].step \in RecycleSteps

\* The engine is stopped and started by one goroutine at a time, and the flag
\* that keeps the others out is up exactly while one does.
OneRecycle ==
    /\ \A p, q \in Task : Recycling(p) /\ Recycling(q) => p = q
    /\ recycling <=> \E p \in Task : Recycling(p)

\* rebindInFlight, which makes heal leave a dead path alone, always has a
\* goroutine behind it that will judge that very rebind and lower the flag.
InFlightHasOwner ==
    rebindInFlight => \E p \in Task : task[p].step \in RebindHolders /\ task[p].current

EndsPause(p) ==
    \/ task[p].step \in {"hold", "pausedWatch", "probed"} /\ task[p].current
    \/ task[p].step = "resume"

\* The hold never depends on the host's netback alone: whenever the guard is
\* paused a goroutine of the current pause generation is there to end it.
PauseHasProbe == paused /\ ~exiting => \E p \in Task : EndsPause(p)

\* The helper never decides to exit while it is offline.
NeverFatalOffline == [][exiting' /\ ~exiting => ~paused]_vars

\* Every restart of the engine comes to an end.
RecycleEnds == recycling ~> ~recycling

\* A network change noticed during a restart is followed by a rebind of the
\* new engine, unless the helper goes offline or gives up.
HandoverPerformed ==
    pendingHandover /\ recycling
        ~> (paused \/ exiting \/ \E p \in Task : task[p].step = "rebind")

\* A pause ends without the host, unless the host keeps reporting losses.
PauseEnds == []<>(~paused \/ exiting \/ task[Host].step = "hold")

\* The host reports no more events and the network is there.
HostSettles == <>[](~paused /\ task[Host] = Idle)

\* While the data path stays dead and applications keep trying, soft rebinds
\* give way to a full restart of the engine.
DeadPathEscalates == HostSettles => []<>(hasPath \/ exiting \/ recycling)

\* Neither a restart of the engine nor a pause of its workers goes on for ever.
RecoveryEnds == RecycleEnds /\ PauseEnds
=============================================================================
