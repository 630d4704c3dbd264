------------------------------- MODULE Fleet -------------------------------
(***************************************************************************)
(* The worker fleet of the engine: one TURN path per worker (session.rs,   *)
(* worker.rs), parked and unparked by the idle monitor (idle.rs), torn     *)
(* down by a change of network (rebind.rs) and held back by the pause gate *)
(* (PauseGate).                                                            *)
(*                                                                         *)
(* idle.rs keeps its state in process-wide atomics that the monitor task,  *)
(* the packet bridge and every session read and write without a lock: each *)
(* access is one step.  A tokio Notify is modelled by whether              *)
(* notify_waiters has been called since the waiter registered.             *)
(*                                                                         *)
(* The server is outside src/: it remembers the last registration (GETCONF)*)
(* that reached it from each worker.                                       *)
(***************************************************************************)
EXTENDS Naturals, FiniteSets

CONSTANTS N,          \* TOTAL_WORKERS
          Keep,       \* IdleConfig.keep: workers 1..Keep are the keepers
          Worker,     \* ids of the workers this instance follows
          Attempts,   \* length of CONFIG_RESPONSE_TIMEOUT_MS
          MaxGen,     \* bound: GEN_OFFSET
          MaxAnnounce,\* bound: ANNOUNCE
          MaxRebind,  \* bound: rebind EPOCH
          MayPause    \* whether the host uses the pause gate in this instance

ASSUME FleetAssumption ==
    /\ N \in Nat /\ Keep \in 1 .. N - 1 /\ Worker \subseteq 1 .. N
    /\ Attempts \in Nat \ {0}
    /\ MaxGen \in Nat /\ MaxAnnounce \in Nat /\ MaxRebind \in Nat
    /\ MayPause \in BOOLEAN

VARIABLES
    limit, active, declared, genOffset, announce, joined,   \* statics of idle.rs
    mon, bridge,       \* steps of enter (monitor task) and exit (packet bridge)
    rebindEpoch,       \* EPOCH of rebind.rs; a socket belongs to the epoch it was opened in
    paused,            \* PauseGate.paused
    pc,                \* per worker: its step
    up,                \* per worker: the session is READY
    tries,             \* per worker: GETCONF attempts left
    answered,          \* per worker: the server has seen a GETCONF of this session
    sock, rebindSeen, announceSeen,   \* per worker: locals of the session
    draft,             \* per worker: the last registration built, and its offset
    idleHeard, pauseHeard, rebindHeard   \* per worker: notified since it registered

idle == <<limit, active, declared, genOffset, announce, joined, mon, bridge>>
net == <<rebindEpoch, sock, rebindSeen>>
heard == <<idleHeard, pauseHeard, rebindHeard>>
session == <<up, tries, answered, announceSeen, draft>>
vars == <<idle, net, paused, pc, session, heard>>

Gen == 0 .. MaxGen
Draft == [gen : Gen, offset : Gen, count : {Keep, N}]

Goto(w, step) == pc' = [pc EXCEPT ![w] = step]

Allows(w) == w <= limit

\* Steps during which the watches of the select are registered.
Selecting == {"rebind", "park", "news", "await"}

\* Steps during which the waiter at the gate is registered.
AtGate == {"allowed", "blocked"}

\* notify_waiters reaches the waiters that have registered.
Notify(h, steps) == [w \in Worker |-> h[w] \/ pc[w] \in steps]

NotifyIdleNobody == UNCHANGED idleHeard

NotifyIdle == idleHeard' = Notify(idleHeard, AtGate \cup Selecting)

NoDraft == [gen |-> 0, offset |-> 0, count |-> N]

\* idle::reset and the start of every worker.
Init ==
    /\ limit = N /\ active = FALSE /\ declared = N
    /\ genOffset = 0 /\ announce = 0
    /\ joined = [w \in Worker |-> 0]
    /\ mon = "poll" /\ bridge = "packet"
    /\ rebindEpoch = 0 /\ paused = FALSE
    /\ pc = [w \in Worker |-> "gate"]
    /\ up = [w \in Worker |-> FALSE]
    /\ tries = [w \in Worker |-> 0]
    /\ answered = [w \in Worker |-> FALSE]
    /\ sock = [w \in Worker |-> 0]
    /\ rebindSeen = [w \in Worker |-> 0]
    /\ announceSeen = [w \in Worker |-> 0]
    /\ draft = [w \in Worker |-> NoDraft]
    /\ idleHeard = [w \in Worker |-> FALSE]
    /\ pauseHeard = [w \in Worker |-> FALSE]
    /\ rebindHeard = [w \in Worker |-> FALSE]

-----------------------------------------------------------------------------
(* The bounds: a call that will bump GEN_OFFSET or ANNOUNCE only starts    *)
(* when the bound leaves room for it beside the calls in progress.         *)

Losing == {w \in Worker : pc[w] \in {"lost", "lostLoad", "lostCas"}}
Announcing == {w \in Worker : pc[w] = "lostAnnounce"}

RoomForEpoch ==
    genOffset + Cardinality(Losing)
        + (IF mon \in {"limit", "declared", "gen"} THEN 1 ELSE 0) < MaxGen

RoomForAnnouncement ==
    announce + Cardinality(Losing \cup Announcing)
        + (IF mon # "poll" THEN 1 ELSE 0) + (IF bridge # "packet" THEN 1 ELSE 0) < MaxAnnounce

-----------------------------------------------------------------------------
(* idle::enter, by the monitor task after a long silence.                  *)

EnterSwap ==
    /\ mon = "poll" /\ ~active
    /\ RoomForEpoch /\ RoomForAnnouncement
    /\ active' = TRUE /\ mon' = "limit"
    /\ UNCHANGED <<limit, declared, genOffset, announce, joined, bridge, net, paused, pc, session,
                   heard>>

EnterLimit ==
    /\ mon = "limit"
    /\ limit' = Keep /\ mon' = "declared"
    /\ UNCHANGED <<active, declared, genOffset, announce, joined, bridge, net, paused, pc, session,
                   heard>>

EnterDeclared ==
    /\ mon = "declared"
    /\ declared' = Keep /\ mon' = "gen"
    /\ UNCHANGED <<limit, active, genOffset, announce, joined, bridge, net, paused, pc, session,
                   heard>>

EnterGen ==
    /\ mon = "gen"
    /\ genOffset' = genOffset + 1 /\ mon' = "announce"
    /\ UNCHANGED <<limit, active, declared, announce, joined, bridge, net, paused, pc, session,
                   heard>>

\* ANNOUNCE.fetch_add, then notify_waiters.
EnterAnnounce ==
    /\ mon = "announce"
    /\ announce' = announce + 1 /\ mon' = "poll"
    /\ NotifyIdle
    /\ UNCHANGED <<limit, active, declared, genOffset, joined, bridge, net, paused, pc, session,
                   pauseHeard, rebindHeard>>

-----------------------------------------------------------------------------
(* idle::exit, by the packet bridge when note_uplink sees a burst.         *)

ExitSwap ==
    /\ bridge = "packet" /\ active
    /\ RoomForAnnouncement
    /\ active' = FALSE /\ bridge' = "limit"
    /\ UNCHANGED <<limit, declared, genOffset, announce, joined, mon, net, paused, pc, session,
                   heard>>

ExitLimit ==
    /\ bridge = "limit"
    /\ limit' = N /\ bridge' = "declared"
    /\ UNCHANGED <<active, declared, genOffset, announce, joined, mon, net, paused, pc, session,
                   heard>>

ExitDeclared ==
    /\ bridge = "declared"
    /\ declared' = N /\ bridge' = "announce"
    /\ UNCHANGED <<limit, active, genOffset, announce, joined, mon, net, paused, pc, session,
                   heard>>

ExitAnnounce ==
    /\ bridge = "announce"
    /\ announce' = announce + 1 /\ bridge' = "packet"
    /\ NotifyIdle
    /\ UNCHANGED <<limit, active, declared, genOffset, joined, mon, net, paused, pc, session,
                   pauseHeard, rebindHeard>>

-----------------------------------------------------------------------------
(* The host: csqtt_rebind after a change of network, csqtt_set_paused.     *)

RebindRequest ==
    /\ rebindEpoch < MaxRebind
    /\ rebindEpoch' = rebindEpoch + 1
    /\ rebindHeard' = Notify(rebindHeard, Selecting \cup {"connect"})
    /\ UNCHANGED <<idle, sock, rebindSeen, paused, pc, session, idleHeard, pauseHeard>>

SetPaused ==
    /\ MayPause
    /\ paused' = ~paused
    /\ pauseHeard' = Notify(pauseHeard, AtGate)
    /\ UNCHANGED <<idle, net, pc, session, idleHeard, rebindHeard>>

-----------------------------------------------------------------------------
(* PauseGate::wait_until_allowed, the top of worker_loop.                  *)

GateArm(w) ==
    /\ pc[w] = "gate"
    /\ pauseHeard' = [pauseHeard EXCEPT ![w] = FALSE]
    /\ idleHeard' = [idleHeard EXCEPT ![w] = FALSE]
    /\ Goto(w, "allowed")
    /\ UNCHANGED <<idle, net, paused, session, rebindHeard>>

GateCheck(w) ==
    /\ pc[w] = "allowed"
    /\ IF ~paused /\ Allows(w)
       THEN /\ pauseHeard' = [pauseHeard EXCEPT ![w] = FALSE]
            /\ idleHeard' = [idleHeard EXCEPT ![w] = FALSE]
            /\ Goto(w, "dial")
       ELSE Goto(w, "blocked") /\ UNCHANGED <<pauseHeard, idleHeard>>
    /\ UNCHANGED <<idle, net, paused, session, rebindHeard>>

GateWake(w) ==
    /\ pc[w] = "blocked"
    /\ pauseHeard[w] \/ idleHeard[w]
    /\ Goto(w, "gate")
    /\ UNCHANGED <<idle, net, paused, session, heard>>

\* The session is over: its watches and local variables are dropped.
EndSession(w, next) ==
    /\ up' = [up EXCEPT ![w] = FALSE]
    /\ tries' = [tries EXCEPT ![w] = 0]
    /\ answered' = [answered EXCEPT ![w] = FALSE]
    /\ announceSeen' = [announceSeen EXCEPT ![w] = 0]
    /\ draft' = [draft EXCEPT ![w] = NoDraft]
    /\ sock' = [sock EXCEPT ![w] = 0]
    /\ rebindSeen' = [rebindSeen EXCEPT ![w] = 0]
    /\ idleHeard' = [idleHeard EXCEPT ![w] = FALSE]
    /\ rebindHeard' = [rebindHeard EXCEPT ![w] = FALSE]
    /\ Goto(w, next)
    /\ UNCHANGED <<idle, rebindEpoch, paused, pauseHeard>>

-----------------------------------------------------------------------------
(* run_session: connect under the rebind watch, ChannelBind, GETCONF.      *)

\* The epoch is read, the watch registers and the socket is opened.
Dial(w) ==
    /\ pc[w] = "dial"
    /\ rebindSeen' = [rebindSeen EXCEPT ![w] = rebindEpoch]
    /\ sock' = [sock EXCEPT ![w] = rebindEpoch]
    /\ rebindHeard' = [rebindHeard EXCEPT ![w] = FALSE]
    /\ Goto(w, "connect")
    /\ UNCHANGED <<idle, rebindEpoch, paused, session, idleHeard, pauseHeard>>

Connected(w) ==
    /\ pc[w] = "connect"
    /\ rebindHeard' = [rebindHeard EXCEPT ![w] = FALSE]
    /\ Goto(w, "channel")
    /\ UNCHANGED <<idle, net, paused, session, idleHeard, pauseHeard>>

ConnectRebound(w) ==
    /\ pc[w] = "connect" /\ rebindHeard[w]
    /\ EndSession(w, "gate")

\* Allocate, ChannelBind or GETCONF fails: back to the top of worker_loop.
SetupFailed(w) ==
    /\ pc[w] \in {"connect", "channel", "sent"}
    /\ EndSession(w, "gate")

ChannelBound(w) ==
    /\ pc[w] = "channel"
    /\ tries' = [tries EXCEPT ![w] = Attempts - 1]
    /\ answered' = [answered EXCEPT ![w] = FALSE]
    /\ Goto(w, "gen")
    /\ UNCHANGED <<idle, net, paused, up, announceSeen, draft, heard>>

-----------------------------------------------------------------------------
(* build_registration_payload, then the datagram: the generation, the      *)
(* offset and the count are three reads.                                   *)

BuildGen(w) ==
    /\ pc[w] = "gen"
    /\ draft' = [draft EXCEPT ![w].gen = genOffset]
    /\ Goto(w, "offset")
    /\ UNCHANGED <<idle, net, paused, up, tries, answered, announceSeen, heard>>

BuildOffset(w) ==
    /\ pc[w] = "offset"
    /\ draft' = [draft EXCEPT ![w].offset = genOffset]
    /\ Goto(w, "count")
    /\ UNCHANGED <<idle, net, paused, up, tries, answered, announceSeen, heard>>

BuildCountThenSeen(w) ==
    /\ pc[w] = "count"
    /\ draft' = [draft EXCEPT ![w].count = declared]
    /\ announceSeen' = [announceSeen EXCEPT ![w] = announce]
    /\ Goto(w, "send")
    /\ UNCHANGED <<idle, net, paused, up, tries, answered, heard>>

BuildCount(w) ==
    /\ pc[w] = "count"
    /\ draft' = [draft EXCEPT ![w].count = declared]
    /\ Goto(w, "send")
    /\ UNCHANGED <<idle, net, paused, up, tries, answered, announceSeen, heard>>

\* The datagram reaches the server or is lost.  A READY session notes the
\* path as joined at once (note_path_joined) and goes back to its select.
SendRegistration(w) ==
    /\ pc[w] = "send"
    /\ \E delivered \in BOOLEAN :
          answered' = [answered EXCEPT ![w] = @ \/ delivered]
    /\ joined' = IF up[w] THEN [joined EXCEPT ![w] = draft[w].offset + 1] ELSE joined
    /\ Goto(w, IF up[w] THEN "select" ELSE "sent")
    /\ UNCHANGED <<limit, active, declared, genOffset, announce, mon, bridge, net, paused, up,
                   tries, announceSeen, draft, heard>>

\* request_configuration: no answer in time, try again with a new payload.
ConfigRetry(w) ==
    /\ pc[w] = "sent" /\ tries[w] > 0
    /\ tries' = [tries EXCEPT ![w] = @ - 1]
    /\ Goto(w, "gen")
    /\ UNCHANGED <<idle, net, paused, up, answered, announceSeen, draft, heard>>

\* The answer may be to an earlier attempt; the offset noted is the last one's.
ConfigReceived(w) ==
    /\ pc[w] = "sent" /\ answered[w]
    /\ joined' = [joined EXCEPT ![w] = draft[w].offset + 1]
    /\ Goto(w, "setup")
    /\ UNCHANGED <<limit, active, declared, genOffset, announce, mon, bridge, net, paused, session,
                   heard>>

\* NOCONF: the path goes READY without being noted as joined.
NoConfigReceived(w) ==
    /\ pc[w] = "sent" /\ answered[w]
    /\ Goto(w, "setup")
    /\ UNCHANGED <<idle, net, paused, session, heard>>

-----------------------------------------------------------------------------
(* run_allocated_session: READY, then the select loop.                     *)

Ready(w) ==
    /\ pc[w] = "setup"
    /\ up' = [up EXCEPT ![w] = TRUE]
    /\ tries' = [tries EXCEPT ![w] = 0]
    /\ rebindSeen' = [rebindSeen EXCEPT ![w] = rebindEpoch]
    /\ Goto(w, "seen")
    /\ UNCHANGED <<idle, rebindEpoch, sock, paused, answered, announceSeen, draft, heard>>

ReadyAnnounce(w) ==
    /\ pc[w] = "seen"
    /\ announceSeen' = [announceSeen EXCEPT ![w] = announce]
    /\ Goto(w, "select")
    /\ UNCHANGED <<idle, net, paused, up, tries, answered, draft, heard>>

\* A new round of the select: every watch registers before it looks.
SelectArm(w) ==
    /\ pc[w] = "select"
    /\ idleHeard' = [idleHeard EXCEPT ![w] = FALSE]
    /\ rebindHeard' = [rebindHeard EXCEPT ![w] = FALSE]
    /\ Goto(w, "rebind")
    /\ UNCHANGED <<idle, net, paused, session, pauseHeard>>

Continue(w, next) ==
    /\ Goto(w, next)
    /\ UNCHANGED <<idle, net, paused, session, heard>>

\* The biased select looks at the watches in this order.
SelectRebind(w) ==
    /\ pc[w] = "rebind"
    /\ IF rebindEpoch # rebindSeen[w] THEN EndSession(w, "gate") ELSE Continue(w, "park")

SelectPark(w) ==
    /\ pc[w] = "park"
    /\ IF ~Allows(w) THEN EndSession(w, "gate") ELSE Continue(w, "news")

SelectAnnounce(w) ==
    /\ pc[w] = "news"
    /\ IF announce = announceSeen[w]
       THEN Goto(w, "await") /\ UNCHANGED <<idleHeard, rebindHeard>>
       ELSE /\ idleHeard' = [idleHeard EXCEPT ![w] = FALSE]
            /\ rebindHeard' = [rebindHeard EXCEPT ![w] = FALSE]
            /\ Goto(w, "reread")
    /\ UNCHANGED <<idle, net, paused, session, pauseHeard>>

\* The announce branch: take the epoch again, then build and send a payload.
Reread(w) ==
    /\ pc[w] = "reread"
    /\ announceSeen' = [announceSeen EXCEPT ![w] = announce]
    /\ Goto(w, "gen")
    /\ UNCHANGED <<idle, net, paused, up, tries, answered, draft, heard>>

\* Asleep in the select until one of its watches is notified.
SelectWake(w) ==
    /\ pc[w] = "await"
    /\ \/ /\ rebindHeard[w]
          /\ Goto(w, "select")
          /\ UNCHANGED idleHeard
       \/ /\ ~rebindHeard[w] /\ idleHeard[w]
          /\ idleHeard' = [idleHeard EXCEPT ![w] = FALSE]
          /\ Goto(w, "park")
    /\ UNCHANGED <<idle, net, paused, session, pauseHeard, rebindHeard>>

\* The writer or the reader ends: a lost path, or a cause that
\* should_note_path_lost excludes (TURN 437, ChannelBind 400, TARGET_REPAIR).
PathDies(w) ==
    /\ pc[w] = "await"
    /\ \/ RoomForEpoch /\ RoomForAnnouncement /\ EndSession(w, "lost")
       \/ EndSession(w, "gate")

-----------------------------------------------------------------------------
(* idle::note_path_lost.                                                   *)

LostAllows(w) ==
    /\ pc[w] = "lost"
    /\ Continue(w, IF Allows(w) THEN "lostLoad" ELSE "gate")

LostLoad(w) ==
    /\ pc[w] = "lostLoad"
    /\ Continue(w, IF joined[w] = genOffset + 1 THEN "lostCas" ELSE "gate")

\* The exchange compares with the offset just loaded, which is joined - 1.
LostCas(w) ==
    /\ pc[w] = "lostCas"
    /\ IF joined[w] = genOffset + 1
       THEN /\ genOffset' = genOffset + 1
            /\ joined' = [joined EXCEPT ![w] = 0]
            /\ Goto(w, "lostAnnounce")
       ELSE /\ UNCHANGED <<genOffset, joined>>
            /\ Goto(w, "gate")
    /\ UNCHANGED <<limit, active, declared, announce, mon, bridge, net, paused, session, heard>>

LostAnnounce(w) ==
    /\ pc[w] = "lostAnnounce"
    /\ announce' = announce + 1
    /\ NotifyIdle
    /\ Goto(w, "gate")
    /\ UNCHANGED <<limit, active, declared, genOffset, joined, mon, bridge, net, paused, session,
                   pauseHeard, rebindHeard>>

-----------------------------------------------------------------------------
Monitor == EnterLimit \/ EnterDeclared \/ EnterGen \/ EnterAnnounce

Bridge == ExitLimit \/ ExitDeclared \/ ExitAnnounce

\* Steps a worker takes on its own, network outcomes included: every wait of
\* the set-up phase ends with an answer or a timeout.
WorkerStep(w) ==
    \/ GateArm(w) \/ GateCheck(w) \/ GateWake(w)
    \/ Dial(w) \/ Connected(w) \/ ConnectRebound(w) \/ SetupFailed(w) \/ ChannelBound(w)
    \/ BuildGen(w) \/ BuildOffset(w) \/ BuildCount(w) \/ SendRegistration(w)
    \/ ConfigRetry(w) \/ ConfigReceived(w) \/ NoConfigReceived(w)
    \/ Ready(w) \/ ReadyAnnounce(w)
    \/ SelectArm(w) \/ SelectRebind(w) \/ SelectPark(w) \/ SelectAnnounce(w) \/ Reread(w)
    \/ SelectWake(w)
    \/ LostAllows(w) \/ LostLoad(w) \/ LostCas(w) \/ LostAnnounce(w)

Next ==
    \/ EnterSwap \/ Monitor
    \/ ExitSwap \/ Bridge
    \/ RebindRequest \/ SetPaused
    \/ \E w \in Worker : WorkerStep(w) \/ PathDies(w)

Spec == Init /\ [][Next]_vars

\* The monitor and the bridge finish the call they are in and every worker
\* keeps running.  Nobody is forced to go idle, to send traffic, to change
\* network, to pause or to lose a path.
FairSpec ==
    /\ Spec
    /\ WF_vars(Monitor) /\ WF_vars(Bridge)
    /\ \A w \in Worker : WF_vars(WorkerStep(w))

-----------------------------------------------------------------------------
(* Properties.                                                             *)

Steps == {"gate", "allowed", "blocked", "dial", "connect", "channel", "gen", "offset", "count",
          "send", "sent", "setup", "seen", "select", "rebind", "park", "news", "reread", "await",
          "lost", "lostLoad", "lostCas", "lostAnnounce"}

\* Every variable has the shape its Rust type gives it, and a session is
\* READY only in the select loop.
TypeOK ==
    /\ limit \in {Keep, N} /\ active \in BOOLEAN /\ declared \in {Keep, N}
    /\ genOffset \in Gen /\ announce \in 0 .. MaxAnnounce
    /\ joined \in [Worker -> 0 .. MaxGen + 1]
    /\ mon \in {"poll", "limit", "declared", "gen", "announce"}
    /\ bridge \in {"packet", "limit", "declared", "announce"}
    /\ rebindEpoch \in 0 .. MaxRebind /\ paused \in BOOLEAN
    /\ pc \in [Worker -> Steps]
    /\ up \in [Worker -> BOOLEAN]
    /\ tries \in [Worker -> 0 .. Attempts - 1] /\ answered \in [Worker -> BOOLEAN]
    /\ sock \in [Worker -> 0 .. MaxRebind] /\ rebindSeen \in [Worker -> 0 .. MaxRebind]
    /\ announceSeen \in [Worker -> 0 .. MaxAnnounce]
    /\ draft \in [Worker -> Draft]
    /\ idleHeard \in [Worker -> BOOLEAN] /\ pauseHeard \in [Worker -> BOOLEAN]
    /\ rebindHeard \in [Worker -> BOOLEAN]
    /\ \A w \in Worker : pc[w] \in {"rebind", "park", "news", "reread", "await"} => up[w]

\* No enter, exit or note_path_lost is between its first write and its
\* announcement.
Quiet ==
    /\ mon = "poll" /\ bridge = "packet"
    /\ \A w \in Worker : pc[w] # "lostAnnounce"

Asleep(w) == pc[w] = "await" /\ ~idleHeard[w] /\ ~rebindHeard[w]

\* A READY session that is about to send the re-registration it was announced,
\* and has not missed a newer announcement, sends the epoch and the worker
\* count now in force: ANNOUNCE is written last by enter, exit and
\* note_path_lost and read first by the session.
AnnouncedIsCurrent ==
    \A w \in Worker :
        Quiet /\ up[w] /\ pc[w] = "send" /\ announceSeen[w] = announce =>
            draft[w].gen = genOffset /\ draft[w].count = declared

\* A READY session never sleeps through an announcement, a rebind that is
\* newer than its watch, or its own parking.
NobodySleepsThroughNews ==
    \A w \in Worker :
        Asleep(w) /\ Quiet =>
            announceSeen[w] = announce /\ rebindSeen[w] = rebindEpoch /\ Allows(w)

\* A worker that stays parked ends its session and waits at the gate.
ParkedStops == \A w \in Worker : []<>(Allows(w) \/ pc[w] = "blocked")

\* A worker that stays allowed leaves the gate: no resume and no exit from
\* idle is lost between its check and its sleep.
AllowedStarts == \A w \in Worker : []<>(~Allows(w) \/ paused \/ pc[w] # "blocked")

\* idle::reset and exit leave every worker allowed whenever idle mode is off.
ActiveTrafficUnparks == Quiet /\ ~active => \A w \in Worker : Allows(w)

\* A READY session that has nothing left to do uses a socket of the network
\* the last rebind was about.
SocketsFollowRebind == \A w \in Worker : Asleep(w) => sock[w] = rebindEpoch

\* Every variable has its type, and what a READY session registers in answer to
\* an announcement is what is in force (AnnouncedIsCurrent).
RegistrationsCurrent == TypeOK /\ AnnouncedIsCurrent

\* The gate follows the limit of idle.rs both ways: parked workers come to a
\* stop behind it, allowed ones are let through.
GateFollowsLimit == ParkedStops /\ AllowedStarts
=============================================================================
