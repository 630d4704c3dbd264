-------------------------------- MODULE Engine --------------------------------
(***************************************************************************)
(* The engine as the helper process sees it: csqtt_engine_start and        *)
(* csqtt_engine_stop (ffi.rs), the prologue, select loop and epilogue of   *)
(* run (lib.rs), and the goodbye to the server (ShutdownCoordinator and    *)
(* signal_stop_disconnect, session.rs).                                    *)
(*                                                                         *)
(* One process holds the statics; every start spawns a thread with an      *)
(* engine of its own, so an engine that is still closing, or one that a    *)
(* stop did not reach, shares the statics with its successor.              *)
(*                                                                         *)
(* A session is here what it is to the coordinator and to the path count:  *)
(* its traffic is the subject of other modules.  Timers may run out at any *)
(* moment.                                                                 *)
(***************************************************************************)
EXTENDS Integers, FiniteSets

CONSTANTS MaxStart,     \* bound: engines ever started
          Stream,       \* workers of an engine
          MaxUps,       \* bound: sessions ever brought up
          MaxSignals    \* bound: stop events of the host

Eng == 1 .. MaxStart
None == 0

\* Who may run request_disconnect: the select loop of run, or a session.
Loop == "loop"
Nobody == "nobody"

ASSUME ConstantsAssumption ==
    /\ MaxStart \in Nat /\ MaxUps \in Nat /\ MaxSignals \in Nat
    /\ IsFiniteSet(Stream) /\ Loop \notin Stream /\ Nobody \notin Stream

VARIABLES eng,           \* engine -> its thread, token, sessions and coordinator
          ENGINE_CANCEL, \* the engine whose token the static holds
          ENGINE_PAUSE,  \* the engine whose pause gate the static holds
          uplink,        \* the engine whose bridge is installed
          ACTIVE_PATHS,
          STOP_FLAG, STOP_DONE,
          host,          \* the helper: its place, and the stop events of its host
          history        \* what the properties remember

statics == <<ENGINE_CANCEL, ENGINE_PAUSE, uplink, ACTIVE_PATHS, STOP_FLAG, STOP_DONE>>
vars == <<eng, statics, host, history>>

Unstarted ==
    [stage |-> "none", cancelled |-> FALSE, bridge |-> FALSE,
     session |-> [s \in Stream |-> "down"],
     active |-> FALSE, completed |-> FALSE,  \* ShutdownState
     leader |-> Nobody, at |-> "idle", left |-> {}]  \* its request_disconnect

Running(e) == eng[e].stage \in {"loop", "goodbye"}
Up(e) == {s \in Stream : eng[e].session[s] # "down"}
Ended(e) == eng[e].stage \in {"none", "failed", "ended"}

\* Every session between ActiveConnection::new and its drop.
SessionsUp == UNION {{<<e, s>> : s \in Up(e)} : e \in Eng}

-----------------------------------------------------------------------------
(* The helper.                                                             *)

\* csqtt_engine_start: clears what the last engine left and spawns a thread.
csqtt_engine_start(e) ==
    /\ host.at \in {"off", "settled"}
    /\ eng[e].stage = "none" /\ \A o \in Eng : o < e => eng[o].stage # "none"
    /\ eng' = [eng EXCEPT ![e].stage = "prologue"]
    /\ uplink' = None
    /\ host' = [host EXCEPT !.at = "started"]
    /\ history' = [history EXCEPT !.overlap = @ \/ \E o \in Eng : ~Ended(o)]
    /\ UNCHANGED <<ENGINE_CANCEL, ENGINE_PAUSE, ACTIVE_PATHS, STOP_FLAG, STOP_DONE>>

\* recycle, up to the end of its settling time: csqtt_engine_stop.  The engine did
\* not get ready or its data path died; csqtt_engine_wait_ready only reads TUN_IP
\* and the bridge, so the helper may give up at any moment.
csqtt_engine_stop ==
    /\ host.at = "started"
    /\ ENGINE_PAUSE' = None
    /\ uplink' = None
    /\ eng' = [e \in Eng |-> [eng[e] EXCEPT
                  !.cancelled = @ \/ (ENGINE_CANCEL = e /\ ~Ended(e))]]
    /\ host' = [host EXCEPT !.at = "settled"]
    /\ history' = [history EXCEPT !.missed = @ \/ \E e \in Eng : eng[e].stage = "prologue"]
    /\ UNCHANGED <<ENGINE_CANCEL, ACTIVE_PATHS, STOP_FLAG, STOP_DONE>>

\* The host's stop event: signal_stop_disconnect.  Its wait for STOP_DONE, at
\* most 800 ms, changes nothing.
signal_stop_disconnect ==
    /\ host.signals < MaxSignals
    /\ STOP_DONE' = FALSE /\ STOP_FLAG' = TRUE
    /\ host' = [host EXCEPT !.signals = @ + 1]
    /\ UNCHANGED <<eng, ENGINE_CANCEL, ENGINE_PAUSE, uplink, ACTIVE_PATHS, history>>

-----------------------------------------------------------------------------
(* run: the prologue.                                                      *)

\* An argument is refused, the peer's name does not resolve, the calls of
\* Auto JS cannot be started: nothing has been published yet.
PrologueFails(e) ==
    /\ eng[e].stage = "prologue"
    /\ eng' = [eng EXCEPT ![e].stage = "failed"]
    /\ UNCHANGED <<statics, host, history>>

SetUpKeepsFirstToken(e) ==
    /\ eng[e].stage = "prologue"
    /\ eng' = [eng EXCEPT ![e].stage = "setup"]
    /\ ENGINE_CANCEL' = IF ENGINE_CANCEL = None THEN e ELSE ENGINE_CANCEL
    /\ ACTIVE_PATHS' = 0 /\ ENGINE_PAUSE' = e /\ uplink' = None
    /\ history' = [history EXCEPT !.forgotten = Cardinality(SessionsUp)]
    /\ UNCHANGED <<STOP_FLAG, STOP_DONE, host>>

\* The peer is resolved: the token is published, ACTIVE_PATHS.store(0), the
\* pause gate is published, the bridge is cleared.
SetUp(e) ==
    /\ eng[e].stage = "prologue"
    /\ eng' = [eng EXCEPT ![e].stage = "setup"]
    /\ ENGINE_CANCEL' = e /\ ACTIVE_PATHS' = 0 /\ ENGINE_PAUSE' = e /\ uplink' = None
    /\ history' = [history EXCEPT !.forgotten = Cardinality(SessionsUp)]
    /\ UNCHANGED <<STOP_FLAG, STOP_DONE, host>>

\* Dispatcher::start installs the bridge and spawns its reader and writer.
StartDispatcher(e) ==
    /\ eng[e].stage = "setup"
    /\ eng' = [eng EXCEPT ![e].stage = "loop", ![e].bridge = TRUE]
    /\ uplink' = e
    /\ UNCHANGED <<ENGINE_CANCEL, ENGINE_PAUSE, ACTIVE_PATHS, STOP_FLAG, STOP_DONE, host, history>>

\* Dispatcher::start fails: run returns without clearing ENGINE_PAUSE.
DispatcherFails(e) ==
    /\ eng[e].stage = "setup"
    /\ eng' = [eng EXCEPT ![e].stage = "failed"]
    /\ UNCHANGED <<statics, host, history>>

-----------------------------------------------------------------------------
(* Sessions, as the coordinator sees them.                                 *)

\* run_allocated_session registers: ActiveConnection, ShutdownRegistration.
SessionUp(e, s) ==
    /\ Running(e) /\ ~eng[e].cancelled /\ eng[e].session[s] = "down"
    /\ history.ups < MaxUps
    /\ eng' = [eng EXCEPT ![e].session[s] = "up"]
    /\ ACTIVE_PATHS' = ACTIVE_PATHS + 1
    /\ history' = [history EXCEPT !.ups = @ + 1]
    /\ UNCHANGED <<ENGINE_CANCEL, ENGINE_PAUSE, uplink, STOP_FLAG, STOP_DONE, host>>

\* The drops at the end of run_allocated_session, also when it is aborted: a
\* leader's request_disconnect goes with it, and a writer that is gone takes no
\* more commands.
WithoutSession(r, s) ==
    LET leads == r.leader = s
    IN  [r EXCEPT !.session[s] = "down",
                  !.leader = IF leads THEN Nobody ELSE @,
                  !.at = IF leads THEN "idle" ELSE @,
                  !.left = IF leads THEN {} ELSE @ \ {s}]

SessionDropsUncounted(e, s) ==
    /\ eng' = [eng EXCEPT ![e] = WithoutSession(@, s)]
    /\ UNCHANGED <<statics, host, history>>

SessionDrops(e, s) ==
    /\ eng' = [eng EXCEPT ![e] = WithoutSession(@, s)]
    /\ ACTIVE_PATHS' = ACTIVE_PATHS - 1
    /\ UNCHANGED <<ENGINE_CANCEL, ENGINE_PAUSE, uplink, STOP_FLAG, STOP_DONE, host, history>>

\* The path is lost, parked, repaired or rebound.
SessionLost(e, s) == eng[e].session[s] = "up" /\ SessionDrops(e, s)

\* await_session_task: the grace of a cancelled session is over, abort.
SessionAborted(e, s) ==
    /\ eng[e].cancelled /\ eng[e].session[s] # "down"
    /\ SessionDrops(e, s)

-----------------------------------------------------------------------------
(* ShutdownCoordinator.                                                    *)

\* control_streams: until the goodbye has begun every session that is up is
\* registered; afterwards register adds none.  The order, most recently active
\* first, is left open.
control_streams(r) == {s \in Stream : r.session[s] # "down"}

\* The leader returns from request_disconnect: complete.
Finished(r) ==
    IF r.leader = Loop
    THEN [r EXCEPT !.completed = TRUE, !.leader = Nobody, !.at = "idle", !.left = {}, !.stage = "loop"]
    ELSE [WithoutSession(r, r.leader) EXCEPT !.completed = TRUE]

Leads(r) == r.leader # Nobody

\* The leader turns to its next stream: is_completed and the deadline are
\* looked at before the command is sent.
Turned(r, budget) ==
    IF r.left = {} \/ r.completed \/ ~budget THEN Finished(r) ELSE [r EXCEPT !.at = "send"]

\* request_disconnect, its first critical section and the leader's first turn.
Entered(r, who) ==
    IF r.active THEN r
    ELSE Turned([r EXCEPT !.active = TRUE, !.completed = FALSE, !.leader = who,
                          !.left = control_streams(r)], TRUE)

\* What the end of request_disconnect does to the statics.
LeaderStep(e, r) ==
    /\ eng' = [eng EXCEPT ![e] = r]
    /\ STOP_DONE' = (STOP_DONE \/ (eng[e].leader = Loop /\ r.leader = Nobody))
    /\ ACTIVE_PATHS' = ACTIVE_PATHS - Cardinality(control_streams(eng[e]) \ control_streams(r))
    /\ UNCHANGED <<ENGINE_CANCEL, ENGINE_PAUSE, uplink, STOP_FLAG, host, history>>

\* send_writer_bytes to the next stream is delivered.
LeaderSends(e) ==
    /\ eng[e].at = "send"
    /\ \E s \in eng[e].left : LeaderStep(e, [eng[e] EXCEPT !.at = "wait", !.left = @ \ {s}])

\* The writer is gone or does not take the command in time.
LeaderSkips(e) ==
    /\ eng[e].at = "send"
    /\ \E s \in Stream, budget \in BOOLEAN :
          /\ s \in eng[e].left \/ eng[e].left = {}
          /\ LeaderStep(e, Turned([eng[e] EXCEPT !.left = @ \ {s}], budget))

\* wait_until_completed of the leader: answered, or DISCONNECT_ATTEMPT over.
LeaderWaited(e) ==
    /\ eng[e].at = "wait"
    /\ \E budget \in BOOLEAN : LeaderStep(e, Turned(eng[e], budget))

\* The session's select loop sees the cancellation.
SessionCancelled(e, s) ==
    /\ eng[e].cancelled /\ eng[e].session[s] = "up"
    /\ eng' = [eng EXCEPT ![e] = Entered([@ EXCEPT !.session[s] = "goodbye"], s)]
    /\ UNCHANGED <<statics, host, history>>

FollowerNeedsAnswer(e, s) ==
    /\ eng[e].session[s] = "goodbye" /\ eng[e].leader # s /\ eng[e].completed
    /\ SessionDrops(e, s)

\* A follower's wait_until_completed: completed, or two seconds have passed.
FollowerReturns(e, s) ==
    /\ eng[e].session[s] = "goodbye" /\ eng[e].leader # s
    /\ SessionDrops(e, s)

LoopFollowerNeedsAnswer(e) ==
    /\ eng[e].stage = "goodbye" /\ eng[e].leader # Loop /\ eng[e].completed
    /\ eng' = [eng EXCEPT ![e].stage = "loop"]
    /\ STOP_DONE' = TRUE
    /\ UNCHANGED <<ENGINE_CANCEL, ENGINE_PAUSE, uplink, ACTIVE_PATHS, STOP_FLAG, host, history>>

LoopFollowerReturns(e) ==
    /\ eng[e].stage = "goodbye" /\ eng[e].leader # Loop
    /\ eng' = [eng EXCEPT ![e].stage = "loop"]
    /\ STOP_DONE' = TRUE
    /\ UNCHANGED <<ENGINE_CANCEL, ENGINE_PAUSE, uplink, ACTIVE_PATHS, STOP_FLAG, host, history>>

\* observe_control_response by the reader of s: OK:disconnected or DENIED.
Answered(e, s) ==
    /\ eng[e].session[s] # "down" /\ eng[e].active /\ ~eng[e].completed
    /\ eng' = [eng EXCEPT ![e].completed = TRUE]
    /\ UNCHANGED <<statics, host, history>>

-----------------------------------------------------------------------------
(* run: the select loop and the epilogue.                                  *)

\* stop_disconnect_requested: whichever loop swaps the flag first.
StopRequested(e) ==
    /\ eng[e].stage = "loop" /\ STOP_FLAG
    /\ STOP_FLAG' = FALSE
    /\ eng' = [eng EXCEPT ![e] = Entered([@ EXCEPT !.stage = "goodbye"], Loop)]
    /\ STOP_DONE' = (STOP_DONE \/ eng'[e].stage = "loop")
    /\ UNCHANGED <<ENGINE_CANCEL, ENGINE_PAUSE, uplink, ACTIVE_PATHS, host, history>>

\* The parent process is gone, has closed the control channel or says STOP, or
\* ctrl-c: every engine has its own start_parent_monitor and start_control_input.
CancelledFromOutside(e) ==
    /\ eng[e].stage \in {"setup", "loop", "goodbye"} /\ ~eng[e].cancelled
    /\ eng' = [eng EXCEPT ![e].cancelled = TRUE]
    /\ UNCHANGED <<statics, host, history>>

\* The loop sees the cancellation: ENGINE_PAUSE = None, whoever set it last.
BeginEpilogue(e) ==
    /\ eng[e].stage = "loop" /\ eng[e].cancelled
    /\ eng' = [eng EXCEPT ![e].stage = "closing"]
    /\ ENGINE_PAUSE' = None
    /\ UNCHANGED <<ENGINE_CANCEL, uplink, ACTIVE_PATHS, STOP_FLAG, STOP_DONE, host, history>>

\* The last worker has returned, its call being gone: run_groups ends, and run
\* cancels its own token.
GroupsEnd(e) ==
    /\ eng[e].stage = "loop" /\ ~eng[e].cancelled /\ Up(e) = {}
    /\ eng' = [eng EXCEPT ![e].stage = "closing", ![e].cancelled = TRUE]
    /\ ENGINE_PAUSE' = None
    /\ UNCHANGED <<ENGINE_CANCEL, uplink, ACTIVE_PATHS, STOP_FLAG, STOP_DONE, host, history>>

\* The bridge writer sees the cancellation: clear_bridge, whoever set it last.
BridgeEnds(e) ==
    /\ eng[e].bridge /\ eng[e].cancelled
    /\ eng' = [eng EXCEPT ![e].bridge = FALSE]
    /\ uplink' = None
    /\ UNCHANGED <<ENGINE_CANCEL, ENGINE_PAUSE, ACTIVE_PATHS, STOP_FLAG, STOP_DONE, host, history>>

\* The groups and the dispatcher have ended: abort the tasks, say stopped,
\* drop everything.
EndEngine(e) ==
    /\ eng[e].stage = "closing" /\ Up(e) = {} /\ ~eng[e].bridge
    /\ eng' = [eng EXCEPT ![e] = [Unstarted EXCEPT !.stage = "ended"]]
    /\ UNCHANGED <<statics, host, history>>

-----------------------------------------------------------------------------
Init ==
    /\ eng = [e \in Eng |-> Unstarted]
    /\ ENGINE_CANCEL = None /\ ENGINE_PAUSE = None /\ uplink = None
    /\ ACTIVE_PATHS = 0
    /\ STOP_FLAG = FALSE /\ STOP_DONE = FALSE
    /\ host = [at |-> "off", signals |-> 0]
    /\ history = [missed |-> FALSE, overlap |-> FALSE, forgotten |-> 0, ups |-> 0]

HostStep ==
    \/ \E e \in Eng : csqtt_engine_start(e)
    \/ csqtt_engine_stop \/ signal_stop_disconnect

Prologue(e) ==
    PrologueFails(e) \/ SetUp(e) \/ StartDispatcher(e) \/ DispatcherFails(e)

Leading(e) == LeaderSends(e) \/ LeaderSkips(e) \/ LeaderWaited(e)

Closing(e) == BeginEpilogue(e) \/ BridgeEnds(e) \/ EndEngine(e)

SessionStep(e, s) ==
    \/ SessionUp(e, s) \/ SessionLost(e, s)
    \/ SessionAborted(e, s) \/ SessionCancelled(e, s) \/ FollowerReturns(e, s) \/ Answered(e, s)

Next ==
    \/ HostStep
    \/ \E e \in Eng : \/ Prologue(e) \/ Leading(e) \/ Closing(e)
                      \/ StopRequested(e) \/ CancelledFromOutside(e) \/ LoopFollowerReturns(e)
                      \/ GroupsEnd(e)
                      \/ \E s \in Stream : SessionStep(e, s)

Spec == Init /\ [][Next]_vars

\* What an engine's tasks do on their own: they are scheduled, and their timers
\* run out.
Progress(e) ==
    \/ Prologue(e) \/ Leading(e) \/ Closing(e) \/ StopRequested(e) \/ LoopFollowerReturns(e)
    \/ \E s \in Stream : SessionCancelled(e, s) \/ FollowerReturns(e, s)

FairSpec == Spec /\ \A e \in Eng : WF_vars(Progress(e))

-----------------------------------------------------------------------------
(* Properties.                                                             *)

\* Every variable has the shape of its Rust type; ACTIVE_PATHS is signed, and
\* only a leader that still exists is in the middle of a goodbye.
TypeOK ==
    /\ \A e \in Eng :
          /\ eng[e].stage \in {"none", "prologue", "setup", "loop", "goodbye",
                               "closing", "ended", "failed"}
          /\ eng[e].session \in [Stream -> {"down", "up", "goodbye"}]
          /\ eng[e].left \subseteq control_streams(eng[e])
          /\ eng[e].leader \in Stream \cup {Loop, Nobody}
          /\ eng[e].leader = Loop => eng[e].stage = "goodbye"
          /\ eng[e].leader \in Stream => eng[e].session[eng[e].leader] = "goodbye"
          /\ eng[e].at \in (IF Leads(eng[e]) THEN {"send", "wait"} ELSE {"idle"})
    /\ {ENGINE_CANCEL, ENGINE_PAUSE, uplink} \subseteq Eng \cup {None}
    /\ ACTIVE_PATHS \in Int
    /\ host.at \in {"off", "started", "settled"}

\* An engine that runs on out of csqtt_engine_stop's reach is the price of a
\* stop that found an engine in its prologue, never of anything else.
StopMissesOnlyPrologues ==
    (\E e \in Eng : Running(e) /\ ~eng[e].cancelled /\ ENGINE_CANCEL # e) => history.missed

\* While no engine is started before its predecessor has ended, a running engine
\* that nobody has cancelled owns every static: the host's stop and pause reach
\* it and its bridge is the one installed.
SoleEngineOwnsStatics ==
    ~history.overlap =>
        \A e \in Eng : Running(e) /\ ~eng[e].cancelled =>
            ENGINE_CANCEL = e /\ ENGINE_PAUSE = e /\ uplink = e

\* ACTIVE_PATHS counts the sessions that are up, but for those of an earlier
\* engine that were up when SetUp reset the count: they are deducted for good.
PathsExact == ACTIVE_PATHS = Cardinality(SessionsUp) - history.forgotten

\* The bridge never belongs to an engine whose bridge tasks have ended, so an
\* injected packet is not queued where nobody reads.
BridgeIsServed == uplink # None => eng[uplink].bridge

\* A cancelled engine ends: neither a goodbye nobody answers, nor a leader
\* aborted in the middle of it, keeps its sessions or its loop for ever.
CancelledEnds == []<>(\A e \in Eng : eng[e].cancelled => Ended(e))

\* A stop event of the host that finds an engine running is taken up and the
\* goodbye comes to an end, or the engine is on its way out: also when the
\* token is cancelled at the same moment and a session leads the goodbye.
StopAnswered ==
    []<>(/\ STOP_FLAG => \A e \in Eng : ~Running(e)
         /\ \A e \in Eng : eng[e].stage # "goodbye")

\* An engine says goodbye once: whoever asks later follows, an answer is never
\* forgotten, and nobody takes over from a leader that was aborted.
GoodbyeOnce ==
    [][\A e \in Eng : eng[e].active /\ ~Ended(e)' =>
          /\ eng[e].completed => eng'[e].completed
          /\ eng'[e].leader \in {eng[e].leader, Nobody}]_vars

\* The statics of the process serve the right engine: they are well typed, a
\* sole engine owns them all, a stop misses nobody but an engine in its prologue
\* and the installed bridge has readers.
StaticsOwned == TypeOK /\ SoleEngineOwnsStatics /\ StopMissesOnlyPrologues /\ BridgeIsServed

\* A stop of the host ends in a goodbye that is said once and comes to an end.
GoodbyeSaid == StopAnswered /\ GoodbyeOnce
=============================================================================
